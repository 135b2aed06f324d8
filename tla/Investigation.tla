---------------------------- MODULE Investigation ----------------------------
(***************************************************************************)
(* One Stage 2 investigation: the LangGraph loop of src/app/agent/graph.py *)
(* (load_context, investigate <-> tools, persist_findings) with the tools  *)
(* of src/app/agent/tools.py that change its state, run to the end by      *)
(* execute_investigation of src/app/agent/runner.py.                       *)
(*                                                                         *)
(* The model decides what every turn says and costs; the code decides      *)
(* whether there is another turn and what is left behind afterwards.       *)
(*                                                                         *)
(* A hypothesis is identified by its position in `hyps`, which is also its *)
(* revision: record_hypothesis only ever appends.                          *)
(***************************************************************************)
EXTENDS Findings, Integers, FiniteSets

CONSTANTS
    Candidate,        \* the candidate under investigation
    CandidatePattern, \* its category and the event names of its leads
    CandidateNode,    \* its node
    ValidPatterns,    \* the patterns whose category is in VALID_CATEGORIES
    IterationCaps,    \* values settings.max_agent_iterations may have
    RecursionLimit,   \* recursion_limit given to graph.invoke
    CostCap,          \* STAGE2_COST_CAP_USD, in the unit of TurnCosts
    TurnCosts,        \* what one model call may cost
    Turns,            \* the sequences of tool calls one answer may hold
    PriorFindings,    \* findings tables an investigation may start from
    PriorFeedback     \* feedback tables an investigation may start from

\* What the model may write in the status argument of record_hypothesis.
SaidStatus == {"ready", "Ready", "investigating", "confirmed"}

Hypotheses == [pattern : ValidPatterns, node : NodeNames,
               status : {"ready", "investigating"}]

(***************************************************************************)
(* A tool call.  "evidence" is any call that only reads and answers, which *)
(* includes check_suppression and calls answered with an error message.    *)
(***************************************************************************)
Calls == [tool : {"evidence"}]
   \cup [tool : {"record"}, pattern : Patterns, node : NodeNames, said : SaidStatus]
   \cup [tool : {"conclude"}, outcome : {"confirmed", "refuted"}, summary : BOOLEAN]

ASSUME CandidateAssumption ==
    /\ Candidate # "earlier"
    /\ CandidatePattern \in ValidPatterns
    /\ CandidateNode \in NodeNames
ASSUME PatternsAssumption == ValidPatterns \subseteq Patterns
ASSUME BoundsAssumption ==
    /\ IterationCaps \subseteq Nat \ {0}
    /\ RecursionLimit \in Nat \ {0}
    /\ CostCap \in Nat \ {0}
    /\ TurnCosts \subseteq Nat
ASSUME TurnsAssumption == Turns \subseteq Seq(Calls)

Rows == [sig : Signatures, status : FindingStatus, cand : {Candidate, "earlier"},
         rev : Nat]

ASSUME PriorAssumption ==
    /\ PriorFindings \subseteq Seq(Rows)
    /\ PriorFeedback \subseteq SUBSET FeedbackRows
    /\ \A rows \in PriorFindings :
          /\ OneOpenPerSignature(rows)
          /\ \A i \in DOMAIN rows : rows[i].cand = "earlier"

VARIABLES
    pc,                \* the graph node about to run, or the runner's last steps
    supersteps,        \* supersteps the graph has run, the hidden __start__ included
    iteration,         \* AgentState
    max_iterations,    \* AgentState: the settings' cap when the runner began
    cost,              \* AgentState: estimate of the four token counters
    hyps,              \* AgentState: hypotheses
    ready_to_conclude, \* AgentState
    conclusion,        \* AgentState: conclusion_outcome and conclusion_summary
    stop_reason,       \* AgentState
    calls,             \* tool calls of the last answer not executed yet
    concludes,         \* conclude_investigation calls in the running tools step
    queue,             \* hypotheses persist_findings has still to store
    sink,              \* usage_sink: cost and iterations kept by the runner
    billed,            \* what the provider has charged (history variable)
    leads,             \* whether the candidate row has leads
    before,            \* the findings table when the session began (never changes)
    findings,          \* the findings table as this connection sees it
    feedback,          \* the feedback table as this connection sees it
    row                \* the candidate row as this connection sees it

graphVars == <<supersteps, iteration, cost, hyps, ready_to_conclude, conclusion,
               stop_reason, calls, concludes, queue>>
dbVars    == <<findings, feedback, row>>
fixedVars == <<leads, max_iterations, before>>
vars      == <<pc, graphVars, sink, billed, fixedVars, dbVars>>

GraphNodes == {"load_context", "investigate", "tools", "persist_findings"}

\* The candidate row as start_investigation left it.
Unrecorded == [status |-> "investigating", error |-> FALSE, cost |-> 0, iterations |-> 0]

\* "none" stands for the empty string of the initial state.
NoConclusion == [outcome |-> "none", summary |-> FALSE]

Init ==
    /\ pc = "load_context"
    /\ supersteps = 1
    /\ iteration = 0
    /\ cost = 0
    /\ hyps = <<>>
    /\ ready_to_conclude = FALSE
    /\ conclusion = NoConclusion
    /\ stop_reason = "none"
    /\ calls = <<>>
    /\ concludes = 0
    /\ queue = {}
    /\ sink = [cost |-> 0, iterations |-> 0]
    /\ billed = 0
    /\ leads \in BOOLEAN
    /\ max_iterations \in IterationCaps
    /\ before \in PriorFindings
    /\ findings = before
    /\ feedback \in PriorFeedback
    /\ row = Unrecorded

-----------------------------------------------------------------------------
(* Predicates of the routers and of persist_findings.                      *)

_over_cost_cap == cost >= CostCap

\* Variants named Faulty... are plausible mistakes in the definition that
\* follows; the README says which property rejects which.
FaultyOutOfTurns == iteration > max_iterations

OutOfTurns == iteration >= max_iterations

_stop_reason ==
    CASE ready_to_conclude -> "concluded"
      [] ~ready_to_conclude /\ _over_cost_cap -> "cost_cap"
      [] ~ready_to_conclude /\ ~_over_cost_cap /\ OutOfTurns -> "iteration_cap"
      [] OTHER -> "no_tool_calls"

Ready == {i \in DOMAIN hyps : hyps[i].status = "ready"}

\* The dictionary key of _latest_working_hypotheses: the raw node, not the
\* normalised one of the signature.
SameKey(i, j) ==
    hyps[i].pattern = hyps[j].pattern /\ hyps[i].node = hyps[j].node

FaultyFirstWorkingHypotheses ==
    {i \in DOMAIN hyps \ Ready :
        \A j \in DOMAIN hyps \ Ready : SameKey(i, j) => j >= i}

_latest_working_hypotheses ==
    {i \in DOMAIN hyps \ Ready :
        \A j \in DOMAIN hyps \ Ready : SameKey(i, j) => j <= i}

\* A dictionary keeps the place of a key's first insertion.
SeenNoLater(i, j) ==
    \E k \in DOMAIN hyps \ Ready :
        SameKey(i, k) /\ \A l \in DOMAIN hyps \ Ready : SameKey(j, l) => k <= l

\* The loop over `ready` goes in recording order, the one over the partials in
\* dictionary order.
IsNext(i) ==
    \A j \in queue : IF Ready # {} THEN i <= j ELSE SeenNoLater(i, j)

SignatureOf(i) == compute_signature(hyps[i].pattern, hyps[i].node)

concluded_confirmed == conclusion.outcome = "confirmed"

RuledOut ==
    /\ ready_to_conclude
    /\ conclusion.summary
    /\ ~concluded_confirmed

FaultyKeepsPartials == _stop_reason # "no_tool_calls"

KeepsPartials ==
    \/ _stop_reason \in {"cost_cap", "iteration_cap"}
    \/ _stop_reason = "concluded" /\ concluded_confirmed

ToPersist ==
    IF Ready # {} THEN Ready
    ELSE IF KeepsPartials THEN _latest_working_hypotheses ELSE {}

-----------------------------------------------------------------------------
(* The graph.  The limit is tested before every superstep, and once more   *)
(* before the graph finds that no node is left to run.                     *)

WithinLimit == supersteps <= RecursionLimit

Step(node) ==
    /\ pc = node
    /\ WithinLimit
    /\ supersteps' = supersteps + 1

load_context ==
    /\ Step("load_context")
    /\ pc' = "investigate"
    /\ UNCHANGED <<iteration, cost, hyps, ready_to_conclude, conclusion, stop_reason,
                   calls, concludes, queue, sink, billed, fixedVars, dbVars>>

FaultyRouteAfterInvestigate(turn) ==
    IF turn # <<>> /\ cost' < CostCap THEN "tools" ELSE "persist_findings"

\* Tool calls always run, whatever this turn cost.
route_after_investigate(turn) == IF turn # <<>> THEN "tools" ELSE "persist_findings"

investigate(charge, turn) ==
    /\ Step("investigate")
    /\ iteration' = iteration + 1
    /\ cost' = cost + charge
    /\ billed' = billed + charge
    /\ sink' = [cost |-> sink.cost + charge, iterations |-> iteration + 1]
    /\ calls' = turn
    /\ pc' = route_after_investigate(turn)
    /\ UNCHANGED <<hyps, ready_to_conclude, conclusion, stop_reason, concludes, queue,
                   fixedVars, dbVars>>

ToolNode ==
    /\ Step("tools")
    /\ concludes' = 0
    /\ pc' = "calls"
    /\ UNCHANGED <<iteration, cost, hyps, ready_to_conclude, conclusion, stop_reason,
                   calls, queue, sink, billed, fixedVars, dbVars>>

FaultyNormalizedStatus(said) == said

NormalizedStatus(said) ==
    IF said \in {"ready", "Ready"} THEN "ready" ELSE "investigating"

\* An off-enum category is answered with a message and records nothing.
record_hypothesis(call) ==
    /\ hyps' = IF call.pattern \in ValidPatterns
               THEN Append(hyps, [pattern |-> call.pattern, node |-> call.node,
                                  status |-> NormalizedStatus(call.said)])
               ELSE hyps
    /\ UNCHANGED <<ready_to_conclude, conclusion, concludes>>

conclude_investigation(call) ==
    /\ ready_to_conclude' = TRUE
    /\ conclusion' = [outcome |-> call.outcome, summary |-> call.summary]
    /\ concludes' = concludes + 1
    /\ UNCHANGED hyps

\* db_lock runs the calls of a turn one at a time.
ToolCall ==
    /\ pc = "calls"
    /\ calls # <<>>
    /\ calls' = Tail(calls)
    /\ LET call == Head(calls) IN
          \/ /\ call.tool = "evidence"
             /\ UNCHANGED <<hyps, ready_to_conclude, conclusion, concludes>>
          \/ call.tool = "record" /\ record_hypothesis(call)
          \/ call.tool = "conclude" /\ conclude_investigation(call)
    /\ UNCHANGED <<pc, supersteps, iteration, cost, stop_reason, queue, sink, billed,
                   fixedVars, dbVars>>

FaultyRouteWithoutCap ==
    IF ready_to_conclude \/ OutOfTurns THEN "persist_findings" ELSE "investigate"

FaultyRouteWithoutConclusion ==
    IF _over_cost_cap \/ OutOfTurns THEN "persist_findings" ELSE "investigate"

route_after_tools ==
    IF ready_to_conclude \/ _over_cost_cap \/ OutOfTurns
    THEN "persist_findings"
    ELSE "investigate"

\* As if the runner caught only what a call raises: the graph's own refusal
\* then ends the thread with the candidate row still open.
FaultyEndTools ==
    /\ pc = "calls"
    /\ calls = <<>>
    /\ concludes <= 1
    /\ pc' = route_after_tools
    /\ UNCHANGED <<graphVars, sink, billed, fixedVars, dbVars>>

\* Two conclude_investigation calls in one step write one channel twice, which
\* the graph refuses.
EndTools ==
    /\ pc = "calls"
    /\ calls = <<>>
    /\ pc' = IF concludes > 1 THEN "fail" ELSE route_after_tools
    /\ UNCHANGED <<graphVars, sink, billed, fixedVars, dbVars>>

-----------------------------------------------------------------------------
(* persist_findings, one stored hypothesis at a time.                      *)

persist_refutation ==
    insert_finding(findings, compute_signature(CandidatePattern, CandidateNode),
                   "no_issue", Candidate, 0)

persist_hypothesis(i) ==
    IF Blocked(findings, feedback, SignatureOf(i))
    THEN findings
    ELSE insert_finding(findings, SignatureOf(i), "open", Candidate, i)

persist_partial(i) ==
    IF Blocked(findings, feedback, SignatureOf(i))
    THEN findings
    ELSE insert_finding(findings, SignatureOf(i), "partial", Candidate, i)

persist_findings ==
    /\ Step("persist_findings")
    /\ stop_reason' = _stop_reason
    /\ queue' = ToPersist
    /\ findings' = IF Ready = {} /\ RuledOut /\ leads THEN persist_refutation
                   ELSE findings
    /\ pc' = "persisting"
    /\ UNCHANGED <<iteration, cost, hyps, ready_to_conclude, conclusion, calls,
                   concludes, sink, billed, fixedVars, feedback, row>>

PersistNext(i) ==
    /\ pc = "persisting"
    /\ i \in queue
    /\ IsNext(i)
    /\ findings' = IF Ready # {} THEN persist_hypothesis(i) ELSE persist_partial(i)
    /\ queue' = queue \ {i}
    /\ UNCHANGED <<pc, supersteps, iteration, cost, hyps, ready_to_conclude, conclusion,
                   stop_reason, calls, concludes, sink, billed, fixedVars, feedback, row>>

EndGraph ==
    /\ pc = "persisting"
    /\ queue = {}
    /\ WithinLimit
    /\ pc' = "complete"
    /\ UNCHANGED <<graphVars, sink, billed, fixedVars, dbVars>>

-----------------------------------------------------------------------------
(* What ends a graph early, and the runner's record of either ending.      *)

\* A model call, a query or a write raises before it has had an effect; the
\* runner's write of a successful outcome is one of them.
Raise ==
    /\ \/ pc \in {"load_context", "investigate", "persist_findings", "complete"}
       \/ pc = "calls" /\ calls # <<>>
       \/ pc = "persisting" /\ queue # {}
    /\ pc' = "fail"
    /\ UNCHANGED <<graphVars, sink, billed, fixedVars, dbVars>>

\* At exactly the limit persist_findings has run, and its rows stay.
GraphRecursionError ==
    /\ pc \in GraphNodes \/ (pc = "persisting" /\ queue = {})
    /\ ~WithinLimit
    /\ pc' = "fail"
    /\ UNCHANGED <<graphVars, sink, billed, fixedVars, dbVars>>

complete_investigation ==
    /\ pc = "complete"
    /\ row' = [status |-> "investigated", error |-> FALSE,
               cost |-> cost, iterations |-> iteration]
    /\ pc' = "commit"
    /\ UNCHANGED <<graphVars, sink, billed, fixedVars, findings, feedback>>

FaultyFailInvestigation ==
    /\ pc = "fail"
    /\ row' = [status |-> "investigated", error |-> TRUE, cost |-> 0, iterations |-> 0]
    /\ pc' = "commit"
    /\ UNCHANGED <<graphVars, sink, billed, fixedVars, findings, feedback>>

fail_investigation ==
    /\ pc = "fail"
    /\ row' = [status |-> "investigated", error |-> TRUE,
               cost |-> sink.cost, iterations |-> sink.iterations]
    /\ pc' = "commit"
    /\ UNCHANGED <<graphVars, sink, billed, fixedVars, findings, feedback>>

CommitSession ==
    /\ pc = "commit"
    /\ pc' = "done"
    /\ UNCHANGED <<graphVars, sink, billed, fixedVars, dbVars>>

\* The record of a failure, or the commit of either record, is refused.  The
\* session takes everything back, and the thread ends with the row still open.
RollBackSession ==
    /\ pc \in {"fail", "commit"}
    /\ findings' = before
    /\ row' = Unrecorded
    /\ pc' = "done"
    /\ UNCHANGED <<graphVars, sink, billed, fixedVars, feedback>>

Next ==
    \/ load_context
    \/ \E charge \in TurnCosts, turn \in Turns : investigate(charge, turn)
    \/ ToolNode
    \/ ToolCall
    \/ EndTools
    \/ persist_findings
    \/ \E i \in queue : PersistNext(i)
    \/ EndGraph
    \/ Raise
    \/ GraphRecursionError
    \/ complete_investigation
    \/ fail_investigation
    \/ CommitSession
    \/ RollBackSession

Spec == Init /\ [][Next]_vars

\* The background thread keeps running the task it was given.
FairSpec == Spec /\ WF_vars(Next)

-----------------------------------------------------------------------------
(* Properties.                                                             *)

TypeOK ==
    /\ pc \in GraphNodes \cup {"calls", "persisting", "complete", "fail", "commit", "done"}
    /\ supersteps \in Nat
    /\ iteration \in Nat
    /\ cost \in Nat
    /\ hyps \in Seq(Hypotheses)
    /\ ready_to_conclude \in BOOLEAN
    /\ conclusion \in [outcome : {"none", "confirmed", "refuted"}, summary : BOOLEAN]
    /\ stop_reason \in {"none", "concluded", "cost_cap", "iteration_cap", "no_tool_calls"}
    /\ calls \in Seq(Calls)
    /\ concludes \in Nat
    /\ queue \in SUBSET DOMAIN hyps
    /\ sink \in [cost : Nat, iterations : Nat]
    /\ billed \in Nat
    /\ leads \in BOOLEAN
    /\ max_iterations \in IterationCaps
    /\ before \in PriorFindings
    /\ findings \in Seq(Rows)
    /\ feedback \in SUBSET FeedbackRows
    /\ row \in [status : {"investigating", "investigated"}, error : BOOLEAN,
                cost : Nat, iterations : Nat]

\* The rows this investigation has stored.
Own == {i \in DOMAIN findings : findings[i].cand = Candidate}

\* The investigation ended by itself and its record is committed.
Recorded == pc = "done" /\ row.status = "investigated" /\ ~row.error

(***************************************************************************)
(* Money is spent only while all three bounds hold: nothing was concluded, *)
(* the cost is under the cap, and turns are left (route_after_tools).      *)
(***************************************************************************)
NoSpendPastBudget ==
    [][iteration' # iteration =>
          /\ ~ready_to_conclude
          /\ cost < CostCap
          /\ iteration < max_iterations]_vars

(***************************************************************************)
(* The cap is checked after a call, so the bill passes it by less than one *)
(* call, however the investigation ends.                                   *)
(***************************************************************************)
OverspendIsOneCall ==
    billed = 0 \/ \E charge \in TurnCosts : billed < CostCap + charge

(***************************************************************************)
(* Whatever raised, and wherever, the candidate row ends with every cent   *)
(* that was billed and every turn that was taken (usage_sink).  The one    *)
(* exception is an ending that could not be recorded (RollBackSession):    *)
(* then the row is as it was before, and so is the findings table.         *)
(***************************************************************************)
BilledIsRecorded ==
    pc = "done" =>
        \/ /\ row.status = "investigated"
           /\ row.cost = billed
           /\ row.iterations = iteration
        \/ row = Unrecorded /\ Own = {}

(***************************************************************************)
(* n turns take two supersteps each, with __start__, load_context and      *)
(* persist_findings around them.  With a cap of at most half of what the   *)
(* limit leaves (23 for the 50 of execute_investigation) the loop ends by  *)
(* its own bounds: the limit, which would call a finished investigation a  *)
(* failed one, is never what stops it.                                     *)
(***************************************************************************)
RecursionLimitUnreached ==
    /\ 2 * max_iterations + 3 <= RecursionLimit
    /\ pc \in GraphNodes \cup {"persisting"}
    => WithinLimit

(***************************************************************************)
(* Nothing raised: every tool call that was paid for has run, the last     *)
(* turn's included, and every hypothesis recorded as ready, in whichever   *)
(* turn, is an open finding at the end or was suppressed.                  *)
(***************************************************************************)
ReadyNeverLost ==
    Recorded =>
        /\ calls = <<>>
        /\ \A i \in Ready : Blocked(findings, feedback, SignatureOf(i))

(***************************************************************************)
(* An investigation cut short by a budget, or that claimed a confirmation  *)
(* it never finalised, keeps the last version of every working hypothesis  *)
(* as a partial, unless a dismissal or an open finding covers it.          *)
(***************************************************************************)
WorkingNeverLost ==
    Recorded /\ Ready = {}
             /\ (stop_reason \in {"cost_cap", "iteration_cap"} \/ concluded_confirmed) =>
        \A i \in DOMAIN hyps :
            \/ Blocked(findings, feedback, SignatureOf(i))
            \/ \E k \in Own :
                  /\ findings[k].status = "partial"
                  /\ findings[k].rev >= i
                  /\ SameKey(i, findings[k].rev)
                  /\ \A j \in DOMAIN hyps : SameKey(i, j) => j <= findings[k].rev

(***************************************************************************)
(* What is stored never says more, or the opposite, of what was concluded: *)
(* an open row only for a ready hypothesis, a partial only when nothing    *)
(* was ready, "no issue" only as the single row of an investigation that   *)
(* concluded, with a reason, and did not claim a confirmation.             *)
(***************************************************************************)
ResultMatchesConclusion ==
    \A k \in Own :
        /\ findings[k].status # "dismissed"
        /\ findings[k].status = "open" => findings[k].rev \in Ready
        /\ findings[k].status = "partial" =>
              Ready = {} /\ ~RuledOut /\ stop_reason # "no_tool_calls"
        /\ findings[k].status = "no_issue" =>
              Ready = {} /\ RuledOut /\ Own = {k}

(***************************************************************************)
(* One investigation neither repeats an open finding, its own or an        *)
(* earlier one, nor raises what was dismissed, nor stores a risk under a   *)
(* category that no dismissal could ever match.                            *)
(***************************************************************************)
OpenFindingsAreNew ==
    /\ OneOpenPerSignature(findings)
    /\ \A k \in Own :
          /\ findings[k].sig.pattern \in ValidPatterns
          /\ findings[k].status \in {"open", "partial"} =>
                ~check_suppression(feedback, findings[k].sig)

(***************************************************************************)
(* The loop keeps the promise of BudgetedLoop: what the provider charged   *)
(* is what was spent, and the candidate row, once committed, is the        *)
(* account.  An ending that could not be recorded settles nothing.         *)
(***************************************************************************)
Settled == pc = "done" /\ row.status = "investigated"

Budgeted == INSTANCE BudgetedLoop WITH
    Budget <- CostCap, Limits <- IterationCaps, Prices <- TurnCosts,
    spent <- billed, turns <- iteration, limit <- max_iterations,
    concluded <- ready_to_conclude,
    account <- IF Settled
               THEN [spent |-> row.cost, turns |-> row.iterations, state |-> "settled"]
               ELSE [spent |-> 0, turns |-> 0, state |-> "open"]

StaysInBudget == Budgeted!Spec

\* An investigation that was started ends: it is never left running.
Termination == <>(pc = "done")

=============================================================================
