------------------------- MODULE Investigation_proofs -------------------------
(***************************************************************************)
(* Theorems about Investigation, for every value of its constants: any     *)
(* prices, any answers of the model, any cap, limit and prior tables.      *)
(***************************************************************************)
EXTENDS Investigation, Tables_proofs, WellFoundedInduction, TLAPS

-----------------------------------------------------------------------------
(* Types.                                                                  *)

\* Storing one hypothesis appends at most one row, of the candidate's own.
LEMMA RowType ==
    ASSUME TypeOK, NEW i \in DOMAIN hyps, NEW status \in FindingStatus
    PROVE  insert_finding(findings, SignatureOf(i), status, Candidate, i) \in Seq(Rows)
  <1>1. hyps[i] \in Hypotheses
    BY TypeOK DEF TypeOK
  <1>2. SignatureOf(i) \in Signatures
    BY <1>1, SignatureType, PatternsAssumption DEF SignatureOf, Hypotheses
  <1>3. i \in Nat
    BY DEF TypeOK
  <1>. QED
    BY <1>2, <1>3 DEF insert_finding, Rows, TypeOK

LEMMA TypeInit == Init => TypeOK
  <1>. SUFFICES ASSUME Init PROVE TypeOK
    OBVIOUS
  <1>1. findings \in Seq(Rows) /\ feedback \in SUBSET FeedbackRows
    BY PriorAssumption DEF Init
  <1>2. hyps \in Seq(Hypotheses) /\ calls \in Seq(Calls)
    BY DEF Init
  <1>. QED
    BY <1>1, <1>2 DEF Init, TypeOK, NoConclusion, GraphNodes, Unrecorded

LEMMA TypeStep == TypeOK /\ [Next]_vars => TypeOK'
  <1>. SUFFICES ASSUME TypeOK, [Next]_vars PROVE TypeOK'
    OBVIOUS
  <1>. USE DEF graphVars, dbVars, fixedVars
  <1>1. CASE load_context
    BY <1>1 DEF TypeOK, load_context, Step, GraphNodes
  <1>2. CASE \E charge \in TurnCosts, turn \in Turns : investigate(charge, turn)
    <2>. PICK charge \in TurnCosts, turn \in Turns : investigate(charge, turn)
      BY <1>2
    <2>1. charge \in Nat /\ turn \in Seq(Calls)
      BY BoundsAssumption, TurnsAssumption
    <2>. QED
      BY <2>1 DEF TypeOK, investigate, Step, GraphNodes, route_after_investigate
  <1>3. CASE ToolNode
    BY <1>3 DEF TypeOK, ToolNode, Step, GraphNodes
  <1>4. CASE ToolCall
    <2>. DEFINE call == Head(calls)
    <2>1. call \in Calls /\ Tail(calls) \in Seq(Calls)
      BY <1>4 DEF ToolCall, TypeOK
    <2>2. CASE call.tool = "evidence" /\ UNCHANGED <<hyps, ready_to_conclude, conclusion, concludes>>
      BY <1>4, <2>1, <2>2 DEF TypeOK, ToolCall
    <2>3. CASE call.tool = "record" /\ record_hypothesis(call)
      <3>1. call \in [tool : {"record"}, pattern : Patterns, node : NodeNames, said : SaidStatus]
        BY <2>1, <2>3 DEF Calls
      <3>. DEFINE new == [pattern |-> call.pattern, node |-> call.node,
                          status |-> NormalizedStatus(call.said)]
      <3>2. call.pattern \in ValidPatterns => new \in Hypotheses
        BY <3>1 DEF Hypotheses, NormalizedStatus
      <3>3. hyps' = hyps \/ (new \in Hypotheses /\ hyps' = Append(hyps, new))
        BY <2>3, <3>2 DEF record_hypothesis
      <3>. HIDE DEF new
      <3>4. hyps \in Seq(Hypotheses)
        BY DEF TypeOK
      <3>5. ASSUME new \in Hypotheses
            PROVE  /\ Append(hyps, new) \in Seq(Hypotheses)
                   /\ DOMAIN hyps \subseteq DOMAIN Append(hyps, new)
        BY <3>4, <3>5, AppendKeeps
      <3>6. hyps' \in Seq(Hypotheses) /\ DOMAIN hyps \subseteq DOMAIN hyps'
        BY <3>3, <3>4, <3>5
      <3>. QED
        BY <1>4, <2>1, <2>3, <3>6 DEF TypeOK, ToolCall, record_hypothesis
    <2>4. CASE call.tool = "conclude" /\ conclude_investigation(call)
      <3>1. call \in [tool : {"conclude"}, outcome : {"confirmed", "refuted"}, summary : BOOLEAN]
        BY <2>1, <2>4 DEF Calls
      <3>. QED
        BY <1>4, <2>1, <2>4, <3>1 DEF TypeOK, ToolCall, conclude_investigation
    <2>. QED
      BY <1>4, <2>2, <2>3, <2>4 DEF ToolCall
  <1>5. CASE EndTools
    BY <1>5 DEF TypeOK, EndTools, route_after_tools, GraphNodes
  <1>6. CASE persist_findings
    <2>1. compute_signature(CandidatePattern, CandidateNode) \in Signatures
      BY SignatureType, CandidateAssumption, PatternsAssumption
    <2>2. persist_refutation \in Seq(Rows)
      BY <2>1 DEF TypeOK, persist_refutation, insert_finding, Rows, FindingStatus
    <2>3. queue' \in SUBSET DOMAIN hyps
      BY <1>6 DEF persist_findings, ToPersist, Ready, _latest_working_hypotheses
    <2>4. stop_reason' \in {"none", "concluded", "cost_cap", "iteration_cap", "no_tool_calls"}
      BY <1>6 DEF persist_findings, _stop_reason
    <2>5. findings' \in Seq(Rows)
      BY <1>6, <2>2 DEF persist_findings, TypeOK
    <2>. QED
      BY <1>6, <2>3, <2>4, <2>5 DEF TypeOK, persist_findings, Step
  <1>7. CASE \E i \in queue : PersistNext(i)
    <2>. PICK i \in queue : PersistNext(i)
      BY <1>7
    <2>1. i \in DOMAIN hyps
      BY DEF TypeOK
    <2>2. persist_hypothesis(i) \in Seq(Rows) /\ persist_partial(i) \in Seq(Rows)
      BY <2>1, RowType DEF TypeOK, persist_hypothesis, persist_partial, FindingStatus
    <2>. QED
      BY <2>2 DEF TypeOK, PersistNext
  <1>8. CASE EndGraph
    BY <1>8 DEF TypeOK, EndGraph
  <1>9. CASE Raise
    BY <1>9 DEF TypeOK, Raise
  <1>10. CASE GraphRecursionError
    BY <1>10 DEF TypeOK, GraphRecursionError
  <1>11. CASE complete_investigation
    BY <1>11 DEF TypeOK, complete_investigation
  <1>12. CASE fail_investigation
    BY <1>12 DEF TypeOK, fail_investigation
  <1>13. CASE CommitSession
    BY <1>13 DEF TypeOK, CommitSession
  <1>14. CASE RollBackSession
    <2>1. before \in Seq(Rows)
      BY PriorAssumption DEF TypeOK
    <2>. QED
      BY <1>14, <2>1 DEF TypeOK, RollBackSession, Unrecorded
  <1>15. CASE UNCHANGED vars
    BY <1>15 DEF TypeOK, vars
  <1>. QED
    BY <1>1, <1>2, <1>3, <1>4, <1>5, <1>6, <1>7, <1>8, <1>9, <1>10, <1>11, <1>12,
       <1>13, <1>14, <1>15 DEF Next

(***************************************************************************)
(* Every reachable state of an investigation is well typed; in particular  *)
(* every hypothesis recorded has a category the code knows.                *)
(***************************************************************************)
THEOREM TypeCorrect == Spec => []TypeOK
  BY TypeInit, TypeStep, PTL DEF Spec

-----------------------------------------------------------------------------
(* Money.                                                                  *)

(***************************************************************************)
(* What is true of the money at every point of the graph: the state's own  *)
(* counters, the runner's usage_sink and the provider agree; a turn is     *)
(* only ever about to be taken inside the budget; and the candidate row,   *)
(* once written, says what was billed.                                     *)
(***************************************************************************)
MoneyInv ==
    /\ cost = billed
    /\ sink = [cost |-> billed, iterations |-> iteration]
    /\ pc \in {"load_context", "investigate"} =>
          ~ready_to_conclude /\ cost < CostCap /\ iteration < max_iterations
    /\ iteration <= max_iterations
    /\ OverspendIsOneCall
    /\ IF pc = "commit" \/ Settled
       THEN row.status = "investigated" /\ row.cost = billed /\ row.iterations = iteration
       ELSE row = Unrecorded

LEMMA MoneyInit == Init => MoneyInv
  BY BoundsAssumption DEF Init, MoneyInv, OverspendIsOneCall, Settled

LEMMA MoneyStep == TypeOK /\ MoneyInv /\ [Next]_vars => MoneyInv'
  <1>. SUFFICES ASSUME TypeOK, MoneyInv, [Next]_vars PROVE MoneyInv'
    OBVIOUS
  <1>. USE DEF MoneyInv, OverspendIsOneCall, Settled, Unrecorded, graphVars, dbVars, fixedVars
  <1>1. CASE load_context
    BY <1>1 DEF load_context, Step
  <1>2. CASE \E charge \in TurnCosts, turn \in Turns : investigate(charge, turn)
    <2>. PICK charge \in TurnCosts, turn \in Turns : investigate(charge, turn)
      BY <1>2
    <2>1. charge \in Nat /\ CostCap \in Nat /\ max_iterations \in Nat
      BY BoundsAssumption DEF TypeOK
    <2>2. billed' = billed + charge /\ billed' < CostCap + charge
      BY <2>1 DEF TypeOK, investigate, Step
    <2>3. iteration' = iteration + 1 /\ iteration' <= max_iterations
      BY <2>1 DEF TypeOK, investigate, Step
    <2>4. sink' = [cost |-> billed', iterations |-> iteration'] /\ cost' = billed'
      BY DEF investigate
    <2>5. /\ pc' \in {"tools", "persist_findings"} /\ pc = "investigate"
          /\ row' = row /\ max_iterations' = max_iterations
      BY DEF investigate, route_after_investigate, Step
    <2>. QED
      BY <2>2, <2>3, <2>4, <2>5
  <1>3. CASE ToolNode
    BY <1>3 DEF ToolNode, Step
  <1>4. CASE ToolCall
    BY <1>4 DEF ToolCall
  <1>5. CASE EndTools
    BY <1>5, BoundsAssumption
    DEF TypeOK, EndTools, route_after_tools, _over_cost_cap, OutOfTurns
  <1>6. CASE persist_findings
    BY <1>6 DEF persist_findings, Step
  <1>7. CASE \E i \in queue : PersistNext(i)
    BY <1>7 DEF PersistNext
  <1>8. CASE EndGraph
    BY <1>8 DEF EndGraph
  <1>9. CASE Raise
    BY <1>9 DEF Raise
  <1>10. CASE GraphRecursionError
    BY <1>10 DEF GraphRecursionError, GraphNodes
  <1>11. CASE complete_investigation
    BY <1>11 DEF complete_investigation
  <1>12. CASE fail_investigation
    BY <1>12 DEF fail_investigation
  <1>13. CASE CommitSession
    BY <1>13 DEF CommitSession
  <1>14. CASE RollBackSession
    BY <1>14 DEF RollBackSession
  <1>15. CASE UNCHANGED vars
    BY <1>15 DEF vars
  <1>. QED
    BY <1>1, <1>2, <1>3, <1>4, <1>5, <1>6, <1>7, <1>8, <1>9, <1>10, <1>11, <1>12,
       <1>13, <1>14, <1>15 DEF Next

LEMMA MoneyAlways == Spec => []MoneyInv
  BY TypeCorrect, MoneyInit, MoneyStep, PTL DEF Spec

\* A session that was rolled back has the rows it found, and none of its own.
BackInv == pc = "done" /\ row.status # "investigated" => findings = before

LEMMA BackStep == MoneyInv /\ BackInv /\ [Next]_vars => BackInv'
  <1>. SUFFICES ASSUME MoneyInv, BackInv, [Next]_vars PROVE BackInv'
    OBVIOUS
  <1>. USE DEF BackInv, graphVars, dbVars, fixedVars
  <1>1. CASE RollBackSession
    BY <1>1 DEF RollBackSession
  <1>2. CASE complete_investigation \/ fail_investigation
    BY <1>2 DEF complete_investigation, fail_investigation
  <1>3. CASE CommitSession
    BY <1>3, MoneyInv DEF MoneyInv, CommitSession
  <1>4. CASE UNCHANGED vars
    BY <1>4 DEF vars
  <1>5. CASE load_context \/ ToolNode \/ ToolCall \/ EndTools \/ persist_findings \/ EndGraph
             \/ Raise \/ GraphRecursionError
    <2>1. pc' # "done"
      BY <1>5 DEF load_context, ToolNode, ToolCall, EndTools, route_after_tools,
         persist_findings, EndGraph, Raise, GraphRecursionError
    <2>. QED
      BY <2>1
  <1>6. CASE \E charge \in TurnCosts, turn \in Turns : investigate(charge, turn)
    BY <1>6 DEF investigate, route_after_investigate
  <1>7. CASE \E i \in queue : PersistNext(i)
    BY <1>7 DEF PersistNext
  <1>. QED
    BY <1>1, <1>2, <1>3, <1>4, <1>5, <1>6, <1>7 DEF Next

(***************************************************************************)
(* However the investigation ends, by a conclusion, a cap, an exception in *)
(* any node, the recursion limit or a refused write of its outcome, the    *)
(* candidate row holds all that was billed (fail_investigation with        *)
(* usage_sink); if that record is refused too, nothing was recorded at all.*)
(***************************************************************************)
THEOREM NothingUnbilled == Spec => []BilledIsRecorded
  <1>1. Init => MoneyInv /\ BackInv
    BY MoneyInit DEF Init, BackInv
  <1>2. TypeOK /\ MoneyInv /\ BackInv => BilledIsRecorded
    <2>. SUFFICES ASSUME TypeOK, MoneyInv, BackInv, pc = "done" PROVE BilledIsRecorded
      BY DEF BilledIsRecorded
    <2>1. CASE row.status = "investigated"
      BY <2>1 DEF MoneyInv, Settled, BilledIsRecorded
    <2>2. CASE row.status # "investigated"
      <3>1. findings = before /\ row = Unrecorded
        BY <2>2 DEF BackInv, MoneyInv, Settled
      <3>2. Own = {}
        BY <3>1, PriorAssumption, CandidateAssumption DEF TypeOK, Own
      <3>. QED
        BY <3>1, <3>2 DEF BilledIsRecorded
    <2>. QED
      BY <2>1, <2>2
  <1>. QED
    BY <1>1, <1>2, BackStep, TypeCorrect, MoneyAlways, PTL DEF Spec

(***************************************************************************)
(* The bill stays under the cap plus one call, for every set of prices.    *)
(***************************************************************************)
THEOREM OverspendBounded == Spec => []OverspendIsOneCall
  <1>1. MoneyInv => OverspendIsOneCall
    BY DEF MoneyInv
  <1>. QED
    BY <1>1, MoneyAlways, PTL

(***************************************************************************)
(* No turn is bought after a conclusion, past the cap or past the last     *)
(* iteration (route_after_tools is the only way back to the model).        *)
(***************************************************************************)
THEOREM SpendsWithinBudget == Spec => NoSpendPastBudget
  <1>1. TypeOK /\ MoneyInv /\ [Next]_vars =>
            [iteration' # iteration =>
                ~ready_to_conclude /\ cost < CostCap /\ iteration < max_iterations]_vars
    <2>. SUFFICES ASSUME MoneyInv, Next, iteration' # iteration
                  PROVE  ~ready_to_conclude /\ cost < CostCap /\ iteration < max_iterations
      BY DEF vars
    <2>1. PICK charge \in TurnCosts, turn \in Turns : investigate(charge, turn)
      BY DEF Next, load_context, ToolNode, ToolCall, EndTools, persist_findings, PersistNext,
             EndGraph, Raise, GraphRecursionError, complete_investigation,
             fail_investigation, CommitSession, RollBackSession, graphVars
    <2>. QED
      BY <2>1 DEF investigate, Step, MoneyInv
  <1>. QED
    BY <1>1, TypeCorrect, MoneyAlways, PTL DEF Spec, NoSpendPastBudget

(***************************************************************************)
(* The whole loop implements BudgetedLoop: buying turns inside a budget,   *)
(* concluding, and settling the account once with what was spent.          *)
(***************************************************************************)
THEOREM ImplementsBudgetedLoop == Spec => StaysInBudget
  <1>1. Init => Budgeted!Init
    BY DEF Init, Settled, Budgeted!Init, Budgeted!Unsettled
  <1>2. TypeOK /\ MoneyInv /\ MoneyInv' /\ [Next]_vars => [Budgeted!Next]_Budgeted!vars
    <2>. SUFFICES ASSUME TypeOK, MoneyInv, MoneyInv', [Next]_vars
                  PROVE  [Budgeted!Next]_Budgeted!vars
      OBVIOUS
    <2>. USE DEF Budgeted!vars, Settled, Unrecorded, graphVars, dbVars, fixedVars
    <2>1. CASE \E charge \in TurnCosts, turn \in Turns : investigate(charge, turn)
      <3>. PICK charge \in TurnCosts, turn \in Turns : investigate(charge, turn)
        BY <2>1
      <3>1. Budgeted!BuyTurn(charge)
        BY DEF investigate, Step, route_after_investigate, MoneyInv, Budgeted!BuyTurn
      <3>. QED
        BY <3>1 DEF Budgeted!Next
    <2>2. CASE ToolCall
      <3>1. CASE UNCHANGED ready_to_conclude
        BY <2>2, <3>1 DEF ToolCall
      <3>2. CASE conclude_investigation(Head(calls))
        <4>1. Budgeted!Conclude
          BY <2>2, <3>2 DEF ToolCall, conclude_investigation, MoneyInv, Budgeted!Conclude
        <4>. QED
          BY <4>1 DEF Budgeted!Next
      <3>. QED
        BY <2>2, <3>1, <3>2 DEF ToolCall, record_hypothesis
    <2>3. CASE CommitSession
      <3>1. Budgeted!Settle
        BY <2>3 DEF CommitSession, MoneyInv, Budgeted!Settle
      <3>. QED
        BY <3>1 DEF Budgeted!Next
    <2>4. CASE load_context \/ ToolNode \/ EndTools \/ persist_findings
      BY <2>4
      DEF load_context, Step, ToolNode, EndTools, route_after_tools, persist_findings
    <2>5. CASE (\E i \in queue : PersistNext(i)) \/ EndGraph \/ Raise \/ GraphRecursionError
      BY <2>5 DEF PersistNext, EndGraph, Raise, GraphRecursionError, GraphNodes
    <2>6. CASE complete_investigation \/ fail_investigation
      BY <2>6 DEF complete_investigation, fail_investigation
    <2>7. CASE RollBackSession
      BY <2>7 DEF RollBackSession
    <2>8. CASE UNCHANGED vars
      BY <2>8 DEF vars
    <2>. QED
      BY <2>1, <2>2, <2>3, <2>4, <2>5, <2>6, <2>7, <2>8 DEF Next
  <1>. QED
    BY <1>1, <1>2, TypeCorrect, MoneyAlways, PTL DEF Spec, StaysInBudget, Budgeted!Spec

-----------------------------------------------------------------------------
(* Turns against the graph's own limit.                                    *)

\* __start__ and load_context take one superstep each, and so does
\* persist_findings; a turn takes two.
SuperstepInv ==
    /\ pc = "load_context" => supersteps = 1 /\ iteration = 0
    /\ pc \in {"investigate", "calls", "persist_findings"} => supersteps <= 2 + 2 * iteration
    /\ pc = "tools" => supersteps <= 1 + 2 * iteration
    /\ pc = "persisting" => supersteps <= 3 + 2 * iteration

LEMMA SuperstepStep == TypeOK /\ SuperstepInv /\ [Next]_vars => SuperstepInv'
  <1>. SUFFICES ASSUME TypeOK, SuperstepInv, [Next]_vars PROVE SuperstepInv'
    OBVIOUS
  <1>. USE DEF SuperstepInv, TypeOK, graphVars, fixedVars
  <1>1. CASE load_context
    BY <1>1 DEF load_context, Step
  <1>2. CASE \E charge \in TurnCosts, turn \in Turns : investigate(charge, turn)
    BY <1>2 DEF investigate, Step, route_after_investigate
  <1>3. CASE ToolNode
    BY <1>3 DEF ToolNode, Step
  <1>4. CASE ToolCall
    BY <1>4 DEF ToolCall
  <1>5. CASE EndTools
    BY <1>5 DEF EndTools, route_after_tools
  <1>6. CASE persist_findings
    <2>1. /\ pc = "persist_findings" /\ pc' = "persisting"
          /\ supersteps' = supersteps + 1 /\ iteration' = iteration
      BY <1>6 DEF persist_findings, Step
    <2>. QED
      BY <2>1
  <1>10. CASE \E i \in queue : PersistNext(i)
    <2>1. pc' = pc /\ supersteps' = supersteps /\ iteration' = iteration
      BY <1>10 DEF PersistNext
    <2>. QED
      BY <2>1
  <1>7. CASE EndGraph \/ Raise \/ GraphRecursionError
    BY <1>7 DEF EndGraph, Raise, GraphRecursionError
  <1>8. CASE complete_investigation \/ fail_investigation \/ CommitSession \/ RollBackSession
    BY <1>8 DEF complete_investigation, fail_investigation, CommitSession, RollBackSession
  <1>9. CASE UNCHANGED vars
    BY <1>9 DEF vars
  <1>. QED
    BY <1>1, <1>2, <1>3, <1>4, <1>5, <1>6, <1>7, <1>8, <1>9, <1>10 DEF Next

(***************************************************************************)
(* The iteration cap ends the loop before the recursion limit of           *)
(* graph.invoke does, the hidden __start__ and the last test included, for *)
(* every cap of at most half the limit less three: 23 for the limit of 50  *)
(* in execute_investigation.                                               *)
(***************************************************************************)
THEOREM RecursionLimitHolds == Spec => []RecursionLimitUnreached
  <1>1. Init => SuperstepInv
    BY DEF Init, SuperstepInv
  <1>2. TypeOK /\ MoneyInv /\ SuperstepInv => RecursionLimitUnreached
    <2>. SUFFICES ASSUME TypeOK, MoneyInv, SuperstepInv,
                         pc \in GraphNodes \cup {"persisting"},
                         2 * max_iterations + 3 <= RecursionLimit
                  PROVE  supersteps <= RecursionLimit
      BY DEF RecursionLimitUnreached, WithinLimit
    <2>1. supersteps <= 3 + 2 * iteration
      BY DEF TypeOK, SuperstepInv, GraphNodes
    <2>. QED
      BY <2>1, BoundsAssumption DEF TypeOK, MoneyInv
  <1>. QED
    BY <1>1, <1>2, SuperstepStep, TypeCorrect, MoneyAlways, PTL DEF Spec

-----------------------------------------------------------------------------
(* What is stored.                                                         *)

\* A row the investigation may add: it is checked unless it says "no issue".
NewRow(r) ==
    /\ r \in Rows
    /\ r.cand = Candidate
    /\ r.sig.pattern \in ValidPatterns
    /\ r.status \in {"open", "partial"} => ~Blocked(findings, feedback, r.sig)

LEMMA PersistNextStores ==
    ASSUME TypeOK, NEW i \in queue, PersistNext(i)
    PROVE  \/ findings' = findings
           \/ \E r : NewRow(r) /\ findings' = Append(findings, r)
  <1>1. i \in DOMAIN hyps /\ hyps[i] \in Hypotheses /\ i \in Nat
    BY TypeOK DEF TypeOK
  <1>2. SignatureOf(i) \in Signatures /\ SignatureOf(i).pattern \in ValidPatterns
    BY <1>1, PatternsAssumption, SignatureType
    DEF SignatureOf, compute_signature, Hypotheses
  <1>. DEFINE r(status) == [sig |-> SignatureOf(i), status |-> status, cand |-> Candidate, rev |-> i]
  <1>3. ASSUME ~Blocked(findings, feedback, SignatureOf(i))
        PROVE  NewRow(r("open")) /\ NewRow(r("partial"))
    BY <1>1, <1>2, <1>3 DEF NewRow, Rows, FindingStatus
  <1>4. findings' \in {findings, Append(findings, r("open")), Append(findings, r("partial"))}
    BY PersistNext(i) DEF PersistNext, persist_hypothesis, persist_partial, insert_finding
  <1>5. Blocked(findings, feedback, SignatureOf(i)) => findings' = findings
    BY PersistNext(i) DEF PersistNext, persist_hypothesis, persist_partial
  <1>. QED
    BY <1>3, <1>4, <1>5

LEMMA Stores ==
    TypeOK /\ [Next]_vars =>
        /\ feedback' = feedback
        /\ \/ findings' = findings
           \/ findings' = before
           \/ \E r : NewRow(r) /\ findings' = Append(findings, r)
  <1>. SUFFICES ASSUME TypeOK, [Next]_vars
                PROVE  /\ feedback' = feedback
                       /\ \/ findings' = findings
                          \/ findings' = before
                          \/ \E r : NewRow(r) /\ findings' = Append(findings, r)
    OBVIOUS
  <1>1. CASE persist_findings
    <2>. DEFINE r == [sig |-> compute_signature(CandidatePattern, CandidateNode),
                      status |-> "no_issue", cand |-> Candidate, rev |-> 0]
    <2>1. r.sig \in Signatures /\ r.sig.pattern \in ValidPatterns
      BY CandidateAssumption, PatternsAssumption, SignatureType DEF compute_signature
    <2>2. NewRow(r)
      BY <2>1 DEF NewRow, Rows, FindingStatus
    <2>. QED
      BY <1>1, <2>2 DEF persist_findings, persist_refutation, insert_finding
  <1>2. CASE \E i \in queue : PersistNext(i)
    BY <1>2, PersistNextStores DEF PersistNext
  <1>3. CASE UNCHANGED <<findings, feedback>>
    BY <1>3
  <1>. QED
    BY <1>1, <1>2, <1>3
    DEF Next, load_context, investigate, ToolNode, ToolCall, EndTools, EndGraph, Raise,
        GraphRecursionError, complete_investigation, fail_investigation, CommitSession, RollBackSession,
        vars, dbVars

(***************************************************************************)
(* One investigation never opens a second finding for a signature, raises  *)
(* a dismissed one or stores an unknown category: the two checks made      *)
(* before each insert, and the validation in record_hypothesis, suffice.   *)
(***************************************************************************)
THEOREM FindingsAreNew == Spec => []OpenFindingsAreNew
  <1>1. Init => OpenFindingsAreNew
    BY PriorAssumption, CandidateAssumption DEF Init, OpenFindingsAreNew, Own
  <1>2. TypeOK /\ OpenFindingsAreNew /\ [Next]_vars => OpenFindingsAreNew'
    <2>. SUFFICES ASSUME TypeOK, OpenFindingsAreNew, [Next]_vars PROVE OpenFindingsAreNew'
      OBVIOUS
    <2>1. feedback' = feedback
      BY Stores
    <2>2. CASE findings' = findings
      BY <2>1, <2>2 DEF OpenFindingsAreNew, Own
    <2>3. ASSUME NEW r, NewRow(r), findings' = Append(findings, r)
          PROVE  OpenFindingsAreNew'
      <3>1. findings \in Seq(Rows) /\ r \in Rows
        BY <2>3 DEF TypeOK, NewRow
      <3>2. OneOpenPerSignature(findings')
        BY <2>3, <3>1, AddKeepsUnique DEF OpenFindingsAreNew, NewRow, Blocked
      <3>3. \A k \in DOMAIN findings' : k \in DOMAIN findings \/ findings'[k] = r
        BY <2>3, <3>1, AppendKeeps
      <3>4. \A k \in DOMAIN findings : findings'[k] = findings[k]
        BY <2>3, <3>1, AppendKeeps
      <3>5. ~(r.status \in {"open", "partial"} /\ check_suppression(feedback, r.sig))
        BY <2>3 DEF NewRow, Blocked
      <3>6. r.sig.pattern \in ValidPatterns
        BY <2>3 DEF NewRow
      <3>. QED
        BY <2>1, <3>2, <3>3, <3>4, <3>5, <3>6 DEF OpenFindingsAreNew, Own
    <2>4. CASE findings' = before
      BY <2>1, <2>4, PriorAssumption, CandidateAssumption DEF TypeOK, OpenFindingsAreNew, Own
    <2>. QED
      BY <2>2, <2>3, <2>4, Stores
  <1>. QED
    BY <1>1, <1>2, TypeCorrect, PTL DEF Spec

\* The graph came to its end, and what it did is recorded or about to be.
Ending == pc = "complete" \/ (pc = "commit" /\ ~row.error)

\* While persist_findings runs, what it has passed is stored or was in the way.
ReadyInv ==
    /\ pc \in {"persist_findings", "persisting"} \/ Ending => calls = <<>>
    /\ Ending => queue = {}
    /\ pc = "persisting" \/ Ending =>
          \A i \in Ready \ queue : Blocked(findings, feedback, SignatureOf(i))
    /\ ReadyNeverLost

LEMMA ReadyStep == TypeOK /\ ReadyInv /\ [Next]_vars => ReadyInv'
  <1>. SUFFICES ASSUME TypeOK, ReadyInv, [Next]_vars PROVE ReadyInv'
    OBVIOUS
  <1>. USE DEF ReadyInv, ReadyNeverLost, Recorded, Ready, SignatureOf, Ending, fixedVars
  <1>1. CASE load_context
    BY <1>1 DEF load_context, Step
  <1>2. CASE \E charge \in TurnCosts, turn \in Turns : investigate(charge, turn)
    BY <1>2 DEF investigate, Step, route_after_investigate
  <1>3. CASE ToolNode
    BY <1>3 DEF ToolNode, Step
  <1>4. CASE ToolCall
    BY <1>4 DEF ToolCall
  <1>5. CASE EndTools
    BY <1>5 DEF EndTools, route_after_tools, graphVars
  <1>6. CASE persist_findings
    <2>1. Ready \subseteq queue' /\ Ready' = Ready
      BY <1>6 DEF persist_findings, ToPersist
    <2>. QED
      BY <1>6, <2>1 DEF persist_findings, Step
  <1>7. CASE \E i \in queue : PersistNext(i)
    <2>. PICK i \in queue : PersistNext(i)
      BY <1>7
    <2>. DEFINE r == [sig |-> SignatureOf(i), status |-> "open", cand |-> Candidate, rev |-> i]
    <2>1. /\ pc = "persisting" /\ pc' = "persisting" /\ queue' = queue \ {i}
          /\ UNCHANGED <<hyps, feedback, calls>>
      BY DEF PersistNext
    <2>2. ASSUME NEW j \in Ready, Blocked(findings, feedback, SignatureOf(j))
          PROVE  Blocked(findings', feedback', SignatureOf(j))
      <3>1. CASE findings' = findings
        BY <2>1, <2>2, <3>1
      <3>2. ASSUME NEW new, NewRow(new), findings' = Append(findings, new)
            PROVE  Blocked(findings', feedback', SignatureOf(j))
        BY <2>1, <2>2, <3>2, AddKeepsBlocked DEF TypeOK, NewRow
      <3>. QED
        BY <3>1, <3>2, PersistNextStores
    <2>3. ASSUME i \in Ready
          PROVE  Blocked(findings', feedback', SignatureOf(i))
      <3>1. CASE Blocked(findings, feedback, SignatureOf(i))
        BY <2>2, <2>3, <3>1
      <3>2. CASE ~Blocked(findings, feedback, SignatureOf(i))
        <4>1. findings' = Append(findings, r)
          BY <2>3, <3>2 DEF PersistNext, persist_hypothesis, insert_finding
        <4>2. r \in Rows /\ findings \in Seq(Rows)
          <5>1. hyps[i] \in Hypotheses /\ i \in Nat
            BY DEF TypeOK
          <5>. QED
            BY <5>1, SignatureType, PatternsAssumption
            DEF Hypotheses, Rows, FindingStatus, TypeOK
        <4>. QED
          BY <2>1, <4>1, <4>2, AddBlocks
      <3>. QED
        BY <3>1, <3>2
    <2>. QED
      BY <2>1, <2>2, <2>3
  <1>8. CASE EndGraph
    BY <1>8 DEF EndGraph, graphVars, dbVars
  <1>9. CASE Raise \/ GraphRecursionError
    BY <1>9 DEF Raise, GraphRecursionError
  <1>10. CASE complete_investigation
    BY <1>10 DEF complete_investigation, graphVars
  <1>11. CASE fail_investigation
    BY <1>11 DEF fail_investigation
  <1>12. CASE CommitSession
    BY <1>12 DEF CommitSession, graphVars, dbVars
  <1>13. CASE RollBackSession
    BY <1>13 DEF RollBackSession, Unrecorded
  <1>14. CASE UNCHANGED vars
    BY <1>14 DEF vars, graphVars, dbVars
  <1>. QED
    BY <1>1, <1>2, <1>3, <1>4, <1>5, <1>6, <1>7, <1>8, <1>9, <1>10, <1>11, <1>12,
       <1>13, <1>14 DEF Next

(***************************************************************************)
(* A hypothesis recorded as ready, in any turn, is in the results of every *)
(* investigation that ends without an error, unless a dismissal or an open *)
(* finding was in its way: no budget and no conclusion drops it.           *)
(***************************************************************************)
THEOREM ReadyIsStored == Spec => []ReadyNeverLost
  <1>1. Init => ReadyInv
    BY DEF Init, ReadyInv, ReadyNeverLost, Recorded, Ending
  <1>2. ReadyInv => ReadyNeverLost
    BY DEF ReadyInv
  <1>. QED
    BY <1>1, <1>2, ReadyStep, TypeCorrect, PTL DEF Spec

(***************************************************************************)
(* Nothing is stored before persist_findings, and while it runs its queue  *)
(* holds the ready hypotheses if there are any, partials only if nothing   *)
(* was ruled out.                                                          *)
(***************************************************************************)
ResultInv ==
    /\ Own # {} => pc \in {"persisting", "complete", "fail", "commit", "done"}
    /\ pc = "persisting" =>
          IF Ready # {} THEN queue \subseteq Ready
          ELSE queue # {} => ~RuledOut /\ stop_reason # "no_tool_calls"
    /\ ResultMatchesConclusion

LEMMA ResultStep == TypeOK /\ ResultInv /\ [Next]_vars => ResultInv'
  <1>. SUFFICES ASSUME TypeOK, ResultInv, [Next]_vars PROVE ResultInv'
    OBVIOUS
  <1>. USE DEF ResultInv, ResultMatchesConclusion, Own, Ready, RuledOut, concluded_confirmed
  <1>1. CASE load_context
    BY <1>1 DEF load_context, Step, dbVars
  <1>2. CASE \E charge \in TurnCosts, turn \in Turns : investigate(charge, turn)
    BY <1>2 DEF investigate, Step, route_after_investigate, dbVars
  <1>3. CASE ToolNode
    BY <1>3 DEF ToolNode, Step, dbVars
  <1>4. CASE ToolCall
    BY <1>4 DEF ToolCall, dbVars
  <1>5. CASE EndTools
    BY <1>5 DEF EndTools, route_after_tools, dbVars
  <1>6. CASE persist_findings
    <2>1. Own = {} /\ pc' = "persisting" /\ UNCHANGED <<hyps, ready_to_conclude, conclusion>>
      BY <1>6 DEF persist_findings, Step
    <2>2. IF Ready # {} THEN queue' = Ready
          ELSE queue' # {} => ~RuledOut /\ stop_reason' # "no_tool_calls"
      BY <1>6 DEF persist_findings, ToPersist, KeepsPartials, _stop_reason
    <2>3. CASE findings' = findings
      BY <2>1, <2>2, <2>3
    <2>4. CASE findings' = persist_refutation /\ Ready = {} /\ RuledOut
      <3>. DEFINE r == [sig |-> compute_signature(CandidatePattern, CandidateNode),
                        status |-> "no_issue", cand |-> Candidate, rev |-> 0]
      <3>1. findings \in Seq(Rows) /\ r \in Rows
        BY SignatureType, CandidateAssumption, PatternsAssumption DEF TypeOK, Rows, FindingStatus
      <3>2. findings' = Append(findings, r)
        BY <2>4 DEF persist_refutation, insert_finding
      <3>3. Own' = {Len(findings) + 1} /\ findings'[Len(findings) + 1] = r
        BY <2>1, <3>1, <3>2, AppendKeeps
      <3>. QED
        BY <2>1, <2>2, <2>4, <3>3
    <2>. QED
      BY <1>6, <2>3, <2>4 DEF persist_findings
  <1>7. CASE \E i \in queue : PersistNext(i)
    <2>. PICK i \in queue : PersistNext(i)
      BY <1>7
    <2>1. /\ pc = "persisting" /\ pc' = "persisting" /\ queue' = queue \ {i}
          /\ UNCHANGED <<hyps, ready_to_conclude, conclusion, stop_reason>>
      BY DEF PersistNext
    <2>2. CASE findings' = findings
      BY <2>1, <2>2
    <2>3. ASSUME NEW r, findings' = Append(findings, r), r \in Rows, r.cand = Candidate,
                 IF Ready # {} THEN r.status = "open" /\ r.rev = i ELSE r.status = "partial"
          PROVE  ResultInv'
      <3>1. \A k \in DOMAIN findings' : k \in DOMAIN findings \/ findings'[k] = r
        BY <2>3, AppendKeeps DEF TypeOK
      <3>2. \A k \in DOMAIN findings : findings'[k] = findings[k]
        BY <2>3, AppendKeeps DEF TypeOK
      <3>3. \A k \in Own : findings[k].status # "no_issue"
        BY <2>1
      <3>4. r.status # "no_issue" /\ r.status # "dismissed"
        BY <2>3
      <3>. QED
        BY <2>1, <2>3, <3>1, <3>2, <3>3, <3>4
    <2>4. findings' = findings \/ \E r : /\ findings' = Append(findings, r)
                                         /\ r \in Rows
                                         /\ r.cand = Candidate
                                         /\ IF Ready # {} THEN r.status = "open" /\ r.rev = i
                                            ELSE r.status = "partial"
      <3>1. hyps[i] \in Hypotheses /\ i \in Nat
        BY DEF TypeOK
      <3>2. SignatureOf(i) \in Signatures
        BY <3>1, SignatureType, PatternsAssumption DEF SignatureOf, Hypotheses
      <3>. QED
        BY <3>1, <3>2
        DEF PersistNext, persist_hypothesis, persist_partial, insert_finding, Rows, FindingStatus
    <2>. QED
      BY <2>2, <2>3, <2>4
  <1>8. CASE EndGraph \/ Raise \/ GraphRecursionError
    BY <1>8 DEF EndGraph, Raise, GraphRecursionError, GraphNodes, graphVars, dbVars
  <1>9. CASE complete_investigation \/ fail_investigation \/ CommitSession
    BY <1>9 DEF complete_investigation, fail_investigation, CommitSession, graphVars, dbVars
  <1>10. CASE RollBackSession
    <2>1. Own' = {} /\ pc' = "done"
      BY <1>10, PriorAssumption, CandidateAssumption DEF RollBackSession, TypeOK
    <2>. QED
      BY <2>1
  <1>11. CASE UNCHANGED vars
    BY <1>11 DEF vars, graphVars, dbVars
  <1>. QED
    BY <1>1, <1>2, <1>3, <1>4, <1>5, <1>6, <1>7, <1>8, <1>9, <1>10, <1>11 DEF Next

(***************************************************************************)
(* What is stored never contradicts what was concluded: open rows only for *)
(* ready hypotheses, partials only where nothing was ready or ruled out,   *)
(* "no issue" only alone and with a reason, whenever the loop is stopped.  *)
(***************************************************************************)
THEOREM ResultsAreConclusions == Spec => []ResultMatchesConclusion
  <1>1. Init => ResultInv
    BY PriorAssumption, CandidateAssumption DEF Init, ResultInv, ResultMatchesConclusion, Own
  <1>2. ResultInv => ResultMatchesConclusion
    BY DEF ResultInv
  <1>. QED
    BY <1>1, <1>2, ResultStep, TypeCorrect, PTL DEF Spec

-----------------------------------------------------------------------------
(* Working hypotheses.                                                     *)

\* It has a partial of its own, or needs none.
Kept(i) ==
    \/ Blocked(findings, feedback, SignatureOf(i))
    \/ \E k \in Own : findings[k].status = "partial" /\ findings[k].rev = i

(***************************************************************************)
(* While persist_findings runs, every working hypothesis that it has       *)
(* passed is kept.  A confirmation is claimed only by concluding, so the   *)
(* state persist_findings looks at is the one the property speaks of.      *)
(***************************************************************************)
WorkInv ==
    /\ concluded_confirmed => ready_to_conclude
    /\ pc = "persisting" \/ Ending => stop_reason = _stop_reason
    /\ Ending => queue = {}
    /\ (pc = "persisting" \/ Ending) /\ Ready = {} /\ KeepsPartials =>
          \A i \in _latest_working_hypotheses \ queue : Kept(i)
    /\ WorkingNeverLost

\* Every key of the dictionary has a last version.
LEMMA LatestExists ==
    ASSUME TypeOK, Ready = {}, NEW i \in DOMAIN hyps
    PROVE  \E l \in _latest_working_hypotheses :
              SameKey(i, l) /\ \A j \in DOMAIN hyps : SameKey(i, j) => j <= l
  <1>. DEFINE ages == {Len(hyps) - j : j \in {k \in DOMAIN hyps : SameKey(i, k)}}
  <1>1. /\ Len(hyps) \in Nat /\ DOMAIN hyps = 1..Len(hyps) /\ SameKey(i, i)
    BY DEF TypeOK, SameKey
  <1>2. ages \subseteq Nat /\ ages # {}
    BY <1>1
  <1>3. PICK x \in ages : \A y \in ages : ~(<<y, x>> \in OpToRel(<, Nat))
    BY <1>2, NatLessThanWellFounded, WFMin
  <1>5. PICK l \in DOMAIN hyps : SameKey(i, l) /\ x = Len(hyps) - l
    OBVIOUS
  <1>6. ASSUME NEW j \in DOMAIN hyps, SameKey(i, j) PROVE j <= l
    <2>. DEFINE y == Len(hyps) - j
    <2>1. y \in ages /\ y \in Nat /\ x \in Nat
      BY <1>2, <1>6
    <2>2. ~(y < x)
      BY <1>3, <2>1 DEF OpToRel
    <2>. QED
      BY <1>1, <1>5, <2>2
  <1>7. \A j \in DOMAIN hyps : SameKey(l, j) => SameKey(i, j)
    BY <1>5 DEF SameKey
  <1>. QED
    BY <1>5, <1>6, <1>7 DEF _latest_working_hypotheses

\* Storing a hypothesis, or finding it blocked, keeps it and those before it.
LEMMA PersistKeeps ==
    ASSUME TypeOK, NEW i \in queue, PersistNext(i), Ready = {}, NEW j \in DOMAIN hyps,
           j = i \/ Kept(j)
    PROVE  Kept(j)'
  <1>1. /\ hyps' = hyps /\ feedback' = feedback
        /\ findings \in Seq(Rows) /\ SignatureOf(j)' = SignatureOf(j)
    BY DEF PersistNext, TypeOK, SignatureOf
  <1>2. CASE findings' = findings
    <2>1. Blocked(findings, feedback, SignatureOf(i)) \/ findings # findings'
      <3>1. hyps[i] \in Hypotheses /\ i \in Nat
        BY DEF TypeOK
      <3>. DEFINE r == [sig |-> SignatureOf(i), status |-> "partial", cand |-> Candidate, rev |-> i]
      <3>2. r \in Rows
        BY <3>1, SignatureType, PatternsAssumption
        DEF SignatureOf, Hypotheses, Rows, FindingStatus
      <3>3. Append(findings, r) # findings
        BY <1>1, <3>2
      <3>. QED
        BY <3>3 DEF PersistNext, persist_partial, insert_finding
    <2>. QED
      BY <1>1, <1>2, <2>1 DEF Kept, Own
  <1>3. ASSUME NEW r, NewRow(r), findings' = Append(findings, r)
        PROVE  Kept(j)'
    <2>1. r \in Rows /\ r.cand = Candidate
      BY <1>3 DEF NewRow
    <2>2. /\ DOMAIN findings' = DOMAIN findings \cup {Len(findings) + 1}
          /\ findings'[Len(findings) + 1] = r
          /\ \A k \in DOMAIN findings : findings'[k] = findings[k]
      BY <1>1, <1>3, <2>1, AppendKeeps
    <2>3. CASE Blocked(findings, feedback, SignatureOf(j))
      <3>1. Blocked(findings', feedback, SignatureOf(j))
        BY <1>1, <1>3, <2>1, <2>3, AddKeepsBlocked
      <3>. QED
        BY <1>1, <3>1 DEF Kept
    <2>4. CASE \E k \in Own : findings[k].status = "partial" /\ findings[k].rev = j
      BY <2>2, <2>4 DEF Kept, Own
    <2>5. CASE j = i /\ ~Blocked(findings, feedback, SignatureOf(i))
      <3>1. findings' = Append(findings, [sig |-> SignatureOf(i), status |-> "partial",
                                          cand |-> Candidate, rev |-> i])
        BY <2>5 DEF PersistNext, persist_partial, insert_finding
      <3>. DEFINE new == [sig |-> SignatureOf(i), status |-> "partial",
                          cand |-> Candidate, rev |-> i]
      <3>2. new \in Rows
        <4>1. hyps[i] \in Hypotheses /\ i \in Nat
          BY DEF TypeOK
        <4>. QED
          BY <4>1, SignatureType, PatternsAssumption
          DEF SignatureOf, Hypotheses, Rows, FindingStatus
      <3>3. findings'[Len(findings) + 1] = new
        BY <1>1, <3>1, <3>2, AppendKeeps
      <3>4. Len(findings) + 1 \in Own'
        BY <2>2, <3>3 DEF Own
      <3>. QED
        BY <2>5, <3>3, <3>4 DEF Kept
    <2>. QED
      BY <2>3, <2>4, <2>5 DEF Kept
  <1>. QED
    BY <1>2, <1>3, PersistNextStores

LEMMA WorkStep == TypeOK /\ WorkInv /\ [Next]_vars => WorkInv'
  <1>. SUFFICES ASSUME TypeOK, WorkInv, [Next]_vars PROVE WorkInv'
    OBVIOUS
  <1>. USE DEF WorkInv, WorkingNeverLost, Recorded, concluded_confirmed, Ending, fixedVars
  <1>1. CASE load_context
    BY <1>1 DEF load_context, Step
  <1>2. CASE \E charge \in TurnCosts, turn \in Turns : investigate(charge, turn)
    BY <1>2 DEF investigate, Step, route_after_investigate
  <1>3. CASE ToolNode
    BY <1>3 DEF ToolNode, Step
  <1>4. CASE ToolCall
    BY <1>4 DEF ToolCall, record_hypothesis, conclude_investigation
  <1>5. CASE EndTools
    BY <1>5 DEF EndTools, route_after_tools, graphVars
  <1>6. CASE persist_findings
    <2>1. /\ pc' = "persisting" /\ stop_reason' = _stop_reason /\ queue' = ToPersist
          /\ UNCHANGED <<hyps, ready_to_conclude, conclusion, cost, iteration, max_iterations>>
      BY <1>6 DEF persist_findings, Step
    <2>2. /\ Ready' = Ready /\ _latest_working_hypotheses' = _latest_working_hypotheses
          /\ _stop_reason' = _stop_reason /\ KeepsPartials' = KeepsPartials
      BY <2>1
      DEF Ready, _latest_working_hypotheses, SameKey, _stop_reason, KeepsPartials,
          _over_cost_cap, OutOfTurns
    <2>3. Ready = {} /\ KeepsPartials => queue' = _latest_working_hypotheses
      BY <2>1 DEF ToPersist
    <2>. QED
      BY <2>1, <2>2, <2>3
  <1>7. CASE \E i \in queue : PersistNext(i)
    <2>. PICK i \in queue : PersistNext(i)
      BY <1>7
    <2>1. /\ pc = "persisting" /\ pc' = "persisting" /\ queue' = queue \ {i}
          /\ UNCHANGED <<hyps, ready_to_conclude, conclusion, cost, iteration, max_iterations,
                         stop_reason>>
      BY DEF PersistNext
    <2>2. /\ Ready' = Ready /\ _latest_working_hypotheses' = _latest_working_hypotheses
          /\ _stop_reason' = _stop_reason /\ KeepsPartials' = KeepsPartials
      BY <2>1
      DEF Ready, _latest_working_hypotheses, SameKey, _stop_reason, KeepsPartials,
          _over_cost_cap, OutOfTurns
    <2>3. ASSUME Ready = {}, KeepsPartials, NEW j \in _latest_working_hypotheses \ queue'
          PROVE  Kept(j)'
      <3>1. j \in DOMAIN hyps /\ (j = i \/ Kept(j))
        BY <2>1, <2>3 DEF _latest_working_hypotheses
      <3>. QED
        BY <2>3, <3>1, PersistKeeps
    <2>. QED
      BY <2>1, <2>2, <2>3
  <1>8. CASE EndGraph \/ complete_investigation
    BY <1>8
    DEF EndGraph, complete_investigation, graphVars, dbVars, Ready,
        _latest_working_hypotheses, SameKey, _stop_reason, KeepsPartials, _over_cost_cap, OutOfTurns, Kept, Own, SignatureOf
  <1>9. CASE Raise \/ GraphRecursionError
    BY <1>9 DEF Raise, GraphRecursionError, graphVars
  <1>10. ASSUME CommitSession, ~row.error PROVE WorkInv'
    <2>1. /\ Ending /\ pc' = "done" /\ queue = {}
          /\ UNCHANGED <<hyps, ready_to_conclude, conclusion, stop_reason, findings, feedback>>
      BY <1>10 DEF CommitSession, graphVars, dbVars
    <2>2. ASSUME Ready = {}, stop_reason \in {"cost_cap", "iteration_cap"} \/ concluded_confirmed,
                 NEW i \in DOMAIN hyps
          PROVE  \/ Blocked(findings, feedback, SignatureOf(i))
                 \/ \E k \in Own :
                       /\ findings[k].status = "partial"
                       /\ findings[k].rev >= i
                       /\ SameKey(i, findings[k].rev)
                       /\ \A j \in DOMAIN hyps : SameKey(i, j) => j <= findings[k].rev
      <3>1. KeepsPartials
        BY <2>1, <2>2 DEF KeepsPartials, _stop_reason
      <3>2. PICK l \in _latest_working_hypotheses :
               SameKey(i, l) /\ \A j \in DOMAIN hyps : SameKey(i, j) => j <= l
        BY <2>2, LatestExists
      <3>3. Kept(l)
        BY <2>1, <2>2, <3>1
      <3>4. SignatureOf(l) = SignatureOf(i)
        BY <3>2 DEF SameKey, SignatureOf
      <3>5. i <= l /\ i \in Nat /\ l \in Nat
        BY <3>2 DEF SameKey, TypeOK, _latest_working_hypotheses
      <3>. QED
        BY <3>2, <3>3, <3>4, <3>5 DEF Kept
    <2>3. Ready' = Ready /\ Own' = Own
      BY <2>1 DEF Ready, Own
    <2>4. \A i, j : SameKey(i, j)' = SameKey(i, j)
      BY <2>1 DEF SameKey
    <2>5. \A i : SignatureOf(i)' = SignatureOf(i)
      BY <2>1 DEF SignatureOf
    <2>. QED
      BY <2>1, <2>2, <2>3, <2>4, <2>5 DEF SameKey, SignatureOf
  <1>11. CASE fail_investigation
    BY <1>11 DEF fail_investigation, graphVars
  <1>12. ASSUME CommitSession, row.error PROVE WorkInv'
    BY <1>12 DEF CommitSession, graphVars, dbVars
  <1>13. CASE RollBackSession
    BY <1>13 DEF RollBackSession, Unrecorded, graphVars
  <1>14. CASE UNCHANGED vars
    BY <1>14
    DEF vars, graphVars, dbVars, Ready, _latest_working_hypotheses, SameKey, _stop_reason,
        KeepsPartials, _over_cost_cap, OutOfTurns, Kept, Own, SignatureOf
  <1>. QED
    BY <1>1, <1>2, <1>3, <1>4, <1>5, <1>6, <1>7, <1>8, <1>9, <1>10, <1>11, <1>12,
       <1>13, <1>14 DEF Next

(***************************************************************************)
(* An investigation that a budget stopped, or that claimed a confirmation  *)
(* and finalised none, leaves the last version of each of its working      *)
(* hypotheses as a partial or finds it covered: persist_findings drops     *)
(* earlier versions of a key and nothing else.                             *)
(***************************************************************************)
THEOREM WorkIsKept == Spec => []WorkingNeverLost
  <1>1. Init => WorkInv
    BY DEF Init, WorkInv, WorkingNeverLost, Recorded, concluded_confirmed, NoConclusion,
       Ending
  <1>2. WorkInv => WorkingNeverLost
    BY DEF WorkInv
  <1>. QED
    BY <1>1, <1>2, WorkStep, TypeCorrect, PTL DEF Spec

=============================================================================
