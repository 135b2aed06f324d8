----------------------------- MODULE AnalysisPage -----------------------------
(***************************************************************************)
(* The Analysis page in a browser: analysis.js starts a scan of the scope  *)
(* selected and polls it, candidates.js shows the candidates of a run,     *)
(* starts their investigations and polls those.                            *)
(*                                                                         *)
(* JavaScript runs one callback at a time, up to its next `await`.  What   *)
(* waits is a request; answers come in any order, an interval fires        *)
(* whether or not its last callback has come to its end, and the user      *)
(* clicks in between.  Of the server there is what the page reads; the     *)
(* rest of it is in AnalysisRun and CandidatePipeline.                     *)
(***************************************************************************)
EXTENDS Naturals, FiniteSets, Sequences, SequencesExt

CONSTANTS
    Scopes,        \* what can be scanned, numbered in the order of its listing
    NoScope,       \* null
    DefaultScope,  \* what a request without a scope asks for
    PastRuns,      \* runs that were completed before the page was opened
    NoRun,         \* null
    Candidates,    \* the candidates of the past runs
    RunOf,         \* the run of a candidate
    NoAnswer,      \* a request the server has not read its answer to
    Visits,        \* what the user finds, and how often the user clicks
    MaxClicks,     \* bound on the clicks of a visit
    MaxRequests,   \* bound on the requests under way
    MaxFailures    \* bound on the requests that fail

ASSUME PageAssumption ==
    /\ Scopes \subseteq Nat \ {0} /\ IsFiniteSet(Scopes)
    /\ NoScope \notin Scopes /\ NoRun \notin PastRuns \cup Nat
    /\ RunOf \in [Candidates -> PastRuns]
    /\ \A visit \in Visits :
          /\ visit.available \subseteq Scopes
          /\ visit.loaded \in BOOLEAN
          /\ visit.loaded => visit.available # {}
          /\ {visit.scans, visit.panels} \subseteq 0..MaxClicks

VARIABLES
    \* what the server would answer
    available,        \* the scopes with events
    runs,             \* status of each run this page has started
    statuses,         \* status of each candidate
    \* analysis.js
    disabled,         \* trigger-btn.disabled
    runInFlight,
    pollHandle,       \* the run whose interval it is, or NoRun
    intervals,        \* the runs whose interval has not been cleared
    scopeOptions,     \* window.__scopeOptions
    selected,         \* scope-select: an index of scopeOptions, or 0
    \* candidates.js
    panel,            \* the run whose candidates are shown, and its cards
    candidatePolls,   \* the candidates in candidatePollHandles
    \* what is awaited, the oldest first
    requests,
    clicks,           \* the clicks still to come on each part of the page
    failures,
    unseen            \* the runs the candidates of which a request failed about

server == <<available, runs, statuses>>
polling == <<pollHandle, intervals>>
trigger == <<disabled, runInFlight, polling>>
selection == <<scopeOptions, selected>>
cards == <<panel, candidatePolls>>
bounds == <<clicks, failures, unseen>>
page == <<trigger, selection, cards>>
vars == <<server, page, requests, bounds>>

\* What is awaited, and what the function that awaits it was called with.
Ask(what, about) == [awaits |-> what, about |-> about, answer |-> NoAnswer]

Awaiting(i, what) == i \in DOMAIN requests /\ requests[i].awaits = what

Begin(request) ==
    /\ Len(requests) < MaxRequests
    /\ requests' = Append(requests, request)

Continue(i, request) == requests' = [requests EXCEPT ![i] = request]
Return(i) == requests' = RemoveAt(requests, i)

ScopeAt(options, k) == IF k \in DOMAIN options THEN options[k] ELSE NoScope

get_scope_options == SetToSortSeq(available, <)

\* The page has just been opened, with two questions under way.
Opened ==
    /\ requests = <<Ask("scope", [polled |-> FALSE]), Ask("options", [polled |-> FALSE])>>
    /\ scopeOptions = <<>> /\ selected = 0

Loaded ==
    /\ requests = <<>>
    /\ scopeOptions = get_scope_options /\ selected = 1

Init ==
    /\ runs = <<>>
    /\ disabled = FALSE /\ runInFlight = FALSE
    /\ pollHandle = NoRun /\ intervals = {}
    /\ panel = [run |-> NoRun, cards |-> <<>>] /\ candidatePolls = {}
    /\ failures = 0 /\ unseen = {}
    /\ \E visit \in Visits :
          /\ available = visit.available
          /\ statuses = visit.statuses
          /\ clicks = [scans |-> visit.scans, panels |-> visit.panels]
          /\ IF visit.loaded THEN Loaded ELSE Opened

-----------------------------------------------------------------------------
(* The server.                                                             *)

\* More events for a scope that is there change its size and its cost, which
\* only texts of the page show.
Ingest(scope) ==
    /\ available' = available \cup {scope}
    /\ UNCHANGED <<runs, statuses, page, requests, bounds>>

EndRun(run) ==
    /\ run \in DOMAIN runs /\ runs[run] = "running"
    /\ runs' = [runs EXCEPT ![run] = "ended"]
    /\ UNCHANGED <<available, statuses, page, requests, bounds>>

EndInvestigation(c) ==
    /\ statuses[c] = "investigating"
    /\ statuses' = [statuses EXCEPT ![c] = "investigated"]
    /\ UNCHANGED <<available, runs, page, requests, bounds>>

\* The lists that may be old when they arrive.
Listed(request) ==
    CASE request.awaits = "scope" -> [total |-> Cardinality(available)]
      [] request.awaits = "options" -> [options |-> get_scope_options]
      [] request.awaits = "cards" ->
            [cards |-> [c \in {d \in Candidates : RunOf[d] = request.about.run} |-> statuses[c]]]

ReadList(i) ==
    /\ Awaiting(i, "scope") \/ Awaiting(i, "options") \/ Awaiting(i, "cards")
    /\ requests[i].answer = NoAnswer
    /\ Continue(i, [requests[i] EXCEPT !.answer = Listed(requests[i])])
    /\ UNCHANGED <<server, page, bounds>>

Arrives(i, what) == Awaiting(i, what) /\ requests[i].answer # NoAnswer

-----------------------------------------------------------------------------
(* The scope selector.  Both lists are asked for when the page is opened,  *)
(* and one after the other when a poll has seen its run end.               *)

AfterIngestedScope(i) ==
    IF requests[i].about.polled THEN Continue(i, Ask("options", requests[i].about))
                                ELSE Return(i)

refreshIngestedScope(i) ==
    /\ Arrives(i, "scope")
    /\ disabled' = IF runInFlight THEN disabled ELSE requests[i].answer.total = 0
    /\ AfterIngestedScope(i)
    /\ UNCHANGED <<server, runInFlight, polling, selection, cards, bounds>>

\* The old index is selected again if the new list has one.
ShowOptions(options) ==
    /\ scopeOptions' = options
    /\ selected' = IF selected \in DOMAIN options THEN selected ELSE 1

refreshScopeOptions(i) ==
    /\ Arrives(i, "options")
    /\ LET options == requests[i].answer.options IN
       /\ disabled' = IF runInFlight THEN disabled ELSE options = <<>>
       /\ \/ options # <<>> /\ ShowOptions(options)
          \/ options = <<>> /\ selected' = 0 /\ UNCHANGED scopeOptions
    /\ Return(i)
    /\ UNCHANGED <<server, runInFlight, polling, cards, bounds>>

\* The user selects another scope.
SelectScope(k) ==
    /\ selected # 0 /\ k \in DOMAIN scopeOptions
    /\ selected' = k
    /\ UNCHANGED <<server, trigger, scopeOptions, cards, requests, bounds>>

selectedScope == ScopeAt(scopeOptions, selected)

-----------------------------------------------------------------------------
(* The trigger button, and the polls of the run it has started.            *)

Click(part) ==
    /\ clicks[part] > 0
    /\ clicks' = [clicks EXCEPT ![part] = @ - 1]
    /\ UNCHANGED <<failures, unseen>>

ClickTrigger ==
    /\ ~disabled
    /\ Click("scans")
    /\ disabled' = TRUE /\ runInFlight' = TRUE
    /\ Begin(Ask("run_id", [scope |-> IF selectedScope = NoScope THEN DefaultScope ELSE selectedScope]))
    /\ UNCHANGED <<server, polling, selection, cards>>

StartRun(i) ==
    /\ Awaiting(i, "run_id") /\ requests[i].about.scope \in available
    /\ runs' = Append(runs, "running")
    /\ UNCHANGED <<available, statuses>>

TriggerAccepted(i) ==
    /\ StartRun(i)
    /\ Continue(i, Ask("first table", [run |-> Len(runs')]))
    /\ UNCHANGED <<page, bounds>>

EnableTrigger(i) ==
    /\ disabled' = FALSE /\ runInFlight' = FALSE
    /\ Return(i)

\* 400 or 409: nothing there, or nothing new.
TriggerRefused(i) ==
    /\ Awaiting(i, "run_id")
    /\ EnableTrigger(i)
    /\ UNCHANGED <<server, polling, selection, cards, bounds>>

FaultyPollRun(i) ==
    /\ Awaiting(i, "first table")
    /\ intervals' = intervals \cup {requests[i].about.run}
    /\ pollHandle' = requests[i].about.run
    /\ Return(i)
    /\ UNCHANGED <<server, disabled, runInFlight, selection, cards, bounds>>

\* The new interval replaces the one that is there.
pollRun(i) ==
    /\ Awaiting(i, "first table")
    /\ intervals' = (intervals \ {pollHandle}) \cup {requests[i].about.run}
    /\ pollHandle' = requests[i].about.run
    /\ Return(i)
    /\ UNCHANGED <<server, disabled, runInFlight, selection, cards, bounds>>

RunInterval(run) ==
    /\ run \in intervals
    /\ Begin(Ask("run", [run |-> run]))
    /\ UNCHANGED <<server, page, bounds>>

RunArrives(i) ==
    /\ Awaiting(i, "run")
    /\ Continue(i, Ask("table", [status |-> runs[requests[i].about.run]]))
    /\ UNCHANGED <<server, page, bounds>>

\* It is pollHandle's interval that is cleared, whichever run the callback is of.
ClearInterval ==
    /\ intervals' = intervals \ {pollHandle}
    /\ pollHandle' = NoRun

FaultyEndPolling == ClearInterval /\ UNCHANGED runInFlight

EndPolling == ClearInterval /\ runInFlight' = FALSE

TableArrives(i) ==
    /\ Awaiting(i, "table")
    /\ \/ requests[i].about.status = "running" /\ Return(i) /\ UNCHANGED <<runInFlight, polling>>
       \/ requests[i].about.status # "running" /\ EndPolling /\ Continue(i, Ask("scope", [polled |-> TRUE]))
    /\ UNCHANGED <<server, disabled, selection, cards, bounds>>

-----------------------------------------------------------------------------
(* The candidates of a run.                                                *)

\* The cards of a run, or none while the panel says "Loading...".
Panel(run, shown) == [run |-> run, cards |-> shown]

\* The poll that has loads them, if one has.
AskCards(run, poll) == Ask("cards", [run |-> run, poll |-> poll])

ClickView(run) ==
    /\ Click("panels")
    /\ panel' = Panel(run, <<>>)
    /\ Begin(AskCards(run, {}))
    /\ UNCHANGED <<server, trigger, selection, candidatePolls>>

FaultyPolled(investigating) ==
    (candidatePolls \ investigating) \cup (investigating \ candidatePolls)

\* pollCandidate for each: an interval that is there is replaced.
Polled(investigating) == candidatePolls \cup investigating

loadCandidates(i) ==
    /\ Arrives(i, "cards")
    /\ LET shown == requests[i].answer.cards IN
       /\ panel' = Panel(requests[i].about.run, shown)
       /\ candidatePolls' = Polled({c \in DOMAIN shown : shown[c] = "investigating"})
    /\ Return(i)
    /\ UNCHANGED <<server, trigger, selection, bounds>>

\* Investigate or Discard.  The button is disabled, but a panel drawn anew has
\* another, so nothing here keeps the user from clicking twice.
ClickDecide(c, decision) ==
    /\ c \in DOMAIN panel.cards /\ panel.cards[c] = "pending"
    /\ Click("panels")
    /\ Begin(Ask("decision", [on |-> c, decision |-> decision]))
    /\ UNCHANGED <<server, page>>

Decide(i) ==
    /\ Awaiting(i, "decision") /\ statuses[requests[i].about.on] = "pending"
    /\ statuses' = [statuses EXCEPT ![requests[i].about.on] = requests[i].about.decision]
    /\ UNCHANGED <<available, runs>>

DecisionAccepted(i) ==
    /\ Decide(i)
    /\ LET run == RunOf[requests[i].about.on] IN
       /\ panel' = Panel(run, <<>>)
       /\ Continue(i, AskCards(run, {}))
    /\ UNCHANGED <<trigger, selection, candidatePolls, bounds>>

\* 409: it was decided before.
DecisionRefused(i) ==
    /\ Awaiting(i, "decision") /\ statuses[requests[i].about.on] # "pending"
    /\ Return(i)
    /\ UNCHANGED <<server, page, bounds>>

CandidateInterval(c) ==
    /\ c \in candidatePolls
    /\ Begin(Ask("candidate", [on |-> c]))
    /\ UNCHANGED <<server, page, bounds>>

CandidateArrives(i) ==
    /\ Awaiting(i, "candidate")
    /\ LET c == requests[i].about.on IN
       \/ statuses[c] = "investigating" /\ Return(i) /\ UNCHANGED cards
       \/ /\ statuses[c] # "investigating"
          /\ candidatePolls' = candidatePolls \ {c}
          /\ panel' = Panel(RunOf[c], <<>>)
          /\ Continue(i, AskCards(RunOf[c], {c}))
    /\ UNCHANGED <<server, trigger, selection, bounds>>

-----------------------------------------------------------------------------
(* The catch blocks: no answer comes, or an error.                         *)

Fail(about) ==
    /\ failures < MaxFailures
    /\ failures' = failures + 1
    /\ unseen' = unseen \cup about
    /\ UNCHANGED clicks

RefreshFails(i) ==
    /\ \/ Awaiting(i, "scope") /\ AfterIngestedScope(i)
       \/ Awaiting(i, "options") /\ Return(i)
    /\ Fail({})
    /\ UNCHANGED <<server, trigger, selection, cards>>

\* The run was started, but its id or the table after it does not come.
TriggerUnheard(i) ==
    /\ StartRun(i) \/ (Awaiting(i, "first table") /\ UNCHANGED server)
    /\ Fail({})
    /\ EnableTrigger(i)
    /\ UNCHANGED <<polling, selection, cards>>

RunPollFails(i) ==
    /\ Awaiting(i, "run") \/ Awaiting(i, "table")
    /\ Fail({})
    /\ ClearInterval
    /\ EnableTrigger(i)
    /\ UNCHANGED <<server, selection, cards>>

DecisionUnheard(i) ==
    /\ Decide(i)
    /\ Fail({})
    /\ Return(i)
    /\ UNCHANGED page

\* A panel that was loading goes on saying so.
CandidateFails(i) ==
    /\ \/ /\ Awaiting(i, "cards")
          /\ candidatePolls' = candidatePolls \ requests[i].about.poll
          /\ Fail({requests[i].about.run})
       \/ /\ Awaiting(i, "candidate")
          /\ candidatePolls' = candidatePolls \ {requests[i].about.on}
          /\ Fail({RunOf[requests[i].about.on]})
    /\ Return(i)
    /\ UNCHANGED <<server, trigger, selection, panel>>

-----------------------------------------------------------------------------

\* What comes of a request next.
Answered(i) ==
    \/ ReadList(i) \/ refreshIngestedScope(i) \/ refreshScopeOptions(i) \/ RefreshFails(i)
    \/ TriggerAccepted(i) \/ TriggerRefused(i) \/ TriggerUnheard(i) \/ pollRun(i)
    \/ RunArrives(i) \/ TableArrives(i) \/ RunPollFails(i)
    \/ DecisionAccepted(i) \/ DecisionRefused(i) \/ DecisionUnheard(i)
    \/ loadCandidates(i) \/ CandidateArrives(i) \/ CandidateFails(i)

Next ==
    \/ \E i \in 1..MaxRequests : Answered(i)
    \/ \E run \in 1..MaxClicks : EndRun(run) \/ RunInterval(run)
    \/ \E c \in Candidates : EndInvestigation(c) \/ CandidateInterval(c)
    \/ \E scope \in Scopes : Ingest(scope)
    \/ \E k \in 1..Cardinality(Scopes) : SelectScope(k)
    \/ ClickTrigger
    \/ \E run \in PastRuns : ClickView(run)
    \/ \E c \in Candidates, decision \in {"investigating", "discarded"} : ClickDecide(c, decision)

Spec == Init /\ [][Next]_vars

(***************************************************************************)
(* The oldest request is answered or fails, intervals go on firing, runs   *)
(* and investigations end.  The user need not do anything.                 *)
(***************************************************************************)
FairSpec ==
    /\ Spec
    /\ WF_vars(Answered(1))
    /\ \A run \in 1..MaxClicks : WF_vars(RunInterval(run)) /\ WF_vars(EndRun(run))
    /\ \A c \in Candidates : WF_vars(CandidateInterval(c)) /\ WF_vars(EndInvestigation(c))

-----------------------------------------------------------------------------
(* Properties.                                                             *)

(***************************************************************************)
(* At most one run is polled, and by the interval that the next            *)
(* clearInterval stops, whichever runs' handlers and callbacks went before *)
(* it in whatever order (pollRun, and the ends of its callbacks).          *)
(***************************************************************************)
NoIntervalLeaks == intervals = {pollHandle} \ {NoRun}

(***************************************************************************)
(* A button that a run has disabled comes back: no answer that is late, no *)
(* callback that is left over from another run and no single failure       *)
(* leaves it dead for good.                                                *)
(***************************************************************************)
ButtonComesBack == runInFlight ~> ~disabled \/ failures > 1

(***************************************************************************)
(* A card that says "Investigating..." is drawn again when it is no longer *)
(* true, even if it was late itself, unless a request about its run failed *)
(* or the panel is another run's by then.                                  *)
(***************************************************************************)
CardsCatchUp ==
    \A c \in Candidates :
        (panel.run = RunOf[c] /\ c \in DOMAIN panel.cards /\ panel.cards[c] = "investigating")
        ~> \/ c \in DOMAIN panel.cards /\ panel.cards[c] = "investigated"
           \/ panel.run # RunOf[c]
           \/ RunOf[c] \in unseen

=============================================================================
