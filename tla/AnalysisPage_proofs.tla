------------------------- MODULE AnalysisPage_proofs --------------------------
(***************************************************************************)
(* For every listing of scopes, every order of answers and any number of   *)
(* requests, clicks and failures: no interval is left over, and what the   *)
(* page still shows as going on is being asked about.  The second is the   *)
(* part of ButtonComesBack and CardsCatchUp that is about states.          *)
(***************************************************************************)
EXTENDS AnalysisPage, SequenceTheorems, TLAPS

\* What is awaited is about a run with a number, or about one run's candidates.
Sound(request) ==
    /\ request = [awaits |-> request.awaits, about |-> request.about, answer |-> request.answer]
    /\ request.awaits = "first table" => request.about.run \in Nat
    /\ request.awaits = "cards" =>
          \A c \in request.about.poll : RunOf[c] = request.about.run

RequestInv ==
    /\ requests \in Seq(Range(requests))
    /\ \A i \in DOMAIN requests : Sound(requests[i])

\* A request by which a run is started, and its table first shown.
Starting(request) == request.awaits \in {"run_id", "first table"}

\* A run in flight is being started, or polled.
RunIsWatched ==
    runInFlight => pollHandle # NoRun \/ \E i \in DOMAIN requests : Starting(requests[i])

\* A card that says "Investigating..." is polled, unless a request about its run failed.
InvestigatingIsPolled ==
    \A c \in DOMAIN panel.cards :
        panel.cards[c] = "investigating" => c \in candidatePolls \/ RunOf[c] \in unseen

Inv ==
    /\ runs \in Seq({"running", "ended"})
    /\ RequestInv
    /\ NoIntervalLeaks
    /\ RunIsWatched
    /\ InvestigatingIsPolled

(***************************************************************************)
(* Removing a member of a sequence leaves the others, and adds none.       *)
(***************************************************************************)
LEMMA RemovalLeavesOthers ==
  ASSUME NEW S, NEW s \in Seq(S), NEW i \in DOMAIN s
  PROVE  /\ RemoveAt(s, i) \in Seq(S)
         /\ \A j \in DOMAIN RemoveAt(s, i) : \E k \in DOMAIN s : RemoveAt(s, i)[j] = s[k]
         /\ \A k \in DOMAIN s \ {i} : \E j \in DOMAIN RemoveAt(s, i) : RemoveAt(s, i)[j] = s[k]
  <1> DEFINE t == RemoveAt(s, i)
  <1>1. Len(s) \in Nat /\ DOMAIN s = 1..Len(s) /\ i \in 1..Len(s)
    OBVIOUS
  <1>2. t = [j \in 1..(Len(s) - 1) |-> IF j < i THEN s[j] ELSE s[j + 1]]
    <2> DEFINE u == SubSeq(s, 1, i - 1)
               v == SubSeq(s, i + 1, Len(s))
    <2>1. u \in Seq(S) /\ Len(u) = i - 1 /\ \A j \in 1..(i - 1) : u[j] = s[j]
      BY <1>1
    <2>2. v \in Seq(S) /\ Len(v) = Len(s) - i /\ \A j \in 1..(Len(s) - i) : v[j] = s[i + j]
      BY <1>1
    <2>3. t = u \o v
      BY DEF RemoveAt
    <2> HIDE DEF t, u, v
    <2>4. t \in Seq(S) /\ Len(t) = Len(s) - 1
      <3>1. t \in Seq(S) /\ Len(t) = Len(u) + Len(v)
        BY <2>1, <2>2, <2>3, ConcatProperties
      <3> QED
        BY <1>1, <2>1, <2>2, <3>1
    <2>5. ASSUME NEW j \in 1..(Len(s) - 1) PROVE t[j] = IF j < i THEN s[j] ELSE s[j + 1]
      <3>1. t[j] = IF j <= Len(u) THEN u[j] ELSE v[j - Len(u)]
        <4>1. Len(u) + Len(v) = Len(s) - 1
          BY <1>1, <2>1, <2>2
        <4>2. \A k \in 1..(Len(u) + Len(v)) :
                 (u \o v)[k] = IF k <= Len(u) THEN u[k] ELSE v[k - Len(u)]
          BY <2>1, <2>2, ConcatProperties
        <4> QED
          BY <2>3, <4>1, <4>2
      <3>2. CASE j < i
        BY <1>1, <2>1, <3>2, <3>1
      <3>3. CASE ~(j < i)
        <4>1. t[j] = v[j - (i - 1)]
          BY <1>1, <2>1, <3>3, <3>1
        <4>2. j - (i - 1) \in 1..(Len(s) - i) /\ i + (j - (i - 1)) = j + 1
          BY <1>1, <3>3
        <4> QED
          BY <2>2, <3>3, <4>1, <4>2
      <3> QED
        BY <3>2, <3>3
    <2> QED
      BY <1>1, <2>4, <2>5
  <1> HIDE DEF t
  <1>3. t \in Seq(S)
    BY <1>1, <1>2
  <1>4. ASSUME NEW j \in DOMAIN t PROVE \E k \in DOMAIN s : t[j] = s[k]
    BY <1>1, <1>2
  <1>5. ASSUME NEW k \in DOMAIN s \ {i} PROVE \E j \in DOMAIN t : t[j] = s[k]
    <2>1. CASE k < i
      BY <1>1, <1>2, <2>1
    <2>2. CASE k > i
      <3>1. k - 1 \in 1..(Len(s) - 1) /\ ~(k - 1 < i) /\ (k - 1) + 1 = k
        BY <1>1, <2>2
      <3> QED
        BY <1>2, <3>1
    <2> QED
      BY <1>1, <2>1, <2>2
  <1> QED
    BY <1>3, <1>4, <1>5 DEF t

(***************************************************************************)
(* A sequence is one of what occurs in it.                                 *)
(***************************************************************************)
LEMMA SequenceOfItsRange ==
  ASSUME NEW S, NEW s \in Seq(S)
  PROVE  s \in Seq(Range(s))
  BY DEF Range

(***************************************************************************)
(* A request that is sent is added to those under way.                     *)
(***************************************************************************)
LEMMA BeginAdds ==
  ASSUME RequestInv, NEW request, Begin(request), Sound(request)
  PROVE  /\ RequestInv'
         /\ \A i \in DOMAIN requests : i \in DOMAIN requests' /\ requests'[i] = requests[i]
         /\ Len(requests) + 1 \in DOMAIN requests' /\ requests'[Len(requests) + 1] = request
  <1> DEFINE S == Range(requests) \cup {request}
  <1>1. requests \in Seq(S)
    BY DEF RequestInv
  <1>2. requests' = Append(requests, request) /\ requests' \in Seq(S)
    BY <1>1 DEF Begin
  <1>3. \A i \in DOMAIN requests : i \in DOMAIN requests' /\ requests'[i] = requests[i]
    BY <1>1, <1>2
  <1>4. Len(requests) + 1 \in DOMAIN requests' /\ requests'[Len(requests) + 1] = request
    BY <1>1, <1>2
  <1>5. \A i \in DOMAIN requests' : i \in DOMAIN requests \/ i = Len(requests) + 1
    BY <1>1, <1>2
  <1>6. \A i \in DOMAIN requests' : Sound(requests'[i])
    BY <1>3, <1>4, <1>5 DEF RequestInv
  <1>7. requests' \in Seq(Range(requests'))
    BY <1>2, SequenceOfItsRange
  <1> QED
    BY <1>3, <1>4, <1>6, <1>7 DEF RequestInv, Sound

(***************************************************************************)
(* A function that goes on to its next await leaves the others alone.      *)
(***************************************************************************)
LEMMA ContinueReplaces ==
  ASSUME RequestInv, NEW i \in DOMAIN requests, NEW request, Continue(i, request), Sound(request)
  PROVE  /\ RequestInv'
         /\ DOMAIN requests' = DOMAIN requests
         /\ requests'[i] = request
         /\ \A k \in DOMAIN requests \ {i} : requests'[k] = requests[k]
  <1> DEFINE S == Range(requests) \cup {request}
  <1>1. requests \in Seq(S)
    BY DEF RequestInv
  <1>2. requests' = [requests EXCEPT ![i] = request] /\ requests' \in Seq(S)
    BY <1>1 DEF Continue
  <1>3. DOMAIN requests' = DOMAIN requests /\ requests'[i] = request
        /\ \A k \in DOMAIN requests \ {i} : requests'[k] = requests[k]
    BY <1>2
  <1>4. \A k \in DOMAIN requests' : Sound(requests'[k])
    BY <1>3 DEF RequestInv
  <1>5. requests' \in Seq(Range(requests'))
    BY <1>2, SequenceOfItsRange
  <1> QED
    BY <1>3, <1>4, <1>5 DEF RequestInv, Sound

(***************************************************************************)
(* A function that returns leaves the others under way.                    *)
(***************************************************************************)
LEMMA ReturnRemoves ==
  ASSUME RequestInv, NEW i \in DOMAIN requests, Return(i)
  PROVE  /\ RequestInv'
         /\ \A k \in DOMAIN requests \ {i} : \E j \in DOMAIN requests' : requests'[j] = requests[k]
  <1>1. /\ requests' \in Seq(Range(requests))
        /\ \A j \in DOMAIN requests' : \E k \in DOMAIN requests : requests'[j] = requests[k]
        /\ \A k \in DOMAIN requests \ {i} : \E j \in DOMAIN requests' : requests'[j] = requests[k]
    BY RemovalLeavesOthers DEF RequestInv, Return
  <1>2. \A j \in DOMAIN requests' : Sound(requests'[j])
    BY <1>1 DEF RequestInv
  <1>3. requests' \in Seq(Range(requests'))
    BY <1>1, SequenceOfItsRange
  <1> QED
    BY <1>1, <1>2, <1>3 DEF RequestInv, Sound

(***************************************************************************)
(* What a request asks is sound as long as what it is about is.            *)
(***************************************************************************)
LEMMA AskIsSound ==
  ASSUME NEW what, NEW about,
         what = "first table" => about.run \in Nat,
         what = "cards" => \A c \in about.poll : RunOf[c] = about.run
  PROVE  Sound(Ask(what, about)) /\ Ask(what, about).awaits = what
  BY DEF Sound, Ask

(***************************************************************************)
(* An answer leaves a request what it is.                                  *)
(***************************************************************************)
LEMMA AnswerIsPut ==
  ASSUME NEW r, NEW answer,
         r = [awaits |-> r.awaits, about |-> r.about, answer |-> r.answer]
  PROVE  [r EXCEPT !.answer = answer] = [awaits |-> r.awaits, about |-> r.about, answer |-> answer]
  <1> DEFINE a == r.awaits
             b == r.about
             c == r.answer
  <1>1. r = [awaits |-> a, about |-> b, answer |-> c]
    OBVIOUS
  <1> HIDE DEF a, b, c
  <1>2. [r EXCEPT !.answer = answer] = [awaits |-> a, about |-> b, answer |-> answer]
    BY <1>1
  <1> QED
    BY <1>2 DEF a, b

(***************************************************************************)
(* No function but the one that starts a run touches what watches it.      *)
(***************************************************************************)
LEMMA OthersKeepWatch ==
  ASSUME RequestInv, RunIsWatched, NEW i \in DOMAIN requests, ~Starting(requests[i]),
         NEW request, Sound(request), Continue(i, request) \/ Return(i),
         runInFlight' = FALSE \/ UNCHANGED <<runInFlight, pollHandle>>
  PROVE  RequestInv' /\ RunIsWatched'
  <1>1. RequestInv' /\ \A k \in DOMAIN requests \ {i} :
                          \E j \in DOMAIN requests' : requests'[j] = requests[k]
    BY ContinueReplaces, ReturnRemoves
  <1>2. CASE runInFlight' = FALSE
    BY <1>1, <1>2 DEF RunIsWatched
  <1>3. CASE UNCHANGED <<runInFlight, pollHandle>>
    BY <1>1, <1>3 DEF RunIsWatched, Starting
  <1> QED
    BY <1>2, <1>3

(***************************************************************************)
(* What is sent beside them does not either.                               *)
(***************************************************************************)
LEMMA NewcomersKeepWatch ==
  ASSUME RequestInv, RunIsWatched, NEW request, Sound(request), Begin(request),
         UNCHANGED <<runInFlight, pollHandle>>
  PROVE  RequestInv' /\ RunIsWatched'
  BY BeginAdds DEF RunIsWatched, Starting

(***************************************************************************)
(* The invariant holds when the page has been opened.                      *)
(***************************************************************************)
LEMMA InvInit == Init => Inv
  <1> SUFFICES ASSUME Init PROVE Inv
    OBVIOUS
  <1>1. runs \in Seq({"running", "ended"}) /\ NoIntervalLeaks /\ RunIsWatched
    BY DEF Init, NoIntervalLeaks, RunIsWatched
  <1>2. InvestigatingIsPolled
    <2>1. panel.cards = <<>> /\ DOMAIN panel.cards = {}
      BY DEF Init
    <2> QED
      BY <2>1 DEF InvestigatingIsPolled
  <1>3. RequestInv
    <2>1. CASE requests = <<>>
      <3>1. requests \in Seq({}) /\ DOMAIN requests = {}
        BY <2>1
      <3> QED
        BY <3>1, SequenceOfItsRange DEF RequestInv
    <2>2. CASE requests = <<Ask("scope", [polled |-> FALSE]), Ask("options", [polled |-> FALSE])>>
      <3> DEFINE a == Ask("scope", [polled |-> FALSE])
                 b == Ask("options", [polled |-> FALSE])
      <3>1. Sound(a) /\ Sound(b)
        BY AskIsSound
      <3> HIDE DEF a, b
      <3>2. requests = <<a, b>>
        BY <2>2 DEF a, b
      <3>3. requests \in Seq({a, b}) /\ DOMAIN requests = {1, 2}
            /\ requests[1] = a /\ requests[2] = b
        BY <3>2
      <3> QED
        BY <3>1, <3>3, SequenceOfItsRange DEF RequestInv
    <2> QED
      BY <2>1, <2>2 DEF Init, Opened, Loaded
  <1> QED
    BY <1>1, <1>2, <1>3 DEF Inv

(***************************************************************************)
(* The scope selector.                                                     *)
(***************************************************************************)
LEMMA SelectorStep ==
  ASSUME Inv, NEW i,
         ReadList(i) \/ refreshIngestedScope(i) \/ refreshScopeOptions(i) \/ RefreshFails(i)
  PROVE  Inv'
  <1> USE DEF Inv
  <1>1. UNCHANGED <<runs, runInFlight, pollHandle, intervals, panel, candidatePolls>>
        /\ unseen \subseteq unseen'
    BY DEF ReadList, refreshIngestedScope, refreshScopeOptions, RefreshFails, Fail,
           server, page, trigger, polling, cards, bounds
  <1>2. i \in DOMAIN requests /\ requests[i].awaits \in {"scope", "options", "cards"}
    BY DEF ReadList, refreshIngestedScope, refreshScopeOptions, RefreshFails, Arrives, Awaiting
  <1>3. Sound(requests[i]) /\ ~Starting(requests[i])
    BY <1>2 DEF RequestInv, Starting
  <1>4. RequestInv' /\ RunIsWatched'
    <2>1. CASE ReadList(i)
      <3> DEFINE request == [requests[i] EXCEPT !.answer = Listed(requests[i])]
      <3>1. Sound(request)
        <4> DEFINE answer == Listed(requests[i])
        <4> HIDE DEF answer
        <4>1. request = [awaits |-> requests[i].awaits, about |-> requests[i].about,
                         answer |-> answer]
          BY <1>3, AnswerIsPut DEF Sound, answer
        <4> HIDE DEF request
        <4>2. request.awaits = requests[i].awaits /\ request.about = requests[i].about
              /\ request.answer = answer
          BY <4>1
        <4> QED
          BY <1>3, <4>1, <4>2 DEF Sound
      <3>2. Continue(i, request)
        BY <2>1 DEF ReadList
      <3> HIDE DEF request
      <3> QED
        BY <1>1, <1>2, <1>3, <3>1, <3>2, OthersKeepWatch
    <2>2. CASE refreshIngestedScope(i) \/ refreshScopeOptions(i) \/ RefreshFails(i)
      <3>1. Return(i) \/ Continue(i, Ask("options", requests[i].about))
        BY <2>2 DEF refreshIngestedScope, refreshScopeOptions, RefreshFails, AfterIngestedScope
      <3>2. Sound(Ask("options", requests[i].about))
        BY AskIsSound
      <3> QED
        BY <1>1, <1>2, <1>3, <3>1, <3>2, OthersKeepWatch
    <2> QED
      BY <2>1, <2>2
  <1>5. NoIntervalLeaks' /\ InvestigatingIsPolled'
    BY <1>1 DEF NoIntervalLeaks, InvestigatingIsPolled
  <1> QED
    BY <1>1, <1>4, <1>5

(***************************************************************************)
(* The trigger button and the polls of a run.                              *)
(***************************************************************************)
LEMMA TriggerStep ==
  ASSUME Inv, NEW i,
         \/ TriggerAccepted(i) \/ TriggerRefused(i) \/ TriggerUnheard(i) \/ pollRun(i)
         \/ RunArrives(i) \/ TableArrives(i) \/ RunPollFails(i)
  PROVE  Inv'
  <1> USE DEF Inv
  <1>1. UNCHANGED <<panel, candidatePolls>> /\ unseen \subseteq unseen'
    BY DEF TriggerAccepted, TriggerRefused, TriggerUnheard, pollRun, RunArrives, TableArrives,
           RunPollFails, Fail, page, trigger, cards, bounds
  <1>2. InvestigatingIsPolled'
    BY <1>1 DEF InvestigatingIsPolled
  <1>3. i \in DOMAIN requests
    BY DEF TriggerAccepted, TriggerRefused, TriggerUnheard, pollRun, RunArrives, TableArrives,
           RunPollFails, StartRun, Awaiting
  <1>4. runs' \in Seq({"running", "ended"})
    <2>1. runs' = Append(runs, "running") \/ runs' = runs
      BY DEF TriggerAccepted, TriggerRefused, TriggerUnheard, pollRun, RunArrives, TableArrives,
             RunPollFails, StartRun, server
    <2> QED
      BY <2>1
  <1>5. CASE TriggerAccepted(i)
    <2> DEFINE request == Ask("first table", [run |-> Len(runs')])
    <2>1. Sound(request) /\ request.awaits = "first table"
      <3> DEFINE about == [run |-> Len(runs')]
      <3>1. about.run \in Nat
        BY <1>4
      <3> HIDE DEF about
      <3>2. Sound(Ask("first table", about)) /\ Ask("first table", about).awaits = "first table"
        BY <3>1, AskIsSound
      <3> QED
        BY <3>2 DEF about
    <2>2. Continue(i, request) /\ UNCHANGED <<pollHandle, intervals>>
      BY <1>5 DEF TriggerAccepted, page, trigger, polling
    <2> HIDE DEF request
    <2>3. RequestInv' /\ i \in DOMAIN requests' /\ Starting(requests'[i])
      BY <1>3, <2>1, <2>2, ContinueReplaces DEF Starting
    <2> QED
      BY <1>2, <1>4, <2>2, <2>3 DEF NoIntervalLeaks, RunIsWatched, Starting
  <1>6. CASE TriggerRefused(i) \/ TriggerUnheard(i)
    <2>1. Return(i) /\ runInFlight' = FALSE /\ UNCHANGED <<pollHandle, intervals>>
      BY <1>6 DEF TriggerRefused, TriggerUnheard, EnableTrigger, polling
    <2> QED
      BY <1>2, <1>3, <1>4, <2>1, ReturnRemoves DEF NoIntervalLeaks, RunIsWatched
  <1>7. CASE pollRun(i)
    <2> DEFINE run == requests[i].about.run
    <2>1. run \in Nat /\ run # NoRun
      BY <1>3, <1>7, PageAssumption DEF pollRun, Awaiting, RequestInv, Sound
    <2>2. Return(i) /\ pollHandle' = run /\ intervals' = (intervals \ {pollHandle}) \cup {run}
      BY <1>7 DEF pollRun
    <2>3. intervals' = {run}
      BY <2>2 DEF NoIntervalLeaks
    <2> QED
      BY <1>2, <1>3, <1>4, <2>1, <2>2, <2>3, ReturnRemoves DEF NoIntervalLeaks, RunIsWatched
  <1>8. CASE RunArrives(i)
    <2> DEFINE request == Ask("table", [status |-> runs[requests[i].about.run]])
    <2>1. Sound(request)
      BY AskIsSound
    <2>2. /\ Continue(i, request) /\ ~Starting(requests[i])
          /\ UNCHANGED <<runInFlight, pollHandle, intervals>>
      BY <1>8 DEF RunArrives, Awaiting, Starting, page, trigger, polling
    <2> HIDE DEF request
    <2> QED
      BY <1>2, <1>3, <1>4, <2>1, <2>2, OthersKeepWatch DEF NoIntervalLeaks
  <1>9. CASE TableArrives(i)
    <2>1. Sound(Ask("scope", [polled |-> TRUE]))
      BY AskIsSound
    <2>2. /\ Return(i) \/ Continue(i, Ask("scope", [polled |-> TRUE]))
          /\ ~Starting(requests[i])
          /\ runInFlight' = FALSE \/ UNCHANGED <<runInFlight, pollHandle>>
      BY <1>9 DEF TableArrives, Awaiting, Starting, EndPolling, polling
    <2>3. NoIntervalLeaks'
      BY <1>9 DEF TableArrives, EndPolling, ClearInterval, polling, NoIntervalLeaks
    <2> QED
      BY <1>2, <1>3, <1>4, <2>1, <2>2, <2>3, OthersKeepWatch
  <1>10. CASE RunPollFails(i)
    <2>1. Return(i) /\ runInFlight' = FALSE
      BY <1>10 DEF RunPollFails, EnableTrigger
    <2>2. NoIntervalLeaks'
      BY <1>10 DEF RunPollFails, ClearInterval, NoIntervalLeaks
    <2> QED
      BY <1>2, <1>3, <1>4, <2>1, <2>2, ReturnRemoves DEF RunIsWatched
  <1> QED
    BY <1>5, <1>6, <1>7, <1>8, <1>9, <1>10

(***************************************************************************)
(* The candidates of a run.  What is drawn is polled in the same step.     *)
(***************************************************************************)
LEMMA CandidateStep ==
  ASSUME Inv, NEW i,
         \/ DecisionAccepted(i) \/ DecisionRefused(i) \/ DecisionUnheard(i)
         \/ loadCandidates(i) \/ CandidateArrives(i) \/ CandidateFails(i)
  PROVE  Inv'
  <1> USE DEF Inv
  <1>1. UNCHANGED <<runs, runInFlight, pollHandle, intervals>>
    BY DEF DecisionAccepted, DecisionRefused, DecisionUnheard, loadCandidates, CandidateArrives,
           CandidateFails, Decide, server, page, trigger, polling
  <1>2. i \in DOMAIN requests /\ requests[i].awaits \in {"decision", "cards", "candidate"}
    BY DEF DecisionAccepted, DecisionRefused, DecisionUnheard, loadCandidates, CandidateArrives,
           CandidateFails, Decide, Arrives, Awaiting
  <1>3. ~Starting(requests[i])
    BY <1>2 DEF Starting
  <1>4. RequestInv' /\ RunIsWatched'
    <2> DEFINE c == requests[i].about.on
    <2>1. Sound(AskCards(RunOf[c], {})) /\ Sound(AskCards(RunOf[c], {c}))
      BY AskIsSound DEF AskCards
    <2>2. Return(i) \/ Continue(i, AskCards(RunOf[c], {})) \/ Continue(i, AskCards(RunOf[c], {c}))
      BY DEF DecisionAccepted, DecisionRefused, DecisionUnheard, loadCandidates, CandidateArrives,
             CandidateFails
    <2> QED
      BY <1>1, <1>2, <1>3, <2>1, <2>2, OthersKeepWatch
  <1>5. NoIntervalLeaks'
    BY <1>1 DEF NoIntervalLeaks
  <1>6. InvestigatingIsPolled'
    <2>1. CASE panel'.cards = <<>>
      BY <2>1 DEF InvestigatingIsPolled
    <2>2. CASE loadCandidates(i)
      BY <2>2 DEF loadCandidates, Panel, Polled, InvestigatingIsPolled
    <2>3. CASE CandidateFails(i) /\ requests[i].awaits = "cards"
      <3>1. /\ candidatePolls' = candidatePolls \ requests[i].about.poll
            /\ unseen' = unseen \cup {requests[i].about.run} /\ UNCHANGED panel
        BY <2>3 DEF CandidateFails, Awaiting, Fail
      <3>2. \A c \in requests[i].about.poll : RunOf[c] = requests[i].about.run
        BY <1>2, <2>3 DEF RequestInv, Sound
      <3> QED
        BY <3>1, <3>2 DEF InvestigatingIsPolled
    <2>4. CASE CandidateFails(i) /\ requests[i].awaits = "candidate"
      BY <2>4 DEF CandidateFails, Awaiting, Fail, InvestigatingIsPolled
    <2>5. CASE UNCHANGED <<panel, candidatePolls>> /\ unseen \subseteq unseen'
      BY <2>5 DEF InvestigatingIsPolled
    <2>6. DecisionAccepted(i) => panel'.cards = <<>>
      BY DEF DecisionAccepted, Panel
    <2>7. CandidateArrives(i) => panel'.cards = <<>> \/ UNCHANGED <<panel, candidatePolls, unseen>>
      BY DEF CandidateArrives, Panel, cards, bounds
    <2>8. DecisionRefused(i) \/ DecisionUnheard(i) =>
             UNCHANGED <<panel, candidatePolls>> /\ unseen \subseteq unseen'
      BY DEF DecisionRefused, DecisionUnheard, Fail, page, cards, bounds
    <2> QED
      BY <1>2, <2>1, <2>2, <2>3, <2>4, <2>5, <2>6, <2>7, <2>8 DEF CandidateFails, Awaiting
  <1> QED
    BY <1>1, <1>4, <1>5, <1>6

(***************************************************************************)
(* Clicks and intervals send one request each.                             *)
(***************************************************************************)
LEMMA ClickStep ==
  ASSUME Inv,
         \/ ClickTrigger \/ \E run : RunInterval(run) \/ ClickView(run)
         \/ \E c : CandidateInterval(c) \/ \E decision : ClickDecide(c, decision)
  PROVE  Inv'
  <1> USE DEF Inv
  <1>1. UNCHANGED <<runs, pollHandle, intervals, candidatePolls, unseen>>
    BY DEF ClickTrigger, RunInterval, ClickView, CandidateInterval, ClickDecide, Click,
           server, page, trigger, polling, cards, bounds
  <1>2. NoIntervalLeaks'
    BY <1>1 DEF NoIntervalLeaks
  <1>3. InvestigatingIsPolled'
    <2>1. panel'.cards = <<>> \/ UNCHANGED panel
      <3>1. ASSUME NEW run, ClickView(run) PROVE panel'.cards = <<>>
        BY <3>1 DEF ClickView, Panel
      <3> QED
        BY <3>1 DEF ClickTrigger, RunInterval, CandidateInterval, ClickDecide, page, cards
    <2> QED
      BY <1>1, <2>1 DEF InvestigatingIsPolled
  <1>4. CASE ClickTrigger
    <2> DEFINE request == Ask("run_id", [scope |-> IF selectedScope = NoScope THEN DefaultScope
                                                                             ELSE selectedScope])
    <2>1. Sound(request) /\ request.awaits = "run_id"
      BY AskIsSound
    <2>2. Begin(request)
      BY <1>4 DEF ClickTrigger
    <2> HIDE DEF request
    <2> QED
      BY <1>1, <1>2, <1>3, <2>1, <2>2, BeginAdds DEF RunIsWatched, Starting
  <1>5. ASSUME NEW run, RunInterval(run) PROVE Inv'
    <2>1. Sound(Ask("run", [run |-> run]))
      BY AskIsSound
    <2> QED
      BY <1>1, <1>2, <1>3, <1>5, <2>1, NewcomersKeepWatch DEF RunInterval, page, trigger
  <1>6. ASSUME NEW run, ClickView(run) PROVE Inv'
    <2>1. Sound(AskCards(run, {}))
      BY AskIsSound DEF AskCards
    <2> QED
      BY <1>1, <1>2, <1>3, <1>6, <2>1, NewcomersKeepWatch DEF ClickView, trigger
  <1>7. ASSUME NEW c, CandidateInterval(c) PROVE Inv'
    <2>1. Sound(Ask("candidate", [on |-> c]))
      BY AskIsSound
    <2> QED
      BY <1>1, <1>2, <1>3, <1>7, <2>1, NewcomersKeepWatch DEF CandidateInterval, page, trigger
  <1>8. ASSUME NEW c, NEW decision, ClickDecide(c, decision) PROVE Inv'
    <2>1. Sound(Ask("decision", [on |-> c, decision |-> decision]))
      BY AskIsSound
    <2> QED
      BY <1>1, <1>2, <1>3, <1>8, <2>1, NewcomersKeepWatch DEF ClickDecide, page, trigger
  <1> QED
    BY <1>4, <1>5, <1>6, <1>7, <1>8

(***************************************************************************)
(* Every step keeps the invariant.                                         *)
(***************************************************************************)
LEMMA InvNext == Inv /\ [Next]_vars => Inv'
  <1> SUFFICES ASSUME Inv, [Next]_vars PROVE Inv'
    OBVIOUS
  <1>1. ASSUME UNCHANGED <<runs, runInFlight, polling, cards, requests, unseen>> PROVE Inv'
    BY <1>1 DEF Inv, RequestInv, Sound, NoIntervalLeaks, RunIsWatched, InvestigatingIsPolled,
                polling, cards
  <1>2. ASSUME NEW run, EndRun(run) PROVE Inv'
    <2>1. runs' \in Seq({"running", "ended"})
      <3>1. runs \in Seq({"running", "ended"}) /\ run \in DOMAIN runs /\ runs' = [runs EXCEPT ![run] = "ended"]
        BY <1>2 DEF EndRun, Inv
      <3> QED
        BY <3>1
    <2> QED
      BY <1>2, <2>1 DEF Inv, RequestInv, Sound, NoIntervalLeaks, RunIsWatched,
                        InvestigatingIsPolled, EndRun, page, trigger, polling, cards, bounds
  <1>3. ASSUME NEW scope, Ingest(scope) PROVE Inv'
    BY <1>1, <1>3 DEF Ingest, page, trigger, bounds
  <1>4. ASSUME NEW c, EndInvestigation(c) PROVE Inv'
    BY <1>1, <1>4 DEF EndInvestigation, page, trigger, bounds
  <1>5. ASSUME NEW k, SelectScope(k) PROVE Inv'
    BY <1>1, <1>5 DEF SelectScope, server, trigger, bounds
  <1>6. CASE UNCHANGED vars
    BY <1>1, <1>6 DEF vars, server, page, trigger, bounds
  <1>7. ASSUME NEW i, Answered(i) PROVE Inv'
    BY <1>7, SelectorStep, TriggerStep, CandidateStep DEF Answered
  <1> QED
    BY <1>2, <1>3, <1>4, <1>5, <1>6, <1>7, ClickStep DEF Next

LEMMA InvAlways == Spec => []Inv
  BY InvInit, InvNext, PTL DEF Spec

(***************************************************************************)
(* At most one run is polled, and its interval is the one that             *)
(* clearInterval is called with: none is left over that nothing could stop *)
(* (pollRun, and the ends of its callbacks, in analysis.js).               *)
(***************************************************************************)
THEOREM PollsCanBeStopped == Spec => []NoIntervalLeaks
  <1>1. Inv => NoIntervalLeaks
    BY DEF Inv
  <1> QED
    BY <1>1, InvAlways, PTL

(***************************************************************************)
(* While runInFlight keeps the button disabled, a run is being started or  *)
(* polled: the page never waits for something that no answer can end       *)
(* (analysis.js: the trigger's handler and pollRun).                       *)
(***************************************************************************)
THEOREM FlightIsWatched == Spec => []RunIsWatched
  <1>1. Inv => RunIsWatched
    BY DEF Inv
  <1> QED
    BY <1>1, InvAlways, PTL

(***************************************************************************)
(* A card that says "Investigating..." is being polled, whichever panel    *)
(* was drawn late, whichever callback of the same candidate came first,    *)
(* unless a request about its run failed (candidates.js).                  *)
(***************************************************************************)
THEOREM CardsArePolled == Spec => []InvestigatingIsPolled
  <1>1. Inv => InvestigatingIsPolled
    BY DEF Inv
  <1> QED
    BY <1>1, InvAlways, PTL

=============================================================================
