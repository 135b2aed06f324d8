--------------------------- MODULE CandidatePipeline ---------------------------
(***************************************************************************)
(* The human gate and what runs behind it, over one SQLite file:           *)
(* investigate and discard requests (routes_candidates.py,                 *)
(* candidate_service.py, repo_candidates.py), dismiss requests             *)
(* (routes_findings.py), and the background task of every accepted         *)
(* investigation (runner.execute_investigation), each statement of which   *)
(* may interleave with those of the others.                                *)
(*                                                                         *)
(* A connection stands for one request and, if it is an accepted           *)
(* investigate request, for the background task that follows it.  What the *)
(* model says inside the task is free here: Investigation has the loop.    *)
(***************************************************************************)
EXTENDS SQLite, Findings, FiniteSets

CONSTANTS
    Candidates,
    Workloads,      \* what the clients ask: an operation for each connection
    FirstFindings,  \* the findings already stored
    MaxToolCalls,   \* bound: tool calls of the task of each connection
    MaxResults,     \* bound: results it stores
    MaxCrashes      \* bound: process restarts

\* `finding` is an id, that is a position in the findings table.
OperationTypes ==
    [kind : {"investigate", "discard"}, candidate : Candidates]
       \cup [kind : {"dismiss"}, finding : Nat \ {0}, scope : Scopes]

Rows == [sig : Signatures, status : FindingStatus, cand : Candidates, rev : {0}]

ASSUME WorkloadsAssumption == Workloads \subseteq [Connections -> OperationTypes]
ASSUME FirstFindingsAssumption ==
    FirstFindings \in Seq(Rows) /\ OneOpenPerSignature(FirstFindings)
ASSUME BoundsAssumption ==
    MaxToolCalls \in [Connections -> Nat] /\ MaxResults \in [Connections -> Nat] /\ MaxCrashes \in Nat

CandidateStatus == {"pending", "investigating", "investigated", "discarded"}

NoResult == [status |-> "none"]

VARIABLES
    pc,         \* where each connection is
    op,         \* what it is asked
    answer,     \* what its client was told
    calls,      \* tool calls its task has made
    stored,     \* results its task has decided to store
    result,     \* the result its task is about to insert
    crashes

procVars == <<pc, op, answer, calls, stored, result>>
vars == <<db, work, tx, pc, op, answer, calls, stored, result, crashes>>

RequestPoints == {"read", "update", "commit"}
TaskPoints == {"scheduled", "loop", "trace", "trace_error", "persist", "insert",
               "complete", "fail", "finish"}
Stopped == {"idle", "closed", "killed"}

Init ==
    /\ OpenFile([status   |-> [c \in Candidates |-> "pending"],
                 error    |-> [c \in Candidates |-> FALSE],
                 steps    |-> [c \in Candidates |-> 0],
                 findings |-> FirstFindings,
                 feedback |-> {}])
    /\ pc = [r \in Connections |-> "idle"]
    /\ op \in Workloads
    /\ answer = [r \in Connections |-> "none"]
    /\ calls = [r \in Connections |-> 0]
    /\ stored = [r \in Connections |-> 0]
    /\ result = [r \in Connections |-> NoResult]
    /\ crashes = 0

Go(r, from, to) == pc[r] = from /\ pc' = [pc EXCEPT ![r] = to]

Answer(r, code) == answer' = [answer EXCEPT ![r] = code]

taskVars == <<op, answer, calls, stored, result, crashes>>

\* A task that has traced a call keeps the write lock while the model thinks, for
\* longer than anyone waits; everything else that holds it is over in no time.
Slow == {r \in Connections : pc[r] = "loop"}

-----------------------------------------------------------------------------
(* A request: read, check, conditional write, commit.                      *)

\* A client may ask at any time, or never.
Arrive(r) ==
    /\ Go(r, "idle", "read")
    /\ UNCHANGED <<fileVars, taskVars>>

\* The check on the row just read; the code of the refusal, "none" if none.
Refusal(r) ==
    IF op[r].kind = "dismiss"
    THEN IF op[r].finding \notin DOMAIN View(r).findings THEN "404"
         ELSE IF View(r).findings[op[r].finding].status = "no_issue" THEN "409" ELSE "none"
    ELSE IF View(r).status[op[r].candidate] # "pending" THEN "409" ELSE "none"

ReadRow(r) ==
    /\ Go(r, "read", "update")
    /\ Read(r)
    /\ Refusal(r) = "none"
    /\ UNCHANGED taskVars

\* Whatever a request raises leaves session() through its rollback.
EndRequest(r, code) ==
    /\ Rollback(r)
    /\ pc' = [pc EXCEPT ![r] = "closed"]
    /\ Answer(r, code)
    /\ UNCHANGED <<op, calls, stored, result, crashes>>

RefuseOnRead(r) ==
    /\ pc[r] = "read"
    /\ MayRead(r)
    /\ Refusal(r) # "none"
    /\ EndRequest(r, Refusal(r))

\* Variants named Faulty... are plausible mistakes in the definition that
\* follows; the README says which property rejects which.
FaultyStillPending(r) == TRUE

\* UPDATE ... WHERE id = ? AND status = 'pending'
StillPending(r) == View(r).status[op[r].candidate] = "pending"

FaultyStart(r) == [View(r) EXCEPT !.status[op[r].candidate] = "running"]

start_investigation(r) ==
    [View(r) EXCEPT !.status[op[r].candidate] = "investigating"]

discard(r) ==
    [View(r) EXCEPT !.status[op[r].candidate] = "discarded"]

dismiss_finding(r) ==
    LET row == View(r).findings[op[r].finding] IN
    [View(r) EXCEPT !.feedback = insert_feedback(@, row.sig, op[r].scope),
                    !.findings = dismiss(@, op[r].finding)]

UpdateRow(r) ==
    /\ Go(r, "update", "commit")
    /\ \/ op[r].kind = "investigate" /\ StillPending(r) /\ Write(r, start_investigation(r))
       \/ op[r].kind = "discard" /\ StillPending(r) /\ Write(r, discard(r))
       \/ op[r].kind = "dismiss" /\ Write(r, dismiss_finding(r))
    /\ UNCHANGED taskVars

FaultyLoseRace(r) ==
    /\ pc[r] = "update"
    /\ op[r].kind \in {"investigate", "discard"}
    /\ MayWrite(r)
    /\ View(r).status[op[r].candidate] = "discarded"
    /\ EndRequest(r, "409")

\* rowcount == 0: another request was faster, the answer is the same 409.
LoseRace(r) ==
    /\ pc[r] = "update"
    /\ op[r].kind \in {"investigate", "discard"}
    /\ MayWrite(r)
    /\ ~StillPending(r)
    /\ EndRequest(r, "409")

\* "database is locked", from any of the three statements.
RequestTimesOut(r) ==
    /\ \/ pc[r] = "read" /\ ~MayRead(r)
       \/ pc[r] = "update" /\ LockedOut(r, Slow)
       \/ pc[r] = "commit" /\ tx[r] = "pending" /\ OthersRead(r)
    /\ EndRequest(r, IF answer[r] = "none" THEN "500" ELSE answer[r])

\* The investigate route commits in its own session and answers afterwards; the
\* discard and dismiss routes commit in the get_db dependency, which FastAPI,
\* depending on its version, finishes after the answer is sent.
AnswerEarly(r) ==
    /\ pc[r] = "commit"
    /\ op[r].kind \in {"discard", "dismiss"}
    /\ answer[r] = "none"
    /\ Answer(r, "200")
    /\ UNCHANGED <<fileVars, pc, op, calls, stored, result, crashes>>

CommitRequest(r) ==
    /\ Go(r, "commit", IF op[r].kind = "investigate" THEN "scheduled" ELSE "closed")
    /\ Commit(r)
    /\ Answer(r, "200")
    /\ UNCHANGED <<op, calls, stored, result, crashes>>

AwaitCommit(r) ==
    /\ pc[r] \in {"commit", "finish"}
    /\ AwaitReaders(r)
    /\ UNCHANGED <<pc, taskVars>>

-----------------------------------------------------------------------------
(* The background task.                                                    *)

\* Opens its own session, reads the candidate and builds the graph.
StartTask(r) ==
    /\ Go(r, "scheduled", "loop")
    /\ Read(r)
    /\ UNCHANGED taskVars

\* The session cannot be opened, which is outside the task's try block.
OpenTimesOut(r) ==
    /\ Go(r, "scheduled", "closed")
    /\ ReadTimesOut(r)
    /\ UNCHANGED taskVars

\* A tool queries on the task's connection ...
CallTool(r) ==
    /\ Go(r, "loop", "trace")
    /\ calls[r] < MaxToolCalls[r]
    /\ Read(r)
    /\ calls' = [calls EXCEPT ![r] = @ + 1]
    /\ UNCHANGED <<op, answer, stored, result, crashes>>

\* (or raises, which ends the loop after the trace row)
CallToolRaises(r) ==
    /\ Go(r, "loop", "trace_error")
    /\ calls[r] < MaxToolCalls[r]
    /\ Read(r) \/ ReadTimesOut(r)
    /\ calls' = [calls EXCEPT ![r] = @ + 1]
    /\ UNCHANGED <<op, answer, stored, result, crashes>>

\* (a commit after every trace row, which would free the write lock)
FaultyRecordStep(r) ==
    /\ \/ Go(r, "trace", "loop")
       \/ Go(r, "trace_error", "fail")
    /\ MayWrite(r)
    /\ ~OthersRead(r)
    /\ db' = [View(r) EXCEPT !.steps[op[r].candidate] = @ + 1]
    /\ work' = db'
    /\ tx' = [tx EXCEPT ![r] = "auto"]
    /\ UNCHANGED taskVars

\* ... and then leaves its trace row: the first write of the task, so from here
\* to the end of the session it holds the write lock.
record_step(r) ==
    /\ \/ Go(r, "trace", "loop")
       \/ Go(r, "trace_error", "fail")
    /\ Write(r, [View(r) EXCEPT !.steps[op[r].candidate] = @ + 1])
    /\ UNCHANGED taskVars

\* sqlite3.Error is swallowed, the transaction it opened stays open.
LoseStep(r) ==
    /\ \/ Go(r, "trace", "loop")
       \/ Go(r, "trace_error", "fail")
    /\ WriteRefused(r, Slow)
    /\ UNCHANGED taskVars

EndLoop(r) ==
    /\ Go(r, "loop", "persist")
    /\ UNCHANGED <<fileVars, taskVars>>

\* A model call raises, or a query made outside the tools times out.
RaiseInTask(r) ==
    /\ pc[r] \in {"scheduled", "loop", "persist"}
    /\ pc[r] = "scheduled" => ~MayRead(r)
    /\ pc' = [pc EXCEPT ![r] = "fail"]
    /\ UNCHANGED <<fileVars, taskVars>>

\* persist_hypothesis and persist_partial: check_suppression and
\* find_open_by_signature, whose answers the INSERT below relies on.  What is
\* stored was said in a tool call, so there has been one.
CheckResult(r, sig, status) ==
    /\ pc[r] = "persist"
    /\ calls[r] > 0
    /\ stored[r] < MaxResults[r]
    /\ Read(r)
    /\ stored' = [stored EXCEPT ![r] = @ + 1]
    /\ IF Blocked(View(r).findings, View(r).feedback, sig)
       THEN UNCHANGED <<pc, result>>
       ELSE /\ pc' = [pc EXCEPT ![r] = "insert"]
            /\ result' = [result EXCEPT ![r] = [status |-> status, sig |-> sig]]
    /\ UNCHANGED <<op, answer, calls, crashes>>

\* persist_refutation makes no check.
RefuteCandidate(r, sig) ==
    /\ Go(r, "persist", "insert")
    /\ calls[r] > 0
    /\ stored[r] = 0
    /\ MaxResults[r] > 0
    /\ Read(r)
    /\ stored' = [stored EXCEPT ![r] = MaxResults[r]]
    /\ result' = [result EXCEPT ![r] = [status |-> "no_issue", sig |-> sig]]
    /\ UNCHANGED <<op, answer, calls, crashes>>

InsertResult(r) ==
    /\ Go(r, "insert", "persist")
    /\ Write(r, [View(r) EXCEPT !.findings =
                    insert_finding(@, result[r].sig, result[r].status, op[r].candidate, 0)])
    /\ result' = [result EXCEPT ![r] = NoResult]
    /\ UNCHANGED <<op, answer, calls, stored, crashes>>

EndGraph(r) ==
    /\ Go(r, "persist", "complete")
    /\ UNCHANGED <<fileVars, taskVars>>

complete_investigation(r) ==
    /\ Go(r, "complete", "finish")
    /\ Write(r, [View(r) EXCEPT !.status[op[r].candidate] = "investigated"])
    /\ UNCHANGED taskVars

\* A locked file is one more exception of the try block.
WriteInTaskRefused(r) ==
    /\ pc[r] \in {"insert", "complete"}
    /\ pc' = [pc EXCEPT ![r] = "fail"]
    /\ WriteRefused(r, Slow)
    /\ result' = [result EXCEPT ![r] = NoResult]
    /\ UNCHANGED <<op, answer, calls, stored, crashes>>

fail_investigation(r) ==
    /\ Go(r, "fail", "finish")
    /\ Write(r, [View(r) EXCEPT !.status[op[r].candidate] = "investigated",
                                !.error[op[r].candidate] = TRUE])
    /\ UNCHANGED taskVars

\* An exception of the except block itself: session() rolls back and the task
\* is over.
FailingFails(r) ==
    /\ Go(r, "fail", "closed")
    /\ LockedOut(r, Slow)
    /\ Rollback(r)
    /\ UNCHANGED taskVars

CommitTask(r) ==
    /\ Go(r, "finish", "closed")
    /\ Commit(r)
    /\ UNCHANGED taskVars

CommitTaskTimesOut(r) ==
    /\ Go(r, "finish", "closed")
    /\ CommitTimesOut(r)
    /\ UNCHANGED taskVars

-----------------------------------------------------------------------------
\* The process stops and is started again: requests and tasks are gone, the
\* committed rows are all that is left.
Crash ==
    /\ crashes < MaxCrashes
    /\ crashes' = crashes + 1
    /\ pc' = [r \in Connections |-> IF pc[r] \in Stopped THEN pc[r] ELSE "killed"]
    /\ result' = [r \in Connections |-> NoResult]
    /\ Recover
    /\ UNCHANGED <<op, answer, calls, stored>>

RequestStep(r) ==
    \/ ReadRow(r)
    \/ RefuseOnRead(r)
    \/ UpdateRow(r)
    \/ LoseRace(r)
    \/ RequestTimesOut(r)
    \/ CommitRequest(r)
    \/ AwaitCommit(r)

TaskStep(r) ==
    \/ StartTask(r)
    \/ OpenTimesOut(r)
    \/ CallTool(r)
    \/ CallToolRaises(r)
    \/ record_step(r)
    \/ LoseStep(r)
    \/ EndLoop(r)
    \/ RaiseInTask(r)
    \/ \E sig \in Signatures, status \in {"open", "partial"} : CheckResult(r, sig, status)
    \/ \E sig \in Signatures : RefuteCandidate(r, sig)
    \/ InsertResult(r)
    \/ EndGraph(r)
    \/ complete_investigation(r)
    \/ WriteInTaskRefused(r)
    \/ fail_investigation(r)
    \/ FailingFails(r)
    \/ CommitTask(r)
    \/ CommitTaskTimesOut(r)

Next ==
    \/ \E r \in Connections : Arrive(r)
    \/ \E r \in Connections : AnswerEarly(r)
    \/ \E r \in Connections : RequestStep(r)
    \/ \E r \in Connections : TaskStep(r)
    \/ Crash

Spec == Init /\ [][Next]_vars

\* Every thread is scheduled and every wait for a lock is bounded; nothing
\* promises that a client asks or that the process stays up.
FairSpec ==
    /\ Spec
    /\ \A r \in Connections : WF_vars(RequestStep(r)) /\ WF_vars(TaskStep(r))

-----------------------------------------------------------------------------
(* Properties.                                                             *)

Contents ==
    [status   : [Candidates -> CandidateStatus],
     error    : [Candidates -> BOOLEAN],
     steps    : [Candidates -> Nat],
     findings : Seq(Rows),
     feedback : SUBSET FeedbackRows]

TypeOK ==
    /\ db \in Contents
    /\ work \in Contents
    /\ tx \in [Connections -> TxStates]
    /\ pc \in [Connections -> RequestPoints \cup TaskPoints \cup Stopped]
    /\ op \in [Connections -> OperationTypes]
    /\ answer \in [Connections -> {"none", "200", "404", "409", "500"}]
    /\ calls \in [Connections -> Nat]
    /\ stored \in [Connections -> Nat]
    /\ result \in [Connections ->
          {NoResult} \cup [status : {"open", "partial", "no_issue"}, sig : Signatures]]
    /\ crashes \in Nat

Accepted(r) == op[r].kind = "investigate" /\ answer[r] = "200"

(***************************************************************************)
(* No two open findings have one signature, although the check and the     *)
(* insert of persist_hypothesis are statements of different times and two  *)
(* tasks may be between theirs at once.                                    *)
(***************************************************************************)
UniqueOpen == OneOpenPerSignature(db.findings)

(***************************************************************************)
(* A candidate is paid for once: of all the requests that read it as       *)
(* pending, one at most is accepted and starts a task.                     *)
(***************************************************************************)
OneTaskPerCandidate ==
    \A r, s \in Connections :
        /\ Accepted(r)
        /\ Accepted(s)
        /\ op[r].candidate = op[s].candidate
        => r = s

(***************************************************************************)
(* A client told that its investigation was accepted was told the truth:   *)
(* the row says so from then on, through a crash too, and no discard that  *)
(* had read it as pending takes it back.                                   *)
(***************************************************************************)
AcceptedIsDurable ==
    \A r \in Connections :
        Accepted(r) => db.status[op[r].candidate] \in {"investigating", "investigated"}

(***************************************************************************)
(* Nothing of an investigation is in the file before all of it is: results *)
(* and trace rows belong to candidates whose outcome is recorded.          *)
(***************************************************************************)
NothingHalfCommitted ==
    \A c \in Candidates : db.status[c] # "investigated" =>
        /\ db.steps[c] = 0
        /\ \A i \in DOMAIN db.findings \ DOMAIN FirstFindings : db.findings[i].cand # c

(***************************************************************************)
(* The committed rows behave as if everything had happened one at a time.  *)
(***************************************************************************)
Gate == INSTANCE CandidateGate WITH
    status <- db.status, findings <- db.findings, feedback <- db.feedback

DecidesOneAtATime == Gate!Spec

(***************************************************************************)
(* Nobody waits for ever: a request that arrives, and the task it starts,  *)
(* comes to its end, unless the process is stopped.                        *)
(***************************************************************************)
EveryoneFinishes ==
    \A r \in Connections : pc[r] = "read" ~> pc[r] \in {"closed", "killed"}

(***************************************************************************)
(* What the documentation says and the code does not do.                   *)
(***************************************************************************)

\* An investigation whose task is over has its outcome on the candidate row.
OutcomeAlwaysRecorded ==
    \A r \in Connections : Accepted(r) /\ pc[r] = "closed" =>
        db.status[op[r].candidate] = "investigated"

=============================================================================
