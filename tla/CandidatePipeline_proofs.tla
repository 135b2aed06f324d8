----------------------- MODULE CandidatePipeline_proofs -----------------------
(***************************************************************************)
(* Theorems about CandidatePipeline, for any number of connections,        *)
(* candidates, operations, tool calls, results and restarts.               *)
(***************************************************************************)
EXTENDS CandidatePipeline, Tables_proofs, TLAPS

-----------------------------------------------------------------------------
(* Types and locks.                                                        *)

\* Where a connection may hold what.
LockInv ==
    /\ OneWriter
    /\ \A r \in Connections :
          /\ pc[r] \in {"idle", "read", "update", "scheduled", "closed", "killed"} =>
                tx[r] = "auto"
          /\ pc[r] \in {"commit", "finish"} => Writer(r)
          /\ tx[r] = "pending" => pc[r] \in {"commit", "finish"}

\* A dismissal is only ever about a row that is there.
TargetInv ==
    \A r \in Connections :
        /\ pc[r] \in TaskPoints => op[r].kind = "investigate"
        /\ pc[r] = "insert" => result[r] # NoResult
        /\ pc[r] = "update" /\ op[r].kind = "dismiss" =>
              op[r].finding \in DOMAIN db.findings

\* The working copy never has fewer findings than the file.
GrowInv ==
    \A r \in Connections : Writer(r) => DOMAIN db.findings \subseteq DOMAIN work.findings

BaseInv == TypeOK /\ LockInv /\ TargetInv /\ GrowInv

LEMMA BaseInit == Init => BaseInv
  <1>. SUFFICES ASSUME Init PROVE BaseInv
    OBVIOUS
  <1>1. db \in Contents /\ work = db
    BY FirstFindingsAssumption DEF Init, OpenFile, Contents, CandidateStatus
  <1>2. \A r \in Connections : ~Writer(r)
    BY DEF Init, OpenFile, Writer
  <1>3. TypeOK
    BY <1>1, WorkloadsAssumption DEF Init, OpenFile, TypeOK, TxStates, Stopped
  <1>. QED
    BY <1>1, <1>2, <1>3
    DEF Init, OpenFile, BaseInv, LockInv, OneWriter, TargetInv, GrowInv, TaskPoints

\* The contents a connection sees are well formed.
LEMMA ViewType ==
    ASSUME TypeOK, NEW r \in Connections
    PROVE  View(r) \in Contents
  BY DEF View, TypeOK

\* Each statement keeps the locks as they must be, and the contents well formed.
LEMMA LockSteps ==
    ASSUME TypeOK, OneWriter, NEW r \in Connections,
           \/ Read(r)
           \/ WriteRefused(r, Slow)
           \/ \E contents \in Contents : Write(r, contents)
           \/ Commit(r)
           \/ AwaitReaders(r)
           \/ Rollback(r)
    PROVE  /\ tx' \in [Connections -> TxStates]
           /\ db' \in Contents /\ work' \in Contents
           /\ \A s \in Connections \ {r} : tx'[s] = tx[s]
           /\ OneWriter'
           /\ db' = db \/ (db' = work /\ Writer(r) /\ Commit(r))
  <1>1. LocksOK /\ Statement(r, Slow)
    BY DEF TypeOK, LocksOK, Statement
  <1>2. db' \in Contents /\ work' \in Contents
    BY ContentsKept DEF TypeOK
  <1>. QED
    BY <1>1, <1>2, LocksKept, OnlyCommits DEF LocksOK

\* The writes of the requests and of the tasks, on well-formed contents.
LEMMA RequestWrites ==
    ASSUME TypeOK, TargetInv, NEW r \in Connections, pc[r] = "update", tx[r] = "auto"
    PROVE  /\ op[r].kind = "investigate" =>
                 start_investigation(r) \in Contents
                 /\ start_investigation(r).findings = db.findings
           /\ op[r].kind = "discard" =>
                 discard(r) \in Contents /\ discard(r).findings = db.findings
           /\ op[r].kind = "dismiss" =>
                 dismiss_finding(r) \in Contents
                 /\ DOMAIN dismiss_finding(r).findings = DOMAIN db.findings
  <1>1. View(r) = db /\ db \in Contents /\ op[r] \in OperationTypes
    BY DEF TypeOK, TargetInv, View, Writer
  <1>2. ASSUME op[r].kind \in {"investigate", "discard"}
        PROVE  /\ start_investigation(r) \in Contents /\ discard(r) \in Contents
               /\ start_investigation(r).findings = db.findings
               /\ discard(r).findings = db.findings
    <2>1. op[r].candidate \in Candidates
      BY <1>1, <1>2 DEF OperationTypes
    <2>. QED
      BY <1>1, <2>1 DEF start_investigation, discard, Contents, CandidateStatus
  <1>3. ASSUME op[r].kind = "dismiss"
        PROVE  dismiss_finding(r) \in Contents
               /\ DOMAIN dismiss_finding(r).findings = DOMAIN db.findings
    <2>1. op[r].scope \in Scopes /\ op[r].finding \in DOMAIN db.findings
      BY <1>1, <1>3 DEF OperationTypes, TargetInv
    <2>2. db.findings \in Seq(Rows) /\ db.feedback \in SUBSET FeedbackRows
      BY <1>1 DEF Contents
    <2>3. db.findings[op[r].finding] \in Rows
      BY <2>1, <2>2
    <2>4. /\ dismiss(db.findings, op[r].finding) \in Seq(Rows)
          /\ DOMAIN dismiss(db.findings, op[r].finding) = DOMAIN db.findings
      BY <2>1, <2>2, <2>3 DEF dismiss, Rows, FindingStatus
    <2>5. insert_feedback(db.feedback, db.findings[op[r].finding].sig, op[r].scope)
              \in SUBSET FeedbackRows
      BY <2>1, <2>2, <2>3 DEF insert_feedback, Rows, FeedbackRows
    <2>. QED
      BY <1>1, <2>4, <2>5 DEF dismiss_finding, Contents
  <1>. QED
    BY <1>2, <1>3

Traced(r) == [View(r) EXCEPT !.steps[op[r].candidate] = @ + 1]
Completed(r) == [View(r) EXCEPT !.status[op[r].candidate] = "investigated"]
Failed(r) == [View(r) EXCEPT !.status[op[r].candidate] = "investigated",
                             !.error[op[r].candidate] = TRUE]
NewFinding(r) == [sig |-> result[r].sig, status |-> result[r].status,
                  cand |-> op[r].candidate, rev |-> 0]
Inserted(r) == [View(r) EXCEPT !.findings = Append(@, NewFinding(r))]

LEMMA TaskWrites ==
    ASSUME TypeOK, TargetInv, NEW r \in Connections, pc[r] \in TaskPoints
    PROVE  /\ op[r].candidate \in Candidates
           /\ Traced(r) \in Contents /\ Traced(r).findings = View(r).findings
           /\ Completed(r) \in Contents /\ Completed(r).findings = View(r).findings
           /\ Failed(r) \in Contents /\ Failed(r).findings = View(r).findings
           /\ pc[r] = "insert" =>
                 /\ NewFinding(r) \in Rows
                 /\ Inserted(r) \in Contents
                 /\ Inserted(r).findings = Append(View(r).findings, NewFinding(r))
  <1>1. op[r].candidate \in Candidates
    BY DEF TypeOK, TargetInv, TaskPoints, OperationTypes
  <1>2. View(r) \in Contents
    BY ViewType
  <1>3. Traced(r) \in Contents /\ Traced(r).findings = View(r).findings
    <2>. DEFINE steps == [View(r).steps EXCEPT ![op[r].candidate] = @ + 1]
    <2>1. View(r).steps \in [Candidates -> Nat]
      BY <1>2 DEF Contents
    <2>2. steps \in [Candidates -> Nat]
      BY <1>1, <2>1
    <2>3. Traced(r) = [View(r) EXCEPT !.steps = steps]
      BY <1>2 DEF Traced, Contents
    <2>. HIDE DEF steps
    <2>. QED
      BY <1>2, <2>2, <2>3 DEF Contents
  <1>4. Completed(r) \in Contents /\ Completed(r).findings = View(r).findings
    BY <1>1, <1>2 DEF Completed, Contents, CandidateStatus
  <1>5. Failed(r) \in Contents /\ Failed(r).findings = View(r).findings
    BY <1>1, <1>2 DEF Failed, Contents, CandidateStatus
  <1>6. ASSUME pc[r] = "insert"
        PROVE  /\ NewFinding(r) \in Rows
               /\ Inserted(r) \in Contents
               /\ Inserted(r).findings = Append(View(r).findings, NewFinding(r))
    <2>1. result[r] \in [status : {"open", "partial", "no_issue"}, sig : Signatures]
      BY <1>6 DEF TypeOK, TargetInv
    <2>2. NewFinding(r) \in Rows
      BY <1>1, <2>1 DEF NewFinding, Rows, FindingStatus
    <2>. DEFINE longer == Append(View(r).findings, NewFinding(r))
    <2>3. View(r).findings \in Seq(Rows)
      BY <1>2 DEF Contents
    <2>4. longer \in Seq(Rows)
      BY <2>2, <2>3, AppendKeeps
    <2>5. Inserted(r) = [View(r) EXCEPT !.findings = longer]
      BY DEF Inserted
    <2>. HIDE DEF longer
    <2>6. Inserted(r) \in Contents /\ Inserted(r).findings = longer
      BY <1>2, <2>4, <2>5 DEF Contents
    <2>. QED
      BY <2>2, <2>6 DEF longer
  <1>. QED
    BY <1>1, <1>3, <1>4, <1>5, <1>6

\* The statements that write.
WriteAction(r) ==
    \/ UpdateRow(r)
    \/ record_step(r)
    \/ InsertResult(r)
    \/ complete_investigation(r)
    \/ fail_investigation(r)

\* Whatever a connection writes is well formed and drops no finding.
LEMMA Writes ==
    ASSUME BaseInv, NEW r \in Connections, WriteAction(r)
    PROVE  \E contents \in Contents :
               Write(r, contents) /\ DOMAIN db.findings \subseteq DOMAIN contents.findings
  <1>. USE DEF BaseInv
  <1>1. CASE UpdateRow(r)
    <2>1. pc[r] = "update" /\ tx[r] = "auto" /\ View(r) = db
      BY <1>1 DEF UpdateRow, Go, LockInv, View, Writer
    <2>. QED
      BY <1>1, <2>1, RequestWrites DEF UpdateRow, start_investigation, discard
  <1>2. DOMAIN db.findings \subseteq DOMAIN View(r).findings
    BY DEF GrowInv, View
  <1>3. CASE record_step(r)
    BY <1>2, <1>3, TaskWrites DEF record_step, Go, TaskPoints, Traced
  <1>4. CASE InsertResult(r)
    <2>1. pc[r] = "insert" /\ pc[r] \in TaskPoints /\ Write(r, Inserted(r))
      BY <1>4 DEF InsertResult, Go, TaskPoints, Inserted, NewFinding, insert_finding
    <2>2. View(r).findings \in Seq(Rows)
      BY ViewType DEF Contents
    <2>. QED
      BY <1>2, <2>1, <2>2, TaskWrites, AppendKeeps
  <1>5. CASE complete_investigation(r)
    BY <1>2, <1>5, TaskWrites DEF complete_investigation, Go, TaskPoints, Completed
  <1>6. CASE fail_investigation(r)
    BY <1>2, <1>6, TaskWrites DEF fail_investigation, Go, TaskPoints, Failed
  <1>. QED
    BY <1>1, <1>3, <1>4, <1>5, <1>6 DEF WriteAction

LEMMA BaseStep == BaseInv /\ [Next]_vars => BaseInv'
  <1>. SUFFICES ASSUME BaseInv, [Next]_vars PROVE BaseInv'
    OBVIOUS
  <1>0. ASSUME NEW r \in Connections, WriteAction(r)
        PROVE  BaseInv'
    <2>1. PICK contents \in Contents :
              Write(r, contents) /\ DOMAIN db.findings \subseteq DOMAIN contents.findings
      BY <1>0, Writes
    <2>2. PICK to \in {"commit", "loop", "fail", "persist", "finish"} :
              /\ pc' = [pc EXCEPT ![r] = to]
              /\ IF to = "commit" THEN pc[r] = "update"
                 ELSE pc[r] \in {"trace", "trace_error", "insert", "complete", "fail"}
      BY <1>0
      DEF WriteAction, UpdateRow, record_step, InsertResult, complete_investigation, fail_investigation, Go
    <2>3. /\ UNCHANGED <<op, answer, calls, stored, crashes>>
          /\ result' \in {result, [result EXCEPT ![r] = NoResult]}
      BY <1>0
      DEF WriteAction, UpdateRow, record_step, InsertResult, complete_investigation, fail_investigation,
          taskVars
    <2>. DEFINE locks == /\ tx' \in [Connections -> TxStates]
                         /\ \A s \in Connections \ {r} : tx'[s] = tx[s]
                         /\ tx'[r] = "reserved"
                         /\ \A s \in Connections \ {r} : ~Writer(s)
                         /\ db' = db /\ work' = contents
    <2>4. locks
      BY <2>1 DEF BaseInv, TypeOK, Write, MayWrite, TxStates
    <2>5. pc' \in [Connections -> RequestPoints \cup TaskPoints \cup Stopped]
      BY <2>2 DEF BaseInv, TypeOK, RequestPoints, TaskPoints
    <2>6. result' \in [Connections ->
              {NoResult} \cup [status : {"open", "partial", "no_issue"}, sig : Signatures]]
      BY <2>3 DEF BaseInv, TypeOK
    <2>7. TypeOK'
      BY <2>3, <2>4, <2>5, <2>6 DEF BaseInv, TypeOK
    <2>8. LockInv'
      BY <2>2, <2>4 DEF BaseInv, TypeOK, LockInv, OneWriter, Writer
    <2>9. TargetInv'
      BY <2>2, <2>3, <2>4 DEF BaseInv, TypeOK, TargetInv, TaskPoints
    <2>10. GrowInv'
      BY <2>1, <2>4 DEF GrowInv, Writer
    <2>. QED
      BY <2>7, <2>8, <2>9, <2>10 DEF BaseInv
  <1>4. ASSUME NEW r \in Connections, NEW code \in {"200", "404", "409", "500"},
               pc[r] \in RequestPoints, EndRequest(r, code)
        PROVE  BaseInv'
    <2>1. /\ pc' = [pc EXCEPT ![r] = "closed"] /\ tx' = [tx EXCEPT ![r] = "auto"]
          /\ db' = db /\ work' = (IF Writer(r) THEN db ELSE work)
          /\ UNCHANGED <<op, calls, stored, result, crashes>>
          /\ answer' = [answer EXCEPT ![r] = code]
      BY <1>4 DEF EndRequest, Rollback, Answer
    <2>2. TypeOK'
      BY <2>1 DEF BaseInv, TypeOK, Stopped, TxStates
    <2>3. LockInv'
      BY <2>1 DEF BaseInv, TypeOK, LockInv, OneWriter, Writer
    <2>4. TargetInv'
      <3>1. op[r] \in OperationTypes
        BY DEF BaseInv, TypeOK
      <3>. QED
        BY <2>1, <3>1 DEF BaseInv, TypeOK, TargetInv, TaskPoints
    <2>5. GrowInv'
      BY <2>1 DEF BaseInv, TypeOK, LockInv, OneWriter, GrowInv, Writer
    <2>. QED
      BY <2>2, <2>3, <2>4, <2>5 DEF BaseInv
  <1>14. ASSUME NEW r \in Connections, Read(r), UNCHANGED <<op, answer, calls, crashes>>,
                stored' \in [Connections -> Nat],
                \/ UNCHANGED <<pc, result>>
                \/ \E status \in {"open", "partial", "no_issue"}, sig \in Signatures :
                      /\ Go(r, "persist", "insert")
                      /\ result' = [result EXCEPT ![r] = [status |-> status, sig |-> sig]]
         PROVE  BaseInv'
    <2>1. db' = db /\ work' = work /\ tx' \in {tx, [tx EXCEPT ![r] = "shared"]}
          /\ (tx[r] # "begun" => tx' = tx)
      BY <1>14 DEF Read
    <2>2. LockInv' /\ GrowInv'
      BY <2>1, <1>14 DEF BaseInv, TypeOK, LockInv, OneWriter, GrowInv, Writer, Go
    <2>3. \A status, sig : [status |-> status, sig |-> sig] # NoResult
      BY DEF NoResult
    <2>4. TargetInv'
      BY <1>14, <2>1, <2>3 DEF BaseInv, TypeOK, TargetInv, TaskPoints, Go
    <2>5. TypeOK'
      BY <1>14, <2>1 DEF BaseInv, TypeOK, TaskPoints, Go, TxStates
    <2>. QED
      BY <2>2, <2>4, <2>5 DEF BaseInv
  <1>15. ASSUME NEW r \in Connections, NEW sig \in Signatures,
                RefuteCandidate(r, sig)
                \/ \E status \in {"open", "partial"} : CheckResult(r, sig, status)
         PROVE  BaseInv'
    BY <1>14, <1>15, BoundsAssumption DEF CheckResult, RefuteCandidate, BaseInv, TypeOK, Go
  <1>. USE DEF BaseInv, TypeOK, LockInv, OneWriter, TargetInv, GrowInv, Writer, Go, Answer,
               taskVars, RequestPoints, TaskPoints, Stopped, fileVars, TxStates
  <1>1. ASSUME NEW r \in Connections, Arrive(r)
        PROVE  BaseInv'
    BY <1>1 DEF Arrive
  <1>2. ASSUME NEW r \in Connections, AnswerEarly(r)
        PROVE  BaseInv'
    BY <1>2 DEF AnswerEarly
  <1>3. ASSUME NEW r \in Connections, ReadRow(r)
        PROVE  BaseInv'
    BY <1>3 DEF ReadRow, Read, Refusal, View
  <1>5. ASSUME NEW r \in Connections, RefuseOnRead(r) \/ LoseRace(r) \/ RequestTimesOut(r)
        PROVE  BaseInv'
    BY <1>4, <1>5 DEF RefuseOnRead, Refusal, LoseRace, RequestTimesOut
  <1>7. ASSUME NEW r \in Connections, CommitRequest(r)
        PROVE  BaseInv'
    BY <1>7, LockSteps DEF CommitRequest, Commit
  <1>8. ASSUME NEW r \in Connections, AwaitCommit(r)
        PROVE  BaseInv'
    BY <1>8, LockSteps DEF AwaitCommit, AwaitReaders
  <1>9. ASSUME NEW r \in Connections, StartTask(r) \/ OpenTimesOut(r)
        PROVE  BaseInv'
    BY <1>9 DEF StartTask, OpenTimesOut, Read, ReadTimesOut
  <1>10. ASSUME NEW r \in Connections, CallTool(r) \/ CallToolRaises(r)
         PROVE  BaseInv'
    BY <1>10, LockSteps DEF CallTool, CallToolRaises, Read, ReadTimesOut
  <1>12. ASSUME NEW r \in Connections, LoseStep(r)
         PROVE  BaseInv'
    BY <1>12, LockSteps DEF LoseStep, WriteRefused
  <1>13. ASSUME NEW r \in Connections, EndLoop(r) \/ EndGraph(r) \/ RaiseInTask(r)
         PROVE  BaseInv'
    BY <1>13 DEF EndLoop, EndGraph, RaiseInTask
  <1>18. ASSUME NEW r \in Connections, WriteInTaskRefused(r)
         PROVE  BaseInv'
    BY <1>18, LockSteps DEF WriteInTaskRefused, WriteRefused
  <1>19. ASSUME NEW r \in Connections, FailingFails(r) \/ CommitTaskTimesOut(r)
         PROVE  BaseInv'
    BY <1>19, LockSteps DEF FailingFails, CommitTaskTimesOut, CommitTimesOut, Rollback
  <1>20. ASSUME NEW r \in Connections, CommitTask(r)
         PROVE  BaseInv'
    BY <1>20, LockSteps DEF CommitTask, Commit
  <1>21. CASE Crash
    BY <1>21 DEF Crash, Recover
  <1>22. CASE UNCHANGED vars
    BY <1>22 DEF vars
  <1>. HIDE DEF BaseInv, TypeOK, LockInv, OneWriter, TargetInv, GrowInv, Writer, Go, Answer,
                taskVars, RequestPoints, TaskPoints, Stopped, fileVars, TxStates
  <1>. QED
    BY <1>0, <1>1, <1>2, <1>3, <1>5, <1>7, <1>8, <1>9, <1>10, <1>12, <1>13,
       <1>15, <1>18, <1>19, <1>20, <1>21, <1>22
    DEF Next, RequestStep, TaskStep, WriteAction

LEMMA BaseAlways == Spec => []BaseInv
  BY BaseInit, BaseStep, PTL DEF Spec

(***************************************************************************)
(* Every reachable state is well typed, for any number of connections.     *)
(***************************************************************************)
THEOREM TypeCorrect == Spec => []TypeOK
  <1>1. BaseInv => TypeOK
    BY DEF BaseInv
  <1>. QED
    BY <1>1, BaseAlways, PTL

-----------------------------------------------------------------------------
(* One connection at a time.                                               *)

Step(r) ==
    \/ Arrive(r)
    \/ AnswerEarly(r)
    \/ RequestStep(r)
    \/ TaskStep(r)

\* What a step of r does to the file is one of the statements of SQLite.
LEMMA FileMoves ==
    ASSUME NEW r \in Connections, Step(r)
    PROVE  \/ UNCHANGED fileVars
           \/ Read(r)
           \/ WriteRefused(r, Slow)
           \/ WriteAction(r) /\ \E contents : Write(r, contents)
           \/ Commit(r) /\ (CommitRequest(r) \/ CommitTask(r))
           \/ AwaitReaders(r)
           \/ Rollback(r)
  <1>1. CASE Arrive(r) \/ AnswerEarly(r)
    BY <1>1 DEF Arrive, AnswerEarly
  <1>2. CASE RequestStep(r)
    BY <1>2 DEF RequestStep, ReadRow, RefuseOnRead, UpdateRow, LoseRace, RequestTimesOut,
                CommitRequest, AwaitCommit, EndRequest, WriteAction
  <1>3. CASE StartTask(r) \/ OpenTimesOut(r) \/ CallTool(r) \/ CallToolRaises(r)
    BY <1>3 DEF StartTask, OpenTimesOut, CallTool, CallToolRaises, ReadTimesOut
  <1>4. CASE record_step(r) \/ InsertResult(r) \/ complete_investigation(r) \/ fail_investigation(r)
    BY <1>4 DEF WriteAction, record_step, InsertResult, complete_investigation, fail_investigation
  <1>5. CASE LoseStep(r) \/ WriteInTaskRefused(r)
    BY <1>5 DEF LoseStep, WriteInTaskRefused
  <1>6. CASE EndLoop(r) \/ RaiseInTask(r) \/ EndGraph(r)
    BY <1>6 DEF EndLoop, RaiseInTask, EndGraph
  <1>7. ASSUME NEW sig, NEW status, CheckResult(r, sig, status) \/ RefuteCandidate(r, sig)
        PROVE  Read(r)
    BY <1>7 DEF CheckResult, RefuteCandidate
  <1>8. CASE FailingFails(r) \/ CommitTask(r) \/ CommitTaskTimesOut(r)
    BY <1>8 DEF FailingFails, CommitTask, CommitTaskTimesOut, CommitTimesOut
  <1>. QED
    BY <1>1, <1>2, <1>3, <1>4, <1>5, <1>6, <1>7, <1>8 DEF Step, TaskStep

\* A step of r leaves the others where they are.
LEMMA OthersStay ==
    ASSUME TypeOK, NEW r \in Connections, Step(r), NEW s \in Connections \ {r}
    PROVE  /\ pc'[s] = pc[s] /\ op'[s] = op[s] /\ answer'[s] = answer[s]
           /\ calls'[s] = calls[s] /\ result'[s] = result[s]
  <1>. USE DEF Go, Answer, taskVars, TypeOK
  <1>1. CASE Arrive(r) \/ AnswerEarly(r)
    BY <1>1 DEF Arrive, AnswerEarly
  <1>2. CASE RequestStep(r)
    BY <1>2 DEF RequestStep, ReadRow, RefuseOnRead, UpdateRow, LoseRace, RequestTimesOut,
                CommitRequest, AwaitCommit, EndRequest
  <1>3. CASE StartTask(r) \/ OpenTimesOut(r) \/ CallTool(r) \/ CallToolRaises(r)
    BY <1>3 DEF StartTask, OpenTimesOut, CallTool, CallToolRaises
  <1>4. CASE record_step(r) \/ InsertResult(r) \/ complete_investigation(r) \/ fail_investigation(r)
    BY <1>4 DEF record_step, InsertResult, complete_investigation, fail_investigation
  <1>5. CASE LoseStep(r) \/ WriteInTaskRefused(r)
    BY <1>5 DEF LoseStep, WriteInTaskRefused
  <1>6. CASE EndLoop(r) \/ RaiseInTask(r) \/ EndGraph(r)
    BY <1>6 DEF EndLoop, RaiseInTask, EndGraph
  <1>7. CASE \E sig \in Signatures, status \in {"open", "partial"} : CheckResult(r, sig, status)
    BY <1>7 DEF CheckResult
  <1>8. CASE \E sig \in Signatures : RefuteCandidate(r, sig)
    BY <1>8 DEF RefuteCandidate
  <1>9. CASE FailingFails(r) \/ CommitTask(r) \/ CommitTaskTimesOut(r)
    BY <1>9 DEF FailingFails, CommitTask, CommitTaskTimesOut
  <1>. QED
    BY <1>1, <1>2, <1>3, <1>4, <1>5, <1>6, <1>7, <1>8, <1>9 DEF Step, TaskStep

LEMMA StepIsStatement ==
    ASSUME NEW r \in Connections, Step(r)
    PROVE  Statement(r, Slow)
  BY FileMoves DEF Statement

\* What the lemmas of Tables_proofs say of a step: the others keep what they have.
LEMMA Isolation ==
    ASSUME BaseInv, NEW r \in Connections, Step(r)
    PROVE  /\ \A s \in Connections \ {r} :
                 /\ tx'[s] = tx[s]
                 /\ Writer(s) => db' = db /\ work' = work
                 /\ tx[s] = "shared" => db' = db
           /\ \/ db' = db
              \/ Writer(r) /\ db' = work /\ (CommitRequest(r) \/ CommitTask(r))
  <1>1. LocksOK /\ Statement(r, Slow)
    BY StepIsStatement DEF BaseInv, TypeOK, LockInv, LocksOK
  <1>2. db' = db \/ (Writer(r) /\ db' = work /\ (CommitRequest(r) \/ CommitTask(r)))
    BY FileMoves
    DEF fileVars, Read, WriteRefused, Write, Commit, AwaitReaders, Rollback
  <1>. QED
    BY <1>1, <1>2, LocksKept, OthersIsolated

LEMMA Steps ==
    [Next]_vars => (\E r \in Connections : Step(r)) \/ Crash \/ UNCHANGED vars
  BY DEF Next, Step

(***************************************************************************)
(* Once it has made a tool call a task is never without a transaction, as  *)
(* record_step opens one even when it fails; so the checks made before an  *)
(* insert read under a lock that is kept until the insert.                 *)
(***************************************************************************)
Holds(r) ==
    /\ pc[r] \in {"idle", "read", "update", "commit", "scheduled"} => calls[r] = 0
    /\ pc[r] \in {"trace", "trace_error"} => calls[r] > 0
    /\ pc[r] \in {"loop", "persist"} /\ calls[r] > 0 => tx[r] # "auto"
    /\ pc[r] = "insert" => tx[r] \in {"shared", "reserved"}

HoldInv == \A r \in Connections : Holds(r)

LEMMA HoldStep == BaseInv /\ HoldInv /\ [Next]_vars => HoldInv'
  <1>. SUFFICES ASSUME BaseInv, HoldInv, [Next]_vars PROVE HoldInv'
    OBVIOUS
  <1>1. ASSUME NEW r \in Connections, Step(r)
        PROVE  HoldInv'
    <2>1. ASSUME NEW s \in Connections \ {r}
          PROVE  Holds(s)'
      BY <1>1, <2>1, OthersStay, Isolation DEF BaseInv, HoldInv, Holds
    <2>2. Holds(r)'
      <3>. Holds(r) /\ TypeOK /\ LockInv
        BY DEF BaseInv, HoldInv
      <3>. USE DEF Holds, TypeOK, LockInv, Go, taskVars, fileVars
      <3>1. CASE Arrive(r) \/ AnswerEarly(r)
        BY <3>1 DEF Arrive, AnswerEarly
      <3>2. CASE RequestStep(r)
        BY <3>2 DEF RequestStep, ReadRow, RefuseOnRead, UpdateRow, LoseRace, RequestTimesOut,
                    CommitRequest, AwaitCommit, EndRequest
      <3>3. CASE StartTask(r) \/ OpenTimesOut(r)
        BY <3>3 DEF StartTask, OpenTimesOut
      <3>4. CASE CallTool(r) \/ CallToolRaises(r)
        BY <3>4 DEF CallTool, CallToolRaises
      <3>5. CASE record_step(r) \/ InsertResult(r) \/ complete_investigation(r) \/ fail_investigation(r)
        BY <3>5 DEF record_step, InsertResult, complete_investigation, fail_investigation, Write
      <3>6. CASE LoseStep(r) \/ WriteInTaskRefused(r)
        BY <3>6 DEF LoseStep, WriteInTaskRefused, WriteRefused
      <3>7. CASE EndLoop(r) \/ RaiseInTask(r) \/ EndGraph(r)
        BY <3>7 DEF EndLoop, RaiseInTask, EndGraph
      <3>8. CASE \E sig \in Signatures :
                    RefuteCandidate(r, sig)
                    \/ \E status \in {"open", "partial"} : CheckResult(r, sig, status)
        <4>1. pc[r] = "persist" /\ calls[r] > 0 /\ calls' = calls
              /\ (pc'[r] = "persist" \/ pc'[r] = "insert")
          BY <3>8 DEF CheckResult, RefuteCandidate
        <4>2. Read(r)
          BY <3>8 DEF CheckResult, RefuteCandidate
        <4>3. tx'[r] \in {"shared", "reserved"}
          BY <4>1, <4>2 DEF Read, TxStates
        <4>. QED
          BY <4>1, <4>3
      <3>9. CASE FailingFails(r) \/ CommitTask(r) \/ CommitTaskTimesOut(r)
        BY <3>9 DEF FailingFails, CommitTask, CommitTaskTimesOut
      <3>. QED
        BY <1>1, <3>1, <3>2, <3>3, <3>4, <3>5, <3>6, <3>7, <3>8, <3>9 DEF Step, TaskStep
    <2>. QED
      BY <2>1, <2>2 DEF HoldInv
  <1>2. CASE Crash
    BY <1>2 DEF BaseInv, TypeOK, HoldInv, Holds, Crash, Stopped
  <1>3. CASE UNCHANGED vars
    BY <1>3 DEF vars, HoldInv, Holds
  <1>. QED
    BY <1>1, <1>2, <1>3, Steps

\* The answers of the two checks are still true when the row is inserted.
Checked(r) ==
    pc[r] = "insert" /\ result[r].status \in {"open", "partial"} =>
        ~Blocked(View(r).findings, View(r).feedback, result[r].sig)

CheckedInv == \A r \in Connections : Checked(r)

LEMMA CheckedStep == BaseInv /\ HoldInv /\ CheckedInv /\ [Next]_vars => CheckedInv'
  <1>. SUFFICES ASSUME BaseInv, HoldInv, CheckedInv, [Next]_vars PROVE CheckedInv'
    OBVIOUS
  <1>1. ASSUME NEW r \in Connections, Step(r)
        PROVE  CheckedInv'
    <2>1. ASSUME NEW s \in Connections \ {r}
          PROVE  Checked(s)'
      <3>1. pc'[s] = pc[s] /\ result'[s] = result[s] /\ tx'[s] = tx[s]
        BY <1>1, <2>1, OthersStay, Isolation DEF BaseInv
      <3>2. CASE pc[s] = "insert"
        <4>1. View(s)' = View(s)
          BY <1>1, <2>1, <3>1, <3>2, Isolation DEF HoldInv, Holds, View, Writer
        <4>. QED
          BY <3>1, <4>1 DEF CheckedInv, Checked
      <3>. QED
        BY <3>1, <3>2 DEF Checked
    <2>2. Checked(r)'
      <3>1. ASSUME NEW sig \in Signatures, NEW status \in {"open", "partial"},
                   CheckResult(r, sig, status), pc'[r] = "insert"
            PROVE  Checked(r)'
        <4>1. /\ ~Blocked(View(r).findings, View(r).feedback, sig)
              /\ result'[r].sig = sig
              /\ Read(r)
          BY <3>1 DEF CheckResult, BaseInv, TypeOK
        <4>2. View(r)' = View(r)
          BY <4>1 DEF Read, View, Writer, BaseInv, TypeOK
        <4>. QED
          BY <4>1, <4>2 DEF Checked
      <3>2. ASSUME NEW sig \in Signatures, RefuteCandidate(r, sig)
            PROVE  Checked(r)'
        BY <3>2 DEF RefuteCandidate, Checked, BaseInv, TypeOK
      <3>. USE DEF Checked, BaseInv, TypeOK, Go, taskVars
      <3>3. CASE Arrive(r) \/ AnswerEarly(r)
        BY <3>3 DEF Arrive, AnswerEarly
      <3>4. CASE RequestStep(r)
        BY <3>4 DEF RequestStep, ReadRow, RefuseOnRead, UpdateRow, LoseRace, RequestTimesOut,
                    CommitRequest, AwaitCommit, EndRequest
      <3>5. CASE StartTask(r) \/ OpenTimesOut(r) \/ CallTool(r) \/ CallToolRaises(r)
        BY <3>5 DEF StartTask, OpenTimesOut, CallTool, CallToolRaises
      <3>6. CASE record_step(r) \/ InsertResult(r) \/ complete_investigation(r) \/ fail_investigation(r)
        BY <3>6 DEF record_step, InsertResult, complete_investigation, fail_investigation
      <3>7. CASE LoseStep(r) \/ WriteInTaskRefused(r)
        BY <3>7 DEF LoseStep, WriteInTaskRefused
      <3>8. CASE EndLoop(r) \/ RaiseInTask(r) \/ EndGraph(r)
        BY <3>8 DEF EndLoop, RaiseInTask, EndGraph
      <3>9. CASE FailingFails(r) \/ CommitTask(r) \/ CommitTaskTimesOut(r)
        BY <3>9 DEF FailingFails, CommitTask, CommitTaskTimesOut
      <3>. QED
        BY <1>1, <3>1, <3>2, <3>3, <3>4, <3>5, <3>6, <3>7, <3>8, <3>9 DEF Step, TaskStep
    <2>. QED
      BY <2>1, <2>2 DEF CheckedInv
  <1>2. CASE Crash
    BY <1>2 DEF BaseInv, TypeOK, CheckedInv, Checked, Crash, Stopped
  <1>3. CASE UNCHANGED vars
    BY <1>3 DEF vars, procVars, CheckedInv, Checked, View, Writer
  <1>. QED
    BY <1>1, <1>2, <1>3, Steps

\* Of the file and of what its writer has made of it.
UniqueInv ==
    /\ OneOpenPerSignature(db.findings)
    /\ \A r \in Connections : Writer(r) => OneOpenPerSignature(work.findings)

LEMMA WritesKeepUnique ==
    ASSUME BaseInv, CheckedInv, UniqueInv, NEW r \in Connections, WriteAction(r)
    PROVE  OneOpenPerSignature(work'.findings)
  <1>1. OneOpenPerSignature(View(r).findings) /\ View(r) \in Contents
    BY ViewType DEF UniqueInv, View, BaseInv
  <1>. USE DEF BaseInv
  <1>2. CASE UpdateRow(r)
    <2>1. pc[r] = "update" /\ tx[r] = "auto" /\ View(r) = db
      BY <1>2 DEF UpdateRow, Go, LockInv, View, Writer
    <2>2. \/ work'.findings = db.findings
          \/ op[r].kind = "dismiss" /\ work' = dismiss_finding(r)
      BY <1>2, <2>1, RequestWrites DEF UpdateRow, Write
    <2>3. ASSUME op[r].kind = "dismiss", work' = dismiss_finding(r)
          PROVE  OneOpenPerSignature(work'.findings)
      <3>1. work'.findings = [db.findings EXCEPT ![op[r].finding].status = "dismissed"]
        BY <2>1, <2>3, <1>1 DEF dismiss_finding, dismiss, Contents
      <3>2. op[r].finding \in DOMAIN db.findings /\ db.findings \in Seq(Rows)
        BY <1>1, <2>1, <2>3 DEF TargetInv, Contents
      <3>. QED
        BY <1>1, <2>1, <3>1, <3>2 DEF OneOpenPerSignature, Rows
    <2>. QED
      BY <1>1, <2>1, <2>2, <2>3
  <1>3. CASE record_step(r)
    BY <1>1, <1>3, TaskWrites DEF record_step, Write, Go, TaskPoints, Traced
  <1>4. CASE InsertResult(r)
    <2>1. pc[r] = "insert" /\ pc[r] \in TaskPoints /\ work' = Inserted(r)
      BY <1>4 DEF InsertResult, Go, TaskPoints, Inserted, NewFinding, insert_finding, Write
    <2>2. View(r).findings \in Seq(Rows) /\ NewFinding(r) \in Rows
      BY <1>1, <2>1, TaskWrites DEF Contents
    <2>3. NewFinding(r).status = "open" =>
              ~find_open_by_signature(View(r).findings, NewFinding(r).sig)
      BY <2>1 DEF CheckedInv, Checked, Blocked, NewFinding
    <2>. QED
      BY <1>1, <2>1, <2>2, <2>3, TaskWrites, AddKeepsUnique
  <1>5. CASE complete_investigation(r)
    BY <1>1, <1>5, TaskWrites DEF complete_investigation, Write, Go, TaskPoints, Completed
  <1>6. CASE fail_investigation(r)
    BY <1>1, <1>6, TaskWrites DEF fail_investigation, Write, Go, TaskPoints, Failed
  <1>. QED
    BY <1>2, <1>3, <1>4, <1>5, <1>6 DEF WriteAction

\* The working copy of a connection that has one came to be in one of two ways.
LEMMA WorkMoves ==
    ASSUME BaseInv, NEW r \in Connections, Step(r), NEW s \in Connections, Writer(s)'
    PROVE  \/ Writer(s) /\ work' = work
           \/ s = r /\ WriteAction(r)
  <1>1. CASE s # r
    BY <1>1, Isolation DEF Writer
  <1>2. CASE s = r
    BY <1>2, FileMoves DEF BaseInv, TypeOK, Writer, fileVars, Read, WriteRefused, LockedOut,
                           Commit, AwaitReaders, Rollback
  <1>. QED
    BY <1>1, <1>2

LEMMA UniqueStep == BaseInv /\ CheckedInv /\ UniqueInv /\ [Next]_vars => UniqueInv'
  <1>. SUFFICES ASSUME BaseInv, CheckedInv, UniqueInv, [Next]_vars PROVE UniqueInv'
    OBVIOUS
  <1>1. ASSUME NEW r \in Connections, Step(r)
        PROVE  UniqueInv'
    <2>1. OneOpenPerSignature(db'.findings)
      BY <1>1, Isolation DEF UniqueInv
    <2>2. ASSUME NEW s \in Connections, Writer(s)'
          PROVE  OneOpenPerSignature(work'.findings)
      BY <1>1, <2>2, WorkMoves, WritesKeepUnique DEF UniqueInv
    <2>. QED
      BY <2>1, <2>2 DEF UniqueInv
  <1>2. CASE Crash
    BY <1>2 DEF UniqueInv, Crash, Recover, Writer
  <1>3. CASE UNCHANGED vars
    BY <1>3 DEF UniqueInv, vars, Writer
  <1>. QED
    BY <1>1, <1>2, <1>3, Steps

LEMMA UniqueAlways == Spec => [](BaseInv /\ HoldInv /\ CheckedInv /\ UniqueInv)
  <1>1. Init => HoldInv /\ CheckedInv /\ UniqueInv
    BY FirstFindingsAssumption
    DEF Init, OpenFile, HoldInv, Holds, CheckedInv, Checked, UniqueInv, Writer
  <1>. QED
    BY <1>1, BaseAlways, HoldStep, CheckedStep, UniqueStep, PTL DEF Spec

(***************************************************************************)
(* No two open findings ever share a signature, however many tasks check   *)
(* and insert at the same time, and whatever times out, raises or crashes: *)
(* the lock taken by a task's first trace row makes its later checks safe. *)
(***************************************************************************)
THEOREM OpenFindingsUnique == Spec => []UniqueOpen
  <1>1. UniqueInv => UniqueOpen
    BY DEF UniqueInv, UniqueOpen
  <1>. QED
    BY <1>1, UniqueAlways, PTL

-----------------------------------------------------------------------------
(* What a transaction makes of the file.                                   *)

\* Of the rows as they were, for the request r.
RequestDoes(r, old, new) ==
    /\ new.steps = old.steps
    /\ op[r].kind = "dismiss" =>
          /\ op[r].finding \in DOMAIN old.findings
          /\ old.findings[op[r].finding].status # "no_issue"
          /\ new.status = old.status
          /\ new.findings = dismiss(old.findings, op[r].finding)
          /\ new.feedback = insert_feedback(old.feedback, old.findings[op[r].finding].sig,
                                            op[r].scope)
    /\ op[r].kind # "dismiss" =>
          /\ old.status[op[r].candidate] = "pending"
          /\ new.status = [old.status EXCEPT ![op[r].candidate] =
                IF op[r].kind = "investigate" THEN "investigating" ELSE "discarded"]
          /\ new.findings = old.findings
          /\ new.feedback = old.feedback

\* And for the task of r, but for the status of its candidate.
TaskDoes(r, old, new) ==
    /\ new.feedback = old.feedback
    /\ \A c \in Candidates \ {op[r].candidate} : new.steps[c] = old.steps[c]
    /\ Len(new.findings) >= Len(old.findings)
    /\ \A i \in DOMAIN old.findings : new.findings[i] = old.findings[i]
    /\ \A i \in DOMAIN new.findings \ DOMAIN old.findings :
          /\ new.findings[i].cand = op[r].candidate
          /\ new.findings[i].status \in {"open", "partial"} =>
                ~check_suppression(old.feedback, new.findings[i].sig)

\* The task writes the status last.
Outcome(r, old) ==
    IF pc[r] = "finish" THEN [old.status EXCEPT ![op[r].candidate] = "investigated"]
    ELSE old.status

(***************************************************************************)
(* What a writer has prepared, whatever has happened since its first       *)
(* write, is still one whole request or one whole investigation of the     *)
(* committed rows.                                                         *)
(***************************************************************************)
Txn(r) ==
    Writer(r) =>
        /\ pc[r] = "commit" => RequestDoes(r, db, work)
        /\ pc[r] \in TaskPoints => TaskDoes(r, db, work) /\ work.status = Outcome(r, db)

TxnInv == \A r \in Connections : Txn(r)

(***************************************************************************)
(* A candidate is under investigation for as long as its task runs, and a  *)
(* request that was accepted is the only one; what a dismissal is about to *)
(* dismiss may still be dismissed.                                         *)
(***************************************************************************)
AcceptInv ==
    /\ \A r \in Connections :
          /\ pc[r] \in TaskPoints =>
                Accepted(r) /\ db.status[op[r].candidate] = "investigating"
          /\ Accepted(r) => db.status[op[r].candidate] \in {"investigating", "investigated"}
          /\ pc[r] = "update" /\ op[r].kind = "dismiss" =>
                db.findings[op[r].finding].status # "no_issue"
    /\ OneTaskPerCandidate

LEMMA SameAsk == ASSUME NEW r \in Connections, Step(r) PROVE op' = op
  <1>1. CASE Arrive(r) \/ AnswerEarly(r)
    BY <1>1 DEF Arrive, AnswerEarly, taskVars
  <1>2. CASE RequestStep(r)
    BY <1>2 DEF RequestStep, ReadRow, RefuseOnRead, UpdateRow, LoseRace, RequestTimesOut,
                CommitRequest, AwaitCommit, EndRequest, taskVars
  <1>3. CASE TaskStep(r)
    BY <1>3 DEF TaskStep, StartTask, OpenTimesOut, CallTool, CallToolRaises, record_step, LoseStep,
                EndLoop, RaiseInTask, CheckResult, RefuteCandidate, InsertResult, EndGraph,
                complete_investigation, WriteInTaskRefused, fail_investigation, FailingFails,
                CommitTask, CommitTaskTimesOut, taskVars
  <1>. QED
    BY <1>1, <1>2, <1>3 DEF Step

\* The one write of a request is the whole of it.
LEMMA UpdateMakes ==
    ASSUME BaseInv, AcceptInv, NEW r \in Connections, UpdateRow(r)
    PROVE  RequestDoes(r, db, work')
  <1>1. pc[r] = "update" /\ View(r) = db /\ db \in Contents /\ op[r] \in OperationTypes
    BY DEF BaseInv, TypeOK, LockInv, UpdateRow, Go, View, Writer
  <1>2. \/ op[r].kind = "investigate" /\ StillPending(r) /\ work' = start_investigation(r)
        \/ op[r].kind = "discard" /\ StillPending(r) /\ work' = discard(r)
        \/ op[r].kind = "dismiss" /\ work' = dismiss_finding(r)
    BY DEF UpdateRow, Write
  <1>3. CASE op[r].kind = "dismiss"
    <2>1. op[r].finding \in DOMAIN db.findings /\ db.findings[op[r].finding].status # "no_issue"
      BY <1>1, <1>3 DEF BaseInv, TargetInv, AcceptInv
    <2>2. work' = dismiss_finding(r)
      BY <1>2, <1>3
    <2>. QED
      BY <1>1, <1>3, <2>1, <2>2 DEF RequestDoes, dismiss_finding, Contents
  <1>4. CASE op[r].kind # "dismiss"
    BY <1>1, <1>2, <1>4
    DEF RequestDoes, StillPending, start_investigation, discard, Contents
  <1>. QED
    BY <1>3, <1>4

\* What a task writes on is what it began with, or what it has made of it.
LEMMA TaskView ==
    ASSUME BaseInv, TxnInv, NEW r \in Connections, pc[r] \in TaskPoints \ {"finish"}
    PROVE  TaskDoes(r, db, View(r)) /\ View(r).status = db.status
  <1>1. db.findings \in Seq(Rows)
    BY DEF BaseInv, TypeOK, Contents
  <1>2. CASE Writer(r)
    BY <1>2 DEF TxnInv, Txn, View, Outcome
  <1>3. CASE ~Writer(r)
    BY <1>1, <1>3 DEF TaskDoes, View
  <1>. QED
    BY <1>2, <1>3

\* Every write of a task adds to its own investigation and to nothing else.
LEMMA TaskMakes ==
    ASSUME BaseInv, CheckedInv, TxnInv, NEW r \in Connections, WriteAction(r), ~UpdateRow(r)
    PROVE  /\ TaskDoes(r, db, work')
           /\ pc'[r] \in TaskPoints => work'.status = Outcome(r, db)'
  <1>0. op' = op /\ db' = db
    BY SameAsk DEF WriteAction, record_step, InsertResult, complete_investigation,
                   fail_investigation, taskVars, Write
  <1>1. pc[r] \in TaskPoints \ {"finish"} /\ pc' \in [Connections -> RequestPoints \cup TaskPoints \cup Stopped]
    BY BaseStep
    DEF WriteAction, record_step, InsertResult, complete_investigation, fail_investigation, Go,
        TaskPoints, BaseInv, TypeOK
  <1>2. /\ TaskDoes(r, db, View(r)) /\ View(r).status = db.status
        /\ View(r) \in Contents /\ op[r].candidate \in Candidates
    BY <1>1, TaskView, ViewType, TaskWrites DEF BaseInv
  <1>3. ASSUME record_step(r)
        PROVE  work' = Traced(r) /\ pc'[r] # "finish"
    BY <1>3 DEF record_step, Write, Traced, Go, BaseInv, TypeOK
  <1>4. CASE record_step(r)
    <2>1. /\ Traced(r).feedback = View(r).feedback /\ Traced(r).findings = View(r).findings
          /\ Traced(r).status = View(r).status
          /\ \A c \in Candidates \ {op[r].candidate} : Traced(r).steps[c] = View(r).steps[c]
      BY <1>2 DEF Traced, Contents
    <2>. QED
      BY <1>0, <1>2, <1>3, <1>4, <2>1 DEF TaskDoes, Outcome
  <1>5. CASE InsertResult(r)
    <2>1. pc[r] = "insert" /\ pc'[r] = "persist" /\ work' = Inserted(r)
      BY <1>5 DEF InsertResult, Go, Inserted, NewFinding, insert_finding, Write, BaseInv, TypeOK
    <2>2. /\ Inserted(r).feedback = View(r).feedback /\ Inserted(r).status = View(r).status
          /\ Inserted(r).steps = View(r).steps
          /\ Inserted(r).findings = Append(View(r).findings, NewFinding(r))
          /\ View(r).findings \in Seq(Rows) /\ db.findings \in Seq(Rows) /\ NewFinding(r) \in Rows
      BY <1>1, <1>2, <2>1, TaskWrites DEF Inserted, Contents, BaseInv, TypeOK
    <2>3. NewFinding(r).cand = op[r].candidate
          /\ (NewFinding(r).status \in {"open", "partial"} =>
                 ~check_suppression(db.feedback, NewFinding(r).sig))
      BY <1>2, <2>1 DEF NewFinding, CheckedInv, Checked, Blocked, TaskDoes
    <2>4. TaskDoes(r, db, Inserted(r))
      BY <1>2, <2>2, <2>3, AppendKeeps DEF TaskDoes
    <2>. QED
      BY <1>0, <1>2, <2>1, <2>2, <2>4 DEF Outcome
  <1>6. ASSUME complete_investigation(r) \/ fail_investigation(r)
        PROVE  (work' = Completed(r) \/ work' = Failed(r)) /\ pc'[r] = "finish"
    BY <1>6
    DEF complete_investigation, fail_investigation, Write, Completed, Failed, Go, BaseInv, TypeOK
  <1>7. CASE complete_investigation(r) \/ fail_investigation(r)
    <2>. DEFINE concluded == [db.status EXCEPT ![op[r].candidate] = "investigated"]
    <2>1. /\ work'.feedback = View(r).feedback /\ work'.findings = View(r).findings
          /\ work'.steps = View(r).steps /\ work'.status = concluded
      BY <1>2, <1>6, <1>7 DEF Completed, Failed, Contents
    <2>. QED
      BY <1>0, <1>2, <1>6, <1>7, <2>1 DEF TaskDoes, Outcome
  <1>. QED
    BY <1>4, <1>5, <1>7 DEF WriteAction

\* A transaction goes on where it was, unless its connection writes or ends it.
LEMMA PointMoves ==
    ASSUME TypeOK, NEW r \in Connections, Step(r), ~WriteAction(r)
    PROVE  /\ pc'[r] = "commit" => pc[r] = "commit"
           /\ pc'[r] \in TaskPoints => pc[r] \in TaskPoints \/ CommitRequest(r)
           /\ pc'[r] = "finish" <=> pc[r] = "finish" /\ pc'[r] # "closed"
           /\ pc'[r] = "update" => pc[r] = "update" \/ ReadRow(r)
  <1>. USE DEF Go, TypeOK, TaskPoints
  <1>1. CASE Arrive(r) \/ AnswerEarly(r)
    BY <1>1 DEF Arrive, AnswerEarly
  <1>2. CASE RequestStep(r)
    BY <1>2 DEF RequestStep, ReadRow, RefuseOnRead, LoseRace, RequestTimesOut, CommitRequest,
                AwaitCommit, EndRequest, WriteAction
  <1>3. CASE StartTask(r) \/ OpenTimesOut(r) \/ CallTool(r) \/ CallToolRaises(r)
    BY <1>3 DEF StartTask, OpenTimesOut, CallTool, CallToolRaises
  <1>5. CASE LoseStep(r) \/ WriteInTaskRefused(r)
    BY <1>5 DEF LoseStep, WriteInTaskRefused
  <1>6. CASE EndLoop(r) \/ RaiseInTask(r) \/ EndGraph(r)
    BY <1>6 DEF EndLoop, RaiseInTask, EndGraph
  <1>7. CASE \E sig \in Signatures, status \in {"open", "partial"} : CheckResult(r, sig, status)
    BY <1>7 DEF CheckResult
  <1>8. CASE \E sig \in Signatures : RefuteCandidate(r, sig)
    BY <1>8 DEF RefuteCandidate
  <1>9. CASE FailingFails(r) \/ CommitTask(r) \/ CommitTaskTimesOut(r)
    BY <1>9 DEF FailingFails, CommitTask, CommitTaskTimesOut
  <1>. QED
    BY <1>1, <1>2, <1>3, <1>5, <1>6, <1>7, <1>8, <1>9 DEF Step, TaskStep, WriteAction

LEMMA TxnStep ==
    BaseInv /\ CheckedInv /\ AcceptInv /\ TxnInv /\ [Next]_vars => TxnInv'
  <1>. SUFFICES ASSUME BaseInv, CheckedInv, AcceptInv, TxnInv, [Next]_vars PROVE TxnInv'
    OBVIOUS
  <1>1. ASSUME NEW r \in Connections, Step(r), NEW s \in Connections, Writer(s)'
        PROVE  Txn(s)'
    <2>0. op' = op
      BY <1>1, SameAsk
    <2>1. CASE s # r
      <3>1. pc'[s] = pc[s] /\ Writer(s) /\ db' = db /\ work' = work
        BY <1>1, <2>1, OthersStay, Isolation DEF BaseInv, Writer
      <3>. QED
        BY <2>0, <3>1 DEF TxnInv, Txn, RequestDoes, TaskDoes, Outcome
    <2>2. CASE s = r /\ UpdateRow(r)
      <3>1. RequestDoes(r, db, work') /\ db' = db /\ pc'[r] = "commit"
        BY <2>2, UpdateMakes DEF UpdateRow, Go, BaseInv, TypeOK, Write
      <3>. QED
        BY <2>0, <2>2, <3>1 DEF Txn, RequestDoes, TaskPoints
    <2>3. CASE s = r /\ WriteAction(r) /\ ~UpdateRow(r)
      <3>1. db' = db /\ pc'[r] # "commit"
        BY <2>3 DEF WriteAction, record_step, InsertResult, complete_investigation,
                    fail_investigation, Go, Write, BaseInv, TypeOK
      <3>2. /\ TaskDoes(r, db, work')
            /\ pc'[r] \in TaskPoints => work'.status = Outcome(r, db)'
        BY <2>3, TaskMakes
      <3>. QED
        BY <2>0, <2>3, <3>1, <3>2 DEF Txn, TaskDoes, Outcome
    <2>4. CASE s = r /\ ~WriteAction(r)
      <3>1. Writer(r) /\ work' = work
        BY <1>1, <2>4, WorkMoves
      <3>2. ~CommitRequest(r) /\ ~CommitTask(r)
        BY <1>1, <2>4 DEF CommitRequest, CommitTask, Commit, Writer, BaseInv, TypeOK
      <3>3. db' = db
        BY <1>1, <3>2, Isolation
      <3>4. /\ pc'[r] = "commit" => pc[r] = "commit"
            /\ pc'[r] \in TaskPoints => pc[r] \in TaskPoints
            /\ pc'[r] \in TaskPoints => (pc'[r] = "finish" <=> pc[r] = "finish")
        BY <1>1, <2>4, <3>2, PointMoves DEF BaseInv, TaskPoints
      <3>5. Txn(r)
        BY DEF TxnInv
      <3>. QED
        BY <2>0, <2>4, <3>1, <3>3, <3>4, <3>5 DEF Txn, RequestDoes, TaskDoes, Outcome
    <2>. QED
      BY <2>1, <2>2, <2>3, <2>4
  <1>2. ASSUME NEW r \in Connections, Step(r)
        PROVE  TxnInv'
    BY <1>1, <1>2 DEF TxnInv, Txn
  <1>3. CASE Crash
    BY <1>3 DEF TxnInv, Txn, Crash, Recover, Writer
  <1>4. CASE UNCHANGED vars
    BY <1>4 DEF vars, TxnInv, Txn, RequestDoes, TaskDoes, Outcome, Writer
  <1>. QED
    BY <1>2, <1>3, <1>4, Steps

(***************************************************************************)
(* The file changes by whole transactions, at commits.                     *)
(***************************************************************************)
LEMMA Commits ==
    ASSUME BaseInv, TxnInv, NEW r \in Connections, Step(r)
    PROVE  \/ CommitRequest(r) /\ RequestDoes(r, db, db') /\ db' = work
           \/ /\ CommitTask(r) /\ TaskDoes(r, db, db') /\ db' = work
              /\ db'.status = [db.status EXCEPT ![op[r].candidate] = "investigated"]
           \/ db' = db /\ ~CommitRequest(r) /\ ~CommitTask(r)
  <1>1. ASSUME CommitRequest(r)
        PROVE  RequestDoes(r, db, db') /\ db' = work
    BY <1>1 DEF CommitRequest, Go, Commit, BaseInv, LockInv, TxnInv, Txn
  <1>2. ASSUME CommitTask(r)
        PROVE  /\ TaskDoes(r, db, db') /\ db' = work
               /\ db'.status = [db.status EXCEPT ![op[r].candidate] = "investigated"]
    BY <1>2 DEF CommitTask, Go, Commit, BaseInv, LockInv, TxnInv, Txn, TaskPoints, Outcome
  <1>. QED
    BY <1>1, <1>2, Isolation

\* A dismissal leaves the findings that are not a refutation as they are in this.
LEMMA StillDismissable ==
    ASSUME TypeOK, TypeOK', NEW r \in Connections,
           RequestDoes(r, db, db') \/ TaskDoes(r, db, db'),
           NEW i \in DOMAIN db.findings, db.findings[i].status # "no_issue"
    PROVE  db'.findings[i].status # "no_issue"
  <1>1. db \in Contents /\ db.findings \in Seq(Rows)
    BY DEF TypeOK, Contents
  <1>2. CASE TaskDoes(r, db, db') \/ db'.findings = db.findings
    BY <1>2 DEF TaskDoes
  <1>3. CASE db'.findings = dismiss(db.findings, op[r].finding)
    BY <1>1, <1>3 DEF dismiss, Rows
  <1>. QED
    BY <1>2, <1>3 DEF RequestDoes

\* A connection becomes accepted only by its own commit.
LEMMA AcceptMoves ==
    ASSUME TypeOK, NEW r \in Connections, Step(r), ~CommitRequest(r)
    PROVE  /\ Accepted(r)' => Accepted(r)
           /\ Accepted(r) /\ pc'[r] \in TaskPoints => Accepted(r)'
  <1>0. op' = op
    BY SameAsk
  <1>. USE <1>0 DEF Go, Answer, taskVars, Accepted, TypeOK
  <1>1. CASE Arrive(r) \/ AnswerEarly(r)
    BY <1>1 DEF Arrive, AnswerEarly
  <1>2. ASSUME NEW code, EndRequest(r, code), code # "200" \/ code = answer[r]
        PROVE  (Accepted(r)' => Accepted(r)) /\ pc'[r] \notin TaskPoints
    BY <1>2 DEF EndRequest, TaskPoints
  <1>3. CASE RefuseOnRead(r) \/ LoseRace(r) \/ RequestTimesOut(r)
    BY <1>2, <1>3 DEF RefuseOnRead, Refusal, LoseRace, RequestTimesOut
  <1>4. CASE ReadRow(r) \/ UpdateRow(r) \/ AwaitCommit(r)
    BY <1>4 DEF ReadRow, UpdateRow, AwaitCommit
  <1>5. CASE TaskStep(r)
    BY <1>5 DEF TaskStep, StartTask, OpenTimesOut, CallTool, CallToolRaises, record_step, LoseStep,
                EndLoop, RaiseInTask, CheckResult, RefuteCandidate, InsertResult, EndGraph,
                complete_investigation, WriteInTaskRefused, fail_investigation, FailingFails,
                CommitTask, CommitTaskTimesOut
  <1>. QED
    BY <1>1, <1>3, <1>4, <1>5 DEF Step, RequestStep

LEMMA AcceptStep ==
    BaseInv /\ TxnInv /\ AcceptInv /\ [Next]_vars => AcceptInv'
  <1>. SUFFICES ASSUME BaseInv, TxnInv, AcceptInv, [Next]_vars PROVE AcceptInv'
    OBVIOUS
  <1>0. TypeOK /\ TypeOK' /\ db \in Contents /\ db' \in Contents
    BY BaseStep DEF BaseInv, TypeOK
  <1>1. ASSUME NEW r \in Connections, Step(r)
        PROVE  AcceptInv'
    <2>0. op' = op
      BY <1>1, SameAsk
    <2>. DEFINE chosen(s) == db.status[op[s].candidate]
    <2>1. ASSUME NEW s \in Connections, Accepted(s)
          PROVE  /\ op[s].candidate \in Candidates
                 /\ chosen(s) \in {"investigating", "investigated"}
      BY <1>0, <2>1 DEF AcceptInv, Accepted, TypeOK, OperationTypes
    \* An accepted candidate keeps its status, or its task commits.
    <2>2. ASSUME NEW s \in Connections, Accepted(s)
          PROVE  \/ chosen(s)' = chosen(s)
                 \/ CommitTask(r) /\ s = r /\ chosen(s)' = "investigated"
      <3>1. CASE CommitRequest(r) /\ RequestDoes(r, db, db')
        <4>. op[r] \in OperationTypes
          BY <1>0 DEF TypeOK
        <4>. QED
          BY <1>0, <2>0, <2>1, <2>2, <3>1 DEF RequestDoes, Contents, OperationTypes
      <3>2. CASE /\ CommitTask(r)
                 /\ db'.status = [db.status EXCEPT ![op[r].candidate] = "investigated"]
        <4>1. Accepted(r)
          BY <3>2 DEF CommitTask, Go, AcceptInv, TaskPoints
        <4>2. op[s].candidate = op[r].candidate => s = r
          BY <2>2, <4>1 DEF AcceptInv, OneTaskPerCandidate
        <4>. QED
          BY <1>0, <2>0, <2>1, <2>2, <3>2, <4>1, <4>2 DEF Contents
      <3>3. CASE db' = db
        BY <2>0, <3>3
      <3>. QED
        BY <1>1, <3>1, <3>2, <3>3, Commits
    <2>3. ASSUME NEW s \in Connections, Accepted(s)', ~Accepted(s)
          PROVE  /\ s = r /\ CommitRequest(r)
                 /\ chosen(r) = "pending" /\ chosen(r)' = "investigating"
      <3>1. s = r
        BY <1>0, <1>1, <2>0, <2>3, OthersStay DEF Accepted
      <3>2. CommitRequest(r)
        BY <1>0, <1>1, <2>3, <3>1, AcceptMoves
      <3>3. op[r].kind = "investigate" /\ op[r].candidate \in Candidates
        BY <1>0, <2>0, <2>3, <3>1 DEF Accepted, TypeOK, OperationTypes
      <3>4. RequestDoes(r, db, db')
        BY <1>1, <3>2, Commits DEF CommitTask, CommitRequest, Go, BaseInv, TypeOK
      <3>. QED
        BY <1>0, <2>0, <3>1, <3>2, <3>3, <3>4 DEF RequestDoes, Contents
    <2>4. ASSUME NEW s \in Connections, pc'[s] \in TaskPoints
          PROVE  Accepted(s)' /\ chosen(s)' = "investigating"
      <3>1. CASE s # r
        <4>1. Accepted(s) /\ chosen(s) = "investigating"
          BY <1>0, <1>1, <2>4, <3>1, OthersStay DEF AcceptInv
        <4>. QED
          BY <1>0, <1>1, <2>0, <2>2, <3>1, <4>1, OthersStay DEF Accepted
      <3>2. CASE s = r /\ CommitRequest(r)
        <4>1. op[r].kind = "investigate" /\ Accepted(r)' /\ op[r].candidate \in Candidates
          BY <1>0, <2>0, <2>4, <3>2
          DEF CommitRequest, Go, Answer, TypeOK, TaskPoints, Accepted, OperationTypes
        <4>2. RequestDoes(r, db, db')
          BY <1>1, <3>2, Commits DEF CommitTask, CommitRequest, Go, BaseInv, TypeOK
        <4>. QED
          BY <1>0, <2>0, <3>2, <4>1, <4>2 DEF RequestDoes, Contents
      <3>3. CASE s = r /\ ~CommitRequest(r)
        <4>1. pc[r] \in TaskPoints
          <5>1. CASE WriteAction(r)
            BY <2>4, <3>3, <5>1
            DEF WriteAction, UpdateRow, record_step, InsertResult, complete_investigation,
                fail_investigation, Go, TaskPoints, BaseInv, TypeOK
          <5>. QED
            BY <1>0, <1>1, <2>4, <3>3, <5>1, PointMoves
        <4>2. Accepted(r) /\ chosen(r) = "investigating"
          BY <4>1 DEF AcceptInv
        <4>3. ~CommitTask(r)
          BY <2>4, <3>3, <1>0 DEF CommitTask, Go, TypeOK, TaskPoints
        <4>. QED
          BY <1>0, <1>1, <2>2, <2>4, <3>3, <4>2, <4>3, AcceptMoves
      <3>. QED
        BY <3>1, <3>2, <3>3
    <2>5. ASSUME NEW s \in Connections, Accepted(s)'
          PROVE  chosen(s)' \in {"investigating", "investigated"}
      BY <2>1, <2>2, <2>3, <2>5
    <2>6. ASSUME NEW s \in Connections, pc'[s] = "update", op[s].kind = "dismiss"
          PROVE  db'.findings[op[s].finding].status # "no_issue"
      <3>1. CASE pc[s] = "update"
        <4>1. op[s].finding \in DOMAIN db.findings
              /\ db.findings[op[s].finding].status # "no_issue"
          BY <2>6, <3>1 DEF AcceptInv, BaseInv, TargetInv
        <4>2. db' = db \/ RequestDoes(r, db, db') \/ TaskDoes(r, db, db')
          BY <1>1, Commits
        <4>. QED
          BY <1>0, <4>1, <4>2, StillDismissable
      <3>2. CASE s = r /\ ReadRow(r)
        <4>1. View(r) = db /\ db' = db /\ Refusal(r) = "none"
          BY <3>2 DEF ReadRow, Go, Read, BaseInv, LockInv, View, Writer
        <4>. QED
          BY <2>6, <3>2, <4>1 DEF Refusal
      <3>3. s # r => pc'[s] = pc[s]
        BY <1>0, <1>1, OthersStay
      <3>4. CASE s = r /\ WriteAction(r)
        BY <1>0, <2>6, <3>4
        DEF WriteAction, UpdateRow, record_step, InsertResult, complete_investigation,
            fail_investigation, Go, TypeOK
      <3>. QED
        BY <1>0, <1>1, <2>6, <3>1, <3>2, <3>3, <3>4, PointMoves
    <2>7. ASSUME NEW s \in Connections, NEW t \in Connections, Accepted(s)', Accepted(t)',
                 op[s].candidate = op[t].candidate
          PROVE  s = t
      <3>1. CASE Accepted(s) /\ Accepted(t)
        BY <2>7, <3>1 DEF AcceptInv, OneTaskPerCandidate
      <3>2. CASE ~Accepted(s) /\ ~Accepted(t)
        BY <2>3, <2>7, <3>2
      <3>3. ASSUME NEW u \in Connections, NEW v \in Connections,
                   Accepted(u), ~Accepted(v), Accepted(v)', op[u].candidate = op[v].candidate
            PROVE  FALSE
        BY <2>1, <2>3, <3>3
      <3>. QED
        BY <2>7, <3>1, <3>2, <3>3
    <2>. QED
      BY <2>0, <2>4, <2>5, <2>6, <2>7 DEF AcceptInv, OneTaskPerCandidate
  <1>2. CASE Crash
    <2>1. /\ db' = db /\ op' = op /\ answer' = answer
          /\ \A r \in Connections : pc'[r] \notin TaskPoints /\ pc'[r] # "update"
      BY <1>2 DEF Crash, Recover, Stopped, TaskPoints
    <2>. QED
      BY <2>1 DEF AcceptInv, OneTaskPerCandidate, Accepted
  <1>3. CASE UNCHANGED vars
    BY <1>3 DEF vars, AcceptInv, OneTaskPerCandidate, Accepted
  <1>. QED
    BY <1>1, <1>2, <1>3, Steps

\* One commit hides or shows an investigation as a whole.
LEMMA HalfStep ==
    BaseInv /\ TxnInv /\ NothingHalfCommitted /\ [Next]_vars => NothingHalfCommitted'
  <1>. SUFFICES ASSUME BaseInv, TxnInv, NothingHalfCommitted, [Next]_vars
                PROVE  NothingHalfCommitted'
    OBVIOUS
  <1>0. TypeOK /\ db \in Contents /\ db' \in Contents
    BY BaseStep DEF BaseInv, TypeOK
  <1>1. ASSUME NEW r \in Connections, CommitRequest(r), RequestDoes(r, db, db')
        PROVE  NothingHalfCommitted'
    <2>1. op[r] \in OperationTypes
      BY <1>0 DEF TypeOK
    <2>2. /\ db'.steps = db.steps
          /\ \A c \in Candidates : db'.status[c] # "investigated" => db.status[c] # "investigated"
      BY <1>0, <1>1, <2>1 DEF RequestDoes, OperationTypes, Contents
    <2>3. /\ DOMAIN db'.findings = DOMAIN db.findings
          /\ \A i \in DOMAIN db.findings : db'.findings[i].cand = db.findings[i].cand
      <3>1. CASE op[r].kind = "dismiss"
        <4>1. db.findings \in Seq(Rows) /\ db'.findings = dismiss(db.findings, op[r].finding)
          BY <1>0, <1>1, <3>1 DEF RequestDoes, Contents
        <4>. QED
          BY <4>1 DEF dismiss, Rows
      <3>. QED
        BY <1>1, <3>1 DEF RequestDoes
    <2>. QED
      BY <2>2, <2>3 DEF NothingHalfCommitted
  <1>2. ASSUME NEW r \in Connections, TaskDoes(r, db, db'), op[r].candidate \in Candidates,
               db'.status = [db.status EXCEPT ![op[r].candidate] = "investigated"]
        PROVE  NothingHalfCommitted'
    <2>. SUFFICES ASSUME NEW c \in Candidates, db'.status[c] # "investigated"
                  PROVE  /\ db'.steps[c] = 0
                         /\ \A i \in DOMAIN db'.findings \ DOMAIN FirstFindings :
                               db'.findings[i].cand # c
      BY DEF NothingHalfCommitted
    <2>1. c # op[r].candidate /\ db.status[c] # "investigated"
      BY <1>0, <1>2 DEF Contents
    <2>2. db'.steps[c] = 0
      BY <1>2, <2>1 DEF TaskDoes, NothingHalfCommitted
    <2>. QED
      BY <1>2, <2>1, <2>2 DEF TaskDoes, NothingHalfCommitted
  <1>3. ASSUME NEW r \in Connections, CommitTask(r)
        PROVE  op[r].candidate \in Candidates
    BY <1>3, TaskWrites DEF CommitTask, Go, TaskPoints, BaseInv
  <1>4. CASE db' = db
    BY <1>4 DEF NothingHalfCommitted
  <1>5. CASE Crash \/ UNCHANGED vars
    BY <1>4, <1>5 DEF Crash, Recover, vars
  <1>. QED
    BY <1>1, <1>2, <1>3, <1>4, <1>5, Commits, Steps

LEMMA GateAlways == Spec => [](BaseInv /\ UniqueInv /\ AcceptInv /\ TxnInv /\ NothingHalfCommitted)
  <1>1. Init => AcceptInv /\ TxnInv /\ NothingHalfCommitted
    <2>. SUFFICES ASSUME Init PROVE AcceptInv /\ TxnInv /\ NothingHalfCommitted
      OBVIOUS
    <2>1. \A r \in Connections : pc[r] = "idle" /\ ~Writer(r) /\ ~Accepted(r)
      BY DEF Init, OpenFile, Writer, Accepted
    <2>2. \A c \in Candidates : db.steps[c] = 0
      BY DEF Init, OpenFile
    <2>3. db.findings = FirstFindings
      BY DEF Init, OpenFile
    <2>. QED
      BY <2>1, <2>2, <2>3
      DEF AcceptInv, OneTaskPerCandidate, TxnInv, Txn, NothingHalfCommitted, TaskPoints
  <1>2. BaseInv /\ HoldInv /\ CheckedInv /\ AcceptInv /\ TxnInv /\ NothingHalfCommitted /\ [Next]_vars
            => AcceptInv' /\ TxnInv' /\ NothingHalfCommitted'
    BY AcceptStep, TxnStep, HalfStep
  <1>. QED
    BY <1>1, <1>2, UniqueAlways, PTL DEF Spec

(***************************************************************************)
(* Of any number of requests for one candidate, investigate or discard,    *)
(* one at most is accepted: UPDATE ... WHERE status = 'pending' and its    *)
(* rowcount decide, not the check that was made before.                    *)
(***************************************************************************)
THEOREM AcceptedOnce == Spec => []OneTaskPerCandidate
  <1>1. AcceptInv => OneTaskPerCandidate
    BY DEF AcceptInv
  <1>. QED
    BY <1>1, GateAlways, PTL

(***************************************************************************)
(* The row of an accepted candidate says so from the answer on, whoever    *)
(* else reads, writes, times out or crashes.                               *)
(***************************************************************************)
THEOREM AcceptedStays == Spec => []AcceptedIsDurable
  <1>1. AcceptInv => AcceptedIsDurable
    BY DEF AcceptInv, AcceptedIsDurable
  <1>. QED
    BY <1>1, GateAlways, PTL

(***************************************************************************)
(* Trace rows and findings come to the file with the outcome of their      *)
(* candidate or not at all: nothing commits between the first trace row of *)
(* a task and the end of its session.                                      *)
(***************************************************************************)
THEOREM NothingHalf == Spec => []NothingHalfCommitted
  BY GateAlways, PTL

-----------------------------------------------------------------------------
(* The committed rows carry out CandidateGate.                             *)

LEMMA RequestDecides ==
    ASSUME BaseInv, NEW r \in Connections, RequestDoes(r, db, db')
    PROVE  Gate!Next
  <1>1. op[r] \in OperationTypes
    BY DEF BaseInv, TypeOK
  <1>2. CASE op[r].kind = "dismiss"
    <2>1. op[r].scope \in Scopes /\ op[r].finding \in DOMAIN db.findings
      BY <1>1, <1>2 DEF OperationTypes, RequestDoes
    <2>2. Gate!Dismiss(op[r].finding, op[r].scope)
      BY <1>2 DEF RequestDoes, Gate!Dismiss, Gate!dismiss, Gate!insert_feedback,
                  dismiss, insert_feedback
    <2>. QED
      BY <2>1, <2>2 DEF Gate!Next, Gate!Scopes, Scopes
  <1>3. CASE op[r].kind # "dismiss"
    <2>1. op[r].candidate \in Candidates
      BY <1>1, <1>3 DEF OperationTypes
    <2>2. Gate!Accept(op[r].candidate) \/ Gate!Discard(op[r].candidate)
      BY <1>3 DEF RequestDoes, Gate!Accept, Gate!Discard
    <2>. QED
      BY <2>1, <2>2 DEF Gate!Next
  <1>. QED
    BY <1>2, <1>3

LEMMA TaskConcludes ==
    ASSUME BaseInv, UniqueInv, AcceptInv, NEW r \in Connections, CommitTask(r),
           TaskDoes(r, db, db'), db' = work,
           db'.status = [db.status EXCEPT ![op[r].candidate] = "investigated"]
    PROVE  Gate!Next
  <1>1. op[r].candidate \in Candidates /\ db.status[op[r].candidate] = "investigating"
    BY TaskWrites DEF CommitTask, Go, TaskPoints, BaseInv, AcceptInv
  <1>2. OneOpenPerSignature(db'.findings)
    BY DEF CommitTask, Go, BaseInv, LockInv, UniqueInv
  <1>3. Gate!Conclude(op[r].candidate)
    BY <1>1, <1>2
    DEF TaskDoes, Gate!Conclude, Gate!OneOpenPerSignature, Gate!check_suppression,
        OneOpenPerSignature, check_suppression
  <1>. QED
    BY <1>1, <1>3 DEF Gate!Next

(***************************************************************************)
(* Requests, tasks, timeouts and crashes in any order leave the rows of    *)
(* some order in which every request, and every investigation as a whole,  *)
(* was carried out alone.                                                  *)
(***************************************************************************)
THEOREM GateImplemented == Spec => DecidesOneAtATime
  <1>1. Init => Gate!Init
    BY DEF Init, OpenFile, Gate!Init
  <1>2. BaseInv /\ UniqueInv /\ AcceptInv /\ TxnInv /\ [Next]_vars => [Gate!Next]_(Gate!vars)
    <2>. SUFFICES ASSUME BaseInv, UniqueInv, AcceptInv, TxnInv, [Next]_vars
                  PROVE  Gate!Next \/ db' = db
      BY DEF Gate!vars
    <2>1. CASE \E r \in Connections : Step(r)
      BY <2>1, Commits, RequestDecides, TaskConcludes
    <2>2. CASE Crash \/ UNCHANGED vars
      BY <2>2 DEF Crash, Recover, vars
    <2>. QED
      BY <2>1, <2>2, Steps
  <1>. QED
    BY <1>1, <1>2, GateAlways, PTL DEF Spec, DecidesOneAtATime, Gate!Spec

=============================================================================
