----------------------------- MODULE AnalysisRun -----------------------------
(***************************************************************************)
(* Stage 1: a request for an analysis of one scope                         *)
(* (routes_analysis.trigger_run, analysis_service.trigger), refused when   *)
(* nothing is new, and the background scan of an accepted one              *)
(* (runner.execute_run, stage1.run_stage1), each statement of which may    *)
(* interleave with ingestions, dismissals, investigations and other runs.  *)
(*                                                                         *)
(* Every SELECT outside a write transaction reads what is committed then;  *)
(* the scan writes nothing before its candidates, so all it knows may be   *)
(* out of date when it writes.                                             *)
(***************************************************************************)
EXTENDS SQLite, Findings, FiniteSetsExt

CONSTANTS
    Clusters,
    Times,          \* event times, in the unit of Window
    Window,         \* WINDOW_HOURS
    PriorFiles,     \* the tables of files already ingested that it may start from
    FirstFindings,  \* the findings already stored
    Operations,     \* what the connections may do
    Replies,        \* the answers the model may give to the one call of a scan
    MaxCrashes      \* bound: process restarts

(***************************************************************************)
(* An ingested file: the times of the events it has added, all of one      *)
(* cluster, and its place among the ingestions (ingested_at).  The place   *)
(* is 0 while its last ingestion added nothing, or failed.                 *)
(***************************************************************************)
Files == [cluster : Clusters, times : SUBSET Times, pulled : Nat]

OperationTypes ==
    [kind : {"analyze"}, mode : {"recent_pull", "last_24h"}, cluster : Clusters]
       \cup [kind : {"analyze"}, mode : {"file"}, file : Nat \ {0}]
       \cup [kind : {"ingest"}, cluster : Clusters, times : SUBSET Times]
       \cup [kind : {"ingest_again"}, file : Nat \ {0}, times : SUBSET Times]
       \cup [kind : {"dismiss"}, finding : Nat \ {0}, scope : Scopes]
       \cup [kind : {"investigate"}, sig : Signatures]

(***************************************************************************)
(* One entry of a reply.  "unresolved" cites only refs that are not in the *)
(* corpus; "bad_row" has the wrong type where the table wants a value.     *)
(***************************************************************************)
Proposals == [sig : Signatures, kind : {"valid", "unresolved", "bad_row"}]

\* There is a last timestamp: a year has four digits.
ASSUME TimesAssumption ==
    /\ Times \subseteq Nat /\ \E last \in Times : \A t \in Times : t <= last
    /\ Window \in Nat
ASSUME FilesAssumption ==
    \A files \in PriorFiles :
        /\ files \in Seq(Files)
        /\ \A i \in DOMAIN files : files[i].pulled # 0 => files[i].times # {}
ASSUME OperationsAssumption == Operations \subseteq OperationTypes
ASSUME RepliesAssumption == Replies \subseteq Seq(Proposals)
ASSUME BoundsAssumption == MaxCrashes \in Nat

\* No file_id (0), no window (since 0): event_time is never negative.
Scope == [mode : {"recent_pull", "last_24h", "file"}, cluster : Clusters,
          file : Nat, since : Nat]

Rows == [sig : Signatures, status : FindingStatus, cand : {"earlier"}, rev : {0}]

ASSUME FindingsAssumption == FirstFindings \in Seq(Rows)

VARIABLES
    pc,         \* where each connection is
    op,         \* what it does
    answer,     \* what its client was told
    req,        \* what a trigger has read: scope, the events counted, last_run
    job,        \* what a scan has read, spent and prepared
    clock,      \* the timestamps given out so far
    crashes

vars == <<db, work, tx, pc, op, answer, req, job, clock, crashes>>

NoOperation == [kind |-> "none"]
NoRequest == [scope |-> [mode |-> "none"], counted |-> {}, last |-> 0]

(***************************************************************************)
(* run: its id; corpus: the events it was given; told: the dismissals it   *)
(* was shown; reply: proposals not filtered yet; rows: candidates to       *)
(* insert; total, stamp: events_considered and completed_at; billed: what  *)
(* the provider charged; said: what sort of answer that was for; carried:  *)
(* whether the exception in flight has the usage with it (Stage1Error).    *)
(***************************************************************************)
NoJob == [run |-> 0, corpus |-> {}, told |-> {}, reply |-> <<>>, rows |-> <<>>,
          total |-> 0, stamp |-> 0, billed |-> 0, said |-> "none", carried |-> FALSE]

Init ==
    /\ \E files \in PriorFiles :
          OpenFile([files      |-> files,
                    runs       |-> <<>>,
                    candidates |-> <<>>,
                    findings   |-> FirstFindings,
                    feedback   |-> {},
                    dismissed  |-> 0])
    /\ pc = [r \in Connections |-> "idle"]
    /\ op = [r \in Connections |-> NoOperation]
    /\ answer = [r \in Connections |-> "none"]
    /\ req = [r \in Connections |-> NoRequest]
    /\ job = [r \in Connections |-> NoJob]
    /\ clock = 0
    /\ crashes = 0

Go(r, from, to) == pc[r] = from /\ pc' = [pc EXCEPT ![r] = to]

Note(r, task) == job' = [job EXCEPT ![r] = task]

Arrive(r, o) ==
    /\ Go(r, "idle", o.kind)
    /\ op' = [op EXCEPT ![r] = o]
    /\ UNCHANGED <<fileVars, answer, req, job, clock, crashes>>

-----------------------------------------------------------------------------
(* Scopes.                                                                 *)

AnyEvents(contents) == \E i \in DOMAIN contents.files : contents.files[i].times # {}

\* The ids of the files that put events of a cluster into the table.
Pulls(contents, cluster) ==
    {i \in DOMAIN contents.files :
        contents.files[i].cluster = cluster /\ contents.files[i].times # {}}

TimesOf(contents, cluster) ==
    UNION {contents.files[i].times : i \in Pulls(contents, cluster)}

\* Processed, and with events at its last ingestion.
Processed(contents, cluster) ==
    {i \in Pulls(contents, cluster) : contents.files[i].pulled # 0}

get_most_recent_ingested(contents, cluster) ==
    CHOOSE i \in Processed(contents, cluster) :
        \A j \in Processed(contents, cluster) :
            contents.files[j].pulled <= contents.files[i].pulled

Resolvable(contents, o) ==
    \/ o.mode = "file" /\ o.file \in DOMAIN contents.files
    \/ o.mode = "recent_pull" /\ Processed(contents, o.cluster) # {}
    \/ o.mode = "last_24h" /\ Pulls(contents, o.cluster) # {}

\* The start of the window moves with the newest event of the cluster.
Since(contents, cluster) ==
    LET latest == Max(TimesOf(contents, cluster)) IN
    IF latest >= Window THEN latest - Window ELSE 0

resolve_scope(contents, o) ==
    CASE o.mode = "file" ->
            [mode |-> "file", cluster |-> contents.files[o.file].cluster,
             file |-> o.file, since |-> 0]
      [] o.mode = "recent_pull" ->
            [mode |-> "recent_pull", cluster |-> o.cluster,
             file |-> get_most_recent_ingested(contents, o.cluster), since |-> 0]
      [] o.mode = "last_24h" ->
            [mode |-> "last_24h", cluster |-> o.cluster,
             file |-> 0, since |-> Since(contents, o.cluster)]

\* The rows of `events` that _scope_clause selects.
EventsIn(contents, scope) ==
    UNION {{[file |-> i, time |-> t] : t \in {u \in contents.files[i].times : u >= scope.since}} :
              i \in {j \in Pulls(contents, scope.cluster) : scope.file \in {0, j}}}

-----------------------------------------------------------------------------
(* The request.                                                            *)

requestVars == <<op, answer, job, clock, crashes>>

EndRequest(r, code) ==
    /\ Rollback(r)
    /\ pc' = [pc EXCEPT ![r] = "closed"]
    /\ answer' = [answer EXCEPT ![r] = code]
    /\ UNCHANGED <<op, req, job, clock, crashes>>

FindAnyEvents(r) ==
    /\ Go(r, "analyze", "resolve")
    /\ Read(r)
    /\ AnyEvents(View(r))
    /\ UNCHANGED <<req, requestVars>>

\* NoNewDataError.
RefuseNoEvents(r) ==
    /\ pc[r] = "analyze"
    /\ MayRead(r)
    /\ ~AnyEvents(View(r))
    /\ EndRequest(r, "409")

ResolveScope(r) ==
    /\ Go(r, "resolve", "count")
    /\ Read(r)
    /\ Resolvable(View(r), op[r])
    /\ req' = [req EXCEPT ![r].scope = resolve_scope(View(r), op[r])]
    /\ UNCHANGED requestVars

\* InvalidScopeError.
RefuseScope(r) ==
    /\ pc[r] = "resolve"
    /\ MayRead(r)
    /\ ~Resolvable(View(r), op[r])
    /\ EndRequest(r, "400")

CountEvents(r) ==
    /\ Go(r, "count", "compare")
    /\ Read(r)
    /\ EventsIn(View(r), req[r].scope) # {}
    /\ req' = [req EXCEPT ![r].counted = EventsIn(View(r), req[r].scope)]
    /\ UNCHANGED requestVars

RefuseEmptyScope(r) ==
    /\ pc[r] = "count"
    /\ MayRead(r)
    /\ EventsIn(View(r), req[r].scope) = {}
    /\ EndRequest(r, "400")

\* Variants named Faulty... are plausible mistakes in the definition that
\* follows; the README says which property rejects which.
FaultySameScope(a, b) == a.mode = b.mode /\ a.cluster = b.cluster

\* The key of a scope: the window's start is not part of it.
SameScope(a, b) == a.mode = b.mode /\ a.cluster = b.cluster /\ a.file = b.file

CompletedRuns(contents, scope) ==
    {i \in DOMAIN contents.runs :
        contents.runs[i].status = "completed" /\ SameScope(contents.runs[i].scope, scope)}

get_last_completed_run_for_scope(contents, scope) ==
    IF CompletedRuns(contents, scope) = {} THEN 0 ELSE Max(CompletedRuns(contents, scope))

CompareLastRun(r) ==
    LET last == get_last_completed_run_for_scope(View(r), req[r].scope)
        same == last # 0 /\ View(r).runs[last].considered = Cardinality(req[r].counted)
    IN  /\ Go(r, "compare", IF same THEN "feedback" ELSE "insert_run")
        /\ Read(r)
        /\ req' = [req EXCEPT ![r].last = last]
        /\ UNCHANGED requestVars

has_feedback_since(contents, stamp) == contents.dismissed > stamp

FindFeedback(r) ==
    /\ Go(r, "feedback", "insert_run")
    /\ Read(r)
    /\ has_feedback_since(View(r), View(r).runs[req[r].last].completed)
    /\ UNCHANGED <<req, requestVars>>

\* NoNewDataError.
RefuseRun(r) ==
    /\ pc[r] = "feedback"
    /\ MayRead(r)
    /\ ~has_feedback_since(View(r), View(r).runs[req[r].last].completed)
    /\ EndRequest(r, "409")

start_run(r) ==
    /\ Go(r, "insert_run", "commit_run")
    /\ Write(r, [View(r) EXCEPT !.runs =
          Append(@, [status |-> "running", scope |-> req[r].scope,
                     considered |-> 0, completed |-> 0, cost |-> 0])])
    /\ Note(r, [job[r] EXCEPT !.run = Len(View(r).runs) + 1])
    /\ UNCHANGED <<op, answer, req, clock, crashes>>

\* An investigation keeps the write lock while its model thinks.
Slow == {r \in Connections : pc[r] = "holding"}

RequestTimesOut(r) ==
    /\ pc[r] = "insert_run"
    /\ LockedOut(r, Slow)
    /\ EndRequest(r, "500")

CommitRun(r) ==
    /\ Go(r, "commit_run", "scheduled")
    /\ Commit(r)
    /\ answer' = [answer EXCEPT ![r] = "200"]
    /\ UNCHANGED <<op, req, job, clock, crashes>>

-----------------------------------------------------------------------------
(* The scan.                                                               *)

taskVars == <<op, answer, req, crashes>>

\* get_scope_for_run and build_compact_corpus.
ReadCorpus(r) ==
    /\ Go(r, "scheduled", "dismissals")
    /\ Read(r)
    /\ Note(r, [job[r] EXCEPT
          !.corpus = EventsIn(View(r), View(r).runs[job[r].run].scope)])
    /\ UNCHANGED <<taskVars, clock>>

ReadDismissals(r) ==
    /\ Go(r, "dismissals", "call")
    /\ Read(r)
    /\ Note(r, [job[r] EXCEPT !.told = View(r).feedback])
    /\ UNCHANGED <<taskVars, clock>>

\* The one model call is billed, whatever it answers: a list of candidates ...
CallModel(r, reply) ==
    /\ Go(r, "call", "filter")
    /\ Note(r, [job[r] EXCEPT !.billed = 1, !.said = "list", !.reply = reply])
    /\ UNCHANGED <<fileVars, taskVars, clock>>

\* ... what is refused, truncated, no text, no JSON or no such list, of which
\* a Stage1Error is made ...
CallModelUnusable(r) ==
    /\ Go(r, "call", "fail")
    /\ Note(r, [job[r] EXCEPT !.billed = 1, !.said = "unusable", !.carried = TRUE])
    /\ UNCHANGED <<fileVars, taskVars, clock>>

\* ... or JSON that is no object: data.get is outside both try statements.
CallModelNotAnObject(r) ==
    /\ Go(r, "call", "fail")
    /\ Note(r, [job[r] EXCEPT !.billed = 1, !.said = "not_an_object"])
    /\ UNCHANGED <<fileVars, taskVars, clock>>

\* The request never completed, or something failed before it was sent.
RaiseUnbilled(r) ==
    /\ pc[r] \in {"scheduled", "dismissals", "call"}
    /\ pc' = [pc EXCEPT ![r] = "fail"]
    /\ UNCHANGED <<fileVars, taskVars, job, clock>>

Candidate(r, status) ==
    [run |-> job[r].run, sig |-> Head(job[r].reply).sig,
     kind |-> Head(job[r].reply).kind, status |-> status]

Filtered(r, status) ==
    [job[r] EXCEPT !.reply = Tail(@), !.rows = Append(@, Candidate(r, status))]

SkipUnresolved(r) ==
    /\ pc[r] = "filter"
    /\ job[r].reply # <<>>
    /\ Head(job[r].reply).kind = "unresolved"
    /\ Note(r, [job[r] EXCEPT !.reply = Tail(@)])
    /\ UNCHANGED <<fileVars, taskVars, pc, clock>>

\* is_suppressed ...
CheckSuppressed(r) ==
    /\ pc[r] = "filter"
    /\ job[r].reply # <<>>
    /\ Head(job[r].reply).kind # "unresolved"
    /\ Read(r)
    /\ IF check_suppression(View(r).feedback, Head(job[r].reply).sig)
       THEN Note(r, Filtered(r, "auto_suppressed")) /\ UNCHANGED pc
       ELSE pc' = [pc EXCEPT ![r] = "filter_open"] /\ UNCHANGED job
    /\ UNCHANGED <<taskVars, clock>>

FaultyPrefilter(contents, sig) ==
    IF find_open_by_signature(contents.findings, sig) THEN "suppressed" ELSE "pending"

\* ... or find_open_by_signature, a SELECT of its own.
Prefilter(contents, sig) ==
    IF find_open_by_signature(contents.findings, sig) THEN "auto_suppressed" ELSE "pending"

CheckOpen(r) ==
    /\ Go(r, "filter_open", "filter")
    /\ Read(r)
    /\ Note(r, Filtered(r, Prefilter(View(r), Head(job[r].reply).sig)))
    /\ UNCHANGED <<taskVars, clock>>

\* (a commit after every candidate)
FaultyInsertCandidate(r) ==
    /\ pc[r] = "filter"
    /\ job[r].reply = <<>>
    /\ job[r].rows # <<>>
    /\ Head(job[r].rows).kind = "valid"
    /\ MayWrite(r)
    /\ db' = [View(r) EXCEPT !.candidates = Append(@, Head(job[r].rows))]
    /\ work' = db'
    /\ UNCHANGED tx
    /\ Note(r, [job[r] EXCEPT !.rows = Tail(@)])
    /\ UNCHANGED <<taskVars, pc, clock>>

\* One INSERT per candidate, in order; the first one takes the write lock.
InsertCandidate(r) ==
    /\ pc[r] = "filter"
    /\ job[r].reply = <<>>
    /\ job[r].rows # <<>>
    /\ Head(job[r].rows).kind = "valid"
    /\ Write(r, [View(r) EXCEPT !.candidates = Append(@, Head(job[r].rows))])
    /\ Note(r, [job[r] EXCEPT !.rows = Tail(@)])
    /\ UNCHANGED <<taskVars, pc, clock>>

\* NOT NULL fails; the candidates before it stay in the transaction.
InsertRaises(r) ==
    /\ Go(r, "filter", "fail")
    /\ job[r].reply = <<>>
    /\ job[r].rows # <<>>
    /\ Head(job[r].rows).kind = "bad_row"
    /\ Write(r, View(r))
    /\ UNCHANGED <<taskVars, job, clock>>

\* get_scope_summary_stats, and the timestamp complete_run is about to write.
ReadStats(r) ==
    /\ Go(r, "filter", "complete")
    /\ job[r].reply = <<>>
    /\ job[r].rows = <<>>
    /\ Read(r)
    /\ Note(r, [job[r] EXCEPT
          !.total = Cardinality(EventsIn(View(r), View(r).runs[job[r].run].scope)),
          !.stamp = clock + 1])
    /\ clock' = clock + 1
    /\ UNCHANGED taskVars

complete_run(r) ==
    /\ Go(r, "complete", "finish")
    /\ Write(r, [View(r) EXCEPT !.runs[job[r].run] =
          [@ EXCEPT !.status = "completed", !.considered = job[r].total,
                    !.completed = job[r].stamp, !.cost = job[r].billed]])
    /\ UNCHANGED <<taskVars, job, clock>>

\* "database is locked" is not a Stage1Error.
WriteInScanRefused(r) ==
    /\ \/ pc[r] = "filter" /\ job[r].reply = <<>> /\ job[r].rows # <<>>
       \/ pc[r] = "complete"
    /\ pc' = [pc EXCEPT ![r] = "fail"]
    /\ WriteRefused(r, Slow)
    /\ UNCHANGED <<taskVars, job, clock>>

\* (exc.usage dropped)
FaultyFailRun(r) ==
    /\ Go(r, "fail", "finish")
    /\ Write(r, [View(r) EXCEPT !.runs[job[r].run] = [@ EXCEPT !.status = "failed"]])
    /\ UNCHANGED <<taskVars, job, clock>>

\* Its own completed_at is never compared with anything.
fail_run(r) ==
    /\ Go(r, "fail", "finish")
    /\ Write(r, [View(r) EXCEPT !.runs[job[r].run] =
          [@ EXCEPT !.status = "failed",
                    !.cost = IF job[r].carried THEN job[r].billed ELSE 0]])
    /\ UNCHANGED <<taskVars, job, clock>>

FailingFails(r) ==
    /\ Go(r, "fail", "closed")
    /\ LockedOut(r, Slow)
    /\ Rollback(r)
    /\ UNCHANGED <<taskVars, job, clock>>

CommitScan(r) ==
    /\ Go(r, "finish", "closed")
    /\ Commit(r)
    /\ UNCHANGED <<taskVars, job, clock>>

-----------------------------------------------------------------------------
(* What happens meanwhile, one transaction each: CandidatePipeline has the *)
(* whole of a dismissal and of an investigation.                           *)

\* What mark_status makes of a file whose ingestion kept the events of `kept`.
PulledNow(contents, kept) ==
    IF kept = {} THEN 0
    ELSE 1 + Max({0} \cup {contents.files[i].pulled : i \in DOMAIN contents.files})

\* The file row and its events are one transaction.
Ingest(r) ==
    /\ Go(r, "ingest", "commit")
    /\ Write(r, [View(r) EXCEPT !.files =
          Append(@, [cluster |-> op[r].cluster, times |-> op[r].times,
                     pulled |-> PulledNow(View(r), op[r].times)])])
    /\ UNCHANGED <<taskVars, job, clock>>

(***************************************************************************)
(* A request that listed the file as pending before another one ingested   *)
(* it: what the file holds by now is added to its events, less those that  *)
(* are stored.  No times stand for a second ingestion that fails, too.     *)
(***************************************************************************)
IngestAgain(r) ==
    /\ Go(r, "ingest_again", "commit")
    /\ op[r].file \in DOMAIN View(r).files
    /\ LET file == View(r).files[op[r].file]
           kept == op[r].times \ file.times
       IN  Write(r, [View(r) EXCEPT !.files[op[r].file] =
              [cluster |-> file.cluster, times |-> file.times \cup kept,
               pulled |-> PulledNow(View(r), kept)]])
    /\ UNCHANGED <<taskVars, job, clock>>

\* created_at is taken before the INSERT waits for its turn.
StampDismissal(r) ==
    /\ Go(r, "dismiss", "dismiss_write")
    /\ op[r].finding \in DOMAIN View(r).findings
    /\ View(r).findings[op[r].finding].status # "no_issue"
    /\ Read(r)
    /\ clock' = clock + 1
    /\ Note(r, [job[r] EXCEPT !.stamp = clock + 1])
    /\ UNCHANGED taskVars

\* (without the feedback row)
FaultyDismiss(r) ==
    /\ Go(r, "dismiss_write", "commit")
    /\ Write(r, [View(r) EXCEPT !.findings = dismiss(@, op[r].finding)])
    /\ UNCHANGED <<taskVars, job, clock>>

Dismiss(r) ==
    /\ Go(r, "dismiss_write", "commit")
    /\ LET row == View(r).findings[op[r].finding] IN
       Write(r, [View(r) EXCEPT
          !.feedback = insert_feedback(@, row.sig, op[r].scope),
          !.dismissed = IF job[r].stamp > @ THEN job[r].stamp ELSE @,
          !.findings = dismiss(@, op[r].finding)])
    /\ UNCHANGED <<taskVars, job, clock>>

\* An investigation has traced its first call and may find something.
Hold(r) ==
    /\ Go(r, "investigate", "holding")
    /\ Write(r, View(r))
    /\ UNCHANGED <<taskVars, job, clock>>

StoreFinding(r) ==
    /\ Go(r, "holding", "commit")
    /\ Write(r, IF Blocked(View(r).findings, View(r).feedback, op[r].sig) THEN View(r)
                ELSE [View(r) EXCEPT !.findings =
                        insert_finding(@, op[r].sig, "open", "earlier", 0)])
    /\ UNCHANGED <<taskVars, job, clock>>

CommitOther(r) ==
    /\ Go(r, "commit", "closed")
    /\ Commit(r)
    /\ UNCHANGED <<taskVars, job, clock>>

Crash ==
    /\ crashes < MaxCrashes
    /\ crashes' = crashes + 1
    /\ pc' = [r \in Connections |-> IF pc[r] \in {"idle", "closed"} THEN pc[r] ELSE "killed"]
    /\ Recover
    /\ UNCHANGED <<op, answer, req, job, clock>>

RequestStep(r) ==
    \/ FindAnyEvents(r)
    \/ RefuseNoEvents(r)
    \/ ResolveScope(r)
    \/ RefuseScope(r)
    \/ CountEvents(r)
    \/ RefuseEmptyScope(r)
    \/ CompareLastRun(r)
    \/ FindFeedback(r)
    \/ RefuseRun(r)
    \/ start_run(r)
    \/ RequestTimesOut(r)
    \/ CommitRun(r)

ScanStep(r) ==
    \/ ReadCorpus(r)
    \/ ReadDismissals(r)
    \/ \E reply \in Replies : CallModel(r, reply)
    \/ CallModelUnusable(r)
    \/ CallModelNotAnObject(r)
    \/ RaiseUnbilled(r)
    \/ SkipUnresolved(r)
    \/ CheckSuppressed(r)
    \/ CheckOpen(r)
    \/ InsertCandidate(r)
    \/ InsertRaises(r)
    \/ ReadStats(r)
    \/ complete_run(r)
    \/ WriteInScanRefused(r)
    \/ fail_run(r)
    \/ FailingFails(r)
    \/ CommitScan(r)

OtherStep(r) ==
    \/ Ingest(r)
    \/ IngestAgain(r)
    \/ StampDismissal(r)
    \/ Dismiss(r)
    \/ Hold(r)
    \/ StoreFinding(r)
    \/ CommitOther(r)

Next ==
    \/ \E r \in Connections, o \in Operations : Arrive(r, o)
    \/ \E r \in Connections : RequestStep(r)
    \/ \E r \in Connections : ScanStep(r)
    \/ \E r \in Connections : OtherStep(r)
    \/ Crash

Spec == Init /\ [][Next]_vars

-----------------------------------------------------------------------------
(* Properties.                                                             *)

Candidates == [run : Nat \ {0}, sig : Signatures, kind : {"valid", "bad_row"},
               status : {"pending", "auto_suppressed"}]

Runs == [status : {"running", "completed", "failed"}, scope : Scope,
         considered : Nat, completed : Nat, cost : Nat]

Events == [file : Nat \ {0}, time : Times]

Contents == [files : Seq(Files), runs : Seq(Runs), candidates : Seq(Candidates),
             findings : Seq(Rows), feedback : SUBSET FeedbackRows, dismissed : Nat]

Jobs == [run : Nat, corpus : SUBSET Events, told : SUBSET FeedbackRows,
         reply : Seq(Proposals), rows : Seq(Candidates), total : Nat, stamp : Nat,
         billed : Nat, said : {"none", "list", "unusable", "not_an_object"},
         carried : BOOLEAN]

RequestPoints == {"analyze", "resolve", "count", "compare", "feedback", "insert_run",
                  "commit_run"}
ScanPoints == {"scheduled", "dismissals", "call", "filter", "filter_open", "complete",
               "fail", "finish"}
OtherPoints == {"ingest", "ingest_again", "dismiss", "dismiss_write", "investigate",
                "holding", "commit"}

TypeOK ==
    /\ db \in Contents
    /\ work \in Contents
    /\ tx \in [Connections -> TxStates]
    /\ pc \in [Connections ->
          RequestPoints \cup ScanPoints \cup OtherPoints \cup {"idle", "closed", "killed"}]
    /\ op \in [Connections -> OperationTypes \cup {NoOperation}]
    /\ answer \in [Connections -> {"none", "200", "400", "409", "500"}]
    /\ req \in [Connections ->
          [scope : Scope \cup {NoRequest.scope}, counted : SUBSET Events, last : Nat]]
    /\ job \in [Connections -> Jobs]
    /\ clock \in Nat
    /\ crashes \in Nat

\* A request that was told "nothing new" after comparing with an earlier run.
Refused(r) == op[r].kind = "analyze" /\ answer[r] = "409" /\ req[r].last # 0

Accepted(r) == op[r].kind = "analyze" /\ answer[r] = "200"

\* The connection whose scan the refusal of r relies on.
ReliesOn(r, s) == Accepted(s) /\ job[s].run = req[r].last

\* The file of its scope grew while the scan ran, and the recount shows it.
Outgrown(s) == job[s].total # Cardinality(job[s].corpus)

(***************************************************************************)
(* A refusal over one file ("file" and "recent_pull") is right: the scan   *)
(* it relies on was given every event the request counted, although all    *)
(* that trigger compares is two numbers taken at different times.  The one *)
(* exception is a scan that a second ingestion of its file overtook: it    *)
(* counted more than it was given, and what is refused for that is refused *)
(* wrongly.                                                                *)
(***************************************************************************)
FileRefusalsRight ==
    \A r, s \in Connections :
        /\ Refused(r) /\ ReliesOn(r, s)
        /\ req[r].scope.file # 0
        /\ ~Outgrown(s)
        => req[r].counted \subseteq job[s].corpus

(***************************************************************************)
(* A candidate kept from the user was known and stays known: the pre-      *)
(* filter looked at rows that others were changing, and still what it      *)
(* suppressed is covered by an open finding or by a dismissal for ever.    *)
(***************************************************************************)
AutoSuppressedStaysKnown ==
    \A i \in DOMAIN db.candidates : db.candidates[i].status = "auto_suppressed" =>
        Blocked(db.findings, db.feedback, db.candidates[i].sig)

(***************************************************************************)
(* No candidate is offered for investigation before the run that found it  *)
(* has an outcome, whatever stops the scan and whenever.                   *)
(***************************************************************************)
CandidatesComeWithTheirRun ==
    \A i \in DOMAIN db.candidates :
        db.runs[db.candidates[i].run].status \in {"completed", "failed"}

Ended(r) == Accepted(r) /\ db.runs[job[r].run].status \in {"completed", "failed"}

(***************************************************************************)
(* Of the runs that ended, one that does not show what it was billed       *)
(* failed, and not for an answer that was refused, cut short or malformed: *)
(* the answer was no object, or it was used up and storing what came of it *)
(* failed.  Stage1Error carries the usage of all the rest to fail_run.     *)
(***************************************************************************)
FreeRunsAreExplained ==
    \A r \in Connections :
        Ended(r) /\ db.runs[job[r].run].cost # job[r].billed =>
            /\ db.runs[job[r].run].status = "failed"
            /\ \/ job[r].said = "not_an_object"
               \/ job[r].said = "list" /\ job[r].reply = <<>>

(***************************************************************************)
(* What the documentation says and the code does not do.                   *)
(***************************************************************************)

\* A run that failed over storing its candidates is not shown as free.
BilledRunShowsItsCost ==
    \A r \in Connections :
        Ended(r) /\ job[r].said = "list" => db.runs[job[r].run].cost = job[r].billed

\* What is refused as analysed was analysed, over a sliding window too.
WindowRefusalsRight ==
    \A r, s \in Connections :
        Refused(r) /\ ReliesOn(r, s) /\ req[r].scope.mode = "last_24h" =>
            req[r].counted \subseteq job[s].corpus

\* A refusal leaves no dismissal unconsidered: the scan it relies on knew it.
RefusedWithoutNewFeedback ==
    [][\A r, s \in Connections :
          pc[r] = "feedback" /\ answer'[r] = "409" /\ ReliesOn(r, s) =>
              db.feedback \subseteq job[s].told]_vars

=============================================================================
