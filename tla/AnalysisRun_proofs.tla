--------------------------- MODULE AnalysisRun_proofs ---------------------------
(***************************************************************************)
(* Theorems about AnalysisRun, for any number of connections, files,       *)
(* operations, replies and restarts.                                       *)
(***************************************************************************)
EXTENDS AnalysisRun, Tables_proofs, FiniteSetTheorems, WellFoundedInduction, TLAPS

-----------------------------------------------------------------------------
(* Numbers and sets.                                                       *)

\* A set of naturals has a least element.
LEMMA LeastNat ==
    ASSUME NEW S \in SUBSET Nat, S # {}
    PROVE  \E x \in S : \A y \in S : x <= y
  <1>1. PICK x \in S : \A y \in S : ~(<<y, x>> \in OpToRel(<, Nat))
    BY NatLessThanWellFounded, WFMin
  <1>2. \A y \in S : ~(y < x)
    BY <1>1 DEF OpToRel
  <1>. QED
    BY <1>2

\* And a greatest one, if it is bounded: the least of its bounds.
LEMMA MaxIsMember ==
    ASSUME NEW S \in SUBSET Nat, S # {}, NEW n \in Nat, \A x \in S : x <= n
    PROVE  Max(S) \in S /\ \A y \in S : y <= Max(S)
  <1>. DEFINE Bounds == {m \in Nat : \A x \in S : x <= m}
  <1>1. PICK m \in Bounds : \A y \in Bounds : m <= y
    BY LeastNat
  <1>2. m \in S
    <2>. SUFFICES ASSUME m \notin S PROVE FALSE
      OBVIOUS
    <2>1. \A x \in S : x < m
      OBVIOUS
    <2>2. PICK x \in S : TRUE
      OBVIOUS
    <2>3. m - 1 \in Nat
      BY <2>1, <2>2
    <2>4. m - 1 \in Bounds
      BY <2>1, <2>3
    <2>. QED
      BY <1>1, <2>3, <2>4
  <1>. QED
    BY <1>1, <1>2 DEF Max

\* A finite list of numbers has a bound: no prefix of it is the least one without.
LEMMA ListBounded ==
    ASSUME NEW len \in Nat, NEW f \in [1..len -> Nat]
    PROVE  \E n \in Nat : \A i \in 1..len : f[i] <= n
  <1>. DEFINE Bounded(k) == \E n \in Nat : \A i \in 1..k : f[i] <= n
              Bad == {k \in 0..len : ~Bounded(k)}
  <1>1. ASSUME Bad # {}
        PROVE  FALSE
    <2>0. Bad \in SUBSET Nat
      OBVIOUS
    <2>1. PICK k \in Bad : \A other \in Bad : k <= other
      <3>. HIDE DEF Bad
      <3>. QED
        BY <1>1, <2>0, LeastNat
    <2>2. k # 0
      <3>1. \A i \in 1..0 : f[i] <= 0
        OBVIOUS
      <3>. QED
        BY <3>1, <2>1
    <2>3. k \in Nat \ {0} /\ k <= len /\ ~Bounded(k)
      BY <2>1, <2>2
    <2>4. Bounded(k - 1)
      <3>1. k - 1 \in 0..len /\ ~(k <= k - 1)
        BY <2>3
      <3>. HIDE DEF Bounded
      <3>. QED
        BY <2>1, <3>1
    <2>5. PICK n \in Nat : \A i \in 1..(k - 1) : f[i] <= n
      BY <2>4
    <2>6. f[k] \in Nat /\ \A i \in 1..k : f[i] \in Nat
      BY <2>3
    <2>7. PICK m \in Nat : n <= m /\ f[k] <= m
      <3>1. n <= f[k] \/ f[k] <= n
        BY <2>6
      <3>. QED
        BY <2>6, <3>1
    <2>8. \A i \in 1..k : i = k \/ i \in 1..(k - 1)
      BY <2>3
    <2>9. \A i \in 1..k : f[i] <= m
      BY <2>5, <2>6, <2>7, <2>8
    <2>. QED
      BY <2>3, <2>9
  <1>2. len \notin Bad
    BY <1>1
  <1>. QED
    BY <1>2

\* So have the places of the files in a table.
LEMMA PlacesBounded ==
    ASSUME NEW files \in Seq(Files)
    PROVE  \E n \in Nat : \A i \in DOMAIN files : files[i].pulled <= n
  <1>. DEFINE place == [i \in 1..Len(files) |-> files[i].pulled]
  <1>1. /\ Len(files) \in Nat /\ DOMAIN files = 1..Len(files)
        /\ \A i \in 1..Len(files) : files[i] \in Files
    OBVIOUS
  <1>2. place \in [1..Len(files) -> Nat]
    BY <1>1 DEF Files
  <1>3. PICK n \in Nat : \A i \in 1..Len(files) : place[i] <= n
    <2>. HIDE DEF place
    <2>. QED
      BY <1>1, <1>2, ListBounded
  <1>. QED
    BY <1>1, <1>3

-----------------------------------------------------------------------------
(* Scopes.                                                                 *)

LEMMA PullsType ==
    ASSUME NEW contents \in Contents, NEW cluster
    PROVE  /\ Pulls(contents, cluster) \subseteq DOMAIN contents.files
           /\ Pulls(contents, cluster) \subseteq Nat \ {0}
           /\ TimesOf(contents, cluster) \subseteq Times
           /\ Pulls(contents, cluster) # {} => Max(TimesOf(contents, cluster)) \in Times
  <1>1. contents.files \in Seq(Files)
    BY DEF Contents
  <1>2. /\ Pulls(contents, cluster) \subseteq DOMAIN contents.files
        /\ Pulls(contents, cluster) \subseteq 1..Len(contents.files)
        /\ \A i \in Pulls(contents, cluster) :
              contents.files[i].times # {} /\ contents.files[i].times \subseteq Times
    <2>1. \A i \in DOMAIN contents.files : contents.files[i] \in Files /\ i \in 1..Len(contents.files)
      BY <1>1
    <2>. QED
      BY <2>1 DEF Pulls, Files
  <1>3. TimesOf(contents, cluster) \subseteq Times
    BY <1>2 DEF TimesOf
  <1>4. ASSUME Pulls(contents, cluster) # {}
        PROVE  Max(TimesOf(contents, cluster)) \in Times
    <2>1. TimesOf(contents, cluster) # {}
      BY <1>2, <1>4 DEF TimesOf
    <2>2. Max(TimesOf(contents, cluster)) \in TimesOf(contents, cluster)
      BY <1>3, <2>1, MaxIsMember, TimesAssumption
    <2>. QED
      BY <1>3, <2>2
  <1>. QED
    BY <1>2, <1>3, <1>4

\* The last ingestion of a cluster is one of them.
LEMMA MostRecent ==
    ASSUME NEW contents \in Contents, NEW cluster, Processed(contents, cluster) # {}
    PROVE  get_most_recent_ingested(contents, cluster) \in Processed(contents, cluster)
  <1>. DEFINE processed == Processed(contents, cluster)
              places == {contents.files[i].pulled : i \in processed}
  <1>1. contents.files \in Seq(Files) /\ processed \subseteq DOMAIN contents.files
    BY PullsType DEF Contents, Processed
  <1>2. PICK n \in Nat : \A i \in DOMAIN contents.files : contents.files[i].pulled <= n
    BY <1>1, PlacesBounded
  <1>3. \A i \in DOMAIN contents.files : contents.files[i] \in Files
    BY <1>1
  <1>4. places \in SUBSET Nat /\ places # {} /\ \A x \in places : x <= n
    BY <1>1, <1>2, <1>3 DEF Files
  <1>5. Max(places) \in places /\ \A x \in places : x <= Max(places)
    <2>. HIDE DEF places
    <2>. QED
      BY <1>4, MaxIsMember
  <1>6. \E i \in processed : \A j \in processed :
           contents.files[j].pulled <= contents.files[i].pulled
    BY <1>5
  <1>. QED
    BY <1>6 DEF get_most_recent_ingested

LEMMA ResolvedScope ==
    ASSUME NEW contents \in Contents, NEW o \in OperationTypes, o.kind = "analyze",
           Resolvable(contents, o)
    PROVE  /\ resolve_scope(contents, o) \in Scope
           /\ resolve_scope(contents, o).file # 0 => resolve_scope(contents, o).since = 0
  <1>1. contents.files \in Seq(Files)
    BY DEF Contents
  <1>2. \/ o.mode \in {"recent_pull", "last_24h"} /\ o.cluster \in Clusters
        \/ o.mode = "file" /\ o.file \in Nat \ {0}
    BY DEF OperationTypes
  <1>3. CASE o.mode = "file"
    <2>1. o.file \in DOMAIN contents.files
      BY <1>3 DEF Resolvable
    <2>2. contents.files[o.file] \in Files
      BY <1>1, <2>1
    <2>3. resolve_scope(contents, o) =
              [mode |-> "file", cluster |-> contents.files[o.file].cluster,
               file |-> o.file, since |-> 0]
      BY <1>3 DEF resolve_scope
    <2>. QED
      BY <1>2, <1>3, <2>1, <2>2, <2>3 DEF Scope, Files
  <1>4. CASE o.mode = "recent_pull"
    <2>. DEFINE file == get_most_recent_ingested(contents, o.cluster)
    <2>1. file \in Nat \ {0}
      BY <1>4, MostRecent, PullsType DEF Resolvable, Processed
    <2>2. resolve_scope(contents, o) =
              [mode |-> "recent_pull", cluster |-> o.cluster, file |-> file, since |-> 0]
      BY <1>4 DEF resolve_scope
    <2>. HIDE DEF file
    <2>. QED
      BY <1>2, <1>4, <2>1, <2>2 DEF Scope
  <1>5. CASE o.mode = "last_24h"
    <2>0. Max(TimesOf(contents, o.cluster)) \in Nat /\ Window \in Nat
      BY <1>5, PullsType, TimesAssumption DEF Resolvable
    <2>1. Since(contents, o.cluster) \in Nat
      BY <2>0 DEF Since
    <2>2. resolve_scope(contents, o) =
              [mode |-> "last_24h", cluster |-> o.cluster, file |-> 0,
               since |-> Since(contents, o.cluster)]
      BY <1>5 DEF resolve_scope
    <2>. QED
      BY <1>2, <1>5, <2>1, <2>2 DEF Scope
  <1>. QED
    BY <1>2, <1>3, <1>4, <1>5

LEMMA EventsType ==
    ASSUME NEW contents \in Contents, NEW scope
    PROVE  /\ EventsIn(contents, scope) \in SUBSET Events
           /\ IsFiniteSet(EventsIn(contents, scope))
           /\ Cardinality(EventsIn(contents, scope)) \in Nat
  <1>1. contents.files \in Seq(Files) /\ Len(contents.files) \in Nat
    BY DEF Contents
  <1>. DEFINE placed == (1..Len(contents.files)) \X Times
              place == [e \in EventsIn(contents, scope) |-> <<e.file, e.time>>]
  <1>2. \A e \in EventsIn(contents, scope) :
           /\ e \in Events /\ e = [file |-> e.file, time |-> e.time]
           /\ <<e.file, e.time>> \in placed
    <2>1. \A i \in DOMAIN contents.files :
             i \in 1..Len(contents.files) /\ i \in Nat \ {0} /\ contents.files[i] \in Files
      BY <1>1
    <2>2. \A e \in EventsIn(contents, scope) :
             \E i \in DOMAIN contents.files : \E t \in contents.files[i].times :
                e = [file |-> i, time |-> t]
      BY DEF EventsIn, Pulls
    <2>. QED
      BY <2>1, <2>2 DEF Events, Files
  <1>3. IsFiniteSet(placed)
    <2>1. IsFiniteSet(Times)
      BY TimesAssumption, FS_BoundedSetOfNaturals
    <2>2. IsFiniteSet(1..Len(contents.files))
      BY <1>1, FS_Interval
    <2>. QED
      BY <2>1, <2>2, FS_Product
  <1>4. place \in Injection(EventsIn(contents, scope), placed)
    BY <1>2 DEF Injection, IsInjective
  <1>5. IsFiniteSet(EventsIn(contents, scope))
    BY <1>3, <1>4, FS_Injection
  <1>. QED
    BY <1>2, <1>5, FS_CardinalityType

\* The latest completed run of a scope, if there is one.
LEMMA LastRun ==
    ASSUME NEW contents \in Contents, NEW scope,
           NEW last, last = get_last_completed_run_for_scope(contents, scope)
    PROVE  /\ last \in Nat
           /\ last # 0 => /\ last \in DOMAIN contents.runs
                          /\ contents.runs[last].status = "completed"
                          /\ SameScope(contents.runs[last].scope, scope)
  <1>1. contents.runs \in Seq(Runs) /\ Len(contents.runs) \in Nat
    BY DEF Contents
  <1>2. /\ CompletedRuns(contents, scope) \in SUBSET Nat
        /\ \A i \in CompletedRuns(contents, scope) : i <= Len(contents.runs)
    BY <1>1 DEF CompletedRuns
  <1>3. ASSUME CompletedRuns(contents, scope) # {}
        PROVE  Max(CompletedRuns(contents, scope)) \in CompletedRuns(contents, scope)
    BY <1>1, <1>2, <1>3, MaxIsMember
  <1>. QED
    BY <1>2, <1>3 DEF get_last_completed_run_for_scope, CompletedRuns

-----------------------------------------------------------------------------
(* Locks, and what each point of a connection presumes.                    *)

(***************************************************************************)
(* No one waits in a commit here, and no transaction has only read: a scan *)
(* has none before its first candidate, and after a refused write it reads *)
(* nothing more.                                                           *)
(***************************************************************************)
Locks(r) ==
    /\ tx[r] \notin {"shared", "pending"} /\ (tx[r] = "begun" => pc[r] = "fail")
    /\ pc[r] \in {"commit_run", "finish", "commit", "holding"} => Writer(r)
    /\ tx[r] # "auto" => pc[r] \in {"commit_run", "filter", "complete", "fail", "finish",
                                    "commit", "holding"}
    /\ pc[r] = "filter" /\ job[r].reply # <<>> => tx[r] = "auto"

LockInv == OneWriter /\ \A r \in Connections : Locks(r)

Placed(r) ==
    /\ pc[r] \in RequestPoints \cup ScanPoints => op[r].kind = "analyze"
    /\ pc[r] = "ingest" => op[r].kind = "ingest"
    /\ pc[r] = "ingest_again" => op[r].kind = "ingest_again"
    /\ pc[r] \in {"dismiss", "dismiss_write"} => op[r].kind = "dismiss"
    /\ pc[r] \in {"investigate", "holding"} => op[r].kind = "investigate"
    /\ pc[r] = "dismiss_write" => op[r].finding \in DOMAIN db.findings
    /\ pc[r] \in {"count", "compare", "feedback", "insert_run"} => req[r].scope \in Scope
    /\ pc[r] \in ScanPoints => job[r].run \in DOMAIN db.runs
    /\ pc[r] = "filter_open" => job[r].reply # <<>> /\ Head(job[r].reply).kind # "unresolved"

PlaceInv == \A r \in Connections : Placed(r)

-----------------------------------------------------------------------------
(* What a transaction makes of the file.                                   *)

\* Rows are added, files grow and findings are dismissed; what was known stays known.
Keeps(old, new) ==
    /\ DOMAIN old.files \subseteq DOMAIN new.files
    /\ \A i \in DOMAIN old.files : /\ new.files[i].cluster = old.files[i].cluster
                                   /\ old.files[i].times \subseteq new.files[i].times
    /\ DOMAIN old.findings \subseteq DOMAIN new.findings
    /\ \A sig \in Signatures :
          Blocked(old.findings, old.feedback, sig) => Blocked(new.findings, new.feedback, sig)

\* No event leaves a scope whose window stays.
LEMMA EventsGrow ==
    ASSUME NEW old, NEW new, NEW scope, Keeps(old, new)
    PROVE  EventsIn(old, scope) \subseteq EventsIn(new, scope)
  <1>1. ASSUME NEW e \in EventsIn(old, scope)
        PROVE  e \in EventsIn(new, scope)
    <2>1. PICK i \in Pulls(old, scope.cluster) :
              /\ scope.file \in {0, i}
              /\ \E t \in old.files[i].times : t >= scope.since /\ e = [file |-> i, time |-> t]
      BY DEF EventsIn
    <2>2. /\ i \in Pulls(new, scope.cluster)
          /\ \E t \in new.files[i].times : t >= scope.since /\ e = [file |-> i, time |-> t]
      BY <2>1 DEF Keeps, Pulls
    <2>. QED
      BY <2>1, <2>2 DEF EventsIn
  <1>. QED
    BY <1>1

\* A candidate that is not offered is known.
Suppressed(contents, row) ==
    row.status = "auto_suppressed" => Blocked(contents.findings, contents.feedback, row.sig)

\* Only a scan adds candidates, those of its own run.
Adds(r, old, new) ==
    /\ DOMAIN old.candidates \subseteq DOMAIN new.candidates
    /\ \A i \in DOMAIN old.candidates : new.candidates[i] = old.candidates[i]
    /\ \A i \in DOMAIN new.candidates \ DOMAIN old.candidates :
          /\ pc[r] \in ScanPoints
          /\ new.candidates[i].run = job[r].run
          /\ Suppressed(old, new.candidates[i])

Started(r) == [status |-> "running", scope |-> req[r].scope,
               considered |-> 0, completed |-> 0, cost |-> 0]

CompletedRow(r, row) ==
    [row EXCEPT !.status = "completed", !.considered = job[r].total,
                !.completed = job[r].stamp, !.cost = job[r].billed]

FailedRow(r, row) ==
    [row EXCEPT !.status = "failed", !.cost = IF job[r].carried THEN job[r].billed ELSE 0]

\* A request adds its run, and a scan gives its own run an outcome, last of all.
Moves(r, old, new) ==
    /\ pc[r] = "commit_run" => /\ new.runs = Append(old.runs, Started(r))
                               /\ job[r].run = Len(old.runs) + 1
    /\ pc[r] = "finish" =>
          \E row \in {CompletedRow(r, old.runs[job[r].run]), FailedRow(r, old.runs[job[r].run])} :
              new.runs = [old.runs EXCEPT ![job[r].run] = row]
    /\ pc[r] \notin {"commit_run", "finish"} => new.runs = old.runs

(***************************************************************************)
(* The working copy is the file and what its writer has done so far,       *)
(* whatever the others do meanwhile.                                       *)
(***************************************************************************)
Txn(r) == Writer(r) => Keeps(db, work) /\ Adds(r, db, work) /\ Moves(r, db, work)

TxnInv == \A r \in Connections : Txn(r)

\* The rows a scan is about to insert: its own, and rightly suppressed.
Prepared(r) ==
    /\ \A k \in DOMAIN job[r].rows :
          /\ Suppressed(db, job[r].rows[k])
          /\ pc[r] \in ScanPoints => job[r].rows[k].run = job[r].run
    /\ pc[r] \in RequestPoints \cup {"idle"} => job[r].rows = <<>>

PrepInv == \A r \in Connections : Prepared(r)

-----------------------------------------------------------------------------
(* The contents each write makes.                                          *)

\* What an operation is asked with.
LEMMA OperationFields ==
    ASSUME NEW o \in OperationTypes \cup {NoOperation}
    PROVE  /\ o.kind = "ingest" => o.cluster \in Clusters /\ o.times \in SUBSET Times
           /\ o.kind = "ingest_again" => o.times \in SUBSET Times
           /\ o.kind = "dismiss" => o.scope \in Scopes
           /\ o.kind = "investigate" => o.sig \in Signatures
           /\ o.kind = "analyze" => o \in OperationTypes
  <1>1. CASE o \in [kind : {"analyze"}, mode : {"recent_pull", "last_24h"}, cluster : Clusters]
              \/ o \in [kind : {"analyze"}, mode : {"file"}, file : Nat \ {0}]
    BY <1>1 DEF OperationTypes
  <1>2. CASE \/ o \in [kind : {"ingest"}, cluster : Clusters, times : SUBSET Times]
              \/ o \in [kind : {"ingest_again"}, file : Nat \ {0}, times : SUBSET Times]
    BY <1>2
  <1>3. CASE o \in [kind : {"dismiss"}, finding : Nat \ {0}, scope : Scopes]
    BY <1>3
  <1>4. CASE o \in [kind : {"investigate"}, sig : Signatures]
    BY <1>4
  <1>5. CASE o = NoOperation
    BY <1>5 DEF NoOperation
  <1>. QED
    BY <1>1, <1>2, <1>3, <1>4, <1>5 DEF OperationTypes

LEMMA ViewType ==
    ASSUME TypeOK, NEW r \in Connections
    PROVE  View(r) \in Contents
  BY DEF View, TypeOK

LEMMA StartMakes ==
    ASSUME TypeOK, PlaceInv, NEW r \in Connections, start_run(r)
    PROVE  /\ work' \in Contents /\ db' = db
           /\ work'.runs = Append(View(r).runs, Started(r))
           /\ work'.files = View(r).files /\ work'.candidates = View(r).candidates
           /\ work'.findings = View(r).findings /\ work'.feedback = View(r).feedback
  <1>1. View(r) \in Contents /\ View(r).runs \in Seq(Runs) /\ req[r].scope \in Scope
    BY ViewType DEF start_run, Go, PlaceInv, Placed, Contents
  <1>2. Started(r) \in Runs
    BY <1>1 DEF Started, Runs
  <1>. DEFINE longer == Append(View(r).runs, Started(r))
  <1>3. longer \in Seq(Runs)
    BY <1>1, <1>2, AppendKeeps
  <1>4. work' = [View(r) EXCEPT !.runs = longer] /\ db' = db
    BY DEF start_run, Write, Started
  <1>. HIDE DEF longer
  <1>5. /\ work' \in Contents /\ work'.runs = longer
        /\ work'.files = View(r).files /\ work'.candidates = View(r).candidates
        /\ work'.findings = View(r).findings /\ work'.feedback = View(r).feedback
    BY <1>1, <1>3, <1>4 DEF Contents
  <1>. QED
    BY <1>4, <1>5 DEF longer

LEMMA InsertMakes ==
    ASSUME TypeOK, NEW r \in Connections, InsertCandidate(r)
    PROVE  /\ work' \in Contents /\ db' = db
           /\ work'.candidates = Append(View(r).candidates, Head(job[r].rows))
           /\ job[r].rows \in Seq(Candidates) /\ job[r].rows # <<>>
           /\ work'.files = View(r).files /\ work'.runs = View(r).runs
           /\ work'.findings = View(r).findings /\ work'.feedback = View(r).feedback
  <1>1. View(r) \in Contents /\ View(r).candidates \in Seq(Candidates)
    BY ViewType DEF Contents
  <1>2. job[r].rows \in Seq(Candidates) /\ job[r].rows # <<>>
    BY DEF InsertCandidate, TypeOK, Jobs
  <1>. DEFINE longer == Append(View(r).candidates, Head(job[r].rows))
  <1>3. longer \in Seq(Candidates)
    BY <1>1, <1>2, AppendKeeps
  <1>4. work' = [View(r) EXCEPT !.candidates = longer] /\ db' = db
    BY DEF InsertCandidate, Write
  <1>. HIDE DEF longer
  <1>5. /\ work' \in Contents /\ work'.candidates = longer
        /\ work'.files = View(r).files /\ work'.runs = View(r).runs
        /\ work'.findings = View(r).findings /\ work'.feedback = View(r).feedback
    BY <1>1, <1>3, <1>4 DEF Contents
  <1>. QED
    BY <1>2, <1>4, <1>5 DEF longer

\* complete_run and fail_run.
LEMMA OutcomeMakes ==
    ASSUME TypeOK, NEW r \in Connections, complete_run(r) \/ fail_run(r),
           job[r].run \in DOMAIN View(r).runs
    PROVE  /\ work' \in Contents /\ db' = db
           /\ \E row \in {CompletedRow(r, View(r).runs[job[r].run]),
                          FailedRow(r, View(r).runs[job[r].run])} :
                 /\ work'.runs = [View(r).runs EXCEPT ![job[r].run] = row]
                 /\ complete_run(r) \/ row.status = "failed"
           /\ work'.files = View(r).files /\ work'.candidates = View(r).candidates
           /\ work'.findings = View(r).findings /\ work'.feedback = View(r).feedback
  <1>1. View(r) \in Contents /\ View(r).runs \in Seq(Runs)
    BY ViewType DEF Contents
  <1>2. View(r).runs[job[r].run] \in Runs /\ job[r] \in Jobs
    BY <1>1 DEF TypeOK
  <1>. DEFINE row == IF complete_run(r) THEN CompletedRow(r, View(r).runs[job[r].run])
                     ELSE FailedRow(r, View(r).runs[job[r].run])
              runs == [View(r).runs EXCEPT ![job[r].run] = row]
  <1>3. /\ CompletedRow(r, View(r).runs[job[r].run]) \in Runs
        /\ FailedRow(r, View(r).runs[job[r].run]) \in Runs
        /\ FailedRow(r, View(r).runs[job[r].run]).status = "failed"
    BY <1>2 DEF CompletedRow, FailedRow, Runs, Jobs
  <1>4. runs \in Seq(Runs)
    BY <1>1, <1>3
  <1>5. work' = [View(r) EXCEPT !.runs = runs] /\ db' = db
    BY DEF complete_run, fail_run, Write, CompletedRow, FailedRow
  <1>. HIDE DEF runs
  <1>6. /\ work' \in Contents /\ work'.runs = runs
        /\ work'.files = View(r).files /\ work'.candidates = View(r).candidates
        /\ work'.findings = View(r).findings /\ work'.feedback = View(r).feedback
    BY <1>1, <1>4, <1>5 DEF Contents
  <1>. QED
    BY <1>3, <1>5, <1>6 DEF runs

\* The place of an ingestion among the others.
LEMMA PlaceType ==
    ASSUME NEW contents \in Contents, NEW kept
    PROVE  PulledNow(contents, kept) \in Nat
  <1>. DEFINE places == {0} \cup {contents.files[i].pulled : i \in DOMAIN contents.files}
  <1>1. contents.files \in Seq(Files)
    BY DEF Contents
  <1>2. PICK n \in Nat : \A i \in DOMAIN contents.files : contents.files[i].pulled <= n
    BY <1>1, PlacesBounded
  <1>3. \A i \in DOMAIN contents.files : contents.files[i].pulled \in Nat
    <2>1. \A i \in DOMAIN contents.files : contents.files[i] \in Files
      BY <1>1
    <2>. QED
      BY <2>1 DEF Files
  <1>4. places \in SUBSET Nat /\ places # {} /\ \A x \in places : x <= n
    BY <1>2, <1>3
  <1>5. Max(places) \in Nat
    <2>. HIDE DEF places
    <2>. QED
      BY <1>4, MaxIsMember
  <1>6. 1 + Max(places) \in Nat
    <2>. HIDE DEF places
    <2>. QED
      BY <1>5
  <1>. QED
    BY <1>6 DEF PulledNow

\* A file is added to the table, or grows in it.
LEMMA IngestMakes ==
    ASSUME TypeOK, PlaceInv, NEW r \in Connections, Ingest(r) \/ IngestAgain(r)
    PROVE  /\ work' \in Contents /\ db' = db
           /\ DOMAIN View(r).files \subseteq DOMAIN work'.files
           /\ \A i \in DOMAIN View(r).files :
                 /\ work'.files[i].cluster = View(r).files[i].cluster
                 /\ View(r).files[i].times \subseteq work'.files[i].times
           /\ work'.runs = View(r).runs /\ work'.candidates = View(r).candidates
           /\ work'.findings = View(r).findings /\ work'.feedback = View(r).feedback
  <1>1. View(r) \in Contents /\ View(r).files \in Seq(Files)
    BY ViewType DEF Contents
  <1>2. ASSUME NEW table \in Seq(Files), work' = [View(r) EXCEPT !.files = table]
        PROVE  /\ work' \in Contents /\ work'.files = table
               /\ work'.runs = View(r).runs /\ work'.candidates = View(r).candidates
               /\ work'.findings = View(r).findings /\ work'.feedback = View(r).feedback
    BY <1>1, <1>2 DEF Contents
  <1>3. CASE Ingest(r)
    <2>1. op[r].cluster \in Clusters /\ op[r].times \in SUBSET Times
      BY <1>3, OperationFields DEF Ingest, Go, PlaceInv, Placed, TypeOK
    <2>. DEFINE row == [cluster |-> op[r].cluster, times |-> op[r].times,
                        pulled |-> PulledNow(View(r), op[r].times)]
                longer == Append(View(r).files, row)
    <2>2. row \in Files
      BY <1>1, <2>1, PlaceType DEF Files
    <2>3. work' = [View(r) EXCEPT !.files = longer] /\ db' = db
      BY <1>3 DEF Ingest, Write
    <2>. HIDE DEF row
    <2>4. longer \in Seq(Files) /\ DOMAIN View(r).files \subseteq DOMAIN longer
          /\ \A i \in DOMAIN View(r).files : longer[i] = View(r).files[i]
      BY <1>1, <2>2, AppendKeeps
    <2>. HIDE DEF longer
    <2>. QED
      BY <1>2, <2>3, <2>4
  <1>4. CASE IngestAgain(r)
    <2>. DEFINE f == op[r].file
                kept == op[r].times \ View(r).files[f].times
                row == [cluster |-> View(r).files[f].cluster,
                        times |-> View(r).files[f].times \cup kept,
                        pulled |-> PulledNow(View(r), kept)]
                table == [View(r).files EXCEPT ![f] = row]
    <2>1. op[r].times \in SUBSET Times
      BY <1>4, OperationFields DEF IngestAgain, Go, PlaceInv, Placed, TypeOK
    <2>2. f \in DOMAIN View(r).files /\ View(r).files[f] \in Files
      BY <1>1, <1>4 DEF IngestAgain
    <2>3. work' = [View(r) EXCEPT !.files = table] /\ db' = db
      BY <1>4 DEF IngestAgain, Write
    <2>4. PulledNow(View(r), kept) \in Nat
      BY <1>1, PlaceType
    <2>5. kept \in SUBSET Times
      BY <2>1
    <2>. HIDE DEF kept
    <2>6. /\ row \in Files /\ row.cluster = View(r).files[f].cluster
          /\ View(r).files[f].times \subseteq row.times
      BY <2>2, <2>4, <2>5 DEF Files
    <2>. HIDE DEF row, f
    <2>7. /\ table \in Seq(Files) /\ DOMAIN table = DOMAIN View(r).files
          /\ \A i \in DOMAIN View(r).files : table[i] = IF i = f THEN row ELSE View(r).files[i]
      BY <1>1, <2>2, <2>6
    <2>. HIDE DEF table
    <2>. QED
      BY <1>2, <2>3, <2>6, <2>7
  <1>. QED
    BY <1>3, <1>4

LEMMA DismissMakes ==
    ASSUME TypeOK, LockInv, PlaceInv, NEW r \in Connections, Dismiss(r)
    PROVE  /\ work' \in Contents /\ db' = db /\ View(r) = db
           /\ op[r].finding \in DOMAIN db.findings /\ op[r].scope \in Scopes
           /\ work'.findings = dismiss(db.findings, op[r].finding)
           /\ work'.feedback =
                 insert_feedback(db.feedback, db.findings[op[r].finding].sig, op[r].scope)
           /\ work'.files = db.files /\ work'.runs = db.runs
           /\ work'.candidates = db.candidates
  <1>1. /\ View(r) = db /\ db \in Contents
        /\ op[r].finding \in DOMAIN db.findings /\ op[r].kind = "dismiss"
    BY DEF Dismiss, Go, PlaceInv, Placed, LockInv, Locks, View, Writer, TypeOK
  <1>2. db.findings \in Seq(Rows) /\ db.feedback \in SUBSET FeedbackRows /\ db.dismissed \in Nat
    BY <1>1 DEF Contents
  <1>3. db.findings[op[r].finding] \in Rows /\ op[r].scope \in Scopes /\ job[r].stamp \in Nat
    BY <1>1, <1>2, OperationFields DEF TypeOK, Jobs
  <1>. DEFINE rows == dismiss(db.findings, op[r].finding)
              known == insert_feedback(db.feedback, db.findings[op[r].finding].sig, op[r].scope)
              last == IF job[r].stamp > db.dismissed THEN job[r].stamp ELSE db.dismissed
  <1>4. rows \in Seq(Rows)
    BY <1>1, <1>2, <1>3 DEF dismiss, Rows, FindingStatus
  <1>5. known \in SUBSET FeedbackRows
    BY <1>2, <1>3 DEF insert_feedback, Rows, FeedbackRows
  <1>6. last \in Nat
    BY <1>2, <1>3
  <1>7. work' = [db EXCEPT !.feedback = known, !.dismissed = last, !.findings = rows] /\ db' = db
    BY <1>1 DEF Dismiss, Write
  <1>. HIDE DEF rows, known, last
  <1>8. /\ work' \in Contents /\ work'.files = db.files /\ work'.runs = db.runs
        /\ work'.candidates = db.candidates /\ work'.findings = rows /\ work'.feedback = known
    BY <1>1, <1>4, <1>5, <1>6, <1>7 DEF Contents
  <1>. QED
    BY <1>1, <1>3, <1>7, <1>8 DEF rows, known

\* Writes that may leave the rows as they are.
LEMMA StoreMakes ==
    ASSUME TypeOK, PlaceInv, NEW r \in Connections, InsertRaises(r) \/ Hold(r) \/ StoreFinding(r)
    PROVE  /\ work' \in Contents /\ db' = db
           /\ work'.files = View(r).files /\ work'.runs = View(r).runs
           /\ work'.candidates = View(r).candidates /\ work'.feedback = View(r).feedback
           /\ \/ work'.findings = View(r).findings
              \/ \E row \in Rows : work'.findings = Append(View(r).findings, row)
  <1>1. View(r) \in Contents /\ View(r).findings \in Seq(Rows)
    BY ViewType DEF Contents
  <1>2. CASE work' = View(r)
    BY <1>1, <1>2 DEF InsertRaises, Hold, StoreFinding, Write
  <1>3. CASE StoreFinding(r) /\ work' # View(r)
    <2>. DEFINE row == [sig |-> op[r].sig, status |-> "open", cand |-> "earlier", rev |-> 0]
                longer == Append(View(r).findings, row)
    <2>1. op[r].sig \in Signatures
      BY <1>3, OperationFields DEF StoreFinding, Go, PlaceInv, Placed, TypeOK
    <2>2. row \in Rows
      BY <2>1 DEF Rows, FindingStatus
    <2>3. longer \in Seq(Rows)
      BY <1>1, <2>2, AppendKeeps
    <2>4. work' = [View(r) EXCEPT !.findings = longer] /\ db' = db
      BY <1>3 DEF StoreFinding, Write, insert_finding
    <2>. HIDE DEF longer
    <2>5. /\ work' \in Contents /\ work'.files = View(r).files /\ work'.runs = View(r).runs
          /\ work'.candidates = View(r).candidates /\ work'.feedback = View(r).feedback
          /\ work'.findings = longer
      BY <1>1, <2>3, <2>4 DEF Contents
    <2>. QED
      BY <2>2, <2>4, <2>5 DEF longer
  <1>. QED
    BY <1>2, <1>3 DEF InsertRaises, Hold, Write

-----------------------------------------------------------------------------
(* One connection at a time.                                               *)

Step(r) ==
    \/ \E o \in Operations : Arrive(r, o)
    \/ RequestStep(r)
    \/ ScanStep(r)
    \/ OtherStep(r)

LEMMA Steps ==
    [Next]_vars => (\E r \in Connections : Step(r)) \/ Crash \/ UNCHANGED vars
  BY DEF Next, Step

WriteAction(r) ==
    \/ start_run(r)
    \/ InsertCandidate(r)
    \/ InsertRaises(r)
    \/ complete_run(r)
    \/ fail_run(r)
    \/ Ingest(r)
    \/ IngestAgain(r)
    \/ Dismiss(r)
    \/ Hold(r)
    \/ StoreFinding(r)

CommitAction(r) == CommitRun(r) \/ CommitScan(r) \/ CommitOther(r)

\* What a step of r does to the file is one of the statements of SQLite.
LEMMA FileMoves ==
    ASSUME NEW r \in Connections, Step(r)
    PROVE  \/ UNCHANGED fileVars
           \/ Read(r)
           \/ WriteRefused(r, Slow)
           \/ WriteAction(r) /\ Write(r, work')
           \/ CommitAction(r) /\ Commit(r)
           \/ Rollback(r)
  <1>1. CASE \E o \in Operations : Arrive(r, o)
    BY <1>1 DEF Arrive
  <1>2. CASE RequestStep(r) /\ ~start_run(r)
    BY <1>2
    DEF RequestStep, FindAnyEvents, RefuseNoEvents, ResolveScope, RefuseScope, CountEvents,
        RefuseEmptyScope, CompareLastRun, FindFeedback, RefuseRun, RequestTimesOut, CommitRun,
        EndRequest, CommitAction
  <1>3. CASE ScanStep(r) /\ ~WriteAction(r)
    BY <1>3
    DEF ScanStep, ReadCorpus, ReadDismissals, CallModel, CallModelUnusable, CallModelNotAnObject,
        RaiseUnbilled, SkipUnresolved, CheckSuppressed, CheckOpen, ReadStats, WriteInScanRefused,
        FailingFails, CommitScan, CommitAction, WriteAction
  <1>4. CASE OtherStep(r) /\ ~WriteAction(r)
    BY <1>4 DEF OtherStep, StampDismissal, CommitOther, CommitAction, WriteAction
  <1>5. CASE WriteAction(r)
    BY <1>5
    DEF WriteAction, start_run, InsertCandidate, InsertRaises, complete_run, fail_run, Ingest,
        IngestAgain, Dismiss, Hold, StoreFinding, Write
  <1>. QED
    BY <1>1, <1>2, <1>3, <1>4, <1>5 DEF Step, WriteAction

LEMMA StepIsStatement ==
    ASSUME NEW r \in Connections, Step(r)
    PROVE  Statement(r, Slow)
  BY FileMoves DEF Statement

\* A step of r leaves the others where they are.
LEMMA OthersStay ==
    ASSUME TypeOK, NEW r \in Connections, Step(r), NEW s \in Connections \ {r}
    PROVE  /\ pc'[s] = pc[s] /\ op'[s] = op[s] /\ answer'[s] = answer[s]
           /\ req'[s] = req[s] /\ job'[s] = job[s]
  <1>. USE DEF Go, Note, requestVars, taskVars, TypeOK
  <1>1. CASE \E o \in Operations : Arrive(r, o)
    BY <1>1 DEF Arrive
  <1>2. CASE RequestStep(r)
    BY <1>2
    DEF RequestStep, FindAnyEvents, RefuseNoEvents, ResolveScope, RefuseScope, CountEvents,
        RefuseEmptyScope, CompareLastRun, FindFeedback, RefuseRun, start_run, RequestTimesOut,
        CommitRun, EndRequest
  <1>3. CASE ScanStep(r)
    BY <1>3
    DEF ScanStep, ReadCorpus, ReadDismissals, CallModel, CallModelUnusable, CallModelNotAnObject,
        RaiseUnbilled, SkipUnresolved, CheckSuppressed, CheckOpen, InsertCandidate, InsertRaises,
        ReadStats, complete_run, WriteInScanRefused, fail_run, FailingFails, CommitScan
  <1>4. CASE OtherStep(r)
    BY <1>4
    DEF OtherStep, Ingest, IngestAgain, StampDismissal, Dismiss, Hold, StoreFinding, CommitOther
  <1>. QED
    BY <1>1, <1>2, <1>3, <1>4 DEF Step

BaseInv == TypeOK /\ LockInv /\ PlaceInv /\ TxnInv /\ PrepInv

\* A transaction that has an outcome still to write finds the runs as they are.
LEMMA ScanView ==
    ASSUME BaseInv, NEW r \in Connections, pc[r] \notin {"commit_run", "finish"}
    PROVE  View(r).runs = db.runs
  BY DEF BaseInv, TxnInv, Txn, Moves, View

LEMMA WriteTypes ==
    ASSUME BaseInv, NEW r \in Connections, WriteAction(r)
    PROVE  work' \in Contents /\ db' = db
  <1>. USE DEF BaseInv
  <1>1. ASSUME complete_run(r) \/ fail_run(r)
        PROVE  job[r].run \in DOMAIN View(r).runs
    BY <1>1, ScanView DEF complete_run, fail_run, Go, PlaceInv, Placed, ScanPoints
  <1>. QED
    BY <1>1, StartMakes, InsertMakes, OutcomeMakes, IngestMakes, DismissMakes, StoreMakes
    DEF WriteAction

(***************************************************************************)
(* The file changes by whole transactions, at commits.                     *)
(***************************************************************************)
LEMMA Commits ==
    ASSUME BaseInv, NEW r \in Connections, Step(r)
    PROVE  /\ db' \in Contents /\ work' \in Contents
           /\ \/ db' = db /\ ~CommitAction(r)
              \/ /\ CommitAction(r) /\ db' = work /\ pc[r] \in {"commit_run", "finish", "commit"}
                 /\ Keeps(db, db') /\ Adds(r, db, db') /\ Moves(r, db, db')
  <1>1. ASSUME CommitAction(r)
        PROVE  /\ db' = work /\ pc[r] \in {"commit_run", "finish", "commit"}
               /\ Keeps(db, db') /\ Adds(r, db, db') /\ Moves(r, db, db')
    BY <1>1
    DEF CommitAction, CommitRun, CommitScan, CommitOther, Go, Commit, BaseInv, LockInv, Locks,
        TxnInv, Txn
  <1>2. db' = db \/ CommitAction(r)
    BY FileMoves DEF fileVars, Read, WriteRefused, Write, Rollback
  <1>3. db' \in Contents /\ work' \in Contents
    <2>1. db \in Contents /\ work \in Contents
      BY DEF BaseInv, TypeOK
    <2>. QED
      BY <2>1, FileMoves, WriteTypes
      DEF fileVars, Read, WriteRefused, Commit, Rollback
  <1>. QED
    BY <1>1, <1>2, <1>3

LEMMA OperationKinds ==
    ASSUME NEW o \in OperationTypes
    PROVE  o.kind \in {"analyze", "ingest", "ingest_again", "dismiss", "investigate"}
  BY DEF OperationTypes

\* Well typed, but for the file.
ProcType ==
    /\ pc \in [Connections ->
          RequestPoints \cup ScanPoints \cup OtherPoints \cup {"idle", "closed", "killed"}]
    /\ op \in [Connections -> OperationTypes \cup {NoOperation}]
    /\ answer \in [Connections -> {"none", "200", "400", "409", "500"}]
    /\ req \in [Connections ->
          [scope : Scope \cup {NoRequest.scope}, counted : SUBSET Events, last : Nat]]
    /\ job \in [Connections -> Jobs]
    /\ clock \in Nat
    /\ crashes \in Nat

LEMMA ProcTypes ==
    ASSUME BaseInv, NEW r \in Connections, Step(r)
    PROVE  ProcType'
  <1>. USE DEF Go, Note, requestVars, taskVars, RequestPoints, ScanPoints, OtherPoints
  <1>0. ProcType /\ View(r) \in Contents
    BY ViewType DEF BaseInv, TypeOK, ProcType
  <1>. USE <1>0
  <1>1. CASE \E o \in Operations : Arrive(r, o)
    BY <1>1, OperationsAssumption, OperationKinds DEF Arrive, ProcType
  <1>2. ASSUME NEW code \in {"none", "200", "400", "409", "500"}, EndRequest(r, code)
        PROVE  ProcType'
    BY <1>2 DEF EndRequest, ProcType
  <1>3. CASE RefuseNoEvents(r) \/ RefuseScope(r) \/ RefuseEmptyScope(r) \/ RefuseRun(r)
              \/ RequestTimesOut(r)
    BY <1>2, <1>3 DEF RefuseNoEvents, RefuseScope, RefuseEmptyScope, RefuseRun, RequestTimesOut
  <1>4. CASE ResolveScope(r)
    <2>1. op[r] \in OperationTypes /\ op[r].kind = "analyze"
      BY <1>4, OperationFields DEF ResolveScope, BaseInv, PlaceInv, Placed, ProcType
    <2>2. resolve_scope(View(r), op[r]) \in Scope
      BY <1>4, <2>1, ResolvedScope DEF ResolveScope
    <2>. HIDE DEF RequestPoints, ScanPoints, OtherPoints
    <2>3. req' \in [Connections ->
              [scope : Scope \cup {NoRequest.scope}, counted : SUBSET Events, last : Nat]]
      BY <1>4, <2>2 DEF ResolveScope, ProcType
    <2>. QED
      BY <1>4, <2>3 DEF ResolveScope, ProcType, RequestPoints
  <1>5. CASE CountEvents(r)
    <2>1. EventsIn(View(r), req[r].scope) \in SUBSET Events
      BY EventsType
    <2>2. req' \in [Connections ->
              [scope : Scope \cup {NoRequest.scope}, counted : SUBSET Events, last : Nat]]
      BY <1>5, <2>1 DEF CountEvents, ProcType
    <2>. QED
      BY <1>5, <2>2 DEF CountEvents, ProcType
  <1>6. CASE CompareLastRun(r)
    <2>. DEFINE last == get_last_completed_run_for_scope(View(r), req[r].scope)
    <2>1. last \in Nat
      BY LastRun
    <2>2. req' = [req EXCEPT ![r].last = last] /\ UNCHANGED requestVars
          /\ pc' \in {[pc EXCEPT ![r] = "feedback"], [pc EXCEPT ![r] = "insert_run"]}
      BY <1>6 DEF CompareLastRun
    <2>. HIDE DEF last
    <2>3. req' \in [Connections ->
              [scope : Scope \cup {NoRequest.scope}, counted : SUBSET Events, last : Nat]]
      BY <2>1, <2>2 DEF ProcType
    <2>. QED
      BY <2>2, <2>3 DEF ProcType
  <1>7. CASE FindAnyEvents(r) \/ FindFeedback(r) \/ CommitRun(r)
    BY <1>7 DEF FindAnyEvents, FindFeedback, CommitRun, ProcType
  \* What a scan has in hand.
  <1>. DEFINE handed == pc' \in [Connections -> RequestPoints \cup ScanPoints \cup OtherPoints
                                                    \cup {"idle", "closed", "killed"}]
                        /\ UNCHANGED <<op, answer, req, crashes>>
  <1>8. ASSUME handed, NEW task \in Jobs, Note(r, task), clock' \in Nat
        PROVE  ProcType'
    BY <1>8 DEF ProcType
  <1>9. job[r] \in Jobs /\ View(r).files \in Seq(Files) /\ View(r).runs \in Seq(Runs)
    BY DEF ProcType, Contents
  <1>10. CASE start_run(r)
    <2>. DEFINE id == Len(View(r).runs) + 1
    <2>1. id \in Nat /\ Note(r, [job[r] EXCEPT !.run = id])
      BY <1>9, <1>10 DEF start_run
    <2>. HIDE DEF id
    <2>2. [job[r] EXCEPT !.run = id] \in Jobs
      BY <1>9, <2>1 DEF Jobs
    <2>. QED
      BY <1>8, <1>10, <2>1, <2>2 DEF start_run, ProcType
  <1>11. CASE ReadCorpus(r) \/ ReadDismissals(r)
    <2>1. \A scope : [job[r] EXCEPT !.corpus = EventsIn(View(r), scope)] \in Jobs
      BY <1>9, EventsType DEF Jobs
    <2>2. [job[r] EXCEPT !.told = View(r).feedback] \in Jobs
      BY <1>9 DEF Jobs, Contents
    <2>. QED
      BY <1>8, <1>11, <2>1, <2>2 DEF ReadCorpus, ReadDismissals, ProcType
  <1>12. CASE \/ CallModelUnusable(r) \/ CallModelNotAnObject(r)
               \/ \E reply \in Replies : CallModel(r, reply)
    <2>1. [job[r] EXCEPT !.billed = 1, !.said = "unusable", !.carried = TRUE] \in Jobs
      BY <1>9 DEF Jobs
    <2>2. [job[r] EXCEPT !.billed = 1, !.said = "not_an_object"] \in Jobs
      BY <1>9 DEF Jobs
    <2>3. \A reply \in Replies :
             [job[r] EXCEPT !.billed = 1, !.said = "list", !.reply = reply] \in Jobs
      BY <1>9, RepliesAssumption DEF Jobs
    <2>. QED
      BY <1>8, <1>12, <2>1, <2>2, <2>3
      DEF CallModel, CallModelUnusable, CallModelNotAnObject, ProcType
  <1>13. CASE RaiseUnbilled(r) \/ InsertRaises(r) \/ complete_run(r) \/ WriteInScanRefused(r)
              \/ fail_run(r) \/ FailingFails(r) \/ CommitScan(r)
    BY <1>13 DEF RaiseUnbilled, InsertRaises, complete_run, WriteInScanRefused, fail_run,
                 FailingFails, CommitScan, ProcType
  <1>14. CASE SkipUnresolved(r) \/ CheckSuppressed(r) \/ CheckOpen(r)
    <2>1. job[r].reply # <<>> /\ job[r].reply \in Seq(Proposals)
      BY <1>9, <1>14
      DEF SkipUnresolved, CheckSuppressed, CheckOpen, BaseInv, PlaceInv, Placed, Jobs
    <2>. DEFINE rest == Tail(job[r].reply)
    <2>9. rest \in Seq(Proposals)
      BY <2>1
    <2>. HIDE DEF rest
    <2>2. [job[r] EXCEPT !.reply = rest] \in Jobs
      BY <1>9, <2>9 DEF Jobs
    <2>3. ASSUME ~SkipUnresolved(r), NEW status \in {"pending", "auto_suppressed"}
          PROVE  Filtered(r, status) \in Jobs
      <3>1. pc[r] \in ScanPoints /\ Head(job[r].reply).kind # "unresolved"
        BY <1>14, <2>3 DEF CheckSuppressed, CheckOpen, BaseInv, PlaceInv, Placed
      <3>2. job[r].run \in DOMAIN db.runs
        BY <3>1 DEF BaseInv, PlaceInv, Placed
      <3>3. db.runs \in Seq(Runs)
        BY DEF BaseInv, TypeOK, Contents
      <3>4. job[r].run \in Nat \ {0}
        BY <3>2, <3>3
      <3>5. Head(job[r].reply) \in Proposals
        BY <2>1
      <3>6. Candidate(r, status) \in Candidates
        BY <2>3, <3>1, <3>4, <3>5 DEF Candidate, Candidates, Proposals
      <3>7. Append(job[r].rows, Candidate(r, status)) \in Seq(Candidates)
        BY <1>9, <3>6 DEF Jobs
      <3>. DEFINE longer == Append(job[r].rows, Candidate(r, status))
      <3>. HIDE DEF longer
      <3>8. [job[r] EXCEPT !.reply = rest, !.rows = longer] \in Jobs
        BY <1>9, <2>9, <3>7 DEF longer, Jobs
      <3>. QED
        BY <3>8 DEF Filtered, longer, rest
    <2>4. CASE SkipUnresolved(r)
      BY <1>8, <2>2, <2>4 DEF SkipUnresolved, ProcType, rest
    <2>5. CASE CheckSuppressed(r) /\ ~SkipUnresolved(r)
      BY <1>8, <2>3, <2>5 DEF CheckSuppressed, ProcType
    <2>6. CASE CheckOpen(r) /\ ~SkipUnresolved(r)
      BY <1>8, <2>3, <2>6 DEF CheckOpen, Prefilter, ProcType
    <2>. QED
      BY <1>14, <2>4, <2>5, <2>6
  <1>15. CASE InsertCandidate(r)
    <2>. DEFINE rest == Tail(job[r].rows)
    <2>1. rest \in Seq(Candidates) /\ Note(r, [job[r] EXCEPT !.rows = rest])
      BY <1>9, <1>15 DEF InsertCandidate, Jobs
    <2>. HIDE DEF rest
    <2>2. [job[r] EXCEPT !.rows = rest] \in Jobs
      BY <1>9, <2>1 DEF Jobs
    <2>. QED
      BY <1>8, <1>15, <2>1, <2>2 DEF InsertCandidate, ProcType
  <1>16. CASE ReadStats(r) \/ StampDismissal(r)
    <2>. DEFINE stamp == clock + 1
                total == Cardinality(EventsIn(View(r), View(r).runs[job[r].run].scope))
    <2>1. stamp \in Nat /\ total \in Nat
      BY EventsType DEF ProcType
    <2>2. /\ clock' = stamp
          /\ \/ Note(r, [job[r] EXCEPT !.total = total, !.stamp = stamp])
             \/ Note(r, [job[r] EXCEPT !.stamp = stamp])
      BY <1>16 DEF ReadStats, StampDismissal
    <2>. HIDE DEF stamp, total
    <2>3. /\ [job[r] EXCEPT !.total = total, !.stamp = stamp] \in Jobs
          /\ [job[r] EXCEPT !.stamp = stamp] \in Jobs
      BY <1>9, <2>1 DEF Jobs
    <2>4. handed
      BY <1>16 DEF ReadStats, StampDismissal, ProcType
    <2>. QED
      BY <1>8, <2>1, <2>2, <2>3, <2>4
  <1>17. CASE Ingest(r) \/ IngestAgain(r) \/ Dismiss(r) \/ Hold(r) \/ StoreFinding(r)
              \/ CommitOther(r)
    BY <1>17 DEF Ingest, IngestAgain, Dismiss, Hold, StoreFinding, CommitOther, ProcType
  <1>. QED
    BY <1>1, <1>3, <1>4, <1>5, <1>6, <1>7, <1>10, <1>11, <1>12, <1>13, <1>14, <1>15, <1>16, <1>17
    DEF Step, RequestStep, ScanStep, OtherStep


LEMMA Arrivals ==
    ASSUME TypeOK, NEW r \in Connections, \E o \in Operations : Arrive(r, o)
    PROVE  /\ pc[r] = "idle" /\ pc'[r] \in {"analyze", "ingest", "ingest_again", "dismiss", "investigate"}
           /\ pc'[r] = op'[r].kind /\ op'[r] \in OperationTypes
           /\ UNCHANGED <<fileVars, answer, req, job, clock, crashes>>
  <1>1. PICK o \in Operations : Arrive(r, o)
    OBVIOUS
  <1>2. o \in OperationTypes /\ o.kind \in {"analyze", "ingest", "ingest_again", "dismiss", "investigate"}
    BY OperationsAssumption, OperationKinds
  <1>. QED
    BY <1>1, <1>2 DEF Arrive, Go, TypeOK

\* All that differs between two jobs is in F.
Only(old, new, F) ==
    \A f \in {"run", "corpus", "told", "reply", "rows", "total", "stamp",
              "billed", "said", "carried"} \ F : new[f] = old[f]

LEMMA Updates ==
    ASSUME NEW task \in Jobs, NEW x, NEW y, NEW z
    PROVE  /\ Only(task, [task EXCEPT !.run = x], {"run"})
           /\ Only(task, [task EXCEPT !.corpus = x], {"corpus"})
           /\ Only(task, [task EXCEPT !.told = x], {"told"})
           /\ Only(task, [task EXCEPT !.billed = x, !.said = z, !.reply = y],
                   {"billed", "said", "reply"})
           /\ Only(task, [task EXCEPT !.billed = x, !.said = z, !.carried = y],
                   {"billed", "said", "carried"})
           /\ Only(task, [task EXCEPT !.billed = x, !.said = z], {"billed", "said"})
           /\ Only(task, [task EXCEPT !.reply = x], {"reply"})
           /\ Only(task, [task EXCEPT !.reply = x, !.rows = y], {"reply", "rows"})
           /\ Only(task, [task EXCEPT !.rows = x], {"rows"})
           /\ Only(task, [task EXCEPT !.total = x, !.stamp = y], {"total", "stamp"})
           /\ Only(task, [task EXCEPT !.stamp = x], {"stamp"})
           /\ Only(task, task, {})
  BY DEF Only, Jobs

\* What each step of a connection may change of what it has in hand.
LEMMA Touches ==
    ASSUME TypeOK, NEW r \in Connections, Step(r)
    PROVE  /\ start_run(r) => Only(job[r], job'[r], {"run"})
           /\ ReadCorpus(r) => Only(job[r], job'[r], {"corpus"})
           /\ ReadDismissals(r) => Only(job[r], job'[r], {"told"})
           /\ (\E reply \in Replies : CallModel(r, reply)) =>
                 Only(job[r], job'[r], {"billed", "said", "reply"})
           /\ CallModelUnusable(r) => Only(job[r], job'[r], {"billed", "said", "carried"})
           /\ CallModelNotAnObject(r) => Only(job[r], job'[r], {"billed", "said"})
           /\ SkipUnresolved(r) => Only(job[r], job'[r], {"reply"})
           /\ CheckSuppressed(r) \/ CheckOpen(r) =>
                 \/ job' = job
                 \/ Only(job[r], job'[r], {"reply", "rows"})
           /\ InsertCandidate(r) => Only(job[r], job'[r], {"rows"})
           /\ ReadStats(r) => Only(job[r], job'[r], {"total", "stamp"})
           /\ StampDismissal(r) => Only(job[r], job'[r], {"stamp"})
           /\ \/ start_run(r) \/ ReadCorpus(r) \/ ReadDismissals(r)
              \/ (\E reply \in Replies : CallModel(r, reply)) \/ CallModelUnusable(r)
              \/ CallModelNotAnObject(r) \/ SkipUnresolved(r) \/ CheckSuppressed(r)
              \/ CheckOpen(r) \/ InsertCandidate(r)
              \/ ReadStats(r) \/ StampDismissal(r)
              \/ job' = job
  <1>1. job[r] \in Jobs /\ job \in [Connections -> Jobs]
    BY DEF TypeOK
  <1>2. ASSUME NEW task, Note(r, task)
        PROVE  job'[r] = task
    BY <1>1, <1>2 DEF Note
  <1>3. start_run(r) => Only(job[r], job'[r], {"run"})
    BY <1>1, <1>2, Updates DEF start_run
  <1>4. ReadCorpus(r) => Only(job[r], job'[r], {"corpus"})
    BY <1>1, <1>2, Updates DEF ReadCorpus
  <1>5. ReadDismissals(r) => Only(job[r], job'[r], {"told"})
    BY ZenonT(40), <1>1, <1>2, Updates DEF ReadDismissals
  <1>6. ASSUME NEW reply \in Replies, CallModel(r, reply)
        PROVE  Only(job[r], job'[r], {"billed", "said", "reply"})
    <2>1. Only(job[r], [job[r] EXCEPT !.billed = 1, !.said = "list", !.reply = reply],
               {"billed", "said", "reply"})
      BY <1>1, Updates
    <2>. QED
      BY <1>2, <1>6, <2>1 DEF CallModel
  <1>7. /\ CallModelUnusable(r) => Only(job[r], job'[r], {"billed", "said", "carried"})
        /\ CallModelNotAnObject(r) => Only(job[r], job'[r], {"billed", "said"})
    <2>1. /\ Only(job[r], [job[r] EXCEPT !.billed = 1, !.said = "unusable", !.carried = TRUE],
                  {"billed", "said", "carried"})
          /\ Only(job[r], [job[r] EXCEPT !.billed = 1, !.said = "not_an_object"], {"billed", "said"})
      BY <1>1, Updates
    <2>. QED
      BY <1>2, <2>1 DEF CallModelUnusable, CallModelNotAnObject
  <1>8. SkipUnresolved(r) => Only(job[r], job'[r], {"reply"})
    BY <1>1, <1>2, Updates DEF SkipUnresolved
  <1>9. ASSUME CheckSuppressed(r) \/ CheckOpen(r), job' # job
        PROVE  Only(job[r], job'[r], {"reply", "rows"})
    <2>1. PICK status : Note(r, Filtered(r, status))
      BY <1>9 DEF CheckSuppressed, CheckOpen
    <2>2. Only(job[r], Filtered(r, status), {"reply", "rows"})
      BY <1>1, Updates DEF Filtered
    <2>. QED
      BY <1>2, <2>1, <2>2
  <1>10. InsertCandidate(r) => Only(job[r], job'[r], {"rows"})
    BY <1>1, <1>2, Updates DEF InsertCandidate
  <1>11. ReadStats(r) => Only(job[r], job'[r], {"total", "stamp"})
    <2>. DEFINE total == Cardinality(EventsIn(View(r), View(r).runs[job[r].run].scope))
    <2>1. Only(job[r], [job[r] EXCEPT !.total = total, !.stamp = clock + 1], {"total", "stamp"})
      <3>. HIDE DEF total
      <3>. QED
        BY <1>1, Updates
    <2>. QED
      BY <1>2, <2>1 DEF ReadStats
  <1>12. StampDismissal(r) => Only(job[r], job'[r], {"stamp"})
    BY ZenonT(40), <1>1, <1>2, Updates DEF StampDismissal
  <1>13. \/ start_run(r) \/ ReadCorpus(r) \/ ReadDismissals(r)
         \/ (\E reply \in Replies : CallModel(r, reply)) \/ CallModelUnusable(r)
         \/ CallModelNotAnObject(r) \/ SkipUnresolved(r) \/ CheckSuppressed(r)
         \/ CheckOpen(r) \/ InsertCandidate(r)
         \/ ReadStats(r) \/ StampDismissal(r)
         \/ job' = job
    BY
    DEF Step, Arrive, RequestStep, FindAnyEvents, RefuseNoEvents, ResolveScope, RefuseScope,
        CountEvents, RefuseEmptyScope, CompareLastRun, FindFeedback, RefuseRun, RequestTimesOut,
        CommitRun, EndRequest, requestVars, ScanStep, RaiseUnbilled, InsertRaises, complete_run,
        WriteInScanRefused, fail_run, FailingFails, CommitScan, OtherStep, Ingest, IngestAgain,
        Dismiss, Hold, StoreFinding, CommitOther
  <1>. QED
    BY <1>3, <1>4, <1>5, <1>6, <1>7, <1>8, <1>9, <1>10, <1>11, <1>12, <1>13

\* Where a step takes its connection, and what it may do from there.
LEMMA Tasks ==
    ASSUME TypeOK, NEW r \in Connections, Step(r)
    PROVE  /\ pc'[r] \in ScanPoints =>
                 \/ CommitRun(r)
                 \/ pc[r] \in ScanPoints /\ (job'[r].run = job[r].run) /\ answer'[r] = answer[r]
           /\ CommitRun(r) => job'[r] = job[r] /\ answer'[r] = "200"
  <1>. USE DEF Go, Note, requestVars, taskVars, RequestPoints, ScanPoints, OtherPoints, TypeOK, Jobs
  <1>1. CASE \E o \in Operations : Arrive(r, o)
    BY <1>1, Arrivals DEF CommitRun
  <1>2. CASE RequestStep(r)
    BY <1>2
    DEF RequestStep, FindAnyEvents, RefuseNoEvents, ResolveScope, RefuseScope, CountEvents,
        RefuseEmptyScope, CompareLastRun, FindFeedback, RefuseRun, start_run, RequestTimesOut,
        CommitRun, EndRequest
  <1>3. CASE ScanStep(r)
    <2>1. pc[r] \in ScanPoints /\ answer' = answer /\ ~CommitRun(r)
      BY <1>3
      DEF ScanStep, ReadCorpus, ReadDismissals, CallModel, CallModelUnusable, CallModelNotAnObject,
          RaiseUnbilled, SkipUnresolved, CheckSuppressed, CheckOpen, InsertCandidate, InsertRaises,
          ReadStats, complete_run, WriteInScanRefused, fail_run, FailingFails, CommitScan, CommitRun
    <2>2. job'[r].run = job[r].run
      <3>1. \/ job' = job
            \/ \E F : Only(job[r], job'[r], F) /\ "run" \notin F
        <4>1. ~start_run(r) /\ ~StampDismissal(r)
          BY <2>1 DEF start_run, StampDismissal
        <4>. HIDE DEF TypeOK
        <4>. QED
          BY <4>1, Touches
      <3>. QED
        BY <3>1 DEF Only
    <2>. QED
      BY <2>1, <2>2
  <1>4. CASE OtherStep(r)
    BY <1>4
    DEF OtherStep, Ingest, IngestAgain, StampDismissal, Dismiss, Hold, StoreFinding, CommitOther,
        CommitRun
  <1>. QED
    BY <1>1, <1>2, <1>3, <1>4 DEF Step

LEMMA TypeStep ==
    ASSUME BaseInv, NEW r \in Connections, Step(r)
    PROVE  TypeOK'
  <1>1. LocksOK
    BY DEF BaseInv, TypeOK, LockInv, LocksOK
  <1>2. LocksOK'
    BY <1>1, LocksKept, StepIsStatement
  <1>. QED
    BY <1>2, Commits, ProcTypes DEF TypeOK, ProcType, LocksOK

LEMMA LockStep ==
    ASSUME BaseInv, NEW r \in Connections, Step(r)
    PROVE  LockInv'
  <1>1. LocksOK
    BY DEF BaseInv, TypeOK, LockInv, LocksOK
  <1>2. OneWriter' /\ \A s \in Connections \ {r} : tx'[s] = tx[s]
    BY <1>1, LocksKept, StepIsStatement DEF LocksOK
  <1>3. ASSUME NEW s \in Connections \ {r}
        PROVE  Locks(s)'
    BY <1>2, OthersStay DEF BaseInv, LockInv, Locks, Writer
  <1>4. Locks(r)'
    <2>. USE DEF Go, Note, requestVars, taskVars, BaseInv, LockInv, Locks, TypeOK, Writer, TxStates
    <2>1. CASE \E o \in Operations : Arrive(r, o)
      BY <2>1, Arrivals DEF fileVars
    <2>2. CASE RequestStep(r)
      BY ZenonT(40), <2>2
      DEF RequestStep, FindAnyEvents, RefuseNoEvents, ResolveScope, RefuseScope, CountEvents,
          RefuseEmptyScope, CompareLastRun, FindFeedback, RefuseRun, start_run, RequestTimesOut,
          CommitRun, EndRequest, Read, Write, Commit, Rollback
    <2>3. CASE InsertCandidate(r) \/ InsertRaises(r) \/ complete_run(r) \/ fail_run(r)
      BY <2>3 DEF InsertCandidate, InsertRaises, complete_run, fail_run, Write, Jobs
    <2>4. CASE SkipUnresolved(r) \/ CheckSuppressed(r) \/ CheckOpen(r)
      <3>1. tx[r] = "auto" /\ tx' = tx
        BY <2>4 DEF SkipUnresolved, CheckSuppressed, CheckOpen, Read, fileVars
      <3>2. pc'[r] \in {"filter", "filter_open"}
        BY <2>4 DEF SkipUnresolved, CheckSuppressed, CheckOpen
      <3>. QED
        BY <3>1, <3>2
    <2>9. CASE ReadStats(r)
      BY <2>9 DEF ReadStats, Read
    <2>5. CASE WriteInScanRefused(r)
      BY <2>5 DEF WriteInScanRefused, WriteRefused, LockedOut, OneWriter
    <2>6. CASE ReadCorpus(r) \/ ReadDismissals(r) \/ CallModelUnusable(r) \/ CallModelNotAnObject(r)
                  \/ RaiseUnbilled(r) \/ (\E reply \in Replies : CallModel(r, reply))
      BY ZenonT(40), <2>6
      DEF ReadCorpus, ReadDismissals, CallModelUnusable, CallModelNotAnObject, RaiseUnbilled,
          CallModel, Read, fileVars
    <2>7. CASE FailingFails(r) \/ CommitScan(r)
      BY <2>7 DEF FailingFails, CommitScan, Rollback, Commit
    <2>8. CASE OtherStep(r)
      BY <2>8
      DEF OtherStep, Ingest, IngestAgain, StampDismissal, Dismiss, Hold, StoreFinding, CommitOther,
          Read, Write, Commit
    <2>. QED
      BY <2>1, <2>2, <2>3, <2>4, <2>5, <2>6, <2>7, <2>8, <2>9 DEF Step, ScanStep
  <1>. QED
    BY <1>2, <1>3, <1>4 DEF LockInv

\* The clauses of Placed that depend on the file, as it grows.
LEMMA PlaceStep ==
    ASSUME BaseInv, NEW r \in Connections, Step(r)
    PROVE  PlaceInv'
  <1>1. /\ DOMAIN db.findings \subseteq DOMAIN db'.findings
        /\ DOMAIN db.runs \subseteq DOMAIN db'.runs
        /\ CommitRun(r) => job[r].run \in DOMAIN db'.runs
    <2>1. db.runs \in Seq(Runs) /\ db \in Contents
      BY DEF BaseInv, TypeOK, Contents
    <2>2. ASSUME pc[r] = "commit_run", db'.runs = Append(db.runs, Started(r)),
                 job[r].run = Len(db.runs) + 1
          PROVE  DOMAIN db.runs \subseteq DOMAIN db'.runs /\ job[r].run \in DOMAIN db'.runs
      BY <2>1, <2>2
    <2>. QED
      BY <2>2, Commits DEF Keeps, Moves, CommitAction, CommitRun, Go
  <1>2. ASSUME NEW s \in Connections \ {r}
        PROVE  Placed(s)'
    BY <1>1, OthersStay DEF BaseInv, PlaceInv, Placed
  <1>3. Placed(r)'
    <2>. USE DEF Go, Note, requestVars, taskVars, RequestPoints, ScanPoints
    <2>1. CASE \E o \in Operations : Arrive(r, o)
      BY <2>1, Arrivals DEF Placed, BaseInv
    <2>2. CASE RequestStep(r)
      <3>1. ASSUME ResolveScope(r)
            PROVE  resolve_scope(View(r), op[r]) \in Scope
        BY <3>1, ViewType, OperationFields, ResolvedScope
        DEF ResolveScope, BaseInv, PlaceInv, Placed, TypeOK
      <3>2. CASE ResolveScope(r)
        BY <3>1, <3>2 DEF ResolveScope, Placed, BaseInv, PlaceInv, TypeOK
      <3>3. CASE CountEvents(r) \/ CompareLastRun(r)
        <4>1. req'[r].scope = req[r].scope
          BY <3>3 DEF CountEvents, CompareLastRun, BaseInv, TypeOK
        <4>. QED
          BY <3>3, <4>1 DEF CountEvents, CompareLastRun, Placed, BaseInv, PlaceInv, TypeOK
      <3>4. CASE FindAnyEvents(r) \/ FindFeedback(r) \/ start_run(r) \/ CommitRun(r)
        BY <1>1, <3>4
        DEF FindAnyEvents, FindFeedback, start_run, CommitRun, Placed, BaseInv, PlaceInv, TypeOK
      <3>5. CASE RefuseNoEvents(r) \/ RefuseScope(r) \/ RefuseEmptyScope(r) \/ RefuseRun(r)
                  \/ RequestTimesOut(r)
        BY <3>5
        DEF RefuseNoEvents, RefuseScope, RefuseEmptyScope, RefuseRun, RequestTimesOut, EndRequest,
            Placed, BaseInv, TypeOK
      <3>. QED
        BY <2>2, <3>2, <3>3, <3>4, <3>5 DEF RequestStep
    <2>3. CASE ScanStep(r)
      <3>1. /\ op' = op /\ req' = req /\ pc[r] \in ScanPoints
            /\ pc'[r] \in ScanPoints \cup {"closed"}
            /\ pc'[r] = "filter_open" =>
                  job' = job /\ job[r].reply # <<>> /\ Head(job[r].reply).kind # "unresolved"
        BY <2>3
        DEF ScanStep, ReadCorpus, ReadDismissals, CallModel, CallModelUnusable,
            CallModelNotAnObject, RaiseUnbilled, SkipUnresolved, CheckSuppressed, CheckOpen,
            InsertCandidate, InsertRaises, ReadStats, complete_run, WriteInScanRefused, fail_run,
            FailingFails, CommitScan, BaseInv, TypeOK
      <3>. QED
        BY <1>1, <3>1, Tasks DEF Placed, BaseInv, PlaceInv
    <2>4. CASE OtherStep(r)
      <3>0. op' = op /\ pc' = [pc EXCEPT ![r] = pc'[r]] /\ pc[r] \in OtherPoints
        BY <2>4
        DEF OtherStep, Ingest, IngestAgain, StampDismissal, Dismiss, Hold, StoreFinding,
            CommitOther, OtherPoints, BaseInv, TypeOK
      <3>1. CASE StampDismissal(r)
        <4>1. pc[r] = "dismiss" /\ pc'[r] = "dismiss_write"
          BY <3>1 DEF StampDismissal, BaseInv, TypeOK
        <4>2. op[r].finding \in DOMAIN db.findings
          BY <3>1, <4>1 DEF StampDismissal, BaseInv, LockInv, Locks, View, Writer
        <4>. QED
          BY <1>1, <3>0, <4>1, <4>2 DEF Placed, BaseInv, PlaceInv
      <3>2. CASE Hold(r)
        <4>1. pc[r] = "investigate" /\ pc'[r] = "holding"
          BY <3>2 DEF Hold, BaseInv, TypeOK
        <4>. QED
          BY <3>0, <4>1 DEF Placed, BaseInv, PlaceInv
      <3>3. CASE Ingest(r) \/ IngestAgain(r) \/ Dismiss(r) \/ StoreFinding(r) \/ CommitOther(r)
        <4>1. pc'[r] \in {"commit", "closed"}
          BY <3>3
          DEF Ingest, IngestAgain, Dismiss, StoreFinding, CommitOther, BaseInv, TypeOK
        <4>. QED
          BY <4>1 DEF Placed
      <3>. QED
        BY <2>4, <3>1, <3>2, <3>3 DEF OtherStep
    <2>. QED
      BY <2>1, <2>2, <2>3, <2>4 DEF Step
  <1>. QED
    BY <1>2, <1>3 DEF PlaceInv

-----------------------------------------------------------------------------
(* Transactions.                                                           *)

LEMMA KeepsTwice ==
    ASSUME NEW a, NEW b, NEW c, Keeps(a, b), Keeps(b, c)
    PROVE  Keeps(a, c)
  BY DEF Keeps

\* A statement takes nothing back of what its transaction had before it.
LEMMA WriteKeeps ==
    ASSUME BaseInv, NEW r \in Connections, WriteAction(r)
    PROVE  Keeps(View(r), work')
  <1>. USE DEF BaseInv
  <1>0. /\ View(r) \in Contents /\ View(r).files \in Seq(Files) /\ View(r).findings \in Seq(Rows)
        /\ View(r) = db => db.findings \in Seq(Rows)
    BY ViewType DEF Contents
  <1>1. CASE start_run(r) \/ InsertCandidate(r)
    BY <1>1, StartMakes, InsertMakes DEF Keeps
  <1>2. CASE complete_run(r) \/ fail_run(r)
    <2>1. job[r].run \in DOMAIN View(r).runs
      BY <1>2, ScanView DEF complete_run, fail_run, Go, PlaceInv, Placed, ScanPoints
    <2>. QED
      BY <1>2, <2>1, OutcomeMakes DEF Keeps
  <1>3. CASE Ingest(r) \/ IngestAgain(r)
    BY <1>0, <1>3, IngestMakes, AppendKeeps DEF Keeps
  <1>4. CASE Dismiss(r)
    <2>1. /\ View(r) = db
          /\ op[r].finding \in DOMAIN db.findings /\ op[r].scope \in Scopes
          /\ work'.findings = dismiss(db.findings, op[r].finding)
          /\ work'.feedback =
                insert_feedback(db.feedback, db.findings[op[r].finding].sig, op[r].scope)
          /\ work'.files = db.files
      BY <1>4, DismissMakes
    <2>2. DOMAIN work'.findings = DOMAIN db.findings
      BY <2>1 DEF dismiss
    <2>3. \A sig \in Signatures : Blocked(db.findings, db.feedback, sig)
                                     => Blocked(work'.findings, work'.feedback, sig)
      BY <1>0, <2>1, DismissKeepsBlocked
    <2>. QED
      BY <2>1, <2>2, <2>3 DEF Keeps
  <1>5. CASE InsertRaises(r) \/ Hold(r) \/ StoreFinding(r)
    <2>1. work'.files = View(r).files /\ work'.feedback = View(r).feedback
      BY <1>5, StoreMakes
    <2>2. CASE work'.findings = View(r).findings
      BY <2>1, <2>2 DEF Keeps
    <2>3. CASE \E row \in Rows : work'.findings = Append(View(r).findings, row)
      BY <1>0, <2>1, <2>3, AppendKeeps, AddKeepsBlocked DEF Keeps
    <2>. QED
      BY <1>5, <2>2, <2>3, StoreMakes
  <1>. QED
    BY <1>1, <1>2, <1>3, <1>4, <1>5 DEF WriteAction

\* A transaction begins with the file, and has the runs of the file until it ends.
LEMMA Begins ==
    ASSUME BaseInv, NEW r \in Connections
    PROVE  Keeps(db, View(r)) /\ Adds(r, db, View(r))
  <1>1. CASE Writer(r)
    BY <1>1 DEF BaseInv, TxnInv, Txn, View
  <1>2. CASE ~Writer(r)
    BY <1>2 DEF View, Keeps, Adds
  <1>. QED
    BY <1>1, <1>2

LEMMA WriteAdds ==
    ASSUME BaseInv, NEW r \in Connections, WriteAction(r)
    PROVE  Adds(r, db, work)'
  <1>. USE DEF BaseInv
  <1>0. /\ View(r).candidates \in Seq(Candidates) /\ Adds(r, db, View(r)) /\ db' = db
        /\ (pc[r] \in ScanPoints => pc'[r] \in ScanPoints /\ job'[r].run = job[r].run)
    <2>1. Step(r) /\ pc[r] \in ScanPoints =>
              pc'[r] \in ScanPoints /\ ~CommitRun(r)
      BY
      DEF WriteAction, start_run, InsertCandidate, InsertRaises, complete_run, fail_run, Ingest,
          IngestAgain, Dismiss, Hold, StoreFinding, Go, ScanPoints, CommitRun, TypeOK
    <2>2. Step(r)
      BY DEF WriteAction, Step, RequestStep, ScanStep, OtherStep
    <2>. QED
      BY <2>1, <2>2, ViewType, WriteTypes, Begins, Tasks DEF Contents
  <1>1. CASE work'.candidates = View(r).candidates
    BY <1>0, <1>1 DEF Adds, Suppressed
  <1>2. CASE InsertCandidate(r)
    <2>1. pc[r] \in ScanPoints /\ Prepared(r)
      BY <1>2 DEF InsertCandidate, ScanPoints, PrepInv
    <2>2. /\ work'.candidates = Append(View(r).candidates, Head(job[r].rows))
          /\ Head(job[r].rows) \in Candidates
          /\ Head(job[r].rows).run = job[r].run /\ Suppressed(db, Head(job[r].rows))
      BY <1>2, <2>1, InsertMakes DEF Prepared
    <2>. QED
      BY <1>0, <2>1, <2>2, AppendKeeps DEF Adds, Suppressed
  <1>3. ASSUME complete_run(r) \/ fail_run(r)
        PROVE  job[r].run \in DOMAIN View(r).runs
    BY <1>3, ScanView DEF complete_run, fail_run, Go, PlaceInv, Placed, ScanPoints
  <1>4. CASE ~InsertCandidate(r)
    BY <1>1, <1>3, <1>4, StartMakes, IngestMakes, DismissMakes, StoreMakes, OutcomeMakes
    DEF WriteAction
  <1>. QED
    BY <1>2, <1>4

LEMMA WriteRuns ==
    ASSUME BaseInv, NEW r \in Connections, WriteAction(r)
    PROVE  Moves(r, db, work)'
  <1>. USE DEF BaseInv, Go, TypeOK
  <1>0. pc[r] \notin {"commit_run", "finish"} /\ db' = db
    BY WriteTypes DEF WriteAction, start_run, InsertCandidate, InsertRaises, complete_run, fail_run,
                      Ingest, IngestAgain, Dismiss, Hold, StoreFinding
  <1>1. View(r).runs = db.runs
    BY <1>0, ScanView
  <1>2. CASE start_run(r)
    <2>1. pc'[r] = "commit_run" /\ req' = req /\ job'[r].run = Len(db.runs) + 1
      BY <1>1, <1>2 DEF start_run, Note, Jobs
    <2>2. Started(r)' = Started(r) /\ work'.runs = Append(db.runs, Started(r))
      BY <1>1, <1>2, <2>1, StartMakes DEF Started
    <2>. QED
      BY <1>0, <2>1, <2>2 DEF Moves
  <1>3. CASE complete_run(r) \/ fail_run(r)
    <2>1. job[r].run \in DOMAIN View(r).runs
      BY <1>1, <1>3 DEF complete_run, fail_run, PlaceInv, Placed, ScanPoints
    <2>2. pc'[r] = "finish" /\ job' = job
      BY <1>3 DEF complete_run, fail_run
    <2>3. \E row \in {CompletedRow(r, db.runs[job[r].run]), FailedRow(r, db.runs[job[r].run])} :
             work'.runs = [db.runs EXCEPT ![job[r].run] = row]
      <3>1. \E row \in {CompletedRow(r, View(r).runs[job[r].run]),
                        FailedRow(r, View(r).runs[job[r].run])} :
               work'.runs = [View(r).runs EXCEPT ![job[r].run] = row]
        BY <1>3, <2>1, OutcomeMakes
      <3>. QED
        BY <1>1, <3>1
    <2>. QED
      BY <1>0, <2>2, <2>3 DEF Moves, CompletedRow, FailedRow
  <1>4. CASE InsertCandidate(r) \/ InsertRaises(r) \/ Ingest(r) \/ IngestAgain(r)
                \/ Dismiss(r) \/ Hold(r) \/ StoreFinding(r)
    <2>1. work'.runs = db.runs
      BY <1>1, <1>4, InsertMakes, StoreMakes, IngestMakes, DismissMakes
    <2>2. pc'[r] \notin {"commit_run", "finish"}
      BY <1>0, <1>4
      DEF InsertCandidate, InsertRaises, Ingest, IngestAgain, Dismiss, Hold, StoreFinding
    <2>. QED
      BY <1>0, <2>1, <2>2 DEF Moves
  <1>. QED
    BY <1>2, <1>3, <1>4 DEF WriteAction

\* All else a writer does is to count, between its candidates and its outcome.
LEMMA WriterStays ==
    ASSUME BaseInv, NEW r \in Connections, Step(r), Writer(r)', ~WriteAction(r)
    PROVE  ReadStats(r) /\ Writer(r)
  <1>. USE DEF BaseInv, LockInv, Locks, Writer, TypeOK, TxStates, Go
  <1>1. CASE \E o \in Operations : Arrive(r, o)
    BY <1>1, Arrivals DEF fileVars
  <1>2. CASE RequestStep(r)
    BY <1>2
    DEF RequestStep, FindAnyEvents, RefuseNoEvents, ResolveScope, RefuseScope, CountEvents,
        RefuseEmptyScope, CompareLastRun, FindFeedback, RefuseRun, WriteAction, RequestTimesOut,
        CommitRun, EndRequest, Read, Commit, Rollback
  <1>3. CASE ScanStep(r)
    <2>1. CASE ReadCorpus(r) \/ ReadDismissals(r) \/ CallModelUnusable(r) \/ CallModelNotAnObject(r)
                  \/ RaiseUnbilled(r) \/ (\E reply \in Replies : CallModel(r, reply))
      BY <2>1
      DEF ReadCorpus, ReadDismissals, CallModelUnusable, CallModelNotAnObject, RaiseUnbilled,
          CallModel, Read, fileVars
    <2>2. CASE SkipUnresolved(r) \/ CheckSuppressed(r) \/ CheckOpen(r)
      BY <2>2 DEF SkipUnresolved, CheckSuppressed, CheckOpen, Read, fileVars
    <2>3. CASE ReadStats(r)
      BY <2>3 DEF ReadStats, Read
    <2>4. CASE WriteInScanRefused(r)
      BY <2>4 DEF WriteInScanRefused, WriteRefused, LockedOut, OneWriter
    <2>5. CASE FailingFails(r) \/ CommitScan(r)
      BY <2>5 DEF FailingFails, CommitScan, Rollback, Commit
    <2>. QED
      BY <1>3, <2>1, <2>2, <2>3, <2>4, <2>5 DEF ScanStep, WriteAction
  <1>4. CASE OtherStep(r)
    BY <1>4 DEF OtherStep, WriteAction, StampDismissal, CommitOther, Read, Commit
  <1>. QED
    BY <1>1, <1>2, <1>3, <1>4 DEF Step

LEMMA TxnStep ==
    ASSUME BaseInv, NEW r \in Connections, Step(r)
    PROVE  TxnInv'
  <1>. USE DEF BaseInv
  <1>1. LocksOK
    BY DEF TypeOK, LockInv, LocksOK
  <1>2. ASSUME NEW s \in Connections \ {r}, Writer(s)'
        PROVE  (Keeps(db, work) /\ Adds(s, db, work) /\ Moves(s, db, work))'
    <2>1. Writer(s) /\ work' = work /\ db' = db
      BY <1>1, <1>2, StepIsStatement, WriterMoves
    <2>2. pc'[s] = pc[s] /\ req'[s] = req[s] /\ job'[s] = job[s]
      BY OthersStay
    <2>3. Keeps(db, work) /\ Adds(s, db, work) /\ Moves(s, db, work)
      BY <2>1 DEF TxnInv, Txn
    <2>4. Keeps(db, work)' /\ Adds(s, db, work)'
      BY <2>1, <2>2, <2>3 DEF Keeps, Adds, Suppressed
    <2>5. Moves(s, db, work)'
      BY <2>1, <2>2, <2>3 DEF Moves, Started, CompletedRow, FailedRow
    <2>. QED
      BY <2>4, <2>5
  <1>3. ASSUME WriteAction(r)
        PROVE  (Keeps(db, work) /\ Adds(r, db, work) /\ Moves(r, db, work))'
    <2>1. Keeps(db, work') /\ db' = db
      BY <1>3, Begins, WriteKeeps, WriteTypes, KeepsTwice
    <2>2. Keeps(db, work)'
      BY <2>1 DEF Keeps
    <2>. QED
      BY <1>3, <2>2, WriteAdds, WriteRuns
  <1>4. ASSUME Writer(r)', ~WriteAction(r)
        PROVE  (Keeps(db, work) /\ Adds(r, db, work) /\ Moves(r, db, work))'
    <2>1. ReadStats(r) /\ Writer(r)
      BY <1>4, WriterStays
    <2>2. /\ db' = db /\ work' = work /\ pc[r] = "filter" /\ pc'[r] = "complete"
          /\ job'[r].run = job[r].run
      BY <2>1, Tasks DEF ReadStats, Read, Go, TypeOK, ScanPoints, CommitRun
    <2>3. Keeps(db, work) /\ Adds(r, db, work) /\ Moves(r, db, work)
      BY <2>1 DEF TxnInv, Txn
    <2>4. Keeps(db, work)' /\ Adds(r, db, work)'
      BY <2>2, <2>3 DEF Keeps, Adds, Suppressed, ScanPoints
    <2>5. Moves(r, db, work)'
      BY <2>2, <2>3 DEF Moves
    <2>. QED
      BY <2>4, <2>5
  <1>. QED
    BY <1>2, <1>3, <1>4 DEF TxnInv, Txn

\* A scan prepares rows only while it has written nothing: what it sees is the file.
LEMMA PrepStep ==
    ASSUME BaseInv, NEW r \in Connections, Step(r)
    PROVE  PrepInv'
  <1>. USE DEF BaseInv
  <1>1. ASSUME NEW row \in Candidates, Suppressed(db, row)
        PROVE  Suppressed(db', row)
    <2>1. db' = db \/ Keeps(db, db')
      BY Commits
    <2>2. row.sig \in Signatures
      BY DEF Candidates
    <2>. QED
      BY <1>1, <2>1, <2>2 DEF Suppressed, Keeps
  <1>2. \A s \in Connections : job[s] \in Jobs /\ job[s].rows \in Seq(Candidates) /\ Prepared(s)
    BY DEF TypeOK, Jobs, PrepInv
  <1>3. ASSUME NEW s \in Connections \ {r}
        PROVE  Prepared(s)'
    <2>1. pc'[s] = pc[s] /\ job'[s] = job[s]
      BY OthersStay
    <2>2. \A k \in DOMAIN job[s].rows : job[s].rows[k] \in Candidates
      BY <1>2
    <2>. QED
      BY <1>1, <1>2, <2>1, <2>2 DEF Prepared, Suppressed
  <1>4. Prepared(r)'
    <2>0. \A k \in DOMAIN job[r].rows : job[r].rows[k] \in Candidates /\ Suppressed(db', job[r].rows[k])
      BY <1>1, <1>2 DEF Prepared
    <2>1. CASE InsertCandidate(r)
      <3>1. /\ pc[r] = "filter" /\ pc' = pc /\ job[r].rows # <<>>
            /\ Note(r, [job[r] EXCEPT !.rows = Tail(@)])
        BY <2>1 DEF InsertCandidate
      <3>2. job'[r].rows = Tail(job[r].rows)
        BY <1>2, <3>1 DEF Note, TypeOK, Jobs
      <3>3. job'[r].run = job[r].run
        BY <2>1, Touches DEF Only
      <3>4. \A k \in DOMAIN job'[r].rows :
               \E n \in DOMAIN job[r].rows : job'[r].rows[k] = job[r].rows[n]
        BY <1>2, <3>1, <3>2
      <3>. QED
        BY <1>2, <2>0, <3>1, <3>3, <3>4 DEF Prepared, Suppressed, RequestPoints, ScanPoints
    <2>2. CASE (CheckSuppressed(r) \/ CheckOpen(r)) /\ job' # job
      <3>1. /\ pc[r] \in {"filter", "filter_open"} /\ pc'[r] = "filter" /\ db' = db
            /\ job[r].reply # <<>> /\ job[r].reply \in Seq(Proposals) /\ View(r) = db
        BY <2>2 DEF CheckSuppressed, CheckOpen, Go, Read, TypeOK, Jobs, PlaceInv, Placed, LockInv,
                    Locks, View, Writer
      <3>2. PICK status \in {"pending", "auto_suppressed"} :
                /\ Note(r, Filtered(r, status))
                /\ status = "auto_suppressed" =>
                      Blocked(db.findings, db.feedback, Head(job[r].reply).sig)
        BY <2>2, <3>1 DEF CheckSuppressed, CheckOpen, Blocked, Prefilter
      <3>. DEFINE row == Candidate(r, status)
                  rows == Append(job[r].rows, row)
      <3>3. job'[r].rows = rows /\ job'[r].run = job[r].run
        <4>1. job \in [Connections -> Jobs]
          BY DEF TypeOK
        <4>2. job'[r] = [job[r] EXCEPT !.reply = Tail(@), !.rows = rows]
          BY <3>2, <4>1 DEF Note, Filtered
        <4>. HIDE DEF rows
        <4>. QED
          BY <1>2, <4>2 DEF Jobs
      <3>4. row.run = job[r].run /\ Suppressed(db, row)
        BY <3>2 DEF Candidate, Suppressed
      <3>. HIDE DEF row
      <3>5. /\ DOMAIN rows = DOMAIN job[r].rows \cup {Len(job[r].rows) + 1}
            /\ rows[Len(job[r].rows) + 1] = row
            /\ \A k \in DOMAIN job[r].rows : rows[k] = job[r].rows[k]
        BY <1>2
      <3>. HIDE DEF rows
      <3>6. pc[r] \in ScanPoints /\ pc'[r] \notin RequestPoints \cup {"idle"}
        BY <3>1 DEF ScanPoints, RequestPoints
      <3>. QED
        BY <1>2, <3>1, <3>3, <3>4, <3>5, <3>6 DEF Prepared, Suppressed
    <2>3. CASE ~InsertCandidate(r) /\ ~((CheckSuppressed(r) \/ CheckOpen(r)) /\ job' # job)
      <3>1. job'[r].rows = job[r].rows
        <4>1. job' = job \/ \E F : Only(job[r], job'[r], F) /\ "rows" \notin F
          BY <2>3, Touches
        <4>. QED
          BY <4>1 DEF Only
      <3>2. /\ pc'[r] \in ScanPoints =>
                  pc[r] = "commit_run" \/ (pc[r] \in ScanPoints /\ job'[r].run = job[r].run)
            /\ pc'[r] \in RequestPoints \cup {"idle"} => pc[r] \in RequestPoints \cup {"idle"}
        <4>1. CASE \E o \in Operations : Arrive(r, o)
          BY <4>1, Arrivals DEF ScanPoints
        <4>2. CASE RequestStep(r)
          BY <4>2, Tasks
          DEF CommitRun, Go, RequestPoints, RequestStep, FindAnyEvents, RefuseNoEvents,
              ResolveScope, RefuseScope, CountEvents, RefuseEmptyScope, CompareLastRun,
              FindFeedback, RefuseRun, start_run, RequestTimesOut
        <4>3. CASE ScanStep(r) \/ OtherStep(r)
          <5>1. pc'[r] \in ScanPoints \cup OtherPoints \cup {"closed"}
            BY <4>3
            DEF ScanStep, ReadCorpus, ReadDismissals, CallModel, CallModelUnusable,
                CallModelNotAnObject, RaiseUnbilled, SkipUnresolved, CheckSuppressed, CheckOpen,
                InsertCandidate, InsertRaises, ReadStats, complete_run, WriteInScanRefused,
                fail_run, FailingFails, CommitScan, Go, TypeOK, OtherStep, Ingest, IngestAgain,
                StampDismissal, Dismiss, Hold, StoreFinding, CommitOther, ScanPoints, OtherPoints
          <5>2. pc'[r] \notin RequestPoints \cup {"idle"}
            BY <5>1 DEF RequestPoints, ScanPoints, OtherPoints
          <5>. QED
            BY <5>2, Tasks DEF CommitRun, Go
        <4>. QED
          BY <4>1, <4>2, <4>3 DEF Step
      <3>3. pc[r] = "commit_run" => job[r].rows = <<>>
        BY <1>2 DEF Prepared, RequestPoints
      <3>. QED
        BY <1>2, <2>0, <3>1, <3>2, <3>3 DEF Prepared, Suppressed
    <2>. QED
      BY <2>1, <2>2, <2>3
  <1>. QED
    BY <1>3, <1>4 DEF PrepInv

-----------------------------------------------------------------------------
(* Every reachable state.                                                  *)

LEMMA BaseInit ==
    Init => BaseInv
  <1>. SUFFICES ASSUME Init PROVE BaseInv
    OBVIOUS
  <1>. USE DEF Init, OpenFile, NoJob, NoRequest
  <1>1. db \in Contents /\ work \in Contents
    BY FilesAssumption, FindingsAssumption DEF Contents
  <1>2. TypeOK
    BY <1>1 DEF TypeOK, TxStates, Jobs
  <1>3. LockInv /\ PlaceInv /\ TxnInv
    BY
    DEF LockInv, OneWriter, Locks, Writer, PlaceInv, Placed, RequestPoints, ScanPoints, TxnInv, Txn
  <1>4. PrepInv
    <2>1. \A r \in Connections : job[r].rows = <<>>
      OBVIOUS
    <2>2. \A k \in DOMAIN <<>> : FALSE
      OBVIOUS
    <2>. QED
      BY <2>1, <2>2 DEF PrepInv, Prepared
  <1>. QED
    BY <1>2, <1>3, <1>4 DEF BaseInv

LEMMA BaseStep ==
    BaseInv /\ [Next]_vars => BaseInv'
  <1>. SUFFICES ASSUME BaseInv, [Next]_vars PROVE BaseInv'
    OBVIOUS
  <1>1. CASE \E r \in Connections : Step(r)
    BY <1>1, TypeStep, LockStep, PlaceStep, TxnStep, PrepStep DEF BaseInv
  <1>2. CASE Crash
    <2>1. /\ UNCHANGED <<db, op, answer, req, job, clock>> /\ work' = db
          /\ crashes' = crashes + 1
          /\ tx' = [r \in Connections |-> "auto"]
          /\ pc' = [r \in Connections |-> IF pc[r] \in {"idle", "closed"} THEN pc[r] ELSE "killed"]
      BY <1>2 DEF Crash, Recover
    <2>2. TypeOK'
      BY <2>1 DEF BaseInv, TypeOK, TxStates
    <2>3. LockInv' /\ PlaceInv' /\ TxnInv'
      BY <2>1 DEF LockInv, OneWriter, Locks, Writer, PlaceInv, Placed, RequestPoints, ScanPoints,
                  TxnInv, Txn
    <2>4. PrepInv'
      BY <2>1 DEF BaseInv, PrepInv, Prepared, Suppressed, RequestPoints, ScanPoints
    <2>. QED
      BY <2>2, <2>3, <2>4 DEF BaseInv
  <1>3. CASE UNCHANGED vars
    <2>1. TypeOK' /\ LockInv' /\ PlaceInv'
      BY <1>3 DEF vars, BaseInv, TypeOK, LockInv, OneWriter, Locks, Writer, PlaceInv, Placed
    <2>2. TxnInv'
      <3>1. ASSUME NEW r \in Connections
            PROVE  Txn(r)' <=> Txn(r)
        BY <1>3
        DEF vars, Txn, Writer, Keeps, Adds, Suppressed, Moves, Started, CompletedRow, FailedRow
      <3>. QED
        BY <3>1 DEF BaseInv, TxnInv
    <2>3. PrepInv'
      BY <1>3 DEF vars, BaseInv, PrepInv, Prepared, Suppressed
    <2>. QED
      BY <2>1, <2>2, <2>3 DEF BaseInv
  <1>. QED
    BY <1>1, <1>2, <1>3, Steps

LEMMA BaseAlways ==
    Spec => []BaseInv
  BY BaseInit, BaseStep, PTL DEF Spec

(***************************************************************************)
(* Types: each step of a request, of a scan and of what happens meanwhile  *)
(* leaves the tables and the connections in their sets of values; that a   *)
(* scan's run, a dismissed finding and a resolved file are there to be     *)
(* found rests on the places of the connections and on tables that only    *)
(* grow.                                                                   *)
(***************************************************************************)
THEOREM TypeCorrect ==
    Spec => []TypeOK
  <1>1. BaseInv => TypeOK
    BY DEF BaseInv
  <1>. QED
    BY <1>1, BaseAlways, PTL

-----------------------------------------------------------------------------
(* What a scan suppressed stays known.                                     *)

LEMMA KnownStep ==
    ASSUME BaseInv, AutoSuppressedStaysKnown, [Next]_vars
    PROVE  AutoSuppressedStaysKnown'
  <1>1. CASE \E r \in Connections : Step(r)
    <2>. PICK r \in Connections : Step(r)
      BY <1>1
    <2>1. db \in Contents /\ db' \in Contents /\ (db' = db \/ (Keeps(db, db') /\ Adds(r, db, db')))
      BY Commits DEF BaseInv, TypeOK
    <2>2. \A i \in DOMAIN db'.candidates : db'.candidates[i].sig \in Signatures
      <3>1. db'.candidates \in Seq(Candidates)
        BY <2>1 DEF Contents
      <3>2. \A i \in DOMAIN db'.candidates : db'.candidates[i] \in Candidates
        BY <3>1
      <3>. QED
        BY <3>2 DEF Candidates
    <2>3. ASSUME NEW i \in DOMAIN db'.candidates, db'.candidates[i].status = "auto_suppressed"
          PROVE  Blocked(db.findings, db.feedback, db'.candidates[i].sig)
      BY <2>1, <2>3 DEF Adds, Suppressed, AutoSuppressedStaysKnown
    <2>. QED
      BY <2>1, <2>2, <2>3 DEF AutoSuppressedStaysKnown, Keeps
  <1>2. CASE Crash \/ UNCHANGED vars
    BY <1>2 DEF Crash, Recover, vars, AutoSuppressedStaysKnown
  <1>. QED
    BY <1>1, <1>2, Steps

(***************************************************************************)
(* A candidate kept from the user is known for ever: the rows a scan       *)
(* prepares were suppressed by what was committed (PrepInv: it reads       *)
(* before it writes), and no transaction of any connection, up to its      *)
(* commit, takes back what stands in the way of a signature (TxnInv), a    *)
(* dismissal included, which puts into the feedback what it takes off the  *)
(* open findings.                                                          *)
(***************************************************************************)
THEOREM KnownForEver ==
    Spec => []AutoSuppressedStaysKnown
  <1>1. Init => AutoSuppressedStaysKnown
    BY DEF Init, OpenFile, AutoSuppressedStaysKnown
  <1>2. BaseInv /\ AutoSuppressedStaysKnown /\ [Next]_vars => AutoSuppressedStaysKnown'
    BY KnownStep
  <1>. QED
    BY <1>1, <1>2, BaseAlways, PTL DEF Spec

-----------------------------------------------------------------------------
(* Runs, and the scans that have them.                                     *)

(***************************************************************************)
(* A scan has a run of its own, running until the scan commits its         *)
(* outcome.                                                                *)
(***************************************************************************)
HasRun(r) ==
    /\ pc[r] \in ScanPoints => Accepted(r) /\ db.runs[job[r].run].status = "running"
    /\ Accepted(r) => job[r].run \in DOMAIN db.runs
    /\ pc[r] \in RequestPoints \cup {"idle"} => answer[r] = "none"

OwnRuns ==
    \A r, s \in Connections : Accepted(r) /\ Accepted(s) /\ job[r].run = job[s].run => r = s

RunInv == (\A r \in Connections : HasRun(r)) /\ OwnRuns

CandInv ==
    /\ \A i \in DOMAIN db.candidates : db.candidates[i].run \in DOMAIN db.runs
    /\ CandidatesComeWithTheirRun

\* Only a request is answered 200, once, when its run is there.
LEMMA Answers ==
    ASSUME BaseInv, NEW r \in Connections, Step(r)
    PROVE  /\ answer'[r] # answer[r] => pc[r] \in RequestPoints
           /\ answer'[r] = "200" /\ answer[r] # "200" => CommitRun(r)
           /\ op'[r] = op[r] \/ pc[r] = "idle"
           /\ pc'[r] \in RequestPoints \cup {"idle"} =>
                 pc[r] \in RequestPoints \cup {"idle"} /\ answer'[r] = answer[r]
           /\ pc'[r] \in ScanPoints => pc[r] \in ScanPoints \/ CommitRun(r)
           /\ CommitScan(r) => pc'[r] = "closed" /\ job' = job /\ answer' = answer /\ op' = op
           /\ CommitRun(r) => pc'[r] = "scheduled" /\ job' = job /\ answer'[r] = "200" /\ op' = op
  <1>. USE DEF BaseInv, TypeOK, Go, RequestPoints, ScanPoints, requestVars, taskVars
  <1>1. CASE \E o \in Operations : Arrive(r, o)
    BY <1>1, Arrivals DEF Arrive, CommitRun, CommitScan
  <1>2. CASE RequestStep(r)
    BY <1>2
    DEF RequestStep, FindAnyEvents, RefuseNoEvents, ResolveScope, RefuseScope, CountEvents,
        RefuseEmptyScope, CompareLastRun, FindFeedback, RefuseRun, start_run, RequestTimesOut,
        CommitRun, EndRequest, CommitScan
  <1>3. CASE ScanStep(r)
    BY <1>3
    DEF ScanStep, ReadCorpus, ReadDismissals, CallModel, CallModelUnusable, CallModelNotAnObject,
        RaiseUnbilled, SkipUnresolved, CheckSuppressed, CheckOpen, InsertCandidate, InsertRaises,
        ReadStats, complete_run, WriteInScanRefused, fail_run, FailingFails, CommitScan, CommitRun
  <1>4. CASE OtherStep(r)
    BY <1>4
    DEF OtherStep, Ingest, IngestAgain, StampDismissal, Dismiss, Hold, StoreFinding, CommitOther,
        CommitRun, CommitScan
  <1>. QED
    BY <1>1, <1>2, <1>3, <1>4 DEF Step

\* How the table of runs changes.
LEMMA RunsMove ==
    ASSUME BaseInv, NEW r \in Connections, Step(r)
    PROVE  \/ /\ CommitRun(r) /\ pc[r] = "commit_run" /\ db'.candidates = db.candidates
              /\ db'.runs = Append(db.runs, Started(r)) /\ job[r].run = Len(db.runs) + 1
           \/ /\ CommitScan(r) /\ pc[r] = "finish" /\ Adds(r, db, db')
              /\ \E row \in {CompletedRow(r, db.runs[job[r].run]), FailedRow(r, db.runs[job[r].run])} :
                    db'.runs = [db.runs EXCEPT ![job[r].run] = row]
           \/ ~CommitRun(r) /\ ~CommitScan(r) /\ db'.runs = db.runs /\ db'.candidates = db.candidates
  <1>1. CASE db' = db /\ ~CommitAction(r)
    BY <1>1 DEF CommitAction
  <1>2. CASE CommitAction(r) /\ Adds(r, db, db') /\ Moves(r, db, db')
    <2>1. CASE CommitRun(r) \/ CommitOther(r)
      <3>1. pc[r] \notin ScanPoints /\ (CommitRun(r) <=> pc[r] = "commit_run") /\ ~CommitScan(r)
            /\ pc[r] # "finish"
        BY <2>1 DEF CommitRun, CommitOther, CommitScan, Go, ScanPoints
      <3>2. DOMAIN db'.candidates = DOMAIN db.candidates
        BY <1>2, <3>1 DEF Adds
      <3>3. db.candidates \in Seq(Candidates) /\ db'.candidates \in Seq(Candidates)
        BY Commits DEF BaseInv, TypeOK, Contents
      <3>4. db'.candidates = db.candidates
        BY <1>2, <3>2, <3>3 DEF Adds
      <3>. QED
        BY <1>2, <2>1, <3>1, <3>4 DEF Moves
    <2>2. CASE CommitScan(r)
      BY <1>2, <2>2 DEF CommitScan, Go, Moves
    <2>. QED
      BY <1>2, <2>1, <2>2 DEF CommitAction
  <1>. QED
    BY <1>1, <1>2, Commits

\* A run is lost by none, and given an outcome by none but its scan.
LEMMA RunRows ==
    ASSUME BaseInv, RunInv, NEW r \in Connections, Step(r)
    PROVE  /\ db.runs \in Seq(Runs) /\ db'.runs \in Seq(Runs)
           /\ DOMAIN db.runs \subseteq DOMAIN db'.runs
           /\ \A i \in DOMAIN db.runs :
                 \/ db'.runs[i] = db.runs[i]
                 \/ /\ CommitScan(r) /\ i = job[r].run
                    /\ db'.runs[i] \in {CompletedRow(r, db.runs[i]), FailedRow(r, db.runs[i])}
           /\ CommitScan(r) => /\ job[r].run \in DOMAIN db.runs
                               /\ db'.runs[job[r].run].status \in {"completed", "failed"}
           /\ CommitRun(r) => /\ job[r].run \in DOMAIN db'.runs \ DOMAIN db.runs
                              /\ db'.runs[job[r].run] = Started(r)
  <1>1. db.runs \in Seq(Runs) /\ db'.runs \in Seq(Runs)
    BY Commits DEF BaseInv, TypeOK, Contents
  <1>2. CASE CommitRun(r)
    <2>1. db'.runs = Append(db.runs, Started(r)) /\ job[r].run = Len(db.runs) + 1 /\ ~CommitScan(r)
      BY <1>2, RunsMove DEF CommitRun, CommitScan, Go
    <2>. QED
      BY <1>1, <1>2, <2>1
  <1>3. CASE CommitScan(r)
    <2>1. PICK row \in {CompletedRow(r, db.runs[job[r].run]), FailedRow(r, db.runs[job[r].run])} :
              db'.runs = [db.runs EXCEPT ![job[r].run] = row]
      BY <1>3, RunsMove DEF CommitRun, CommitScan, Go
    <2>2. job[r].run \in DOMAIN db.runs /\ ~CommitRun(r)
      BY <1>3 DEF CommitScan, CommitRun, Go, BaseInv, PlaceInv, Placed, ScanPoints
    <2>3. row.status \in {"completed", "failed"}
      <3>1. db.runs[job[r].run] \in Runs
        BY <1>1, <2>2
      <3>. QED
        BY <3>1 DEF CompletedRow, FailedRow, Runs
    <2>. QED
      BY <1>1, <1>3, <2>1, <2>2, <2>3
  <1>4. CASE ~CommitRun(r) /\ ~CommitScan(r)
    BY <1>1, <1>4, RunsMove
  <1>. QED
    BY <1>2, <1>3, <1>4

LEMMA AcceptedBefore ==
    ASSUME BaseInv, RunInv, NEW r \in Connections, Step(r), NEW s \in Connections, Accepted(s)'
    PROVE  \/ s = r /\ CommitRun(r)
           \/ Accepted(s) /\ job'[s].run = job[s].run
  <1>. USE DEF Accepted
  <1>1. CASE s # r
    BY <1>1, OthersStay DEF BaseInv
  <1>2. CASE s = r /\ ~CommitRun(r)
    <2>1. Accepted(r)
      BY <1>2, Answers DEF RunInv, HasRun
    <2>2. pc[r] \notin RequestPoints
      BY <2>1 DEF RunInv, HasRun
    <2>3. job' = job \/ start_run(r) \/ \E F : Only(job[r], job'[r], F) /\ "run" \notin F
      BY Touches DEF BaseInv
    <2>4. start_run(r) => pc[r] \in RequestPoints
      BY DEF start_run, Go, RequestPoints
    <2>. QED
      BY <1>2, <2>1, <2>2, <2>3, <2>4 DEF Only
  <1>. QED
    BY <1>1, <1>2

LEMMA RunStep ==
    ASSUME BaseInv, RunInv, NEW r \in Connections, Step(r)
    PROVE  RunInv'
  <1>. USE DEF Accepted
  <1>1. ASSUME NEW s \in Connections \ {r}
        PROVE  HasRun(s)' /\ (Accepted(s)' <=> Accepted(s)) /\ job'[s].run = job[s].run
    <2>1. pc'[s] = pc[s] /\ op'[s] = op[s] /\ answer'[s] = answer[s] /\ job'[s] = job[s]
      BY OthersStay DEF BaseInv
    <2>2. HasRun(s)
      BY DEF RunInv
    <2>3. ASSUME pc[s] \in ScanPoints
          PROVE  db'.runs[job[s].run].status = "running"
      <3>1. job[s].run \in DOMAIN db.runs /\ Accepted(s) /\ db.runs[job[s].run].status = "running"
        BY <2>2, <2>3 DEF HasRun
      <3>2. CommitScan(r) => job[r].run # job[s].run
        <4>1. CommitScan(r) => Accepted(r)
          BY DEF CommitScan, Go, RunInv, HasRun, ScanPoints
        <4>. QED
          BY <3>1, <4>1 DEF RunInv, OwnRuns
      <3>. QED
        BY <3>1, <3>2, RunRows
    <2>. QED
      BY <2>1, <2>2, <2>3, RunRows DEF HasRun
  <1>2. HasRun(r)' /\ (Accepted(r)' => CommitRun(r) \/ (Accepted(r) /\ job'[r].run = job[r].run))
    <2>1. HasRun(r) /\ Placed(r)
      BY DEF RunInv, BaseInv, PlaceInv
    <2>2. CASE CommitRun(r)
      <3>1. /\ pc'[r] = "scheduled" /\ job' = job /\ answer'[r] = "200" /\ op' = op
            /\ pc[r] = "commit_run"
        BY <2>2, Answers DEF CommitRun, Go
      <3>2. op[r].kind = "analyze"
        BY <2>1, <3>1 DEF Placed, RequestPoints
      <3>3. job[r].run \in DOMAIN db'.runs /\ db'.runs[job[r].run].status = "running"
        <4>1. job[r].run \in DOMAIN db'.runs /\ db'.runs[job[r].run] = Started(r)
          BY <2>2, RunRows
        <4>2. Started(r).status = "running"
          BY DEF Started
        <4>. QED
          BY <4>1, <4>2
      <3>. QED
        BY <2>2, <3>1, <3>2, <3>3 DEF HasRun, RequestPoints
    <2>3. CASE CommitScan(r)
      BY <2>1, <2>3, Answers, RunRows DEF HasRun, ScanPoints, RequestPoints
    <2>4. CASE ~CommitRun(r) /\ ~CommitScan(r)
      <3>1. db'.runs = db.runs
        BY <2>4, RunsMove
      <3>2. Accepted(r)' => Accepted(r)
        BY <2>1, <2>4, Answers DEF HasRun
      <3>3. Accepted(r) => pc[r] \notin RequestPoints \cup {"idle"} /\ answer'[r] = answer[r] /\ op'[r] = op[r]
        BY <2>1, Answers DEF HasRun
      <3>4. Accepted(r)' => job'[r].run = job[r].run
        BY <2>4, AcceptedBefore
      <3>. QED
        BY <2>1, <2>4, <3>1, <3>2, <3>3, <3>4, Answers DEF HasRun
    <2>. QED
      BY <2>2, <2>3, <2>4
  <1>3. CommitRun(r) => \A s \in Connections \ {r} : Accepted(s) => job'[r].run # job[s].run
    <2>1. CommitRun(r) => job'[r].run = job[r].run /\ job[r].run \notin DOMAIN db.runs
      BY RunRows, Answers
    <2>. QED
      BY <2>1 DEF RunInv, HasRun
  <1>4. OwnRuns'
    BY <1>1, <1>2, <1>3 DEF RunInv, OwnRuns
  <1>. QED
    BY <1>1, <1>2, <1>4 DEF RunInv

LEMMA RunAlways ==
    Spec => []RunInv
  <1>1. Init => RunInv
    BY DEF Init, RunInv, HasRun, OwnRuns, Accepted, NoOperation, ScanPoints
  <1>2. ASSUME BaseInv, RunInv, [Next]_vars
        PROVE  RunInv'
    <2>1. CASE Crash
      <3>1. ASSUME NEW r \in Connections
            PROVE  HasRun(r)' /\ (Accepted(r)' <=> Accepted(r)) /\ job'[r] = job[r]
        <4>1. /\ UNCHANGED <<db, op, answer, job>>
              /\ pc'[r] \in {"idle", "closed", "killed"} /\ (pc'[r] = "idle" => pc[r] = "idle")
          BY <2>1 DEF Crash, Recover
        <4>2. Accepted(r)' <=> Accepted(r)
          BY <4>1 DEF Accepted
        <4>3. HasRun(r)
          BY <1>2 DEF RunInv
        <4>. QED
          BY <4>1, <4>2, <4>3 DEF HasRun, ScanPoints, RequestPoints
      <3>. QED
        BY <1>2, <3>1 DEF RunInv, OwnRuns
    <2>2. CASE UNCHANGED vars
      BY <1>2, <2>2 DEF vars, RunInv, HasRun, OwnRuns, Accepted
    <2>. QED
      BY <1>2, <2>1, <2>2, Steps, RunStep
  <1>. QED
    BY <1>1, <1>2, BaseAlways, PTL DEF Spec

LEMMA CandStep ==
    ASSUME BaseInv, RunInv, CandInv, [Next]_vars
    PROVE  CandInv'
  <1>. USE DEF CandInv, CandidatesComeWithTheirRun
  <1>1. CASE \E r \in Connections : Step(r)
    <2>. PICK r \in Connections : Step(r)
      BY <1>1
    <2>1. /\ DOMAIN db.runs \subseteq DOMAIN db'.runs
          /\ \A i \in DOMAIN db.runs : db.runs[i].status \in {"completed", "failed"} =>
                db'.runs[i].status \in {"completed", "failed"}
      BY RunRows
    <2>2. CASE db'.candidates = db.candidates
      BY <2>1, <2>2
    <2>3. CASE CommitScan(r) /\ Adds(r, db, db')
      <3>1. /\ job[r].run \in DOMAIN db'.runs
            /\ db'.runs[job[r].run].status \in {"completed", "failed"}
        BY <2>3, RunRows
      <3>. QED
        BY <2>1, <2>3, <3>1 DEF Adds
    <2>. QED
      BY <2>2, <2>3, RunsMove
  <1>2. CASE Crash \/ UNCHANGED vars
    BY <1>2 DEF Crash, Recover, vars
  <1>. QED
    BY <1>1, <1>2, Steps

(***************************************************************************)
(* No candidate is offered before its run has an outcome: a scan's rows    *)
(* and its outcome are one transaction (TxnInv), and until it commits only *)
(* that scan can give the run an outcome (OwnRuns).                        *)
(***************************************************************************)
THEOREM OutcomeFirst ==
    Spec => []CandidatesComeWithTheirRun
  <1>1. Init => CandInv
    BY DEF Init, OpenFile, CandInv, CandidatesComeWithTheirRun
  <1>2. BaseInv /\ RunInv /\ CandInv /\ [Next]_vars => CandInv'
    BY CandStep
  <1>3. CandInv => CandidatesComeWithTheirRun
    BY DEF CandInv
  <1>. QED
    BY <1>1, <1>2, <1>3, BaseAlways, RunAlways, PTL DEF Spec

(***************************************************************************)
(* What a scan was billed, and for what.  An answer that is refused, cut   *)
(* short or malformed has its usage carried along; a list is used up       *)
(* before a candidate is stored, so before storing them can fail.          *)
(***************************************************************************)
Charged(r) ==
    /\ pc[r] \in RequestPoints \cup {"idle", "scheduled", "dismissals", "call"} =>
          job[r].said = "none"
    /\ job[r].said = "none" => job[r].billed = 0
    /\ job[r].said = "unusable" => job[r].carried
    /\ pc[r] \in {"complete", "fail", "finish"} /\ job[r].said = "list" => job[r].reply = <<>>

CostInv == FreeRunsAreExplained /\ \A r \in Connections : Charged(r)

LEMMA ChargedStep ==
    ASSUME BaseInv, NEW r \in Connections, Step(r), Charged(r)
    PROVE  Charged(r)'
  <1>. USE DEF BaseInv, TypeOK, Go, RequestPoints, ScanPoints, requestVars, taskVars
  <1>1. job[r] \in Jobs /\ job \in [Connections -> Jobs]
    OBVIOUS
  <1>2. ASSUME job'[r] = job[r] \/ \E F : Only(job[r], job'[r], F)
                                          /\ F \cap {"said", "billed", "carried", "reply"} = {}
        PROVE  /\ job'[r].said = job[r].said /\ job'[r].billed = job[r].billed
               /\ job'[r].carried = job[r].carried /\ job'[r].reply = job[r].reply
    BY <1>2 DEF Only
  <1>3. CASE \E o \in Operations : Arrive(r, o)
    BY <1>3, Arrivals DEF Charged
  <1>4. CASE RequestStep(r)
    <2>1. /\ pc[r] \in RequestPoints
          /\ pc'[r] \in RequestPoints \cup {"scheduled", "closed"}
      BY <1>4
      DEF RequestStep, FindAnyEvents, RefuseNoEvents, ResolveScope, RefuseScope, CountEvents,
          RefuseEmptyScope, CompareLastRun, FindFeedback, RefuseRun, start_run, RequestTimesOut,
          CommitRun, EndRequest
    <2>2. job' = job \/ start_run(r)
      BY <1>4
      DEF RequestStep, FindAnyEvents, RefuseNoEvents, ResolveScope, RefuseScope, CountEvents,
          RefuseEmptyScope, CompareLastRun, FindFeedback, RefuseRun, RequestTimesOut,
          CommitRun, EndRequest
    <2>3. job'[r] = job[r] \/ \E F : Only(job[r], job'[r], F)
                                     /\ F \cap {"said", "billed", "carried", "reply"} = {}
      BY <2>2, Touches
    <2>. QED
      BY <1>2, <2>1, <2>3 DEF Charged
  <1>5. CASE ReadCorpus(r) \/ ReadDismissals(r)
    <2>1. pc[r] \in {"scheduled", "dismissals"} /\ pc'[r] \in {"dismissals", "call"}
      BY <1>5 DEF ReadCorpus, ReadDismissals
    <2>2. Only(job[r], job'[r], {"corpus"}) \/ Only(job[r], job'[r], {"told"})
      BY <1>5, Touches
    <2>3. /\ job'[r].said = job[r].said /\ job'[r].billed = job[r].billed
          /\ job'[r].carried = job[r].carried
      BY <2>2 DEF Only
    <2>. QED
      BY <2>1, <2>3 DEF Charged
  <1>6. CASE \E reply \in Replies : CallModel(r, reply)
    <2>1. pc'[r] = "filter" /\ job'[r].said = "list"
      BY <1>1, <1>6 DEF CallModel, Note, Jobs
    <2>. QED
      BY <2>1 DEF Charged
  <1>7. CASE CallModelUnusable(r)
    <2>1. pc'[r] = "fail" /\ job'[r].said = "unusable" /\ job'[r].carried
      BY <1>1, <1>7 DEF CallModelUnusable, Note, Jobs
    <2>. QED
      BY <2>1 DEF Charged
  <1>8. CASE CallModelNotAnObject(r)
    <2>1. pc'[r] = "fail" /\ job'[r].said = "not_an_object"
      BY <1>1, <1>8 DEF CallModelNotAnObject, Note, Jobs
    <2>. QED
      BY <2>1 DEF Charged
  <1>9. CASE RaiseUnbilled(r)
    <2>1. /\ pc[r] \in {"scheduled", "dismissals", "call"} /\ pc'[r] = "fail" /\ job' = job
      BY <1>9 DEF RaiseUnbilled
    <2>. QED
      BY <2>1 DEF Charged
  <1>10. CASE SkipUnresolved(r) \/ CheckSuppressed(r) \/ CheckOpen(r)
    <2>1. pc'[r] \in {"filter", "filter_open"}
      BY <1>10 DEF SkipUnresolved, CheckSuppressed, CheckOpen
    <2>2. \/ job' = job
          \/ Only(job[r], job'[r], {"reply"}) \/ Only(job[r], job'[r], {"reply", "rows"})
      BY <1>10, Touches
    <2>3. /\ job'[r].said = job[r].said /\ job'[r].billed = job[r].billed
          /\ job'[r].carried = job[r].carried
      BY <2>2 DEF Only
    <2>. QED
      BY <2>1, <2>3 DEF Charged
  <1>11. CASE InsertCandidate(r) \/ InsertRaises(r) \/ ReadStats(r) \/ complete_run(r)
                \/ WriteInScanRefused(r) \/ fail_run(r)
    <2>1. /\ pc[r] \in {"filter", "complete", "fail"}
          /\ pc'[r] \in {"filter", "complete", "fail", "finish"}
          /\ pc[r] = "filter" => job[r].reply = <<>>
      BY <1>11
      DEF InsertCandidate, InsertRaises, ReadStats, complete_run, WriteInScanRefused, fail_run
    <2>2. \/ job' = job
          \/ Only(job[r], job'[r], {"rows"}) \/ Only(job[r], job'[r], {"total", "stamp"})
      BY <1>11, Touches DEF InsertRaises, complete_run, WriteInScanRefused, fail_run
    <2>3. /\ job'[r].said = job[r].said /\ job'[r].billed = job[r].billed
          /\ job'[r].carried = job[r].carried /\ job'[r].reply = job[r].reply
      BY <2>2 DEF Only
    <2>. QED
      BY <2>1, <2>3 DEF Charged
  <1>12. CASE FailingFails(r) \/ CommitScan(r)
    BY <1>12 DEF FailingFails, CommitScan, Charged
  <1>13. CASE OtherStep(r)
    <2>1. pc'[r] \in OtherPoints \cup {"closed"}
      BY <1>13 DEF OtherStep, Ingest, IngestAgain, StampDismissal, Dismiss, Hold, StoreFinding,
                   CommitOther, OtherPoints
    <2>2. job' = job \/ StampDismissal(r)
      BY <1>13 DEF OtherStep, Ingest, IngestAgain, Dismiss, Hold, StoreFinding, CommitOther
    <2>3. job'[r] = job[r] \/ \E F : Only(job[r], job'[r], F)
                                     /\ F \cap {"said", "billed", "carried", "reply"} = {}
      BY <2>2, Touches
    <2>. QED
      BY <1>2, <2>1, <2>3 DEF Charged, OtherPoints
  <1>. QED
    BY <1>3, <1>4, <1>5, <1>6, <1>7, <1>8, <1>9, <1>10, <1>11, <1>12, <1>13 DEF Step, ScanStep

LEMMA CostStep ==
    ASSUME BaseInv, RunInv, CostInv, [Next]_vars
    PROVE  CostInv'
  <1>1. CASE \E r \in Connections : Step(r)
    <2>. PICK r \in Connections : Step(r)
      BY <1>1
    <2>0. \A s \in Connections : Charged(s)'
      <3>1. ASSUME NEW s \in Connections \ {r}
            PROVE  Charged(s)'
        BY OthersStay DEF BaseInv, CostInv, Charged
      <3>. QED
        BY <3>1, ChargedStep DEF CostInv
    <2>1. ASSUME NEW s \in Connections \ {r}, Accepted(s)'
          PROVE  /\ Accepted(s) /\ job'[s] = job[s] /\ db'.runs[job[s].run] = db.runs[job[s].run]
      <3>1. Accepted(s) /\ job'[s] = job[s]
        BY <2>1, OthersStay DEF BaseInv, Accepted
      <3>2. CommitScan(r) => Accepted(r)
        BY DEF CommitScan, Go, RunInv, HasRun, ScanPoints
      <3>3. CommitScan(r) => job[r].run # job[s].run
        BY <3>1, <3>2 DEF RunInv, OwnRuns
      <3>. QED
        BY <3>1, <3>3, RunRows DEF RunInv, HasRun
    <2>2. ASSUME Accepted(r)', ~CommitRun(r)
          PROVE  Accepted(r) /\ job[r].run \in DOMAIN db.runs /\ pc[r] \notin RequestPoints \cup {"idle"}
      BY <2>2, Answers DEF Accepted, RunInv, HasRun
    <2>. USE DEF CostInv, FreeRunsAreExplained, Ended
    <2>3. CASE CommitRun(r)
      <3>1. db'.runs[job'[r].run].status = "running"
        BY <2>3, Answers, RunStep DEF RunInv, HasRun, ScanPoints
      <3>. QED
        BY <2>0, <2>1, <3>1
    <2>4. CASE CommitScan(r)
      <3>1. job' = job /\ pc[r] = "finish" /\ job[r] \in Jobs
        BY <2>4, Answers DEF CommitScan, Go, BaseInv, TypeOK
      <3>2. db.runs[job[r].run] \in Runs /\ job[r].run \in DOMAIN db.runs
        BY <2>4, RunRows
      <3>3. db'.runs[job[r].run]
                \in {CompletedRow(r, db.runs[job[r].run]), FailedRow(r, db.runs[job[r].run])}
        BY <2>4, RunsMove, <3>2, RunRows
      <3>4. /\ CompletedRow(r, db.runs[job[r].run]).cost = job[r].billed
            /\ FailedRow(r, db.runs[job[r].run]).status = "failed"
            /\ FailedRow(r, db.runs[job[r].run]).cost =
                  IF job[r].carried THEN job[r].billed ELSE 0
        BY <3>2 DEF CompletedRow, FailedRow, Runs
      <3>5. ASSUME (IF job[r].carried THEN job[r].billed ELSE 0) # job[r].billed
            PROVE  \/ job[r].said = "not_an_object"
                   \/ job[r].said = "list" /\ job[r].reply = <<>>
        <4>1. job[r].said \in {"none", "list", "unusable", "not_an_object"}
          BY <3>1 DEF Jobs
        <4>. QED
          BY <3>1, <3>5, <4>1 DEF Charged
      <3>. QED
        BY <2>0, <2>1, <3>1, <3>3, <3>4, <3>5
    <2>5. CASE ~CommitRun(r) /\ ~CommitScan(r)
      <3>1. db'.runs = db.runs
        BY <2>5, RunsMove
      <3>2. ASSUME Accepted(r)', pc[r] \notin ScanPoints
            PROVE  /\ job'[r].run = job[r].run /\ job'[r].billed = job[r].billed
                   /\ job'[r].said = job[r].said /\ job'[r].reply = job[r].reply
        <4>1. pc[r] \notin RequestPoints
          BY <2>2, <2>5, <3>2
        <4>2. /\ ~start_run(r) /\ ~CallModelUnusable(r) /\ ~CallModelNotAnObject(r)
              /\ ~SkipUnresolved(r) /\ ~CheckSuppressed(r) /\ ~CheckOpen(r)
              /\ ~\E reply \in Replies : CallModel(r, reply)
          BY <3>2, <4>1
          DEF start_run, CallModel, CallModelUnusable, CallModelNotAnObject, SkipUnresolved,
              CheckSuppressed, CheckOpen, Go, RequestPoints, ScanPoints
        <4>3. \/ job' = job
              \/ \E F \in {{"corpus"}, {"told"}, {"rows"}, {"total", "stamp"}, {"stamp"}} :
                    Only(job[r], job'[r], F)
          BY <4>2, Touches DEF BaseInv
        <4>. QED
          BY <4>3 DEF Only
      <3>3. ASSUME Accepted(r)', pc[r] \in ScanPoints
            PROVE  db'.runs[job'[r].run].status = "running"
        <4>1. job' = job \/ start_run(r) \/ \E F : Only(job[r], job'[r], F) /\ "run" \notin F
          BY Touches DEF BaseInv
        <4>2. ~start_run(r)
          BY <3>3 DEF start_run, Go, ScanPoints
        <4>. QED
          BY <3>1, <3>3, <4>1, <4>2 DEF Only, RunInv, HasRun
      <3>. QED
        BY <2>0, <2>1, <2>2, <2>5, <3>1, <3>2, <3>3
    <2>. QED
      BY <2>3, <2>4, <2>5
  <1>2. CASE Crash
    <2>1. /\ UNCHANGED <<db, op, answer, req, job>>
          /\ \A r \in Connections : pc'[r] \in {pc[r], "killed"}
      BY <1>2 DEF Crash, Recover
    <2>. QED
      BY <2>1 DEF CostInv, FreeRunsAreExplained, Ended, Accepted, Charged, RequestPoints
  <1>3. CASE UNCHANGED vars
    BY <1>3 DEF vars, CostInv, FreeRunsAreExplained, Ended, Accepted, Charged
  <1>. QED
    BY <1>1, <1>2, <1>3, Steps

(***************************************************************************)
(* Of the runs that ended, those that do not show what they were billed    *)
(* are told apart: no other connection ever writes a scan's row, and what  *)
(* the scan holds does not change after its outcome is written (OwnRuns);  *)
(* until then Charged says for which answers the usage is at hand.         *)
(***************************************************************************)
THEOREM CostShown ==
    Spec => []FreeRunsAreExplained
  <1>1. Init => CostInv
    BY DEF Init, NoJob, CostInv, FreeRunsAreExplained, Ended, Accepted, Charged
  <1>2. BaseInv /\ RunInv /\ CostInv /\ [Next]_vars => CostInv'
    BY CostStep
  <1>3. CostInv => FreeRunsAreExplained
    BY DEF CostInv
  <1>. QED
    BY <1>1, <1>2, <1>3, BaseAlways, RunAlways, PTL DEF Spec

-----------------------------------------------------------------------------
(* Refusals.                                                               *)

OfFile(scope) == scope \in Scope /\ scope.file # 0

\* The scope of a file has no window.
ScopeOK(scope) == OfFile(scope) => scope.since = 0

(***************************************************************************)
(* What a request has counted is still there, and the run it compares with *)
(* is of its own scope.                                                    *)
(***************************************************************************)
RequestOK(r) ==
    /\ ScopeOK(req[r].scope)
    /\ req[r].counted \subseteq EventsIn(db, req[r].scope)
    /\ pc[r] \in {"idle", "analyze", "resolve", "count"} => req[r].counted = {} /\ req[r].last = 0
    /\ req[r].last # 0 =>
          /\ req[r].scope \in Scope
          /\ req[r].last \in DOMAIN db.runs
          /\ db.runs[req[r].last].status = "completed"
          /\ SameScope(db.runs[req[r].last].scope, req[r].scope)
          /\ pc[r] = "feedback" \/ answer[r] = "409" =>
                db.runs[req[r].last].considered = Cardinality(req[r].counted)

\* A scan that has read its corpus, and has not failed since.
HasCorpus(s) ==
    /\ Accepted(s)
    /\ \/ pc[s] \in {"dismissals", "call", "filter", "filter_open", "complete"}
       \/ db.runs[job[s].run].status = "completed"
       \/ pc[s] = "finish" /\ work.runs[job[s].run].status = "completed"

\* What a scan was given is still there, and a completed run shows its recount.
CorpusOK(s) ==
    /\ HasCorpus(s) => job[s].corpus \subseteq EventsIn(db, db.runs[job[s].run].scope)
    /\ Accepted(s) /\ db.runs[job[s].run].status = "completed" =>
          db.runs[job[s].run].considered = job[s].total

(***************************************************************************)
(* Two sets read of one file at different times: one has all of the other, *)
(* as a file only grows.                                                   *)
(***************************************************************************)
Nested(r, s) ==
    HasCorpus(s) /\ OfFile(req[r].scope) /\ SameScope(db.runs[job[s].run].scope, req[r].scope) =>
        \/ req[r].counted \subseteq job[s].corpus
        \/ job[s].corpus \subseteq req[r].counted

RefInv ==
    /\ \A i \in DOMAIN db.runs : ScopeOK(db.runs[i].scope)
    /\ \A r \in Connections : RequestOK(r) /\ CorpusOK(r)
    /\ \A r, s \in Connections : Nested(r, s)

\* A step takes no event out of a scope.
LEMMA EventsStay ==
    ASSUME BaseInv, NEW r \in Connections, Step(r), NEW scope
    PROVE  EventsIn(db, scope) \subseteq EventsIn(db', scope)
  <1>1. db' = db \/ Keeps(db, db')
    BY Commits
  <1>. QED
    BY <1>1, EventsGrow

\* A run keeps its scope, and its outcome once it has one.
LEMMA RunStays ==
    ASSUME BaseInv, RunInv, NEW r \in Connections, Step(r), NEW i \in DOMAIN db.runs
    PROVE  /\ i \in DOMAIN db'.runs /\ db'.runs[i].scope = db.runs[i].scope
           /\ db.runs[i].status = "completed" => db'.runs[i] = db.runs[i]
           /\ db'.runs[i].status = "completed" /\ db.runs[i].status # "completed" =>
                 /\ CommitScan(r) /\ i = job[r].run
                 /\ db'.runs[i].considered = job[r].total
  <1>1. db.runs[i] \in Runs
    BY RunRows
  <1>2. /\ CompletedRow(r, db.runs[i]).scope = db.runs[i].scope
        /\ FailedRow(r, db.runs[i]).scope = db.runs[i].scope
        /\ CompletedRow(r, db.runs[i]).considered = job[r].total
        /\ FailedRow(r, db.runs[i]).status = "failed"
    BY <1>1 DEF CompletedRow, FailedRow, Runs
  <1>3. CommitScan(r) => db.runs[job[r].run].status = "running"
    BY DEF CommitScan, Go, ScanPoints, RunInv, HasRun
  <1>. QED
    BY <1>2, <1>3, RunRows

\* The scope of a run is the scope of the request that its last_run is compared for.
LEMMA RunScopes ==
    ASSUME BaseInv, NEW i \in DOMAIN db.runs
    PROVE  db.runs[i].scope \in Scope
  <1>1. db.runs \in Seq(Runs)
    BY DEF BaseInv, TypeOK, Contents
  <1>2. db.runs[i] \in Runs
    BY <1>1
  <1>. QED
    BY <1>2 DEF Runs

LEMMA SameEvents ==
    ASSUME NEW contents, NEW had, NEW asked, SameScope(had, asked), had.since = asked.since
    PROVE  EventsIn(contents, had) = EventsIn(contents, asked)
  BY DEF SameScope, EventsIn

LEMMA RequestStay ==
    ASSUME BaseInv, RunInv, RefInv, NEW r \in Connections, Step(r), NEW s \in Connections,
           req'[s] = req[s],
           pc'[s] \in {"idle", "analyze", "resolve", "count"} =>
              pc[s] \in {"idle", "analyze", "resolve", "count"},
           req[s].last = 0 \/ (pc'[s] = "feedback" \/ answer'[s] = "409" =>
                                  pc[s] = "feedback" \/ answer[s] = "409")
    PROVE  RequestOK(s)'
  <1>1. RequestOK(s)
    BY DEF RefInv
  <1>2. req[s].counted \subseteq EventsIn(db', req[s].scope)
    BY <1>1, EventsStay DEF RequestOK
  <1>3. ASSUME req[s].last # 0
        PROVE  /\ req[s].last \in DOMAIN db'.runs
               /\ db'.runs[req[s].last] = db.runs[req[s].last]
    BY <1>1, <1>3, RunStays DEF RequestOK
  <1>. QED
    BY <1>1, <1>2, <1>3 DEF RequestOK, OfFile, ScopeOK

LEMMA WhoRequests ==
    ASSUME NEW r \in Connections, TypeOK, Step(r), req'[r] # req[r]
    PROVE  ResolveScope(r) \/ CountEvents(r) \/ CompareLastRun(r)
  <1>1. CASE \E o \in Operations : Arrive(r, o)
    BY <1>1, Arrivals
  <1>2. CASE RequestStep(r)
    BY <1>2
    DEF RequestStep, FindAnyEvents, RefuseNoEvents, RefuseScope, RefuseEmptyScope, FindFeedback,
        RefuseRun, start_run, RequestTimesOut, CommitRun, EndRequest
  <1>3. CASE ScanStep(r)
    BY <1>3
    DEF ScanStep, ReadCorpus, ReadDismissals, CallModel, CallModelUnusable, CallModelNotAnObject,
        RaiseUnbilled, SkipUnresolved, CheckSuppressed, CheckOpen, InsertCandidate, InsertRaises,
        ReadStats, complete_run, WriteInScanRefused, fail_run, FailingFails, CommitScan, taskVars
  <1>4. CASE OtherStep(r)
    BY <1>4
    DEF OtherStep, Ingest, IngestAgain, StampDismissal, Dismiss, Hold, StoreFinding, CommitOther,
        taskVars
  <1>. QED
    BY <1>1, <1>2, <1>3, <1>4 DEF Step

\* While a request reads, it sees the file and leaves it as it is.
LEMMA RequestMoves ==
    ASSUME BaseInv, RunInv, RefInv, NEW r \in Connections,
           ResolveScope(r) \/ CountEvents(r) \/ CompareLastRun(r)
    PROVE  RequestOK(r)'
  <1>. USE DEF BaseInv
  <1>0. RequestOK(r) /\ db \in Contents
    BY DEF RefInv, TypeOK
  <1>2. View(r) = db /\ db' = db
    BY DEF ResolveScope, CountEvents, CompareLastRun, Go, Read, View, Writer, LockInv, Locks
  <1>3. CASE ResolveScope(r)
    <2>. DEFINE scope == resolve_scope(db, op[r])
    <2>1. /\ pc[r] = "resolve" /\ pc'[r] = "count" /\ Resolvable(db, op[r])
          /\ req' = [req EXCEPT ![r].scope = scope]
      BY <1>2, <1>3 DEF ResolveScope, Go, TypeOK
    <2>2. op[r] \in OperationTypes /\ op[r].kind = "analyze"
      BY <2>1, OperationFields DEF PlaceInv, Placed, RequestPoints, TypeOK
    <2>3. scope \in Scope /\ (scope.file # 0 => scope.since = 0)
      BY <1>0, <2>1, <2>2, ResolvedScope
    <2>. HIDE DEF scope
    <2>4. req'[r].scope = scope /\ req'[r].counted = req[r].counted /\ req'[r].last = req[r].last
      BY <2>1 DEF TypeOK
    <2>. QED
      BY <1>0, <1>2, <2>1, <2>3, <2>4 DEF RequestOK, ScopeOK, OfFile
  <1>4. CASE CountEvents(r)
    <2>. DEFINE counted == EventsIn(db, req[r].scope)
    <2>1. pc[r] = "count" /\ pc'[r] = "compare" /\ req' = [req EXCEPT ![r].counted = counted]
      BY <1>2, <1>4 DEF CountEvents, Go, TypeOK
    <2>. HIDE DEF counted
    <2>2. req'[r].scope = req[r].scope /\ req'[r].counted = counted /\ req'[r].last = req[r].last
      BY <2>1 DEF TypeOK
    <2>. QED
      BY <1>0, <1>2, <2>1, <2>2 DEF RequestOK, ScopeOK, OfFile, counted
  <1>5. CASE CompareLastRun(r)
    <2>. DEFINE last == get_last_completed_run_for_scope(db, req[r].scope)
    <2>1. /\ pc[r] = "compare" /\ pc'[r] \in {"feedback", "insert_run"}
          /\ req' = [req EXCEPT ![r].last = last]
      BY <1>2, <1>5 DEF CompareLastRun, Go, TypeOK
    <2>2. last # 0 => /\ last \in DOMAIN db.runs /\ db.runs[last].status = "completed"
                      /\ SameScope(db.runs[last].scope, req[r].scope)
      BY <1>0, LastRun
    <2>5. /\ answer'[r] # "409"
          /\ last # 0 /\ pc'[r] = "feedback" =>
                db.runs[last].considered = Cardinality(req[r].counted)
      <3>1. answer[r] = "none" /\ answer' = answer
        BY <1>5, <2>1 DEF RunInv, HasRun, RequestPoints, CompareLastRun, requestVars
      <3>. QED
        BY <1>2, <1>5, <3>1 DEF CompareLastRun, Go, TypeOK
    <2>3. req[r].scope \in Scope
      BY <2>1 DEF PlaceInv, Placed
    <2>. HIDE DEF last
    <2>4. req'[r].scope = req[r].scope /\ req'[r].counted = req[r].counted /\ req'[r].last = last
      BY <2>1 DEF TypeOK
    <2>. QED
      BY <1>0, <1>2, <2>1, <2>2, <2>3, <2>4, <2>5 DEF RequestOK, ScopeOK, OfFile
  <1>. QED
    BY <1>3, <1>4, <1>5

\* What a scan has when it has read its corpus, it has kept since.
LEMMA CorpusKept ==
    ASSUME BaseInv, RunInv, RefInv, NEW r \in Connections, Step(r), NEW s \in Connections,
           HasCorpus(s)', ~(s = r /\ ReadCorpus(r))
    PROVE  HasCorpus(s) /\ job'[s].run = job[s].run /\ job'[s].corpus = job[s].corpus
  <1>. USE DEF BaseInv
  <1>1. ~(s = r /\ CommitRun(r))
    <2>. SUFFICES ASSUME s = r, CommitRun(r) PROVE FALSE
      OBVIOUS
    <2>1. pc'[r] = "scheduled"
      BY Answers
    <2>2. db'.runs[job'[r].run].status = "running"
      BY <2>1, RunStep DEF RunInv, HasRun, ScanPoints
    <2>. QED
      BY <2>1, <2>2 DEF HasCorpus
  <1>2. Accepted(s) /\ job'[s].run = job[s].run /\ job[s].run \in DOMAIN db.runs
    BY <1>1, AcceptedBefore DEF HasCorpus, RunInv, HasRun
  <1>3. ASSUME s # r
        PROVE  HasCorpus(s) /\ job'[s].corpus = job[s].corpus
    <2>1. pc'[s] = pc[s] /\ job'[s] = job[s]
      BY <1>3, OthersStay
    <2>2. CASE db'.runs[job[s].run].status = "completed" /\ db.runs[job[s].run].status # "completed"
      <3>1. CommitScan(r) /\ job[s].run = job[r].run
        BY <1>2, <2>2, RunStays
      <3>2. Accepted(r)
        BY <3>1 DEF CommitScan, Go, ScanPoints, RunInv, HasRun
      <3>. QED
        BY <1>2, <1>3, <3>1, <3>2 DEF RunInv, OwnRuns
    <2>3. ASSUME pc[s] = "finish"
          PROVE  work' = work
      <3>1. Writer(s) /\ LocksOK
        BY <2>3 DEF LockInv, Locks, LocksOK, TypeOK
      <3>. QED
        BY <1>3, <3>1, StepIsStatement, OthersIsolated
    <2>. QED
      BY <1>2, <2>1, <2>2, <2>3 DEF HasCorpus
  <1>4. ASSUME s = r
        PROVE  HasCorpus(s) /\ job'[s].corpus = job[s].corpus
    <2>1. ~ReadCorpus(r) /\ ~CommitRun(r)
      BY <1>1, <1>4
    <2>2. job'[r].corpus = job[r].corpus
      <3>1. job' = job \/ \E F : Only(job[r], job'[r], F) /\ "corpus" \notin F
        BY <2>1, Touches
      <3>. QED
        BY <3>1 DEF Only
    <2>3. CASE db'.runs[job[r].run].status = "completed"
      <3>1. CASE db.runs[job[r].run].status = "completed"
        BY <1>2, <1>4, <2>2, <3>1 DEF HasCorpus
      <3>2. CASE CommitScan(r)
        <4>1. pc[r] = "finish" /\ db' = work
          BY <3>2 DEF CommitScan, Go, Commit, LockInv, Locks
        <4>. QED
          BY <1>2, <1>4, <2>2, <2>3, <4>1 DEF HasCorpus
      <3>. QED
        BY <1>2, <1>4, <2>3, <3>1, <3>2, RunStays
    <2>4. CASE pc'[r] \in {"dismissals", "call", "filter", "filter_open", "complete"}
      <3>1. pc[r] \in {"dismissals", "call", "filter", "filter_open", "complete"}
        <4>1. pc[r] \in ScanPoints /\ ~(\E o \in Operations : Arrive(r, o))
          BY <2>1, <2>4, Tasks, Arrivals DEF ScanPoints
        <4>2. ScanStep(r)
          <5>1. RequestStep(r) => pc[r] \in RequestPoints
            BY
            DEF RequestStep, FindAnyEvents, RefuseNoEvents, ResolveScope, RefuseScope, CountEvents,
                RefuseEmptyScope, CompareLastRun, FindFeedback, RefuseRun, start_run,
                RequestTimesOut, CommitRun, Go, RequestPoints
          <5>2. OtherStep(r) => pc[r] \in OtherPoints
            BY
            DEF OtherStep, Ingest, IngestAgain, StampDismissal, Dismiss, Hold, StoreFinding,
                CommitOther, Go, OtherPoints
          <5>. QED
            BY <4>1, <5>1, <5>2 DEF Step, RequestPoints, OtherPoints, ScanPoints
        <4>. QED
          BY <2>1, <2>4, <4>2
          DEF ScanStep, ReadDismissals, CallModel, CallModelUnusable, CallModelNotAnObject,
              RaiseUnbilled, SkipUnresolved, CheckSuppressed, CheckOpen, InsertCandidate,
              InsertRaises, ReadStats, complete_run, WriteInScanRefused, fail_run, FailingFails,
              CommitScan, Go, TypeOK
      <3>. QED
        BY <1>2, <1>4, <2>2, <3>1 DEF HasCorpus
    <2>5. CASE pc'[r] = "finish" /\ work'.runs[job[r].run].status = "completed"
      <3>1. complete_run(r) \/ fail_run(r)
        <4>1. CASE \E o \in Operations : Arrive(r, o)
          BY <2>5, <4>1, Arrivals
        <4>2. CASE RequestStep(r) \/ OtherStep(r)
          BY <2>5, <4>2
          DEF RequestStep, FindAnyEvents, RefuseNoEvents, ResolveScope, RefuseScope, CountEvents,
              RefuseEmptyScope, CompareLastRun, FindFeedback, RefuseRun, start_run, RequestTimesOut,
              CommitRun, EndRequest, Go, TypeOK, OtherStep, Ingest, IngestAgain, StampDismissal,
              Dismiss, Hold, StoreFinding, CommitOther
        <4>3. CASE ScanStep(r)
          BY <2>5, <4>3
          DEF ScanStep, ReadCorpus, ReadDismissals, CallModel, CallModelUnusable,
              CallModelNotAnObject, RaiseUnbilled, SkipUnresolved, CheckSuppressed, CheckOpen,
              InsertCandidate, InsertRaises, ReadStats, complete_run, WriteInScanRefused, fail_run,
              FailingFails, CommitScan, Go, TypeOK
        <4>. QED
          BY <4>1, <4>2, <4>3 DEF Step
      <3>2. job[r].run \in DOMAIN View(r).runs
        BY <3>1, ScanView DEF complete_run, fail_run, Go, PlaceInv, Placed, ScanPoints
      <3>3. complete_run(r)
        <4>1. PICK row : /\ work'.runs = [View(r).runs EXCEPT ![job[r].run] = row]
                         /\ complete_run(r) \/ row.status = "failed"
          BY <3>1, <3>2, OutcomeMakes
        <4>. QED
          BY <2>5, <3>2, <4>1
      <3>. QED
        BY <1>2, <1>4, <2>2, <3>3 DEF complete_run, Go, HasCorpus
    <2>. QED
      BY <1>2, <1>4, <2>3, <2>4, <2>5 DEF HasCorpus
  <1>. QED
    BY <1>2, <1>3, <1>4

\* A scan that reads its corpus reads the file as it is.
LEMMA CorpusRead ==
    ASSUME BaseInv, NEW r \in Connections, ReadCorpus(r)
    PROVE  /\ db' = db /\ req' = req /\ job'[r].run = job[r].run
           /\ job'[r].corpus = EventsIn(db, db.runs[job[r].run].scope)
  <1>1. View(r) = db /\ db' = db /\ req' = req
    BY DEF ReadCorpus, Go, Read, View, Writer, BaseInv, LockInv, Locks, taskVars
  <1>. DEFINE corpus == EventsIn(db, db.runs[job[r].run].scope)
  <1>2. job' = [job EXCEPT ![r] = [job[r] EXCEPT !.corpus = corpus]]
    BY <1>1 DEF ReadCorpus, Note
  <1>. HIDE DEF corpus
  <1>3. job'[r].corpus = corpus /\ job'[r].run = job[r].run
    BY <1>2 DEF BaseInv, TypeOK, Jobs
  <1>. QED
    BY <1>1, <1>3 DEF corpus

\* What a scan counted last stays what its run shows.
LEMMA TotalKept ==
    ASSUME BaseInv, RunInv, RefInv, NEW r \in Connections, Step(r), NEW s \in Connections,
           Accepted(s)', (db.runs[job[s].run].status = "completed")'
    PROVE  db'.runs[job'[s].run].considered = job'[s].total
  <1>. USE DEF BaseInv
  <1>1. ~(s = r /\ CommitRun(r))
    <2>. SUFFICES ASSUME s = r, CommitRun(r) PROVE FALSE
      OBVIOUS
    <2>1. pc'[r] = "scheduled"
      BY Answers
    <2>2. db'.runs[job'[r].run].status = "running"
      BY <2>1, RunStep DEF RunInv, HasRun, ScanPoints
    <2>. QED
      BY <2>2
  <1>2. Accepted(s) /\ job'[s].run = job[s].run /\ job[s].run \in DOMAIN db.runs
    BY <1>1, AcceptedBefore DEF RunInv, HasRun
  <1>3. CASE CommitScan(r) /\ s = r
    <2>1. job' = job /\ db.runs[job[r].run].status = "running"
      BY <1>3, Answers DEF CommitScan, Go, ScanPoints, RunInv, HasRun
    <2>. QED
      BY <1>2, <1>3, <2>1, RunStays
  <1>4. CASE ~(CommitScan(r) /\ s = r)
    <2>1. db.runs[job[s].run].status = "completed"
      <3>1. CommitScan(r) => Accepted(r)
        BY DEF CommitScan, Go, ScanPoints, RunInv, HasRun
      <3>2. CommitScan(r) /\ s # r => job[s].run # job[r].run
        BY <1>2, <3>1 DEF RunInv, OwnRuns
      <3>. QED
        BY <1>2, <1>4, <3>2, RunStays
    <2>2. job'[s].total = job[s].total
      <3>1. CASE s # r
        BY <3>1, OthersStay
      <3>2. CASE s = r
        <4>1. pc[r] \notin ScanPoints
          BY <2>1, <3>2 DEF RunInv, HasRun
        <4>2. ~ReadStats(r)
          BY <4>1 DEF ReadStats, Go, ScanPoints
        <4>3. job' = job \/ \E F : Only(job[r], job'[r], F) /\ "total" \notin F
          BY <4>2, Touches
        <4>. QED
          BY <3>2, <4>3 DEF Only
      <3>. QED
        BY <3>1, <3>2
    <2>3. db'.runs[job[s].run] = db.runs[job[s].run]
      BY <1>2, <2>1, RunStays
    <2>. QED
      BY <1>2, <2>1, <2>2, <2>3 DEF RefInv, CorpusOK
  <1>. QED
    BY <1>3, <1>4

LEMMA CorpusMoves ==
    ASSUME BaseInv, RunInv, RefInv, NEW r \in Connections, Step(r), NEW s \in Connections
    PROVE  CorpusOK(s)'
  <1>1. ASSUME HasCorpus(s)'
        PROVE  job'[s].corpus \subseteq EventsIn(db', db'.runs[job'[s].run].scope)
    <2>1. CASE s = r /\ ReadCorpus(r)
      BY <2>1, CorpusRead
    <2>2. CASE ~(s = r /\ ReadCorpus(r))
      <3>1. HasCorpus(s) /\ job'[s].run = job[s].run /\ job'[s].corpus = job[s].corpus
        BY <1>1, <2>2, CorpusKept
      <3>2. job[s].run \in DOMAIN db.runs /\ db'.runs[job[s].run].scope = db.runs[job[s].run].scope
        BY <3>1, RunStays DEF HasCorpus, RunInv, HasRun
      <3>. QED
        BY <3>1, <3>2, EventsStay DEF RefInv, CorpusOK
    <2>. QED
      BY <2>1, <2>2
  <1>. QED
    BY <1>1, TotalKept DEF CorpusOK

\* Whoever reads later reads no less.
LEMMA NestedStep ==
    ASSUME BaseInv, RunInv, RefInv, NEW r \in Connections, Step(r),
           NEW q \in Connections, NEW s \in Connections
    PROVE  Nested(q, s)'
  <1>. SUFFICES ASSUME HasCorpus(s)', OfFile(req[q].scope)',
                       SameScope(db.runs[job[s].run].scope, req[q].scope)'
                PROVE  \/ req'[q].counted \subseteq job'[s].corpus
                       \/ job'[s].corpus \subseteq req'[q].counted
    BY DEF Nested
  <1>. DEFINE had == db.runs[job[s].run].scope
  <1>0. \A c \in Connections : RequestOK(c) /\ CorpusOK(c)
    BY DEF RefInv
  <1>1. CASE s = r /\ ReadCorpus(r)
    <2>1. /\ db' = db /\ req' = req /\ job'[s].run = job[s].run
          /\ job'[s].corpus = EventsIn(db, had)
      BY <1>1, CorpusRead
    <2>2. job[s].run \in DOMAIN db.runs
      BY <1>1 DEF ReadCorpus, Go, ScanPoints, BaseInv, PlaceInv, Placed
    <2>3. had \in Scope /\ SameScope(had, req[q].scope) /\ OfFile(req[q].scope)
      BY <2>1, <2>2, RunScopes DEF OfFile
    <2>4. had.since = 0 /\ req[q].scope.since = 0
      BY <1>0, <2>2, <2>3 DEF RefInv, RequestOK, ScopeOK, OfFile, SameScope
    <2>5. EventsIn(db, had) = EventsIn(db, req[q].scope)
      BY <2>3, <2>4, SameEvents
    <2>. QED
      BY <1>0, <2>1, <2>5 DEF RequestOK
  <1>2. CASE ~(s = r /\ ReadCorpus(r))
    <2>1. HasCorpus(s) /\ job'[s].run = job[s].run /\ job'[s].corpus = job[s].corpus
      BY <1>2, CorpusKept
    <2>2. job[s].run \in DOMAIN db.runs /\ db'.runs[job[s].run].scope = had
      BY <2>1, RunStays DEF HasCorpus, RunInv, HasRun
    <2>3. CASE req'[q].scope = req[q].scope /\ req'[q].counted = req[q].counted
      BY <2>1, <2>2, <2>3 DEF RefInv, Nested, OfFile
    <2>4. CASE ~(req'[q].scope = req[q].scope /\ req'[q].counted = req[q].counted)
      <3>1. q = r /\ req'[r] # req[r]
        BY <2>4, OthersStay DEF BaseInv
      <3>2. ResolveScope(r) \/ CountEvents(r) \/ CompareLastRun(r)
        BY <3>1, WhoRequests DEF BaseInv
      <3>3. View(r) = db
        BY <3>2
        DEF ResolveScope, CountEvents, CompareLastRun, Go, View, Writer, BaseInv, LockInv, Locks
      <3>4. CASE ResolveScope(r)
        <4>1. pc[r] = "resolve" /\ req'[r].counted = req[r].counted
          BY <3>4 DEF ResolveScope, Go, BaseInv, TypeOK
        <4>. QED
          BY <1>0, <3>1, <4>1 DEF RequestOK
      <3>5. CASE CountEvents(r)
        <4>1. req'[r].counted = EventsIn(db, req[r].scope) /\ req'[r].scope = req[r].scope
          <5>. DEFINE counted == EventsIn(db, req[r].scope)
          <5>1. req' = [req EXCEPT ![r].counted = counted]
            BY <3>3, <3>5 DEF CountEvents
          <5>. HIDE DEF counted
          <5>2. req'[r].counted = counted /\ req'[r].scope = req[r].scope
            BY <5>1 DEF BaseInv, TypeOK
          <5>. QED
            BY <5>2 DEF counted
        <4>2. had \in Scope /\ SameScope(had, req[r].scope) /\ OfFile(req[r].scope)
          BY <2>1, <2>2, <3>1, <4>1, RunScopes DEF OfFile
        <4>3. had.since = 0 /\ req[r].scope.since = 0
          BY <1>0, <2>2, <4>2 DEF RefInv, RequestOK, ScopeOK, OfFile, SameScope
        <4>4. EventsIn(db, had) = EventsIn(db, req[r].scope)
          BY <4>2, <4>3, SameEvents
        <4>. QED
          BY <1>0, <2>1, <3>1, <4>1, <4>4 DEF CorpusOK
      <3>6. CASE CompareLastRun(r)
        <4>1. req'[r].scope = req[r].scope /\ req'[r].counted = req[r].counted
          BY <3>6 DEF CompareLastRun, BaseInv, TypeOK
        <4>. QED
          BY <2>4, <3>1, <4>1
      <3>. QED
        BY <3>2, <3>4, <3>5, <3>6
    <2>. QED
      BY <2>3, <2>4
  <1>. QED
    BY <1>1, <1>2

LEMMA RefStep ==
    ASSUME BaseInv, RunInv, RefInv, NEW r \in Connections, Step(r)
    PROVE  RefInv'
  <1>1. ASSUME NEW i \in DOMAIN db'.runs
        PROVE  ScopeOK(db.runs[i].scope)'
    <2>1. CASE i \in DOMAIN db.runs
      <3>1. db'.runs[i].scope = db.runs[i].scope /\ ScopeOK(db.runs[i].scope)
        BY <2>1, RunStays DEF RefInv
      <3>. QED
        BY <3>1 DEF ScopeOK, OfFile
    <2>2. CASE i \notin DOMAIN db.runs
      <3>1. CommitRun(r) /\ db'.runs[i] = Started(r)
        <4>1. db.runs \in Seq(Runs) /\ db'.runs \in Seq(Runs)
          BY RunRows
        <4>2. CASE CommitRun(r)
          <5>1. db'.runs = Append(db.runs, Started(r))
            BY <4>2, RunsMove DEF CommitScan, CommitRun, Go
          <5>. QED
            BY <2>2, <4>1, <4>2, <5>1
        <4>3. CASE ~CommitRun(r)
          BY <2>2, <4>1, <4>3, RunsMove
        <4>. QED
          BY <4>2, <4>3
      <3>2. ScopeOK(req[r].scope)
        BY DEF RefInv, RequestOK
      <3>3. db'.runs[i].scope = req[r].scope
        BY <3>1 DEF Started
      <3>. QED
        BY <3>2, <3>3 DEF ScopeOK, OfFile
    <2>. QED
      BY <2>1, <2>2
  <1>2. ASSUME NEW s \in Connections
        PROVE  RequestOK(s)'
    <2>1. pc'[r] \in {"idle", "analyze", "resolve", "count"} =>
             pc[r] \in {"idle", "analyze", "resolve", "count"}
      <3>1. CASE \E o \in Operations : Arrive(r, o)
        BY <3>1, Arrivals DEF BaseInv
      <3>2. CASE RequestStep(r)
        BY <3>2
        DEF RequestStep, FindAnyEvents, RefuseNoEvents, ResolveScope, RefuseScope, CountEvents,
            RefuseEmptyScope, CompareLastRun, FindFeedback, RefuseRun, start_run, RequestTimesOut,
            CommitRun, EndRequest, Go, BaseInv, TypeOK
      <3>3. CASE ScanStep(r)
        BY <3>3
        DEF ScanStep, ReadCorpus, ReadDismissals, CallModel, CallModelUnusable,
            CallModelNotAnObject, RaiseUnbilled, SkipUnresolved, CheckSuppressed, CheckOpen,
            InsertCandidate, InsertRaises, ReadStats, complete_run, WriteInScanRefused, fail_run,
            FailingFails, CommitScan, Go, BaseInv, TypeOK
      <3>4. CASE OtherStep(r)
        BY <3>4
        DEF OtherStep, Ingest, IngestAgain, StampDismissal, Dismiss, Hold, StoreFinding,
            CommitOther, Go, BaseInv, TypeOK
      <3>. QED
        BY <3>1, <3>2, <3>3, <3>4 DEF Step
    <2>2. CASE s # r
      BY <2>2, OthersStay, RequestStay DEF BaseInv
    <2>5. req[r].last = 0 \/ (pc'[r] = "feedback" \/ answer'[r] = "409" =>
                                 pc[r] = "feedback" \/ answer[r] = "409" \/ CompareLastRun(r))
      <3>0. RequestOK(r)
        BY DEF RefInv
      <3>1. CASE \E o \in Operations : Arrive(r, o)
        BY <3>1, Arrivals DEF BaseInv
      <3>2. CASE RequestStep(r)
        <4>1. CASE RefuseNoEvents(r)
          BY <3>0, <4>1 DEF RefuseNoEvents, RequestOK
        <4>2. CASE ~RefuseNoEvents(r)
          BY <3>2, <4>2
          DEF RequestStep, FindAnyEvents, ResolveScope, RefuseScope, CountEvents,
              RefuseEmptyScope, FindFeedback, RefuseRun, start_run, RequestTimesOut, CommitRun,
              EndRequest, requestVars, Go, BaseInv, TypeOK
        <4>. QED
          BY <4>1, <4>2
      <3>3. CASE ScanStep(r) \/ OtherStep(r)
        <4>1. pc[r] \notin RequestPoints \cup {"idle"}
          <5>1. ScanStep(r) => pc[r] \in ScanPoints
            BY DEF ScanStep, ReadCorpus, ReadDismissals, CallModel, CallModelUnusable,
                   CallModelNotAnObject, RaiseUnbilled, SkipUnresolved, CheckSuppressed, CheckOpen,
                   InsertCandidate, InsertRaises, ReadStats, complete_run, WriteInScanRefused,
                   fail_run, FailingFails, CommitScan, Go, ScanPoints
          <5>2. OtherStep(r) => pc[r] \in OtherPoints
            BY DEF OtherStep, Ingest, IngestAgain, StampDismissal, Dismiss, Hold, StoreFinding,
                   CommitOther, Go, OtherPoints
          <5>. QED
            BY <3>3, <5>1, <5>2 DEF ScanPoints, OtherPoints, RequestPoints
        <4>2. answer'[r] = answer[r] /\ pc'[r] \notin RequestPoints
          BY <4>1, Answers
        <4>. QED
          BY <4>2 DEF RequestPoints
      <3>. QED
        BY <3>1, <3>2, <3>3 DEF Step
    <2>. DEFINE reads == ResolveScope(r) \/ CountEvents(r) \/ CompareLastRun(r)
    <2>3. CASE s = r /\ ~reads
      BY <2>1, <2>3, <2>5, WhoRequests, RequestStay DEF BaseInv
    <2>4. CASE s = r /\ reads
      BY <2>4, RequestMoves
    <2>. QED
      BY <2>2, <2>3, <2>4
  <1>. QED
    BY <1>1, <1>2, CorpusMoves, NestedStep DEF RefInv

LEMMA RefAlways ==
    Spec => []RefInv
  <1>1. Init => RefInv
    <2>. SUFFICES ASSUME Init PROVE RefInv
      OBVIOUS
    <2>1. db.runs = <<>> /\ \A i \in DOMAIN <<>> : FALSE
      BY DEF Init, OpenFile
    <2>2. ASSUME NEW r \in Connections
          PROVE  ~Accepted(r) /\ req[r] = NoRequest /\ pc[r] = "idle"
      BY DEF Init, Accepted, NoOperation
    <2>3. ~OfFile(NoRequest.scope)
      <3>1. NoRequest.scope.mode = "none"
        BY DEF NoRequest
      <3>. QED
        BY <3>1 DEF OfFile, Scope
    <2>4. ASSUME NEW r \in Connections
          PROVE  RequestOK(r) /\ CorpusOK(r) /\ \A q \in Connections : Nested(q, r)
      <3>1. NoRequest.counted = {} /\ NoRequest.last = 0
        BY DEF NoRequest
      <3>. QED
        BY <2>2, <2>3, <3>1 DEF RequestOK, ScopeOK, CorpusOK, HasCorpus, Nested
    <2>. QED
      BY <2>1, <2>4 DEF RefInv
  <1>2. ASSUME BaseInv, RunInv, RefInv, [Next]_vars
        PROVE  RefInv'
    <2>1. CASE Crash
      <3>1. /\ UNCHANGED <<db, op, answer, req, job>>
            /\ \A r \in Connections : /\ pc'[r] \in {"idle", "closed", "killed"}
                                      /\ pc'[r] = "idle" => pc[r] = "idle"
        BY <2>1 DEF Crash, Recover
      <3>2. ASSUME NEW r \in Connections
            PROVE  /\ RequestOK(r)' /\ CorpusOK(r)'
                   /\ \A q \in Connections : Nested(q, r)'
        <4>1. RequestOK(r) /\ CorpusOK(r) /\ \A q \in Connections : Nested(q, r)
          BY <1>2 DEF RefInv
        <4>. QED
          BY <3>1, <4>1 DEF RequestOK, CorpusOK, Nested, HasCorpus, Accepted, ScopeOK
      <3>3. \A i \in DOMAIN db.runs : ScopeOK(db.runs[i].scope)'
        BY <1>2, <3>1 DEF RefInv, ScopeOK
      <3>. QED
        BY <3>1, <3>2, <3>3 DEF RefInv
    <2>2. CASE UNCHANGED vars
      <3>1. ASSUME NEW r \in Connections
            PROVE  /\ RequestOK(r)' /\ CorpusOK(r)'
                   /\ \A q \in Connections : Nested(q, r)'
        <4>1. RequestOK(r) /\ CorpusOK(r) /\ \A q \in Connections : Nested(q, r)
          BY <1>2 DEF RefInv
        <4>. QED
          BY <2>2, <4>1 DEF vars, RequestOK, CorpusOK, Nested, HasCorpus, Accepted, ScopeOK
      <3>2. \A i \in DOMAIN db'.runs : ScopeOK(db.runs[i].scope)'
        BY <1>2, <2>2 DEF vars, RefInv, ScopeOK
      <3>. QED
        BY <3>1, <3>2 DEF RefInv
    <2>. QED
      BY <1>2, <2>1, <2>2, Steps, RefStep
  <1>. QED
    BY <1>1, <1>2, BaseAlways, RunAlways, PTL DEF Spec

(***************************************************************************)
(* Refusals of one file are right, although trigger compares only counts:  *)
(* a file's events only grow (TxnInv: no transaction takes one away), so   *)
(* of what the request counted and what the scan of the run it found was   *)
(* given, one contains the other (RefInv); and they are as many, if the    *)
(* scan counted again what it had been given.                              *)
(***************************************************************************)
THEOREM FileRefusals ==
    Spec => []FileRefusalsRight
  <1>1. ASSUME BaseInv, RefInv, NEW r \in Connections, NEW s \in Connections,
               Refused(r), ReliesOn(r, s), req[r].scope.file # 0, ~Outgrown(s)
        PROVE  req[r].counted \subseteq job[s].corpus
    <2>. DEFINE asked == req[r].scope
                had == db.runs[job[s].run].scope
    <2>1. /\ OfFile(asked) /\ Accepted(s) /\ SameScope(had, asked)
          /\ db.runs[job[s].run].status = "completed"
          /\ db.runs[job[s].run].considered = Cardinality(req[r].counted)
      BY <1>1 DEF RefInv, RequestOK, Refused, ReliesOn, OfFile
    <2>2. /\ db.runs[job[s].run].considered = job[s].total
          /\ job[s].corpus \subseteq EventsIn(db, had)
          /\ \/ req[r].counted \subseteq job[s].corpus
             \/ job[s].corpus \subseteq req[r].counted
      BY <1>1, <2>1 DEF RefInv, CorpusOK, HasCorpus, Nested
    <2>3. Cardinality(job[s].corpus) = Cardinality(req[r].counted)
      BY <1>1, <2>1, <2>2 DEF Outgrown
    <2>4. IsFiniteSet(req[r].counted)
      <3>1. IsFiniteSet(EventsIn(db, asked))
        BY <1>1, EventsType DEF BaseInv, TypeOK
      <3>2. req[r].counted \subseteq EventsIn(db, asked)
        BY <1>1 DEF RefInv, RequestOK
      <3>. QED
        BY <3>1, <3>2, FS_Subset
    <2>5. job[s].corpus \subseteq req[r].counted => job[s].corpus = req[r].counted
      BY <2>3, <2>4, FS_Subset
    <2>. QED
      BY <2>2, <2>5
  <1>2. BaseInv /\ RefInv => FileRefusalsRight
    BY <1>1 DEF FileRefusalsRight
  <1>. QED
    BY <1>2, BaseAlways, RefAlways, PTL

=============================================================================
