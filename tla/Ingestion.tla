------------------------------ MODULE Ingestion ------------------------------
(***************************************************************************)
(* How events get in: uploads (routes_files), cluster fetches              *)
(* (routes_clusters), scans of the watch directory and ingestions of what  *)
(* they registered (watcher.discover_new_files, ingestion_service), from   *)
(* the browser or the command line, all at once, over one watch directory  *)
(* and one SQLite file.                                                    *)
(*                                                                         *)
(* An event is its natural key (node, time, name, severity, message); a    *)
(* content is the sequence of the events of a file that clear its severity *)
(* floor.  The hash of a file is its content.  The events table has one    *)
(* entry per bulk insert: the file and its events, at their places in it.  *)
(***************************************************************************)
EXTENDS SQLite, SequencesExt

CONSTANTS
    Keys,
    Contents,       \* what a file may hold
    BadContents,    \* those whose parsing raises
    ClientNames,    \* stems chosen outside: by a browser, or by a copy
    Clusters,
    NoCluster,      \* the cluster column is NULL
    FirstDisk,      \* the watch directory before any of it
    FirstFiles,     \* the files registered before, and not ingested yet
    Operations,     \* what the connections may do
    MaxCrashes      \* bound: process restarts

(***************************************************************************)
(* A file name: who made it up, and the cluster that is written in it as   *)
(* ems_fetch_<cluster>_<time>.  A connection stands for the uuid or the    *)
(* microseconds of the names that are its own.                             *)
(***************************************************************************)
FileNames == [of : ClientNames \cup Connections, cluster : Clusters \cup {NoCluster}]
OutsideNames == [of : ClientNames, cluster : Clusters \cup {NoCluster}]

OperationTypes ==
    [kind : {"upload"}, name : OutsideNames, content : Contents,
     cluster : Clusters \cup {NoCluster}]
       \cup [kind : {"fetch"}, cluster : Clusters, content : Contents]
       \cup [kind : {"scan", "cli"}]
       \cup [kind : {"ingest_pending"}, files : SUBSET (Nat \ {0})]
       \cup [kind : {"drop"}, name : OutsideNames, content : Contents]

Rows == [name : FileNames, content : Seq(Keys), cluster : Clusters \cup {NoCluster},
         status : {"pending", "processing", "processed", "failed"},
         count : Nat, short : BOOLEAN]

ASSUME ContentsAssumption == Contents \subseteq Seq(Keys) /\ BadContents \subseteq Contents
ASSUME OperationsAssumption == Operations \subseteq OperationTypes
ASSUME FirstDiskAssumption ==
    DOMAIN FirstDisk \subseteq OutsideNames /\ Range(FirstDisk) \subseteq Contents
ASSUME FirstFilesAssumption ==
    /\ FirstFiles \in Seq(Rows)
    /\ \A i \in DOMAIN FirstFiles :
          FirstFiles[i].status = "pending" /\ FirstFiles[i].name \in OutsideNames
ASSUME ClustersAssumption == NoCluster \notin Clusters
ASSUME NamesAssumption == ClientNames \cap Connections = {}
ASSUME BoundsAssumption == MaxCrashes \in Nat

VARIABLES
    disk,       \* the watch directory: a function from file names
    pc,         \* where each connection is
    op,         \* what it does
    answer,     \* what its client was told
    job,        \* what its handler has in hand
    crashes

vars == <<fileVars, disk, pc, op, answer, job, crashes>>

NoOperation == [kind |-> "none"]
NoName == [of |-> "none", cluster |-> NoCluster]

(***************************************************************************)
(* name, content: the file in hand and what its hash was taken of; names:  *)
(* the listed files a scan has still to look at; queue: the ids to ingest, *)
(* the earliest first; kept: the events to insert; got, short: how much a  *)
(* fetch has written and whether it was cut short.                         *)
(***************************************************************************)
NoJob == [name |-> NoName, content |-> <<>>, names |-> {}, queue |-> {},
          kept |-> {}, got |-> 0, short |-> FALSE]

Init ==
    /\ OpenFile([files |-> FirstFiles, events |-> <<>>])
    /\ disk = FirstDisk
    /\ pc = [r \in Connections |-> "idle"]
    /\ op = [r \in Connections |-> NoOperation]
    /\ answer = [r \in Connections |-> "none"]
    /\ job = [r \in Connections |-> NoJob]
    /\ crashes = 0

-----------------------------------------------------------------------------
(* Steps of one connection.                                                *)

Go(r, from, to) == pc[r] = from /\ pc' = [pc EXCEPT ![r] = to]

Note(r, task) == job' = [job EXCEPT ![r] = task]

\* The handler returns or raises: nothing of it is committed.
End(r, code) ==
    /\ Rollback(r)
    /\ pc' = [pc EXCEPT ![r] = "closed"]
    /\ answer' = [answer EXCEPT ![r] = code]
    /\ UNCHANGED <<op, job, crashes>>

Put(name, content) ==
    disk' = [n \in DOMAIN disk \cup {name} |-> IF n = name THEN content ELSE disk[n]]

unlink(name) == disk' = Restrict(disk, DOMAIN disk \ {name})

Arrive(r, o) ==
    /\ Go(r, "idle", o.kind)
    /\ op' = [op EXCEPT ![r] = o]
    /\ UNCHANGED <<fileVars, disk, answer, job, crashes>>

\* Somebody copies a file into the directory.
Drop(r) ==
    /\ Go(r, "drop", "closed")
    /\ Put(op[r].name, op[r].content)
    /\ UNCHANGED <<fileVars, op, answer, job, crashes>>

\* A host or a severity floor that cannot be used.
RefuseInput(r) ==
    /\ pc[r] \in {"upload", "fetch"}
    /\ End(r, "400")
    /\ UNCHANGED disk

\* A name that is taken gets a uuid, after which no cluster is read from it.
ChooseName(r) ==
    /\ Go(r, "upload", "open")
    /\ Note(r, [job[r] EXCEPT
          !.name = IF op[r].name \in DOMAIN disk THEN [of |-> r, cluster |-> NoCluster]
                   ELSE op[r].name])
    /\ UNCHANGED <<fileVars, disk, op, answer, crashes>>

NameFetch(r) ==
    /\ Go(r, "fetch", "open")
    /\ Note(r, [job[r] EXCEPT !.name = [of |-> r, cluster |-> op[r].cluster]])
    /\ UNCHANGED <<fileVars, disk, op, answer, crashes>>

\* Whatever had the name is truncated.
OpenOutput(r) ==
    /\ Go(r, "open", "write")
    /\ Put(job[r].name, <<>>)
    /\ UNCHANGED <<fileVars, op, answer, job, crashes>>

WriteUpload(r) ==
    /\ op[r].kind = "upload"
    /\ Go(r, "write", "hash")
    /\ Put(job[r].name, op[r].content)
    /\ UNCHANGED <<fileVars, op, answer, job, crashes>>

Fetching(r) == pc[r] = "write" /\ op[r].kind = "fetch"

\* The events arrive page by page and are written as they do.
FetchNext(r) ==
    /\ Fetching(r)
    /\ job[r].got < Len(op[r].content)
    /\ Note(r, [job[r] EXCEPT !.got = @ + 1])
    /\ Put(job[r].name, SubSeq(op[r].content, 1, job[r].got + 1))
    /\ UNCHANGED <<fileVars, pc, op, answer, crashes>>

\* All of them, or OntapClientError after some of them.
EndFetch(r) ==
    /\ Fetching(r)
    /\ Go(r, "write", "hash")
    /\ job[r].got > 0
    /\ Note(r, [job[r] EXCEPT !.short = job[r].got < Len(op[r].content)])
    /\ UNCHANGED <<fileVars, disk, op, answer, crashes>>

\* Nothing arrived, or something unexpected was raised.
FetchFails(r) ==
    /\ Fetching(r)
    /\ unlink(job[r].name)
    /\ \/ job[r].got = 0 /\ End(r, "502")
       \/ End(r, "500")

-----------------------------------------------------------------------------
(* One file is registered, by whichever way it came.                       *)

Scanning(r) == op[r].kind \in {"scan", "cli"}

\* (another group of the match)
FaultyClusterFromFilename(name) == IF name.cluster = NoCluster THEN NoCluster ELSE name.of

cluster_from_filename(name) == name.cluster

\* An upload's own cluster wins; a fetch's name has the fetch's cluster.
ClusterOf(r) ==
    IF op[r].kind = "upload" /\ op[r].cluster # NoCluster THEN op[r].cluster
    ELSE cluster_from_filename(job[r].name)

find_by_hash(contents, content) ==
    \E i \in DOMAIN contents.files : contents.files[i].content = content

scan_directory(r) ==
    /\ pc[r] \in {"scan", "cli"}
    /\ pc' = [pc EXCEPT ![r] = "next"]
    /\ Note(r, [job[r] EXCEPT !.names = DOMAIN disk])
    /\ UNCHANGED <<fileVars, disk, op, answer, crashes>>

TakeNext(r, name) ==
    /\ Go(r, "next", "find")
    /\ name \in job[r].names \cap DOMAIN disk
    /\ Note(r, [job[r] EXCEPT !.names = @ \ {name}, !.name = name, !.content = disk[name]])
    /\ UNCHANGED <<fileVars, disk, op, answer, crashes>>

\* The command line goes on to ingest.
EndScan(r) ==
    /\ Go(r, "next", IF op[r].kind = "cli" THEN "pending" ELSE "answer")
    /\ job[r].names = {}
    /\ UNCHANGED <<fileVars, disk, op, answer, job, crashes>>

compute_file_hash(r) ==
    /\ Go(r, "hash", "find")
    /\ job[r].name \in DOMAIN disk
    /\ Note(r, [job[r] EXCEPT !.content = disk[job[r].name]])
    /\ UNCHANGED <<fileVars, disk, op, answer, crashes>>

FileIsNew(r) ==
    /\ Go(r, "find", "insert")
    /\ Read(r)
    /\ ~find_by_hash(View(r), job[r].content)
    /\ UNCHANGED <<disk, op, answer, job, crashes>>

SkipKnownFile(r) ==
    /\ Scanning(r)
    /\ Go(r, "find", "next")
    /\ Read(r)
    /\ find_by_hash(View(r), job[r].content)
    /\ UNCHANGED <<disk, op, answer, job, crashes>>

RefuseKnownFile(r) ==
    /\ ~Scanning(r)
    /\ pc[r] = "find"
    /\ MayRead(r)
    /\ find_by_hash(View(r), job[r].content)
    /\ unlink(job[r].name)
    /\ End(r, "409")

\* UNIQUE (filepath) and UNIQUE (file_hash).
Unique(contents, name, content) ==
    \A i \in DOMAIN contents.files :
        contents.files[i].name # name /\ contents.files[i].content # content

insert_file(r) ==
    /\ Go(r, "insert", IF Scanning(r) THEN "next" ELSE "ingest")
    /\ job[r].name \in DOMAIN disk
    /\ Unique(View(r), job[r].name, job[r].content)
    /\ Write(r, [View(r) EXCEPT !.files =
          Append(@, [name |-> job[r].name, content |-> job[r].content,
                     cluster |-> ClusterOf(r), status |-> "pending",
                     count |-> 0, short |-> FALSE])])
    /\ Note(r, [job[r] EXCEPT
          !.queue = IF Scanning(r) THEN {} ELSE {Len(View(r).files) + 1}])
    /\ UNCHANGED <<disk, op, answer, crashes>>

\* A file is gone, or a constraint fails: the whole request does.
RegisterRaises(r) ==
    /\ \/ pc[r] \in {"hash", "insert"} /\ job[r].name \notin DOMAIN disk
       \/ pc[r] = "next" /\ ~(job[r].names \subseteq DOMAIN disk)
       \/ pc[r] = "insert" /\ MayWrite(r)
             /\ ~Unique(View(r), job[r].name, job[r].content)
    /\ End(r, "500")
    /\ UNCHANGED disk

-----------------------------------------------------------------------------
(* ingest_file, for each file of the queue.                                *)

PendingIds(contents) ==
    {i \in DOMAIN contents.files : contents.files[i].status = "pending"}

get_pending(r) ==
    /\ pc[r] \in {"ingest_pending", "pending"}
    /\ Read(r)
    /\ pc' = [pc EXCEPT ![r] = "ingest"]
    /\ Note(r, [job[r] EXCEPT !.queue = {i \in PendingIds(View(r)) :
          op[r].kind = "ingest_pending" => i \in op[r].files}])
    /\ UNCHANGED <<disk, op, answer, crashes>>

\* The file of the queue that is taken next.
Current(r) == Min(job[r].queue)

mark_status(contents, i, status) ==
    [contents EXCEPT !.files[i] = [@ EXCEPT !.status = status, !.short = FALSE]]

\* (the status is left to the last UPDATE)
FaultyMarkProcessing(r) ==
    /\ Go(r, "ingest", "parse")
    /\ job[r].queue # {}
    /\ Read(r)
    /\ UNCHANGED <<disk, op, answer, job, crashes>>

\* (committed at once, for the file list to show it)
FaultyShowProcessing(r) ==
    /\ Go(r, "ingest", "parse")
    /\ job[r].queue # {}
    /\ MayWrite(r)
    /\ db' = mark_status(View(r), Current(r), "processing")
    /\ work' = db'
    /\ tx' = [tx EXCEPT ![r] = "auto"]
    /\ UNCHANGED <<disk, op, answer, job, crashes>>

\* The first write of a request that registered nothing: it takes the lock.
MarkProcessing(r) ==
    /\ Go(r, "ingest", "parse")
    /\ job[r].queue # {}
    /\ Write(r, mark_status(View(r), Current(r), "processing"))
    /\ UNCHANGED <<disk, op, answer, job, crashes>>

existing_event_keys(contents, cluster) ==
    {row.key : row \in UNION {contents.events[i].rows : i \in {j \in DOMAIN contents.events :
        contents.files[contents.events[j].file].cluster = cluster}}}

\* (as a UNIQUE index would)
FaultyDropAlreadyIngested(existing, batch) ==
    {[at |-> n, key |-> batch[n]] : n \in {m \in DOMAIN batch :
        batch[m] \notin existing /\ \A k \in 1..(m - 1) : batch[k] # batch[m]}}

\* Only against what is stored: a storm within the batch is kept.
_drop_already_ingested(existing, batch) ==
    {[at |-> n, key |-> batch[n]] : n \in {m \in DOMAIN batch : batch[m] \notin existing}}

Parses(r) ==
    LET name == View(r).files[Current(r)].name IN
    name \in DOMAIN disk /\ disk[name] \notin BadContents

ParseFile(r) ==
    /\ Go(r, "parse", "store")
    /\ Parses(r)
    /\ Read(r)
    /\ LET row == View(r).files[Current(r)] IN
       Note(r, [job[r] EXCEPT !.kept = _drop_already_ingested(
          existing_event_keys(View(r), row.cluster), disk[row.name])])
    /\ UNCHANGED <<disk, op, answer, crashes>>

\* A bad file does not abort the batch.
MarkFailed(r) ==
    /\ Go(r, "parse", "ingest")
    /\ ~Parses(r)
    /\ Write(r, mark_status(View(r), Current(r), "failed"))
    /\ Note(r, [job[r] EXCEPT !.queue = @ \ {Current(r)}])
    /\ UNCHANGED <<disk, op, answer, crashes>>

\* bulk_insert_events, then mark_status "processed".
StoreEvents(r) ==
    /\ Go(r, "store", "ingest")
    /\ Write(r, [mark_status(View(r), Current(r), "processed") EXCEPT
          !.events = IF job[r].kept = {} THEN @
                     ELSE Append(@, [file |-> Current(r), rows |-> job[r].kept]),
          !.files[Current(r)].count = Cardinality(job[r].kept)])
    /\ Note(r, [job[r] EXCEPT !.queue = @ \ {Current(r)}, !.kept = {}])
    /\ UNCHANGED <<disk, op, answer, crashes>>

\* (written before the ingestion, which clears it)
FaultyEndIngest(r) ==
    /\ Go(r, "ingest", "answer")
    /\ job[r].queue = {}
    /\ UNCHANGED <<fileVars, disk, op, answer, job, crashes>>

\* A fetch that was cut short says so on the row it just processed.
EndIngest(r) ==
    /\ Go(r, "ingest", "answer")
    /\ job[r].queue = {}
    /\ IF job[r].short /\ View(r).files[Len(View(r).files)].status = "processed"
       THEN Write(r, [View(r) EXCEPT !.files[Len(View(r).files)].short = TRUE])
       ELSE UNCHANGED fileVars
    /\ UNCHANGED <<disk, op, answer, job, crashes>>

\* Any other connection may keep the lock for longer than the timeout.
WriteTimesOut(r) ==
    /\ \/ pc[r] = "insert"
       \/ pc[r] = "ingest" /\ job[r].queue # {}
    /\ LockedOut(r, Connections)
    /\ End(r, "500")
    /\ UNCHANGED disk

\* The answer and the commit of its connection.
CommitRequest(r) ==
    /\ Go(r, "answer", "closed")
    /\ Commit(r)
    /\ answer' = [answer EXCEPT ![r] = "200"]
    /\ UNCHANGED <<disk, op, job, crashes>>

\* The machine stops: the directory and the committed contents survive.
Crash ==
    /\ crashes < MaxCrashes
    /\ crashes' = crashes + 1
    /\ pc' = [r \in Connections |-> IF pc[r] \in {"idle", "closed"} THEN pc[r] ELSE "killed"]
    /\ Recover
    /\ UNCHANGED <<disk, op, answer, job>>

\* How a file gets into the directory ...
ReceiveStep(r) ==
    \/ ChooseName(r)
    \/ WriteUpload(r)
    \/ NameFetch(r)
    \/ OpenOutput(r)
    \/ FetchNext(r)
    \/ EndFetch(r)
    \/ FetchFails(r)

\* ... into the table ...
RegisterStep(r) ==
    \/ scan_directory(r)
    \/ \E name \in job[r].names : TakeNext(r, name)
    \/ EndScan(r)
    \/ compute_file_hash(r)
    \/ FileIsNew(r)
    \/ SkipKnownFile(r)
    \/ RefuseKnownFile(r)
    \/ insert_file(r)
    \/ RegisterRaises(r)

\* ... and its events into theirs.
IngestStep(r) ==
    \/ get_pending(r)
    \/ MarkProcessing(r)
    \/ ParseFile(r)
    \/ MarkFailed(r)
    \/ StoreEvents(r)
    \/ EndIngest(r)
    \/ WriteTimesOut(r)
    \/ CommitRequest(r)

Next ==
    \/ \E r \in Connections, o \in Operations : Arrive(r, o)
    \/ \E r \in Connections : Drop(r)
    \/ \E r \in Connections : RefuseInput(r)
    \/ \E r \in Connections : ReceiveStep(r)
    \/ \E r \in Connections : RegisterStep(r)
    \/ \E r \in Connections : IngestStep(r)
    \/ Crash

Spec == Init /\ [][Next]_vars

-----------------------------------------------------------------------------
(* Properties.                                                             *)

EventRows == [at : Nat \ {0}, key : Keys]

Tables == [files : Seq(Rows), events : Seq([file : Nat \ {0}, rows : SUBSET EventRows])]

Points == {"idle", "upload", "fetch", "scan", "cli", "ingest_pending", "drop", "write",
           "open", "next", "hash", "find", "insert", "pending", "ingest", "parse",
           "store", "answer", "closed", "killed"}

TypeOK ==
    /\ db \in Tables
    /\ work \in Tables
    /\ tx \in [Connections -> TxStates]
    /\ DOMAIN disk \subseteq FileNames
    /\ \A name \in DOMAIN disk : disk[name] \in Seq(Keys)
    /\ pc \in [Connections -> Points]
    /\ op \in [Connections -> OperationTypes \cup {NoOperation}]
    /\ answer \in [Connections -> {"none", "200", "400", "409", "500", "502"}]
    /\ job \in [Connections ->
          [name : FileNames \cup {NoName}, content : Seq(Keys), names : SUBSET FileNames,
           queue : SUBSET (Nat \ {0}), kept : SUBSET EventRows, got : Nat, short : BOOLEAN]]
    /\ crashes \in Nat

StoredFor(cluster) == existing_event_keys(db, cluster)

\* What was ever in a file of that name: an upload, or a fetch as far as it got.
OnceIn(name) ==
    {<<>>} \cup {FirstDisk[n] : n \in DOMAIN FirstDisk \cap {name}}
           \cup {op[r].content : r \in {q \in Connections :
                    op[q].kind \in {"upload", "drop"} /\ op[q].name = name}}
           \cup (IF name.of \in Connections THEN Prefixes(op[name.of].content) ELSE {})

Occurrences(batch, key) == Cardinality({n \in DOMAIN batch : batch[n] = key})

\* The events of a file with that key, over all the inserts it had.
StoredFrom(i, key) ==
    Cardinality(UNION {{k} \X {row.at : row \in {e \in db.events[k].rows : e.key = key}} :
                          k \in {j \in DOMAIN db.events : db.events[j].file = i}})

(***************************************************************************)
(* Overlapping fetches and uploads of one cluster store an event once:     *)
(* what one file brought no other file brings again, whoever ingests them  *)
(* and however their statements interleave.                                *)
(***************************************************************************)
NoEventFromTwoFiles ==
    \A i, j \in DOMAIN db.events :
        /\ \E a \in db.events[i].rows, b \in db.events[j].rows : a.key = b.key
        /\ db.files[db.events[i].file].cluster = db.files[db.events[j].file].cluster
        => db.events[i].file = db.events[j].file

(***************************************************************************)
(* A storm is kept as it was logged: the repetitions of an event within a  *)
(* file are all stored or, when another file had it, none; and they are    *)
(* stored once, however often the file is ingested and whatever is copied  *)
(* over it in between.                                                     *)
(***************************************************************************)
StormsAreKept ==
    \A i \in DOMAIN db.files, key \in Keys : \E content \in OnceIn(db.files[i].name) :
        StoredFrom(i, key) \in {0, Occurrences(content, key)}

(***************************************************************************)
(* A file is ingested or it is not: whatever stops an ingestion, none is   *)
(* left being processed, where nothing would ever look at it again, and no *)
(* event is stored for a file that is still to be ingested.  (A file that  *)
(* has events may be marked failed: one that was in the list of a second   *)
(* ingestion while the first was at it, and has become unreadable since.)  *)
(***************************************************************************)
NothingHalfIngested ==
    /\ \A i \in DOMAIN db.files : db.files[i].status # "processing"
    /\ \A k \in DOMAIN db.events : db.files[db.events[k].file].status # "pending"

(***************************************************************************)
(* A fetch that was cut short and answered has its shortfall on the row of *)
(* its file for as long as the row has its events.                         *)
(***************************************************************************)
ShortfallIsShown ==
    \A r \in Connections : op[r].kind = "fetch" /\ answer[r] = "200" /\ pc[r] = "closed" =>
        \E i \in DOMAIN db.files :
            /\ db.files[i].name = job[r].name
            /\ db.files[i].status = "processed" => db.files[i].short = job[r].short

(***************************************************************************)
(* What the documentation says and the code does not do.                   *)
(***************************************************************************)

\* An upload refused as already there is there: stored, or on the disk.
RefusedUploadIsKept ==
    \A r \in Connections : op[r].kind = "upload" /\ answer[r] = "409" =>
        \/ \E name \in DOMAIN disk : disk[name] = job[r].content
        \/ \E c \in Clusters \cup {NoCluster} : Range(job[r].content) \subseteq StoredFor(c)

=============================================================================
