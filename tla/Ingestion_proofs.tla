---------------------------- MODULE Ingestion_proofs ----------------------------
(***************************************************************************)
(* Theorems about Ingestion, for any number of connections, files,         *)
(* contents, operations and restarts.                                      *)
(***************************************************************************)
EXTENDS Ingestion, Tables_proofs, FiniteSetTheorems, WellFoundedInduction, TLAPS

-----------------------------------------------------------------------------
(* Numbers, sets and sequences.                                            *)

\* The least element of a set of numbers is one of it.
LEMMA MinIsMember ==
    ASSUME NEW S \in SUBSET Nat, S # {}
    PROVE  Min(S) \in S
  <1>1. PICK x \in S : \A y \in S : ~(<<y, x>> \in OpToRel(<, Nat))
    BY NatLessThanWellFounded, WFMin
  <1>2. \A y \in S : ~(y < x)
    BY <1>1 DEF OpToRel
  <1>3. \A y \in S : x <= y
    BY <1>2
  <1>. QED
    BY <1>3 DEF Min

LEMMA AppendMakes ==
    ASSUME NEW S, NEW s \in Seq(S), NEW x \in S
    PROVE  /\ Append(s, x) \in Seq(S)
           /\ Len(s) \in Nat /\ Len(Append(s, x)) = Len(s) + 1
           /\ Append(s, x)[Len(s) + 1] = x
           /\ \A i \in DOMAIN s : Append(s, x)[i] = s[i]
  OBVIOUS

\* What is left of a batch is placed in it.
LEMMA KeptType ==
    ASSUME NEW existing, NEW batch \in Seq(Keys)
    PROVE  /\ _drop_already_ingested(existing, batch) \in SUBSET EventRows
           /\ IsFiniteSet(_drop_already_ingested(existing, batch))
           /\ \A e \in _drop_already_ingested(existing, batch) :
                 e.at \in DOMAIN batch /\ e.key = batch[e.at] /\ e.key \notin existing
  <1>. DEFINE kept == _drop_already_ingested(existing, batch)
              place == [e \in kept |-> e.at]
  <1>1. \A e \in kept : /\ e.at \in DOMAIN batch /\ e = [at |-> e.at, key |-> batch[e.at]]
                        /\ e.key \notin existing
    BY DEF _drop_already_ingested
  <1>2. \A n \in DOMAIN batch : n \in Nat \ {0} /\ n \in 1..Len(batch) /\ batch[n] \in Keys
    OBVIOUS
  <1>3. Len(batch) \in Nat
    OBVIOUS
  <1>4. place \in Injection(kept, 1..Len(batch))
    BY <1>1, <1>2 DEF Injection, IsInjective
  <1>5. IsFiniteSet(1..Len(batch))
    BY <1>3, FS_Interval
  <1>6. IsFiniteSet(kept)
    BY <1>4, <1>5, FS_Injection
  <1>. QED
    BY <1>1, <1>2, <1>6 DEF EventRows

-----------------------------------------------------------------------------
(* What a step relies on.                                                  *)

Jobs == [name : FileNames \cup {NoName}, content : Seq(Keys), names : SUBSET FileNames,
         queue : SUBSET (Nat \ {0}), kept : SUBSET EventRows, got : Nat, short : BOOLEAN]

RequestPoints == {"upload", "fetch", "scan", "cli", "ingest_pending", "drop"}

\* Connection r has files in hand that it knows by their ids.
Ingesting(r) == pc[r] \in {"ingest", "parse", "store"}

Receiving(r) == op[r].kind \in {"upload", "fetch"}

\* It has written what it has in hand; a scan and a batch have written if they found any.
Locks(r) ==
    /\ tx[r] \in {"auto", "reserved"}
    /\ Writer(r) => pc[r] \in {"next", "find", "insert", "pending", "answer"} \/ Ingesting(r)
    /\ pc[r] \in {"parse", "store"} => Writer(r)
    /\ Receiving(r) /\ (Ingesting(r) \/ pc[r] = "answer") => Writer(r)

LockInv == OneWriter /\ \A r \in Connections : Locks(r)

Placed(r) ==
    /\ pc[r] = "idle" <=> op[r] = NoOperation
    /\ pc[r] \in RequestPoints => op[r].kind = pc[r]
    /\ pc[r] \in {"open", "write", "hash"} => Receiving(r)
    /\ pc[r] \in {"find", "insert"} => Receiving(r) \/ Scanning(r)
    /\ pc[r] \in {"open", "write", "hash", "find", "insert"} => job[r].name \in FileNames
    /\ pc[r] = "next" => Scanning(r)
    /\ pc[r] = "pending" => op[r].kind = "cli"
    /\ pc[r] \in {"parse", "store"} => job[r].queue # {}
    /\ answer[r] # "none" => pc[r] = "closed"
    /\ job[r].short => op[r].kind = "fetch"
    /\ IsFiniteSet(job[r].kept)

PlaceInv == \A r \in Connections : Placed(r)

SameFile(a, b) == a.name = b.name /\ a.content = b.content /\ a.cluster = b.cluster

\* Files keep what they are, events stay.
Grows(old, new) ==
    /\ Len(old.files) <= Len(new.files)
    /\ \A i \in DOMAIN old.files : SameFile(old.files[i], new.files[i])
    /\ Len(old.events) <= Len(new.events)
    /\ \A k \in DOMAIN old.events : new.events[k] = old.events[k]

\* Every id in hand is of a file.
Listed(r) ==
    Ingesting(r) =>
        /\ job[r].queue \subseteq DOMAIN View(r).files
        /\ Receiving(r) => Len(View(r).files) \in DOMAIN View(r).files

ListInv == Grows(db, work) /\ \A r \in Connections : Listed(r)

BaseInv == TypeOK /\ LockInv /\ PlaceInv /\ ListInv

-----------------------------------------------------------------------------
(* The contents each write makes.                                          *)

LEMMA OperationFields ==
    ASSUME NEW o \in OperationTypes \cup {NoOperation}
    PROVE  /\ o.kind = "upload" => /\ o.name \in OutsideNames /\ o.content \in Contents
                                   /\ o.cluster \in Clusters \cup {NoCluster}
           /\ o.kind = "fetch" => o.cluster \in Clusters /\ o.content \in Contents
           /\ o.kind = "drop" => o.name \in OutsideNames /\ o.content \in Contents
           /\ o # NoOperation => o.kind \in RequestPoints /\ o.kind # "none"
  <1>1. CASE o \in [kind : {"upload"}, name : OutsideNames, content : Contents,
                    cluster : Clusters \cup {NoCluster}]
    BY <1>1 DEF RequestPoints
  <1>2. CASE o \in [kind : {"fetch"}, cluster : Clusters, content : Contents]
    BY <1>2 DEF RequestPoints
  <1>3. CASE o \in [kind : {"scan", "cli"}]
    BY <1>3 DEF RequestPoints
  <1>4. CASE o \in [kind : {"ingest_pending"}, files : SUBSET (Nat \ {0})]
    BY <1>4 DEF RequestPoints
  <1>5. CASE o \in [kind : {"drop"}, name : OutsideNames, content : Contents]
    BY <1>5 DEF RequestPoints
  <1>6. CASE o = NoOperation
    BY <1>6 DEF NoOperation
  <1>. QED
    BY <1>1, <1>2, <1>3, <1>4, <1>5, <1>6 DEF OperationTypes

LEMMA ViewType ==
    ASSUME TypeOK, NEW r \in Connections
    PROVE  /\ View(r) \in Tables
           /\ View(r).files \in Seq(Rows)
           /\ View(r).events \in Seq([file : Nat \ {0}, rows : SUBSET EventRows])
           /\ Len(View(r).files) \in Nat /\ Len(View(r).events) \in Nat
           /\ DOMAIN View(r).files = 1..Len(View(r).files)
           /\ \A i \in DOMAIN View(r).files : View(r).files[i] \in Rows
  <1>1. View(r) \in Tables
    BY DEF View, TypeOK
  <1>2. /\ View(r).files \in Seq(Rows)
        /\ View(r).events \in Seq([file : Nat \ {0}, rows : SUBSET EventRows])
    BY <1>1 DEF Tables
  <1>. QED
    BY <1>1, <1>2

LEMMA GrowsTwice ==
    ASSUME NEW a \in Tables, NEW b \in Tables, NEW c \in Tables, Grows(a, b), Grows(b, c)
    PROVE  Grows(a, c)
  <1>1. /\ a.files \in Seq(Rows) /\ b.files \in Seq(Rows) /\ c.files \in Seq(Rows)
        /\ a.events \in Seq([file : Nat \ {0}, rows : SUBSET EventRows])
        /\ b.events \in Seq([file : Nat \ {0}, rows : SUBSET EventRows])
        /\ c.events \in Seq([file : Nat \ {0}, rows : SUBSET EventRows])
    BY DEF Tables
  <1>2. /\ Len(a.files) \in Nat /\ Len(b.files) \in Nat /\ Len(c.files) \in Nat
        /\ Len(a.events) \in Nat /\ Len(b.events) \in Nat /\ Len(c.events) \in Nat
        /\ DOMAIN a.files = 1..Len(a.files) /\ DOMAIN b.files = 1..Len(b.files)
        /\ DOMAIN a.events = 1..Len(a.events) /\ DOMAIN b.events = 1..Len(b.events)
    BY <1>1
  <1>3. DOMAIN a.files \subseteq DOMAIN b.files /\ DOMAIN a.events \subseteq DOMAIN b.events
    BY <1>2 DEF Grows
  <1>4. \A i \in DOMAIN a.files : SameFile(a.files[i], c.files[i])
    BY <1>3 DEF Grows, SameFile
  <1>5. \A k \in DOMAIN a.events : c.events[k] = a.events[k]
    BY <1>3 DEF Grows
  <1>6. Len(a.files) <= Len(c.files) /\ Len(a.events) <= Len(c.events)
    BY <1>2 DEF Grows
  <1>. QED
    BY <1>4, <1>5, <1>6 DEF Grows

\* What is inserted comes last, and what was there stays.
Inserts(row, old, new) ==
    /\ new.events = old.events
    /\ new.files = Append(old.files, row)

\* One row changes, and not what file it is.
Moves(i, row, old, new) ==
    /\ Len(new.files) = Len(old.files)
    /\ SameFile(old.files[i], row)
    /\ \A j \in DOMAIN old.files : new.files[j] = IF j = i THEN row ELSE old.files[j]

LEMMA InsertGrows ==
    ASSUME NEW old \in Tables, NEW row \in Rows, NEW new, new = [old EXCEPT !.files = Append(@, row)]
    PROVE  new \in Tables /\ Inserts(row, old, new) /\ Grows(old, new)
  <1>1. old.files \in Seq(Rows) /\ Len(old.events) \in Nat
    BY DEF Tables
  <1>. DEFINE longer == Append(old.files, row)
  <1>2. /\ longer \in Seq(Rows) /\ Len(old.files) <= Len(longer)
        /\ \A i \in DOMAIN old.files : longer[i] = old.files[i]
    BY <1>1, AppendMakes
  <1>. HIDE DEF longer
  <1>3. new \in Tables /\ new.files = longer /\ new.events = old.events
    BY <1>2 DEF Tables, longer
  <1>. QED
    BY <1>1, <1>2, <1>3 DEF longer, Inserts, Grows, SameFile

LEMMA MoveGrows ==
    ASSUME NEW old \in Tables, NEW i \in DOMAIN old.files, NEW row \in Rows,
           SameFile(old.files[i], row), NEW new,
           new = [old EXCEPT !.files = [@ EXCEPT ![i] = row]]
    PROVE  /\ new \in Tables /\ new.events = old.events
           /\ Moves(i, row, old, new) /\ Grows(old, new)
  <1>1. /\ old.files \in Seq(Rows) /\ Len(old.events) \in Nat
        /\ Len(old.files) \in Nat
    BY DEF Tables
  <1>. DEFINE moved == [old.files EXCEPT ![i] = row]
  <1>2. /\ moved \in Seq(Rows) /\ Len(old.files) = Len(moved)
        /\ \A j \in DOMAIN old.files : moved[j] = IF j = i THEN row ELSE old.files[j]
    BY <1>1
  <1>. HIDE DEF moved
  <1>3. new \in Tables /\ new.files = moved /\ new.events = old.events
    BY <1>2 DEF Tables, moved
  <1>. QED
    BY <1>1, <1>2, <1>3 DEF Moves, Grows, SameFile

Marked(row, status) == [row EXCEPT !.status = status, !.short = FALSE]

LEMMA MarkMakes ==
    ASSUME NEW old \in Tables, NEW i \in DOMAIN old.files,
           NEW status \in {"pending", "processing", "processed", "failed"}
    PROVE  LET new == mark_status(old, i, status)
               row == Marked(old.files[i], status)
           IN  /\ row \in Rows /\ row.status = status /\ row.short = FALSE
               /\ new \in Tables /\ new.events = old.events
               /\ Moves(i, row, old, new) /\ Grows(old, new)
  <1>. DEFINE row == Marked(old.files[i], status)
              new == mark_status(old, i, status)
  <1>1. old.files[i] \in Rows
    BY DEF Tables
  <1>2. /\ row \in Rows /\ SameFile(old.files[i], row)
        /\ row.status = status /\ row.short = FALSE
    BY <1>1 DEF Rows, Marked, SameFile
  <1>3. new = [old EXCEPT !.files = [@ EXCEPT ![i] = row]]
    BY DEF mark_status, Marked
  <1>. HIDE DEF new, row
  <1>4. /\ new \in Tables /\ new.events = old.events
        /\ Moves(i, row, old, new) /\ Grows(old, new)
    BY <1>2, <1>3, MoveGrows
  <1>. QED
    BY <1>2, <1>4 DEF new, row

\* The row of a file that has just been ingested.
Ingested(row, kept) ==
    [row EXCEPT !.status = "processed", !.short = FALSE, !.count = Cardinality(kept)]

Stored(old, i, kept) ==
    [mark_status(old, i, "processed") EXCEPT
        !.events = IF kept = {} THEN @ ELSE Append(@, [file |-> i, rows |-> kept]),
        !.files[i].count = Cardinality(kept)]

LEMMA StoreMakes ==
    ASSUME NEW old \in Tables, NEW i \in DOMAIN old.files,
           NEW kept \in SUBSET EventRows, IsFiniteSet(kept), NEW new, new = Stored(old, i, kept)
    PROVE  /\ Ingested(old.files[i], kept) \in Rows
           /\ Ingested(old.files[i], kept).status = "processed"
           /\ Ingested(old.files[i], kept).short = FALSE
           /\ new \in Tables /\ Moves(i, Ingested(old.files[i], kept), old, new)
           /\ new.events = IF kept = {} THEN old.events
                           ELSE Append(old.events, [file |-> i, rows |-> kept])
           /\ Grows(old, new)
  <1>. DEFINE row == Ingested(old.files[i], kept)
              marked == Marked(old.files[i], "processed")
              batch == [file |-> i, rows |-> kept]
              events == IF kept = {} THEN old.events ELSE Append(old.events, batch)
              moved == [old.files EXCEPT ![i] = row]
  <1>1. /\ old.files \in Seq(Rows) /\ Len(old.files) \in Nat
        /\ old.events \in Seq([file : Nat \ {0}, rows : SUBSET EventRows])
        /\ Len(old.events) \in Nat
    BY DEF Tables
  <1>2. Cardinality(kept) \in Nat /\ old.files[i] \in Rows
    BY <1>1, FS_CardinalityType
  <1>3. /\ row \in Rows /\ SameFile(old.files[i], row)
        /\ row.status = "processed" /\ row.short = FALSE
    BY <1>2 DEF Rows, Ingested, SameFile
  <1>4. batch \in [file : Nat \ {0}, rows : SUBSET EventRows]
    BY <1>1
  <1>5. /\ events \in Seq([file : Nat \ {0}, rows : SUBSET EventRows])
        /\ Len(old.events) <= Len(events)
        /\ \A k \in DOMAIN old.events : events[k] = old.events[k]
    <2>1. CASE kept = {}
      BY <1>1, <2>1
    <2>2. CASE kept # {}
      <3>1. events = Append(old.events, batch)
        BY <2>2
      <3>. HIDE DEF events, batch
      <3>. QED
        BY <1>1, <1>4, <3>1, AppendMakes
    <2>. QED
      BY <2>1, <2>2
  <1>6. new.events = events
    BY DEF Stored, mark_status
  <1>7. new.files = moved
    <2>1. new.files = [[old.files EXCEPT ![i] = marked] EXCEPT ![i] = [@ EXCEPT !.count = Cardinality(kept)]]
      BY DEF Stored, mark_status, Marked
    <2>2. [[old.files EXCEPT ![i] = marked] EXCEPT ![i] = [@ EXCEPT !.count = Cardinality(kept)]]
              = [old.files EXCEPT ![i] = [marked EXCEPT !.count = Cardinality(kept)]]
      BY <1>1 DEF Marked
    <2>3. [marked EXCEPT !.count = Cardinality(kept)] = row
      BY <1>2 DEF Marked, Ingested, Rows
    <2>. QED
      BY <2>1, <2>2, <2>3
  <1>8. new = [old EXCEPT !.files = moved, !.events = events]
    <2>1. new = [[old EXCEPT !.files = new.files] EXCEPT !.events = new.events]
      BY DEF Stored, mark_status, Tables
    <2>. QED
      BY <2>1, <1>6, <1>7 DEF Tables
  <1>9. /\ moved \in Seq(Rows) /\ Len(old.files) = Len(moved)
        /\ \A j \in DOMAIN old.files : moved[j] = IF j = i THEN row ELSE old.files[j]
    BY <1>1, <1>3
  <1>. HIDE DEF row, events, moved
  <1>10. new \in Tables
    BY <1>5, <1>8, <1>9 DEF Tables
  <1>11. Moves(i, row, old, new)
    BY <1>3, <1>7, <1>9 DEF Moves
  <1>12. Grows(old, new)
    <2>1. \A j \in DOMAIN old.files : SameFile(old.files[j], moved[j])
      BY <1>3, <1>9 DEF SameFile
    <2>2. Len(old.files) <= Len(new.files)
      BY <1>1, <1>7, <1>9
    <2>4. \A j \in DOMAIN old.files : SameFile(old.files[j], new.files[j])
      BY <1>7, <2>1
    <2>3. /\ Len(old.events) <= Len(new.events)
          /\ \A k \in DOMAIN old.events : new.events[k] = old.events[k]
      BY <1>5, <1>6
    <2>. QED
      BY <2>2, <2>3, <2>4 DEF Grows
  <1>. QED
    BY <1>3, <1>6, <1>10, <1>11, <1>12 DEF row, events

LEMMA ShowMakes ==
    ASSUME NEW old \in Tables, NEW i \in DOMAIN old.files, NEW new,
           new = [old EXCEPT !.files[i].short = TRUE]
    PROVE  LET row == [old.files[i] EXCEPT !.short = TRUE]
           IN  /\ row \in Rows /\ row.short = TRUE /\ row.status = old.files[i].status
               /\ new \in Tables /\ new.events = old.events
               /\ Moves(i, row, old, new) /\ Grows(old, new)
  <1>. DEFINE row == [old.files[i] EXCEPT !.short = TRUE]
  <1>1. old.files[i] \in Rows
    BY DEF Tables
  <1>2. /\ row \in Rows /\ SameFile(old.files[i], row)
        /\ row.short = TRUE /\ row.status = old.files[i].status
    BY <1>1 DEF Rows, SameFile
  <1>3. new = [old EXCEPT !.files = [@ EXCEPT ![i] = row]]
    OBVIOUS
  <1>. HIDE DEF row
  <1>4. /\ new \in Tables /\ new.events = old.events
        /\ Moves(i, row, old, new) /\ Grows(old, new)
    BY <1>2, <1>3, MoveGrows
  <1>. QED
    BY <1>2, <1>4 DEF row

-----------------------------------------------------------------------------
(* One connection at a time.                                               *)

Step(r) ==
    \/ \E o \in Operations : Arrive(r, o)
    \/ Drop(r)
    \/ RefuseInput(r)
    \/ ReceiveStep(r)
    \/ RegisterStep(r)
    \/ IngestStep(r)

LEMMA Steps ==
    [Next]_vars => (\E r \in Connections : Step(r)) \/ Crash \/ UNCHANGED vars
  BY DEF Next, Step

\* The end of a fetch that was cut short and ingested.
Shows(r) ==
    /\ EndIngest(r)
    /\ job[r].short /\ View(r).files[Len(View(r).files)].status = "processed"

WriteAction(r) ==
    \/ insert_file(r)
    \/ MarkProcessing(r)
    \/ MarkFailed(r)
    \/ StoreEvents(r)
    \/ Shows(r)

EndAction(r) ==
    \/ RefuseInput(r)
    \/ FetchFails(r)
    \/ RefuseKnownFile(r)
    \/ RegisterRaises(r)
    \/ WriteTimesOut(r)

\* The steps that leave the file alone.
OwnAction(r) ==
    \/ \E o \in Operations : Arrive(r, o)
    \/ Drop(r)
    \/ ChooseName(r)
    \/ WriteUpload(r)
    \/ NameFetch(r)
    \/ OpenOutput(r)
    \/ FetchNext(r)
    \/ EndFetch(r)
    \/ scan_directory(r)
    \/ \E name \in job[r].names : TakeNext(r, name)
    \/ EndScan(r)
    \/ compute_file_hash(r)
    \/ FileIsNew(r)
    \/ SkipKnownFile(r)
    \/ get_pending(r)
    \/ ParseFile(r)
    \/ EndIngest(r) /\ ~Shows(r)

LEMMA Kinds ==
    ASSUME NEW r, Step(r)
    PROVE  OwnAction(r) \/ WriteAction(r) \/ EndAction(r) \/ CommitRequest(r)
  BY DEF Step, ReceiveStep, RegisterStep, IngestStep, OwnAction, WriteAction, EndAction

LEMMA OwnMoves ==
    ASSUME LockInv, NEW r \in Connections, OwnAction(r)
    PROVE  UNCHANGED fileVars
  <1>1. ASSUME Read(r) PROVE UNCHANGED fileVars
    BY <1>1 DEF Read, LockInv, Locks, fileVars
  <1>2. CASE EndIngest(r) /\ ~Shows(r)
    BY <1>2 DEF EndIngest, Shows
  <1>3. CASE FileIsNew(r) \/ SkipKnownFile(r) \/ get_pending(r) \/ ParseFile(r)
    BY <1>1, <1>3 DEF FileIsNew, SkipKnownFile, get_pending, ParseFile
  <1>4. CASE (\E o \in Operations : Arrive(r, o)) \/ Drop(r) \/ ChooseName(r) \/ WriteUpload(r)
              \/ NameFetch(r) \/ OpenOutput(r) \/ FetchNext(r) \/ EndFetch(r)
    BY <1>4 DEF Arrive, Drop, ChooseName, WriteUpload, NameFetch, OpenOutput, FetchNext, EndFetch
  <1>5. CASE scan_directory(r) \/ (\E name \in job[r].names : TakeNext(r, name)) \/ EndScan(r)
              \/ compute_file_hash(r)
    BY <1>5 DEF scan_directory, TakeNext, EndScan, compute_file_hash
  <1>. QED
    BY <1>2, <1>3, <1>4, <1>5 DEF OwnAction

LEMMA WriteMoves ==
    ASSUME NEW r \in Connections, WriteAction(r)
    PROVE  Write(r, work')
  BY DEF WriteAction, insert_file, MarkProcessing, MarkFailed, StoreEvents, Shows, EndIngest, Write

LEMMA EndMoves ==
    ASSUME NEW r \in Connections, EndAction(r)
    PROVE  \E code \in {"400", "409", "500", "502"} : End(r, code)
  BY DEF EndAction, RefuseInput, FetchFails, RefuseKnownFile, RegisterRaises, WriteTimesOut

LEMMA StepIsStatement ==
    ASSUME LockInv, NEW r \in Connections, Step(r)
    PROVE  Statement(r, Connections)
  <1>1. CASE EndAction(r)
    BY <1>1, EndMoves DEF End, Statement
  <1>. QED
    BY <1>1, Kinds, OwnMoves, WriteMoves DEF Statement, CommitRequest
-----------------------------------------------------------------------------
(* What a connection has in hand.                                          *)

\* All that differs between two jobs is in F.
Only(old, new, F) ==
    \A f \in {"name", "content", "names", "queue", "kept", "got", "short"} \ F : new[f] = old[f]

LEMMA Updates ==
    ASSUME NEW task \in Jobs, NEW x, NEW y, NEW z
    PROVE  /\ Only(task, [task EXCEPT !.name = x], {"name"})
           /\ Only(task, [task EXCEPT !.got = x], {"got"})
           /\ Only(task, [task EXCEPT !.short = x], {"short"})
           /\ Only(task, [task EXCEPT !.names = x], {"names"})
           /\ Only(task, [task EXCEPT !.names = x, !.name = y, !.content = z],
                   {"names", "name", "content"})
           /\ Only(task, [task EXCEPT !.content = x], {"content"})
           /\ Only(task, [task EXCEPT !.queue = x], {"queue"})
           /\ Only(task, [task EXCEPT !.kept = x], {"kept"})
           /\ Only(task, [task EXCEPT !.queue = x, !.kept = y], {"queue", "kept"})
  BY DEF Only, Jobs

LEMMA UpdatedFields ==
    ASSUME NEW task \in Jobs, NEW x, NEW y, NEW z
    PROVE  /\ [task EXCEPT !.name = x].name = x
           /\ [task EXCEPT !.names = x, !.name = y, !.content = z].name = y
           /\ [task EXCEPT !.short = x].short = x
           /\ [task EXCEPT !.queue = x].queue = x
           /\ [task EXCEPT !.kept = x].kept = x
           /\ [task EXCEPT !.queue = x, !.kept = y].queue = x
           /\ [task EXCEPT !.queue = x, !.kept = y].kept = y
  BY DEF Jobs

LEMMA Noted ==
    ASSUME TypeOK, NEW r \in Connections, NEW task, Note(r, task)
    PROVE  job'[r] = task /\ (task \in Jobs => job' \in [Connections -> Jobs])
  BY DEF TypeOK, Jobs, Note

LEMMA Puts ==
    ASSUME TypeOK, NEW r \in Connections, NEW x
    PROVE  /\ Note(r, [job[r] EXCEPT !.name = x]) =>
                 Only(job[r], job'[r], {"name"}) /\ job'[r].name = x
           /\ Note(r, [job[r] EXCEPT !.short = x]) =>
                 Only(job[r], job'[r], {"short"}) /\ job'[r].short = x
           /\ Note(r, [job[r] EXCEPT !.queue = x]) =>
                 Only(job[r], job'[r], {"queue"}) /\ job'[r].queue = x
           /\ Note(r, [job[r] EXCEPT !.kept = x]) =>
                 Only(job[r], job'[r], {"kept"}) /\ job'[r].kept = x
  <1>1. job[r] \in Jobs
    BY DEF TypeOK, Jobs
  <1>2. Note(r, [job[r] EXCEPT !.name = x]) =>
             Only(job[r], job'[r], {"name"}) /\ job'[r].name = x
    <2>1. Only(job[r], [job[r] EXCEPT !.name = x], {"name"})
      BY <1>1, Updates
    <2>2. [job[r] EXCEPT !.name = x].name = x
      BY <1>1, UpdatedFields
    <2>. QED
      BY <2>1, <2>2, Noted
  <1>3. Note(r, [job[r] EXCEPT !.short = x]) =>
             Only(job[r], job'[r], {"short"}) /\ job'[r].short = x
    <2>1. Only(job[r], [job[r] EXCEPT !.short = x], {"short"})
      BY <1>1, Updates
    <2>2. [job[r] EXCEPT !.short = x].short = x
      BY <1>1, UpdatedFields
    <2>. QED
      BY <2>1, <2>2, Noted
  <1>4. Note(r, [job[r] EXCEPT !.queue = x]) =>
             Only(job[r], job'[r], {"queue"}) /\ job'[r].queue = x
    <2>1. Only(job[r], [job[r] EXCEPT !.queue = x], {"queue"})
      BY <1>1, Updates
    <2>2. [job[r] EXCEPT !.queue = x].queue = x
      BY <1>1, UpdatedFields
    <2>. QED
      BY <2>1, <2>2, Noted
  <1>5. Note(r, [job[r] EXCEPT !.kept = x]) =>
             Only(job[r], job'[r], {"kept"}) /\ job'[r].kept = x
    <2>1. Only(job[r], [job[r] EXCEPT !.kept = x], {"kept"})
      BY <1>1, Updates
    <2>2. [job[r] EXCEPT !.kept = x].kept = x
      BY <1>1, UpdatedFields
    <2>. QED
      BY <2>1, <2>2, Noted
  <1>. QED
    BY <1>2, <1>3, <1>4, <1>5

\* The least id of a queue that is not empty is one of it.
LEMMA CurrentIsQueued ==
    ASSUME BaseInv, NEW r \in Connections, job[r].queue # {}
    PROVE  /\ Current(r) \in job[r].queue /\ Current(r) \in Nat \ {0}
           /\ Ingesting(r) => Current(r) \in DOMAIN View(r).files
  <1>1. job[r].queue \in SUBSET (Nat \ {0})
    BY DEF BaseInv, TypeOK
  <1>2. Current(r) \in job[r].queue
    BY <1>1, MinIsMember DEF Current
  <1>. QED
    BY <1>1, <1>2 DEF BaseInv, ListInv, Listed

NameSteps(r) ==
    /\ ChooseName(r) =>
          /\ Only(job[r], job'[r], {"name"})
          /\ job'[r].name \in {op[r].name, [of |-> r, cluster |-> NoCluster]}
    /\ NameFetch(r) =>
          /\ Only(job[r], job'[r], {"name"})
          /\ job'[r].name = [of |-> r, cluster |-> op[r].cluster]
    /\ FetchNext(r) => Only(job[r], job'[r], {"got"})
    /\ EndFetch(r) => Only(job[r], job'[r], {"short"})
    /\ scan_directory(r) => Only(job[r], job'[r], {"names"})
    /\ \A name : TakeNext(r, name) =>
          /\ Only(job[r], job'[r], {"names", "name", "content"})
          /\ job'[r].name = name /\ name \in DOMAIN disk
    /\ compute_file_hash(r) => Only(job[r], job'[r], {"content"})

QueueSteps(r) ==
    /\ insert_file(r) =>
          /\ Only(job[r], job'[r], {"queue"})
          /\ job'[r].queue = IF Scanning(r) THEN {} ELSE {Len(View(r).files) + 1}
    /\ get_pending(r) =>
          /\ Only(job[r], job'[r], {"queue"})
          /\ job'[r].queue \subseteq PendingIds(View(r))
    /\ ParseFile(r) =>
          /\ Only(job[r], job'[r], {"kept"})
          /\ LET row == View(r).files[Current(r)] IN
             /\ row.name \in DOMAIN disk
             /\ job'[r].kept = _drop_already_ingested(
                                  existing_event_keys(View(r), row.cluster), disk[row.name])
    /\ MarkFailed(r) =>
          /\ Only(job[r], job'[r], {"queue"})
          /\ job'[r].queue = job[r].queue \ {Current(r)}
    /\ StoreEvents(r) =>
          /\ Only(job[r], job'[r], {"queue", "kept"})
          /\ job'[r].queue = job[r].queue \ {Current(r)} /\ job'[r].kept = {}

Tasks(r) ==
    \/ ChooseName(r) \/ NameFetch(r) \/ FetchNext(r) \/ EndFetch(r) \/ scan_directory(r)
    \/ (\E name \in job[r].names : TakeNext(r, name)) \/ compute_file_hash(r)
    \/ insert_file(r) \/ get_pending(r) \/ ParseFile(r) \/ MarkFailed(r) \/ StoreEvents(r)

LEMMA NameMoves ==
    ASSUME TypeOK, NEW r \in Connections
    PROVE  NameSteps(r)
  <1>1. job[r] \in Jobs
    BY DEF TypeOK, Jobs
  <1>2. ASSUME ChooseName(r) PROVE /\ Only(job[r], job'[r], {"name"})
          /\ job'[r].name \in {op[r].name, [of |-> r, cluster |-> NoCluster]}
    <2>. DEFINE name == IF op[r].name \in DOMAIN disk THEN [of |-> r, cluster |-> NoCluster]
                        ELSE op[r].name
    <2>1. Note(r, [job[r] EXCEPT !.name = name])
      BY <1>2 DEF ChooseName
    <2>2. name \in {op[r].name, [of |-> r, cluster |-> NoCluster]}
      OBVIOUS
    <2>. HIDE DEF name
    <2>. QED
      BY <2>1, <2>2, Puts
  <1>3. ASSUME NameFetch(r) PROVE /\ Only(job[r], job'[r], {"name"})
          /\ job'[r].name = [of |-> r, cluster |-> op[r].cluster]
    <2>. DEFINE name == [of |-> r, cluster |-> op[r].cluster]
    <2>1. Note(r, [job[r] EXCEPT !.name = name])
      BY <1>3 DEF NameFetch
    <2>. HIDE DEF name
    <2>2. job'[r].name = name /\ Only(job[r], job'[r], {"name"})
      BY <2>1, Puts
    <2>. QED
      BY <2>2 DEF name
  <1>4. ASSUME FetchNext(r) PROVE Only(job[r], job'[r], {"got"})
    <2>. DEFINE got == job[r].got + 1
    <2>1. Note(r, [job[r] EXCEPT !.got = got])
      BY <1>4 DEF FetchNext
    <2>. HIDE DEF got
    <2>2. Only(job[r], [job[r] EXCEPT !.got = got], {"got"})
      BY <1>1, Updates
    <2>. QED
      BY <2>1, <2>2, Noted
  <1>5. ASSUME EndFetch(r) PROVE Only(job[r], job'[r], {"short"})
    <2>. DEFINE short == job[r].got < Len(op[r].content)
    <2>1. Note(r, [job[r] EXCEPT !.short = short])
      BY <1>5 DEF EndFetch
    <2>. HIDE DEF short
    <2>. QED
      BY <2>1, Puts
  <1>6. ASSUME scan_directory(r) PROVE Only(job[r], job'[r], {"names"})
    <2>. DEFINE names == DOMAIN disk
    <2>1. Note(r, [job[r] EXCEPT !.names = names])
      BY <1>6 DEF scan_directory
    <2>. HIDE DEF names
    <2>2. Only(job[r], [job[r] EXCEPT !.names = names], {"names"})
      BY <1>1, Updates
    <2>. QED
      BY <2>1, <2>2, Noted
  <1>7. ASSUME NEW name, TakeNext(r, name)
        PROVE  /\ Only(job[r], job'[r], {"names", "name", "content"})
               /\ job'[r].name = name /\ name \in DOMAIN disk
    <2>. DEFINE names == job[r].names \ {name}
                content == disk[name]
    <2>1. Note(r, [job[r] EXCEPT !.names = names, !.name = name, !.content = content])
      BY <1>7 DEF TakeNext
    <2>. HIDE DEF names, content
    <2>2. Only(job[r], [job[r] EXCEPT !.names = names, !.name = name, !.content = content],
               {"names", "name", "content"})
      BY <1>1, Updates
    <2>3. [job[r] EXCEPT !.names = names, !.name = name, !.content = content].name = name
      BY <1>1, UpdatedFields
    <2>. QED
      BY <1>7, <2>1, <2>2, <2>3, Noted DEF TakeNext
  <1>8. ASSUME compute_file_hash(r) PROVE Only(job[r], job'[r], {"content"})
    <2>. DEFINE content == disk[job[r].name]
    <2>1. Note(r, [job[r] EXCEPT !.content = content])
      BY <1>8 DEF compute_file_hash
    <2>. HIDE DEF content
    <2>2. Only(job[r], [job[r] EXCEPT !.content = content], {"content"})
      BY <1>1, Updates
    <2>. QED
      BY <2>1, <2>2, Noted
  <1>. QED
    BY <1>2, <1>3, <1>4, <1>5, <1>6, <1>7, <1>8 DEF NameSteps

LEMMA QueueMoves ==
    ASSUME TypeOK, NEW r \in Connections
    PROVE  QueueSteps(r)
  <1>1. job[r] \in Jobs
    BY DEF TypeOK, Jobs
  <1>2. ASSUME NEW queue, Note(r, [job[r] EXCEPT !.queue = queue])
        PROVE  Only(job[r], job'[r], {"queue"}) /\ job'[r].queue = queue
    BY <1>2, Puts
  <1>3. ASSUME insert_file(r)
        PROVE  /\ Only(job[r], job'[r], {"queue"})
               /\ job'[r].queue = IF Scanning(r) THEN {} ELSE {Len(View(r).files) + 1}
    <2>. DEFINE queue == IF Scanning(r) THEN {} ELSE {Len(View(r).files) + 1}
    <2>1. Note(r, [job[r] EXCEPT !.queue = queue])
      BY <1>3 DEF insert_file
    <2>. HIDE DEF queue
    <2>2. Only(job[r], job'[r], {"queue"}) /\ job'[r].queue = queue
      BY <1>2, <2>1
    <2>. QED
      BY <2>2 DEF queue
  <1>4. ASSUME get_pending(r)
        PROVE  /\ Only(job[r], job'[r], {"queue"})
               /\ job'[r].queue \subseteq PendingIds(View(r))
    <2>. DEFINE queue == {i \in PendingIds(View(r)) :
                             op[r].kind = "ingest_pending" => i \in op[r].files}
    <2>1. Note(r, [job[r] EXCEPT !.queue = queue]) /\ queue \subseteq PendingIds(View(r))
      BY <1>4 DEF get_pending
    <2>. HIDE DEF queue
    <2>. QED
      BY <1>2, <2>1
  <1>5. ASSUME ParseFile(r)
        PROVE  /\ Only(job[r], job'[r], {"kept"})
               /\ LET row == View(r).files[Current(r)] IN
                  /\ row.name \in DOMAIN disk
                  /\ job'[r].kept = _drop_already_ingested(
                        existing_event_keys(View(r), row.cluster), disk[row.name])
    <2>. DEFINE row == View(r).files[Current(r)]
                kept == _drop_already_ingested(
                           existing_event_keys(View(r), row.cluster), disk[row.name])
    <2>1. Note(r, [job[r] EXCEPT !.kept = kept]) /\ row.name \in DOMAIN disk
      BY <1>5 DEF ParseFile, Parses
    <2>. HIDE DEF kept
    <2>2. Only(job[r], job'[r], {"kept"}) /\ job'[r].kept = kept
      BY <2>1, Puts
    <2>. QED
      BY <2>1, <2>2 DEF kept
  <1>6. ASSUME MarkFailed(r)
        PROVE  /\ Only(job[r], job'[r], {"queue"})
               /\ job'[r].queue = job[r].queue \ {Current(r)}
    BY <1>2, <1>6 DEF MarkFailed
  <1>7. ASSUME StoreEvents(r)
        PROVE  /\ Only(job[r], job'[r], {"queue", "kept"})
               /\ job'[r].queue = job[r].queue \ {Current(r)} /\ job'[r].kept = {}
    <2>. DEFINE queue == job[r].queue \ {Current(r)}
    <2>1. Note(r, [job[r] EXCEPT !.queue = queue, !.kept = {}])
      BY <1>7 DEF StoreEvents
    <2>. HIDE DEF queue
    <2>2. Only(job[r], [job[r] EXCEPT !.queue = queue, !.kept = {}], {"queue", "kept"})
      BY <1>1, Updates
    <2>3. /\ [job[r] EXCEPT !.queue = queue, !.kept = {}].queue = queue
          /\ [job[r] EXCEPT !.queue = queue, !.kept = {}].kept = {}
      BY <1>1, UpdatedFields
    <2>. QED
      BY <2>1, <2>2, <2>3, Noted DEF queue
  <1>. QED
    BY <1>3, <1>4, <1>5, <1>6, <1>7 DEF QueueSteps

LEMMA OthersKeep ==
    ASSUME NEW r \in Connections, Step(r), ~Tasks(r)
    PROVE  job' = job
  <1>1. CASE EndAction(r)
    BY <1>1, EndMoves DEF End
  <1>2. CASE OwnAction(r)
    BY <1>2 DEF OwnAction, Tasks, Arrive, Drop, WriteUpload, OpenOutput, EndScan, FileIsNew,
                SkipKnownFile, EndIngest
  <1>3. CASE WriteAction(r) \/ CommitRequest(r)
    BY <1>3 DEF WriteAction, Tasks, MarkProcessing, Shows, EndIngest, CommitRequest
  <1>. QED
    BY <1>1, <1>2, <1>3, Kinds

LEMMA OthersStay ==
    ASSUME TypeOK, NEW r \in Connections, Step(r), NEW s \in Connections \ {r}
    PROVE  pc'[s] = pc[s] /\ op'[s] = op[s] /\ answer'[s] = answer[s] /\ job'[s] = job[s]
  <1>. USE DEF TypeOK
  <1>1. CASE \E o \in Operations : Arrive(r, o)
    BY <1>1 DEF Arrive, Go
  <1>2. CASE Drop(r) \/ RefuseInput(r)
    BY <1>2 DEF Drop, RefuseInput, Go, End
  <1>3. CASE ReceiveStep(r)
    BY <1>3 DEF ReceiveStep, ChooseName, WriteUpload, NameFetch, OpenOutput, FetchNext, EndFetch,
                FetchFails, Go, Note, End
  <1>4. CASE RegisterStep(r) /\ ~(insert_file(r) \/ RegisterRaises(r))
    BY <1>4 DEF RegisterStep, scan_directory, TakeNext, EndScan, compute_file_hash, FileIsNew,
                SkipKnownFile, RefuseKnownFile, Go, Note, End
  <1>5. CASE insert_file(r) \/ RegisterRaises(r)
    BY <1>5 DEF insert_file, RegisterRaises, Go, Note, End
  <1>6. CASE get_pending(r) \/ MarkProcessing(r) \/ ParseFile(r) \/ MarkFailed(r)
    BY <1>6 DEF get_pending, MarkProcessing, ParseFile, MarkFailed, Go, Note
  <1>7. CASE StoreEvents(r) \/ EndIngest(r) \/ WriteTimesOut(r) \/ CommitRequest(r)
    BY <1>7 DEF StoreEvents, EndIngest, WriteTimesOut, CommitRequest, Go, Note, End
  <1>. QED
    BY <1>1, <1>2, <1>3, <1>4, <1>5, <1>6, <1>7 DEF Step, IngestStep
-----------------------------------------------------------------------------
(* Types.                                                                  *)

LEMMA NamesAreNames == OutsideNames \subseteq FileNames
  BY DEF OutsideNames, FileNames

LEMMA OwnNames ==
    ASSUME NEW r \in Connections, NEW cluster \in Clusters \cup {NoCluster}
    PROVE  [of |-> r, cluster |-> cluster] \in FileNames
  BY DEF FileNames

DiskType ==
    /\ DOMAIN disk \subseteq FileNames
    /\ \A name \in DOMAIN disk : disk[name] \in Seq(Keys)

LEMMA PutType ==
    ASSUME DiskType, NEW name \in FileNames, NEW content \in Seq(Keys), Put(name, content)
    PROVE  DiskType'
  BY DEF DiskType, Put

LEMMA UnlinkType ==
    ASSUME DiskType, NEW name, unlink(name)
    PROVE  DiskType'
  BY DEF DiskType, unlink, Restrict

\* What the operation of a receiving connection brings.
LEMMA Brought ==
    ASSUME BaseInv, NEW r \in Connections
    PROVE  /\ op[r].kind \in {"upload", "drop"} => op[r].name \in FileNames
           /\ op[r].kind \in {"upload", "fetch", "drop"} =>
                 op[r].content \in Seq(Keys) /\ op[r].content \in Contents
           /\ op[r].kind = "upload" => op[r].cluster \in Clusters \cup {NoCluster}
           /\ op[r].kind = "fetch" => op[r].cluster \in Clusters
  <1>1. op[r] \in OperationTypes \cup {NoOperation}
    BY DEF BaseInv, TypeOK
  <1>. QED
    BY <1>1, OperationFields, ContentsAssumption, NamesAreNames

LEMMA DiskStep ==
    ASSUME BaseInv, NEW r \in Connections, Step(r)
    PROVE  DiskType'
  <1>1. DiskType
    BY DEF DiskType, BaseInv, TypeOK
  <1>2. pc[r] \in {"open", "write"} => job[r].name \in FileNames /\ Receiving(r)
    BY DEF BaseInv, PlaceInv, Placed
  <1>3. CASE Drop(r)
    <2>1. op[r].kind = "drop"
      BY <1>3 DEF Drop, Go, BaseInv, PlaceInv, Placed, RequestPoints
    <2>. QED
      BY <1>1, <1>3, <2>1, Brought, PutType DEF Drop
  <1>4. CASE OpenOutput(r)
    <2>1. <<>> \in Seq(Keys) /\ job[r].name \in FileNames
      BY <1>2, <1>4 DEF OpenOutput, Go
    <2>. QED
      BY <1>1, <1>4, <2>1, PutType DEF OpenOutput
  <1>5. CASE WriteUpload(r)
    BY <1>1, <1>2, <1>5, Brought, PutType DEF WriteUpload, Go
  <1>6. CASE FetchNext(r)
    <2>1. job[r].got \in Nat
      BY DEF BaseInv, TypeOK
    <2>2. op[r].content \in Seq(Keys)
      BY <1>6, Brought DEF FetchNext, Fetching
    <2>3. job[r].got + 1 <= Len(op[r].content)
      BY <1>6, <2>1, <2>2 DEF FetchNext
    <2>4. SubSeq(op[r].content, 1, job[r].got + 1) \in Seq(Keys)
      BY <2>1, <2>2, <2>3
    <2>. QED
      BY <1>1, <1>2, <1>6, <2>4, PutType DEF FetchNext, Fetching
  <1>7. CASE FetchFails(r) \/ RefuseKnownFile(r)
    BY <1>1, <1>7, UnlinkType DEF FetchFails, RefuseKnownFile
  <1>8. ASSUME UNCHANGED disk PROVE DiskType'
    BY <1>1, <1>8 DEF DiskType
  <1>9. CASE (\E o \in Operations : Arrive(r, o)) \/ RefuseInput(r) \/ ChooseName(r) \/ NameFetch(r)
              \/ EndFetch(r)
    BY <1>8, <1>9 DEF Arrive, RefuseInput, ChooseName, NameFetch, EndFetch
  <1>10. CASE RegisterStep(r) /\ ~RefuseKnownFile(r)
    BY <1>8, <1>10 DEF RegisterStep, scan_directory, TakeNext, EndScan, compute_file_hash, FileIsNew,
                       SkipKnownFile, insert_file, RegisterRaises
  <1>11. CASE IngestStep(r)
    BY <1>8, <1>11 DEF IngestStep, get_pending, MarkProcessing, ParseFile, MarkFailed, StoreEvents,
                       EndIngest, WriteTimesOut, CommitRequest
  <1>. QED
    BY <1>3, <1>4, <1>5, <1>6, <1>7, <1>9, <1>10, <1>11 DEF Step, ReceiveStep

LEMMA TaskTypes ==
    ASSUME BaseInv, NEW r \in Connections, Tasks(r)
    PROVE  job' \in [Connections -> Jobs] /\ IsFiniteSet(job'[r].kept)
  <1>1. /\ TypeOK /\ job[r] \in Jobs /\ IsFiniteSet(job[r].kept)
        /\ job \in [Connections -> Jobs]
    BY DEF BaseInv, TypeOK, Jobs, PlaceInv, Placed
  <1>2. ASSUME NEW task \in Jobs, Note(r, task), IsFiniteSet(task.kept)
        PROVE  job' \in [Connections -> Jobs] /\ IsFiniteSet(job'[r].kept)
    BY <1>1, <1>2, Noted
  <1>3. CASE ChooseName(r)
    <2>. DEFINE name == IF op[r].name \in DOMAIN disk THEN [of |-> r, cluster |-> NoCluster]
                        ELSE op[r].name
    <2>0. op[r].kind = "upload"
      BY <1>3 DEF ChooseName, Go, BaseInv, PlaceInv, Placed, RequestPoints
    <2>1. name \in FileNames
      BY <2>0, Brought, OwnNames
    <2>2. Note(r, [job[r] EXCEPT !.name = name])
      BY <1>3 DEF ChooseName
    <2>. HIDE DEF name
    <2>3. [job[r] EXCEPT !.name = name] \in Jobs /\ [job[r] EXCEPT !.name = name].kept = job[r].kept
      BY <1>1, <2>1 DEF Jobs
    <2>. QED
      BY <1>1, <1>2, <2>2, <2>3
  <1>4. CASE NameFetch(r)
    <2>. DEFINE name == [of |-> r, cluster |-> op[r].cluster]
    <2>0. op[r].kind = "fetch"
      BY <1>4 DEF NameFetch, Go, BaseInv, PlaceInv, Placed, RequestPoints
    <2>1. name \in FileNames
      BY <2>0, Brought, OwnNames
    <2>2. Note(r, [job[r] EXCEPT !.name = name])
      BY <1>4 DEF NameFetch
    <2>. HIDE DEF name
    <2>3. [job[r] EXCEPT !.name = name] \in Jobs /\ [job[r] EXCEPT !.name = name].kept = job[r].kept
      BY <1>1, <2>1 DEF Jobs
    <2>. QED
      BY <1>1, <1>2, <2>2, <2>3
  <1>5. CASE FetchNext(r)
    <2>. DEFINE got == job[r].got + 1
    <2>1. got \in Nat /\ Note(r, [job[r] EXCEPT !.got = got])
      BY <1>1, <1>5 DEF FetchNext, Jobs
    <2>. HIDE DEF got
    <2>2. [job[r] EXCEPT !.got = got] \in Jobs /\ [job[r] EXCEPT !.got = got].kept = job[r].kept
      BY <1>1, <2>1 DEF Jobs
    <2>. QED
      BY <1>1, <1>2, <2>1, <2>2
  <1>6. CASE EndFetch(r)
    <2>. DEFINE short == job[r].got < Len(op[r].content)
    <2>1. short \in BOOLEAN /\ Note(r, [job[r] EXCEPT !.short = short])
      BY <1>6 DEF EndFetch
    <2>. HIDE DEF short
    <2>2. [job[r] EXCEPT !.short = short] \in Jobs /\ [job[r] EXCEPT !.short = short].kept = job[r].kept
      BY <1>1, <2>1 DEF Jobs
    <2>. QED
      BY <1>1, <1>2, <2>1, <2>2
  <1>7. CASE scan_directory(r)
    <2>. DEFINE names == DOMAIN disk
    <2>1. names \in SUBSET FileNames /\ Note(r, [job[r] EXCEPT !.names = names])
      BY <1>1, <1>7 DEF scan_directory, TypeOK
    <2>. HIDE DEF names
    <2>2. [job[r] EXCEPT !.names = names] \in Jobs /\ [job[r] EXCEPT !.names = names].kept = job[r].kept
      BY <1>1, <2>1 DEF Jobs
    <2>. QED
      BY <1>1, <1>2, <2>1, <2>2
  <1>8. CASE \E name \in job[r].names : TakeNext(r, name)
    <2>1. PICK name \in job[r].names : TakeNext(r, name)
      BY <1>8
    <2>. DEFINE names == job[r].names \ {name}
                content == disk[name]
    <2>2. /\ names \in SUBSET FileNames /\ name \in FileNames /\ content \in Seq(Keys)
          /\ Note(r, [job[r] EXCEPT !.names = names, !.name = name, !.content = content])
      BY <1>1, <2>1 DEF TakeNext, TypeOK, Jobs
    <2>. HIDE DEF names, content
    <2>3. /\ [job[r] EXCEPT !.names = names, !.name = name, !.content = content] \in Jobs
          /\ [job[r] EXCEPT !.names = names, !.name = name, !.content = content].kept = job[r].kept
      BY <1>1, <2>2 DEF Jobs
    <2>. QED
      BY <1>1, <1>2, <2>2, <2>3
  <1>9. CASE compute_file_hash(r)
    <2>. DEFINE content == disk[job[r].name]
    <2>1. content \in Seq(Keys) /\ Note(r, [job[r] EXCEPT !.content = content])
      BY <1>1, <1>9 DEF compute_file_hash, TypeOK
    <2>. HIDE DEF content
    <2>2. /\ [job[r] EXCEPT !.content = content] \in Jobs
          /\ [job[r] EXCEPT !.content = content].kept = job[r].kept
      BY <1>1, <2>1 DEF Jobs
    <2>. QED
      BY <1>1, <1>2, <2>1, <2>2
  \* The queue.
  <1>10. ASSUME NEW queue \in SUBSET (Nat \ {0}), Note(r, [job[r] EXCEPT !.queue = queue])
         PROVE  job' \in [Connections -> Jobs] /\ IsFiniteSet(job'[r].kept)
    <2>1. /\ [job[r] EXCEPT !.queue = queue] \in Jobs
          /\ [job[r] EXCEPT !.queue = queue].kept = job[r].kept
      BY <1>1 DEF Jobs
    <2>. QED
      BY <1>1, <1>2, <1>10, <2>1
  <1>11. CASE insert_file(r)
    <2>. DEFINE queue == IF Scanning(r) THEN {} ELSE {Len(View(r).files) + 1}
    <2>1. queue \in SUBSET (Nat \ {0}) /\ Note(r, [job[r] EXCEPT !.queue = queue])
      BY <1>1, <1>11, ViewType DEF insert_file
    <2>. HIDE DEF queue
    <2>. QED
      BY <1>10, <2>1
  <1>12. CASE get_pending(r)
    <2>. DEFINE queue == {i \in PendingIds(View(r)) :
                             op[r].kind = "ingest_pending" => i \in op[r].files}
    <2>1. queue \in SUBSET (Nat \ {0}) /\ Note(r, [job[r] EXCEPT !.queue = queue])
      BY <1>1, <1>12, ViewType DEF get_pending, PendingIds
    <2>. HIDE DEF queue
    <2>. QED
      BY <1>10, <2>1
  <1>13. CASE MarkFailed(r)
    <2>. DEFINE queue == job[r].queue \ {Current(r)}
    <2>1. queue \in SUBSET (Nat \ {0}) /\ Note(r, [job[r] EXCEPT !.queue = queue])
      BY <1>1, <1>13 DEF MarkFailed, Jobs
    <2>. HIDE DEF queue
    <2>. QED
      BY <1>10, <2>1
  <1>14. CASE ParseFile(r)
    <2>. DEFINE row == View(r).files[Current(r)]
                kept == _drop_already_ingested(
                           existing_event_keys(View(r), row.cluster), disk[row.name])
    <2>1. Note(r, [job[r] EXCEPT !.kept = kept]) /\ row.name \in DOMAIN disk
      BY <1>14 DEF ParseFile, Parses
    <2>2. disk[row.name] \in Seq(Keys)
      BY <1>1, <2>1 DEF TypeOK
    <2>3. kept \in SUBSET EventRows /\ IsFiniteSet(kept)
      BY <2>2, KeptType
    <2>. HIDE DEF kept
    <2>4. [job[r] EXCEPT !.kept = kept] \in Jobs /\ [job[r] EXCEPT !.kept = kept].kept = kept
      BY <1>1, <2>3 DEF Jobs
    <2>. QED
      BY <1>2, <2>1, <2>3, <2>4
  <1>15. CASE StoreEvents(r)
    <2>. DEFINE queue == job[r].queue \ {Current(r)}
    <2>1. queue \in SUBSET (Nat \ {0}) /\ Note(r, [job[r] EXCEPT !.queue = queue, !.kept = {}])
      BY <1>1, <1>15 DEF StoreEvents, Jobs
    <2>. HIDE DEF queue
    <2>2. /\ [job[r] EXCEPT !.queue = queue, !.kept = {}] \in Jobs
          /\ [job[r] EXCEPT !.queue = queue, !.kept = {}].kept = {}
      BY <1>1, <2>1 DEF Jobs
    <2>. QED
      BY <1>2, <2>1, <2>2, FS_EmptySet
  <1>. QED
    BY <1>3, <1>4, <1>5, <1>6, <1>7, <1>8, <1>9, <1>11, <1>12, <1>13, <1>14, <1>15 DEF Tasks

LEMMA AnswerStep ==
    ASSUME BaseInv, NEW r \in Connections, Step(r)
    PROVE  /\ pc' \in [Connections -> Points]
           /\ op' \in [Connections -> OperationTypes \cup {NoOperation}]
           /\ answer' \in [Connections -> {"none", "200", "400", "409", "500", "502"}]
           /\ crashes' \in Nat
  <1>. USE DEF Go, Note, Points
  <1>0. TypeOK
    BY DEF BaseInv
  <1>. USE <1>0 DEF TypeOK
  <1>1. CASE \E o \in Operations : Arrive(r, o)
    <2>1. PICK o \in Operations : Arrive(r, o)
      BY <1>1
    <2>2. o \in OperationTypes
      BY OperationsAssumption
    <2>3. o.kind \in RequestPoints
      BY <2>2, OperationFields DEF OperationTypes, RequestPoints
    <2>. QED
      BY <2>1, <2>2, <2>3 DEF Arrive, RequestPoints
  <1>2. CASE EndAction(r)
    BY <1>2, EndMoves DEF End
  <1>3. CASE OwnAction(r) /\ ~(\E o \in Operations : Arrive(r, o))
    BY <1>3 DEF OwnAction, Drop, ChooseName, WriteUpload, NameFetch, OpenOutput, FetchNext, EndFetch,
                scan_directory, TakeNext, EndScan, compute_file_hash, FileIsNew, SkipKnownFile,
                get_pending, ParseFile, EndIngest
  <1>4. CASE WriteAction(r) \/ CommitRequest(r)
    BY <1>4 DEF WriteAction, insert_file, MarkProcessing, MarkFailed, StoreEvents, Shows, EndIngest,
                CommitRequest
  <1>. QED
    BY <1>1, <1>2, <1>3, <1>4, Kinds

-----------------------------------------------------------------------------
(* The contents each action makes.                                         *)

LEMMA InsertMakes ==
    ASSUME BaseInv, NEW r \in Connections, insert_file(r)
    PROVE  /\ work' \in Tables /\ Grows(View(r), work')
           /\ \E row \in Rows :
                 /\ row.name = job[r].name /\ row.status = "pending" /\ row.short = FALSE
                 /\ Inserts(row, View(r), work')
  <1>. DEFINE row == [name |-> job[r].name, content |-> job[r].content,
                      cluster |-> ClusterOf(r), status |-> "pending", count |-> 0, short |-> FALSE]
  <1>1. View(r) \in Tables
    BY ViewType DEF BaseInv
  <1>2. job[r].name \in FileNames /\ job[r].content \in Seq(Keys)
    BY DEF insert_file, Go, BaseInv, PlaceInv, Placed, TypeOK
  <1>3. ClusterOf(r) \in Clusters \cup {NoCluster}
    BY <1>2, Brought DEF ClusterOf, cluster_from_filename, FileNames
  <1>4. row \in Rows /\ row.name = job[r].name /\ row.status = "pending" /\ row.short = FALSE
    BY <1>2, <1>3 DEF Rows
  <1>5. work' = [View(r) EXCEPT !.files = Append(@, row)]
    BY DEF insert_file, Write
  <1>. HIDE DEF row
  <1>. QED
    BY <1>1, <1>4, <1>5, InsertGrows

LEMMA MarkingMakes ==
    ASSUME BaseInv, NEW r \in Connections, NEW status \in {"processing", "failed"},
           Ingesting(r), job[r].queue # {}, Write(r, mark_status(View(r), Current(r), status))
    PROVE  /\ work' \in Tables /\ Grows(View(r), work')
           /\ Current(r) \in DOMAIN View(r).files
           /\ work'.events = View(r).events
           /\ Marked(View(r).files[Current(r)], status).status = status
           /\ Moves(Current(r), Marked(View(r).files[Current(r)], status), View(r), work')
  <1>1. View(r) \in Tables /\ Current(r) \in DOMAIN View(r).files
    BY ViewType, CurrentIsQueued DEF BaseInv
  <1>2. work' = mark_status(View(r), Current(r), status)
    BY DEF Write
  <1>3. status \in {"pending", "processing", "processed", "failed"}
    OBVIOUS
  <1>. DEFINE row == Marked(View(r).files[Current(r)], status)
              new == mark_status(View(r), Current(r), status)
  <1>4. /\ row.status = status /\ new \in Tables /\ new.events = View(r).events
        /\ Moves(Current(r), row, View(r), new) /\ Grows(View(r), new)
    BY <1>1, <1>3, MarkMakes
  <1>. QED
    BY <1>1, <1>2, <1>4

LEMMA MarkProcessingMakes ==
    ASSUME BaseInv, NEW r \in Connections, MarkProcessing(r)
    PROVE  /\ work' \in Tables /\ Grows(View(r), work')
           /\ Current(r) \in DOMAIN View(r).files
           /\ work'.events = View(r).events
           /\ Moves(Current(r), Marked(View(r).files[Current(r)], "processing"), View(r), work')
  BY MarkingMakes DEF MarkProcessing, Go, Ingesting

LEMMA MarkFailedMakes ==
    ASSUME BaseInv, NEW r \in Connections, MarkFailed(r)
    PROVE  /\ work' \in Tables /\ Grows(View(r), work')
           /\ Current(r) \in DOMAIN View(r).files
           /\ work'.events = View(r).events
           /\ Marked(View(r).files[Current(r)], "failed").status = "failed"
           /\ Moves(Current(r), Marked(View(r).files[Current(r)], "failed"), View(r), work')
  <1>1. Ingesting(r) /\ job[r].queue # {}
    BY DEF MarkFailed, Go, Ingesting, BaseInv, PlaceInv, Placed
  <1>. QED
    BY <1>1, MarkingMakes DEF MarkFailed

LEMMA StoreEventsMakes ==
    ASSUME BaseInv, NEW r \in Connections, StoreEvents(r)
    PROVE  LET row == Ingested(View(r).files[Current(r)], job[r].kept) IN
           /\ work' \in Tables /\ Grows(View(r), work')
           /\ Current(r) \in DOMAIN View(r).files
           /\ row.status = "processed" /\ row.short = FALSE
           /\ work'.events = IF job[r].kept = {} THEN View(r).events
                             ELSE Append(View(r).events, [file |-> Current(r), rows |-> job[r].kept])
           /\ Moves(Current(r), row, View(r), work')
  <1>1. /\ job[r].queue # {} /\ IsFiniteSet(job[r].kept) /\ job[r].kept \in SUBSET EventRows
        /\ Ingesting(r)
    BY DEF StoreEvents, Go, Ingesting, BaseInv, PlaceInv, Placed, TypeOK
  <1>2. View(r) \in Tables /\ Current(r) \in DOMAIN View(r).files
    BY <1>1, ViewType, CurrentIsQueued DEF BaseInv
  <1>3. work' = Stored(View(r), Current(r), job[r].kept)
    BY DEF StoreEvents, Write, Stored
  <1>. QED
    BY ZenonT(40), <1>1, <1>2, <1>3, StoreMakes

LEMMA ShowsMakes ==
    ASSUME BaseInv, NEW r \in Connections, Shows(r)
    PROVE  LET last == Len(View(r).files)
               row == [View(r).files[last] EXCEPT !.short = TRUE] IN
           /\ work' \in Tables /\ Grows(View(r), work')
           /\ op[r].kind = "fetch" /\ last \in DOMAIN View(r).files
           /\ row.status = View(r).files[last].status /\ row.short = TRUE
           /\ work'.events = View(r).events
           /\ Moves(last, row, View(r), work')
  <1>1. op[r].kind = "fetch" /\ Ingesting(r)
    BY DEF Shows, EndIngest, Go, Ingesting, BaseInv, PlaceInv, Placed
  <1>2. View(r) \in Tables /\ Len(View(r).files) \in DOMAIN View(r).files
    BY <1>1, ViewType DEF BaseInv, ListInv, Listed, Receiving
  <1>3. work' = [View(r) EXCEPT !.files[Len(View(r).files)].short = TRUE]
    BY DEF Shows, EndIngest, Write
  <1>. QED
    BY <1>1, <1>2, <1>3, ShowMakes

LEMMA WriteGrows ==
    ASSUME BaseInv, NEW r \in Connections, WriteAction(r)
    PROVE  /\ work' \in Tables /\ Grows(View(r), work') /\ Grows(db, work') /\ db' = db
           /\ tx' = [tx EXCEPT ![r] = "reserved"]
  <1>1. work' \in Tables /\ Grows(View(r), work')
    BY InsertMakes, MarkProcessingMakes, MarkFailedMakes, StoreEventsMakes, ShowsMakes DEF WriteAction
  <1>2. View(r) \in Tables /\ db \in Tables /\ Grows(db, work)
    BY ViewType DEF BaseInv, TypeOK, ListInv
  <1>3. View(r) = work => Grows(db, work')
    BY <1>1, <1>2, GrowsTwice
  <1>4. View(r) = db => Grows(db, work')
    BY <1>1
  <1>. QED
    BY <1>1, <1>3, <1>4, WriteMoves DEF View, Write

LEMMA TypeStep ==
    ASSUME BaseInv, NEW r \in Connections, Step(r)
    PROVE  TypeOK'
  <1>1. LockInv /\ TypeOK /\ LocksOK
    BY DEF BaseInv, LockInv, Locks, LocksOK, TypeOK
  <1>2. Statement(r, Connections)
    BY <1>1, StepIsStatement
  <1>3. tx' \in [Connections -> TxStates]
    BY <1>1, <1>2, LocksKept DEF LocksOK
  <1>4. db' \in Tables /\ work' \in Tables
    <2>1. db \in Tables /\ work \in Tables
      BY <1>1 DEF TypeOK
    <2>2. CASE WriteAction(r)
      BY <2>1, <2>2, WriteGrows
    <2>3. CASE OwnAction(r)
      BY <1>1, <2>1, <2>3, OwnMoves DEF fileVars
    <2>4. CASE EndAction(r)
      BY <2>1, <2>4, EndMoves DEF End, Rollback
    <2>5. CASE CommitRequest(r)
      BY <2>1, <2>5 DEF CommitRequest, Commit
    <2>. QED
      BY <2>2, <2>3, <2>4, <2>5, Kinds
  <1>5. job' \in [Connections -> Jobs]
    BY <1>1, TaskTypes, OthersKeep DEF TypeOK, Jobs
  <1>. QED
    BY <1>3, <1>4, <1>5, AnswerStep, DiskStep DEF TypeOK, DiskType, Jobs

-----------------------------------------------------------------------------
(* Where a connection is, and what it holds.                               *)

LEMMA LocksAre ==
    ASSUME BaseInv, NEW r \in Connections, Step(r)
    PROVE  /\ LocksOK /\ OneWriter' /\ \A s \in Connections \ {r} : tx'[s] = tx[s]
           /\ OwnAction(r) => tx' = tx
           /\ WriteAction(r) => tx'[r] = "reserved"
           /\ EndAction(r) \/ CommitRequest(r) => tx'[r] = "auto"
  <1>1. LockInv /\ LocksOK /\ tx \in [Connections -> TxStates]
    BY DEF BaseInv, LockInv, Locks, LocksOK, TypeOK
  <1>2. Statement(r, Connections)
    BY <1>1, StepIsStatement
  <1>3. OneWriter' /\ \A s \in Connections \ {r} : tx'[s] = tx[s]
    BY <1>1, <1>2, LocksKept DEF LocksOK
  <1>4. OwnAction(r) => tx' = tx
    BY <1>1, OwnMoves DEF fileVars
  <1>5. WriteAction(r) => tx'[r] = "reserved"
    BY <1>1, WriteMoves DEF Write
  <1>6. EndAction(r) \/ CommitRequest(r) => tx'[r] = "auto"
    BY <1>1, EndMoves DEF End, Rollback, CommitRequest, Commit
  <1>. QED
    BY <1>1, <1>3, <1>4, <1>5, <1>6

LEMMA ProcStep ==
    ASSUME BaseInv, NEW r \in Connections, Step(r)
    PROVE  Locks(r)' /\ Placed(r)'
  <1>0. /\ TypeOK /\ Locks(r) /\ Placed(r) /\ NameSteps(r) /\ QueueSteps(r)
        /\ pc \in [Connections -> Points] /\ op \in [Connections -> OperationTypes \cup {NoOperation}]
        /\ answer \in [Connections -> {"none", "200", "400", "409", "500", "502"}]
        /\ job \in [Connections -> Jobs] /\ tx \in [Connections -> TxStates]
    BY NameMoves, QueueMoves DEF BaseInv, LockInv, PlaceInv, TypeOK, Jobs
  <1>. USE <1>0, LocksAre DEF Writer
  <1>1. CASE \E o \in Operations : Arrive(r, o)
    <2>1. PICK o \in Operations : Arrive(r, o)
      BY <1>1
    <2>2. o \in OperationTypes
      BY OperationsAssumption
    <2>3. o # NoOperation /\ o.kind \in RequestPoints
      BY <2>2, OperationFields DEF OperationTypes, RequestPoints, NoOperation
    <2>4. /\ pc[r] = "idle" /\ pc'[r] = o.kind /\ op'[r] = o /\ answer' = answer /\ job' = job
          /\ tx' = tx /\ op[r] = NoOperation
      BY <2>1 DEF Arrive, Go, fileVars, Placed
    <2>5. answer[r] = "none" /\ job[r].short = FALSE /\ ~Writer(r)
      BY <2>4 DEF Placed, NoOperation, Locks, Ingesting, Jobs
    <2>6. Locks(r)'
      BY <2>3, <2>4, <2>5 DEF Locks, Ingesting, RequestPoints
    <2>7. Placed(r)'
      BY <2>3, <2>4, <2>5 DEF Placed, RequestPoints
    <2>. QED
      BY <2>6, <2>7
  <1>2. CASE EndAction(r)
    <2>1. pc'[r] = "closed" /\ op' = op /\ job' = job /\ tx'[r] = "auto" /\ pc[r] # "idle"
      <3>1. pc'[r] = "closed" /\ op' = op /\ job' = job /\ tx'[r] = "auto"
        BY <1>2, EndMoves DEF End
      <3>2. pc[r] # "idle"
        BY <1>2 DEF EndAction, RefuseInput, FetchFails, Fetching, RefuseKnownFile, RegisterRaises,
                    WriteTimesOut
      <3>. QED
        BY <3>1, <3>2
    <2>2. Locks(r)'
      BY <2>1 DEF Locks, Ingesting
    <2>3. Placed(r)'
      BY <2>1 DEF Placed, RequestPoints
    <2>. QED
      BY <2>2, <2>3
  <1>3. CASE CommitRequest(r)
    <2>1. /\ pc'[r] = "closed" /\ op' = op /\ job' = job /\ tx'[r] = "auto" /\ pc[r] = "answer"
      BY <1>3 DEF CommitRequest, Go
    <2>2. Locks(r)'
      BY <2>1 DEF Locks, Ingesting
    <2>3. Placed(r)'
      BY <2>1 DEF Placed, RequestPoints
    <2>. QED
      BY <2>2, <2>3
  \* Steps that leave the operation and the answer as they are.
  <1>. DEFINE quiet == op' = op /\ answer' = answer
  <1>4. CASE Drop(r)
    <2>1. quiet /\ job' = job /\ pc'[r] = "closed" /\ pc[r] = "drop" /\ tx' = tx
      BY <1>4 DEF Drop, Go, fileVars
    <2>. QED
      BY <2>1 DEF Locks, Placed, Ingesting, RequestPoints
  <1>5. CASE ChooseName(r) \/ NameFetch(r)
    <2>1. /\ quiet /\ pc'[r] = "open" /\ pc[r] \in {"upload", "fetch"} /\ tx' = tx
          /\ Only(job[r], job'[r], {"name"})
      BY <1>5 DEF ChooseName, NameFetch, Go, fileVars, NameSteps
    <2>2. Receiving(r) /\ op[r] # NoOperation
      BY <2>1 DEF Placed, RequestPoints, Receiving
    <2>3. job'[r].name \in FileNames
      BY <1>5, <2>1, Brought, OwnNames DEF ChooseName, NameFetch, Go, NameSteps, Placed, RequestPoints
    <2>4. Locks(r)'
      BY <2>1 DEF Locks, Ingesting
    <2>. QED
      BY <2>1, <2>2, <2>3, <2>4 DEF Placed, RequestPoints, Only, Receiving, Scanning
  <1>6. CASE OpenOutput(r) \/ WriteUpload(r)
    <2>1. /\ quiet /\ job' = job /\ pc'[r] \in {"write", "hash"} /\ pc[r] \in {"open", "write"}
          /\ tx' = tx
      BY <1>6 DEF OpenOutput, WriteUpload, Go, fileVars
    <2>. QED
      BY <2>1 DEF Locks, Placed, Ingesting, RequestPoints, Receiving, Scanning
  <1>7. CASE FetchNext(r)
    <2>1. /\ quiet /\ pc' = pc /\ tx' = tx /\ Only(job[r], job'[r], {"got"})
      BY <1>7 DEF FetchNext, fileVars, NameSteps
    <2>. QED
      BY <2>1 DEF Locks, Placed, Ingesting, RequestPoints, Only, Receiving, Scanning
  <1>8. CASE EndFetch(r)
    <2>1. /\ quiet /\ pc'[r] = "hash" /\ pc[r] = "write" /\ tx' = tx
          /\ Only(job[r], job'[r], {"short"}) /\ op[r].kind = "fetch"
      BY <1>8 DEF EndFetch, Fetching, Go, fileVars, NameSteps
    <2>. QED
      BY <2>1 DEF Locks, Placed, Ingesting, RequestPoints, Only, Receiving, Scanning
  <1>9. CASE scan_directory(r)
    <2>1. /\ quiet /\ pc'[r] = "next" /\ pc[r] \in {"scan", "cli"} /\ tx' = tx
          /\ Only(job[r], job'[r], {"names"})
      BY <1>9 DEF scan_directory, fileVars, NameSteps
    <2>. QED
      BY <2>1 DEF Locks, Placed, Ingesting, RequestPoints, Only, Receiving, Scanning
  <1>10. CASE \E name \in job[r].names : TakeNext(r, name)
    <2>1. PICK name \in job[r].names : TakeNext(r, name)
      BY <1>10
    <2>2. /\ quiet /\ pc'[r] = "find" /\ pc[r] = "next" /\ tx' = tx
          /\ Only(job[r], job'[r], {"names", "name", "content"}) /\ job'[r].name = name
      BY <2>1 DEF TakeNext, Go, fileVars, NameSteps
    <2>3. name \in FileNames
      BY <2>1 DEF Jobs
    <2>. QED
      BY <2>2, <2>3 DEF Locks, Placed, Ingesting, RequestPoints, Only, Receiving, Scanning
  <1>11. CASE EndScan(r)
    <2>1. /\ quiet /\ job' = job /\ pc[r] = "next" /\ tx' = tx
          /\ pc'[r] = IF op[r].kind = "cli" THEN "pending" ELSE "answer"
      BY <1>11 DEF EndScan, Go, fileVars
    <2>. QED
      BY <2>1 DEF Locks, Placed, Ingesting, RequestPoints, Receiving, Scanning
  <1>12. CASE compute_file_hash(r)
    <2>1. /\ quiet /\ pc'[r] = "find" /\ pc[r] = "hash" /\ tx' = tx
          /\ Only(job[r], job'[r], {"content"})
      BY <1>12 DEF compute_file_hash, Go, fileVars, NameSteps
    <2>. QED
      BY <2>1 DEF Locks, Placed, Ingesting, RequestPoints, Only, Receiving, Scanning
  <1>13. CASE FileIsNew(r) \/ SkipKnownFile(r)
    <2>1. /\ quiet /\ job' = job /\ pc[r] = "find"
          /\ pc'[r] = "insert" \/ (pc'[r] = "next" /\ Scanning(r))
      BY <1>13 DEF FileIsNew, SkipKnownFile, Go
    <2>2. tx' = tx
      BY <1>13 DEF OwnAction
    <2>. QED
      BY <2>1, <2>2 DEF Locks, Placed, Ingesting, RequestPoints, Receiving, Scanning
  <1>14. CASE insert_file(r)
    <2>1. /\ quiet /\ pc[r] = "insert" /\ pc'[r] = IF Scanning(r) THEN "next" ELSE "ingest"
          /\ Only(job[r], job'[r], {"queue"})
      BY <1>14 DEF insert_file, Go, QueueSteps
    <2>2. tx'[r] = "reserved"
      BY <1>14 DEF WriteAction
    <2>. QED
      BY <2>1, <2>2 DEF Locks, Placed, Ingesting, RequestPoints, Only, Receiving, Scanning
  <1>15. CASE get_pending(r)
    <2>1. /\ quiet /\ pc[r] \in {"ingest_pending", "pending"} /\ pc'[r] = "ingest"
          /\ Only(job[r], job'[r], {"queue"})
      BY <1>15 DEF get_pending, QueueSteps
    <2>2. tx' = tx
      BY <1>15 DEF OwnAction
    <2>. QED
      BY <2>1, <2>2 DEF Locks, Placed, Ingesting, RequestPoints, Only, Receiving, Scanning
  <1>16. CASE MarkProcessing(r)
    <2>1. quiet /\ job' = job /\ pc[r] = "ingest" /\ pc'[r] = "parse" /\ job[r].queue # {}
      BY <1>16 DEF MarkProcessing, Go
    <2>2. tx'[r] = "reserved"
      BY <1>16 DEF WriteAction
    <2>. QED
      BY <2>1, <2>2 DEF Locks, Placed, Ingesting, RequestPoints, Receiving, Scanning
  <1>17. CASE ParseFile(r)
    <2>1. /\ quiet /\ pc[r] = "parse" /\ pc'[r] = "store" /\ Only(job[r], job'[r], {"kept"})
          /\ IsFiniteSet(job'[r].kept)
      BY <1>17, TaskTypes DEF ParseFile, Go, QueueSteps, Tasks
    <2>2. tx' = tx
      BY <1>17 DEF OwnAction
    <2>. QED
      BY <2>1, <2>2 DEF Locks, Placed, Ingesting, RequestPoints, Only, Receiving, Scanning
  <1>18. CASE MarkFailed(r) \/ StoreEvents(r)
    <2>1. /\ quiet /\ pc[r] \in {"parse", "store"} /\ pc'[r] = "ingest"
          /\ Only(job[r], job'[r], {"queue", "kept"}) /\ IsFiniteSet(job'[r].kept)
      BY <1>18, TaskTypes DEF MarkFailed, StoreEvents, Go, QueueSteps, Tasks, Only
    <2>2. tx'[r] = "reserved"
      BY <1>18 DEF WriteAction
    <2>. QED
      BY <2>1, <2>2 DEF Locks, Placed, Ingesting, RequestPoints, Only, Receiving, Scanning
  <1>19. CASE EndIngest(r)
    <2>1. quiet /\ job' = job /\ pc[r] = "ingest" /\ pc'[r] = "answer"
      BY <1>19 DEF EndIngest, Go
    <2>2. tx' = tx \/ tx'[r] = "reserved"
      BY <1>19 DEF WriteAction, OwnAction
    <2>. QED
      BY <2>1, <2>2 DEF Locks, Placed, Ingesting, RequestPoints, Receiving, Scanning
  <1>. QED
    BY <1>1, <1>2, <1>3, <1>4, <1>5, <1>6, <1>7, <1>8, <1>9, <1>10, <1>11, <1>12, <1>13, <1>14,
       <1>15, <1>16, <1>17, <1>18, <1>19, Kinds DEF OwnAction, WriteAction, Shows

LEMMA GrowsItself ==
    ASSUME NEW a \in Tables
    PROVE  Grows(a, a)
  <1>1. Len(a.files) \in Nat /\ Len(a.events) \in Nat
    BY DEF Tables
  <1>. QED
    BY <1>1 DEF Grows, SameFile

LEMMA GrowsDomain ==
    ASSUME NEW a \in Tables, NEW b \in Tables, Grows(a, b)
    PROVE  /\ DOMAIN a.files \subseteq DOMAIN b.files
           /\ DOMAIN a.events \subseteq DOMAIN b.events
           /\ Len(a.files) \in DOMAIN a.files => Len(b.files) \in DOMAIN b.files
  <1>1. /\ a.files \in Seq(Rows) /\ b.files \in Seq(Rows)
        /\ a.events \in Seq([file : Nat \ {0}, rows : SUBSET EventRows])
        /\ b.events \in Seq([file : Nat \ {0}, rows : SUBSET EventRows])
    BY DEF Tables
  <1>2. /\ Len(a.files) \in Nat /\ Len(b.files) \in Nat
        /\ Len(a.events) \in Nat /\ Len(b.events) \in Nat
        /\ DOMAIN a.files = 1..Len(a.files) /\ DOMAIN b.files = 1..Len(b.files)
        /\ DOMAIN a.events = 1..Len(a.events) /\ DOMAIN b.events = 1..Len(b.events)
    BY <1>1
  <1>. QED
    BY <1>2 DEF Grows

\* Only a commit of r, or what r undoes, changes what another connection sees.
LEMMA OthersView ==
    ASSUME BaseInv, NEW r \in Connections, Step(r), NEW s \in Connections \ {r}
    PROVE  /\ Writer(s)' = Writer(s)
           /\ Writer(s) => work' = work /\ db' = db
           /\ View(s)' = View(s) \/ (CommitRequest(r) /\ ~Writer(s) /\ View(s) = db /\ View(s)' = db')
           /\ Grows(View(s), View(s)')
           /\ db' = db \/ (CommitRequest(r) /\ Writer(r) /\ db' = work)
  <1>1. LocksOK /\ Statement(r, Connections) /\ db \in Tables /\ work \in Tables /\ Grows(db, work)
    BY LocksAre, StepIsStatement DEF BaseInv, TypeOK, ListInv
  <1>2. Writer(s)' = Writer(s)
    BY LocksAre DEF Writer
  <1>3. Writer(s) => work' = work /\ db' = db
    BY <1>1, OthersIsolated
  <1>4. db' = db \/ (CommitRequest(r) /\ Writer(r) /\ db' = work)
    <2>1. CASE OwnAction(r)
      BY <2>1, OwnMoves DEF BaseInv, fileVars
    <2>2. CASE WriteAction(r)
      BY <2>2, WriteGrows
    <2>3. CASE EndAction(r)
      BY <2>3, EndMoves DEF End, Rollback
    <2>4. CASE CommitRequest(r)
      BY <2>4 DEF CommitRequest, Commit
    <2>. QED
      BY <2>1, <2>2, <2>3, <2>4, Kinds
  <1>5. CASE Writer(s)
    BY <1>1, <1>2, <1>3, <1>4, <1>5, GrowsItself DEF View
  <1>6. CASE ~Writer(s)
    BY <1>1, <1>2, <1>4, <1>6, GrowsItself DEF View
  <1>. QED
    BY <1>5, <1>6

\* How a connection comes to where it ingests.
LEMMA ReachedBy ==
    ASSUME TypeOK, NEW r \in Connections, Step(r)
    PROVE  /\ Ingesting(r)' => \/ insert_file(r) \/ get_pending(r) \/ MarkProcessing(r)
                               \/ MarkFailed(r) \/ StoreEvents(r) \/ ParseFile(r)
           /\ pc'[r] = "parse" => MarkProcessing(r)
           /\ pc'[r] = "store" => ParseFile(r)
           /\ pc'[r] = "answer" => EndScan(r) \/ EndIngest(r)
  <1>. USE DEF Ingesting, TypeOK, Go
  <1>1. CASE EndAction(r)
    BY <1>1, EndMoves DEF End
  <1>2. CASE CommitRequest(r)
    BY <1>2 DEF CommitRequest
  <1>3. CASE \E o \in Operations : Arrive(r, o)
    BY <1>3, OperationsAssumption, OperationFields DEF Arrive, RequestPoints, OperationTypes
  <1>4. CASE OwnAction(r) /\ ~(\E o \in Operations : Arrive(r, o))
    BY <1>4 DEF OwnAction, Drop, ChooseName, WriteUpload, NameFetch, OpenOutput, FetchNext, Fetching,
                EndFetch, scan_directory, TakeNext, EndScan, compute_file_hash, FileIsNew,
                SkipKnownFile, EndIngest, get_pending, ParseFile
  <1>5. CASE WriteAction(r)
    BY <1>5 DEF WriteAction, insert_file, MarkProcessing, MarkFailed, StoreEvents, Shows, EndIngest
  <1>. QED
    BY <1>1, <1>2, <1>3, <1>4, <1>5, Kinds

LEMMA ListStep ==
    ASSUME BaseInv, NEW r \in Connections, Step(r)
    PROVE  ListInv'
  <1>0. /\ TypeOK /\ LockInv /\ TypeOK' /\ db \in Tables /\ work \in Tables /\ Grows(db, work)
        /\ QueueSteps(r)
    BY TypeStep, QueueMoves DEF BaseInv, TypeOK, ListInv
  <1>1. Grows(db, work)'
    <2>1. CASE OwnAction(r)
      BY <1>0, <2>1, OwnMoves DEF fileVars
    <2>2. CASE WriteAction(r)
      BY <2>2, WriteGrows
    <2>3. CASE EndAction(r)
      BY <1>0, <2>3, EndMoves, GrowsItself DEF End, Rollback
    <2>4. CASE CommitRequest(r)
      BY <1>0, <2>4, GrowsItself DEF CommitRequest, Commit
    <2>. QED
      BY <2>1, <2>2, <2>3, <2>4, Kinds
  <1>2. ASSUME NEW s \in Connections \ {r}
        PROVE  Listed(s)'
    <2>1. pc'[s] = pc[s] /\ op'[s] = op[s] /\ job'[s] = job[s]
      BY <1>0, OthersStay
    <2>2. Grows(View(s), View(s)') /\ View(s) \in Tables /\ View(s)' \in Tables
      BY <1>0, OthersView, ViewType DEF View, TypeOK
    <2>3. /\ DOMAIN View(s).files \subseteq DOMAIN View(s)'.files
          /\ Len(View(s).files) \in DOMAIN View(s).files =>
                Len(View(s)'.files) \in DOMAIN View(s)'.files
      BY <2>2, GrowsDomain
    <2>. QED
      BY <2>1, <2>3 DEF BaseInv, ListInv, Listed, Ingesting, Receiving
  <1>3. Listed(r)'
    <2>. SUFFICES ASSUME Ingesting(r)'
                  PROVE  /\ job'[r].queue \subseteq DOMAIN View(r)'.files
                         /\ Receiving(r)' => Len(View(r)'.files) \in DOMAIN View(r)'.files
      BY DEF Listed
    <2>0. /\ View(r) \in Tables /\ DOMAIN View(r).files = 1..Len(View(r).files)
          /\ Len(View(r).files) \in Nat /\ Listed(r)
      BY <1>0, ViewType DEF BaseInv, ListInv
    <2>1. insert_file(r) \/ get_pending(r) \/ MarkProcessing(r) \/ MarkFailed(r) \/ StoreEvents(r)
          \/ ParseFile(r)
      BY <1>0, ReachedBy
    <2>2. CASE insert_file(r)
      <3>1. PICK row \in Rows : Inserts(row, View(r), work')
        BY <2>2, InsertMakes
      <3>2. View(r)' = work'
        BY <2>2, LocksAre DEF WriteAction, View, Writer
      <3>3. View(r).files \in Seq(Rows) /\ View(r)'.files = Append(View(r).files, row)
        BY <3>1, <3>2, <2>0 DEF Inserts, Tables
      <3>4. /\ Len(View(r)'.files) = Len(View(r).files) + 1
            /\ DOMAIN View(r)'.files = 1..(Len(View(r).files) + 1)
        BY <3>3
      <3>5. job'[r].queue \subseteq {Len(View(r).files) + 1}
        BY <1>0, <2>2 DEF QueueSteps
      <3>. QED
        BY <2>0, <3>4, <3>5
    <2>3. CASE get_pending(r)
      <3>1. View(r)' = View(r)
        BY <1>0, <2>3, OwnMoves DEF OwnAction, fileVars, View, Writer
      <3>2. job'[r].queue \subseteq DOMAIN View(r).files
        BY <1>0, <2>3 DEF QueueSteps, PendingIds
      <3>3. ~Receiving(r)'
        BY <2>3 DEF get_pending, Receiving, BaseInv, PlaceInv, Placed, RequestPoints
      <3>. QED
        BY <3>1, <3>2, <3>3
    <2>4. CASE MarkProcessing(r) \/ MarkFailed(r) \/ StoreEvents(r)
      <3>1. View(r)' = work' /\ Ingesting(r) /\ op' = op /\ job'[r].queue \subseteq job[r].queue
        BY <1>0, <2>4, LocksAre
        DEF WriteAction, View, Writer, MarkProcessing, MarkFailed, StoreEvents, Go, Ingesting, QueueSteps
      <3>2. Grows(View(r), work') /\ work' \in Tables
        BY <2>4, WriteGrows DEF WriteAction
      <3>3. /\ DOMAIN View(r).files \subseteq DOMAIN work'.files
            /\ Len(View(r).files) \in DOMAIN View(r).files => Len(work'.files) \in DOMAIN work'.files
        BY <2>0, <3>2, GrowsDomain
      <3>. QED
        BY <2>0, <3>1, <3>3 DEF Listed, Receiving
    <2>5. CASE ParseFile(r)
      <3>1. View(r)' = View(r)
        BY <1>0, <2>5, OwnMoves DEF OwnAction, fileVars, View, Writer
      <3>2. Ingesting(r) /\ op' = op /\ job'[r].queue = job[r].queue
        BY <1>0, <2>5 DEF ParseFile, Go, Ingesting, QueueSteps, Only
      <3>. QED
        BY <2>0, <3>1, <3>2 DEF Listed, Receiving
    <2>. QED
      BY <2>1, <2>2, <2>3, <2>4, <2>5
  <1>. QED
    BY <1>1, <1>2, <1>3 DEF ListInv

LEMMA BaseStep ==
    ASSUME BaseInv, NEW r \in Connections, Step(r)
    PROVE  BaseInv'
  <1>1. ASSUME NEW s \in Connections \ {r}
        PROVE  Locks(s)' /\ Placed(s)'
    <2>1. /\ pc'[s] = pc[s] /\ op'[s] = op[s] /\ answer'[s] = answer[s] /\ job'[s] = job[s]
          /\ tx'[s] = tx[s]
      BY OthersStay, LocksAre DEF BaseInv
    <2>2. Locks(s) /\ Placed(s)
      BY DEF BaseInv, LockInv, PlaceInv
    <2>3. Locks(s)'
      BY <2>1, <2>2 DEF Locks, Writer, Ingesting, Receiving
    <2>4. Placed(s)'
      BY <2>1, <2>2 DEF Placed, Receiving, Scanning
    <2>. QED
      BY <2>3, <2>4
  <1>. QED
    BY <1>1, TypeStep, ListStep, ProcStep, LocksAre DEF BaseInv, LockInv, PlaceInv

LEMMA BaseCrash ==
    ASSUME BaseInv, Crash
    PROVE  BaseInv'
  <1>1. /\ db \in Tables /\ db' = db /\ work' = db /\ tx' = [c \in Connections |-> "auto"]
        /\ UNCHANGED <<disk, op, answer, job>> /\ crashes' \in Nat
        /\ \A s \in Connections : pc'[s] = IF pc[s] \in {"idle", "closed"} THEN pc[s] ELSE "killed"
        /\ pc' \in [Connections -> Points]
    BY DEF Crash, Recover, BaseInv, TypeOK, Points
  <1>2. TypeOK'
    BY <1>1 DEF BaseInv, TypeOK, TxStates
  <1>3. LockInv'
    BY <1>1 DEF LockInv, OneWriter, Locks, Writer, Ingesting
  <1>4. ASSUME NEW s \in Connections PROVE Placed(s)'
    <2>1. Placed(s) /\ pc'[s] \in {"idle", "closed", "killed"}
          /\ (pc'[s] = "idle" <=> pc[s] = "idle") /\ (pc[s] = "closed" => pc'[s] = "closed")
      BY <1>1 DEF BaseInv, PlaceInv
    <2>. QED
      BY <1>1, <2>1 DEF Placed, RequestPoints
  <1>5. ListInv'
    <2>1. Grows(db, work)'
      BY <1>1, GrowsItself
    <2>2. \A s \in Connections : ~Ingesting(s)'
      BY <1>1 DEF Ingesting
    <2>. QED
      BY <2>1, <2>2 DEF ListInv, Listed
  <1>. QED
    BY <1>2, <1>3, <1>4, <1>5 DEF BaseInv, PlaceInv

LEMMA BaseStutter ==
    ASSUME BaseInv, UNCHANGED vars
    PROVE  BaseInv'
  <1>. USE DEF vars, fileVars
  <1>1. TypeOK'
    BY DEF BaseInv, TypeOK
  <1>2. LockInv'
    BY DEF BaseInv, LockInv, OneWriter, Locks, Writer, Ingesting, Receiving
  <1>3. PlaceInv'
    BY DEF BaseInv, PlaceInv, Placed, Receiving, Scanning
  <1>4. ListInv'
    BY DEF BaseInv, ListInv, Listed, Ingesting, Receiving, View, Writer
  <1>. QED
    BY <1>1, <1>2, <1>3, <1>4 DEF BaseInv

LEMMA BaseInit == Init => BaseInv
  <1>. SUFFICES ASSUME Init PROVE BaseInv
    OBVIOUS
  <1>. DEFINE first == [files |-> FirstFiles, events |-> <<>>]
  <1>1. first \in Tables
    BY FirstFilesAssumption DEF Tables
  <1>2. db = first /\ work = first /\ tx = [c \in Connections |-> "auto"]
    BY DEF Init, OpenFile
  <1>3. NoJob \in Jobs /\ IsFiniteSet(NoJob.kept) /\ ~NoJob.short
    BY FS_EmptySet DEF NoJob, Jobs
  <1>4. TypeOK
    <2>1. DiskType
      BY FirstDiskAssumption, ContentsAssumption, NamesAreNames DEF Init, DiskType, Range
    <2>2. job \in [Connections -> Jobs]
      BY <1>3 DEF Init
    <2>. QED
      BY <1>1, <1>2, <2>1, <2>2 DEF Init, TypeOK, DiskType, Jobs, TxStates, Points
  <1>5. LockInv
    BY <1>2 DEF Init, LockInv, OneWriter, Locks, Writer, Ingesting
  <1>6. PlaceInv
    BY <1>3 DEF Init, PlaceInv, Placed, RequestPoints
  <1>7. ListInv
    BY <1>1, <1>2, GrowsItself DEF Init, ListInv, Listed, Ingesting
  <1>. QED
    BY <1>4, <1>5, <1>6, <1>7 DEF BaseInv

LEMMA BaseAlways == Spec => []BaseInv
  <1>1. BaseInv /\ [Next]_vars => BaseInv'
    BY Steps, BaseStep, BaseCrash, BaseStutter
  <1>. QED
    BY BaseInit, <1>1, PTL DEF Spec

(***************************************************************************)
(* Every step leaves tables, directory and connections well formed: no     *)
(* row of the code's two tables is ever built from what a handler has not  *)
(* got (a file of the queue that is not there, a name it never chose).     *)
(***************************************************************************)
THEOREM TypeCorrect == Spec => []TypeOK
  BY BaseAlways, PTL DEF BaseInv


-----------------------------------------------------------------------------
(* No event from two files.                                                *)

ClusterAt(contents, k) == contents.files[contents.events[k].file].cluster

Filed(contents) == \A k \in DOMAIN contents.events : contents.events[k].file \in DOMAIN contents.files

\* Two inserts for one cluster bring different events.
Apart(contents) ==
    \A i, j \in DOMAIN contents.events :
        \A a \in contents.events[i].rows, b \in contents.events[j].rows :
            a.key = b.key /\ ClusterAt(contents, i) = ClusterAt(contents, j) => i = j

(***************************************************************************)
(* What a connection is about to insert is new to its cluster.  It holds   *)
(* from the reading of the keys to the insert because the connection has   *)
(* written before it read: nobody else can insert in between.              *)
(***************************************************************************)
Fresh(r) ==
    pc[r] = "store" =>
        \A e \in job[r].kept : \A k \in DOMAIN work.events : \A f \in work.events[k].rows :
            ClusterAt(work, k) = work.files[Current(r)].cluster => e.key # f.key

ApartInv ==
    /\ Filed(db) /\ Filed(work)
    /\ Apart(work)
    /\ \A r \in Connections : Fresh(r)

LEMMA ApartBelow ==
    ASSUME NEW a \in Tables, NEW b \in Tables, Grows(a, b), Filed(a), Apart(b)
    PROVE  Apart(a)
  <1>1. DOMAIN a.files \subseteq DOMAIN b.files /\ DOMAIN a.events \subseteq DOMAIN b.events
    BY GrowsDomain
  <1>2. \A k \in DOMAIN a.events :
           b.events[k] = a.events[k] /\ ClusterAt(a, k) = ClusterAt(b, k)
    BY <1>1 DEF Grows, Filed, ClusterAt, SameFile
  <1>. QED
    BY <1>1, <1>2 DEF Apart

LEMMA ApartSame ==
    ASSUME NEW a \in Tables, NEW b \in Tables, Grows(a, b), b.events = a.events, Filed(a), Apart(a)
    PROVE  Filed(b) /\ Apart(b)
  <1>1. DOMAIN a.files \subseteq DOMAIN b.files
    BY GrowsDomain
  <1>2. \A k \in DOMAIN b.events : ClusterAt(b, k) = ClusterAt(a, k)
    BY <1>1 DEF Grows, Filed, ClusterAt, SameFile
  <1>3. Filed(b)
    BY <1>1 DEF Filed
  <1>. QED
    BY <1>2, <1>3 DEF Apart

LEMMA ApartStored ==
    ASSUME NEW a \in Tables, NEW b \in Tables, Grows(a, b), Filed(a), Apart(a),
           NEW i \in DOMAIN a.files, NEW rows \in SUBSET EventRows,
           b.events = Append(a.events, [file |-> i, rows |-> rows]),
           \A e \in rows : \A k \in DOMAIN a.events : \A f \in a.events[k].rows :
              ClusterAt(a, k) = a.files[i].cluster => e.key # f.key
    PROVE  Filed(b) /\ Apart(b)
  <1>. DEFINE n == Len(a.events) + 1
  <1>1. /\ a.files \in Seq(Rows)
        /\ a.events \in Seq([file : Nat \ {0}, rows : SUBSET EventRows])
    BY DEF Tables
  <1>2. i \in Nat \ {0}
    BY <1>1
  <1>3. [file |-> i, rows |-> rows] \in [file : Nat \ {0}, rows : SUBSET EventRows]
    BY <1>2
  <1>4. /\ \A k \in DOMAIN a.events : b.events[k] = a.events[k]
        /\ b.events[n].file = i /\ b.events[n].rows = rows
        /\ DOMAIN b.events = DOMAIN a.events \cup {n}
        /\ n \notin DOMAIN a.events
    BY <1>1, <1>3
  <1>5. DOMAIN a.files \subseteq DOMAIN b.files
    BY GrowsDomain
  <1>6. /\ \A k \in DOMAIN a.events : ClusterAt(b, k) = ClusterAt(a, k)
        /\ ClusterAt(b, n) = a.files[i].cluster
    BY <1>4, <1>5 DEF Grows, Filed, ClusterAt, SameFile
  <1>7. Filed(b)
    BY <1>4, <1>5 DEF Filed
  <1>. HIDE DEF n
  <1>8. ASSUME NEW k \in DOMAIN b.events, NEW l \in DOMAIN b.events,
               NEW e \in b.events[k].rows, NEW f \in b.events[l].rows,
               e.key = f.key, ClusterAt(b, k) = ClusterAt(b, l)
        PROVE  k = l
    <2>1. CASE k = n /\ l # n
      BY <1>4, <1>6, <1>8, <2>1
    <2>2. CASE k # n /\ l = n
      BY <1>4, <1>6, <1>8, <2>2
    <2>3. CASE k # n /\ l # n
      BY <1>4, <1>6, <1>8, <2>3 DEF Apart
    <2>. QED
      BY <2>1, <2>2, <2>3
  <1>. QED
    BY <1>7, <1>8 DEF Apart

LEMMA ApartStep ==
    ASSUME BaseInv, ApartInv, NEW r \in Connections, Step(r)
    PROVE  ApartInv'
  <1>0. /\ TypeOK /\ db \in Tables /\ work \in Tables /\ Grows(db, work)
        /\ View(r) \in Tables /\ QueueSteps(r)
    BY ViewType, QueueMoves DEF BaseInv, TypeOK, ListInv
  <1>1. Apart(db)
    BY <1>0, ApartBelow DEF ApartInv
  <1>2. Filed(View(r)) /\ Apart(View(r))
    BY <1>1 DEF View, ApartInv
  <1>3. Filed(db') /\ Filed(work') /\ Apart(work')
    <2>1. CASE OwnAction(r)
      BY <2>1, OwnMoves DEF BaseInv, fileVars, ApartInv
    <2>2. CASE EndAction(r)
      BY <1>1, <2>2, EndMoves DEF End, Rollback, ApartInv
    <2>3. CASE CommitRequest(r)
      BY <1>1, <2>3 DEF CommitRequest, Commit, ApartInv
    <2>4. CASE WriteAction(r)
      <3>1. /\ work' \in Tables /\ Grows(View(r), work') /\ db' = db
        BY <2>4, WriteGrows
      <3>2. CASE work'.events = View(r).events
        BY <1>0, <1>2, <3>1, <3>2, ApartSame DEF ApartInv
      <3>3. CASE work'.events # View(r).events
        <4>1. StoreEvents(r)
          BY <2>4, <3>3, InsertMakes, MarkProcessingMakes, MarkFailedMakes, ShowsMakes
          DEF WriteAction, Inserts
        <4>2. /\ Current(r) \in DOMAIN View(r).files /\ job[r].kept \in SUBSET EventRows
              /\ work'.events = Append(View(r).events, [file |-> Current(r), rows |-> job[r].kept])
          BY <1>0, <3>3, <4>1, StoreEventsMakes DEF TypeOK
        <4>3. pc[r] = "store" /\ View(r) = work
          BY <4>1 DEF StoreEvents, Go, BaseInv, LockInv, Locks, View
        <4>4. Fresh(r)
          BY DEF ApartInv
        <4>. QED
          BY <1>0, <1>2, <3>1, <4>2, <4>3, <4>4, ApartStored DEF Fresh, ApartInv
      <3>. QED
        BY <3>2, <3>3
    <2>. QED
      BY <2>1, <2>2, <2>3, <2>4, Kinds
  <1>4. ASSUME NEW s \in Connections \ {r}
        PROVE  Fresh(s)'
    <2>1. pc'[s] = pc[s] /\ job'[s] = job[s] /\ Fresh(s)
      BY <1>0, OthersStay DEF ApartInv
    <2>2. pc[s] = "store" => work' = work
      BY OthersView DEF BaseInv, LockInv, Locks
    <2>. QED
      BY <2>1, <2>2 DEF Fresh, Current
  <1>5. Fresh(r)'
    <2>. SUFFICES ASSUME pc'[r] = "store" PROVE Fresh(r)'
      BY DEF Fresh
    <2>1. ParseFile(r)
      BY <1>0, ReachedBy
    <2>2. /\ work' = work /\ View(r) = work
          /\ job'[r].queue = job[r].queue
      BY <1>0, <2>1, OwnMoves
      DEF OwnAction, fileVars, BaseInv, LockInv, Locks, View, ParseFile, Go, QueueSteps, Only
    <2>. DEFINE row == work.files[Current(r)]
                existing == existing_event_keys(work, row.cluster)
    <2>3. /\ row.name \in DOMAIN disk
          /\ job'[r].kept = _drop_already_ingested(existing, disk[row.name])
      BY <1>0, <2>1, <2>2 DEF QueueSteps
    <2>4. disk[row.name] \in Seq(Keys)
      BY <1>0, <2>3 DEF TypeOK
    <2>. HIDE DEF existing
    <2>5. \A e \in job'[r].kept : e.key \notin existing
      BY <2>3, <2>4, KeptType
    <2>6. \A k \in DOMAIN work.events : \A f \in work.events[k].rows :
             ClusterAt(work, k) = row.cluster => f.key \in existing
      BY DEF existing, existing_event_keys, ClusterAt
    <2>7. Current(r)' = Current(r)
      BY <2>2 DEF Current
    <2>. QED
      BY <2>2, <2>5, <2>6, <2>7 DEF Fresh, ClusterAt
  <1>. QED
    BY <1>3, <1>4, <1>5 DEF ApartInv

LEMMA ApartAlways == Spec => [](BaseInv /\ ApartInv)
  <1>1. Init => ApartInv
    <2>. SUFFICES ASSUME Init PROVE ApartInv
      OBVIOUS
    <2>1. db.events = <<>> /\ work.events = <<>> /\ \A r \in Connections : pc[r] = "idle"
      BY DEF Init, OpenFile
    <2>2. DOMAIN db.events = {} /\ DOMAIN work.events = {}
      BY <2>1
    <2>. QED
      BY <2>1, <2>2 DEF ApartInv, Filed, Apart, Fresh
  <1>2. BaseInv /\ ApartInv /\ [Next]_vars => ApartInv'
    <2>. SUFFICES ASSUME BaseInv, ApartInv, [Next]_vars PROVE ApartInv'
      OBVIOUS
    <2>1. CASE \E r \in Connections : Step(r)
      BY <2>1, ApartStep
    <2>2. CASE Crash
      <3>1. db' = db /\ work' = db /\ \A r \in Connections : pc'[r] # "store"
        BY <2>2 DEF Crash, Recover
      <3>2. Apart(db)
        BY ApartBelow DEF ApartInv, BaseInv, TypeOK, ListInv
      <3>. QED
        BY <3>1, <3>2 DEF ApartInv, Fresh
    <2>3. CASE UNCHANGED vars
      BY <2>3 DEF vars, fileVars, ApartInv, Fresh, Current
    <2>. QED
      BY <2>1, <2>2, <2>3, Steps
  <1>. QED
    BY BaseAlways, <1>1, <1>2, PTL DEF Spec

(***************************************************************************)
(* However many uploads, fetches, scans and ingestions of one cluster      *)
(* overlap, what one file brought no other file brings again.              *)
(***************************************************************************)
THEOREM StoredOnce == Spec => []NoEventFromTwoFiles
  <1>1. ASSUME BaseInv, ApartInv PROVE NoEventFromTwoFiles
    <2>1. Apart(db)
      BY <1>1, ApartBelow DEF ApartInv, BaseInv, TypeOK, ListInv
    <2>. QED
      BY <2>1 DEF NoEventFromTwoFiles, Apart, ClusterAt
  <1>. QED
    BY ApartAlways, <1>1, PTL

-----------------------------------------------------------------------------
(* Nothing half ingested.                                                  *)

NeverPending(contents) ==
    \A k \in DOMAIN contents.events : contents.files[contents.events[k].file].status # "pending"

(***************************************************************************)
(* In the working copy a file may be marked processing: the one that the   *)
(* writer is at, who has to store it or give it up before he may commit.   *)
(***************************************************************************)
HalfInv ==
    /\ \A i \in DOMAIN work.files : work.files[i].status = "processing" =>
          \E r \in Connections : pc[r] \in {"parse", "store"} /\ i = Current(r)
    /\ NeverPending(work)
    /\ NothingHalfIngested

\* What a connection sees of it: at most its own.
LEMMA OwnProcessing ==
    ASSUME BaseInv, HalfInv, NEW r \in Connections
    PROVE  /\ \A i \in DOMAIN View(r).files : View(r).files[i].status = "processing" =>
                 pc[r] \in {"parse", "store"} /\ i = Current(r)
           /\ NeverPending(View(r))
  <1>1. CASE Writer(r)
    <2>1. \A s \in Connections : pc[s] \in {"parse", "store"} => s = r
      BY <1>1 DEF BaseInv, LockInv, Locks, OneWriter
    <2>. QED
      BY <1>1, <2>1 DEF View, HalfInv
  <1>2. CASE ~Writer(r)
    BY <1>2 DEF View, HalfInv, NothingHalfIngested, NeverPending
  <1>. QED
    BY <1>1, <1>2

\* A row that is not pending afterwards leaves no event to a pending file.
LEMMA PendingMoves ==
    ASSUME NEW a \in Tables, NEW b \in Tables, Filed(a), NeverPending(a),
           NEW i \in DOMAIN a.files, NEW row, row.status # "pending", Moves(i, row, a, b)
    PROVE  /\ b.events = a.events => NeverPending(b)
           /\ \A rows \in SUBSET EventRows :
                 b.events = Append(a.events, [file |-> i, rows |-> rows]) => NeverPending(b)
  <1>1. \A j \in DOMAIN a.files : a.files[j].status # "pending" => b.files[j].status # "pending"
    BY DEF Moves
  <1>2. b.files[i].status # "pending"
    BY DEF Moves
  <1>3. b.events = a.events => NeverPending(b)
    BY <1>1 DEF NeverPending, Filed
  <1>4. ASSUME NEW rows \in SUBSET EventRows,
               b.events = Append(a.events, [file |-> i, rows |-> rows])
        PROVE  NeverPending(b)
    <2>1. /\ a.events \in Seq([file : Nat \ {0}, rows : SUBSET EventRows]) /\ i \in Nat \ {0}
      BY DEF Tables
    <2>2. [file |-> i, rows |-> rows] \in [file : Nat \ {0}, rows : SUBSET EventRows]
      BY <2>1
    <2>3. \A k \in DOMAIN b.events :
             \/ k \in DOMAIN a.events /\ b.events[k] = a.events[k]
             \/ b.events[k].file = i
      BY <1>4, <2>1, <2>2
    <2>. QED
      BY <1>1, <1>2, <2>3 DEF NeverPending, Filed
  <1>. QED
    BY <1>3, <1>4

LEMMA HalfWrite ==
    ASSUME BaseInv, ApartInv, HalfInv, NEW r \in Connections, WriteAction(r)
    PROVE  /\ \A i \in DOMAIN work'.files : work'.files[i].status = "processing" =>
                 pc'[r] \in {"parse", "store"} /\ i = Current(r)'
           /\ NeverPending(work')
  <1>. DEFINE old == View(r)
  <1>0. /\ TypeOK /\ old \in Tables /\ work' \in Tables /\ Filed(old) /\ NeverPending(old)
        /\ \A i \in DOMAIN old.files : old.files[i].status = "processing" =>
              pc[r] \in {"parse", "store"} /\ i = Current(r)
    BY ViewType, WriteGrows, OwnProcessing DEF BaseInv, View, ApartInv
  <1>1. ASSUME NEW i, NEW row, Moves(i, row, old, work')
        PROVE  DOMAIN work'.files = DOMAIN old.files
    BY <1>0, <1>1 DEF Moves, Tables
  <1>. HIDE DEF old
  <1>2. CASE insert_file(r)
    <2>1. PICK row \in Rows : row.status = "pending" /\ Inserts(row, old, work')
      BY <1>2, InsertMakes DEF old
    <2>2. old.files \in Seq(Rows) /\ work'.files = Append(old.files, row) /\ work'.events = old.events
      BY <1>0, <2>1 DEF Inserts, Tables
    <2>3. \A i \in DOMAIN work'.files :
             \/ i \in DOMAIN old.files /\ work'.files[i] = old.files[i]
             \/ i \notin DOMAIN old.files /\ work'.files[i] = row
      BY <2>2
    <2>4. \A i \in DOMAIN old.files : work'.files[i] = old.files[i]
      BY <2>2
    <2>5. pc[r] = "insert"
      BY <1>2 DEF insert_file, Go
    <2>. QED
      BY <1>0, <2>1, <2>2, <2>3, <2>4, <2>5 DEF NeverPending, Filed
  <1>3. CASE MarkProcessing(r)
    <2>. DEFINE row == Marked(old.files[Current(r)], "processing")
    <2>1. /\ Current(r) \in DOMAIN old.files /\ work'.events = old.events
          /\ Moves(Current(r), row, old, work')
      BY <1>3, MarkProcessingMakes DEF old
    <2>2. row.status = "processing"
      BY <1>0, <2>1, MarkMakes
    <2>3. pc[r] = "ingest" /\ pc'[r] = "parse" /\ Current(r)' = Current(r)
      BY <1>0, <1>3 DEF MarkProcessing, Go, TypeOK, Current
    <2>. HIDE DEF row
    <2>4. NeverPending(work')
      BY <1>0, <2>1, <2>2, PendingMoves
    <2>. QED
      BY <1>0, <1>1, <2>1, <2>3, <2>4 DEF Moves
  \* After the other steps none is.
  <1>4. ASSUME NEW i \in DOMAIN old.files, NEW row, Moves(i, row, old, work'),
               row.status # "processing",
               pc[r] \in {"parse", "store"} => i = Current(r)
        PROVE  \A j \in DOMAIN work'.files : work'.files[j].status # "processing"
    BY <1>0, <1>1, <1>4 DEF Moves
  <1>5. CASE MarkFailed(r)
    <2>. DEFINE row == Marked(old.files[Current(r)], "failed")
    <2>1. /\ Current(r) \in DOMAIN old.files /\ work'.events = old.events /\ row.status = "failed"
          /\ Moves(Current(r), row, old, work')
      BY <1>5, MarkFailedMakes DEF old
    <2>. HIDE DEF row
    <2>2. NeverPending(work')
      BY <1>0, <2>1, PendingMoves
    <2>. QED
      BY <1>4, <2>1, <2>2
  <1>6. CASE StoreEvents(r)
    <2>. DEFINE row == Ingested(old.files[Current(r)], job[r].kept)
    <2>1. /\ Current(r) \in DOMAIN old.files /\ row.status = "processed"
          /\ job[r].kept \in SUBSET EventRows
          /\ \/ work'.events = old.events
             \/ work'.events = Append(old.events, [file |-> Current(r), rows |-> job[r].kept])
          /\ Moves(Current(r), row, old, work')
      BY <1>0, <1>6, StoreEventsMakes DEF old, TypeOK
    <2>. HIDE DEF row
    <2>2. NeverPending(work')
      BY <1>0, <2>1, PendingMoves
    <2>. QED
      BY <1>4, <2>1, <2>2
  <1>7. CASE Shows(r)
    <2>. DEFINE last == Len(old.files)
                row == [old.files[last] EXCEPT !.short = TRUE]
    <2>1. /\ last \in DOMAIN old.files /\ work'.events = old.events
          /\ row.status = old.files[last].status /\ Moves(last, row, old, work')
      BY <1>7, ShowsMakes DEF old
    <2>2. row.status = "processed" /\ pc[r] = "ingest"
      BY <1>7, <2>1 DEF Shows, EndIngest, Go, old
    <2>. HIDE DEF row, last
    <2>3. NeverPending(work')
      BY <1>0, <2>1, <2>2, PendingMoves
    <2>. QED
      BY <1>4, <2>1, <2>2, <2>3
  <1>. QED
    BY <1>2, <1>3, <1>5, <1>6, <1>7 DEF WriteAction

LEMMA HalfStep ==
    ASSUME BaseInv, ApartInv, HalfInv, NEW r \in Connections, Step(r)
    PROVE  HalfInv'
  <1>0. TypeOK /\ QueueSteps(r)
    BY QueueMoves DEF BaseInv
  <1>1. NothingHalfIngested'
    <2>1. CASE db' = db
      BY <2>1 DEF HalfInv, NothingHalfIngested
    <2>2. CASE CommitRequest(r) /\ Writer(r) /\ db' = work
      <3>1. \A s \in Connections : pc[s] \notin {"parse", "store"}
        BY <2>2 DEF CommitRequest, Go, BaseInv, LockInv, Locks, OneWriter
      <3>2. \A i \in DOMAIN work.files : work.files[i].status # "processing"
        BY <3>1 DEF HalfInv
      <3>. QED
        BY <2>2, <3>2 DEF NothingHalfIngested, HalfInv, NeverPending
    <2>. QED
      BY <2>1, <2>2, StepIsStatement, OnlyCommits, WriteGrows, OwnMoves, EndMoves, Kinds
      DEF BaseInv, fileVars, End, Rollback, CommitRequest, Commit
  <1>2. CASE WriteAction(r)
    <2>1. /\ \A i \in DOMAIN work'.files : work'.files[i].status = "processing" =>
                pc'[r] \in {"parse", "store"} /\ i = Current(r)'
          /\ NeverPending(work')
      BY <1>2, HalfWrite
    <2>. QED
      BY <1>1, <2>1 DEF HalfInv, Current
  <1>3. CASE ~WriteAction(r)
    <2>1. \/ work' = work
          \/ Writer(r) /\ work' = db /\ pc'[r] = "closed"
      BY <1>0, <1>3, OwnMoves, EndMoves, Kinds
      DEF BaseInv, fileVars, End, Rollback, CommitRequest, Commit, TypeOK
    <2>2. CASE work' = db
      BY <1>1, <2>2 DEF HalfInv, NothingHalfIngested, NeverPending
    <2>3. CASE work' = work
      <3>1. pc[r] \in {"parse", "store"} => ParseFile(r)
        BY <1>3, Kinds
        DEF WriteAction, EndAction, RefuseInput, FetchFails, Fetching, RefuseKnownFile, RegisterRaises,
            WriteTimesOut, OwnAction, Arrive, Drop, ChooseName, WriteUpload, NameFetch, OpenOutput,
            FetchNext, EndFetch, scan_directory, TakeNext, EndScan, compute_file_hash, FileIsNew,
            SkipKnownFile, get_pending, EndIngest, CommitRequest, Go
      <3>2. pc[r] \in {"parse", "store"} => pc'[r] = "store" /\ Current(r)' = Current(r)
        BY <1>0, <3>1 DEF ParseFile, Go, TypeOK, QueueSteps, Only, Current
      <3>3. \A s \in Connections \ {r} : pc'[s] = pc[s] /\ Current(s)' = Current(s)
        BY <1>0, OthersStay DEF Current
      <3>4. \A s \in Connections : pc[s] \in {"parse", "store"} =>
               pc'[s] \in {"parse", "store"} /\ Current(s)' = Current(s)
        BY <3>2, <3>3
      <3>. QED
        BY <1>1, <2>3, <3>4 DEF HalfInv, Current
    <2>. QED
      BY <2>1, <2>2, <2>3
  <1>. QED
    BY <1>2, <1>3

LEMMA HalfAlways == Spec => [](BaseInv /\ ApartInv /\ HalfInv)
  <1>1. Init => HalfInv
    <2>. SUFFICES ASSUME Init PROVE HalfInv
      OBVIOUS
    <2>1. /\ db.files = FirstFiles /\ work.files = FirstFiles
          /\ db.events = <<>> /\ work.events = <<>>
      BY DEF Init, OpenFile
    <2>2. DOMAIN db.events = {} /\ DOMAIN work.events = {}
      BY <2>1
    <2>. QED
      BY <2>1, <2>2, FirstFilesAssumption DEF HalfInv, NeverPending, NothingHalfIngested
  <1>2. BaseInv /\ ApartInv /\ HalfInv /\ [Next]_vars => HalfInv'
    <2>. SUFFICES ASSUME BaseInv, ApartInv, HalfInv, [Next]_vars PROVE HalfInv'
      OBVIOUS
    <2>1. CASE \E r \in Connections : Step(r)
      BY <2>1, HalfStep
    <2>2. CASE Crash
      BY <2>2 DEF Crash, Recover, HalfInv, NothingHalfIngested, NeverPending
    <2>3. CASE UNCHANGED vars
      BY <2>3 DEF vars, fileVars, HalfInv, NothingHalfIngested, NeverPending, Current
    <2>. QED
      BY <2>1, <2>2, <2>3, Steps
  <1>. QED
    BY ApartAlways, <1>1, <1>2, PTL DEF Spec

(***************************************************************************)
(* Whatever stops an ingestion, no file is left being processed and no     *)
(* event is stored for a file that is still to be ingested.                *)
(***************************************************************************)
THEOREM WholeOrNotAtAll == Spec => []NothingHalfIngested
  BY HalfAlways, PTL DEF HalfInv


-----------------------------------------------------------------------------
(* A shortfall is shown.                                                   *)

Ending(r) == op[r].kind = "fetch" /\ (Ingesting(r) \/ pc[r] = "answer")

\* The last row of the working copy is the fetch's own, and the file has none there yet.
HasRow(r) ==
    Ending(r) =>
        LET last == Len(work.files)
            row == work.files[last] IN
        /\ Len(db.files) < last
        /\ row.name = job[r].name
        /\ Ingesting(r) =>
              /\ job[r].queue \subseteq {last}
              /\ job[r].queue = {} => row.status # "pending" /\ (row.status = "processed" => ~row.short)
        /\ pc[r] = "answer" =>
              row.status # "pending" /\ (row.status = "processed" => row.short = job[r].short)

\* Row i says what there is to say of the fetch r, and nobody is going to write it.
Tells(r, i) ==
    /\ i \in DOMAIN db.files
    /\ db.files[i].name = job[r].name
    /\ db.files[i].status # "pending"
    /\ db.files[i].status = "processed" => db.files[i].short = job[r].short
    /\ work.files[i] = db.files[i]
    /\ \A s \in Connections : Ingesting(s) => i \notin job[s].queue

Told(r) == op[r].kind = "fetch" /\ answer[r] = "200" => \E i \in Nat : Tells(r, i)

ShortInv == \A r \in Connections : HasRow(r) /\ Told(r)

LEMMA EndingWrites ==
    ASSUME BaseInv, NEW r \in Connections, Ending(r)
    PROVE  Writer(r) /\ View(r) = work
  BY DEF BaseInv, LockInv, Locks, Ending, Receiving, View

LEMMA OwnRow ==
    ASSUME BaseInv, ShortInv, NEW r \in Connections, Step(r), Ending(r)'
    PROVE  HasRow(r)'
  <1>0. /\ TypeOK /\ QueueSteps(r) /\ NameSteps(r) /\ HasRow(r) /\ Placed(r)
        /\ db \in Tables /\ work \in Tables /\ Grows(db, work)
    BY QueueMoves, NameMoves DEF BaseInv, TypeOK, ShortInv, PlaceInv, ListInv
  <1>1. /\ db.files \in Seq(Rows) /\ work.files \in Seq(Rows)
        /\ Len(db.files) \in Nat /\ Len(work.files) \in Nat /\ Len(db.files) <= Len(work.files)
    BY <1>0 DEF Tables, Grows
  <1>2. CASE insert_file(r)
    <2>1. PICK row \in Rows : row.name = job[r].name /\ Inserts(row, View(r), work')
      BY <1>2, InsertMakes
    <2>2. View(r).files \in Seq(Rows) /\ Len(View(r).files) \in Nat
          /\ Len(db.files) <= Len(View(r).files) /\ db' = db
      BY <1>0, <1>1, <1>2, ViewType, WriteGrows DEF View, WriteAction
    <2>3. /\ Len(work'.files) = Len(View(r).files) + 1
          /\ work'.files[Len(View(r).files) + 1] = row
      BY <2>1, <2>2 DEF Inserts
    <2>4. /\ pc'[r] = "ingest" /\ job'[r].queue = {Len(View(r).files) + 1}
          /\ job'[r].name = job[r].name
      <3>1. op' = op /\ Only(job[r], job'[r], {"queue"})
            /\ job'[r].queue = IF Scanning(r) THEN {} ELSE {Len(View(r).files) + 1}
        BY <1>0, <1>2 DEF insert_file, QueueSteps
      <3>2. ~Scanning(r)
        BY <3>1 DEF Ending, Scanning
      <3>. QED
        BY <1>0, <1>2, <3>1, <3>2 DEF insert_file, Go, TypeOK, Only
    <2>5. /\ Len(db'.files) < Len(work'.files) /\ work'.files[Len(work'.files)] = row
          /\ job'[r].queue = {Len(work'.files)}
      BY <1>1, <2>2, <2>3, <2>4
    <2>. QED
      BY <2>1, <2>4, <2>5 DEF HasRow
  <1>3. ASSUME Ending(r), Ingesting(r)
        PROVE  /\ Writer(r) /\ View(r) = work
               /\ Len(work.files) \in DOMAIN work.files
               /\ job[r].queue # {} => Current(r) = Len(work.files)
               /\ Len(db.files) < Len(work.files)
               /\ work.files[Len(work.files)].name = job[r].name
    <2>1. Writer(r) /\ View(r) = work
      BY <1>3, EndingWrites
    <2>2. job[r].queue # {} => Current(r) \in job[r].queue
      BY CurrentIsQueued
    <2>. QED
      BY <1>0, <1>1, <1>3, <2>1, <2>2 DEF HasRow
  <1>4. ASSUME Ending(r), Ingesting(r), NEW row, row.name = work.files[Len(work.files)].name,
               Moves(Len(work.files), row, work, work'), db' = db, job'[r].name = job[r].name
        PROVE  /\ Len(work'.files) = Len(work.files) /\ work'.files[Len(work'.files)] = row
               /\ Len(db'.files) < Len(work'.files) /\ row.name = job'[r].name
    BY <1>3, <1>4 DEF Moves
  <1>5. CASE MarkProcessing(r)
    <2>1. /\ Ending(r) /\ Ingesting(r) /\ job' = job /\ pc'[r] = "parse" /\ job[r].queue # {}
          /\ db' = db
      BY <1>0, <1>5, WriteGrows DEF MarkProcessing, Go, Ending, Ingesting, TypeOK, WriteAction
    <2>. DEFINE row == Marked(work.files[Len(work.files)], "processing")
    <2>2. Moves(Len(work.files), row, work, work')
      BY <1>3, <1>5, <2>1, MarkProcessingMakes
    <2>3. row.name = work.files[Len(work.files)].name
      BY <2>2 DEF Moves, SameFile
    <2>. HIDE DEF row
    <2>4. /\ Len(work'.files) = Len(work.files) /\ work'.files[Len(work'.files)] = row
          /\ Len(db'.files) < Len(work'.files) /\ row.name = job'[r].name
      BY <1>4, <2>1, <2>2, <2>3
    <2>5. job'[r].queue \subseteq {Len(work'.files)} /\ job'[r].queue # {}
      BY <1>0, <2>1, <2>4 DEF HasRow
    <2>. QED
      BY <2>1, <2>4, <2>5 DEF HasRow
  <1>6. CASE MarkFailed(r) \/ StoreEvents(r)
    <2>1. /\ Ending(r) /\ Ingesting(r) /\ pc'[r] = "ingest" /\ job[r].queue # {}
          /\ db' = db /\ job'[r].queue = job[r].queue \ {Current(r)} /\ job'[r].name = job[r].name
      BY <1>0, <1>6, WriteGrows
      DEF MarkFailed, StoreEvents, Go, Ending, Ingesting, TypeOK, WriteAction, QueueSteps, Only, Placed
    <2>2. PICK row : /\ Moves(Len(work.files), row, work, work')
                     /\ row.status = "failed" \/ (row.status = "processed" /\ ~row.short)
      BY <1>3, <1>6, <2>1, MarkFailedMakes, StoreEventsMakes
    <2>3. row.name = work.files[Len(work.files)].name
      BY <2>2 DEF Moves, SameFile
    <2>4. /\ Len(work'.files) = Len(work.files) /\ work'.files[Len(work'.files)] = row
          /\ Len(db'.files) < Len(work'.files) /\ row.name = job'[r].name
      BY <1>4, <2>1, <2>2, <2>3
    <2>5. job'[r].queue \subseteq {Len(work'.files)}
      BY <1>0, <2>1, <2>4 DEF HasRow
    <2>. QED
      BY <2>1, <2>2, <2>4, <2>5 DEF HasRow
  <1>7. CASE ParseFile(r)
    <2>1. /\ Ending(r) /\ Ingesting(r) /\ pc'[r] = "store" /\ job[r].queue # {}
          /\ work' = work /\ db' = db /\ job'[r].queue = job[r].queue /\ job'[r].name = job[r].name
      BY <1>0, <1>7, OwnMoves
      DEF ParseFile, Go, Ending, Ingesting, TypeOK, OwnAction, fileVars, BaseInv, QueueSteps, Only, Placed
    <2>. QED
      BY <1>0, <2>1 DEF HasRow
  <1>8. CASE EndIngest(r)
    <2>1. /\ Ending(r) /\ Ingesting(r) /\ job' = job /\ pc'[r] = "answer" /\ job[r].queue = {}
      BY <1>0, <1>8 DEF EndIngest, Go, Ending, Ingesting, TypeOK
    <2>2. CASE Shows(r)
      <3>. DEFINE row == [work.files[Len(work.files)] EXCEPT !.short = TRUE]
      <3>1. /\ Moves(Len(work.files), row, work, work') /\ row.short = TRUE
            /\ row.status = work.files[Len(work.files)].status /\ db' = db
        BY <1>3, <2>1, <2>2, ShowsMakes, WriteGrows DEF WriteAction
      <3>2. row.name = work.files[Len(work.files)].name
        BY <3>1 DEF Moves, SameFile
      <3>3. row.status = "processed" /\ job[r].short = TRUE
        BY <1>0, <1>3, <2>1, <2>2, <3>1 DEF Shows, TypeOK
      <3>. HIDE DEF row
      <3>4. /\ Len(work'.files) = Len(work.files) /\ work'.files[Len(work'.files)] = row
            /\ Len(db'.files) < Len(work'.files) /\ row.name = job'[r].name
        BY <1>4, <2>1, <3>1, <3>2
      <3>. QED
        BY <2>1, <3>1, <3>3, <3>4 DEF HasRow, Ingesting
    <2>3. CASE ~Shows(r)
      <3>1. work' = work /\ db' = db
        BY <1>8, <2>3, OwnMoves DEF OwnAction, fileVars, BaseInv
      <3>2. ~job[r].short \/ work.files[Len(work.files)].status # "processed"
        BY <1>3, <1>8, <2>1, <2>3 DEF Shows
      <3>3. job[r].short \in BOOLEAN /\ work.files[Len(work.files)].short \in BOOLEAN
        <4>1. work.files[Len(work.files)] \in Rows
          BY <1>1, <1>3, <2>1
        <4>. QED
          BY <1>0, <4>1 DEF TypeOK, Rows
      <3>. QED
        BY <1>0, <2>1, <3>1, <3>2, <3>3 DEF HasRow, Ingesting
    <2>. QED
      BY <2>2, <2>3
  <1>. QED
    <2>1. ~get_pending(r)
      BY <1>0 DEF get_pending, Ending, Placed, RequestPoints
    <2>2. ~EndScan(r)
      BY <1>0 DEF EndScan, Go, Ending, Placed, Scanning
    <2>. QED
      BY <1>0, <1>2, <1>5, <1>6, <1>7, <1>8, <2>1, <2>2, ReachedBy DEF Ending


\* A connection that is done takes no step.
LEMMA ClosedStays ==
    ASSUME NEW r \in Connections, Step(r)
    PROVE  pc[r] # "closed"
  <1>1. CASE EndAction(r)
    BY <1>1 DEF EndAction, RefuseInput, FetchFails, Fetching, RefuseKnownFile, RegisterRaises, WriteTimesOut
  <1>2. CASE OwnAction(r)
    BY <1>2 DEF OwnAction, Arrive, Drop, ChooseName, WriteUpload, NameFetch, OpenOutput, FetchNext,
                Fetching, EndFetch, scan_directory, TakeNext, EndScan, compute_file_hash, FileIsNew,
                SkipKnownFile, get_pending, ParseFile, EndIngest, Go
  <1>3. CASE WriteAction(r) \/ CommitRequest(r)
    BY <1>3 DEF WriteAction, insert_file, MarkProcessing, MarkFailed, StoreEvents, Shows, EndIngest,
                CommitRequest, Go
  <1>. QED
    BY <1>1, <1>2, <1>3, Kinds

\* Nobody has a settled row in his queue who had it not.
LEMMA QueueKeeps ==
    ASSUME BaseInv, ShortInv, NEW r \in Connections, Step(r), NEW s \in Connections, NEW i, Tells(s, i)
    PROVE  \A t \in Connections : Ingesting(t)' => i \notin job'[t].queue
  <1>0. /\ TypeOK /\ QueueSteps(r) /\ db \in Tables /\ Grows(db, work)
        /\ i \in DOMAIN db.files /\ db.files[i].status # "pending" /\ work.files[i] = db.files[i]
        /\ \A t \in Connections : Ingesting(t) => i \notin job[t].queue
        /\ work \in Tables
    BY QueueMoves DEF BaseInv, TypeOK, ListInv, Tells
  <1>1. /\ i \in DOMAIN View(r).files /\ View(r).files[i].status # "pending"
        /\ DOMAIN View(r).files = 1..Len(View(r).files) /\ Len(View(r).files) \in Nat
    BY <1>0, ViewType, GrowsDomain DEF View
  <1>2. ASSUME Ingesting(r)' PROVE i \notin job'[r].queue
    <2>1. CASE insert_file(r)
      <3>1. job'[r].queue \subseteq {Len(View(r).files) + 1}
        BY <1>0, <2>1 DEF QueueSteps
      <3>. QED
        BY <1>1, <3>1
    <2>2. CASE get_pending(r)
      BY <1>0, <1>1, <2>2 DEF QueueSteps, PendingIds
    <2>3. CASE MarkProcessing(r) \/ ParseFile(r) \/ MarkFailed(r) \/ StoreEvents(r)
      <3>1. Ingesting(r) /\ job'[r].queue \subseteq job[r].queue
        BY <1>0, <2>3 DEF MarkProcessing, ParseFile, MarkFailed, StoreEvents, Go, Ingesting, QueueSteps, Only
      <3>. QED
        BY <1>0, <3>1
    <2>. QED
      BY <1>0, <1>2, <2>1, <2>2, <2>3, ReachedBy
  <1>3. ASSUME NEW t \in Connections \ {r}, Ingesting(t)' PROVE i \notin job'[t].queue
    BY <1>0, <1>3, OthersStay DEF Ingesting
  <1>. QED
    BY <1>2, <1>3

\* Nor is it written.
LEMMA RowKeeps ==
    ASSUME BaseInv, ShortInv, NEW r \in Connections, Step(r), NEW s \in Connections, NEW i, Tells(s, i)
    PROVE  /\ i \in DOMAIN db'.files
           /\ db'.files[i] = db.files[i] /\ work'.files[i] = db.files[i]
  <1>0. /\ TypeOK /\ db \in Tables /\ work \in Tables /\ View(r) \in Tables /\ Grows(db, work)
        /\ i \in DOMAIN db.files /\ work.files[i] = db.files[i]
        /\ Ingesting(r) => i \notin job[r].queue
    BY ViewType DEF BaseInv, TypeOK, ListInv, Tells
  <1>1. /\ i \in DOMAIN View(r).files /\ View(r).files[i] = db.files[i] /\ i \in DOMAIN work.files
        /\ DOMAIN db.files = 1..Len(db.files)
    <2>1. DOMAIN db.files = 1..Len(db.files)
      BY <1>0 DEF Tables
    <2>. QED
      BY <1>0, <2>1, GrowsDomain DEF View
  <1>2. db' = db \/ db' = work
    BY OwnMoves, WriteMoves, EndMoves, Kinds
    DEF BaseInv, fileVars, Write, End, Rollback, CommitRequest, Commit
  <1>3. CASE ~WriteAction(r)
    <2>1. work' = work \/ work' = db
      BY <1>3, OwnMoves, EndMoves, Kinds DEF BaseInv, fileVars, End, Rollback, CommitRequest, Commit
    <2>. QED
      BY <1>0, <1>1, <1>2, <2>1
  <1>4. ASSUME NEW j, NEW row, Moves(j, row, View(r), work'), j # i
        PROVE  work'.files[i] = db.files[i]
    BY <1>1, <1>4 DEF Moves
  <1>5. CASE insert_file(r)
    <2>1. PICK row \in Rows : Inserts(row, View(r), work')
      BY <1>5, InsertMakes
    <2>2. View(r).files \in Seq(Rows) /\ work'.files = Append(View(r).files, row)
      BY <1>0, <2>1 DEF Inserts, Tables
    <2>3. work'.files[i] = View(r).files[i]
      BY <1>1, <2>2
    <2>. QED
      BY <1>0, <1>1, <1>2, <2>3
  <1>6. CASE MarkProcessing(r) \/ MarkFailed(r) \/ StoreEvents(r)
    <2>1. Ingesting(r) /\ job[r].queue # {}
      BY <1>6 DEF MarkProcessing, MarkFailed, StoreEvents, Go, Ingesting, BaseInv, PlaceInv, Placed
    <2>2. Current(r) # i
      BY <1>0, <2>1, CurrentIsQueued
    <2>3. \E row : Moves(Current(r), row, View(r), work')
      BY <1>6, MarkProcessingMakes, MarkFailedMakes, StoreEventsMakes
    <2>. QED
      BY <1>0, <1>1, <1>2, <1>4, <2>2, <2>3
  <1>7. CASE Shows(r)
    <2>1. Ending(r) /\ View(r) = work
      BY <1>7, ShowsMakes, EndingWrites DEF Shows, EndIngest, Go, Ending, Ingesting
    <2>2. Len(db.files) < Len(work.files)
      BY <2>1 DEF ShortInv, HasRow
    <2>3. Len(work.files) # i
      BY <1>0, <1>1, <2>2 DEF Tables
    <2>4. \E row : Moves(Len(work.files), row, View(r), work')
      BY <1>7, <2>1, ShowsMakes
    <2>. QED
      BY <1>0, <1>1, <1>2, <1>4, <2>3, <2>4
  <1>. QED
    BY <1>3, <1>5, <1>6, <1>7 DEF WriteAction

LEMMA ShortStep ==
    ASSUME BaseInv, ShortInv, NEW r \in Connections, Step(r)
    PROVE  ShortInv'
  <1>0. TypeOK
    BY DEF BaseInv
  <1>1. ASSUME NEW s \in Connections PROVE HasRow(s)'
    <2>1. CASE s = r
      BY <2>1, OwnRow DEF HasRow
    <2>2. CASE s # r /\ Ending(s)
      <3>1. /\ pc'[s] = pc[s] /\ op'[s] = op[s] /\ job'[s] = job[s]
            /\ work' = work /\ db' = db /\ HasRow(s)
        BY <1>0, <2>2, OthersStay, OthersView, EndingWrites DEF ShortInv
      <3>. QED
        BY <3>1 DEF HasRow, Ending, Ingesting
    <2>3. CASE s # r /\ ~Ending(s)
      BY <1>0, <2>3, OthersStay DEF HasRow, Ending, Ingesting
    <2>. QED
      BY <2>1, <2>2, <2>3
  \* What was told once stays told.
  <1>2. ASSUME NEW s \in Connections, op[s].kind = "fetch", answer[s] = "200"
        PROVE  Told(s)'
    <2>1. s # r /\ op'[s] = op[s] /\ answer'[s] = answer[s] /\ job'[s] = job[s]
      <3>1. pc[s] = "closed"
        BY <1>2 DEF BaseInv, PlaceInv, Placed
      <3>. QED
        BY <1>0, <3>1, ClosedStays, OthersStay
    <2>2. PICK i \in Nat : Tells(s, i)
      BY <1>2 DEF ShortInv, Told
    <2>3. Tells(s, i)'
      BY <2>1, <2>2, QueueKeeps, RowKeeps DEF Tells
    <2>. QED
      BY <2>3 DEF Told
  <1>3. ASSUME NEW s \in Connections, op'[s].kind = "fetch", answer'[s] = "200",
               ~(op[s].kind = "fetch" /\ answer[s] = "200")
        PROVE  Told(s)'
    <2>1. s = r
      BY <1>0, <1>3, OthersStay
    <2>2. CommitRequest(r)
      <3>1. CASE \E o \in Operations : Arrive(r, o)
        BY <1>3, <2>1, <3>1 DEF Arrive, Go, BaseInv, PlaceInv, Placed
      <3>2. CASE OwnAction(r) /\ ~(\E o \in Operations : Arrive(r, o))
        BY <1>3, <2>1, <3>2
        DEF OwnAction, Drop, ChooseName, WriteUpload, NameFetch, OpenOutput, FetchNext, EndFetch,
            scan_directory, TakeNext, EndScan, compute_file_hash, FileIsNew, SkipKnownFile,
            get_pending, ParseFile, EndIngest
      <3>3. CASE WriteAction(r)
        BY <1>3, <2>1, <3>3
        DEF WriteAction, insert_file, MarkProcessing, MarkFailed, StoreEvents, Shows, EndIngest
      <3>4. CASE EndAction(r)
        BY <1>0, <1>3, <2>1, <3>4, EndMoves DEF End, TypeOK
      <3>. QED
        BY <3>1, <3>2, <3>3, <3>4, Kinds
    <2>3. /\ Ending(r) /\ op' = op /\ job' = job /\ pc[r] = "answer" /\ pc'[r] = "closed"
          /\ Writer(r) /\ db' = work /\ work' = work
      <3>1. op' = op /\ job' = job /\ pc[r] = "answer" /\ pc'[r] = "closed"
        BY <1>0, <2>2 DEF CommitRequest, Go, TypeOK
      <3>2. Ending(r)
        BY <1>3, <2>1, <3>1 DEF Ending
      <3>. QED
        BY <2>2, <3>1, <3>2, EndingWrites DEF CommitRequest, Commit
    <2>. DEFINE last == Len(work.files)
    <2>4. /\ Len(db.files) < last /\ work.files[last].name = job[r].name
          /\ work.files[last].status # "pending"
          /\ work.files[last].status = "processed" => work.files[last].short = job[r].short
      BY <2>3 DEF ShortInv, HasRow, Ingesting
    <2>5. /\ last \in DOMAIN work.files /\ last \in Nat
          /\ last \notin DOMAIN db.files
      <3>1. db.files \in Seq(Rows) /\ work.files \in Seq(Rows)
        BY <1>0 DEF TypeOK, Tables
      <3>. QED
        BY <2>4, <3>1
    <2>6. ASSUME NEW t \in Connections, Ingesting(t)' PROVE last \notin job'[t].queue
      <3>1. t # r
        BY <2>3, <2>6 DEF Ingesting
      <3>2. Ingesting(t) /\ job'[t].queue = job[t].queue
        BY <2>3, <2>6, <3>1, <1>0, OthersStay DEF Ingesting
      <3>3. View(t) = db
        BY <2>3, <3>1 DEF View, BaseInv, LockInv, OneWriter
      <3>. QED
        BY <2>5, <3>2, <3>3 DEF BaseInv, ListInv, Listed
    <2>7. Tells(r, last)'
      BY <2>3, <2>4, <2>5, <2>6 DEF Tells
    <2>. QED
      BY <2>1, <2>5, <2>7 DEF Told
  <1>4. ASSUME NEW s \in Connections PROVE Told(s)'
    BY <1>2, <1>3 DEF Told
  <1>. QED
    BY <1>1, <1>4 DEF ShortInv

LEMMA ShortAlways == Spec => [](BaseInv /\ ShortInv)
  <1>1. Init => ShortInv
    <2>1. Init => \A r \in Connections : op[r].kind = "none"
      <3>. SUFFICES ASSUME Init PROVE \A r \in Connections : op[r].kind = "none"
        OBVIOUS
      <3>1. op = [r \in Connections |-> NoOperation]
        BY DEF Init
      <3>. QED
        BY <3>1 DEF NoOperation
    <2>. QED
      BY <2>1 DEF ShortInv, HasRow, Told, Ending
  <1>2. BaseInv /\ ShortInv /\ [Next]_vars => ShortInv'
    <2>. SUFFICES ASSUME BaseInv, ShortInv, [Next]_vars PROVE ShortInv'
      OBVIOUS
    <2>1. CASE \E r \in Connections : Step(r)
      BY <2>1, ShortStep
    <2>2. CASE Crash
      <3>1. /\ db' = db /\ work' = db /\ UNCHANGED <<op, answer, job>>
            /\ \A s \in Connections : pc'[s] \in {"idle", "closed", "killed"}
        BY <2>2 DEF Crash, Recover
      <3>2. \A s \in Connections : ~Ending(s)' /\ ~Ingesting(s)'
        BY <3>1 DEF Ending, Ingesting
      <3>3. \A s \in Connections : \A i \in Nat : Tells(s, i) => Tells(s, i)'
        BY <3>1, <3>2 DEF Tells
      <3>. QED
        BY <3>1, <3>2, <3>3 DEF ShortInv, HasRow, Told
    <2>3. CASE UNCHANGED vars
      <3>1. \A s \in Connections : \A i \in Nat : Tells(s, i) => Tells(s, i)'
        BY <2>3 DEF vars, fileVars, Tells, Ingesting
      <3>. QED
        BY <2>3, <3>1 DEF vars, fileVars, ShortInv, HasRow, Told, Ending, Ingesting
    <2>. QED
      BY <2>1, <2>2, <2>3, Steps
  <1>. QED
    BY BaseAlways, <1>1, <1>2, PTL DEF Spec

(***************************************************************************)
(* A fetch that was cut short and answered has its shortfall on its row,   *)
(* for ever: no ingestion that was under way then, or comes later, takes   *)
(* that row into its list.                                                 *)
(***************************************************************************)
THEOREM ShortfallStays == Spec => []ShortfallIsShown
  <1>1. ASSUME ShortInv PROVE ShortfallIsShown
    <2>1. ASSUME NEW r \in Connections, op[r].kind = "fetch", answer[r] = "200"
          PROVE  \E i \in DOMAIN db.files :
                    /\ db.files[i].name = job[r].name
                    /\ db.files[i].status = "processed" => db.files[i].short = job[r].short
      <3>1. PICK i \in Nat : Tells(r, i)
        BY <1>1, <2>1 DEF ShortInv, Told
      <3>. QED
        BY <3>1 DEF Tells
    <2>. QED
      BY <2>1 DEF ShortfallIsShown
  <1>. QED
    BY ShortAlways, <1>1, PTL


-----------------------------------------------------------------------------
(* Storms are kept.                                                        *)

\* The connection of the name, if there is one, has its operation.
Owned(name) == name.of \in Connections => op[name.of] # NoOperation

\* Of each event that is in rows, all the places it has in the content.
FromFile(rows, content) ==
    /\ content \in Seq(Keys)
    /\ \A e \in rows : e.at \in DOMAIN content /\ e.key = content[e.at]
    /\ \A e \in rows, n \in DOMAIN content :
          content[n] = e.key => [at |-> n, key |-> content[n]] \in rows

OnceFrom(rows, name) == \E content \in OnceIn(name) : FromFile(rows, content)

Whole(contents) ==
    /\ \A i \in DOMAIN contents.files : Owned(contents.files[i].name)
    /\ \A k \in DOMAIN contents.events :
          OnceFrom(contents.events[k].rows, contents.files[contents.events[k].file].name)

Named(r) ==
    /\ pc[r] \in {"open", "write", "hash", "find", "insert"} => Owned(job[r].name)
    /\ pc[r] \in {"open", "write"} => \/ op[r].kind = "upload" /\ job[r].name = op[r].name
                                      \/ job[r].name.of = r
    /\ pc[r] = "store" => OnceFrom(job[r].kept, work.files[Current(r)].name)

(***************************************************************************)
(* Whatever is on the disk, in the working copy or in hand was once in a   *)
(* file of that name, whoever has written over it since.                   *)
(***************************************************************************)
StormInv ==
    /\ \A name \in DOMAIN disk : disk[name] \in OnceIn(name) /\ Owned(name)
    /\ Whole(work)
    /\ \A r \in Connections : Named(r)

\* Operations are given once, so that what was once in a file stays so.
LEMMA OnceStays ==
    ASSUME \A q \in Connections : op[q] # NoOperation => op'[q] = op[q], NEW name, Owned(name)
    PROVE  /\ Owned(name)' /\ OnceIn(name) \subseteq OnceIn(name)'
           /\ \A rows : OnceFrom(rows, name) => OnceFrom(rows, name)'
  <1>1. Owned(name)'
    BY DEF Owned
  <1>2. \A q \in Connections : op[q].kind \in {"upload", "drop"} => op'[q] = op[q]
    BY DEF NoOperation
  <1>3. name.of \in Connections => op'[name.of] = op[name.of]
    BY DEF Owned
  <1>4. OnceIn(name) \subseteq OnceIn(name)'
    BY <1>2, <1>3 DEF OnceIn
  <1>. QED
    BY <1>1, <1>4 DEF OnceFrom, FromFile

LEMMA OperationsStay ==
    ASSUME BaseInv, NEW r \in Connections, Step(r)
    PROVE  \A q \in Connections : op[q] # NoOperation => op'[q] = op[q]
  <1>0. TypeOK
    BY DEF BaseInv
  <1>1. CASE \E o \in Operations : Arrive(r, o)
    BY <1>0, <1>1, OthersStay DEF Arrive, Go, BaseInv, PlaceInv, Placed
  <1>2. CASE OwnAction(r) /\ ~(\E o \in Operations : Arrive(r, o))
    BY <1>2 DEF OwnAction, Drop, ChooseName, WriteUpload, NameFetch, OpenOutput, FetchNext, EndFetch,
                scan_directory, TakeNext, EndScan, compute_file_hash, FileIsNew, SkipKnownFile,
                get_pending, ParseFile, EndIngest
  <1>3. CASE EndAction(r)
    BY <1>3, EndMoves DEF End
  <1>4. CASE WriteAction(r) \/ CommitRequest(r)
    BY <1>4 DEF WriteAction, insert_file, MarkProcessing, MarkFailed, StoreEvents, Shows, EndIngest,
                CommitRequest
  <1>. QED
    BY <1>1, <1>2, <1>3, <1>4, Kinds

LEMMA WholeBelow ==
    ASSUME NEW a \in Tables, NEW b \in Tables, Grows(a, b), Filed(a), Whole(b)
    PROVE  Whole(a)
  <1>1. DOMAIN a.files \subseteq DOMAIN b.files /\ DOMAIN a.events \subseteq DOMAIN b.events
    BY GrowsDomain
  <1>2. \A i \in DOMAIN a.files : a.files[i].name = b.files[i].name
    BY DEF Grows, SameFile
  <1>3. \A k \in DOMAIN a.events : b.events[k] = a.events[k] /\ a.events[k].file \in DOMAIN a.files
    BY DEF Grows, Filed
  <1>. QED
    BY <1>1, <1>2, <1>3 DEF Whole

\* One more file, or one more insert.
LEMMA WholeGrows ==
    ASSUME NEW a \in Tables, NEW b \in Tables, Grows(a, b), Filed(a), Whole(a),
           \A i \in DOMAIN b.files : i \in DOMAIN a.files \/ Owned(b.files[i].name),
           \A k \in DOMAIN b.events :
              k \in DOMAIN a.events \/ OnceFrom(b.events[k].rows, b.files[b.events[k].file].name)
    PROVE  Whole(b)
  <1>1. DOMAIN a.files \subseteq DOMAIN b.files
    BY GrowsDomain
  <1>2. \A i \in DOMAIN a.files : a.files[i].name = b.files[i].name
    BY DEF Grows, SameFile
  <1>3. \A k \in DOMAIN a.events : b.events[k] = a.events[k] /\ a.events[k].file \in DOMAIN a.files
    BY DEF Grows, Filed
  <1>. QED
    BY <1>1, <1>2, <1>3 DEF Whole

LEMMA SelfPrefix ==
    ASSUME NEW S, NEW s \in Seq(S)
    PROVE  s \in Prefixes(s)
  <1>1. Len(s) \in 0..Len(s) /\ s = SubSeq(s, 1, Len(s))
    OBVIOUS
  <1>. QED
    BY <1>1 DEF Prefixes

\* The directory.
LEMMA DiskHolds ==
    ASSUME BaseInv, StormInv, NEW r \in Connections, Step(r)
    PROVE  \A name \in DOMAIN disk' : disk'[name] \in OnceIn(name) /\ Owned(name)
  <1>0. /\ TypeOK /\ Named(r) /\ Placed(r) /\ op[r] \in OperationTypes \cup {NoOperation}
        /\ \A name \in DOMAIN disk : disk[name] \in OnceIn(name) /\ Owned(name)
    BY DEF BaseInv, TypeOK, StormInv, PlaceInv
  <1>1. ASSUME NEW name, NEW content, Put(name, content), content \in OnceIn(name), Owned(name)
        PROVE  \A n \in DOMAIN disk' : disk'[n] \in OnceIn(n) /\ Owned(n)
    BY <1>0, <1>1 DEF Put
  <1>2. CASE Drop(r)
    <2>1. op[r].kind = "drop"
      BY <1>0, <1>2 DEF Drop, Go, Placed, RequestPoints
    <2>2. op[r].content \in OnceIn(op[r].name)
      BY <2>1 DEF OnceIn
    <2>3. op[r].name.of \notin Connections
      BY <1>0, <2>1, OperationFields, NamesAssumption DEF OutsideNames
    <2>. QED
      BY <1>1, <1>2, <2>2, <2>3 DEF Drop, Owned
  <1>3. CASE OpenOutput(r)
    <2>1. <<>> \in OnceIn(job[r].name) /\ Owned(job[r].name)
      BY <1>0, <1>3 DEF OpenOutput, Go, Named, OnceIn
    <2>. QED
      BY <1>1, <1>3, <2>1 DEF OpenOutput
  <1>4. CASE WriteUpload(r)
    <2>1. op[r].kind = "upload" /\ pc[r] = "write"
      BY <1>4 DEF WriteUpload, Go
    <2>2. op[r].content \in Prefixes(op[r].content)
      BY <2>1, Brought, SelfPrefix
    <2>3. op[r].content \in OnceIn(job[r].name) /\ Owned(job[r].name)
      BY <1>0, <2>1, <2>2 DEF Named, OnceIn
    <2>. QED
      BY <1>1, <1>4, <2>3 DEF WriteUpload
  <1>5. CASE FetchNext(r)
    <2>. DEFINE part == SubSeq(op[r].content, 1, job[r].got + 1)
    <2>1. op[r].kind = "fetch" /\ pc[r] = "write" /\ job[r].got \in Nat
          /\ job[r].got < Len(op[r].content)
      BY <1>0, <1>5 DEF FetchNext, Fetching, TypeOK
    <2>2. op[r].content \in Seq(Keys)
      BY <2>1, Brought
    <2>3. job[r].got + 1 \in 0..Len(op[r].content)
      BY <2>1, <2>2
    <2>4. part \in Prefixes(op[r].content)
      BY <2>3 DEF Prefixes
    <2>. HIDE DEF part
    <2>5. part \in OnceIn(job[r].name) /\ Owned(job[r].name)
      BY <1>0, <2>1, <2>4 DEF Named, OnceIn
    <2>. QED
      BY <1>1, <1>5, <2>5 DEF FetchNext, part
  <1>6. CASE FetchFails(r) \/ RefuseKnownFile(r)
    BY <1>0, <1>6 DEF FetchFails, RefuseKnownFile, unlink, Restrict
  <1>7. CASE (\E o \in Operations : Arrive(r, o)) \/ RefuseInput(r) \/ ChooseName(r) \/ NameFetch(r)
              \/ EndFetch(r)
    BY <1>0, <1>7 DEF Arrive, RefuseInput, ChooseName, NameFetch, EndFetch
  <1>8. CASE RegisterStep(r) /\ ~RefuseKnownFile(r)
    BY <1>0, <1>8 DEF RegisterStep, scan_directory, TakeNext, EndScan, compute_file_hash, FileIsNew,
                      SkipKnownFile, insert_file, RegisterRaises
  <1>9. CASE IngestStep(r)
    BY <1>0, <1>9 DEF IngestStep, get_pending, MarkProcessing, ParseFile, MarkFailed, StoreEvents,
                      EndIngest, WriteTimesOut, CommitRequest
  <1>. QED
    BY <1>2, <1>3, <1>4, <1>5, <1>6, <1>7, <1>8, <1>9 DEF Step, ReceiveStep


LEMMA WholeKept ==
    ASSUME NEW c \in Tables, Filed(c), Whole(c),
           \A q \in Connections : op[q] # NoOperation => op'[q] = op[q]
    PROVE  Whole(c)'
  BY OnceStays DEF Whole, Filed

\* The working copy, in terms of the operations as they were.
LEMMA WorkHolds ==
    ASSUME BaseInv, ApartInv, StormInv, NEW r \in Connections, Step(r)
    PROVE  Whole(work')
  <1>0. /\ TypeOK /\ db \in Tables /\ work \in Tables /\ View(r) \in Tables /\ Grows(db, work)
        /\ Named(r) /\ Whole(work) /\ Filed(db) /\ Filed(work)
    BY ViewType DEF BaseInv, TypeOK, ListInv, StormInv, ApartInv
  <1>1. Whole(db)
    BY <1>0, WholeBelow
  <1>2. Whole(View(r)) /\ Filed(View(r))
    BY <1>0, <1>1 DEF View
  <1>3. CASE ~WriteAction(r)
    <2>1. work' = work \/ work' = db
      BY <1>3, OwnMoves, EndMoves, Kinds DEF BaseInv, fileVars, End, Rollback, CommitRequest, Commit
    <2>. QED
      BY <1>0, <1>1, <2>1
  <1>4. CASE WriteAction(r)
    <2>1. work' \in Tables /\ Grows(View(r), work')
      BY <1>4, WriteGrows
    <2>2. \A i \in DOMAIN work'.files : i \in DOMAIN View(r).files \/ Owned(work'.files[i].name)
      <3>1. CASE insert_file(r)
        <4>1. PICK row \in Rows : row.name = job[r].name /\ Inserts(row, View(r), work')
          BY <3>1, InsertMakes
        <4>2. View(r).files \in Seq(Rows) /\ work'.files = Append(View(r).files, row)
          BY <1>0, <4>1 DEF Inserts, Tables
        <4>3. \A i \in DOMAIN work'.files : i \in DOMAIN View(r).files \/ work'.files[i] = row
          BY <4>2
        <4>4. Owned(job[r].name)
          BY <1>0, <3>1 DEF insert_file, Go, Named
        <4>. QED
          BY <4>1, <4>3, <4>4
      <3>2. CASE ~insert_file(r)
        <4>1. PICK i, row : Moves(i, row, View(r), work')
          BY <1>4, <3>2, MarkProcessingMakes, MarkFailedMakes, StoreEventsMakes, ShowsMakes
          DEF WriteAction
        <4>2. DOMAIN work'.files = DOMAIN View(r).files
          BY <1>0, <2>1, <4>1 DEF Moves, Tables
        <4>. QED
          BY <4>2
      <3>. QED
        BY <3>1, <3>2
    <2>3. \A k \in DOMAIN work'.events :
             \/ k \in DOMAIN View(r).events
             \/ OnceFrom(work'.events[k].rows, work'.files[work'.events[k].file].name)
      <3>1. CASE work'.events = View(r).events
        BY <3>1
      <3>2. CASE work'.events # View(r).events
        <4>1. StoreEvents(r)
          BY <1>4, <3>2, InsertMakes, MarkProcessingMakes, MarkFailedMakes, ShowsMakes
          DEF WriteAction, Inserts
        <4>2. /\ Current(r) \in DOMAIN View(r).files /\ job[r].kept \in SUBSET EventRows
              /\ work'.events = Append(View(r).events, [file |-> Current(r), rows |-> job[r].kept])
          BY <1>0, <3>2, <4>1, StoreEventsMakes DEF TypeOK
        <4>3. pc[r] = "store" /\ View(r) = work
          BY <4>1 DEF StoreEvents, Go, BaseInv, LockInv, Locks, View
        <4>4. /\ View(r).events \in Seq([file : Nat \ {0}, rows : SUBSET EventRows])
              /\ View(r).files \in Seq(Rows)
          BY <1>0 DEF Tables
        <4>5. Current(r) \in Nat \ {0}
          BY <4>2, <4>4
        <4>. DEFINE batch == [file |-> Current(r), rows |-> job[r].kept]
        <4>6. batch \in [file : Nat \ {0}, rows : SUBSET EventRows]
          BY <4>2, <4>5
        <4>7. batch.file = Current(r) /\ batch.rows = job[r].kept
          OBVIOUS
        <4>. HIDE DEF batch
        <4>8. \A k \in DOMAIN work'.events : k \in DOMAIN View(r).events \/ work'.events[k] = batch
          BY <4>2, <4>4, <4>6 DEF batch
        <4>9. OnceFrom(job[r].kept, work'.files[Current(r)].name)
          BY <1>0, <2>1, <4>2, <4>3 DEF Named, Grows, SameFile
        <4>. QED
          BY <4>7, <4>8, <4>9
      <3>. QED
        BY <3>1, <3>2
    <2>. QED
      BY <1>0, <1>2, <2>1, <2>2, <2>3, WholeGrows
  <1>. QED
    BY <1>3, <1>4

\* What a batch comes to when what is stored already is dropped: all of an event or nothing.
LEMMA DropIsWhole ==
    ASSUME NEW existing, NEW batch \in Seq(Keys)
    PROVE  FromFile(_drop_already_ingested(existing, batch), batch)
  <1>1. \A e \in _drop_already_ingested(existing, batch) :
           e.at \in DOMAIN batch /\ e.key = batch[e.at] /\ e.key \notin existing
    BY KeptType
  <1>2. \A n \in DOMAIN batch : batch[n] \notin existing =>
           [at |-> n, key |-> batch[n]] \in _drop_already_ingested(existing, batch)
    BY DEF _drop_already_ingested
  <1>. QED
    BY <1>1, <1>2 DEF FromFile

LEMMA NamedStep ==
    ASSUME BaseInv, StormInv, NEW r \in Connections, Step(r)
    PROVE  Named(r)'
  <1>0. /\ TypeOK /\ Named(r) /\ Placed(r) /\ NameSteps(r) /\ QueueSteps(r)
        /\ op[r] \in OperationTypes \cup {NoOperation} /\ job[r] \in Jobs
        /\ \A q \in Connections : op[q] # NoOperation => op'[q] = op[q]
        /\ \A name \in DOMAIN disk : disk[name] \in OnceIn(name) /\ Owned(name)
    BY NameMoves, QueueMoves, OperationsStay DEF BaseInv, TypeOK, StormInv, PlaceInv, Jobs
  <1>1. ASSUME NEW name, Owned(name) PROVE Owned(name)'
    BY <1>0, <1>1, OnceStays
  <1>2. CASE ChooseName(r) \/ NameFetch(r)
    <2>1. /\ pc'[r] = "open" /\ op[r].kind \in {"upload", "fetch"} /\ op' = op
          /\ op[r] # NoOperation
      BY <1>0, <1>2
      DEF ChooseName, NameFetch, Go, TypeOK, Placed, RequestPoints, NoOperation
    <2>2. \/ op[r].kind = "upload" /\ job'[r].name = op[r].name
          \/ job'[r].name.of = r
      BY <1>0, <1>2 DEF NameSteps, ChooseName, NameFetch, Go, Placed, RequestPoints
    <2>3. Owned(job'[r].name)
      <3>1. CASE job'[r].name.of = r
        BY <2>1, <3>1 DEF Owned
      <3>2. CASE op[r].kind = "upload" /\ job'[r].name = op[r].name
        BY <1>0, <3>2, OperationFields, NamesAssumption DEF OutsideNames, Owned
      <3>. QED
        BY <2>2, <3>1, <3>2
    <2>. QED
      BY <2>1, <2>2, <2>3 DEF Named, Owned
  <1>3. CASE OpenOutput(r) \/ WriteUpload(r) \/ FetchNext(r) \/ EndFetch(r)
    <2>1. /\ pc'[r] \in {"write", "hash"} /\ pc[r] \in {"open", "write"} /\ op' = op
          /\ job'[r].name = job[r].name
      BY <1>0, <1>3
      DEF OpenOutput, WriteUpload, FetchNext, EndFetch, Fetching, Go, TypeOK, NameSteps, Only
    <2>. QED
      BY <1>0, <2>1 DEF Named, Owned
  <1>4. CASE \E name \in job[r].names : TakeNext(r, name)
    <2>1. PICK name \in job[r].names : TakeNext(r, name)
      BY <1>4
    <2>2. pc'[r] = "find" /\ op' = op /\ job'[r].name = name /\ name \in DOMAIN disk
      BY <1>0, <2>1 DEF TakeNext, Go, TypeOK, NameSteps
    <2>3. Owned(name)
      BY <1>0, <2>2
    <2>. QED
      BY <2>2, <2>3 DEF Named, Owned
  <1>5. CASE compute_file_hash(r) \/ FileIsNew(r)
    <2>1. /\ pc'[r] \in {"find", "insert"} /\ pc[r] \in {"hash", "find"} /\ op' = op
          /\ job'[r].name = job[r].name
      BY <1>0, <1>5 DEF compute_file_hash, FileIsNew, Go, TypeOK, NameSteps, Only
    <2>. QED
      BY <1>0, <2>1 DEF Named, Owned
  <1>6. CASE ParseFile(r)
    <2>. DEFINE name == work.files[Current(r)].name
                batch == disk[name]
    <2>1. /\ pc'[r] = "store" /\ op' = op /\ work' = work /\ Current(r)' = Current(r)
          /\ View(r) = work /\ Only(job[r], job'[r], {"kept"})
      BY <1>0, <1>6, OwnMoves
      DEF ParseFile, Go, TypeOK, QueueSteps, Only, Current, OwnAction, fileVars, BaseInv, LockInv,
          Locks, View
    <2>2. name \in DOMAIN disk /\ \E existing : job'[r].kept = _drop_already_ingested(existing, batch)
      BY <1>0, <1>6, <2>1 DEF QueueSteps
    <2>3. batch \in Seq(Keys) /\ batch \in OnceIn(name)
      BY <1>0, <2>2 DEF TypeOK
    <2>. HIDE DEF batch
    <2>4. FromFile(job'[r].kept, batch)
      BY <2>2, <2>3, DropIsWhole
    <2>5. OnceFrom(job'[r].kept, name)
      BY <2>3, <2>4 DEF OnceFrom
    <2>6. \A rows, n : OnceFrom(rows, n) => OnceFrom(rows, n)'
      BY <2>1 DEF OnceFrom, OnceIn, FromFile
    <2>. QED
      BY <2>1, <2>5, <2>6 DEF Named, Current
  \* Elsewhere there is nothing to say.
  <1>7. ASSUME pc'[r] \notin {"open", "write", "hash", "find", "insert", "store"}
        PROVE  Named(r)'
    BY <1>7 DEF Named
  <1>8. CASE EndAction(r)
    BY <1>0, <1>7, <1>8, EndMoves DEF End, TypeOK
  <1>9. CASE (\E o \in Operations : Arrive(r, o)) \/ Drop(r) \/ scan_directory(r) \/ EndScan(r)
              \/ SkipKnownFile(r) \/ get_pending(r) \/ EndIngest(r)
    <2>1. \A o \in Operations : o.kind \in RequestPoints
      BY OperationsAssumption, OperationFields DEF OperationTypes, RequestPoints, NoOperation
    <2>. QED
      BY <1>0, <1>7, <1>9, <2>1
      DEF Arrive, Drop, scan_directory, EndScan, SkipKnownFile, get_pending, EndIngest, Go, TypeOK,
          RequestPoints
  <1>10. CASE WriteAction(r) \/ CommitRequest(r)
    BY <1>0, <1>7, <1>10
    DEF WriteAction, insert_file, MarkProcessing, MarkFailed, StoreEvents, Shows, EndIngest,
        CommitRequest, Go, TypeOK
  <1>. QED
    BY <1>2, <1>3, <1>4, <1>5, <1>6, <1>8, <1>9, <1>10, Kinds DEF OwnAction

LEMMA StormStep ==
    ASSUME BaseInv, ApartInv, ApartInv', BaseInv', StormInv, NEW r \in Connections, Step(r)
    PROVE  StormInv'
  <1>0. /\ TypeOK /\ work' \in Tables /\ Filed(work')
        /\ \A q \in Connections : op[q] # NoOperation => op'[q] = op[q]
    BY OperationsStay DEF BaseInv, ApartInv, TypeOK
  <1>1. ASSUME NEW name \in DOMAIN disk'
        PROVE  disk'[name] \in OnceIn(name)' /\ Owned(name)'
    BY <1>0, DiskHolds, OnceStays
  <1>2. Whole(work)'
    <2>1. Whole(work')
      BY WorkHolds
    <2>. SUFFICES ASSUME NEW c \in Tables, c = work' PROVE Whole(work)'
      BY <1>0
    <2>2. Whole(c)'
      BY <1>0, <2>1, WholeKept
    <2>. QED
      BY <2>2 DEF Whole
  <1>3. ASSUME NEW s \in Connections \ {r}
        PROVE  Named(s)'
    <2>1. /\ pc'[s] = pc[s] /\ job'[s] = job[s] /\ op'[s] = op[s] /\ Named(s)
          /\ Placed(s) /\ Placed(s)'
      BY <1>0, OthersStay DEF StormInv, BaseInv, PlaceInv
    <2>2. \A name : Owned(name) => Owned(name)'
      BY <1>0, OnceStays
    <2>3. CASE pc[s] = "store"
      <3>1. work' = work /\ View(s) = work /\ Current(s) \in DOMAIN work.files
        BY <2>1, <2>3, OthersView, CurrentIsQueued
        DEF BaseInv, LockInv, Locks, View, Placed, Ingesting
      <3>2. PICK name : /\ name = work.files[Current(s)].name
                         /\ Owned(name) /\ OnceFrom(job[s].kept, name)
        BY <2>1, <2>3, <3>1 DEF StormInv, Whole, Named
      <3>3. \A rows : OnceFrom(rows, name) => OnceFrom(rows, name)'
        BY <1>0, <3>2, OnceStays
      <3>. QED
        BY <2>1, <2>3, <3>1, <3>2, <3>3 DEF Named, Current
    <2>4. CASE pc[s] # "store"
      BY <2>1, <2>2, <2>4 DEF Named, Owned
    <2>. QED
      BY <2>3, <2>4
  <1>. QED
    BY <1>1, <1>2, <1>3, NamedStep DEF StormInv

LEMMA StormInit == Init => StormInv
  <1>. SUFFICES ASSUME Init PROVE StormInv
    OBVIOUS
  <1>1. disk = FirstDisk /\ work = [files |-> FirstFiles, events |-> <<>>]
        /\ \A r \in Connections : pc[r] = "idle"
    BY DEF Init, OpenFile
  <1>2. ASSUME NEW name \in OutsideNames PROVE Owned(name)
    BY <1>2, NamesAssumption DEF OutsideNames, Owned
  <1>3. \A name \in DOMAIN disk : disk[name] \in OnceIn(name) /\ Owned(name)
    BY <1>1, <1>2, FirstDiskAssumption DEF OnceIn
  <1>4. DOMAIN work.events = {}
    BY <1>1
  <1>5. \A i \in DOMAIN work.files : Owned(work.files[i].name)
    BY <1>1, <1>2, FirstFilesAssumption
  <1>. QED
    BY <1>1, <1>3, <1>4, <1>5 DEF StormInv, Whole, Named

LEMMA StormAlways == Spec => [](BaseInv /\ ApartInv /\ StormInv)
  <1>1. BaseInv /\ BaseInv' /\ ApartInv /\ ApartInv' /\ StormInv /\ [Next]_vars => StormInv'
    <2>. SUFFICES ASSUME BaseInv, BaseInv', ApartInv, ApartInv', StormInv, [Next]_vars
                  PROVE  StormInv'
      OBVIOUS
    <2>0. work' \in Tables /\ Filed(work') /\ Filed(work) /\ Filed(db)
      BY DEF BaseInv, TypeOK, ApartInv
    <2>1. CASE \E r \in Connections : Step(r)
      BY <2>1, StormStep
    <2>2. CASE Crash
      <3>1. /\ work' = db /\ disk' = disk /\ op' = op
            /\ \A r \in Connections : pc'[r] \in {"idle", "closed", "killed"}
        BY <2>2 DEF Crash, Recover
      <3>2. Whole(db)
        BY WholeBelow DEF BaseInv, TypeOK, ListInv, ApartInv, StormInv
      <3>3. Whole(work)'
        <4>. SUFFICES ASSUME NEW c \in Tables, c = work' PROVE Whole(work)'
          BY <2>0
        <4>1. Whole(c)'
          BY <2>0, <3>1, <3>2, WholeKept
        <4>. QED
          BY <4>1 DEF Whole
      <3>4. \A r \in Connections : Named(r)'
        BY <3>1 DEF Named
      <3>5. \A name \in DOMAIN disk' : disk'[name] \in OnceIn(name)' /\ Owned(name)'
        BY <3>1 DEF StormInv, Owned, OnceIn
      <3>. QED
        BY <3>3, <3>4, <3>5 DEF StormInv
    <2>3. CASE UNCHANGED vars
      <3>1. work' = work /\ disk' = disk /\ op' = op /\ pc' = pc /\ job' = job
        BY <2>3 DEF vars, fileVars
      <3>3. Whole(work)'
        <4>. SUFFICES ASSUME NEW c \in Tables, c = work' PROVE Whole(work)'
          BY <2>0
        <4>1. Whole(c)'
          BY <2>0, <3>1, WholeKept DEF StormInv
        <4>. QED
          BY <4>1 DEF Whole
      <3>4. \A r \in Connections : Named(r)'
        <4>1. \A name : OnceIn(name)' = OnceIn(name) /\ Owned(name)' = Owned(name)
          BY <3>1 DEF OnceIn, Owned
        <4>2. \A rows, name : OnceFrom(rows, name)' = OnceFrom(rows, name)
          BY <4>1 DEF OnceFrom
        <4>. QED
          BY <3>1, <4>1, <4>2 DEF StormInv, Named, Current
      <3>5. \A name \in DOMAIN disk' : disk'[name] \in OnceIn(name)' /\ Owned(name)'
        BY <3>1 DEF StormInv, Owned, OnceIn
      <3>. QED
        BY <3>3, <3>4, <3>5 DEF StormInv
    <2>. QED
      BY <2>1, <2>2, <2>3, Steps
  <1>. QED
    BY ApartAlways, StormInit, <1>1, PTL DEF Spec

(***************************************************************************)
(* What is stored from a file of an event, if anything is, is one place    *)
(* for each repetition of the event in a content the file once had.        *)
(***************************************************************************)
THEOREM StormsStay == Spec => []StormsAreKept
  <1>1. ASSUME BaseInv, ApartInv, StormInv PROVE StormsAreKept
    <2>0. /\ db \in Tables /\ Apart(db) /\ Filed(db) /\ Whole(db)
      BY <1>1, ApartBelow, WholeBelow DEF ApartInv, BaseInv, TypeOK, ListInv, StormInv
    <2>. SUFFICES ASSUME NEW i \in DOMAIN db.files, NEW key \in Keys
                  PROVE  \E content \in OnceIn(db.files[i].name) :
                            StoredFrom(i, key) \in {0, Occurrences(content, key)}
      BY DEF StormsAreKept
    <2>. DEFINE inserts == {j \in DOMAIN db.events : db.events[j].file = i}
                places(k) == {row.at : row \in {e \in db.events[k].rows : e.key = key}}
                all == UNION {{k} \X places(k) : k \in inserts}
    <2>1. StoredFrom(i, key) = Cardinality(all)
      BY DEF StoredFrom
    <2>2. CASE all = {}
      <3>1. StoredFrom(i, key) = 0
        BY <2>1, <2>2, FS_EmptySet
      <3>2. <<>> \in OnceIn(db.files[i].name)
        BY DEF OnceIn
      <3>. QED
        BY <3>1, <3>2
    <2>3. CASE all # {}
      <3>0. PICK k \in inserts : places(k) # {}
        BY <2>3
      <3>1. PICK e \in db.events[k].rows : e.key = key
        BY <3>0
      <3>2. PICK content \in OnceIn(db.files[i].name) : FromFile(db.events[k].rows, content)
        BY <2>0, <3>1 DEF Whole, OnceFrom
      <3>. DEFINE found == {n \in DOMAIN content : content[n] = key}
      <3>3. \A l \in inserts : places(l) # {} => l = k
        BY <2>0, <3>1 DEF Apart, ClusterAt
      <3>4. places(k) = found
        <4>1. places(k) \subseteq found
          BY <3>2 DEF FromFile
        <4>2. ASSUME NEW n \in found PROVE n \in places(k)
          <5>1. e.key = key /\ content[n] = e.key /\ n \in DOMAIN content
            BY <3>1
          <5>2. [at |-> n, key |-> content[n]] \in db.events[k].rows
            BY <3>1, <3>2, <5>1 DEF FromFile
          <5>. QED
            BY <5>1, <5>2
        <4>. QED
          BY <4>1, <4>2
      <3>5. all = {k} \X found
        BY <3>1, <3>3, <3>4
      <3>6. Cardinality(all) = Cardinality(found)
        <4>1. content \in Seq(Keys) /\ Len(content) \in Nat
          BY <3>2 DEF FromFile
        <4>0. IsFiniteSet(1..Len(content))
          BY <4>1, FS_Interval
        <4>2. IsFiniteSet(1..Len(content)) /\ found \subseteq 1..Len(content)
          BY <4>0, <4>1
        <4>3. IsFiniteSet(found)
          BY <4>2, FS_Subset
        <4>. DEFINE pair == [n \in found |-> <<k, n>>]
        <4>. HIDE DEF all, found
        <4>4. pair \in Bijection(found, all)
          <5>1. pair \in [found -> all]
            BY <3>5
          <5>2. \A m, n \in found : pair[m] = pair[n] => m = n
            OBVIOUS
          <5>3. \A p \in all : \E n \in found : pair[n] = p
            BY <3>5
          <5>. HIDE DEF pair
          <5>. QED
            BY <5>1, <5>2, <5>3 DEF Bijection, Injection, Surjection, IsInjective
        <4>. QED
          BY <4>3, <4>4, FS_Bijection DEF ExistsBijection
      <3>7. StoredFrom(i, key) = Occurrences(content, key)
        BY <2>1, <3>6 DEF Occurrences
      <3>. QED
        BY <3>7
    <2>. QED
      BY <2>2, <2>3
  <1>. QED
    BY StormAlways, <1>1, PTL

=============================================================================
