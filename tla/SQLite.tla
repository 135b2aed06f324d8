-------------------------------- MODULE SQLite --------------------------------
(***************************************************************************)
(* The one SQLite file as the connections of src/app/db/session.py use it: *)
(* rollback journal, Python's implicit deferred BEGIN before the first     *)
(* write of a connection, a busy timeout of ten seconds.  Every session()  *)
(* and every get_db request has a connection of its own.                   *)
(*                                                                         *)
(* What a connection holds:                                                *)
(*   auto      no transaction: a read locks the file only while it runs    *)
(*   begun     a transaction is open, no lock: the write that opened it    *)
(*             failed                                                      *)
(*   shared    a transaction is open and has read: no one may commit       *)
(*   reserved  a transaction has written; readers go on, writers do not    *)
(*   pending   that transaction is committing and waits for the shared     *)
(*             holders; no new reader gets in                              *)
(*                                                                         *)
(* A statement that finds the file locked waits, and fails when its        *)
(* timeout is over: each operation is a pair, the one that gets its lock   *)
(* and the one that does not.                                              *)
(***************************************************************************)
EXTENDS Naturals

CONSTANT Connections

VARIABLES
    db,     \* the committed contents of the file
    work,   \* the contents as the writing transaction sees them
    tx      \* what each connection holds

fileVars == <<db, work, tx>>

TxStates == {"auto", "begun", "shared", "reserved", "pending"}

Writer(c) == tx[c] \in {"reserved", "pending"}

Committing == \E d \in Connections : tx[d] = "pending"

\* What a query of connection c returns rows of.
View(c) == IF Writer(c) THEN work ELSE db

OpenFile(contents) ==
    /\ db = contents
    /\ work = contents
    /\ tx = [c \in Connections |-> "auto"]

-----------------------------------------------------------------------------
(* SELECT: inside an open transaction it keeps its shared lock.            *)

MayRead(c) == tx[c] \in {"shared", "reserved"} \/ ~Committing

Read(c) ==
    /\ MayRead(c)
    /\ tx' = IF tx[c] = "begun" THEN [tx EXCEPT ![c] = "shared"] ELSE tx
    /\ UNCHANGED <<db, work>>

\* One more commit may follow the one it waited for.
ReadTimesOut(c) ==
    /\ ~MayRead(c)
    /\ UNCHANGED fileVars

(* INSERT and UPDATE: one writer at a time.  A write waits for its turn;   *)
(* it is refused at once if its own transaction has read, and after the    *)
(* timeout if the writer is slow: a connection of `slow`, or a commit that *)
(* is itself waiting.  The transaction a refused write opened stays open.  *)

MayWrite(c) == \A d \in Connections \ {c} : ~Writer(d)

Write(c, contents) ==
    /\ MayWrite(c)
    /\ tx' = [tx EXCEPT ![c] = "reserved"]
    /\ work' = contents
    /\ UNCHANGED db

LockedOut(c, slow) ==
    \E d \in Connections \ {c} :
        Writer(d) /\ (tx[c] = "shared" \/ tx[d] = "pending" \/ d \in slow)

WriteRefused(c, slow) ==
    /\ LockedOut(c, slow)
    /\ tx' = IF tx[c] = "auto" THEN [tx EXCEPT ![c] = "begun"] ELSE tx
    /\ UNCHANGED <<db, work>>

(* commit(), rollback() and close() at the end of session().               *)

OthersRead(c) == \E d \in Connections \ {c} : tx[d] = "shared"

Commit(c) ==
    /\ Writer(c) => ~OthersRead(c)
    /\ db' = IF Writer(c) THEN work ELSE db
    /\ tx' = [tx EXCEPT ![c] = "auto"]
    /\ UNCHANGED work

AwaitReaders(c) ==
    /\ tx[c] = "reserved"
    /\ OthersRead(c)
    /\ tx' = [tx EXCEPT ![c] = "pending"]
    /\ UNCHANGED <<db, work>>

Rollback(c) ==
    /\ work' = IF Writer(c) THEN db ELSE work
    /\ tx' = [tx EXCEPT ![c] = "auto"]
    /\ UNCHANGED db

CommitTimesOut(c) ==
    /\ tx[c] = "pending"
    /\ OthersRead(c)
    /\ Rollback(c)

\* The process is gone: the journal restores the committed contents.
Recover ==
    /\ work' = db
    /\ tx' = [c \in Connections |-> "auto"]
    /\ UNCHANGED db

=============================================================================
