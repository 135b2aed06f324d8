---------------------------- MODULE Tables_proofs ----------------------------
(***************************************************************************)
(* Lemmas that several proofs cite: about the operators of Findings, for   *)
(* the modules that keep a findings table, and about the statements of     *)
(* SQLite, for any number of connections and any contents: what a          *)
(* statement of one connection can do to the file and to the others.       *)
(***************************************************************************)
EXTENDS Findings, SQLite, TLAPS

\* A table that gets one more row keeps the rows it had, in their places.
LEMMA AppendKeeps ==
    ASSUME NEW S, NEW s \in Seq(S), NEW e \in S
    PROVE  /\ Append(s, e) \in Seq(S)
           /\ DOMAIN Append(s, e) = DOMAIN s \cup {Len(s) + 1}
           /\ Append(s, e)[Len(s) + 1] = e
           /\ \A i \in DOMAIN s : i # Len(s) + 1 /\ Append(s, e)[i] = s[i]
  OBVIOUS

\* compute_signature never leaves the signatures, whatever node it is given.
LEMMA SignatureType ==
    ASSUME NEW pattern \in Patterns, NEW node
    PROVE  compute_signature(pattern, node) \in Signatures
  BY DEF compute_signature, Signatures

\* A row that is not open, or whose signature has no open row yet, may be added.
LEMMA AddKeepsUnique ==
    ASSUME NEW S, NEW rows \in Seq(S), NEW r \in S,
           OneOpenPerSignature(rows),
           r.status = "open" => ~find_open_by_signature(rows, r.sig)
    PROVE  OneOpenPerSignature(Append(rows, r))
  BY AppendKeeps DEF OneOpenPerSignature, find_open_by_signature

\* What stands in the way of a finding still does after rows are added.
LEMMA AddKeepsBlocked ==
    ASSUME NEW S, NEW rows \in Seq(S), NEW r \in S, NEW feedback, NEW sig,
           Blocked(rows, feedback, sig)
    PROVE  Blocked(Append(rows, r), feedback, sig)
  BY AppendKeeps DEF Blocked, find_open_by_signature

\* An open row stands in the way of every other of its signature.
LEMMA AddBlocks ==
    ASSUME NEW S, NEW rows \in Seq(S), NEW r \in S, NEW feedback,
           r.status = "open"
    PROVE  Blocked(Append(rows, r), feedback, r.sig)
  <1>1. /\ Len(rows) + 1 \in DOMAIN Append(rows, r)
        /\ Append(rows, r)[Len(rows) + 1] = r
    BY AppendKeeps
  <1>. QED
    BY <1>1 DEF Blocked, find_open_by_signature

\* What a dismissal takes off the open findings it puts into the feedback.
LEMMA DismissKeepsBlocked ==
    ASSUME NEW S, NEW rows \in Seq(S), NEW i \in DOMAIN rows, NEW feedback,
           NEW scope \in Scopes, NEW sig,
           Blocked(rows, feedback, sig)
    PROVE  Blocked(dismiss(rows, i), insert_feedback(feedback, rows[i].sig, scope), sig)
  <1>. DEFINE after == dismiss(rows, i)
              known == insert_feedback(feedback, rows[i].sig, scope)
  <1>1. CASE check_suppression(feedback, sig)
    BY <1>1 DEF Blocked, check_suppression, insert_feedback
  <1>2. CASE rows[i].sig = sig
    <2>1. [sig |-> sig, scope |-> scope] \in known
      BY <1>2 DEF insert_feedback
    <2>2. check_suppression(known, sig)
      BY <2>1 DEF check_suppression, Scopes
    <2>. QED
      BY <2>2 DEF Blocked
  <1>3. ASSUME NEW j \in DOMAIN rows \ {i}, rows[j].sig = sig, rows[j].status = "open"
        PROVE  Blocked(after, known, sig)
    <2>1. j \in DOMAIN after /\ after[j] = rows[j]
      BY DEF dismiss
    <2>. QED
      BY <1>3, <2>1 DEF Blocked, find_open_by_signature
  <1>. QED
    BY <1>1, <1>2, <1>3 DEF Blocked, find_open_by_signature

-----------------------------------------------------------------------------
(* The statements of SQLite.                                               *)

OneWriter == \A c, d \in Connections : Writer(c) /\ Writer(d) => c = d

LocksOK == tx \in [Connections -> TxStates] /\ OneWriter

\* Whatever connection c does next with the file.
Statement(c, slow) ==
    \/ UNCHANGED fileVars
    \/ Read(c)
    \/ WriteRefused(c, slow)
    \/ \E contents : Write(c, contents)
    \/ Commit(c)
    \/ AwaitReaders(c)
    \/ Rollback(c)

\* There is never a second writer.
LEMMA LocksKept ==
    ASSUME LocksOK, NEW c \in Connections, NEW slow, Statement(c, slow)
    PROVE  LocksOK' /\ \A d \in Connections \ {c} : tx'[d] = tx[d]
  <1>. USE DEF LocksOK, OneWriter, Writer, TxStates
  <1>1. CASE UNCHANGED fileVars \/ Read(c) \/ WriteRefused(c, slow) \/ AwaitReaders(c)
    BY <1>1 DEF fileVars, Read, WriteRefused, AwaitReaders
  <1>2. CASE \E contents : Write(c, contents)
    BY <1>2 DEF Write, MayWrite
  <1>3. CASE Commit(c) \/ Rollback(c)
    BY <1>3 DEF Commit, Rollback
  <1>. QED
    BY <1>1, <1>2, <1>3 DEF Statement

\* The file changes only when a writer commits, and then to what it has made.
LEMMA OnlyCommits ==
    ASSUME NEW c \in Connections, NEW slow, Statement(c, slow)
    PROVE  db' = db \/ (Commit(c) /\ Writer(c) /\ db' = work)
  <1>1. CASE UNCHANGED fileVars \/ Read(c) \/ WriteRefused(c, slow) \/ AwaitReaders(c)
    BY <1>1 DEF fileVars, Read, WriteRefused, AwaitReaders
  <1>2. CASE (\E contents : Write(c, contents)) \/ Rollback(c)
    BY <1>2 DEF Write, Rollback
  <1>3. CASE Commit(c)
    BY <1>3 DEF Commit
  <1>. QED
    BY <1>1, <1>2, <1>3 DEF Statement

(***************************************************************************)
(* Neither a transaction that has written nor one that has read sees the   *)
(* file change under it.                                                   *)
(***************************************************************************)
LEMMA OthersIsolated ==
    ASSUME LocksOK, NEW c \in Connections, NEW slow, Statement(c, slow),
           NEW d \in Connections \ {c}
    PROVE  /\ Writer(d) => db' = db /\ work' = work
           /\ tx[d] = "shared" => db' = db
  <1>. USE DEF LocksOK, OneWriter, Writer
  <1>1. CASE UNCHANGED fileVars \/ Read(c) \/ WriteRefused(c, slow) \/ AwaitReaders(c)
    BY <1>1 DEF fileVars, Read, WriteRefused, AwaitReaders
  <1>2. CASE \E contents : Write(c, contents)
    BY <1>2 DEF Write, MayWrite
  <1>3. CASE Commit(c)
    BY <1>3 DEF Commit, OthersRead
  <1>4. CASE Rollback(c)
    BY <1>4 DEF Rollback
  <1>. QED
    BY <1>1, <1>2, <1>3, <1>4 DEF Statement

(***************************************************************************)
(* What a writer has before it is what it had, over the same file, or what *)
(* it has just written.                                                    *)
(***************************************************************************)
LEMMA WriterMoves ==
    ASSUME LocksOK, NEW c \in Connections, NEW slow, Statement(c, slow),
           NEW d \in Connections, Writer(d)'
    PROVE  \/ Writer(d) /\ work' = work /\ db' = db
           \/ d = c /\ \E contents : Write(c, contents)
  <1>1. CASE d # c
    BY <1>1, LocksKept, OthersIsolated DEF Writer
  <1>2. CASE d = c
    <2>. USE DEF LocksOK, Writer
    <2>1. CASE UNCHANGED fileVars \/ Read(c) \/ AwaitReaders(c)
      BY <1>2, <2>1 DEF fileVars, Read, AwaitReaders
    <2>2. CASE WriteRefused(c, slow)
      BY <1>2, <2>2 DEF WriteRefused, LockedOut
    <2>3. CASE \E contents : Write(c, contents)
      BY <1>2, <2>3
    <2>4. CASE Commit(c) \/ Rollback(c)
      BY <1>2, <2>4 DEF Commit, Rollback
    <2>. QED
      BY <2>1, <2>2, <2>3, <2>4 DEF Statement
  <1>. QED
    BY <1>1, <1>2

\* A writer gone, however it went, the next one begins from the file.
LEMMA ContentsKept ==
    ASSUME NEW S, db \in S, work \in S, NEW c \in Connections, NEW slow,
           \/ UNCHANGED fileVars
           \/ Read(c)
           \/ WriteRefused(c, slow)
           \/ \E contents \in S : Write(c, contents)
           \/ Commit(c)
           \/ AwaitReaders(c)
           \/ Rollback(c)
    PROVE  db' \in S /\ work' \in S
  BY DEF fileVars, Read, WriteRefused, Write, Commit, AwaitReaders, Rollback

=============================================================================
