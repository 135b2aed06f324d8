------------------------------ MODULE Findings ------------------------------
(***************************************************************************)
(* The findings and feedback tables and the operations the rest of the     *)
(* system performs on them: src/app/agent/findings.py (signatures, the     *)
(* three ways a result is stored), src/app/db/repo_findings.py and         *)
(* src/app/db/repo_feedback.py.  A module of operators: it has no state.   *)
(*                                                                         *)
(* `findings` is the sequence of finding rows in id order; `feedback` is   *)
(* the set of dismissal rows.                                              *)
(***************************************************************************)
EXTENDS Naturals, Sequences

CONSTANTS
    Patterns,       \* a category together with a set of event names
    Nodes,          \* node names that are non-empty strings
    NoNode,         \* the node column is NULL
    EmptyNode       \* the node column is the empty string

ASSUME NodesAssumption == NoNode \notin Nodes /\ EmptyNode \notin Nodes

NodeNames == Nodes \cup {NoNode, EmptyNode}

(***************************************************************************)
(* compute_pattern_signature hashes the category and the sorted, distinct  *)
(* event names, which is what a member of Patterns is; compute_signature   *)
(* adds `node or ''`, so a missing node and an empty one are the same.     *)
(* SHA-256 is taken to be injective.                                       *)
(***************************************************************************)
Signatures == [pattern : Patterns, node : Nodes \cup {NoNode}]

compute_signature(pattern, node) ==
    [pattern |-> pattern, node |-> IF node \in Nodes THEN node ELSE NoNode]

FindingStatus == {"open", "partial", "no_issue", "dismissed"}

Scopes == {"node", "global"}

\* A feedback row names the finding it came from only for display.
FeedbackRows == [sig : Signatures, scope : Scopes]

\* A dismissal suppresses its own signature, or at global scope its pattern.
check_suppression(feedback, sig) ==
    \E row \in feedback :
        \/ row.scope = "node" /\ row.sig = sig
        \/ row.scope = "global" /\ row.sig.pattern = sig.pattern

find_open_by_signature(findings, sig) ==
    \E i \in DOMAIN findings :
        findings[i].sig = sig /\ findings[i].status = "open"

\* Variants named Faulty... are plausible mistakes in the definition that
\* follows; the README says which property rejects which.
FaultyUnchecked(findings, feedback, sig) == check_suppression(feedback, sig)

\* The two checks persist_hypothesis and persist_partial make before writing.
Blocked(findings, feedback, sig) ==
    \/ check_suppression(feedback, sig)
    \/ find_open_by_signature(findings, sig)

(***************************************************************************)
(* insert_finding with the status each caller gives it, and the candidate  *)
(* and the hypothesis revision the row was made from.                      *)
(***************************************************************************)
insert_finding(findings, sig, status, cand, rev) ==
    Append(findings, [sig |-> sig, status |-> status, cand |-> cand, rev |-> rev])

dismiss(findings, i) == [findings EXCEPT ![i].status = "dismissed"]

insert_feedback(feedback, sig, scope) ==
    feedback \cup {[sig |-> sig, scope |-> scope]}

-----------------------------------------------------------------------------
(***************************************************************************)
(* At most one open finding per signature.  Written for any table, so that *)
(* it can be stated of the committed rows and of a writer's own view.      *)
(***************************************************************************)
OneOpenPerSignature(findings) ==
    \A i, j \in DOMAIN findings :
        /\ findings[i].status = "open"
        /\ findings[j].status = "open"
        /\ findings[i].sig = findings[j].sig
        => i = j

=============================================================================
