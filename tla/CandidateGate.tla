----------------------------- MODULE CandidateGate -----------------------------
(***************************************************************************)
(* What the human gate promises, as if requests and investigations were    *)
(* carried out one at a time: a candidate is decided once, an              *)
(* investigation leaves all of its results or none, what it leaves is not  *)
(* open already and was not dismissed, and a dismissal marks the finding   *)
(* and is remembered in the same step.                                     *)
(***************************************************************************)
EXTENDS Findings

CONSTANTS Candidates, FirstFindings

VARIABLES status, findings, feedback

vars == <<status, findings, feedback>>

Init ==
    /\ status = [c \in Candidates |-> "pending"]
    /\ findings = FirstFindings
    /\ feedback = {}

Accept(c) ==
    /\ status[c] = "pending"
    /\ status' = [status EXCEPT ![c] = "investigating"]
    /\ UNCHANGED <<findings, feedback>>

Discard(c) ==
    /\ status[c] = "pending"
    /\ status' = [status EXCEPT ![c] = "discarded"]
    /\ UNCHANGED <<findings, feedback>>

\* The rows added, all of candidate c.
Conclude(c) ==
    /\ status[c] = "investigating"
    /\ status' = [status EXCEPT ![c] = "investigated"]
    /\ Len(findings') >= Len(findings)
    /\ \A i \in DOMAIN findings : findings'[i] = findings[i]
    /\ \A i \in DOMAIN findings' \ DOMAIN findings :
          /\ findings'[i].cand = c
          /\ findings'[i].status \in {"open", "partial"} =>
                ~check_suppression(feedback, findings'[i].sig)
    /\ OneOpenPerSignature(findings')
    /\ UNCHANGED feedback

Dismiss(i, scope) ==
    /\ findings[i].status # "no_issue"
    /\ findings' = dismiss(findings, i)
    /\ feedback' = insert_feedback(feedback, findings[i].sig, scope)
    /\ UNCHANGED status

Next ==
    \/ \E c \in Candidates : Accept(c) \/ Discard(c) \/ Conclude(c)
    \/ \E i \in DOMAIN findings, scope \in Scopes : Dismiss(i, scope)

Spec == Init /\ [][Next]_vars

=============================================================================
