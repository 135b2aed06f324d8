------------------------------- MODULE Severity -------------------------------
(***************************************************************************)
(* src/app/severity.py: the rank of a severity, and a floor applied in the *)
(* two places it is applied: by the cluster, as a query over the names     *)
(* ONTAP knows, and locally, over whatever word a file holds.              *)
(***************************************************************************)
EXTENDS Integers, Sequences

CONSTANT
    NoSeverity   \* None: an event without a severity, or no floor at all

_RANKS ==
    [emergency |-> 0, alert |-> 1, critical |-> 2, error |-> 3, warning |-> 4,
     notice |-> 5, informational |-> 6, info |-> 6, debug |-> 7]

\* "warning" and "critical" are not in the enumeration of the REST API.
ONTAP_SEVERITIES == {"emergency", "alert", "error", "notice", "informational", "debug"}

_NO_FILTER == {"", "all", "any", "none"}

\* Words as somebody may write them, next to what strip() and lower() make of
\* them; every other word stands for itself.
Spellings == [NOTICE |-> "notice", Info |-> "info", Warning |-> "warning"]

Folded(word) == IF word \in DOMAIN Spellings THEN Spellings[word] ELSE word

Ranked(word) == word # NoSeverity /\ Folded(word) \in DOMAIN _RANKS

Rank(word) == _RANKS[Folded(word)]

canonical(word) == IF Folded(word) = "info" THEN "informational" ELSE Folded(word)

\* normalize_minimum raises on any other word.
LegalMinimum(word) == word = NoSeverity \/ Folded(word) \in _NO_FILTER \/ Ranked(word)

normalize_minimum(word) == IF Ranked(word) THEN canonical(word) ELSE NoSeverity

FaultyAtOrAbove(minimum) ==
    {name \in ONTAP_SEVERITIES : minimum = NoSeverity \/ Rank(name) < Rank(minimum)}

at_or_above(minimum) ==
    {name \in ONTAP_SEVERITIES : minimum = NoSeverity \/ Rank(name) <= Rank(minimum)}

\* A word nobody can rank is kept.
meets_minimum(word, minimum) ==
    minimum = NoSeverity \/ ~Ranked(word) \/ Rank(word) <= Rank(minimum)

=============================================================================
