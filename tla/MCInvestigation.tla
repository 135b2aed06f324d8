--------------------------- MODULE MCInvestigation ---------------------------
(***************************************************************************)
(* Small instances of Investigation.  An answer holds at most two tool     *)
(* calls; the answers below are those the routers and persist_findings     *)
(* tell apart.                                                             *)
(***************************************************************************)
EXTENDS Investigation

Record(pattern, node, said) ==
    [tool |-> "record", pattern |-> pattern, node |-> node, said |-> said]

Conclude(outcome, summary) ==
    [tool |-> "conclude", outcome |-> outcome, summary |-> summary]

Evidence == [tool |-> "evidence"]

MCPatterns == {"disk", "ha", "off_enum"}
MCValidPatterns == {"disk", "ha"}
MCNodes == {"n1"}

MCTurns ==
    {<<>>,
     <<Evidence>>,
     <<Record("disk", "n1", "investigating")>>,
     <<Record("ha", "n1", "Ready")>>,
     <<Record("disk", "n1", "ready"), Record("disk", "n1", "ready")>>,
     <<Record("ha", NoNode, "investigating"), Record("ha", EmptyNode, "confirmed")>>,
     <<Record("off_enum", "n1", "ready"), Conclude("confirmed", TRUE)>>,
     <<Conclude("refuted", TRUE)>>,
     <<Record("disk", "n1", "investigating"), Conclude("refuted", FALSE)>>,
     <<Conclude("refuted", TRUE), Conclude("confirmed", TRUE)>>}

\* Two tables to start from: nothing, and an open finding with a dismissal.
DiskRow == [sig |-> compute_signature("disk", "n1"), status |-> "open",
            cand |-> "earlier", rev |-> 0]
HaEverywhere == [sig |-> compute_signature("ha", NoNode), scope |-> "global"]
HaOnNode == [sig |-> compute_signature("ha", NoNode), scope |-> "node"]

MCPriorFindings == {<<>>, <<DiskRow>>}
MCPriorFeedback == {{}, {HaEverywhere}, {HaOnNode}}

=============================================================================
