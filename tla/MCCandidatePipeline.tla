-------------------------- MODULE MCCandidatePipeline --------------------------
(***************************************************************************)
(* Small instances of CandidatePipeline: three connections, and what their *)
(* clients ask for.                                                        *)
(***************************************************************************)
EXTENDS CandidatePipeline

Ask(kind, c) == [kind |-> kind, candidate |-> c]
Dismissal(i, scope) == [kind |-> "dismiss", finding |-> i, scope |-> scope]

MCNodes == {}
MCPatterns == {"disk"}

Row(node, status, c) ==
    [sig |-> compute_signature("disk", node), status |-> status, cand |-> c, rev |-> 0]

Clients(first, second, third) ==
    [r \in Connections |-> CASE r = "r1" -> first [] r = "r2" -> second [] r = "r3" -> third]

\* Three investigations that may reach the same finding; two clicks on one
\* candidate, and a third; two investigations and somebody who dismisses what
\* one of them finds; an investigation among dismissals.
MCWorkloads ==
    {Clients(Ask("investigate", "c1"), Ask("investigate", "c2"), Ask("investigate", "c3")),
     Clients(Ask("investigate", "c1"), Ask("investigate", "c1"), Ask("discard", "c1")),
     Clients(Ask("investigate", "c1"), Ask("investigate", "c2"), Dismissal(2, "global")),
     Clients(Ask("investigate", "c1"), Dismissal(1, "node"), Dismissal(2, "global"))}

\* Two investigations, and nobody else.
TwoInvestigations ==
    {[r \in Connections |-> Ask("investigate", IF r = "r1" THEN "c1" ELSE "c2")]}

\* The third task makes no calls, and so it stores nothing.
MCToolCalls == [r \in Connections |-> CASE r = "r1" -> 2 [] r = "r2" -> 1 [] OTHER -> 0]
MCResults == [r \in Connections |-> IF r = "r3" THEN 0 ELSE 1]

OneEach == [r \in Connections |-> 1]
TwoEach == [r \in Connections |-> 2]

NoFindings == <<>>
OneFinding == <<Row(NoNode, "partial", "c2")>>

=============================================================================
