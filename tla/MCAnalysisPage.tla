---------------------------- MODULE MCAnalysisPage ----------------------------
(***************************************************************************)
(* A small instance of AnalysisPage: two scopes, one of which may come     *)
(* before the other in the list, and two past runs, one with two           *)
(* candidates.                                                             *)
(***************************************************************************)
EXTENDS AnalysisPage

MCCandidates == {"c1", "c2", "c3"}

MCRunOf == [c \in MCCandidates |-> IF c = "c3" THEN "second" ELSE "first"]

Status(s1, s2, s3) ==
    [c \in MCCandidates |-> CASE c = "c1" -> s1 [] c = "c2" -> s2 [] OTHER -> s3]

Visit(loaded, scopes, scans, panels, status) ==
    [loaded |-> loaded, available |-> scopes, scans |-> scans, panels |-> panels,
     statuses |-> status]

\* A scan on a page just opened, three on one that has loaded, or two or three clicks
\* among the candidates.
MCVisits ==
    LET quiet == Status("pending", "pending", "pending") IN
    {Visit(FALSE, {}, 1, 0, quiet), Visit(FALSE, {2}, 1, 0, quiet), Visit(TRUE, {1, 2}, 3, 0, quiet),
     Visit(TRUE, {1, 2}, 0, 3, quiet),
     Visit(TRUE, {1, 2}, 0, 2, Status("investigating", "investigating", "investigated"))}

=============================================================================
