------------------------------- MODULE MCCorpus -------------------------------
(***************************************************************************)
(* Small instances of Corpus: years of nine units, a handful of files that *)
(* arrive together, and bundles of two or three lines from every moment of *)
(* a leap cycle, dated from several distances.                             *)
(***************************************************************************)
EXTENDS Corpus

Line(shape, time, node, name, severity) ==
    [shape |-> shape, time |-> time, node |-> node, event_name |-> name,
     severity |-> severity, message |-> "m", text |-> ToString(<<time, node, name, severity>>)]

Json(time, node, name, severity) == Line("ems_text", time, node, name, severity)
Syslog(time) == Line("autosupport_ems", time, "n1", "a", "info")
Junk == Line("neither", NoTime, NoNode, "unparsed.line", NoSeverity)
Stack == Line("neither", NoTime, NoNode, "stack.trace", NoSeverity)

Fetch(cluster, floor, lines) ==
    [kind |-> "fetch", cluster |-> cluster, floor |-> floor, lines |-> lines,
     offset |-> 0, mtime |-> 60]

Upload(cluster, floor, offset, mtime, lines) ==
    [kind |-> "upload", cluster |-> cluster, floor |-> floor, lines |-> lines,
     offset |-> offset, mtime |-> mtime]

Bundle(lines, offset, mtime) == Upload(NoCluster, "all", offset, mtime, lines)

\* Two clusters with nodes of one name; a second fetch that overlaps the first;
\* an older log that comes late; a file that is half junk.
LogA == <<Json(50, "n1", "a", "notice"), Json(50, "n1", "a", "notice"),
          Json(51, "n2", "b", "alert"), Json(52, "n1", "a", "notice")>>
LogB == <<Json(50, "n1", "b", "error"), Json(51, "n1", "a", "notice"),
          Json(52, "n1", "a", "debug")>>
LaterA == LogA \o <<Json(53, "n1", "b", "error"), Json(53, "n1", "a", NoSeverity)>>
OlderA == <<Junk, Line("autosupport_ems", 48, "n1", "b", "Warning"), Junk,
            Line("autosupport_ems", 49, "n1", "a", "info"),
            Line("autosupport_ems", NoTime, "n1", "a", "odd"),
            Line("autosupport_ems", 52, "n2", "a", "alert")>>

Together ==
    {<<Fetch("A", NoSeverity, LogA), Fetch("B", "NOTICE", LogB)>>,
     <<Fetch("A", "notice", LogA), Fetch("A", "Warning", LaterA)>>,
     <<Fetch("A", "all", LaterA), Upload("A", "Info", 0, 55, OlderA)>>,
     <<Upload("A", "notice", 1, 55, OlderA), Fetch("A", "info", LogA), Fetch("B", "odd", LogB)>>,
     <<Upload(NoCluster, "all", 0, 55, <<Junk, Junk, Json(50, "n1", "a", "info")>>),
       Upload(NoCluster, "all", 0, 55, <<Junk, Stack, Stack, Json(50, "n1", "a", "info")>>),
       Fetch("B", "emergency", LogB), Fetch("B", "critical", LaterA)>>}

\* How far a cluster's clock is off and how long after its newest line a bundle
\* was written, up to more than two years.
Distances == ({-1, 0, 1} \X {-1, 0, 9}) \cup {<<0, 21>>}

\* Bundles of two lines: from every moment of four years, out of order by no more
\* than the tolerance, near each other, or two thirds of a year and more apart.
Pairs ==
    {<<Bundle(<<Syslog(newest - gap), Syslog(newest)>>, d[1], newest + d[2])>> :
        newest \in 30..62, gap \in -2..2 \cup 6..10, d \in Distances}

\* Bundles of three lines around a New Year and around a leap day.
Triples ==
    {<<Bundle(<<Syslog(newest - gap - older), Junk, Syslog(newest - gap), Syslog(newest)>>,
              offset, newest + 1)>> :
        newest \in 48..54, gap \in -1..3, older \in -1..1 \cup 6..8, offset \in {0, 1}}

MCArrivals == Together \cup Pairs \cup Triples

MCRefLists == {<<1>>, <<2, 9, 1, 2>>}

\* Every field, alone or with another.
MCFilters ==
    {<<>>, [node |-> "n1"], [start_time |-> 51], [named |-> {"a"}],
     [named |-> {"a", "b"}, severity |-> "notice"], [node |-> "n1", end_time |-> 50]}

\* None, one, the ceiling and beyond; the ceiling of a context is two units.
MCLimits == 0..3
MCWindows == {0, 2, 3}

=============================================================================
