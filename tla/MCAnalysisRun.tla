---------------------------- MODULE MCAnalysisRun ----------------------------
(***************************************************************************)
(* Small instances of AnalysisRun: one cluster, one signature, files of    *)
(* one event, a window of one unit.                                        *)
(***************************************************************************)
EXTENDS AnalysisRun, TLC

MCPatterns == {"disk"}
MCNodes == {}

Disk == compute_signature("disk", NoNode)

Pull(times) == [cluster |-> "cl", times |-> times,
                pulled |-> IF times = {} THEN 0 ELSE 1]

Proposal(kind) == [sig |-> Disk, kind |-> kind]

AnalyzeRecent(mode) == [kind |-> "analyze", mode |-> mode, cluster |-> "cl"]
AnalyzeFile(i) == [kind |-> "analyze", mode |-> "file", file |-> i]
IngestPull(times) == [kind |-> "ingest", cluster |-> "cl", times |-> times]
IngestAgain1(times) == [kind |-> "ingest_again", file |-> 1, times |-> times]
DismissFirst == [kind |-> "dismiss", finding |-> 1, scope |-> "node"]
InvestigateDisk == [kind |-> "investigate", sig |-> Disk]

OneFile == {<<Pull({0})>>}

\* Nothing at all, and two files of which the second brought nothing new.
NoneOrTwoFiles == {<<>>, <<Pull({0}), Pull({})>>}
OpenDisk == <<[sig |-> Disk, status |-> "open", cand |-> "earlier", rev |-> 0]>>
NoFinding == <<>>

\* Scans of files, old and new, among ingestions of others and of the first one
\* again (which adds an event, and then nothing), investigations and dismissals.
FileOperations ==
    {AnalyzeFile(1), AnalyzeFile(2), AnalyzeRecent("recent_pull"),
     IngestPull({1}), IngestAgain1({1}), DismissFirst, InvestigateDisk}

\* Scans of the sliding window.
WindowOperations == {AnalyzeRecent("last_24h"), IngestPull({2})}

NothingFound == {<<>>}
SomeReplies ==
    {<<>>, <<Proposal("unresolved"), Proposal("valid")>>,
     <<Proposal("valid"), Proposal("bad_row")>>}

Interchangeable == Permutations(Connections)

=============================================================================
