---------------------------- MODULE MCIngestion ----------------------------
(***************************************************************************)
(* Small instances of Ingestion: one cluster, two events, two names.       *)
(***************************************************************************)
EXTENDS Ingestion

Storm == <<"disk", "disk">>
Overlapping == <<"fan", "disk">>
Unreadable == <<"fan", "fan">>

MCContents == {Storm, Overlapping, Unreadable}
MCBadContents == {Unreadable}

Log == [of |-> "log", cluster |-> NoCluster]
Bundle(stem) == [of |-> stem, cluster |-> "cl"]

Empty == <<>>

\* Two bundles of one cluster that overlap; the first is registered.
TwoBundles == Bundle("one") :> Overlapping @@ Bundle("two") :> Storm
OneRegistered == <<[name |-> Bundle("one"), content |-> Overlapping, cluster |-> "cl",
                    status |-> "pending", count |-> 0, short |-> FALSE]>>

Upload(name, content, cluster) ==
    [kind |-> "upload", name |-> name, content |-> content, cluster |-> cluster]
Fetch(content) == [kind |-> "fetch", cluster |-> "cl", content |-> content]
Drop1(content) == [kind |-> "drop", name |-> Bundle("one"), content |-> content]
Scan == [kind |-> "scan"]
Cli == [kind |-> "cli"]
Ingest(files) == [kind |-> "ingest_pending", files |-> files]

\* Everything that overlaps in what it brings for one cluster: an upload whose
\* name is taken, a fetch, scans and ingestions, a copy over a file that is known.
AllOperations ==
    {Upload(Bundle("two"), Overlapping, NoCluster), Fetch(Overlapping), Drop1(Unreadable),
     Scan, Ingest({1}), Ingest({2})}

\* An upload while somebody scans the directory.
ScanOperations == {Upload(Log, Storm, NoCluster), Scan, Cli}

Interchangeable == Permutations(Connections)

=============================================================================
