----------------------------- MODULE ClusterState -----------------------------
(***************************************************************************)
(* What src/app/ontap/cluster_state.py makes of the records a state read   *)
(* brought: counts of all of them, a list of a few, and a note when the    *)
(* read stopped early; and the get_cluster_state tool that asks for it.    *)
(***************************************************************************)
EXTENDS PageWalk, FiniteSets

CONSTANTS
    MAX_LISTED_ITEMS,
    NoPercentage  \* None: a space or a size that is not known

Areas == {"aggregates", "disks", "ha", "volumes"}

UNHEALTHY_DISK_STATES == {"broken", "maintenance", "pending", "reconstructing", "removed", "unfail"}

ASSUME ListAssumption == MAX_LISTED_ITEMS \in Nat \ {0}
ASSUME AreasAssumption == \A r \in Reads : r.kind = "state" => r.area \in Areas

\* What a cluster holds is finite, and its sizes are numbers of bytes.
ASSUME RecordsAssumption ==
    /\ IsFiniteSet(Pages)
    /\ NoPercentage \notin Int
    /\ \A c \in Collections : \A p \in Pages : \A i \in DOMAIN c[p].records :
          {c[p].records[i].used, c[p].records[i].size} \subseteq Nat \cup {NoPercentage}

\* Tenths of a percent, rounded; a size of zero has no percentage.
_pct(record) ==
    IF record.used = NoPercentage \/ record.size \in {NoPercentage, 0}
    THEN NoPercentage
    ELSE (2000 * record.used + record.size) \div (2 * record.size)

\* The place of a record in the order "fullest first": None is below zero.
Fullness(record) == IF _pct(record) = NoPercentage THEN -1 ELSE _pct(record)

\* The records a summary of an area is about.
Matching(area, record) ==
    CASE area = "disks" -> record.state \in UNHEALTHY_DISK_STATES
      [] area = "volumes" -> record.state # "online" \/ Fullness(record) >= 900
      [] OTHER -> TRUE

-----------------------------------------------------------------------------
(* What was read.                                                          *)

\* Every record of every page, by the page it came with and its place there.
Items == UNION {{k} \X DOMAIN collection[pages[k]].records : k \in DOMAIN pages}

Record(item) == collection[pages[item[1]]].records[item[2]]

Earlier(a, b) == a[1] < b[1] \/ (a[1] = b[1] /\ a[2] < b[2])

\* Aggregates and volumes come fullest first; what ties stays as it came.
First(area, a, b) ==
    LET full == Fullness(Record(a))
        less == Fullness(Record(b))
    IN  IF area \in {"aggregates", "volumes"} /\ full # less THEN full > less ELSE Earlier(a, b)

FaultyListed(area, matching) ==
    {a \in matching : Cardinality({b \in matching : Earlier(b, a)}) < MAX_LISTED_ITEMS}

\* The first few of a list, in its order; every node is listed.
Listed(area, matching) ==
    IF area = "ha" THEN matching
    ELSE {a \in matching : Cardinality({b \in matching : First(area, b, a)}) < MAX_LISTED_ITEMS}

States == {Record(item).state : item \in Items}

Summary(area) ==
    LET matching == {item \in Items : Matching(area, Record(item))}
    IN  [count |-> Cardinality(Items),
         by_state |-> [s \in States |-> Cardinality({item \in Items : Record(item).state = s})],
         matching_count |-> Cardinality(matching),
         listed |-> Listed(area, matching)]

_unavailable == [available |-> FALSE]

\* A partial answer is an answer, with a note; a read that is lost has raised,
\* and gives the model none.
get_cluster_state ==
    IF verdict = "nothing" THEN _unavailable
    ELSE [available |-> TRUE, incomplete |-> verdict = "partial",
          summary |-> Summary(read.area)]

-----------------------------------------------------------------------------
Closed(S) == FirstPage \in S /\ \A p \in S : collection[p].next \in S \cup {NoPage}

\* The pages that a chain of links from the first one reaches.
Reached == {p \in Pages : \A S \in SUBSET Pages : Closed(S) => p \in S}

\* Every record of those pages, by its page and its place there.
Held == UNION {{p} \X DOMAIN collection[p].records : p \in Reached}

HeldRecord(place) == collection[place[1]].records[place[2]]

(***************************************************************************)
(* A read that does not raise tells the model no number that is not true:  *)
(* of a complete read the counts are those of the whole collection,        *)
(* however its pages were cut; of one that stopped early they are a lower  *)
(* bound, unless a page links back to the first one; a list that was cut   *)
(* holds the fullest, and a count next to it says so; and a cluster that   *)
(* did not answer, or may not be asked, is no empty cluster.               *)
(***************************************************************************)
CountsAreHonest ==
    verdict \notin {"open", "lost"} /\ read.kind = "state" =>
        LET answer  == get_cluster_state
            summary == answer.summary
            wanted  == {place \in Held : Matching(read.area, HeldRecord(place))}
            cut     == summary.matching_count - Cardinality(summary.listed)
        IN  /\ ~(read.valid_host /\ read.credentials) \/ pages = <<>> => ~answer.available
            /\ answer.available /\ ~answer.incomplete =>
                  /\ summary.count = Cardinality(Held)
                  /\ summary.matching_count = Cardinality(wanted)
                  /\ \A s \in DOMAIN summary.by_state :
                        summary.by_state[s] = Cardinality({place \in Held : HeldRecord(place).state = s})
            /\ answer.available /\ answer.incomplete
                  /\ (\A p \in Reached : collection[p].next # FirstPage) =>
                  /\ summary.count <= Cardinality(Held)
                  /\ summary.matching_count <= Cardinality(wanted)
            /\ answer.available /\ cut > 0 => Cardinality(summary.listed) = MAX_LISTED_ITEMS
            /\ answer.available /\ read.area \in {"aggregates", "volumes"} =>
                  \A item \in Items \ summary.listed :
                      Matching(read.area, Record(item)) =>
                          \A kept \in summary.listed :
                              Fullness(Record(item)) <= Fullness(Record(kept))

=============================================================================
