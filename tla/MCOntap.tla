------------------------------- MODULE MCOntap --------------------------------
(***************************************************************************)
(* Small instances of ClusterState: collections of up to three pages, of   *)
(* every way in which three pages can link to each other, read as events   *)
(* or as the state of an area.                                             *)
(***************************************************************************)
EXTENDS ClusterState

Reported(state, used, size) == [state |-> state, used |-> used, size |-> size]

Online(used) == Reported("online", used, 10)
Offline == Reported("offline", NoPercentage, 10)

\* Volumes or aggregates: the fullest last, an unknown size in between.
Volumes == [first  |-> <<Online(1), Reported("online", 899, 1000)>>,
            second |-> <<Offline, Online(9)>>,
            third  |-> <<Online(10)>>]

\* Disks, with a page that holds none.
Disks == [first  |-> <<Reported("present", NoPercentage, 0)>>,
          second |-> <<>>,
          third  |-> <<Reported("broken", NoPercentage, 0), Reported("pending", NoPercentage, 0),
                       Reported("removed", NoPercentage, 0)>>]

\* Nothing at all.
Nothing == [first |-> <<>>, second |-> <<>>, third |-> <<>>]

MCPages == {"first", "second", "third"}

MCCollections ==
    {[p \in MCPages |-> [records |-> held[p], next |-> links[p]]] :
        held \in {Volumes, Disks, Nothing}, links \in [MCPages -> MCPages \cup {NoPage}]}

MCReads ==
    {[kind |-> "fetch", area |-> "events", count |-> count, valid_host |-> valid,
      credentials |-> TRUE] : count \in {0, 2, 3}, valid \in BOOLEAN}
    \cup
    {[kind |-> "state", area |-> area, count |-> NoCount, valid_host |-> TRUE,
      credentials |-> TRUE] : area \in Areas}
    \cup
    {[kind |-> "state", area |-> "ha", count |-> NoCount, valid_host |-> valid,
      credentials |-> ~valid] : valid \in BOOLEAN}

\* A fetch that nothing ends is followed for a few pages only: what ReadsEnd
\* says of every other read does not depend on it.
FewEmptyPages == read.kind = "fetch" /\ Endless => Len(pages) <= 4

=============================================================================
