------------------------------- MODULE PageFeed -------------------------------
(***************************************************************************)
(* What a read of a paginated collection promises to whoever asked for it, *)
(* whatever the network does: pages come in the order of the collection,   *)
(* none is skipped, and the verdict does not say more than what came.      *)
(*                                                                         *)
(* A collection is a function from pages to what they hold and where they  *)
(* link to; PageWalk is shown to implement this.                           *)
(***************************************************************************)
EXTENDS Naturals, Sequences

CONSTANTS
    Pages,       \* the names of pages, which are what links say
    FirstPage,   \* the page of the URL a read begins with
    NoPage,      \* a page that links nowhere is the last one
    Collections, \* the collections a cluster may hold
    NoCount      \* a read that is not limited to a number of records

VARIABLES
    collection,  \* what is read
    count,       \* how many records were asked for
    pages,       \* the pages that arrived, in their order
    given,       \* how many of their records are kept
    verdict      \* "open" while the read goes on

feedVars == <<collection, count, pages, given, verdict>>

Verdicts == {"open", "whole", "partial", "nothing", "lost"}

\* Where the last of some pages links to.
After(came) == collection[came[Len(came)]].next

NextPage == IF pages = <<>> THEN FirstPage ELSE After(pages)

Enough(number) == count # NoCount /\ number >= count

\* A page adds its records, as far as they are wanted.
Counted(page) ==
    LET number == given + Len(collection[page].records)
    IN  IF Enough(number) THEN count ELSE number

FeedInit ==
    /\ collection \in Collections
    /\ count \in Nat \cup {NoCount}
    /\ pages = <<>>
    /\ given = 0
    /\ verdict = "open"

\* What may be said of the pages that have come.
Fair(said, came, kept) ==
    /\ said = "whole" => came # <<>> /\ (Enough(kept) \/ After(came) = NoPage)
    /\ said = "partial" => came # <<>> /\ ~Enough(kept)
    /\ said = "nothing" => kept = 0

\* The next page comes, unless there is enough, and may be the last.
Gather ==
    /\ verdict = "open"
    /\ pages = <<>> \/ ~Enough(given)
    /\ NextPage \in Pages
    /\ pages' = Append(pages, NextPage)
    /\ given' = Counted(NextPage)
    /\ verdict' \in Verdicts
    /\ Fair(verdict', pages', given')
    /\ UNCHANGED <<collection, count>>

\* No more pages are read.
Close ==
    /\ verdict = "open"
    /\ verdict' \in Verdicts
    /\ Fair(verdict', pages, given)
    /\ UNCHANGED <<collection, count, pages, given>>

Feed == FeedInit /\ [][Gather \/ Close]_feedVars

=============================================================================
