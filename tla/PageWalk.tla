------------------------------- MODULE PageWalk -------------------------------
(***************************************************************************)
(* The two reads the system makes of a cluster's REST API: the event fetch *)
(* of src/app/ontap/client.py (fetch_ems_events, as routes_clusters.py     *)
(* consumes it), and the state read of src/app/ontap/cluster_state.py      *)
(* (_get_all), one GET at a time, each with the retries of its session.    *)
(*                                                                         *)
(* The network and the cluster are the environment: a request may be       *)
(* dropped, answered with a status that is retried, with one that is not,  *)
(* with a body that is no page, or with a page.  Links are arbitrary.      *)
(***************************************************************************)
EXTENDS Integers, Sequences

CONSTANTS
    Pages, FirstPage, NoPage, Collections, NoCount,  \* see PageFeed
    Reads,          \* what may be read
    RETRIES_TOTAL,  \* total: how often one GET is sent again
    RETRIES_STATUS  \* status: how often because of the status it was answered with

(***************************************************************************)
(* A read: of the events or of the state, from a host a GET may be sent to *)
(* or not, with credentials or without, limited to a number of records or  *)
(* not.  The count of a fetch is the caller's; a state read has none.      *)
(***************************************************************************)
Kinds == {"fetch", "state"}

ASSUME PagesAssumption == FirstPage \in Pages /\ NoPage \notin Pages
ASSUME CollectionsAssumption ==
    \A c \in Collections : \A p \in Pages :
        /\ Len(c[p].records) \in Nat /\ DOMAIN c[p].records = 1..Len(c[p].records)
        /\ c[p].next \in Pages \cup {NoPage}
ASSUME ReadsAssumption ==
    /\ NoCount \notin Int
    /\ \A r \in Reads :
          /\ r.kind \in Kinds
          /\ r.count \in Nat \cup {NoCount}
          /\ r.kind = "state" <=> r.count = NoCount
          /\ {r.valid_host, r.credentials} \subseteq BOOLEAN
ASSUME RetriesAssumption == RETRIES_TOTAL \in Nat /\ RETRIES_STATUS \in Nat

VARIABLES
    collection,   \* what the cluster holds, page by page
    read,         \* what is read
    phase,        \* "idle", "asking" or "done"
    url,          \* the page of the current GET
    order_by,     \* the order it asks for, if any
    left,         \* the retries it has left
    pages,        \* the pages that arrived
    visited,      \* the links that were followed
    yielded,      \* records kept
    verdict       \* what came of the read

vars == <<collection, read, phase, url, order_by, left, pages,
          visited, yielded, verdict>>

world == <<collection, read>>

AllRetries == [total |-> RETRIES_TOTAL, status |-> RETRIES_STATUS]

Init ==
    /\ collection \in Collections
    /\ read \in Reads
    /\ phase = "idle"
    /\ url = FirstPage
    /\ order_by = "none"
    /\ left = AllRetries
    /\ pages = <<>>
    /\ visited = {}
    /\ yielded = 0
    /\ verdict = "open"

End(said) == phase' = "done" /\ verdict' = said

\* An OntapClientError: what has arrived is kept; if nothing has, there is
\* nothing to say.
Failure ==
    IF read.kind = "state"
    THEN IF pages = <<>> THEN "nothing" ELSE "partial"
    ELSE IF yielded = 0 THEN "nothing" ELSE "partial"

\* A read that may not be made never reaches the network.
Begin ==
    /\ phase = "idle"
    /\ order_by' = IF read.kind = "fetch" THEN "time_desc" ELSE "none"
    /\ IF read.valid_host /\ read.credentials
       THEN phase' = "asking" /\ UNCHANGED verdict
       ELSE End("nothing")
    /\ UNCHANGED <<world, url, left, pages, visited, yielded>>

-----------------------------------------------------------------------------
(* One GET.  The session sends it again, up to a total; a status that is   *)
(* retried is returned when its own number is used up.                     *)

FaultyAgain(reason) ==
    IF reason = "status"
    THEN [total |-> RETRIES_TOTAL, status |-> left.status - 1]
    ELSE [total |-> left.total - 1, status |-> RETRIES_STATUS]

\* What is left when the GET is sent again because of a dropped connection or
\* of a status.
Again(reason) ==
    [total |-> left.total - 1,
     status |-> IF reason = "status" THEN left.status - 1 ELSE left.status]

MayRetry(reason) == left.total > 0 /\ (reason = "status" => left.status > 0)

Retry(reason) ==
    /\ phase = "asking"
    /\ MayRetry(reason)
    /\ left' = Again(reason)
    /\ UNCHANGED <<world, phase, url, order_by, pages, visited, yielded, verdict>>

\* The connection is dropped or times out, or the status is 429, 500, 502, 503
\* or 504, and no retries are left.
GiveUp(reason) ==
    /\ phase = "asking"
    /\ ~MayRetry(reason)
    /\ End(Failure)
    /\ UNCHANGED <<world, url, order_by, left, pages, visited, yielded>>

\* A status that is not retried.
Rejected ==
    /\ phase = "asking"
    /\ End(Failure)
    /\ UNCHANGED <<world, url, order_by, left, pages, visited, yielded>>

\* 400 to a first GET that asks for an order: it is sent without.
OrderRejected ==
    /\ phase = "asking"
    /\ order_by = "time_desc"
    /\ order_by' = "none"
    /\ left' = AllRetries
    /\ UNCHANGED <<world, phase, url, pages, visited, yielded, verdict>>

\* A body that is no JSON is an OntapClientError in a state read; from a fetch
\* the ValueError escapes, and the route removes the file.
NotJson ==
    /\ phase = "asking"
    /\ End(IF read.kind = "state" THEN Failure ELSE "lost")
    /\ UNCHANGED <<world, url, order_by, left, pages, visited, yielded>>

\* JSON that is no object has no get: the AttributeError is no OntapClientError
\* and escapes from both reads, with whatever had arrived.
NotAnObject ==
    /\ phase = "asking"
    /\ End("lost")
    /\ UNCHANGED <<world, url, order_by, left, pages, visited, yielded>>

-----------------------------------------------------------------------------
(* A page.                                                                 *)

FaultyEnough(number) == read.count # NoCount /\ number > read.count

Enough(number) == read.count # NoCount /\ number >= read.count

\* Records are kept until there are enough.
Yield(page) ==
    LET number == yielded + Len(collection[page].records)
    IN  IF Enough(number) THEN read.count ELSE number

Repeated(link) == read.kind = "state" /\ link \in visited

\* The next link is followed, with all its retries.
Follow(link) ==
    /\ url' = link
    /\ left' = AllRetries
    /\ visited' = IF read.kind = "state" THEN visited \cup {link} ELSE visited
    /\ UNCHANGED <<phase, verdict>>

\* A fetch that brings nothing is refused.
Complete(kept) == IF read.kind = "fetch" /\ kept = 0 THEN "nothing" ELSE "whole"

Arrive ==
    /\ phase = "asking"
    /\ pages' = Append(pages, url)
    /\ yielded' = Yield(url)
    /\ order_by' = "none"
    /\ LET link == collection[url].next IN
       \/ /\ Enough(yielded') \/ link = NoPage
          /\ End(Complete(yielded'))
          /\ UNCHANGED <<url, left, visited>>
       \/ /\ ~Enough(yielded') /\ link # NoPage /\ Repeated(link)
          /\ End("partial")
          /\ UNCHANGED <<url, left, visited>>
       \/ /\ ~Enough(yielded') /\ link # NoPage /\ ~Repeated(link)
          /\ Follow(link)
    /\ UNCHANGED world

Answered ==
    \/ \E reason \in {"connection", "status"} : Retry(reason) \/ GiveUp(reason)
    \/ Rejected
    \/ OrderRejected
    \/ NotJson
    \/ NotAnObject
    \/ Arrive

Next == Begin \/ Answered

Spec == Init /\ [][Next]_vars

\* A request that was sent is answered, or times out.
FairSpec == Spec /\ WF_vars(Next)

-----------------------------------------------------------------------------
(* Properties.                                                             *)

TypeOK ==
    /\ collection \in Collections
    /\ read \in Reads
    /\ phase \in {"idle", "asking", "done"}
    /\ url \in Pages
    /\ order_by \in {"none", "time_desc"}
    /\ left \in [total : 0..RETRIES_TOTAL, status : 0..RETRIES_STATUS]
    /\ pages \in Seq(Pages)
    /\ visited \in SUBSET Pages
    /\ yielded \in Nat
    /\ verdict \in {"open", "whole", "partial", "nothing", "lost"}
    /\ (verdict = "open") = (phase # "done")

(***************************************************************************)
(* Both reads are what PageFeed promises.                                  *)
(***************************************************************************)
F == INSTANCE PageFeed WITH count <- read.count, given <- yielded

ImplementsFeed == F!Feed

\* The links a state read followed are different links.
NoLinkTwice ==
    read.kind = "state" => \A j, k \in 2..Len(pages) : pages[j] = pages[k] => j = k

\* Pages that hold nothing link to each other, and nowhere else.
Endless ==
    \E S \in SUBSET Pages \ {{}} :
        \A p \in S : collection[p].records = <<>> /\ collection[p].next \in S

(***************************************************************************)
(* Every read ends, whatever a cluster links to and however often it hangs *)
(* up: the retries of a GET run out, a state read follows no link twice,   *)
(* and a fetch has its count, however few records a page brings and        *)
(* however often it comes round, or no next link (_retry_policy, _get_all, *)
(* fetch_ems_events).  Only a fetch from pages that hold nothing and link  *)
(* to each other is left out: nothing in the code ends it.                 *)
(***************************************************************************)
ReadsEnd == (read.kind = "state" \/ ~Endless) ~> (phase = "done")

=============================================================================
