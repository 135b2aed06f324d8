------------------------- MODULE ClusterState_proofs --------------------------
(***************************************************************************)
(* For every collection, every way its pages link to each other and every  *)
(* number of retries: a walk is what PageFeed promises, and a state read   *)
(* follows no link twice, and what is said of its records is true.         *)
(***************************************************************************)
EXTENDS ClusterState, FiniteSetTheorems, FunctionTheorems, WellFoundedInduction, TLAPS

USE DEF world, Kinds

\* What a walk knows of itself while it goes on.
Walking ==
    phase # "done" =>
        /\ url = (IF pages = <<>> THEN FirstPage ELSE collection[pages[Len(pages)]].next)
        /\ pages # <<>> => ~Enough(yielded)
        /\ phase = "idle" => pages = <<>>

\* Nothing is kept of a read of which nothing has come.
NothingFromNothing == pages = <<>> => yielded = 0

\* The set of visited links holds what was followed and what is asked for.
Tracked ==
    read.kind = "state" =>
        /\ \A k \in 2..Len(pages) : pages[k] \in visited
        /\ phase # "done" /\ pages # <<>> =>
              url \in visited /\ \A k \in 2..Len(pages) : pages[k] # url

Inv == TypeOK /\ Walking /\ NothingFromNothing /\ Tracked /\ NoLinkTwice

(***************************************************************************)
(* A GET that was not sent yet has retries left, of both sorts.            *)
(***************************************************************************)
LEMMA RetriesAreCounted ==
  AllRetries \in [total : 0..RETRIES_TOTAL, status : 0..RETRIES_STATUS]
  <1>1. RETRIES_TOTAL \in 0..RETRIES_TOTAL /\ RETRIES_STATUS \in 0..RETRIES_STATUS
    BY RetriesAssumption
  <1> QED
    BY <1>1 DEF AllRetries

(***************************************************************************)
(* The invariant holds at the beginning.                                   *)
(***************************************************************************)
LEMMA InvInit == Init => Inv
  <1> SUFFICES ASSUME Init PROVE Inv
    OBVIOUS
  <1>1. TypeOK
    BY PagesAssumption, RetriesAreCounted DEF Init, TypeOK
  <1>2. Walking /\ NothingFromNothing /\ Tracked /\ NoLinkTwice
    BY DEF Init, Walking, NothingFromNothing, Tracked, NoLinkTwice
  <1> QED
    BY <1>1, <1>2 DEF Inv

(***************************************************************************)
(* What one more page adds to what is kept.                                *)
(***************************************************************************)
LEMMA YieldIsNatural ==
  ASSUME Inv, NEW page \in Pages
  PROVE  Yield(page) \in Nat
  <1>1. read \in Reads /\ collection \in Collections /\ yielded \in Nat
    BY DEF Inv, TypeOK
  <1>2. Len(collection[page].records) \in Nat
    BY <1>1, CollectionsAssumption
  <1>3. read.count \in Nat \cup {NoCount}
    BY <1>1, ReadsAssumption
  <1> QED
    BY <1>1, <1>2, <1>3 DEF Yield, Enough

(***************************************************************************)
(* A step that ends a walk, or sends a request again, keeps the invariant. *)
(***************************************************************************)
LEMMA InvQuiet ==
  ASSUME Inv, Begin \/ (\E reason \in {"connection", "status"} : Retry(reason) \/ GiveUp(reason))
              \/ Rejected \/ OrderRejected \/ NotJson \/ NotAnObject
  PROVE  Inv'
  <1> USE DEF Inv, TypeOK, Walking, NothingFromNothing, Tracked, NoLinkTwice, Enough
  <1>1. CASE Begin
    BY <1>1 DEF Begin, End
  <1>2. ASSUME NEW reason \in {"connection", "status"}, Retry(reason)
        PROVE  Inv'
    <2>1. Again(reason) \in [total : 0..RETRIES_TOTAL, status : 0..RETRIES_STATUS]
      BY <1>2, RetriesAssumption DEF Retry, Again, MayRetry
    <2> QED
      BY <1>2, <2>1 DEF Retry
  <1>3. ASSUME NEW reason \in {"connection", "status"}, GiveUp(reason)
        PROVE  Inv'
    BY <1>3 DEF GiveUp, End, Failure
  <1>4. CASE Rejected
    BY <1>4 DEF Rejected, End, Failure
  <1>5. CASE OrderRejected
    <2>1. left' \in [total : 0..RETRIES_TOTAL, status : 0..RETRIES_STATUS]
      BY <1>5, RetriesAreCounted DEF OrderRejected
    <2> QED
      BY <1>5, <2>1 DEF OrderRejected
  <1>6. CASE NotJson
    BY <1>6 DEF NotJson, End, Failure
  <1>7. CASE NotAnObject
    BY <1>7 DEF NotAnObject, End
  <1> QED
    BY <1>1, <1>2, <1>3, <1>4, <1>5, <1>6, <1>7

(***************************************************************************)
(* A page that arrives is the last of the pages, and the others stay.      *)
(***************************************************************************)
LEMMA Appended ==
  ASSUME Inv, Arrive
  PROVE  /\ pages' \in Seq(Pages)
         /\ pages' # <<>>
         /\ Len(pages') = Len(pages) + 1
         /\ pages'[Len(pages')] = url
         /\ \A k \in 1..Len(pages) : pages'[k] = pages[k]
  BY DEF Inv, TypeOK, Arrive

(***************************************************************************)
(* A page that arrives keeps the invariant, whether it is the last or not. *)
(***************************************************************************)
LEMMA InvArrive ==
  ASSUME Inv, Arrive
  PROVE  Inv'
  <1> DEFINE link == collection[url].next
  <1>1. /\ url \in Pages
        /\ collection \in Collections /\ collection' = collection
        /\ read \in Reads /\ read' = read
        /\ phase = "asking"
        /\ visited \in SUBSET Pages
    BY DEF Inv, TypeOK, Arrive
  <1>2. link \in Pages \cup {NoPage}
    BY <1>1, CollectionsAssumption
  <1>3. yielded' \in Nat
    BY <1>1, YieldIsNatural DEF Arrive
  <1>4. CASE phase' = "done"
    <2>1. /\ verdict' \in {"whole", "partial", "nothing"}
          /\ url' = url /\ left' = left /\ visited' = visited
      BY <1>1, <1>4 DEF Arrive, End, Follow, Complete
    <2>2. TypeOK'
      BY <1>1, <1>3, <1>4, <2>1, Appended DEF Inv, TypeOK, Arrive
    <2>3. Walking' /\ NothingFromNothing'
      BY <1>4, Appended DEF Walking, NothingFromNothing
    <2>4. (Tracked /\ NoLinkTwice)'
      <3>1. ASSUME read.kind = "state", pages # <<>>
            PROVE  url \in visited /\ \A k \in 2..Len(pages) : pages[k] # url
        BY <1>1, <3>1 DEF Inv, Tracked
      <3>2. Len(pages) \in Nat /\ (pages = <<>> => Len(pages) = 0)
        BY DEF Inv, TypeOK
      <3>3. ASSUME read.kind = "state", NEW k \in 2..Len(pages')
            PROVE  pages'[k] \in visited'
        BY <1>1, <2>1, <3>1, <3>2, <3>3, Appended DEF Inv, Tracked
      <3>4. ASSUME read.kind = "state", NEW j \in 2..Len(pages'), NEW k \in 2..Len(pages'),
                   pages'[j] = pages'[k]
            PROVE  j = k
        BY <1>1, <3>1, <3>2, <3>4, Appended DEF Inv, NoLinkTwice
      <3> QED
        BY <1>1, <1>4, <3>3, <3>4 DEF Tracked, NoLinkTwice
    <2> QED
      BY <2>2, <2>3, <2>4 DEF Inv
  <1>5. CASE phase' # "done"
    <2>1. /\ ~Enough(yielded')
          /\ link # NoPage
          /\ ~Repeated(link)
          /\ url' = link
          /\ left' = AllRetries
          /\ visited' = IF read.kind = "state" THEN visited \cup {link} ELSE visited
          /\ phase' = phase /\ verdict' = verdict
      BY <1>1, <1>5 DEF Arrive, End, Follow
    <2>2. TypeOK'
      BY <1>1, <1>2, <1>3, <2>1, Appended, RetriesAreCounted
      DEF Inv, TypeOK, Arrive
    <2>3. Walking' /\ NothingFromNothing'
      BY <1>1, <2>1, Appended DEF Walking, NothingFromNothing, Enough
    <2>4. (Tracked /\ NoLinkTwice)'
      <3>1. ASSUME read.kind = "state", pages # <<>>
            PROVE  url \in visited /\ \A k \in 2..Len(pages) : pages[k] # url
        BY <1>1, <3>1 DEF Inv, Tracked
      <3>2. Len(pages) \in Nat /\ (pages = <<>> => Len(pages) = 0)
        BY DEF Inv, TypeOK
      <3>3. ASSUME read.kind = "state", NEW k \in 2..Len(pages')
            PROVE  pages'[k] \in visited
        BY <1>1, <3>1, <3>2, <3>3, Appended DEF Inv, Tracked
      <3>4. ASSUME read.kind = "state", NEW j \in 2..Len(pages'), NEW k \in 2..Len(pages'),
                   pages'[j] = pages'[k]
            PROVE  j = k
        BY <1>1, <3>1, <3>2, <3>4, Appended DEF Inv, NoLinkTwice
      <3>5. read.kind = "state" => link \notin visited
        BY <2>1 DEF Repeated
      <3> QED
        BY <1>1, <2>1, <3>3, <3>4, <3>5 DEF Tracked, NoLinkTwice
    <2> QED
      BY <2>2, <2>3, <2>4 DEF Inv
  <1> QED
    BY <1>4, <1>5

(***************************************************************************)
(* Every step keeps the invariant.                                         *)
(***************************************************************************)
LEMMA InvNext == Inv /\ [Next]_vars => Inv'
  <1> SUFFICES ASSUME Inv, [Next]_vars PROVE Inv'
    OBVIOUS
  <1>1. CASE UNCHANGED vars
    BY <1>1 DEF vars, Inv, TypeOK, Walking, NothingFromNothing, Tracked, NoLinkTwice, Enough
  <1>2. CASE Arrive
    BY <1>2, InvArrive
  <1>3. CASE Next /\ ~Arrive
    BY <1>3, InvQuiet DEF Next, Answered
  <1> QED
    BY <1>1, <1>2, <1>3

(***************************************************************************)
(* Every variable keeps its type (PageWalk).                               *)
(***************************************************************************)
THEOREM TypeCorrect == Spec => []TypeOK
  BY InvInit, InvNext, PTL DEF Spec, Inv

(***************************************************************************)
(* A state read follows no link twice, so that it ends on every cluster,   *)
(* however its links run (_get_all).                                       *)
(***************************************************************************)
THEOREM LinksAreFollowedOnce == Spec => []NoLinkTwice
  BY InvInit, InvNext, PTL DEF Spec, Inv

-----------------------------------------------------------------------------
(* Refinement.                                                             *)

(***************************************************************************)
(* A walk begins as a feed does.                                           *)
(***************************************************************************)
LEMMA FeedBegins == Init => F!FeedInit
  BY ReadsAssumption DEF Init, F!FeedInit

(***************************************************************************)
(* What a failure says of the pages that came is fair.                     *)
(***************************************************************************)
LEMMA FailureIsFair ==
  ASSUME Inv, phase = "asking"
  PROVE  Failure \in F!Verdicts /\ F!Fair(Failure, pages, yielded)
  <1>1. read \in Reads /\ (read.kind = "state" => read.count = NoCount)
    BY ReadsAssumption DEF Inv, TypeOK
  <1> QED
    BY <1>1 DEF Inv, Walking, NothingFromNothing, Failure, Enough, F!Verdicts, F!Fair, F!Enough

(***************************************************************************)
(* A page that arrives is the next one of the feed.                        *)
(***************************************************************************)
LEMMA ArriveGathers ==
  ASSUME Inv, Arrive
  PROVE  F!Gather
  <1>1. verdict = "open" /\ phase = "asking" /\ url \in Pages /\ read' = read
        /\ collection' = collection
    BY DEF Inv, TypeOK, Arrive
  <1>2. F!NextPage = url
    BY <1>1 DEF Inv, Walking, F!NextPage, F!After
  <1>3. pages = <<>> \/ ~F!Enough(yielded)
    BY <1>1 DEF Inv, Walking, Enough, F!Enough
  <1>4. yielded' = F!Counted(F!NextPage)
    BY <1>2 DEF Arrive, Yield, Enough, F!Counted, F!Enough
  <1>5. pages' # <<>> /\ collection[pages'[Len(pages')]].next = collection[url].next
    BY Appended
  <1>6. verdict' \in F!Verdicts
    BY <1>1 DEF Arrive, End, Follow, Complete, F!Verdicts
  <1>7. F!Fair(verdict', pages', yielded')
    BY <1>1, <1>5 DEF Arrive, End, Follow, Complete, Enough, F!Fair, F!Enough, F!After
  <1> QED
    BY <1>1, <1>2, <1>3, <1>4, <1>6, <1>7 DEF F!Gather, Arrive

(***************************************************************************)
(* Every step of a walk is a step of the feed, or none.                    *)
(***************************************************************************)
LEMMA StepsAreFeedSteps ==
  ASSUME Inv, [Next]_vars
  PROVE  [F!Gather \/ F!Close]_(F!feedVars)
  <1> USE DEF F!feedVars
  <1>1. CASE UNCHANGED vars
    BY <1>1 DEF vars
  <1>2. CASE Arrive
    BY <1>2, ArriveGathers
  <1>3. CASE Begin
    <2>1. verdict = "open" /\ yielded = 0
      BY <1>3 DEF Begin, Inv, TypeOK, Walking, NothingFromNothing
    <2> QED
      BY <1>3, <2>1 DEF Begin, End, F!Close, F!Fair, F!Verdicts
  <1>4. ASSUME NEW reason \in {"connection", "status"}, Retry(reason)
        PROVE  UNCHANGED F!feedVars
    BY <1>4 DEF Retry
  <1>5. CASE OrderRejected
    BY <1>5 DEF OrderRejected
  <1>6. ASSUME phase = "asking", verdict' \in {Failure, "lost"},
               UNCHANGED <<collection, read, pages, yielded>>
        PROVE  F!Close
    <2>1. verdict = "open"
      BY <1>6 DEF Inv, TypeOK
    <2>2. verdict' \in F!Verdicts /\ F!Fair(verdict', pages, yielded)
      BY <1>6, FailureIsFair DEF F!Verdicts, F!Fair
    <2> QED
      BY <1>6, <2>1, <2>2 DEF F!Close
  <1>7. ASSUME NEW reason \in {"connection", "status"}, GiveUp(reason)
        PROVE  F!Close
    BY <1>6, <1>7 DEF GiveUp, End
  <1>8. CASE Rejected
    BY <1>6, <1>8 DEF Rejected, End
  <1>9. CASE NotJson
    BY <1>6, <1>9 DEF NotJson, End
  <1>10. CASE NotAnObject
    BY <1>6, <1>10 DEF NotAnObject, End
  <1> QED
    BY <1>1, <1>2, <1>3, <1>4, <1>5, <1>7, <1>8, <1>9, <1>10 DEF Next, Answered

(***************************************************************************)
(* Both reads of a cluster are what PageFeed promises: pages in the order  *)
(* of the links, none skipped, no more records than were asked for, and a  *)
(* verdict that does not say more than what came.                          *)
(***************************************************************************)
THEOREM WalkImplementsFeed == Spec => ImplementsFeed
  <1>1. Init => F!FeedInit
    BY FeedBegins
  <1>2. Inv /\ [Next]_vars => [F!Gather \/ F!Close]_(F!feedVars)
    BY StepsAreFeedSteps
  <1> QED
    BY <1>1, <1>2, InvInit, InvNext, PTL DEF Spec, ImplementsFeed, F!Feed

-----------------------------------------------------------------------------
(* What a state read knows of its pages.                                   *)

\* The pages are a chain of links from the first one.
Chained ==
    /\ pages # <<>> => pages[1] = FirstPage
    /\ \A k \in 1..(Len(pages) - 1) : pages[k + 1] = collection[pages[k]].next

\* The verdict says what came, and that nothing came of a read that may not
\* be made; a whole read ends where the links do.  A lost one says nothing.
Judged ==
    read.kind = "state" =>
        /\ phase = "asking" \/ pages # <<>> => read.valid_host /\ read.credentials
        /\ phase = "done" /\ verdict # "lost" =>
              /\ verdict \in {"whole", "partial", "nothing"}
              /\ verdict = "nothing" <=> pages = <<>>
              /\ verdict = "whole" => collection[pages[Len(pages)]].next = NoPage

ChainInv == Chained /\ Judged

LEMMA ChainInit == Init => ChainInv
  BY DEF Init, ChainInv, Chained, Judged

LEMMA ChainQuiet ==
  ASSUME Inv, ChainInv, UNCHANGED <<collection, read, pages>>,
         \/ phase' = "asking" /\ (phase = "asking" \/ (read.valid_host /\ read.credentials))
         \/ phase' = "done" /\ verdict' = IF pages = <<>> THEN "nothing" ELSE "partial"
         \/ phase = "asking" /\ phase' = "done" /\ verdict' = "lost"
         \/ read.kind # "state"
         \/ UNCHANGED <<phase, verdict>>
  PROVE  ChainInv'
  BY DEF Inv, Walking, ChainInv, Chained, Judged

LEMMA ChainArrive ==
  ASSUME Inv, ChainInv, Arrive
  PROVE  ChainInv'
  <1>1. /\ phase = "asking" /\ url \in Pages /\ collection' = collection /\ read' = read
        /\ read \in Reads /\ Len(pages) \in Nat /\ (pages = <<>> <=> Len(pages) = 0)
    BY DEF Arrive, Inv, TypeOK
  <1>2. url = (IF pages = <<>> THEN FirstPage ELSE collection[pages[Len(pages)]].next)
    BY <1>1 DEF Inv, Walking
  <1>3. Chained'
    <2>1. pages'[1] = FirstPage
      BY <1>1, <1>2, Appended DEF ChainInv, Chained
    <2>2. ASSUME NEW k \in 1..(Len(pages') - 1)
          PROVE  pages'[k + 1] = collection[pages'[k]].next
      <3>1. k \in 1..Len(pages) /\ pages'[k] = pages[k]
        BY <1>1, Appended
      <3>2. CASE k = Len(pages)
        BY <1>1, <1>2, <3>1, <3>2, Appended
      <3>3. CASE k # Len(pages)
        <4>1. k \in 1..(Len(pages) - 1) /\ k + 1 \in 1..Len(pages)
          BY <1>1, <3>1, <3>3
        <4>. QED
          BY <3>1, <4>1, Appended DEF ChainInv, Chained
      <3>. QED
        BY <3>2, <3>3
    <2>. QED
      BY <1>1, <2>1, <2>2 DEF Chained
  <1>4. Judged'
    <2>. SUFFICES ASSUME read.kind = "state"
                  PROVE  /\ read.valid_host /\ read.credentials
                         /\ phase' = "done" =>
                               /\ verdict' \in {"whole", "partial"}
                               /\ verdict' = "whole" => collection[url].next = NoPage
      BY <1>1, Appended DEF Judged
    <2>1. read.valid_host /\ read.credentials
      BY <1>1 DEF ChainInv, Judged
    <2>2. read.count = NoCount
      BY <1>1, ReadsAssumption
    <2>3. ~Enough(yielded')
      BY <1>1, <2>2 DEF Enough
    <2>4. phase' = "done" =>
             /\ verdict' \in {"whole", "partial"}
             /\ verdict' = "whole" => collection[url].next = NoPage
      BY <1>1, <2>3 DEF Arrive, End, Follow, Complete
    <2>. QED
      BY <2>1, <2>4
  <1>. QED
    BY <1>3, <1>4 DEF ChainInv

LEMMA ChainNext == Inv /\ ChainInv /\ [Next]_vars => ChainInv'
  <1>. SUFFICES ASSUME Inv, ChainInv, [Next]_vars
                PROVE  ChainInv'
    OBVIOUS
  <1>1. CASE UNCHANGED vars
    BY <1>1, ChainQuiet DEF vars
  <1>2. CASE Arrive
    BY <1>2, ChainArrive
  <1>3. CASE Begin
    <2>1. pages = <<>>
      BY <1>3 DEF Begin, Inv, Walking
    <2>. QED
      BY <1>3, <2>1, ChainQuiet DEF Begin, End
  <1>4. ASSUME NEW reason \in {"connection", "status"}, Retry(reason)
        PROVE  ChainInv'
    BY <1>4, ChainQuiet DEF Retry
  <1>5. ASSUME NEW reason \in {"connection", "status"}, GiveUp(reason)
        PROVE  ChainInv'
    BY <1>5, ChainQuiet DEF GiveUp, End, Failure
  <1>6. CASE Rejected
    BY <1>6, ChainQuiet DEF Rejected, End, Failure
  <1>7. CASE OrderRejected
    BY <1>7, ChainQuiet DEF OrderRejected
  <1>8. CASE NotJson
    BY <1>8, ChainQuiet DEF NotJson, End, Failure
  <1>9. CASE NotAnObject
    BY <1>9, ChainQuiet DEF NotAnObject, End
  <1>. QED
    BY <1>1, <1>2, <1>3, <1>4, <1>5, <1>6, <1>7, <1>8, <1>9 DEF Next, Answered

-----------------------------------------------------------------------------
(* Which pages came.                                                       *)

LEMMA Smallest ==
    ASSUME NEW S \in SUBSET Nat, S # {}
    PROVE  \E m \in S : \A k \in S : m <= k
  <1>1. PICK m \in S : \A k \in S : ~(<<k, m>> \in OpToRel(<, Nat))
    BY NatLessThanWellFounded, WFMin
  <1>2. ASSUME NEW k \in S PROVE m <= k
    <2>1. ~(k < m)
      BY <1>1 DEF OpToRel
    <2>. QED
      BY <2>1
  <1>. QED
    BY <1>2

\* What can be reached is in every set that holds its links.
LEMMA ReachedFacts ==
  /\ Reached \in SUBSET Pages
  /\ \A p \in Pages : p \in Reached <=> \A S \in SUBSET Pages : Closed(S) => p \in S
  BY DEF Reached

\* Every page that came can be reached.
LEMMA PagesReached ==
  ASSUME Inv, ChainInv
  PROVE  \A k \in DOMAIN pages : pages[k] \in Reached
  <1>. DEFINE bad == {k \in DOMAIN pages : pages[k] \notin Reached}
  <1>1. Len(pages) \in Nat /\ DOMAIN pages = 1..Len(pages) /\ \A k \in DOMAIN pages : pages[k] \in Pages
    BY DEF Inv, TypeOK
  <1>2. bad \in SUBSET Nat
    BY <1>1
  <1>3. SUFFICES ASSUME bad # {} PROVE FALSE
    OBVIOUS
  <1>. HIDE DEF bad
  <1>4. PICK k \in bad : \A j \in bad : k <= j
    BY <1>2, <1>3, Smallest
  <1>5. k \in 1..Len(pages) /\ pages[k] \notin Reached
    BY <1>1, <1>4 DEF bad
  <1>6. CASE k = 1
    <2>1. pages[k] = FirstPage
      BY <1>1, <1>5, <1>6 DEF ChainInv, Chained
    <2>. QED
      BY <1>5, <2>1, PagesAssumption, ReachedFacts DEF Closed
  <1>7. CASE k # 1
    <2>1. k - 1 \in 1..(Len(pages) - 1) /\ k - 1 \in DOMAIN pages /\ ~(k <= k - 1) /\ (k - 1) + 1 = k
      BY <1>1, <1>5, <1>7
    <2>2. pages[k - 1] \in Reached
      BY <1>4, <2>1 DEF bad
    <2>3. pages[k] = collection[pages[k - 1]].next
      BY <2>1 DEF ChainInv, Chained
    <2>4. pages[k] \in Pages
      BY <1>1, <1>5
    <2>. QED
      BY <1>5, <2>2, <2>3, <2>4, PagesAssumption, ReachedFacts DEF Closed
  <1>. QED
    BY <1>6, <1>7

\* No page came twice, unless one links back to the first.
LEMMA PagesOnce ==
  ASSUME Inv, ChainInv, read.kind = "state",
         \/ \A p \in Reached : collection[p].next # FirstPage
         \/ pages # <<>> /\ collection[pages[Len(pages)]].next = NoPage
  PROVE  \A j, k \in DOMAIN pages : pages[j] = pages[k] => j = k
  <1>1. Len(pages) \in Nat /\ DOMAIN pages = 1..Len(pages) /\ \A k \in DOMAIN pages : pages[k] \in Pages
    BY DEF Inv, TypeOK
  <1>2. \A j, k \in 2..Len(pages) : pages[j] = pages[k] => j = k
    BY DEF Inv, NoLinkTwice
  <1>3. ASSUME NEW k \in DOMAIN pages, k # 1, pages[k] = pages[1]
        PROVE  FALSE
    <2>1. k \in 2..Len(pages) /\ k - 1 \in 1..(Len(pages) - 1) /\ k - 1 \in DOMAIN pages /\ (k - 1) + 1 = k
      BY <1>1, <1>3
    <2>2. pages[k] = FirstPage /\ pages[k] = collection[pages[k - 1]].next /\ pages[k - 1] \in Reached
      BY <1>1, <1>3, <2>1, PagesReached DEF ChainInv, Chained
    <2>3. collection[pages[Len(pages)]].next = NoPage
      BY <2>2
    <2>4. 1 \in 1..(Len(pages) - 1) /\ 2 \in DOMAIN pages /\ 2 \in 2..Len(pages)
      BY <1>1, <2>1
    <2>5. pages[2] = collection[pages[1]].next
      BY <2>4 DEF ChainInv, Chained
    <2>6. CASE k = Len(pages)
      BY <1>1, <1>3, <2>3, <2>4, <2>5, <2>6, PagesAssumption
    <2>7. CASE k # Len(pages)
      <3>1. k \in 1..(Len(pages) - 1) /\ k + 1 \in 2..Len(pages) /\ k + 1 # 2
        BY <1>1, <2>1, <2>7
      <3>2. pages[k + 1] = collection[pages[k]].next
        BY <3>1 DEF ChainInv, Chained
      <3>. QED
        BY <1>2, <1>3, <2>4, <2>5, <3>1, <3>2
    <2>. QED
      BY <2>6, <2>7
  <1>. SUFFICES ASSUME NEW j \in DOMAIN pages, NEW k \in DOMAIN pages, pages[j] = pages[k]
                PROVE  j = k
    OBVIOUS
  <1>4. CASE j = 1 \/ k = 1
    BY <1>3, <1>4
  <1>5. CASE j # 1 /\ k # 1
    BY <1>1, <1>2, <1>5
  <1>. QED
    BY <1>4, <1>5

\* A read that ends where the links do brought every page there is.
LEMMA AllPagesCame ==
  ASSUME Inv, ChainInv, pages # <<>>, collection[pages[Len(pages)]].next = NoPage
  PROVE  \A p \in Reached : \E k \in DOMAIN pages : pages[k] = p
  <1>. DEFINE came == {pages[k] : k \in DOMAIN pages}
  <1>1. Len(pages) \in Nat /\ DOMAIN pages = 1..Len(pages) /\ \A k \in DOMAIN pages : pages[k] \in Pages
    BY DEF Inv, TypeOK
  <1>2. 1 \in DOMAIN pages /\ pages[1] = FirstPage
    BY <1>1 DEF ChainInv, Chained, Inv, TypeOK
  <1>3. ASSUME NEW k \in DOMAIN pages
        PROVE  collection[pages[k]].next \in came \cup {NoPage}
    <2>1. CASE k = Len(pages)
      BY <2>1
    <2>2. CASE k # Len(pages)
      <3>1. k \in 1..(Len(pages) - 1) /\ k + 1 \in DOMAIN pages
        BY <1>1, <2>2
      <3>. QED
        BY <3>1 DEF ChainInv, Chained
    <2>. QED
      BY <2>1, <2>2
  <1>4. came \in SUBSET Pages /\ Closed(came)
    BY <1>1, <1>2, <1>3 DEF Closed
  <1>. HIDE DEF came
  <1>5. Reached \subseteq came
    BY <1>4, ReachedFacts
  <1>. QED
    BY <1>5 DEF came

-----------------------------------------------------------------------------
(* Counting.                                                               *)

\* Finitely many finite parts are finite together.
LEMMA PartsFinite ==
  ASSUME NEW D, IsFiniteSet(D), NEW part, \A k \in D : IsFiniteSet(part[k])
  PROVE  IsFiniteSet(UNION {part[k] : k \in D})
  <1>. DEFINE parts == {part[k] : k \in D}
              f     == [k \in D |-> part[k]]
  <1>1. f \in Surjection(D, parts)
    BY DEF Surjection
  <1>2. \A each \in parts : IsFiniteSet(each)
    OBVIOUS
  <1>. HIDE DEF f, parts
  <1>3. IsFiniteSet(parts)
    BY <1>1, FS_Surjection
  <1>4. IsFiniteSet(UNION parts)
    BY <1>2, <1>3, FS_UNION
  <1>. QED
    BY <1>4 DEF parts

LEMMA PagePart ==
  ASSUME Inv, NEW p \in Pages, NEW x
  PROVE  IsFiniteSet({x} \X DOMAIN collection[p].records)
  <1>. DEFINE n == Len(collection[p].records)
  <1>1. n \in Nat /\ DOMAIN collection[p].records = 1..n
    BY CollectionsAssumption DEF Inv, TypeOK
  <1>. HIDE DEF n
  <1>2. IsFiniteSet(1..n)
    BY <1>1, FS_Interval
  <1>3. IsFiniteSet({x})
    BY FS_Singleton
  <1>. QED
    BY <1>1, <1>2, <1>3, FS_Product

LEMMA ItemFacts ==
  ASSUME Inv
  PROVE  /\ IsFiniteSet(Items)
         /\ \A k \in DOMAIN pages : \A i \in DOMAIN collection[pages[k]].records :
               <<k, i>> \in Items
         /\ \A item \in Items :
               /\ item = <<item[1], item[2]>> /\ item[1] \in DOMAIN pages
               /\ item[2] \in DOMAIN collection[pages[item[1]]].records
               /\ item[1] \in Int /\ item[2] \in Int
  <1>. DEFINE part == [k \in DOMAIN pages |-> {k} \X DOMAIN collection[pages[k]].records]
  <1>1. /\ Len(pages) \in Nat /\ DOMAIN pages = 1..Len(pages)
        /\ \A k \in DOMAIN pages : pages[k] \in Pages
    BY DEF Inv, TypeOK
  <1>2. IsFiniteSet(DOMAIN pages)
    BY <1>1, FS_Interval
  <1>3. \A k \in DOMAIN pages : IsFiniteSet(part[k])
    BY <1>1, PagePart
  <1>4. Items = UNION {part[k] : k \in DOMAIN pages}
    BY DEF Items
  <1>5. IsFiniteSet(Items)
    <2>. HIDE DEF part
    <2>. QED
      BY <1>2, <1>3, <1>4, PartsFinite
  <1>6. \A k \in DOMAIN pages : \A i \in DOMAIN collection[pages[k]].records : <<k, i>> \in Items
    BY DEF Items
  <1>7. ASSUME NEW item \in Items
        PROVE  /\ item = <<item[1], item[2]>> /\ item[1] \in DOMAIN pages
               /\ item[2] \in DOMAIN collection[pages[item[1]]].records
               /\ item[1] \in Int /\ item[2] \in Int
    <2>1. PICK k \in DOMAIN pages : item \in {k} \X DOMAIN collection[pages[k]].records
      BY DEF Items
    <2>2. item = <<item[1], item[2]>> /\ item[1] = k /\ item[2] \in DOMAIN collection[pages[k]].records
      BY <2>1
    <2>3. /\ DOMAIN collection[pages[k]].records = 1..Len(collection[pages[k]].records)
          /\ Len(collection[pages[k]].records) \in Nat
      BY <1>1, CollectionsAssumption DEF Inv, TypeOK
    <2>. QED
      BY <1>1, <2>2, <2>3
  <1>. QED
    BY <1>5, <1>6, <1>7

LEMMA HeldFacts ==
  ASSUME Inv
  PROVE  /\ IsFiniteSet(Held)
         /\ \A p \in Reached : \A i \in DOMAIN collection[p].records : <<p, i>> \in Held
         /\ \A place \in Held :
               /\ place = <<place[1], place[2]>> /\ place[1] \in Reached
               /\ place[2] \in DOMAIN collection[place[1]].records
  <1>. DEFINE part == [p \in Reached |-> {p} \X DOMAIN collection[p].records]
  <1>1. IsFiniteSet(Reached)
    BY ReachedFacts, RecordsAssumption, FS_Subset
  <1>2. \A p \in Reached : IsFiniteSet(part[p])
    BY ReachedFacts, PagePart
  <1>3. Held = UNION {part[p] : p \in Reached}
    BY DEF Held
  <1>4. IsFiniteSet(Held)
    <2>. HIDE DEF part
    <2>. QED
      BY <1>1, <1>2, <1>3, PartsFinite
  <1>5. \A p \in Reached : \A i \in DOMAIN collection[p].records : <<p, i>> \in Held
    BY DEF Held
  <1>6. ASSUME NEW place \in Held
        PROVE  /\ place = <<place[1], place[2]>> /\ place[1] \in Reached
               /\ place[2] \in DOMAIN collection[place[1]].records
    <2>1. PICK p \in Reached : place \in {p} \X DOMAIN collection[p].records
      BY DEF Held
    <2>. QED
      BY <2>1
  <1>. QED
    BY <1>4, <1>5, <1>6

\* Where an item is held.
PlaceOf(item) == <<pages[item[1]], item[2]>>

LEMMA PlaceFacts ==
  ASSUME Inv, ChainInv, NEW item \in Items
  PROVE  PlaceOf(item) \in Held /\ HeldRecord(PlaceOf(item)) = Record(item)
  <1>1. /\ item[1] \in DOMAIN pages /\ pages[item[1]] \in Reached
        /\ item[2] \in DOMAIN collection[pages[item[1]]].records
    BY ItemFacts, PagesReached
  <1>2. PlaceOf(item) \in Held
    BY <1>1, HeldFacts DEF PlaceOf
  <1>3. HeldRecord(PlaceOf(item)) = Record(item)
    BY DEF PlaceOf, HeldRecord, Record
  <1>. QED
    BY <1>2, <1>3

\* Of pages that came once each, no more was read than is held; of all of
\* them, no less either.
LEMMA CountsCompare ==
  ASSUME Inv, ChainInv, \A j, k \in DOMAIN pages : pages[j] = pages[k] => j = k,
         NEW some \in SUBSET Items, NEW wanted \in SUBSET Held,
         \A item \in Items : item \in some <=> PlaceOf(item) \in wanted
  PROVE  /\ Cardinality(some) <= Cardinality(wanted)
         /\ (\A p \in Reached : \E k \in DOMAIN pages : pages[k] = p) =>
               Cardinality(some) = Cardinality(wanted)
  <1>. DEFINE f == [item \in some |-> PlaceOf(item)]
  <1>1. \A item \in some : f[item] \in wanted
    OBVIOUS
  <1>2. ASSUME NEW a \in some, NEW b \in some, f[a] = f[b]
        PROVE  a = b
    <2>1. a[1] \in DOMAIN pages /\ b[1] \in DOMAIN pages /\ a = <<a[1], a[2]>> /\ b = <<b[1], b[2]>>
      BY ItemFacts
    <2>2. pages[a[1]] = pages[b[1]] /\ a[2] = b[2]
      BY <1>2 DEF PlaceOf
    <2>. QED
      BY <2>1, <2>2
  <1>3. f \in Injection(some, wanted)
    BY <1>1, <1>2 DEF Injection, IsInjective
  <1>4. IsFiniteSet(wanted)
    BY HeldFacts, FS_Subset
  <1>5. ASSUME \A p \in Reached : \E k \in DOMAIN pages : pages[k] = p
        PROVE  f \in Surjection(some, wanted)
    <2>1. ASSUME NEW place \in wanted
          PROVE  \E item \in some : f[item] = place
      <3>1. /\ place = <<place[1], place[2]>> /\ place[1] \in Reached
            /\ place[2] \in DOMAIN collection[place[1]].records
        BY HeldFacts
      <3>2. PICK k \in DOMAIN pages : pages[k] = place[1]
        BY <1>5, <3>1
      <3>. DEFINE item == <<k, place[2]>>
      <3>3. item \in Items
        BY <3>1, <3>2, ItemFacts
      <3>4. PlaceOf(item) = place
        BY <3>1, <3>2 DEF PlaceOf
      <3>. QED
        BY <3>3, <3>4
    <2>. QED
      BY <1>1, <2>1 DEF Surjection
  <1>. HIDE DEF f
  <1>. QED
    BY <1>3, <1>4, <1>5, FS_Injection

-----------------------------------------------------------------------------
(* The list.                                                               *)

LEMMA FullnessType ==
  ASSUME Inv, NEW item \in Items
  PROVE  Fullness(Record(item)) \in Int
  <1>. DEFINE r == Record(item)
  <1>1. /\ {r.used, r.size} \subseteq Nat \cup {NoPercentage} /\ NoPercentage \notin Int
    <2>1. /\ item[1] \in DOMAIN pages
          /\ item[2] \in DOMAIN collection[pages[item[1]]].records
      BY ItemFacts
    <2>2. pages[item[1]] \in Pages /\ collection \in Collections
      BY <2>1 DEF Inv, TypeOK
    <2>. QED
      BY <2>1, <2>2, RecordsAssumption DEF Record
  <1>. HIDE DEF r
  <1>2. CASE _pct(r) = NoPercentage
    BY <1>2 DEF Fullness, r
  <1>3. CASE _pct(r) # NoPercentage
    <2>1. r.used \in Nat /\ r.size \in Nat /\ r.size # 0
          /\ _pct(r) = (2000 * r.used + r.size) \div (2 * r.size)
      BY <1>1, <1>3 DEF _pct
    <2>2. _pct(r) \in Int
      BY <2>1
    <2>. QED
      BY <1>3, <2>2 DEF Fullness, r
  <1>. QED
    BY <1>2, <1>3

LEMMA FirstIsStrict ==
  ASSUME Inv, NEW area
  PROVE  /\ \A a \in Items : ~First(area, a, a)
         /\ \A a, b, c \in Items : First(area, a, b) /\ First(area, b, c) => First(area, a, c)
         /\ \A a, b \in Items : a # b => First(area, a, b) \/ First(area, b, a)
  <1>. DEFINE Key(a) == Fullness(Record(a))
  <1>1. \A a \in Items : /\ Key(a) \in Int /\ a[1] \in Int /\ a[2] \in Int
                         /\ a = <<a[1], a[2]>>
    BY ItemFacts, FullnessType
  <1>2. \A a, b : First(area, a, b) <=>
           IF area \in {"aggregates", "volumes"} /\ Key(a) # Key(b) THEN Key(a) > Key(b)
           ELSE Earlier(a, b)
    BY DEF First
  <1>3. \A a, b : Earlier(a, b) <=> a[1] < b[1] \/ (a[1] = b[1] /\ a[2] < b[2])
    BY DEF Earlier
  <1>. HIDE DEF Key
  <1>4. \A a \in Items : ~First(area, a, a)
    BY <1>1, <1>2, <1>3
  <1>5. \A a, b, c \in Items : First(area, a, b) /\ First(area, b, c) => First(area, a, c)
    BY <1>1, <1>2, <1>3
  <1>6. \A a, b \in Items : a # b => First(area, a, b) \/ First(area, b, a)
    <2>. SUFFICES ASSUME NEW a \in Items, NEW b \in Items, a # b
                  PROVE  First(area, a, b) \/ First(area, b, a)
      OBVIOUS
    <2>1. a[1] # b[1] \/ a[2] # b[2]
      BY <1>1
    <2>. QED
      BY <1>1, <1>2, <1>3, <2>1
  <1>. QED
    BY <1>4, <1>5, <1>6

\* The place of an item in a list of some: how many of them come first.
Ahead(area, some, a) == {b \in some : First(area, b, a)}

LEMMA PlaceInList ==
  ASSUME Inv, NEW area, NEW some \in SUBSET Items
  PROVE  /\ Cardinality(some) \in Nat
         /\ \A a \in some : Cardinality(Ahead(area, some, a)) \in 0..(Cardinality(some) - 1)
         /\ \A a, b \in some : First(area, a, b) =>
               Cardinality(Ahead(area, some, a)) < Cardinality(Ahead(area, some, b))
         /\ \A a, b \in some : a # b =>
               Cardinality(Ahead(area, some, a)) # Cardinality(Ahead(area, some, b))
  <1>. DEFINE n == Cardinality(some)
              Rank(a) == Cardinality(Ahead(area, some, a))
  <1>1. IsFiniteSet(some) /\ n \in Nat
    BY ItemFacts, FS_Subset, FS_CardinalityType
  <1>2. ASSUME NEW a \in some
        PROVE  IsFiniteSet(Ahead(area, some, a)) /\ Rank(a) \in 0..(n - 1)
    <2>1. Ahead(area, some, a) \in SUBSET some /\ a \notin Ahead(area, some, a)
      BY FirstIsStrict DEF Ahead
    <2>2. /\ IsFiniteSet(Ahead(area, some, a)) /\ Rank(a) <= n /\ Rank(a) # n
      BY <1>1, <2>1, FS_Subset
    <2>3. Rank(a) \in Nat
      BY <2>2, FS_CardinalityType
    <2>. HIDE DEF n, Rank
    <2>. QED
      BY <1>1, <2>2, <2>3
  <1>3. ASSUME NEW a \in some, NEW b \in some, First(area, a, b)
        PROVE  Rank(a) < Rank(b)
    <2>1. /\ Ahead(area, some, a) \in SUBSET Ahead(area, some, b)
          /\ a \in Ahead(area, some, b) /\ a \notin Ahead(area, some, a)
      BY <1>3, FirstIsStrict DEF Ahead
    <2>2. Rank(a) <= Rank(b) /\ Rank(a) # Rank(b)
      BY <1>2, <2>1, FS_Subset
    <2>3. Rank(a) \in 0..(n - 1) /\ Rank(b) \in 0..(n - 1)
      BY <1>2
    <2>. HIDE DEF n, Rank
    <2>. QED
      BY <1>1, <2>2, <2>3
  <1>4. ASSUME NEW a \in some, NEW b \in some, a # b
        PROVE  Rank(a) # Rank(b)
    <2>1. First(area, a, b) \/ First(area, b, a)
      BY <1>4, FirstIsStrict
    <2>2. Rank(a) < Rank(b) \/ Rank(b) < Rank(a)
      BY <1>3, <2>1
    <2>3. Rank(a) \in 0..(n - 1) /\ Rank(b) \in 0..(n - 1)
      BY <1>2
    <2>. HIDE DEF n, Rank
    <2>. QED
      BY <1>1, <2>2, <2>3
  <1>. QED
    BY <1>1, <1>2, <1>3, <1>4

\* A list that was cut has as many items as a list may have.
LEMMA CutListIsFull ==
  ASSUME Inv, NEW area, area # "ha", NEW some \in SUBSET Items
  PROVE  /\ Cardinality(Listed(area, some)) \in Nat
         /\ Cardinality(Listed(area, some)) < Cardinality(some) =>
               Cardinality(Listed(area, some)) = MAX_LISTED_ITEMS
  <1>. DEFINE n      == Cardinality(some)
              most   == MAX_LISTED_ITEMS
              listed == Listed(area, some)
              rank   == [a \in some |-> Cardinality(Ahead(area, some, a))]
  <1>1. /\ IsFiniteSet(some) /\ n \in Nat /\ most \in Nat
        /\ \A a \in some : rank[a] \in 0..(n - 1)
        /\ \A a, b \in some : rank[a] = rank[b] => a = b
    BY ItemFacts, PlaceInList, FS_Subset, ListAssumption
  <1>2. listed = {a \in some : rank[a] < most}
    BY DEF Listed, Ahead
  <1>3. DOMAIN rank = some /\ rank = [a \in some |-> rank[a]]
    OBVIOUS
  <1>. HIDE DEF rank, n, most, listed
  <1>4. IsFiniteSet(listed) /\ Cardinality(listed) \in Nat
    BY <1>1, <1>2, FS_Subset, FS_CardinalityType
  <1>5. CASE n <= most
    <2>1. listed = some
      BY <1>1, <1>2, <1>5
    <2>. QED
      BY <1>1, <1>4, <2>1 DEF n, most, listed
  <1>6. CASE most < n
    <2>1. rank \in Injection(some, 0..(n - 1))
      BY <1>1, <1>3 DEF Injection, IsInjective
    <2>2. IsFiniteSet(0..(n - 1)) /\ Cardinality(0..(n - 1)) = n
      BY <1>1, FS_Interval
    <2>3. rank \in Surjection(some, 0..(n - 1))
      BY <2>1, <2>2, FS_Injection DEF n
    <2>. DEFINE f == [a \in listed |-> rank[a]]
    <2>4. \A a \in listed : a \in some /\ f[a] = rank[a] /\ rank[a] \in 0..(most - 1)
      BY <1>1, <1>2
    <2>5. f \in Injection(listed, 0..(most - 1))
      BY <1>1, <2>4 DEF Injection, IsInjective
    <2>6. f \in Surjection(listed, 0..(most - 1))
      <3>1. ASSUME NEW k \in 0..(most - 1)
            PROVE  \E a \in listed : f[a] = k
        <4>1. k \in 0..(n - 1) /\ k < most
          BY <1>1, <1>6
        <4>2. PICK a \in some : rank[a] = k
          BY <2>3, <4>1 DEF Surjection
        <4>3. a \in listed
          BY <1>2, <4>1, <4>2
        <4>. QED
          BY <2>4, <4>2, <4>3
      <3>. QED
        BY <2>4, <3>1 DEF Surjection
    <2>7. IsFiniteSet(0..(most - 1)) /\ Cardinality(0..(most - 1)) = most
      BY <1>1, FS_Interval
    <2>. HIDE DEF f
    <2>8. Cardinality(listed) = most
      BY <2>5, <2>6, <2>7, FS_Injection
    <2>. QED
      BY <1>4, <2>8 DEF listed, most
  <1>. QED
    BY <1>1, <1>5, <1>6

\* What is left off a list is not fuller than what is on it.
LEMMA FullestListed ==
  ASSUME Inv, NEW area \in {"aggregates", "volumes"}, NEW some \in SUBSET Items,
         NEW item \in some, item \notin Listed(area, some), NEW kept \in Listed(area, some)
  PROVE  Fullness(Record(item)) <= Fullness(Record(kept))
  <1>1. /\ kept \in some
        /\ Cardinality(Ahead(area, some, kept)) < MAX_LISTED_ITEMS
        /\ ~(Cardinality(Ahead(area, some, item)) < MAX_LISTED_ITEMS)
    BY DEF Listed, Ahead
  <1>2. ~First(area, item, kept)
    <2>1. /\ Cardinality(some) \in Nat /\ MAX_LISTED_ITEMS \in Nat
          /\ Cardinality(Ahead(area, some, item)) \in 0..(Cardinality(some) - 1)
          /\ Cardinality(Ahead(area, some, kept)) \in 0..(Cardinality(some) - 1)
          /\ First(area, item, kept) =>
                Cardinality(Ahead(area, some, item)) < Cardinality(Ahead(area, some, kept))
      BY <1>1, PlaceInList, ListAssumption
    <2>. QED
      BY <1>1, <2>1
  <1>3. Fullness(Record(item)) \in Int /\ Fullness(Record(kept)) \in Int
    BY <1>1, FullnessType
  <1>. QED
    BY <1>2, <1>3 DEF First

-----------------------------------------------------------------------------
(* What the model is told.                                                 *)

\* Counts of a kind of records: as many as there are, or no more than that.
LEMMA CountIsTrue ==
  ASSUME Inv, ChainInv, read.kind = "state", phase = "done",
         verdict \notin {"nothing", "lost"},
         NEW some \in SUBSET Items, NEW wanted \in SUBSET Held,
         \A item \in Items : item \in some <=> PlaceOf(item) \in wanted
  PROVE  /\ verdict # "partial" => Cardinality(some) = Cardinality(wanted)
         /\ (\A p \in Reached : collection[p].next # FirstPage) =>
               Cardinality(some) <= Cardinality(wanted)
  <1>1. verdict \in {"whole", "partial"} /\ pages # <<>>
    BY DEF ChainInv, Judged
  <1>2. CASE verdict # "partial"
    <2>1. collection[pages[Len(pages)]].next = NoPage
      BY <1>1, <1>2 DEF ChainInv, Judged
    <2>2. \A j, k \in DOMAIN pages : pages[j] = pages[k] => j = k
      BY <1>1, <2>1, PagesOnce
    <2>3. \A p \in Reached : \E k \in DOMAIN pages : pages[k] = p
      BY <1>1, <2>1, AllPagesCame
    <2>4. Cardinality(some) = Cardinality(wanted) /\ Cardinality(some) <= Cardinality(wanted)
      BY <2>2, <2>3, CountsCompare
    <2>. QED
      BY <2>4
  <1>3. CASE verdict = "partial"
    <2>. SUFFICES ASSUME \A p \in Reached : collection[p].next # FirstPage
                  PROVE  Cardinality(some) <= Cardinality(wanted)
      BY <1>3
    <2>1. \A j, k \in DOMAIN pages : pages[j] = pages[k] => j = k
      BY PagesOnce
    <2>. QED
      BY <2>1, CountsCompare
  <1>. QED
    BY <1>2, <1>3

LEMMA HonestFromChain == Inv /\ ChainInv => CountsAreHonest
  <1>. SUFFICES ASSUME Inv, ChainInv, phase = "done", verdict \notin {"open", "lost"},
                       read.kind = "state"
                PROVE  CountsAreHonest
    BY DEF CountsAreHonest, Inv, TypeOK
  <1>. DEFINE area     == read.area
              matching == {item \in Items : Matching(area, Record(item))}
              wanted   == {place \in Held : Matching(area, HeldRecord(place))}
              answer   == get_cluster_state
              summary  == answer.summary
  <1>1. CASE verdict = "nothing"
    <2>1. ~answer.available
      BY <1>1 DEF get_cluster_state, _unavailable
    <2>. QED
      BY <2>1 DEF CountsAreHonest
  <1>2. CASE verdict # "nothing"
    <2>1. /\ answer.available /\ answer.incomplete = (verdict = "partial")
          /\ summary = Summary(area)
      BY <1>2 DEF get_cluster_state
    <2>2. /\ summary.count = Cardinality(Items)
          /\ summary.matching_count = Cardinality(matching)
          /\ summary.listed = Listed(area, matching)
          /\ \A s \in DOMAIN summary.by_state :
                summary.by_state[s] = Cardinality({item \in Items : Record(item).state = s})
      BY <2>1 DEF Summary
    <2>3. read.valid_host /\ read.credentials /\ pages # <<>>
      BY <1>2 DEF ChainInv, Judged
    <2>4. /\ matching \in SUBSET Items
          /\ wanted \in SUBSET Held
          /\ \A item \in Items : item \in matching <=> PlaceOf(item) \in wanted
      BY PlaceFacts
    <2>5. \A item \in Items : item \in Items <=> PlaceOf(item) \in Held
      BY PlaceFacts
    <2>6. /\ verdict # "partial" =>
                /\ Cardinality(Items) = Cardinality(Held)
                /\ Cardinality(matching) = Cardinality(wanted)
          /\ (\A p \in Reached : collection[p].next # FirstPage) =>
                /\ Cardinality(Items) <= Cardinality(Held)
                /\ Cardinality(matching) <= Cardinality(wanted)
      <3>. HIDE DEF matching, wanted
      <3>1. Items \in SUBSET Items /\ Held \in SUBSET Held
        OBVIOUS
      <3>. QED
        BY <1>2, <2>4, <2>5, <3>1, CountIsTrue
    <2>7. ASSUME NEW s, verdict # "partial"
          PROVE  Cardinality({item \in Items : Record(item).state = s}) =
                    Cardinality({place \in Held : HeldRecord(place).state = s})
      <3>. DEFINE some == {item \in Items : Record(item).state = s}
                  there == {place \in Held : HeldRecord(place).state = s}
      <3>1. /\ some \in SUBSET Items /\ there \in SUBSET Held
            /\ \A item \in Items : item \in some <=> PlaceOf(item) \in there
        BY PlaceFacts
      <3>. HIDE DEF some, there
      <3>2. Cardinality(some) = Cardinality(there)
        BY <1>2, <2>7, <3>1, CountIsTrue
      <3>. QED
        BY <3>2 DEF some, there
    <2>8. Cardinality(matching) - Cardinality(summary.listed) > 0 =>
             Cardinality(summary.listed) = MAX_LISTED_ITEMS
      <3>1. Cardinality(matching) \in Nat
        BY ItemFacts, FS_Subset, FS_CardinalityType
      <3>. HIDE DEF matching
      <3>2. CASE area = "ha"
        <4>1. Listed(area, matching) = matching
          BY <3>2 DEF Listed
        <4>. QED
          BY <2>2, <3>1, <4>1
      <3>3. CASE area # "ha"
        <4>. DEFINE listed == Listed(area, matching)
        <4>1. /\ Cardinality(listed) \in Nat
              /\ Cardinality(listed) < Cardinality(matching) =>
                    Cardinality(listed) = MAX_LISTED_ITEMS
          BY <2>4, <3>3, CutListIsFull
        <4>. HIDE DEF listed
        <4>2. summary.listed = listed
          BY <2>2 DEF listed
        <4>. QED
          BY <3>1, <4>1, <4>2
      <3>. QED
        BY <3>2, <3>3
    <2>9. ASSUME area \in {"aggregates", "volumes"},
                 NEW item \in Items \ summary.listed, Matching(area, Record(item)),
                 NEW kept \in summary.listed
          PROVE  Fullness(Record(item)) <= Fullness(Record(kept))
      <3>1. item \in matching
        BY <2>9
      <3>. HIDE DEF matching
      <3>2. item \notin Listed(area, matching) /\ kept \in Listed(area, matching)
        BY <2>2, <2>9
      <3>. QED
        BY <2>4, <2>9, <3>1, <3>2, FullestListed
    <2>. HIDE DEF summary, answer
    <2>10. CountsAreHonest <=>
             /\ answer.available /\ ~answer.incomplete =>
                   /\ summary.count = Cardinality(Held)
                   /\ summary.matching_count = Cardinality(wanted)
                   /\ \A s \in DOMAIN summary.by_state :
                         summary.by_state[s] = Cardinality({place \in Held : HeldRecord(place).state = s})
             /\ answer.available /\ answer.incomplete
                   /\ (\A p \in Reached : collection[p].next # FirstPage) =>
                   /\ summary.count <= Cardinality(Held)
                   /\ summary.matching_count <= Cardinality(wanted)
             /\ answer.available /\ summary.matching_count - Cardinality(summary.listed) > 0 =>
                   Cardinality(summary.listed) = MAX_LISTED_ITEMS
             /\ answer.available /\ area \in {"aggregates", "volumes"} =>
                   \A item \in Items \ summary.listed :
                       Matching(area, Record(item)) =>
                           \A kept \in summary.listed :
                               Fullness(Record(item)) <= Fullness(Record(kept))
      BY <2>3 DEF CountsAreHonest, summary, answer
    <2>. HIDE DEF matching, wanted, area
    <2>. QED
      BY <2>1, <2>2, <2>6, <2>7, <2>8, <2>9, <2>10
  <1>. QED
    BY <1>1, <1>2

(***************************************************************************)
(* A state read that does not raise tells the model no number that is not  *)
(* true of the cluster: counts are those of the whole collection or a      *)
(* lower bound of them, a list that was cut is full and holds the fullest, *)
(* and a cluster that did not answer is not an empty one                   *)
(* (cluster_state.py).                                                     *)
(***************************************************************************)
THEOREM CountsStayHonest == Spec => []CountsAreHonest
  BY InvInit, InvNext, ChainInit, ChainNext, HonestFromChain, PTL DEF Spec

=============================================================================
