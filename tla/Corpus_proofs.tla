----------------------------- MODULE Corpus_proofs -----------------------------
(***************************************************************************)
(* Theorems about Corpus, whatever logs arrive and however many.           *)
(***************************************************************************)
EXTENDS Corpus, FunctionTheorems, FiniteSetTheorems, SequenceTheorems, WellFoundedInduction, TLAPS

StrictOrder(S, order) ==
    /\ \A i \in S : <<i, i>> \notin order
    /\ \A i, j, k \in S : <<i, j>> \in order /\ <<j, k>> \in order => <<i, k>> \in order
    /\ \A i, j \in S : i # j => <<i, j>> \in order \/ <<j, i>> \in order

\* Sorting puts each element in one place, and an earlier one before a later one.
LEMMA SortedFacts ==
    ASSUME NEW S, IsFiniteSet(S), NEW order, StrictOrder(S, order)
    PROVE  /\ Cardinality(S) \in Nat
           /\ Sorted(S, order) \in [1..Cardinality(S) -> S]
           /\ \A i \in S : \E k \in 1..Cardinality(S) : Sorted(S, order)[k] = i
           /\ \A k, l \in 1..Cardinality(S) :
                 k < l => <<Sorted(S, order)[k], Sorted(S, order)[l]>> \in order
           /\ \A k, l \in 1..Cardinality(S) : k # l => Sorted(S, order)[k] # Sorted(S, order)[l]
  <1>. DEFINE n == Cardinality(S)
              Below(i) == {j \in S : <<j, i>> \in order}
              place == [i \in S |-> Cardinality(Below(i))]
              s == Sorted(S, order)
  <1>1. n \in Nat
    BY FS_CardinalityType
  <1>2. ASSUME NEW i \in S
        PROVE  /\ IsFiniteSet(Below(i))
               /\ Cardinality(Below(i)) \in 0..(n - 1)
    <2>1. Below(i) \in SUBSET S /\ i \notin Below(i)
      BY DEF StrictOrder
    <2>2. /\ IsFiniteSet(Below(i)) /\ Cardinality(Below(i)) <= n
          /\ Cardinality(Below(i)) # n
      BY <2>1, FS_Subset
    <2>3. Cardinality(Below(i)) \in Nat
      BY <2>2, FS_CardinalityType
    <2>. HIDE DEF Below, n
    <2>. QED
      BY <1>1, <2>2, <2>3
  <1>3. ASSUME NEW i \in S, NEW j \in S, <<i, j>> \in order
        PROVE  Cardinality(Below(i)) < Cardinality(Below(j))
    <2>1. Below(i) \in SUBSET Below(j) /\ i \in Below(j) /\ i \notin Below(i)
      BY <1>3 DEF StrictOrder
    <2>2. /\ Cardinality(Below(i)) <= Cardinality(Below(j))
          /\ Cardinality(Below(i)) # Cardinality(Below(j))
      BY <1>2, <2>1, FS_Subset
    <2>3. Cardinality(Below(i)) \in 0..(n - 1) /\ Cardinality(Below(j)) \in 0..(n - 1)
      BY <1>2
    <2>. HIDE DEF Below, n
    <2>. QED
      BY <1>1, <2>2, <2>3
  <1>4. \A i, j \in S : i # j => Cardinality(Below(i)) # Cardinality(Below(j))
    <2>. SUFFICES ASSUME NEW i \in S, NEW j \in S, i # j
                  PROVE  Cardinality(Below(i)) # Cardinality(Below(j))
      OBVIOUS
    <2>1. <<i, j>> \in order \/ <<j, i>> \in order
      BY DEF StrictOrder
    <2>2. \/ Cardinality(Below(i)) < Cardinality(Below(j))
          \/ Cardinality(Below(j)) < Cardinality(Below(i))
      BY <1>3, <2>1
    <2>3. Cardinality(Below(i)) \in 0..(n - 1) /\ Cardinality(Below(j)) \in 0..(n - 1)
      BY <1>2
    <2>. HIDE DEF Below, n
    <2>. QED
      BY <1>1, <2>2, <2>3
  <1>5. place \in Surjection(S, 0..(n - 1))
    <2>1. place \in Injection(S, 0..(n - 1))
      <3>. HIDE DEF Below, n
      <3>. QED
        BY <1>2, <1>4 DEF Injection, IsInjective
    <2>2. IsFiniteSet(0..(n - 1)) /\ Cardinality(0..(n - 1)) = n
      <3>. HIDE DEF n
      <3>. QED
        BY <1>1, FS_Interval
    <2>. QED
      BY <2>1, <2>2, FS_Injection
  <1>6. ASSUME NEW k \in 1..n
        PROVE  s[k] \in S /\ Cardinality(Below(s[k])) = k - 1
    <2>1. k - 1 \in 0..(n - 1)
      BY <1>1
    <2>2. \E i \in S : place[i] = k - 1
      BY <1>5, <2>1 DEF Surjection
    <2>3. \E i \in S : Cardinality(Below(i)) = k - 1
      BY <2>2
    <2>4. s[k] = CHOOSE i \in S : Cardinality(Below(i)) = k - 1
      BY DEF Sorted
    <2>. QED
      BY <2>3, <2>4
  <1>7. s \in [1..n -> S]
    BY <1>6 DEF Sorted
  <1>8. ASSUME NEW i \in S
        PROVE  \E k \in 1..n : s[k] = i
    <2>. DEFINE k == Cardinality(Below(i)) + 1
    <2>1. k \in 1..n /\ k - 1 = Cardinality(Below(i))
      <3>1. Cardinality(Below(i)) \in 0..(n - 1)
        BY <1>2
      <3>. HIDE DEF Below, n
      <3>. QED
        BY <1>1, <3>1
    <2>2. s[k] \in S /\ Cardinality(Below(s[k])) = Cardinality(Below(i))
      BY <1>6, <2>1
    <2>3. s[k] = i
      BY <1>4, <2>2
    <2>. QED
      BY <2>1, <2>3
  <1>9. ASSUME NEW k \in 1..n, NEW l \in 1..n, k # l
        PROVE  s[k] # s[l]
    <2>1. Cardinality(Below(s[k])) = k - 1 /\ Cardinality(Below(s[l])) = l - 1
      BY <1>6
    <2>. HIDE DEF Below, s, n
    <2>. QED
      BY <1>9, <2>1
  <1>10. ASSUME NEW k \in 1..n, NEW l \in 1..n, k < l
         PROVE  <<s[k], s[l]>> \in order
    <2>1. /\ s[k] \in S /\ s[l] \in S
          /\ Cardinality(Below(s[k])) = k - 1 /\ Cardinality(Below(s[l])) = l - 1
      BY <1>6
    <2>2. s[k] # s[l]
      BY <1>9, <1>10
    <2>3. <<s[l], s[k]>> \in order => Cardinality(Below(s[l])) < Cardinality(Below(s[k]))
      BY <1>3, <2>1
    <2>4. <<s[l], s[k]>> \notin order
      <3>. HIDE DEF Below, s, n
      <3>. QED
        BY <1>1, <1>10, <2>1, <2>3
    <2>. QED
      BY <2>1, <2>2, <2>4 DEF StrictOrder
  <1>. QED
    BY <1>1, <1>7, <1>8, <1>9, <1>10

-----------------------------------------------------------------------------
(* Sequences.                                                              *)

LEMMA SeqFacts ==
    ASSUME NEW S, NEW s \in Seq(S)
    PROVE  IsSeq(s) /\ Len(s) \in Nat /\ DOMAIN s = 1..Len(s)
  BY DEF IsSeq, Range

LEMMA EmptyFacts == IsSeq(<<>>) /\ DOMAIN <<>> = {}
  <1>1. <<>> \in Seq({})
    OBVIOUS
  <1>2. DOMAIN <<>> = {}
    OBVIOUS
  <1>. QED
    BY <1>1, <1>2, SeqFacts

LEMMA FunctionIsSeq ==
    ASSUME NEW n \in Nat, NEW s, s = [i \in 1..n |-> s[i]]
    PROVE  IsSeq(s) /\ Len(s) = n
  <1>1. s \in [1..n -> Range(s)]
    BY DEF Range
  <1>. QED
    BY <1>1 DEF IsSeq

\* The positions that are kept come in their order, each once.
LEMMA AscendingFacts ==
    ASSUME NEW n \in Nat, NEW positions \in SUBSET (1..n)
    PROVE  LET order == Ascending(positions) IN
           /\ IsFiniteSet(positions)
           /\ Cardinality(positions) \in 0..n
           /\ order \in [1..Cardinality(positions) -> positions]
           /\ IsSeq(order) /\ Len(order) = Cardinality(positions)
           /\ \A i \in positions : \E k \in DOMAIN order : order[k] = i
           /\ \A k, l \in DOMAIN order : k < l => order[k] < order[l]
  <1>. DEFINE order == {p \in positions \X positions : p[1] < p[2]}
  <1>1. IsFiniteSet(positions) /\ Cardinality(positions) <= n
    <2>1. IsFiniteSet(1..n) /\ Cardinality(1..n) = n
      BY FS_Interval
    <2>. QED
      BY <2>1, FS_Subset
  <1>2. StrictOrder(positions, order)
    BY DEF StrictOrder
  <1>. HIDE DEF order
  <1>3. /\ Cardinality(positions) \in Nat
        /\ Sorted(positions, order) \in [1..Cardinality(positions) -> positions]
        /\ \A i \in positions : \E k \in 1..Cardinality(positions) : Sorted(positions, order)[k] = i
        /\ \A k, l \in 1..Cardinality(positions) :
              k < l => <<Sorted(positions, order)[k], Sorted(positions, order)[l]>> \in order
    BY <1>1, <1>2, SortedFacts
  <1>4. /\ IsSeq(Sorted(positions, order))
        /\ Len(Sorted(positions, order)) = Cardinality(positions)
    BY <1>3, FunctionIsSeq
  <1>5. Ascending(positions) = Sorted(positions, order)
    BY DEF Ascending, order
  <1>6. \A k, l \in 1..Cardinality(positions) :
           k < l => Sorted(positions, order)[k] < Sorted(positions, order)[l]
    BY <1>3 DEF order
  <1>. QED
    BY <1>1, <1>3, <1>4, <1>5, <1>6

-----------------------------------------------------------------------------
(* The order of the queries.                                               *)

RowsOK ==
    /\ IsSeq(events)
    /\ \A i \in DOMAIN events :
          /\ events[i].event.time \in Int \cup {NoTime}
          /\ events[i].sequence_num \in Nat

\* ORDER BY event_time, sequence_num leaves no two rows unordered.
LEMMA BeforeIsStrict ==
    ASSUME RowsOK, NEW wanted \in SUBSET DOMAIN events
    PROVE  StrictOrder(wanted, {p \in wanted \X wanted : Before(p[1], p[2])})
  <1>1. wanted \in SUBSET Nat
    BY DEF RowsOK, IsSeq
  <1>2. \A i \in wanted : ~Before(i, i)
    BY <1>1 DEF RowsOK, Before
  <1>3. \A i, j, k \in wanted : Before(i, j) /\ Before(j, k) => Before(i, k)
    BY <1>1 DEF RowsOK, Before
  <1>4. \A i, j \in wanted : i # j => Before(i, j) \/ Before(j, i)
    BY <1>1 DEF RowsOK, Before
  <1>. QED
    BY <1>2, <1>3, <1>4 DEF StrictOrder

LEMMA OrderedFacts ==
    ASSUME RowsOK, NEW wanted \in SUBSET DOMAIN events
    PROVE  /\ Ordered(wanted) \in Seq(wanted)
           /\ \A i \in wanted : \E k \in DOMAIN Ordered(wanted) : Ordered(wanted)[k] = i
           /\ \A k, l \in DOMAIN Ordered(wanted) :
                 k < l => Before(Ordered(wanted)[k], Ordered(wanted)[l])
           /\ \A k, l \in DOMAIN Ordered(wanted) : k # l => Ordered(wanted)[k] # Ordered(wanted)[l]
           /\ IsFiniteSet(wanted)
  <1>. DEFINE order == {p \in wanted \X wanted : Before(p[1], p[2])}
  <1>1. IsFiniteSet(wanted)
    <2>1. IsFiniteSet(1..Len(events)) /\ DOMAIN events = 1..Len(events)
      BY FS_Interval DEF RowsOK, IsSeq
    <2>. QED
      BY <2>1, FS_Subset
  <1>2. StrictOrder(wanted, order)
    BY BeforeIsStrict
  <1>. HIDE DEF order
  <1>3. /\ Cardinality(wanted) \in Nat
        /\ Ordered(wanted) \in [1..Cardinality(wanted) -> wanted]
        /\ \A i \in wanted : \E k \in 1..Cardinality(wanted) : Ordered(wanted)[k] = i
        /\ \A k, l \in 1..Cardinality(wanted) :
              k < l => <<Ordered(wanted)[k], Ordered(wanted)[l]>> \in order
        /\ \A k, l \in 1..Cardinality(wanted) : k # l => Ordered(wanted)[k] # Ordered(wanted)[l]
    BY <1>1, <1>2, SortedFacts DEF Ordered, order
  <1>4. /\ DOMAIN Ordered(wanted) = 1..Cardinality(wanted)
        /\ Ordered(wanted) \in Seq(wanted)
    BY <1>3
  <1>5. \A k, l \in DOMAIN Ordered(wanted) : k < l => Before(Ordered(wanted)[k], Ordered(wanted)[l])
    BY <1>3, <1>4 DEF order
  <1>. QED
    BY <1>1, <1>3, <1>4, <1>5

\* The first of an ordered answer, with what is said of the rest.
LEMMA FirstAreWhole ==
    ASSUME RowsOK, NEW wanted \in SUBSET DOMAIN events, NEW limit \in 1..MAX_RESULTS
    PROVE  Whole(_format_events(FirstOf(Ordered(wanted), limit), limit), wanted)
  <1>. DEFINE all == Ordered(wanted)
              most == IF Len(all) < limit THEN Len(all) ELSE limit
              ids == FirstOf(all, limit)
  <1>1. /\ all \in Seq(wanted) /\ Len(all) \in Nat /\ DOMAIN all = 1..Len(all)
        /\ \A i \in wanted : \E k \in 1..Len(all) : all[k] = i
        /\ \A k, l \in 1..Len(all) : k < l => Before(all[k], all[l])
    BY OrderedFacts
  <1>2. most \in 0..Len(all) /\ limit \in Nat /\ most <= MAX_RESULTS
    BY <1>1, LimitsAssumption
  <1>3. /\ ids \in Seq(wanted) /\ Len(ids) = most /\ DOMAIN ids = 1..most
        /\ \A k \in 1..most : ids[k] = all[k]
    <2>. HIDE DEF all
    <2>1. 1 \in 1..(Len(all) + 1) /\ most \in 0..Len(all)
      BY <1>1, <1>2
    <2>2. /\ SubSeq(all, 1, most) \in Seq(wanted)
          /\ Len(SubSeq(all, 1, most)) = IF 1 <= most THEN most - 1 + 1 ELSE 0
          /\ \A i \in 1..(most - 1 + 1) : SubSeq(all, 1, most)[i] = all[1 + i - 1]
      BY <1>1, <2>1, SubSeqProperties
    <2>. QED
      BY <1>1, <1>2, <2>2 DEF FirstOf
  <1>10. Len(ids) < limit => most = Len(all)
    <2>1. Len(ids) = most
      BY <1>3
    <2>2. most = Len(all) \/ most = limit
      OBVIOUS
    <2>3. limit \in Nat
      BY <1>2
    <2>. HIDE DEF all, ids, most
    <2>. QED
      BY <2>1, <2>2, <2>3
  <1>. HIDE DEF all
  <1>4. \A i \in {ids[k] : k \in DOMAIN ids} : i \in wanted
    BY <1>3
  <1>5. Len(ids) < limit => \A i \in wanted : \E k \in DOMAIN ids : ids[k] = i
    <2>. SUFFICES ASSUME Len(ids) < limit, NEW i \in wanted
                  PROVE  \E k \in DOMAIN ids : ids[k] = i
      OBVIOUS
    <2>1. PICK k \in 1..Len(all) : all[k] = i
      BY <1>1
    <2>2. most = Len(all)
      BY <1>10
    <2>. QED
      BY <1>3, <2>1, <2>2
  <1>6. \A i \in {ids[k] : k \in DOMAIN ids}, j \in wanted \ {ids[k] : k \in DOMAIN ids} : Before(i, j)
    <2>. SUFFICES ASSUME NEW k \in DOMAIN ids, NEW j \in wanted, j \notin {ids[l] : l \in DOMAIN ids}
                  PROVE  Before(ids[k], j)
      OBVIOUS
    <2>1. PICK l \in 1..Len(all) : all[l] = j
      BY <1>1
    <2>2. l > most
      BY <1>1, <1>2, <1>3, <2>1
    <2>. QED
      BY <1>1, <1>2, <1>3, <2>1, <2>2
  <1>7. Len(ids) <= MAX_RESULTS /\ (~(Len(ids) >= limit) => Len(ids) < limit)
    BY <1>1, <1>2, <1>3
  <1>. HIDE DEF ids, most
  <1>8. Whole(_format_events(ids, limit), wanted)
    <2>. DEFINE answer == _format_events(ids, limit)
                given == {ids[k] : k \in DOMAIN ids}
    <2>1. answer.ids = ids /\ (~answer.truncated => Len(ids) < limit)
      BY <1>7 DEF _format_events
    <2>2. given \subseteq wanted /\ (Len(ids) < limit => given = wanted)
      BY <1>4, <1>5
    <2>3. \A i \in given, j \in wanted \ given : Before(i, j)
      BY <1>6
    <2>. HIDE DEF answer
    <2>4. Len(answer.ids) <= MAX_RESULTS
      BY <1>7, <2>1
    <2>5. {answer.ids[k] : k \in DOMAIN answer.ids} = given
      BY <2>1
    <2>. HIDE DEF given
    <2>6. Whole(answer, wanted)
      BY <2>1, <2>2, <2>3, <2>4, <2>5, Zenon DEF Whole
    <2>. QED
      BY <2>6 DEF answer
  <1>. QED
    BY <1>8 DEF ids, all

-----------------------------------------------------------------------------
(* Evidence.                                                               *)

LEMMA ClampType ==
    ASSUME NEW limit \in Int
    PROVE  _clamp(limit, MAX_RESULTS, DEFAULT_RESULTS) \in 1..MAX_RESULTS
  BY LimitsAssumption DEF _clamp

LEMMA WindowType ==
    ASSUME NEW asked \in Int
    PROVE  LET window == _clamp(asked, MAX_WINDOW, DEFAULT_WINDOW) IN
           /\ window \in 1..MAX_WINDOW
           /\ window = asked \/ asked \notin 1..MAX_WINDOW
  BY LimitsAssumption DEF _clamp

LEMMA DaysFinite ==
    ASSUME NEW ids, IsFiniteSet(ids), NEW some \in SUBSET ids
    PROVE  /\ IsFiniteSet(Days(ids))
           /\ Cardinality(Days(ids)) \in Nat
           /\ Cardinality(Days(some)) \in Nat
           /\ Cardinality(Days(some)) <= Cardinality(Days(ids))
  <1>. DEFINE times == {events[i].event.time : i \in ids}
              of == [i \in ids |-> events[i].event.time]
  <1>1. of \in Surjection(ids, times)
    BY DEF Surjection
  <1>2. IsFiniteSet(times)
    BY <1>1, FS_Surjection
  <1>3. Days(ids) \in SUBSET times /\ Days(some) \in SUBSET Days(ids)
    BY DEF Days
  <1>4. IsFiniteSet(Days(ids)) /\ IsFiniteSet(Days(some))
    BY <1>2, <1>3, FS_Subset
  <1>. QED
    BY <1>3, <1>4, FS_Subset, FS_CardinalityType

\* The rows of a rate are the cluster's, cut in two by their node.
LEMMA RateIsWhole ==
    ASSUME RowsOK, NEW context, NEW name, NEW node, node # NoNode
    PROVE  LET own  == {i \in DOMAIN events : context.scoped => events[i].cluster = context.cluster}
               rate == get_event_rate_baseline(name, node, context)
           IN  /\ rate.total_occurrences + rate.elsewhere_in_cluster =
                     Cardinality({i \in own : events[i].event.event_name = name
                                              /\ events[i].event.node # NoNode})
               /\ rate.days_seen_on <= rate.corpus_days
  <1>. DEFINE own  == {i \in DOMAIN events : OwnEvent(i, context)}
              here == {i \in DOMAIN events : (OwnEvent(i, context) /\ events[i].event.event_name = name)
                                             /\ events[i].event.node = node}
              away == {i \in DOMAIN events : (OwnEvent(i, context) /\ events[i].event.event_name = name)
                                             /\ events[i].event.node \notin {node, NoNode}}
              both == {i \in own : events[i].event.event_name = name /\ events[i].event.node # NoNode}
              rate == get_event_rate_baseline(name, node, context)
  <1>1. /\ here \in SUBSET own /\ away \in SUBSET own
        /\ here \cup away = both /\ here \cap away = {}
    OBVIOUS
  <1>2. IsFiniteSet(own)
    BY OrderedFacts
  <1>3. IsFiniteSet(here) /\ IsFiniteSet(away)
    BY <1>1, <1>2, FS_Subset
  <1>4. /\ rate.total_occurrences = Cardinality(here)
        /\ rate.elsewhere_in_cluster = Cardinality(away)
        /\ rate.days_seen_on = Cardinality(Days(here))
        /\ rate.corpus_days = Cardinality(Days(own))
    BY DEF get_event_rate_baseline
  <1>5. own = {i \in DOMAIN events : context.scoped => events[i].cluster = context.cluster}
    BY DEF OwnEvent
  <1>. HIDE DEF own, here, away, rate
  <1>6. Cardinality(both) = Cardinality(here) + Cardinality(away)
    <2>1. Cardinality(here \cup away) = Cardinality(here) + Cardinality(away) - Cardinality(here \cap away)
      BY <1>3, FS_Union
    <2>2. Cardinality(here \cap away) = 0
      BY <1>1, FS_EmptySet
    <2>3. Cardinality(here) \in Nat /\ Cardinality(away) \in Nat
      BY <1>3, FS_CardinalityType
    <2>4. Cardinality(both) = Cardinality(here \cup away)
      BY <1>1
    <2>. HIDE DEF both
    <2>. QED
      BY <2>1, <2>2, <2>3, <2>4
  <1>7. Cardinality(Days(here)) <= Cardinality(Days(own))
    BY <1>1, <1>2, DaysFinite
  <1>. QED
    BY <1>4, <1>5, <1>6, <1>7 DEF rate

LEMMA EvidenceFromRows ==
    ASSUME RowsOK
    PROVE  EvidenceIsWhole
  <1>. SUFFICES ASSUME NEW context \in Contexts
                PROVE  LET own == {i \in DOMAIN events : context.scoped => events[i].cluster = context.cluster} IN
                       /\ \A filter \in Filters, limit \in Limits :
                             Whole(query_events(filter, limit, context), {i \in own : Selected(i, filter)})
                       /\ \A anchor \in DOMAIN events, asked \in Windows :
                             \E window \in 1..MAX_WINDOW :
                                 /\ window = asked \/ asked \notin 1..MAX_WINDOW
                                 /\ Whole(get_event_context(anchor, asked, context),
                                          {i \in own : Near(anchor, i, window)})
                       /\ \A node \in SeenNodes, name \in {events[i].event.event_name : i \in DOMAIN events} :
                             LET rate == get_event_rate_baseline(name, node, context) IN
                             /\ rate.total_occurrences + rate.elsewhere_in_cluster =
                                   Cardinality({i \in own : events[i].event.event_name = name
                                                            /\ events[i].event.node # NoNode})
                             /\ rate.days_seen_on <= rate.corpus_days
    BY DEF EvidenceIsWhole
  <1>. DEFINE own == {i \in DOMAIN events : context.scoped => events[i].cluster = context.cluster}
  <1>1. ASSUME NEW filter \in Filters, NEW limit \in Limits
        PROVE  Whole(query_events(filter, limit, context), {i \in own : Selected(i, filter)})
    <2>. DEFINE wanted == {i \in DOMAIN events : OwnEvent(i, context) /\ Selected(i, filter)}
                capped == _clamp(limit, MAX_RESULTS, DEFAULT_RESULTS)
    <2>1. wanted = {i \in own : Selected(i, filter)} /\ wanted \in SUBSET DOMAIN events
      BY DEF OwnEvent
    <2>2. capped \in 1..MAX_RESULTS
      BY ClampType, ToolsAssumption
    <2>3. query_events(filter, limit, context) = _format_events(FirstOf(Ordered(wanted), capped), capped)
      BY DEF query_events
    <2>. HIDE DEF wanted, capped
    <2>4. Whole(query_events(filter, limit, context), wanted)
      BY <2>1, <2>2, <2>3, FirstAreWhole
    <2>. QED
      BY <2>1, <2>4
  <1>2. ASSUME NEW anchor \in DOMAIN events, NEW asked \in Windows
        PROVE  \E window \in 1..MAX_WINDOW :
                  /\ window = asked \/ asked \notin 1..MAX_WINDOW
                  /\ Whole(get_event_context(anchor, asked, context),
                           {i \in own : Near(anchor, i, window)})
    <2>. DEFINE window == _clamp(asked, MAX_WINDOW, DEFAULT_WINDOW)
                wanted == {i \in DOMAIN events : OwnEvent(i, context) /\ Near(anchor, i, window)}
    <2>1. wanted = {i \in own : Near(anchor, i, window)} /\ wanted \in SUBSET DOMAIN events
      BY DEF OwnEvent
    <2>2. MAX_RESULTS \in 1..MAX_RESULTS
      BY LimitsAssumption
    <2>3. get_event_context(anchor, asked, context)
             = _format_events(FirstOf(Ordered(wanted), MAX_RESULTS), MAX_RESULTS)
      BY DEF get_event_context
    <2>4. window \in 1..MAX_WINDOW /\ (window = asked \/ asked \notin 1..MAX_WINDOW)
      BY WindowType, ToolsAssumption
    <2>. HIDE DEF wanted, window
    <2>5. Whole(get_event_context(anchor, asked, context), wanted)
      BY <2>1, <2>2, <2>3, FirstAreWhole
    <2>. QED
      BY <2>1, <2>4, <2>5
  <1>3. \A node \in SeenNodes, name \in {events[i].event.event_name : i \in DOMAIN events} :
           LET rate == get_event_rate_baseline(name, node, context) IN
           /\ rate.total_occurrences + rate.elsewhere_in_cluster =
                 Cardinality({i \in own : events[i].event.event_name = name
                                          /\ events[i].event.node # NoNode})
           /\ rate.days_seen_on <= rate.corpus_days
    BY RateIsWhole DEF SeenNodes
  <1>. QED
    BY <1>1, <1>2, <1>3

-----------------------------------------------------------------------------
(* Recursion.  What a recursive function is said to be it is only if there *)
(* is such a function: it is built one argument after the other.           *)

LEMMA Smallest ==
    ASSUME NEW S \in SUBSET Nat, S # {}
    PROVE  \E m \in S : \A k \in S : m <= k
  <1>1. PICK m \in S : \A k \in S : ~(<<k, m>> \in OpToRel(<, Nat))
    BY NatLessThanWellFounded, WFMin
  <1>2. ASSUME NEW k \in S PROVE m <= k
    <2>1. ~(k < m)
      BY <1>1 DEF OpToRel
    <2>. QED
      BY <2>1
  <1>. QED
    BY <1>2

WalkStep(stamps, reference, walk, i) ==
    IF i > Len(stamps)
    THEN [year |-> YearOf(reference), later |-> NoTime, date |-> NoTime]
    ELSE IF stamps[i] = NoTime THEN [walk[i + 1] EXCEPT !.date = NoTime]
         ELSE DateLine(stamps[i], walk[i + 1], reference)

\* The walk from the last line to the first is what its definition says.
LEMMA WalkUnfolds ==
    ASSUME NEW stamps, Len(stamps) \in Nat, NEW reference
    PROVE  WalkOf(stamps, reference) =
              [i \in 1..(Len(stamps) + 1) |->
                  WalkStep(stamps, reference, WalkOf(stamps, reference), i)]
  <1>. DEFINE n == Len(stamps)
              From(m, g) == g = [i \in (n + 1 - m)..(n + 1) |-> WalkStep(stamps, reference, g, i)]
              bad == {m \in 0..n : ~\E g : From(m, g)}
  <1>1. bad = {}
    <2>. SUFFICES ASSUME bad # {} PROVE FALSE
      OBVIOUS
    <2>1. PICK m \in bad : \A k \in bad : m <= k
      <3>1. bad \in SUBSET Nat
        OBVIOUS
      <3>. HIDE DEF bad
      <3>. QED
        BY <3>1, Smallest
    <2>2. CASE m = 0
      <3>. DEFINE g == [i \in (n + 1)..(n + 1) |->
                           [year |-> YearOf(reference), later |-> NoTime, date |-> NoTime]]
      <3>1. \A i \in (n + 1)..(n + 1) : WalkStep(stamps, reference, g, i) = g[i]
        BY DEF WalkStep
      <3>2. From(0, g)
        BY <3>1
      <3>. QED
        BY <2>2, <3>2
    <2>3. CASE m # 0
      <3>1. m \in 1..n /\ m - 1 \in 0..n /\ m - 1 \notin bad
        <4>1. m \in 0..n
          BY <2>1
        <4>2. m \in 1..n /\ m - 1 \in 0..n /\ ~(m <= m - 1)
          BY <2>3, <4>1
        <4>. HIDE DEF bad
        <4>. QED
          BY <2>1, <4>2
      <3>2. PICK g : From(m - 1, g)
        BY <3>1
      <3>. DEFINE h == [i \in (n + 1 - m)..(n + 1) |->
                          IF i = n + 1 - m THEN WalkStep(stamps, reference, g, i) ELSE g[i]]
      <3>3. \A i \in (n + 1 - m)..(n + 1) : WalkStep(stamps, reference, h, i) = h[i]
        <4>. SUFFICES ASSUME NEW i \in (n + 1 - m)..(n + 1)
                      PROVE  WalkStep(stamps, reference, h, i) = h[i]
          OBVIOUS
        <4>1. i <= n => i + 1 \in (n + 1 - m)..(n + 1) /\ h[i + 1] = g[i + 1]
          BY <3>1
        <4>2. WalkStep(stamps, reference, h, i) = WalkStep(stamps, reference, g, i)
          <5>1. n \in Nat /\ i \in Int /\ (i > n \/ i <= n)
            BY <3>1
          <5>. HIDE DEF h
          <5>2. CASE i > n
            BY <5>2 DEF WalkStep
          <5>3. CASE i <= n /\ ~(i > n)
            BY <4>1, <5>3 DEF WalkStep
          <5>. QED
            BY <5>1, <5>2, <5>3
        <4>3. i # n + 1 - m => i \in (n + 1 - (m - 1))..(n + 1)
          BY <3>1
        <4>. QED
          BY <3>2, <4>2, <4>3
      <3>4. From(m, h)
        BY <3>3
      <3>. QED
        BY <3>4
    <2>. QED
      BY <2>2, <2>3
  <1>2. \E g : g = [i \in 1..(n + 1) |-> WalkStep(stamps, reference, g, i)]
    <2>1. n \in 0..n /\ n + 1 - n = 1
      OBVIOUS
    <2>2. \E g : From(n, g)
      BY <1>1, <2>1
    <2>. QED
      BY <2>1, <2>2
  <1>. QED
    BY <1>2 DEF WalkOf, WalkStep

GroupsStep(ids, groups, n) ==
    IF n = 0 THEN <<>> ELSE AddToGroups(groups[n - 1], ids[n])

\* So are the groups after each of the events.
LEMMA GroupsUnfold ==
    ASSUME NEW ids, Len(ids) \in Nat
    PROVE  GroupsOf(ids) = [n \in 0..Len(ids) |-> GroupsStep(ids, GroupsOf(ids), n)]
  <1>. DEFINE To(m, g) == g = [n \in 0..m |-> GroupsStep(ids, g, n)]
              bad == {m \in 0..Len(ids) : ~\E g : To(m, g)}
  <1>1. bad = {}
    <2>. SUFFICES ASSUME bad # {} PROVE FALSE
      OBVIOUS
    <2>1. PICK m \in bad : \A k \in bad : m <= k
      <3>1. bad \in SUBSET Nat
        OBVIOUS
      <3>. HIDE DEF bad
      <3>. QED
        BY <3>1, Smallest
    <2>2. CASE m = 0
      <3>. DEFINE g == [n \in 0..0 |-> <<>>]
      <3>1. \A n \in 0..0 : GroupsStep(ids, g, n) = g[n]
        BY DEF GroupsStep
      <3>2. To(0, g)
        BY <3>1
      <3>. QED
        BY <2>2, <3>2
    <2>3. CASE m # 0
      <3>1. m \in 1..Len(ids) /\ m - 1 \in 0..Len(ids) /\ m - 1 \notin bad
        BY <2>1, <2>3
      <3>2. PICK g : To(m - 1, g)
        BY <3>1
      <3>. DEFINE h == [n \in 0..m |-> IF n = m THEN GroupsStep(ids, g, n) ELSE g[n]]
      <3>3. \A n \in 0..m : GroupsStep(ids, h, n) = h[n]
        <4>. SUFFICES ASSUME NEW n \in 0..m PROVE GroupsStep(ids, h, n) = h[n]
          OBVIOUS
        <4>1. n # 0 => n - 1 \in 0..m /\ h[n - 1] = g[n - 1]
          BY <3>1
        <4>2. GroupsStep(ids, h, n) = GroupsStep(ids, g, n)
          BY <4>1 DEF GroupsStep
        <4>3. n # m => n \in 0..(m - 1)
          BY <3>1
        <4>. QED
          BY <3>2, <4>2, <4>3
      <3>4. To(m, h)
        BY <3>3
      <3>. QED
        BY <3>4
    <2>. QED
      BY <2>2, <2>3
  <1>2. \E g : g = [n \in 0..Len(ids) |-> GroupsStep(ids, g, n)]
    BY <1>1
  <1>. QED
    BY <1>2 DEF GroupsOf, GroupsStep

-----------------------------------------------------------------------------
(* The calendar.                                                           *)

LEMMA NewYearFacts ==
    ASSUME NEW year \in Int
    PROVE  /\ NewYear(year) \in Int
           /\ NewYear(year + 1) = NewYear(year) + YearLength - (IF IsLeap(year) THEN 0 ELSE 1)
  <1>. DEFINE long == YearLength - 1
  <1>1. long \in Nat /\ YearLength \in Nat
    BY CalendarAssumption
  <1>2. (year + 1) * long = year * long + long /\ year * long \in Int
    <2>. HIDE DEF long
    <2>. QED
      BY <1>1
  <1>3. (year + 1 + 3) \div 4 = (year + 3) \div 4 + (IF year % 4 = 0 THEN 1 ELSE 0)
    OBVIOUS
  <1>4. NewYear(year) = year * long + (year + 3) \div 4
    BY DEF NewYear
  <1>5. NewYear(year + 1) = (year + 1) * long + (year + 1 + 3) \div 4
    BY DEF NewYear
  <1>. QED
    BY <1>1, <1>2, <1>3, <1>4, <1>5 DEF IsLeap

LEMMA NewYearLarge ==
    ASSUME NEW year \in Nat
    PROVE  NewYear(year) \in Nat /\ NewYear(year) >= year
  <1>. DEFINE long == YearLength - 1
  <1>1. long \in Nat /\ long >= 1
    BY CalendarAssumption
  <1>2. year * long \in Nat /\ year * long >= year
    <2>. HIDE DEF long
    <2>1. year * long = year + year * (long - 1) /\ long - 1 \in Nat
      BY <1>1
    <2>. QED
      BY <2>1
  <1>3. (year + 3) \div 4 \in Nat
    OBVIOUS
  <1>4. NewYear(year) = year * long + (year + 3) \div 4
    BY DEF NewYear
  <1>. HIDE DEF long
  <1>. QED
    BY <1>1, <1>2, <1>3, <1>4

\* Every moment is in a year.
LEMMA YearOfFacts ==
    ASSUME NEW time \in Nat
    PROVE  /\ YearOf(time) \in 0..time
           /\ NewYear(YearOf(time)) <= time
           /\ time < NewYear(YearOf(time) + 1)
  <1>. DEFINE over == {year \in 0..time : time < NewYear(year + 1)}
  <1>1. time \in over
    <2>1. NewYear(time + 1) \in Nat /\ NewYear(time + 1) >= time + 1
      BY NewYearLarge
    <2>. QED
      BY <2>1
  <1>2. PICK year \in over : \A k \in over : year <= k
    <2>1. over \in SUBSET Nat
      OBVIOUS
    <2>. HIDE DEF over
    <2>. QED
      BY <1>1, <2>1, Smallest
  <1>3. year \in 0..time /\ time < NewYear(year + 1)
    BY <1>2
  <1>4. NewYear(year) <= time
    <2>1. CASE year = 0
      <3>1. 0 * (YearLength - 1) = 0 /\ (0 + 3) \div 4 = 0
        BY CalendarAssumption
      <3>. QED
        BY <2>1, <3>1 DEF NewYear
    <2>2. CASE year # 0
      <3>1. year - 1 \in 0..time /\ ~(year <= year - 1) /\ year - 1 + 1 = year
        BY <1>3, <2>2
      <3>2. year - 1 \notin over
        BY <1>2, <3>1
      <3>3. ~(time < NewYear(year - 1 + 1))
        BY <3>1, <3>2
      <3>4. NewYear(year) \in Int
        BY <1>3, NewYearFacts
      <3>. QED
        BY <3>1, <3>3, <3>4
    <2>. QED
      BY <2>1, <2>2
  <1>5. \E y \in 0..time : NewYear(y) <= time /\ time < NewYear(y + 1)
    BY <1>3, <1>4
  <1>. QED
    BY <1>5 DEF YearOf

IsStamp(stamp) == stamp.place \in 0..(YearLength - 1) /\ stamp.offset \in Int

\* The place a stamp gives is one of a leap year's.
LEMMA StampType ==
    ASSUME NEW time \in Int, NEW offset \in Int, time + offset \in Nat
    PROVE  IsStamp(Stamp(time, offset)) /\ Stamp(time, offset).offset = offset
  <1>. DEFINE year == YearOf(time + offset)
              place == time + offset - NewYear(year)
  <1>1. /\ year \in Nat
        /\ NewYear(year) \in Int
        /\ NewYear(year) <= time + offset /\ time + offset < NewYear(year + 1)
        /\ NewYear(year + 1) = NewYear(year) + YearLength - (IF IsLeap(year) THEN 0 ELSE 1)
    <2>1. year \in 0..(time + offset)
      BY YearOfFacts
    <2>. QED
      BY <2>1, YearOfFacts, NewYearFacts
  <1>2. /\ place \in Nat
        /\ place < YearLength /\ (~IsLeap(year) => place < YearLength - 1)
    <2>. HIDE DEF year
    <2>. QED
      BY <1>1, CalendarAssumption
  <1>3. Stamp(time, offset) = [place |-> IF ~IsLeap(year) /\ place >= LeapUnit THEN place + 1 ELSE place,
                               offset |-> offset]
    BY DEF Stamp
  <1>. HIDE DEF place, year
  <1>. QED
    BY <1>2, <1>3, CalendarAssumption DEF IsStamp

LEMMA NewYearMonotone ==
    ASSUME NEW first \in Int, NEW last \in Int, first <= last
    PROVE  NewYear(first) <= NewYear(last)
  <1>. DEFINE long == YearLength - 1
              more == last - first
  <1>1. long \in Nat /\ more \in Nat /\ last = first + more
    BY CalendarAssumption
  <1>2. (first + more) * long = first * long + more * long
    <2>. HIDE DEF long, more
    <2>. QED
      BY <1>1
  <1>3. more * long \in Nat /\ first * long \in Int
    <2>. HIDE DEF long, more
    <2>. QED
      BY <1>1
  <1>4. (first + 3) \div 4 <= (first + more + 3) \div 4
    <2>. HIDE DEF more
    <2>. QED
      BY <1>1
  <1>5. /\ NewYear(first) = first * long + (first + 3) \div 4
        /\ NewYear(last) = (first + more) * long + (first + more + 3) \div 4
    BY <1>1 DEF NewYear
  <1>6. (first + 3) \div 4 \in Int /\ (first + more + 3) \div 4 \in Int
    OBVIOUS
  <1>. HIDE DEF long, more
  <1>. QED
    BY <1>2, <1>3, <1>4, <1>5, <1>6

InYear(date, year, offset) ==
    /\ date \in Int /\ date # NoTime
    /\ NewYear(year) <= date + offset
    /\ date + offset < NewYear(year + 1)

\* A stamp is a moment of every year that has its day.
LEMMA BuildFacts ==
    ASSUME NEW stamp, IsStamp(stamp), NEW year \in Int
    PROVE  /\ _build(stamp, year) = NoTime => stamp.place = LeapUnit /\ ~IsLeap(year)
           /\ _build(stamp, year) # NoTime => InYear(_build(stamp, year), year, stamp.offset)
  <1>1. /\ NewYear(year) \in Int
        /\ NewYear(year + 1) = NewYear(year) + YearLength - (IF IsLeap(year) THEN 0 ELSE 1)
    BY NewYearFacts
  <1>. DEFINE date == NewYear(year) + stamp.place - stamp.offset
                      - (IF stamp.place > LeapUnit /\ ~IsLeap(year) THEN 1 ELSE 0)
  <1>2. CASE stamp.place = LeapUnit /\ ~IsLeap(year)
    BY <1>2 DEF _build
  <1>3. CASE ~(stamp.place = LeapUnit /\ ~IsLeap(year))
    <2>1. _build(stamp, year) = date
      BY <1>3 DEF _build
    <2>2. /\ date \in Int
          /\ NewYear(year) <= date + stamp.offset /\ date + stamp.offset < NewYear(year + 1)
      BY <1>1, <1>3, CalendarAssumption DEF IsStamp
    <2>3. date # NoTime
      BY <2>2, CalendarAssumption
    <2>. HIDE DEF date
    <2>. QED
      BY <2>1, <2>2, <2>3 DEF InYear
  <1>. QED
    BY <1>2, <1>3

\* A date in an earlier year is an earlier date.
LEMMA EarlierYear ==
    ASSUME NEW first \in Int, NEW last \in Int, first < last, NEW offset \in Int, NEW a, NEW b,
           InYear(a, first, offset), b \in Int, NewYear(last) <= b + offset
    PROVE  a < b
  <1>1. NewYear(first + 1) <= NewYear(last)
    BY NewYearMonotone
  <1>2. NewYear(first + 1) \in Int /\ NewYear(last) \in Int
    BY NewYearFacts
  <1>. QED
    BY <1>1, <1>2 DEF InYear

\* What a walk knows before it dates a line.
IsWalk(walk, reference, offset) ==
    /\ walk.year \in Int
    /\ \/ walk.later = NoTime /\ walk.year = YearOf(reference)
       \/ InYear(walk.later, walk.year, offset)

(***************************************************************************)
(* Within the attempts there is a year that has the day and whose date     *)
(* fits; the line is dated in the last such year.                          *)
(***************************************************************************)
LEMMA DateLineFacts ==
    ASSUME NEW stamp, IsStamp(stamp), NEW reference \in Nat, NEW walk,
           stamp.offset \in (-_FUTURE_SLACK).._FUTURE_SLACK,
           IsWalk(walk, reference, stamp.offset)
    PROVE  LET after == DateLine(stamp, walk, reference) IN
           /\ DOMAIN after = {"year", "later", "date"}
           /\ after.date = _build(stamp, after.year) /\ after.later = after.date
           /\ after.year \in (walk.year - 4)..walk.year
           /\ InYear(after.date, after.year, stamp.offset)
           /\ Fits(after.date, walk.later, reference)
           /\ \A year \in (after.year + 1)..walk.year :
                 LET date == _build(stamp, year) IN date = NoTime \/ ~Fits(date, walk.later, reference)
  <1>. DEFINE Fit(k) == LET date == _build(stamp, walk.year - k)
                        IN  date # NoTime /\ Fits(date, walk.later, reference)
              fitting == {k \in 0..(Attempts - 1) : Fit(k)}
  <1>1. /\ walk.year \in Int /\ stamp.offset \in Int /\ _FUTURE_SLACK \in Nat
        /\ _ROLLOVER_TOLERANCE \in Nat
    BY CalendarAssumption DEF IsWalk
  <1>2. ASSUME NEW k \in 1..4, stamp.place # LeapUnit \/ IsLeap(walk.year - k)
        PROVE  k \in fitting
    <2>. DEFINE date == _build(stamp, walk.year - k)
    <2>1. walk.year - k \in Int /\ walk.year - k < walk.year
      BY <1>1
    <2>2. date # NoTime /\ InYear(date, walk.year - k, stamp.offset)
      BY <1>2, <2>1, BuildFacts
    <2>. HIDE DEF date
    <2>3. date \in Int
      BY <2>2 DEF InYear
    <2>4. CASE walk.later = NoTime /\ walk.year = YearOf(reference)
      <3>. DEFINE b == reference - stamp.offset
      <3>1. NewYear(walk.year) <= reference
        BY <2>4, YearOfFacts
      <3>2. b \in Int /\ NewYear(walk.year) <= b + stamp.offset
        BY <1>1, <3>1
      <3>. HIDE DEF b
      <3>3. date < b
        BY <1>1, <2>1, <2>2, <3>2, EarlierYear
      <3>4. date <= reference + _FUTURE_SLACK
        BY <1>1, <2>3, <3>3 DEF b
      <3>. QED
        BY <2>2, <2>4, <3>4 DEF Fits, Attempts, date
    <2>5. CASE InYear(walk.later, walk.year, stamp.offset)
      <3>1. walk.later \in Int /\ NewYear(walk.year) <= walk.later + stamp.offset
            /\ walk.later # NoTime
        BY <2>5 DEF InYear
      <3>2. date < walk.later
        BY <1>1, <2>1, <2>2, <3>1, EarlierYear
      <3>3. date <= walk.later + _ROLLOVER_TOLERANCE
        BY <1>1, <2>3, <3>1, <3>2
      <3>. QED
        BY <2>2, <3>1, <3>3 DEF Fits, Attempts, date
    <2>. QED
      BY <2>4, <2>5 DEF IsWalk
  <1>3. \E k \in 1..4 : stamp.place # LeapUnit \/ IsLeap(walk.year - k)
    <2>1. \E k \in 1..4 : (walk.year - k) % 4 = 0
      BY <1>1
    <2>. QED
      BY <2>1 DEF IsLeap
  <1>4. PICK used \in fitting : \A j \in fitting : used <= j
    <2>1. fitting \in SUBSET Nat /\ fitting # {}
      BY <1>2, <1>3 DEF Attempts
    <2>. HIDE DEF fitting
    <2>. QED
      BY <2>1, Smallest
  <1>5. used \in 0..4 /\ Fit(used) /\ \A k \in 0..4 : Fit(k) => used <= k
    BY <1>4 DEF Attempts
  <1>6. used = CHOOSE k \in fitting : \A j \in fitting : k <= j
    <2>1. \A k \in fitting : (\A j \in fitting : k <= j) => k = used
      BY <1>4, <1>5 DEF Attempts
    <2>. HIDE DEF fitting
    <2>. QED
      BY <1>4, <2>1
  <1>. DEFINE after == DateLine(stamp, walk, reference)
              date == _build(stamp, walk.year - used)
  <1>7. after = [year |-> walk.year - used, later |-> date, date |-> date]
    <2>1. fitting # {} /\ date # NoTime
      BY <1>4, <1>5
    <2>. QED
      BY <1>6, <2>1 DEF DateLine
  <1>8. after.year = walk.year - used /\ after.date = date /\ after.later = date
        /\ DOMAIN after = {"year", "later", "date"}
    <2>. HIDE DEF after, date
    <2>. QED
      BY <1>7
  <1>. HIDE DEF after, fitting
  <1>9. walk.year - used \in (walk.year - 4)..walk.year /\ walk.year - used \in Int
    BY <1>1, <1>5
  <1>10. InYear(date, walk.year - used, stamp.offset) /\ Fits(date, walk.later, reference)
    BY <1>5, <1>9, BuildFacts
  <1>11. ASSUME NEW year \in (walk.year - used + 1)..walk.year
         PROVE  _build(stamp, year) = NoTime \/ ~Fits(_build(stamp, year), walk.later, reference)
    <2>. DEFINE k == walk.year - year
    <2>1. k \in 0..4 /\ ~(used <= k) /\ walk.year - k = year
      BY <1>1, <1>5
    <2>2. ~Fit(k)
      BY <1>5, <2>1
    <2>. QED
      BY <2>1, <2>2
  <1>12. \A year \in (after.year + 1)..walk.year :
            _build(stamp, year) = NoTime \/ ~Fits(_build(stamp, year), walk.later, reference)
    BY <1>8, <1>11
  <1>13. /\ DOMAIN after = {"year", "later", "date"}
         /\ after.date = _build(stamp, after.year) /\ after.later = after.date
         /\ after.year \in (walk.year - 4)..walk.year
         /\ InYear(after.date, after.year, stamp.offset)
         /\ Fits(after.date, walk.later, reference)
    BY <1>8, <1>9, <1>10
  <1>. QED
    BY <1>12, <1>13 DEF after

-----------------------------------------------------------------------------
(* The walk of a file.                                                     *)

\* The stamps of the lines of one file, read on one clock.
AreStamps(stamps, offset) ==
    /\ Len(stamps) \in Nat /\ DOMAIN stamps = 1..Len(stamps)
    /\ \A i \in DOMAIN stamps :
          stamps[i] # NoTime => IsStamp(stamps[i]) /\ stamps[i].offset = offset
    /\ offset \in (-_FUTURE_SLACK).._FUTURE_SLACK

\* The first stamp from a line on.
FirstFrom(stamps, i, j) ==
    /\ j \in i..Len(stamps)
    /\ stamps[j] # NoTime
    /\ \A k \in i..(j - 1) : stamps[k] = NoTime

\* Before a line is dated the walk knows the line after it, if there is one.
Knows(stamps, reference, offset, i) ==
    LET walk == WalkOf(stamps, reference) IN
    /\ DOMAIN walk[i] = {"year", "later", "date"}
    /\ walk[i].year \in Int
    /\ \/ /\ walk[i].later = NoTime /\ walk[i].year = YearOf(reference)
          /\ \A k \in i..Len(stamps) : stamps[k] = NoTime
       \/ \E j \in i..Len(stamps) :
             /\ FirstFrom(stamps, i, j)
             /\ walk[i].later = walk[j].date /\ walk[i].year = walk[j].year
             /\ InYear(walk[j].date, walk[j].year, offset)

\* What dating a line does, from what the walk knew.
LEMMA WalkDates ==
    ASSUME NEW stamps, NEW offset, AreStamps(stamps, offset), NEW reference \in Nat,
           NEW i \in 1..Len(stamps), Knows(stamps, reference, offset, i + 1),
           stamps[i] # NoTime
    PROVE  LET walk == WalkOf(stamps, reference) IN
           /\ walk[i] = DateLine(stamps[i], walk[i + 1], reference)
           /\ DOMAIN walk[i] = {"year", "later", "date"}
           /\ walk[i].date = _build(stamps[i], walk[i].year) /\ walk[i].later = walk[i].date
           /\ walk[i].year \in (walk[i + 1].year - 4)..walk[i + 1].year
           /\ InYear(walk[i].date, walk[i].year, offset)
           /\ Fits(walk[i].date, walk[i + 1].later, reference)
           /\ \A year \in (walk[i].year + 1)..walk[i + 1].year :
                 LET date == _build(stamps[i], year) IN
                 date = NoTime \/ ~Fits(date, walk[i + 1].later, reference)
  <1>. DEFINE walk == WalkOf(stamps, reference)
  <1>1. /\ IsStamp(stamps[i]) /\ stamps[i].offset = offset
        /\ offset \in (-_FUTURE_SLACK).._FUTURE_SLACK
        /\ Len(stamps) \in Nat
    BY DEF AreStamps
  <1>2. walk[i] = DateLine(stamps[i], walk[i + 1], reference)
    <2>1. walk = [k \in 1..(Len(stamps) + 1) |-> WalkStep(stamps, reference, walk, k)]
      BY <1>1, WalkUnfolds
    <2>. HIDE DEF walk
    <2>2. walk[i] = WalkStep(stamps, reference, walk, i)
      BY <1>1, <2>1
    <2>. QED
      BY <1>1, <2>2 DEF WalkStep
  <1>3. IsWalk(walk[i + 1], reference, offset)
    <2>. HIDE DEF walk
    <2>. QED
      BY DEF Knows, IsWalk, walk
  <1>. HIDE DEF walk
  <1>. QED
    BY <1>1, <1>2, <1>3, DateLineFacts DEF walk

LEMMA WalkKnows ==
    ASSUME NEW stamps, NEW offset, AreStamps(stamps, offset), NEW reference \in Nat
    PROVE  \A i \in 1..(Len(stamps) + 1) : Knows(stamps, reference, offset, i)
  <1>. DEFINE n == Len(stamps)
              walk == WalkOf(stamps, reference)
              bad == {m \in 0..n : ~Knows(stamps, reference, offset, n + 1 - m)}
  <1>1. n \in Nat
    BY DEF AreStamps
  <1>2. walk = [k \in 1..(n + 1) |-> WalkStep(stamps, reference, walk, k)]
    BY <1>1, WalkUnfolds
  <1>3. bad = {}
    <2>. SUFFICES ASSUME bad # {} PROVE FALSE
      OBVIOUS
    <2>1. PICK m \in bad : \A k \in bad : m <= k
      <3>1. bad \in SUBSET Nat
        OBVIOUS
      <3>. HIDE DEF bad
      <3>. QED
        BY <3>1, Smallest
    <2>. DEFINE i == n + 1 - m
    <2>2. m \in 0..n /\ i \in 1..(n + 1) /\ ~Knows(stamps, reference, offset, i)
      BY <1>1, <2>1
    <2>3. walk[i] = WalkStep(stamps, reference, walk, i)
      <3>. HIDE DEF walk, i
      <3>. QED
        BY <1>2, <2>2
    <2>4. CASE m = 0
      <3>1. i = n + 1 /\ i > n
        BY <1>1, <2>4
      <3>. HIDE DEF walk, i
      <3>2. walk[i] = [year |-> YearOf(reference), later |-> NoTime, date |-> NoTime]
        BY <2>3, <3>1 DEF WalkStep
      <3>3. YearOf(reference) \in Int
        BY YearOfFacts
      <3>4. \A k \in i..n : stamps[k] = NoTime
        BY <1>1, <3>1
      <3>5. Knows(stamps, reference, offset, i)
        BY <3>2, <3>3, <3>4 DEF Knows, walk
      <3>. QED
        BY <2>2, <3>5
    <2>5. CASE m # 0
      <3>1. m - 1 \in 0..n /\ ~(m <= m - 1) /\ n + 1 - (m - 1) = i + 1 /\ i \in 1..n
        BY <1>1, <2>2, <2>5
      <3>2. m - 1 \notin bad
        <4>. HIDE DEF bad
        <4>. QED
          BY <2>1, <3>1
      <3>3. Knows(stamps, reference, offset, i + 1)
        BY <3>1, <3>2
      <3>. HIDE DEF walk, i, bad
      <3>4. CASE stamps[i] = NoTime
        <4>1. walk[i] = [walk[i + 1] EXCEPT !.date = NoTime]
          BY <1>1, <2>3, <3>1, <3>4 DEF WalkStep
        <4>2. /\ DOMAIN walk[i] = {"year", "later", "date"}
              /\ walk[i].year = walk[i + 1].year /\ walk[i].later = walk[i + 1].later
              /\ walk[i].year \in Int
          BY <3>3, <4>1 DEF Knows, walk
        <4>3. CASE /\ walk[i + 1].later = NoTime /\ walk[i + 1].year = YearOf(reference)
                   /\ \A k \in (i + 1)..n : stamps[k] = NoTime
          <5>1. \A k \in i..n : k = i \/ k \in (i + 1)..n
            BY <1>1, <3>1
          <5>2. \A k \in i..n : stamps[k] = NoTime
            BY <3>4, <4>3, <5>1
          <5>. QED
            BY <2>2, <4>2, <4>3, <5>2 DEF Knows, walk
        <4>4. ASSUME NEW j \in (i + 1)..n,
                     FirstFrom(stamps, i + 1, j),
                     walk[i + 1].later = walk[j].date, walk[i + 1].year = walk[j].year,
                     InYear(walk[j].date, walk[j].year, offset)
              PROVE  FALSE
          <5>1. j \in i..n /\ \A k \in i..(j - 1) : k = i \/ k \in (i + 1)..(j - 1)
            BY <1>1, <3>1
          <5>2. FirstFrom(stamps, i, j)
            BY <3>4, <4>4, <5>1 DEF FirstFrom
          <5>. QED
            BY <2>2, <4>2, <4>4, <5>1, <5>2 DEF Knows, walk
        <4>. QED
          BY <3>3, <4>3, <4>4 DEF Knows, walk
      <3>5. CASE stamps[i] # NoTime
        <4>1. /\ DOMAIN walk[i] = {"year", "later", "date"}
              /\ walk[i].later = walk[i].date
              /\ InYear(walk[i].date, walk[i].year, offset)
              /\ walk[i].year \in (walk[i + 1].year - 4)..walk[i + 1].year
          BY <3>1, <3>3, <3>5, WalkDates DEF walk
        <4>2. walk[i].year \in Int
          BY <3>3, <4>1 DEF Knows, walk
        <4>3. i \in i..n /\ FirstFrom(stamps, i, i)
          BY <1>1, <3>1, <3>5 DEF FirstFrom
        <4>. QED
          BY <2>2, <4>1, <4>2, <4>3 DEF Knows, walk
      <3>. QED
        BY <3>4, <3>5
    <2>. QED
      BY <2>4, <2>5
  <1>. SUFFICES ASSUME NEW i \in 1..(n + 1) PROVE Knows(stamps, reference, offset, i)
    OBVIOUS
  <1>4. n + 1 - i \in 0..n /\ n + 1 - (n + 1 - i) = i
    BY <1>1
  <1>. QED
    BY <1>3, <1>4

-----------------------------------------------------------------------------
(* Lines and what a parser makes of them.                                  *)

\* A line that is ranked, and not below the floor, is among those of the file.
LEMMA LinesFacts ==
    ASSUME NEW file, IsFile(file)
    PROVE  LET lines == Lines(file) IN
           /\ IsSeq(lines) /\ Len(lines) \in Nat /\ DOMAIN lines = 1..Len(lines)
           /\ \A i \in DOMAIN lines : IsLine(lines[i], file.offset)
           /\ file.kind = "upload" => lines = file.lines
           /\ file.kind = "fetch" => \A i \in DOMAIN lines : lines[i].shape = "ems_text"
           /\ \A i \in DOMAIN file.lines :
                 /\ Ranked(file.lines[i].severity)
                 /\ Above(file.lines[i].severity, normalize_minimum(file.floor))
                 => \E k \in DOMAIN lines : lines[k] = file.lines[i]
  <1>. DEFINE log == file.lines
              minimum == normalize_minimum(file.floor)
  <1>1. /\ IsSeq(log) /\ Len(log) \in Nat /\ DOMAIN log = 1..Len(log)
        /\ \A i \in DOMAIN log : IsLine(log[i], file.offset)
    BY DEF IsFile, IsSeq
  <1>2. CASE file.kind = "upload"
    BY <1>1, <1>2 DEF Lines
  <1>3. CASE file.kind = "fetch"
    <2>. DEFINE wanted == {i \in DOMAIN log : minimum = NoSeverity \/ log[i].severity \in at_or_above(minimum)}
                asked == Ascending(wanted)
                lines == [k \in DOMAIN asked |->
                            [log[asked[k]] EXCEPT !.severity = IF @ = NoSeverity THEN "unknown" ELSE @]]
    <2>1. Lines(file) = lines
      BY <1>3 DEF Lines, FetchedLines
    <2>2. /\ IsSeq(asked) /\ Len(asked) \in Nat
          /\ DOMAIN asked = 1..Len(asked)
          /\ \A k \in DOMAIN asked : asked[k] \in DOMAIN log
          /\ \A i \in wanted : \E k \in DOMAIN asked : asked[k] = i
      <3>1. wanted \in SUBSET (1..Len(log))
        BY <1>1
      <3>. HIDE DEF wanted, log
      <3>2. /\ Cardinality(wanted) \in Nat
            /\ asked \in [1..Cardinality(wanted) -> wanted]
            /\ IsSeq(asked) /\ Len(asked) = Cardinality(wanted)
            /\ \A i \in wanted : \E k \in DOMAIN asked : asked[k] = i
        BY <1>1, <3>1, AscendingFacts
      <3>. HIDE DEF asked
      <3>. QED
        BY <1>1, <3>1, <3>2
    <2>. HIDE DEF asked, wanted
    <2>3. IsSeq(lines) /\ Len(lines) = Len(asked) /\ DOMAIN lines = DOMAIN asked
      BY <2>2, FunctionIsSeq
    <2>4. ASSUME NEW k \in DOMAIN lines
          PROVE  /\ IsLine(lines[k], file.offset) /\ lines[k].shape = "ems_text"
                 /\ log[asked[k]].severity # NoSeverity => lines[k] = log[asked[k]]
      <3>. DEFINE line == log[asked[k]]
      <3>1. IsLine(line, file.offset) /\ line.shape = "ems_text"
        BY <1>1, <1>3, <2>2, <2>3 DEF IsFile
      <3>2. lines[k] = [line EXCEPT !.severity = IF @ = NoSeverity THEN "unknown" ELSE @]
        OBVIOUS
      <3>. HIDE DEF line, lines
      <3>3. lines[k] = [shape |-> line.shape, time |-> line.time, node |-> line.node,
                        event_name |-> line.event_name,
                        severity |-> IF line.severity = NoSeverity THEN "unknown" ELSE line.severity,
                        message |-> line.message, text |-> line.text]
        BY <3>1, <3>2 DEF IsLine
      <3>4. line.severity # NoSeverity => lines[k] = line
        BY <3>1, <3>3 DEF IsLine
      <3>5. IsLine(lines[k], file.offset) /\ lines[k].shape = "ems_text"
        BY <3>1, <3>3 DEF IsLine
      <3>. QED
        BY <3>4, <3>5 DEF line
    <2>5. ASSUME NEW i \in DOMAIN log, Ranked(log[i].severity), Above(log[i].severity, minimum)
          PROVE  \E k \in DOMAIN lines : lines[k] = log[i]
      <3>1. log[i].severity # NoSeverity /\ log[i].severity \in ONTAP_SEVERITIES
        BY <1>3, <2>5 DEF IsFile, Ranked
      <3>2. i \in wanted
        BY <2>5, <3>1 DEF wanted, Above, at_or_above
      <3>3. PICK k \in DOMAIN asked : asked[k] = i
        BY <2>2, <3>2
      <3>. HIDE DEF lines
      <3>. QED
        BY <2>3, <2>4, <3>1, <3>3
    <2>. HIDE DEF lines
    <2>. QED
      BY <1>3, <2>1, <2>2, <2>3, <2>4, <2>5
  <1>. QED
    BY <1>2, <1>3 DEF IsFile, Kinds

LEMMA StampsFacts ==
    ASSUME NEW lines, IsSeq(lines), NEW offset \in (-_FUTURE_SLACK).._FUTURE_SLACK,
           \A i \in DOMAIN lines : IsLine(lines[i], offset)
    PROVE  LET stamps == Stamps(lines, offset) IN
           /\ AreStamps(stamps, offset) /\ Len(stamps) = Len(lines)
           /\ \A i \in DOMAIN lines :
                 stamps[i] # NoTime <=> lines[i].shape = "autosupport_ems" /\ lines[i].time # NoTime
           /\ \A i \in DOMAIN lines : stamps[i] # NoTime => stamps[i] = Stamp(lines[i].time, offset)
  <1>. DEFINE stamps == Stamps(lines, offset)
  <1>1. Len(lines) \in Nat /\ DOMAIN lines = 1..Len(lines)
    BY DEF IsSeq
  <1>2. offset \in Int
    BY CalendarAssumption
  <1>3. ASSUME NEW i \in DOMAIN lines, lines[i].time # NoTime
        PROVE  LET stamp == Stamp(lines[i].time, offset) IN
               IsStamp(stamp) /\ stamp.offset = offset /\ stamp # NoTime
    <2>1. lines[i].time \in Int /\ lines[i].time + offset \in Nat
      BY <1>3 DEF IsLine
    <2>. DEFINE stamp == Stamp(lines[i].time, offset)
    <2>2. IsStamp(stamp) /\ stamp.offset = offset
      BY <1>2, <2>1, StampType
    <2>3. stamp = [place |-> stamp.place, offset |-> stamp.offset]
      BY DEF Stamp
    <2>. HIDE DEF stamp
    <2>4. stamp \in [place : Int, offset : Int]
      BY <2>2, <2>3 DEF IsStamp
    <2>. QED
      BY <2>2, <2>4, CalendarAssumption DEF stamp
  <1>4. /\ DOMAIN stamps = 1..Len(lines) /\ IsSeq(stamps) /\ Len(stamps) = Len(lines)
    BY <1>1, FunctionIsSeq DEF Stamps
  <1>5. \A i \in DOMAIN lines :
           stamps[i] = IF lines[i].shape = "autosupport_ems" /\ lines[i].time # NoTime
                       THEN Stamp(lines[i].time, offset) ELSE NoTime
    BY DEF Stamps, Matches
  <1>. HIDE DEF stamps
  <1>6. \A i \in DOMAIN lines :
           stamps[i] # NoTime <=> lines[i].shape = "autosupport_ems" /\ lines[i].time # NoTime
    BY <1>3, <1>5
  <1>7. \A i \in DOMAIN lines : stamps[i] # NoTime => stamps[i] = Stamp(lines[i].time, offset)
    BY <1>5
  <1>8. AreStamps(stamps, offset)
    BY <1>1, <1>3, <1>4, <1>6, <1>7 DEF AreStamps
  <1>. QED
    BY <1>4, <1>6, <1>7, <1>8 DEF stamps

\* The dates of the readable stamps are dates, and the others have none.
LEMMA DatesType ==
    ASSUME NEW lines, IsSeq(lines), NEW offset \in (-_FUTURE_SLACK).._FUTURE_SLACK,
           NEW mtime \in Nat, \A i \in DOMAIN lines : IsLine(lines[i], offset)
    PROVE  LET stamps == Stamps(lines, offset)
               dates  == _assign_years(stamps, mtime)
           IN  /\ DOMAIN dates = DOMAIN lines
               /\ \A i \in DOMAIN lines : dates[i] = WalkOf(stamps, mtime)[i].date
               /\ \A i \in DOMAIN lines : stamps[i] # NoTime => dates[i] \in Int /\ dates[i] # NoTime
               /\ \A i \in DOMAIN lines : stamps[i] = NoTime => dates[i] = NoTime
  <1>. DEFINE stamps == Stamps(lines, offset)
              dates  == _assign_years(stamps, mtime)
              walk   == WalkOf(stamps, mtime)
  <1>1. AreStamps(stamps, offset) /\ Len(stamps) = Len(lines) /\ DOMAIN lines = 1..Len(lines)
        /\ Len(lines) \in Nat
    BY StampsFacts DEF IsSeq
  <1>. HIDE DEF stamps
  <1>2. DOMAIN dates = DOMAIN lines /\ \A i \in DOMAIN lines : dates[i] = walk[i].date
    BY <1>1 DEF _assign_years, AreStamps
  <1>. HIDE DEF dates
  <1>3. ASSUME NEW i \in DOMAIN lines
        PROVE  i \in 1..Len(stamps) /\ Knows(stamps, mtime, offset, i + 1)
    <2>1. i \in 1..Len(stamps) /\ i + 1 \in 1..(Len(stamps) + 1)
      BY <1>1
    <2>. QED
      BY <1>1, <2>1, WalkKnows
  <1>4. ASSUME NEW i \in DOMAIN lines, stamps[i] # NoTime
        PROVE  dates[i] \in Int /\ dates[i] # NoTime
    <2>1. InYear(walk[i].date, walk[i].year, offset)
      BY <1>1, <1>3, <1>4, WalkDates
    <2>. QED
      BY <1>2, <2>1 DEF InYear
  <1>5. ASSUME NEW i \in DOMAIN lines, stamps[i] = NoTime
        PROVE  dates[i] = NoTime
    <2>1. walk = [k \in 1..(Len(stamps) + 1) |-> WalkStep(stamps, mtime, walk, k)]
      BY <1>1, WalkUnfolds
    <2>2. i \in 1..(Len(stamps) + 1) /\ ~(i > Len(stamps))
      BY <1>1
    <2>3. DOMAIN walk[i + 1] = {"year", "later", "date"}
      BY <1>3 DEF Knows
    <2>. HIDE DEF walk
    <2>4. walk[i] = WalkStep(stamps, mtime, walk, i)
      BY <2>1, <2>2
    <2>5. walk[i] = [walk[i + 1] EXCEPT !.date = NoTime]
      BY <1>5, <2>2, <2>4 DEF WalkStep
    <2>. QED
      BY <1>2, <2>3, <2>5
  <1>. QED
    BY <1>2, <1>4, <1>5 DEF stamps, dates

(***************************************************************************)
(* An event is what is made of a line that is in the format of the file,   *)
(* or of one that is not; a syslog line is dated by the walk, any other by *)
(* itself.                                                                 *)
(***************************************************************************)
LEMMA ParseFacts ==
    ASSUME NEW lines, IsSeq(lines), NEW offset \in (-_FUTURE_SLACK).._FUTURE_SLACK,
           NEW mtime \in Nat, \A i \in DOMAIN lines : IsLine(lines[i], offset)
    PROVE  LET parsed == parse_file(lines, offset, mtime)
               dates  == _assign_years(Stamps(lines, offset), mtime)
           IN  /\ DOMAIN parsed = DOMAIN lines
               /\ \A i \in DOMAIN lines :
                     /\ parsed[i].time \in Int \cup {NoTime}
                     /\ \/ parsed[i] = unparsed_line(lines[i]) /\ parsed[i].event_name = "unparsed.line"
                        \/ /\ parsed[i] = ParsedLine(lines[i], parsed[i].time)
                           /\ parsed[i].event_name = lines[i].event_name
                           /\ lines[i].shape = detect_format(lines)
                           /\ lines[i].shape # "autosupport_ems" => parsed[i].time = lines[i].time
                           /\ lines[i].shape = "autosupport_ems" => parsed[i].time = dates[i]
  <1>. DEFINE parsed == parse_file(lines, offset, mtime)
              dates  == _assign_years(Stamps(lines, offset), mtime)
              format == detect_format(lines)
              times  == IF format = "autosupport_ems" THEN dates ELSE [i \in DOMAIN lines |-> lines[i].time]
  <1>1. /\ DOMAIN parsed = DOMAIN lines
        /\ \A i \in DOMAIN lines :
              parsed[i] = IF Matches(format, lines[i]) THEN ParsedLine(lines[i], times[i])
                                                       ELSE unparsed_line(lines[i])
    BY DEF parse_file
  <1>2. \A i \in DOMAIN lines : times[i] \in Int \cup {NoTime}
    <2>1. \A i \in DOMAIN lines : dates[i] \in Int \cup {NoTime}
      BY DatesType
    <2>2. \A i \in DOMAIN lines : lines[i].time \in Int \cup {NoTime}
      BY DEF IsLine
    <2>. HIDE DEF dates, format
    <2>. QED
      BY <2>1, <2>2
  <1>3. \A i \in DOMAIN lines :
           /\ format # "autosupport_ems" => times[i] = lines[i].time
           /\ format = "autosupport_ems" => times[i] = dates[i]
    <2>. HIDE DEF dates, format
    <2>. QED
      OBVIOUS
  <1>. HIDE DEF parsed, dates, format, times
  <1>4. ASSUME NEW i \in DOMAIN lines
        PROVE  /\ parsed[i].time \in Int \cup {NoTime}
               /\ \/ parsed[i] = unparsed_line(lines[i]) /\ parsed[i].event_name = "unparsed.line"
                  \/ /\ parsed[i] = ParsedLine(lines[i], parsed[i].time)
                     /\ parsed[i].event_name = lines[i].event_name
                     /\ lines[i].shape = format
                     /\ lines[i].shape # "autosupport_ems" => parsed[i].time = lines[i].time
                     /\ lines[i].shape = "autosupport_ems" => parsed[i].time = dates[i]
    <2>1. CASE Matches(format, lines[i])
      <3>1. parsed[i] = ParsedLine(lines[i], times[i]) /\ lines[i].shape = format
        BY <1>1, <2>1 DEF Matches
      <3>2. parsed[i].time = times[i] /\ parsed[i].event_name = lines[i].event_name
        BY <3>1 DEF ParsedLine
      <3>. QED
        BY <1>2, <1>3, <3>1, <3>2
    <2>2. CASE ~Matches(format, lines[i])
      <3>1. parsed[i] = unparsed_line(lines[i])
        BY <1>1, <2>2
      <3>. QED
        BY <3>1 DEF unparsed_line
    <2>. QED
      BY <2>1, <2>2
  <1>. QED
    BY <1>1, <1>4 DEF parsed, dates, format

-----------------------------------------------------------------------------
(* The rows of a file.                                                     *)

Parsed(file) == parse_file(Lines(file), file.offset, file.mtime)

(***************************************************************************)
(* A file's rows lie together, and are what is made of the lines that were *)
(* kept of it, in their order.                                             *)
(***************************************************************************)
Stored(f, base, order) ==
    LET source == files[f].source
        lines  == Lines(source)
    IN  /\ base \in Nat /\ base + files[f].event_count <= Len(events)
        /\ files[f].event_count \in Nat
        /\ files[f].duplicates_skipped \in Nat /\ files[f].severity_skipped \in Nat
        /\ files[f].event_count + files[f].duplicates_skipped + files[f].severity_skipped = Len(lines)
        /\ order \in [1..files[f].event_count -> 1..Len(lines)]
        /\ \A k, l \in 1..files[f].event_count : k < l => order[k] < order[l]
        /\ \A i \in DOMAIN events :
              events[i].file = f <=> i \in (base + 1)..(base + files[f].event_count)
        /\ \A k \in 1..files[f].event_count :
              /\ events[base + k] =
                    [file |-> f, cluster |-> source.cluster, sequence_num |-> k,
                     raw_line |-> lines[order[k]], event |-> Parsed(source)[order[k]]]
              /\ meets_minimum(Parsed(source)[order[k]].severity, files[f].severity_filter)
        /\ files[f].duplicates_skipped = 0 /\ files[f].severity_skipped = 0 =>
              \A l \in 1..Len(lines) : \E k \in 1..files[f].event_count : order[k] = l

\* What the log says at or above the floor is among the events of the cluster.
Complete(f) ==
    LET source == files[f].source IN
    \A k \in DOMAIN source.lines :
        Ranked(source.lines[k].severity) /\ Above(source.lines[k].severity, files[f].severity_filter) =>
            \E i \in DOMAIN events : /\ events[i].cluster = source.cluster
                                     /\ Says(events[i].event, source.lines[k])

\* What one file gives.
LEMMA IngestedFacts ==
    ASSUME NEW file, IsFile(file), NEW id
    PROVE  LET result  == Ingested(file, id)
               lines   == Lines(file)
               minimum == normalize_minimum(file.floor)
           IN  /\ IsSeq(result.rows) /\ Len(result.rows) = result.event_count
               /\ result.event_count \in Nat
               /\ result.duplicates_skipped \in Nat /\ result.severity_skipped \in Nat
               /\ result.event_count + result.duplicates_skipped + result.severity_skipped = Len(lines)
               /\ \E order \in [1..result.event_count -> 1..Len(lines)] :
                     /\ \A k, l \in 1..result.event_count : k < l => order[k] < order[l]
                     /\ \A k \in 1..result.event_count :
                           /\ result.rows[k] =
                                 [file |-> id, cluster |-> file.cluster, sequence_num |-> k,
                                  raw_line |-> lines[order[k]], event |-> Parsed(file)[order[k]]]
                           /\ meets_minimum(Parsed(file)[order[k]].severity, minimum)
                     /\ result.duplicates_skipped = 0 /\ result.severity_skipped = 0 =>
                           \A l \in 1..Len(lines) : \E k \in 1..result.event_count : order[k] = l
               /\ \A l \in 1..Len(lines) :
                     meets_minimum(Parsed(file)[l].severity, minimum) =>
                        \/ \E k \in 1..result.event_count : result.rows[k].event = Parsed(file)[l]
                        \/ \E i \in DOMAIN events : events[i].cluster = file.cluster
                                                    /\ events[i].event = Parsed(file)[l]
  <1>. DEFINE result  == Ingested(file, id)
              lines   == Lines(file)
              n       == Len(lines)
              parsed  == Parsed(file)
              minimum == normalize_minimum(file.floor)
              above   == {i \in DOMAIN lines : meets_minimum(parsed[i].severity, minimum)}
              known   == existing_event_keys(file.cluster, {parsed[i] : i \in above})
              kept    == {i \in above : parsed[i] \notin known}
              order   == Ascending(kept)
  <1>1. n \in Nat /\ DOMAIN lines = 1..n
    BY LinesFacts
  <1>2. result = [rows |-> [k \in DOMAIN order |->
                     [file |-> id, cluster |-> file.cluster, sequence_num |-> k,
                      raw_line |-> lines[order[k]], event |-> parsed[order[k]]]],
                  event_count |-> Cardinality(kept),
                  duplicates_skipped |-> Cardinality(above) - Cardinality(kept),
                  severity_skipped |-> Len(lines) - Cardinality(above)]
    BY DEF Ingested, Parsed
  <1>3. \A e \in known : \E i \in DOMAIN events : events[i].cluster = file.cluster /\ events[i].event = e
    BY DEF existing_event_keys
  <1>4. /\ above \in SUBSET (1..n) /\ kept \in SUBSET above
        /\ \A i \in above : meets_minimum(parsed[i].severity, minimum)
        /\ \A i \in above : i \notin kept => parsed[i] \in known
        /\ \A i \in 1..n : meets_minimum(parsed[i].severity, minimum) => i \in above
    BY <1>1
  <1>. HIDE DEF result, lines, n, parsed, minimum, above, known, kept
  <1>5. /\ IsFiniteSet(kept) /\ Cardinality(kept) \in Nat
        /\ IsFiniteSet(above) /\ Cardinality(above) \in 0..n
        /\ order \in [1..Cardinality(kept) -> kept]
        /\ DOMAIN order = 1..Cardinality(kept)
        /\ \A i \in kept : \E k \in 1..Cardinality(kept) : order[k] = i
        /\ \A k, l \in 1..Cardinality(kept) : k < l => order[k] < order[l]
    BY <1>1, <1>4, AscendingFacts
  <1>6. /\ Cardinality(kept) <= Cardinality(above)
        /\ Cardinality(kept) = Cardinality(above) => kept = above
    BY <1>4, <1>5, FS_Subset
  <1>7. Cardinality(above) = n => above = 1..n
    <2>1. IsFiniteSet(1..n) /\ Cardinality(1..n) = n
      BY <1>1, FS_Interval
    <2>. QED
      BY <1>4, <2>1, FS_Subset
  <1>. HIDE DEF order
  <1>. DEFINE rows == [k \in DOMAIN order |->
                         [file |-> id, cluster |-> file.cluster, sequence_num |-> k,
                          raw_line |-> lines[order[k]], event |-> parsed[order[k]]]]
              count == Cardinality(kept)
  <1>8. IsSeq(rows) /\ Len(rows) = count /\ DOMAIN rows = 1..count
    BY <1>5, FunctionIsSeq
  <1>9. \A k \in 1..count :
           /\ rows[k] = [file |-> id, cluster |-> file.cluster, sequence_num |-> k,
                         raw_line |-> lines[order[k]], event |-> parsed[order[k]]]
           /\ rows[k].event = parsed[order[k]]
    BY <1>5
  <1>10. /\ result.rows = rows /\ result.event_count = count
         /\ result.duplicates_skipped = Cardinality(above) - count
         /\ result.severity_skipped = n - Cardinality(above)
    BY <1>2 DEF n
  <1>. HIDE DEF rows, count
  <1>11. /\ count \in Nat
         /\ result.duplicates_skipped \in Nat /\ result.severity_skipped \in Nat
         /\ count + result.duplicates_skipped + result.severity_skipped = n
    BY <1>1, <1>5, <1>6, <1>10 DEF count
  <1>12. order \in [1..count -> 1..n]
    BY <1>4, <1>5 DEF count
  <1>13. result.duplicates_skipped = 0 /\ result.severity_skipped = 0 =>
            \A l \in 1..n : \E k \in 1..count : order[k] = l
    <2>. SUFFICES ASSUME result.duplicates_skipped = 0, result.severity_skipped = 0
                  PROVE  kept = 1..n
      BY <1>5 DEF count
    <2>1. Cardinality(above) = n /\ count = Cardinality(above)
      BY <1>1, <1>5, <1>10, <1>11
    <2>. QED
      BY <1>6, <1>7, <2>1 DEF count
  <1>14. ASSUME NEW l \in 1..n, meets_minimum(parsed[l].severity, minimum)
         PROVE  \/ \E k \in 1..count : rows[k].event = parsed[l]
                \/ \E i \in DOMAIN events : events[i].cluster = file.cluster
                                            /\ events[i].event = parsed[l]
    <2>1. l \in above
      BY <1>4, <1>14
    <2>2. CASE l \in kept
      <3>1. PICK k \in 1..count : order[k] = l
        BY <1>5, <2>2 DEF count
      <3>2. rows[k].event = parsed[order[k]]
        BY <1>9
      <3>. QED
        BY <3>1, <3>2
    <2>3. CASE l \notin kept
      BY <1>3, <1>4, <2>1, <2>3
    <2>. QED
      BY <2>2, <2>3
  <1>15. \A k \in 1..count : meets_minimum(parsed[order[k]].severity, minimum)
    BY <1>4, <1>5 DEF count
  <1>16. \A k, l \in 1..count : k < l => order[k] < order[l]
    BY <1>5 DEF count
  <1>17. \E o \in [1..result.event_count -> 1..n] :
           /\ \A k, l \in 1..result.event_count : k < l => o[k] < o[l]
           /\ \A k \in 1..result.event_count :
                 /\ result.rows[k] =
                       [file |-> id, cluster |-> file.cluster, sequence_num |-> k,
                        raw_line |-> lines[o[k]], event |-> parsed[o[k]]]
                 /\ meets_minimum(parsed[o[k]].severity, minimum)
           /\ result.duplicates_skipped = 0 /\ result.severity_skipped = 0 =>
                 \A l \in 1..n : \E k \in 1..result.event_count : o[k] = l
    <2>1. order \in [1..result.event_count -> 1..n]
      BY <1>10, <1>12
    <2>2. /\ \A k, l \in 1..result.event_count : k < l => order[k] < order[l]
          /\ \A k \in 1..result.event_count :
                 /\ result.rows[k] =
                       [file |-> id, cluster |-> file.cluster, sequence_num |-> k,
                        raw_line |-> lines[order[k]], event |-> parsed[order[k]]]
                 /\ meets_minimum(parsed[order[k]].severity, minimum)
      BY <1>9, <1>10, <1>15, <1>16
    <2>3. result.duplicates_skipped = 0 /\ result.severity_skipped = 0 =>
                 \A l \in 1..n : \E k \in 1..result.event_count : order[k] = l
      BY <1>10, <1>13
    <2>. QED
      BY <2>1, <2>2, <2>3
  <1>18. /\ IsSeq(result.rows) /\ Len(result.rows) = result.event_count
         /\ result.event_count \in Nat
         /\ result.event_count + result.duplicates_skipped + result.severity_skipped = n
    BY <1>8, <1>10, <1>11
  <1>19. \A l \in 1..n :
            meets_minimum(parsed[l].severity, minimum) =>
               \/ \E k \in 1..result.event_count : result.rows[k].event = parsed[l]
               \/ \E i \in DOMAIN events : events[i].cluster = file.cluster
                                           /\ events[i].event = parsed[l]
    BY <1>10, <1>14
  <1>. QED
    BY <1>11, <1>17, <1>18, <1>19 DEF result, lines, n, parsed, minimum

Grown(s, t, both) ==
    /\ Len(s) \in Nat /\ DOMAIN s = 1..Len(s)
    /\ Len(t) \in Nat /\ DOMAIN t = 1..Len(t)
    /\ IsSeq(both) /\ Len(both) = Len(s) + Len(t)
    /\ DOMAIN both = 1..(Len(s) + Len(t))
    /\ \A i \in DOMAIN s : i \in DOMAIN both /\ both[i] = s[i]
    /\ \A k \in DOMAIN t : Len(s) + k \in DOMAIN both /\ both[Len(s) + k] = t[k]
    /\ \A i \in DOMAIN both :
          i \in DOMAIN s \/ \E k \in DOMAIN t : i = Len(s) + k /\ both[i] = t[k]

\* A table to which rows are added.
LEMMA GrowFacts ==
    ASSUME NEW s, IsSeq(s), NEW t, IsSeq(t), NEW both, both = s \o t
    PROVE  Grown(s, t, both)
  <1>. DEFINE S == Range(s) \cup Range(t)
  <1>1. s \in Seq(S) /\ t \in Seq(S)
    BY DEF IsSeq, Range
  <1>2. both \in Seq(S)
    BY <1>1
  <1>3. IsSeq(both)
    BY <1>2, SeqFacts
  <1>. HIDE DEF S
  <1>4. /\ Len(s) \in Nat /\ DOMAIN s = 1..Len(s)
        /\ Len(t) \in Nat /\ DOMAIN t = 1..Len(t)
    BY <1>1
  <1>5. /\ Len(both) = Len(s) + Len(t)
        /\ DOMAIN both = 1..(Len(s) + Len(t))
        /\ \A i \in 1..(Len(s) + Len(t)) :
              both[i] = IF i <= Len(s) THEN s[i] ELSE t[i - Len(s)]
    BY <1>1, <1>2, ConcatProperties
  <1>6. \A i \in DOMAIN s : i \in DOMAIN both /\ both[i] = s[i]
    BY <1>4, <1>5
  <1>7. \A k \in DOMAIN t : Len(s) + k \in DOMAIN both /\ both[Len(s) + k] = t[k]
    <2>. SUFFICES ASSUME NEW k \in 1..Len(t)
                  PROVE  Len(s) + k \in DOMAIN both /\ both[Len(s) + k] = t[k]
      BY <1>4
    <2>1. Len(s) + k \in 1..(Len(s) + Len(t)) /\ ~(Len(s) + k <= Len(s)) /\ Len(s) + k - Len(s) = k
      BY <1>4
    <2>. QED
      BY <1>5, <2>1
  <1>8. \A i \in DOMAIN both :
           i \in DOMAIN s \/ \E k \in DOMAIN t : i = Len(s) + k /\ both[i] = t[k]
    <2>. SUFFICES ASSUME NEW i \in 1..(Len(s) + Len(t)), i \notin 1..Len(s)
                  PROVE  /\ i - Len(s) \in 1..Len(t) /\ i = Len(s) + (i - Len(s))
                         /\ both[i] = t[i - Len(s)]
      BY <1>4, <1>5
    <2>1. i - Len(s) \in 1..Len(t) /\ i = Len(s) + (i - Len(s)) /\ ~(i <= Len(s))
      BY <1>4
    <2>. QED
      BY <1>5, <2>1
  <1>. QED
    BY <1>3, <1>4, <1>5, <1>6, <1>7, <1>8 DEF Grown

LEMMA AppendFacts ==
    ASSUME NEW s, IsSeq(s), NEW e
    PROVE  /\ IsSeq(Append(s, e)) /\ Len(Append(s, e)) = Len(s) + 1
           /\ Len(s) \in Nat /\ DOMAIN s = 1..Len(s)
           /\ DOMAIN Append(s, e) = DOMAIN s \cup {Len(s) + 1}
           /\ Append(s, e)[Len(s) + 1] = e
           /\ \A i \in DOMAIN s : Append(s, e)[i] = s[i]
  <1>. DEFINE S == Range(s) \cup {e}
  <1>1. s \in Seq(S) /\ e \in S
    BY DEF IsSeq, Range
  <1>2. Append(s, e) \in Seq(S)
    BY <1>1
  <1>3. IsSeq(Append(s, e))
    BY <1>2, SeqFacts
  <1>. HIDE DEF S
  <1>. QED
    BY <1>1, <1>2, <1>3

LEMMA TailFacts ==
    ASSUME NEW s, IsSeq(s), s # <<>>
    PROVE  /\ IsSeq(Tail(s))
           /\ Len(s) \in Nat \ {0} /\ DOMAIN s = 1..Len(s) /\ Head(s) = s[1]
           /\ \A i \in DOMAIN Tail(s) : i + 1 \in DOMAIN s /\ Tail(s)[i] = s[i + 1]
  <1>1. s \in Seq(Range(s))
    BY DEF IsSeq
  <1>2. Tail(s) \in Seq(Range(s))
    BY <1>1
  <1>3. IsSeq(Tail(s))
    BY <1>2, SeqFacts
  <1>. QED
    BY <1>1, <1>3

HasRows(f) == \E base, order : Stored(f, base, order)

FilesInv ==
    /\ IsSeq(arrivals) /\ \A i \in DOMAIN arrivals : IsFile(arrivals[i])
    /\ IsSeq(files)
    /\ \A f \in DOMAIN files :
          /\ IsFile(files[f].source)
          /\ files[f].severity_filter = normalize_minimum(files[f].source.floor)
    /\ IsSeq(events)
    /\ \A i \in DOMAIN events : events[i].file \in DOMAIN files
    /\ \A f \in DOMAIN files : HasRows(f) /\ Complete(f)

LEMMA FilesInit == Init => FilesInv
  <1>. SUFFICES ASSUME Init PROVE FilesInv
    OBVIOUS
  <1>. QED
    BY EmptyFacts, ArrivalsAssumption DEF Init, FilesInv

\* Rows of other files change nothing of a file's.
LEMMA StoredStays ==
    ASSUME IsSeq(events), NEW rows, IsSeq(rows), events' = events \o rows,
           NEW f, files'[f] = files[f], \A k \in DOMAIN rows : rows[k].file # f,
           NEW base, NEW order, Stored(f, base, order)
    PROVE  Stored(f, base, order)'
  <1>1. /\ Len(events) \in Nat /\ DOMAIN events = 1..Len(events)
        /\ Len(rows) \in Nat /\ DOMAIN rows = 1..Len(rows)
        /\ Len(events') = Len(events) + Len(rows)
        /\ \A i \in DOMAIN events : i \in DOMAIN events' /\ events'[i] = events[i]
        /\ \A i \in DOMAIN events' :
              i \in DOMAIN events \/ \E k \in DOMAIN rows : i = Len(events) + k /\ events'[i] = rows[k]
    <2>1. Grown(events, rows, events')
      BY GrowFacts
    <2>. QED
      BY <2>1 DEF Grown
  <1>. DEFINE n == files[f].event_count
  <1>2. /\ base \in Nat /\ n \in Nat /\ base + n <= Len(events)
        /\ \A i \in DOMAIN events : events[i].file = f <=> i \in (base + 1)..(base + n)
    BY DEF Stored
  <1>. HIDE DEF n
  <1>3. \A i \in DOMAIN events' : events'[i].file = f <=> i \in (base + 1)..(base + n)
    <2>. SUFFICES ASSUME NEW i \in DOMAIN events'
                  PROVE  events'[i].file = f <=> i \in (base + 1)..(base + n)
      OBVIOUS
    <2>1. CASE i \in DOMAIN events
      BY <1>1, <1>2, <2>1
    <2>2. ASSUME NEW k \in DOMAIN rows, i = Len(events) + k, events'[i] = rows[k]
          PROVE  events'[i].file = f <=> i \in (base + 1)..(base + n)
      <3>1. events'[i].file # f
        BY <2>2
      <3>2. i > base + n
        BY <1>1, <1>2, <2>2
      <3>. QED
        BY <1>2, <3>1, <3>2
    <2>. QED
      BY <1>1, <2>1, <2>2
  <1>4. \A k \in 1..n : events'[base + k] = events[base + k]
    <2>1. \A k \in 1..n : base + k \in DOMAIN events
      BY <1>1, <1>2
    <2>. QED
      BY <1>1, <2>1
  <1>5. base + n <= Len(events')
    BY <1>1, <1>2
  <1>. QED
    BY <1>3, <1>4, <1>5 DEF Stored, n

LEMMA CompleteStays ==
    ASSUME IsSeq(events), NEW rows, IsSeq(rows), events' = events \o rows,
           NEW f, files'[f] = files[f], Complete(f)
    PROVE  Complete(f)'
  <1>1. \A i \in DOMAIN events : i \in DOMAIN events' /\ events'[i] = events[i]
    <2>1. Grown(events, rows, events')
      BY GrowFacts
    <2>. QED
      BY <2>1 DEF Grown
  <1>. QED
    BY <1>1 DEF Complete

\* An event says what its line says, and is kept if the line is to be kept.
LEMMA ParsedSays ==
    ASSUME NEW file, IsFile(file), NEW l \in 1..Len(Lines(file)), NEW minimum,
           Ranked(Lines(file)[l].severity), Above(Lines(file)[l].severity, minimum)
    PROVE  /\ meets_minimum(Parsed(file)[l].severity, minimum)
           /\ Says(Parsed(file)[l], Lines(file)[l])
  <1>. DEFINE lines == Lines(file)
              event == Parsed(file)[l]
              line  == lines[l]
  <1>1. /\ IsSeq(lines) /\ l \in DOMAIN lines
        /\ \A i \in DOMAIN lines : IsLine(lines[i], file.offset)
        /\ file.offset \in (-_FUTURE_SLACK).._FUTURE_SLACK /\ file.mtime \in Nat
    BY LinesFacts DEF IsFile
  <1>. HIDE DEF lines
  <1>2. \/ event = unparsed_line(line)
        \/ /\ event = ParsedLine(line, event.time)
           /\ line.shape # "autosupport_ems" => event.time = line.time
    <2>1. LET parsed == parse_file(lines, file.offset, file.mtime) IN
          \/ parsed[l] = unparsed_line(line)
          \/ /\ parsed[l] = ParsedLine(line, parsed[l].time)
             /\ line.shape # "autosupport_ems" => parsed[l].time = line.time
      BY <1>1, ParseFacts
    <2>. QED
      BY <2>1 DEF Parsed, lines
  <1>. HIDE DEF event, line
  <1>3. Ranked(line.severity) /\ Above(line.severity, minimum)
    BY DEF line, lines
  <1>4. meets_minimum(event.severity, minimum)
    <2>1. CASE event = unparsed_line(line)
      BY <2>1 DEF unparsed_line, meets_minimum, Ranked
    <2>2. CASE event = ParsedLine(line, event.time)
      BY <1>3, <2>2 DEF ParsedLine, meets_minimum, Above
    <2>. QED
      BY <1>2, <2>1, <2>2
  <1>5. Says(event, line)
    BY <1>2 DEF Says
  <1>. QED
    BY <1>4, <1>5 DEF event, line, lines

LEMMA NewFile ==
    ASSUME FilesInv, ingest_file
    PROVE  FilesInv'
  <1>0. SUFFICES ASSUME NEW id, id = Len(files) + 1
                PROVE  FilesInv'
    OBVIOUS
  <1>. DEFINE file   == Head(arrivals)
              result == Ingested(file, id)
              rows   == result.rows
              lines  == Lines(file)
              row    == [source |-> file, severity_filter |-> normalize_minimum(file.floor),
                         event_count |-> result.event_count,
                         duplicates_skipped |-> result.duplicates_skipped,
                         severity_skipped |-> result.severity_skipped]
  <1>1. /\ files' = Append(files, row) /\ events' = events \o rows
        /\ arrivals' = Tail(arrivals) /\ arrivals # <<>>
    BY <1>0 DEF ingest_file
  <1>2. /\ row.source = file /\ row.severity_filter = normalize_minimum(file.floor)
        /\ row.event_count = result.event_count
        /\ row.duplicates_skipped = result.duplicates_skipped
        /\ row.severity_skipped = result.severity_skipped
    OBVIOUS
  <1>. HIDE DEF row
  <1>3. IsFile(file) /\ IsSeq(arrivals') /\ \A i \in DOMAIN arrivals' : IsFile(arrivals'[i])
    <2>1. /\ IsSeq(Tail(arrivals)) /\ Head(arrivals) = arrivals[1]
          /\ 1 \in DOMAIN arrivals
          /\ \A i \in DOMAIN Tail(arrivals) : i + 1 \in DOMAIN arrivals /\ Tail(arrivals)[i] = arrivals[i + 1]
      BY <1>1, TailFacts DEF FilesInv
    <2>. QED
      BY <1>1, <2>1 DEF FilesInv
  <1>4. /\ IsSeq(files') /\ id \notin DOMAIN files
        /\ DOMAIN files' = DOMAIN files \cup {id}
        /\ files'[id] = row
        /\ \A f \in DOMAIN files : files'[f] = files[f]
    <2>1. /\ IsSeq(Append(files, row))
          /\ Len(files) \in Nat /\ DOMAIN files = 1..Len(files)
          /\ DOMAIN Append(files, row) = DOMAIN files \cup {Len(files) + 1}
          /\ Append(files, row)[Len(files) + 1] = row
          /\ \A f \in DOMAIN files : Append(files, row)[f] = files[f]
      BY AppendFacts DEF FilesInv
    <2>. QED
      BY <1>0, <1>1, <2>1
  <1>5. /\ IsSeq(rows) /\ Len(rows) = result.event_count /\ result.event_count \in Nat
        /\ result.duplicates_skipped \in Nat /\ result.severity_skipped \in Nat
        /\ result.event_count + result.duplicates_skipped + result.severity_skipped = Len(lines)
    BY <1>3, IngestedFacts
  <1>6. \E order \in [1..result.event_count -> 1..Len(lines)] :
           /\ \A k, l \in 1..result.event_count : k < l => order[k] < order[l]
           /\ \A k \in 1..result.event_count :
                 /\ rows[k] = [file |-> id, cluster |-> file.cluster, sequence_num |-> k,
                               raw_line |-> lines[order[k]], event |-> Parsed(file)[order[k]]]
                 /\ meets_minimum(Parsed(file)[order[k]].severity, normalize_minimum(file.floor))
           /\ result.duplicates_skipped = 0 /\ result.severity_skipped = 0 =>
                 \A l \in 1..Len(lines) : \E k \in 1..result.event_count : order[k] = l
    BY <1>3, IngestedFacts
  <1>7. \A l \in 1..Len(lines) :
           meets_minimum(Parsed(file)[l].severity, normalize_minimum(file.floor)) =>
              \/ \E k \in 1..result.event_count : rows[k].event = Parsed(file)[l]
              \/ \E i \in DOMAIN events : events[i].cluster = file.cluster
                                          /\ events[i].event = Parsed(file)[l]
    BY <1>3, IngestedFacts
  <1>. HIDE DEF file, result, rows, lines
  <1>8. Grown(events, rows, events')
    BY <1>1, <1>5, GrowFacts DEF FilesInv
  <1>9. \A k \in DOMAIN rows : rows[k].file = id /\ rows[k].cluster = file.cluster
    <2>1. DOMAIN rows = 1..result.event_count
      BY <1>5, <1>8 DEF Grown
    <2>2. PICK order \in [1..result.event_count -> 1..Len(lines)] :
             \A k \in 1..result.event_count :
                rows[k] = [file |-> id, cluster |-> file.cluster, sequence_num |-> k,
                           raw_line |-> lines[order[k]], event |-> Parsed(file)[order[k]]]
      BY <1>6
    <2>3. ASSUME NEW k \in 1..result.event_count
          PROVE  rows[k].file = id /\ rows[k].cluster = file.cluster
      <3>. DEFINE line  == lines[order[k]]
                  event == Parsed(file)[order[k]]
      <3>1. rows[k] = [file |-> id, cluster |-> file.cluster, sequence_num |-> k,
                       raw_line |-> line, event |-> event]
        BY <2>2
      <3>. HIDE DEF line, event
      <3>. QED
        BY <3>1
    <2>. QED
      BY <2>1, <2>3
  <1>10. IsSeq(events') /\ \A i \in DOMAIN events' : events'[i].file \in DOMAIN files'
    BY <1>4, <1>8, <1>9 DEF Grown, FilesInv
  <1>11. ASSUME NEW f \in DOMAIN files
         PROVE  HasRows(f)' /\ Complete(f)'
    <2>1. files'[f] = files[f] /\ \A k \in DOMAIN rows : rows[k].file # f
      BY <1>4, <1>9
    <2>2. PICK base, order : Stored(f, base, order)
      BY DEF FilesInv, HasRows
    <2>3. Stored(f, base, order)'
      BY <1>1, <1>5, <2>1, <2>2, StoredStays DEF FilesInv
    <2>4. Complete(f)'
      BY <1>1, <1>5, <2>1, CompleteStays DEF FilesInv
    <2>. QED
      BY <2>3, <2>4 DEF HasRows
  <1>12. HasRows(id)'
    <2>1. PICK order \in [1..result.event_count -> 1..Len(lines)] :
           /\ \A k, l \in 1..result.event_count : k < l => order[k] < order[l]
           /\ \A k \in 1..result.event_count :
                 /\ rows[k] = [file |-> id, cluster |-> file.cluster, sequence_num |-> k,
                               raw_line |-> lines[order[k]], event |-> Parsed(file)[order[k]]]
                 /\ meets_minimum(Parsed(file)[order[k]].severity, normalize_minimum(file.floor))
           /\ result.duplicates_skipped = 0 /\ result.severity_skipped = 0 =>
                 \A l \in 1..Len(lines) : \E k \in 1..result.event_count : order[k] = l
      BY <1>6
    <2>. DEFINE n == result.event_count
    <2>2. \A i \in DOMAIN events' : events'[i].file = id <=> i \in (Len(events) + 1)..(Len(events) + n)
      <3>1. ASSUME NEW i \in DOMAIN events
            PROVE  events'[i].file # id /\ i \notin (Len(events) + 1)..(Len(events) + n)
        BY <1>4, <1>8 DEF Grown, FilesInv
      <3>2. ASSUME NEW i \in DOMAIN events', NEW k \in DOMAIN rows,
                   i = Len(events) + k, events'[i] = rows[k]
            PROVE  events'[i].file = id /\ i \in (Len(events) + 1)..(Len(events) + n)
        BY <1>5, <1>8, <1>9, <3>2 DEF Grown
      <3>3. \A i \in DOMAIN events' :
               i \in DOMAIN events \/ \E k \in DOMAIN rows : i = Len(events) + k /\ events'[i] = rows[k]
        BY <1>8 DEF Grown
      <3>. QED
        BY <3>1, <3>2, <3>3
    <2>3. /\ Len(events) \in Nat /\ Len(events) + n <= Len(events')
          /\ \A k \in 1..n : events'[Len(events) + k] = rows[k]
      <3>1. /\ Len(events) \in Nat /\ Len(rows) \in Nat /\ DOMAIN rows = 1..Len(rows)
            /\ Len(events') = Len(events) + Len(rows)
            /\ \A k \in DOMAIN rows : events'[Len(events) + k] = rows[k]
        BY <1>8 DEF Grown
      <3>2. Len(rows) = n
        BY <1>5
      <3>. HIDE DEF n
      <3>. QED
        BY <3>1, <3>2
    <2>4. /\ files'[id].source = file
          /\ files'[id].severity_filter = normalize_minimum(file.floor)
          /\ files'[id].event_count = n
          /\ files'[id].duplicates_skipped = result.duplicates_skipped
          /\ files'[id].severity_skipped = result.severity_skipped
      BY <1>2, <1>4
    <2>5. ASSUME NEW base, base = Len(events)
          PROVE  Stored(id, base, order)'
      <3>1. /\ base \in Nat /\ base + n <= Len(events') /\ n \in Nat
            /\ result.duplicates_skipped \in Nat /\ result.severity_skipped \in Nat
            /\ n + result.duplicates_skipped + result.severity_skipped = Len(lines)
        BY <1>5, <2>3, <2>5
      <3>2. /\ order \in [1..n -> 1..Len(lines)]
            /\ \A k, l \in 1..n : k < l => order[k] < order[l]
            /\ result.duplicates_skipped = 0 /\ result.severity_skipped = 0 =>
                  \A l \in 1..Len(lines) : \E k \in 1..n : order[k] = l
        BY <2>1
      <3>3. \A i \in DOMAIN events' : events'[i].file = id <=> i \in (base + 1)..(base + n)
        BY <2>2, <2>5
      <3>4. \A k \in 1..n :
               /\ events'[base + k] =
                     [file |-> id, cluster |-> file.cluster, sequence_num |-> k,
                      raw_line |-> lines[order[k]], event |-> Parsed(file)[order[k]]]
               /\ meets_minimum(Parsed(file)[order[k]].severity, normalize_minimum(file.floor))
        <4>1. \A k \in 1..n : events'[base + k] = rows[k]
          BY <2>3, <2>5
        <4>. QED
          BY <2>1, <4>1
      <3>. HIDE DEF n
      <3>. QED
        BY <2>4, <3>1, <3>2, <3>3, <3>4 DEF Stored, lines
    <2>. QED
      BY <2>5 DEF HasRows
  <1>13. Complete(id)'
    <2>1. SUFFICES ASSUME NEW k \in DOMAIN file.lines, Ranked(file.lines[k].severity),
                          Above(file.lines[k].severity, normalize_minimum(file.floor))
                   PROVE  \E i \in DOMAIN events' : /\ events'[i].cluster = file.cluster
                                                    /\ Says(events'[i].event, file.lines[k])
      <3>1. files'[id].source = file /\ files'[id].severity_filter = normalize_minimum(file.floor)
        BY <1>2, <1>4
      <3>. QED
        BY <3>1 DEF Complete
    <2>2. PICK l \in 1..Len(lines) : lines[l] = file.lines[k]
      BY <1>3, <2>1, LinesFacts DEF lines
    <2>3. /\ meets_minimum(Parsed(file)[l].severity, normalize_minimum(file.floor))
          /\ Says(Parsed(file)[l], lines[l])
      BY <1>3, <2>1, <2>2, ParsedSays DEF lines
    <2>4. CASE \E j \in 1..result.event_count : rows[j].event = Parsed(file)[l]
      <3>1. PICK j \in 1..result.event_count : rows[j].event = Parsed(file)[l]
        BY <2>4
      <3>2. /\ Len(events) + j \in DOMAIN events' /\ events'[Len(events) + j] = rows[j]
            /\ rows[j].cluster = file.cluster
        BY <1>5, <1>8, <1>9 DEF Grown
      <3>. QED
        BY <2>2, <2>3, <3>1, <3>2
    <2>5. CASE \E i \in DOMAIN events : events[i].cluster = file.cluster
                                        /\ events[i].event = Parsed(file)[l]
      <3>1. PICK i \in DOMAIN events : events[i].cluster = file.cluster
                                        /\ events[i].event = Parsed(file)[l]
        BY <2>5
      <3>2. i \in DOMAIN events' /\ events'[i] = events[i]
        BY <1>8 DEF Grown
      <3>. QED
        BY <2>2, <2>3, <3>1, <3>2
    <2>. QED
      BY <1>7, <2>3, <2>4, <2>5
  <1>14. \A f \in DOMAIN files' :
            /\ IsFile(files'[f].source)
            /\ files'[f].severity_filter = normalize_minimum(files'[f].source.floor)
    BY <1>2, <1>3, <1>4 DEF FilesInv
  <1>. QED
    BY <1>3, <1>4, <1>10, <1>11, <1>12, <1>13, <1>14 DEF FilesInv

\* What changes neither table changes nothing of this.
LEMMA FilesStay ==
    ASSUME FilesInv, UNCHANGED <<files, events>>,
           IsSeq(arrivals'), \A i \in DOMAIN arrivals' : IsFile(arrivals'[i])
    PROVE  FilesInv'
  <1>1. ASSUME NEW f, NEW base, NEW order, Stored(f, base, order)
        PROVE  Stored(f, base, order)'
    BY <1>1 DEF Stored
  <1>2. \A f : Complete(f) => Complete(f)'
    BY DEF Complete
  <1>3. \A f : HasRows(f) => HasRows(f)'
    BY <1>1 DEF HasRows
  <1>. QED
    BY <1>2, <1>3 DEF FilesInv

LEMMA FilesStep == FilesInv /\ [Next]_vars => FilesInv'
  <1>. SUFFICES ASSUME FilesInv, [Next]_vars
                PROVE  FilesInv'
    OBVIOUS
  <1>1. CASE ingest_file
    BY <1>1, NewFile
  <1>2. CASE RefuseFile
    <2>1. /\ IsSeq(Tail(arrivals))
          /\ \A i \in DOMAIN Tail(arrivals) : i + 1 \in DOMAIN arrivals /\ Tail(arrivals)[i] = arrivals[i + 1]
      BY <1>2, TailFacts DEF FilesInv, RefuseFile
    <2>2. IsSeq(arrivals') /\ \A i \in DOMAIN arrivals' : IsFile(arrivals'[i])
      BY <1>2, <2>1 DEF FilesInv, RefuseFile
    <2>3. files' = files /\ events' = events
      BY <1>2 DEF RefuseFile
    <2>. QED
      BY <2>2, <2>3, FilesStay
  <1>3. ASSUME NEW scope \in Scopes, BeginScan(scope)
        PROVE  FilesInv'
    BY <1>3, FilesStay DEF BeginScan, FilesInv
  <1>4. ASSUME NEW refs \in RefLists, EndScan(refs)
        PROVE  FilesInv'
    BY <1>4, FilesStay DEF EndScan, FilesInv
  <1>5. CASE UNCHANGED vars
    BY <1>5, FilesStay DEF vars, FilesInv
  <1>. QED
    BY <1>1, <1>2, <1>3, <1>4, <1>5 DEF Next

\* What a row of a file says is what was made of a line of it.
LEMMA RowFacts ==
    ASSUME FilesInv, NEW i \in DOMAIN events
    PROVE  LET f      == events[i].file
               source == files[f].source
           IN  /\ f \in DOMAIN files /\ IsFile(source)
               /\ files[f].event_count \in Nat
               /\ events[i].sequence_num \in 1..files[f].event_count
               /\ events[i].cluster = source.cluster
               /\ \E l \in 1..Len(Lines(source)) :
                     /\ events[i].raw_line = Lines(source)[l]
                     /\ events[i].event = Parsed(source)[l]
                     /\ meets_minimum(Parsed(source)[l].severity, files[f].severity_filter)
  <1>. DEFINE f      == events[i].file
              source == files[f].source
              n      == files[f].event_count
              lines  == Lines(source)
  <1>1. f \in DOMAIN files /\ IsFile(source)
    BY DEF FilesInv
  <1>2. PICK base, order : Stored(f, base, order)
    BY <1>1 DEF FilesInv, HasRows
  <1>3. /\ base \in Nat /\ n \in Nat
        /\ i \in (base + 1)..(base + n)
        /\ order \in [1..n -> 1..Len(lines)]
    BY <1>2 DEF Stored
  <1>4. i - base \in 1..n /\ base + (i - base) = i
    <2>. HIDE DEF n
    <2>1. i \in Int
      BY <1>3
    <2>. QED
      BY <1>3, <2>1
  <1>5. PICK k \in 1..n : i = base + k
    BY <1>4
  <1>6. /\ events[base + k] =
              [file |-> f, cluster |-> source.cluster, sequence_num |-> k,
               raw_line |-> lines[order[k]], event |-> Parsed(source)[order[k]]]
        /\ meets_minimum(Parsed(source)[order[k]].severity, files[f].severity_filter)
    BY <1>2, <1>5 DEF Stored
  <1>. DEFINE line  == lines[order[k]]
              event == Parsed(source)[order[k]]
  <1>7. /\ events[i].cluster = source.cluster /\ events[i].sequence_num = k
        /\ events[i].raw_line = line /\ events[i].event = event
    <2>. DEFINE row == events[i]
    <2>1. row = [file |-> f, cluster |-> source.cluster, sequence_num |-> k,
                 raw_line |-> line, event |-> event]
      BY <1>5, <1>6
    <2>. HIDE DEF row, line, event, f, source
    <2>2. /\ row.cluster = source.cluster /\ row.sequence_num = k
          /\ row.raw_line = line /\ row.event = event
      BY <2>1
    <2>. QED
      BY <2>2 DEF row
  <1>8. order[k] \in 1..Len(lines)
    BY <1>3
  <1>. QED
    BY <1>1, <1>3, <1>6, <1>7, <1>8

LEMMA RowsFromFiles == FilesInv => RowsOK
  <1>. SUFFICES ASSUME FilesInv, NEW i \in DOMAIN events
                PROVE  events[i].event.time \in Int \cup {NoTime} /\ events[i].sequence_num \in Nat
    BY DEF RowsOK, FilesInv
  <1>. DEFINE file == files[events[i].file].source
              lines == Lines(file)
  <1>1. /\ IsFile(file) /\ events[i].sequence_num \in Nat
        /\ \E l \in 1..Len(lines) : events[i].event = Parsed(file)[l]
    BY RowFacts
  <1>2. PICK l \in 1..Len(lines) : events[i].event = Parsed(file)[l]
    BY <1>1
  <1>. HIDE DEF file
  <1>3. /\ IsSeq(lines) /\ DOMAIN lines = 1..Len(lines)
        /\ \A k \in DOMAIN lines : IsLine(lines[k], file.offset)
        /\ file.offset \in (-_FUTURE_SLACK).._FUTURE_SLACK /\ file.mtime \in Nat
    BY <1>1, LinesFacts DEF IsFile
  <1>. HIDE DEF lines
  <1>4. parse_file(lines, file.offset, file.mtime)[l].time \in Int \cup {NoTime}
    BY <1>3, ParseFacts
  <1>. QED
    BY <1>1, <1>2, <1>4 DEF Parsed, lines

\* The floor on a file's row is exact, in a state the tables are in.
LEMMA FloorFromFiles == FilesInv => FloorIsExact
  <1>. SUFFICES ASSUME FilesInv, NEW f \in DOMAIN files
                PROVE  LET minimum == files[f].severity_filter
                           source  == files[f].source IN
        /\ \A i \in OfFile(f) :
              Ranked(events[i].event.severity) => Above(events[i].event.severity, minimum)
        /\ \A k \in DOMAIN source.lines :
              Ranked(source.lines[k].severity) /\ Above(source.lines[k].severity, minimum) =>
                  \E i \in DOMAIN events : /\ events[i].cluster = source.cluster
                                           /\ Says(events[i].event, source.lines[k])
        /\ files[f].event_count = Cardinality(OfFile(f))
        /\ files[f].event_count + files[f].duplicates_skipped + files[f].severity_skipped
             = Len(Lines(source))
    BY DEF FloorIsExact
  <1>. DEFINE n == files[f].event_count
              minimum == files[f].severity_filter
              source  == files[f].source
  <1>1. ASSUME NEW i \in OfFile(f), Ranked(events[i].event.severity)
        PROVE  Above(events[i].event.severity, minimum)
    <2>1. i \in DOMAIN events /\ events[i].file = f
      BY DEF OfFile
    <2>2. meets_minimum(events[i].event.severity, minimum)
      BY <2>1, RowFacts
    <2>. QED
      BY <1>1, <2>2 DEF meets_minimum, Above
  <1>2. Complete(f)
    BY DEF FilesInv
  <1>3. PICK base, order : Stored(f, base, order)
    BY DEF FilesInv, HasRows
  <1>4. n + files[f].duplicates_skipped + files[f].severity_skipped = Len(Lines(source))
    BY <1>3 DEF Stored
  <1>5. n = Cardinality(OfFile(f))
    <2>1. /\ base \in Nat /\ n \in Nat /\ base + n <= Len(events)
          /\ \A i \in DOMAIN events : events[i].file = f <=> i \in (base + 1)..(base + n)
      BY <1>3 DEF Stored
    <2>2. DOMAIN events = 1..Len(events) /\ Len(events) \in Nat
      BY DEF FilesInv, IsSeq
    <2>. HIDE DEF n
    <2>3. OfFile(f) = (base + 1)..(base + n)
      BY <2>1, <2>2 DEF OfFile
    <2>4. Cardinality((base + 1)..(base + n)) = n
      <3>1. CASE n = 0
        <4>1. (base + 1)..(base + n) = {}
          BY <2>1, <3>1
        <4>. QED
          BY <3>1, <4>1, FS_EmptySet
      <3>2. CASE n # 0
        <4>1. base + 1 \in Int /\ base + n \in Int /\ base + 1 <= base + n
              /\ (base + n) - (base + 1) + 1 = n
          BY <2>1, <3>2
        <4>. QED
          BY <4>1, FS_Interval
      <3>. QED
        BY <3>1, <3>2
    <2>. QED
      BY <2>3, <2>4
  <1>. QED
    BY <1>1, <1>2, <1>4, <1>5 DEF Complete

-----------------------------------------------------------------------------
(* Groups and leads.                                                       *)

\* A group says of its first and its last event what they say themselves.
IsGroup(group, table) ==
    /\ group = [ref |-> group.ref, node |-> group.node, event_name |-> group.event_name,
                severity |-> group.severity, count |-> group.count,
                first_event_id |-> group.first_event_id, last_event_id |-> group.last_event_id,
                first_time |-> group.first_time, last_time |-> group.last_time]
    /\ group.first_event_id \in DOMAIN table /\ group.last_event_id \in DOMAIN table
    /\ LET first == table[group.first_event_id]
           last  == table[group.last_event_id]
       IN  /\ first.event.node = group.node /\ last.event.node = group.node
           /\ first.event.event_name = group.event_name /\ last.event.event_name = group.event_name
           /\ first.event.severity = group.severity /\ last.event.severity = group.severity
           /\ first.event.time = group.first_time /\ last.event.time = group.last_time
           /\ first.cluster = last.cluster

AreGroups(groups, table) ==
    /\ IsSeq(groups)
    /\ \A g \in DOMAIN groups : groups[g].ref = g /\ IsGroup(groups[g], table)

LEMMA LongerFacts ==
    ASSUME NEW ref, NEW node, NEW name, NEW severity, NEW count, NEW first, NEW last,
           NEW begun, NEW ended, NEW i, NEW group,
           group = [ref |-> ref, node |-> node, event_name |-> name, severity |-> severity,
                    count |-> count, first_event_id |-> first, last_event_id |-> last,
                    first_time |-> begun, last_time |-> ended]
    PROVE  Longer(group, i) =
              [ref |-> ref, node |-> node, event_name |-> name, severity |-> severity,
               count |-> count + 1, first_event_id |-> first, last_event_id |-> i,
               first_time |-> begun, last_time |-> events[i].event.time]
  <1>1. Longer(group, i) =
           [field \in DOMAIN group |->
               CASE field = "count" -> group.count + 1
                 [] field = "last_event_id" -> i
                 [] field = "last_time" -> events[i].event.time
                 [] OTHER -> group[field]]
    BY DEF Longer
  <1>. QED
    BY <1>1

\* An event joins a group it is like, or begins one.
LEMMA AddToGroupsFacts ==
    ASSUME NEW groups, AreGroups(groups, events), NEW i \in DOMAIN events
    PROVE  AreGroups(AddToGroups(groups, i), events)
  <1>. DEFINE joined == {g \in OpenGroup(groups, i) : Alike(groups[g].first_event_id, i)}
              time   == events[i].event.time
  <1>1. IsSeq(groups) /\ Len(groups) \in Nat /\ DOMAIN groups = 1..Len(groups)
    BY DEF AreGroups, IsSeq
  <1>2. CASE joined # {}
    <2>. DEFINE g == CHOOSE h \in joined : TRUE
    <2>1. g \in joined
      BY <1>2
    <2>2. /\ g \in DOMAIN groups
          /\ Key(groups[g].first_event_id) = Key(i) /\ Alike(groups[g].first_event_id, i)
      BY <2>1 DEF OpenGroup
    <2>. DEFINE old == groups[g]
                new == Longer(old, i)
                added == [groups EXCEPT ![g] = new]
    <2>3. AddToGroups(groups, i) = added
      BY <1>2 DEF AddToGroups
    <2>. HIDE DEF g, joined
    <2>4. IsGroup(old, events) /\ old.ref = g
      BY <2>2 DEF AreGroups
    <2>5. /\ events[old.first_event_id].cluster = events[i].cluster
          /\ events[old.first_event_id].event.node = events[i].event.node
          /\ events[old.first_event_id].event.event_name = events[i].event.event_name
          /\ events[old.first_event_id].event.severity = events[i].event.severity
      BY <2>2 DEF Key, Alike
    <2>. HIDE DEF old, new, time
    <2>6. IsGroup(new, events) /\ new.ref = g
      <3>1. new = [ref |-> g, node |-> old.node, event_name |-> old.event_name,
                   severity |-> old.severity, count |-> old.count + 1,
                   first_event_id |-> old.first_event_id, last_event_id |-> i,
                   first_time |-> old.first_time, last_time |-> time]
        <4>1. old = [ref |-> g, node |-> old.node, event_name |-> old.event_name,
                     severity |-> old.severity, count |-> old.count,
                     first_event_id |-> old.first_event_id, last_event_id |-> old.last_event_id,
                     first_time |-> old.first_time, last_time |-> old.last_time]
          BY <2>4 DEF IsGroup
        <4>. QED
          BY <4>1, LongerFacts DEF new, time
      <3>2. /\ new.ref = g /\ new.node = old.node /\ new.event_name = old.event_name
            /\ new.severity = old.severity /\ new.count = old.count + 1
            /\ new.first_event_id = old.first_event_id /\ new.last_event_id = i
            /\ new.first_time = old.first_time /\ new.last_time = time
        BY <3>1
      <3>3. new = [ref |-> new.ref, node |-> new.node, event_name |-> new.event_name,
                   severity |-> new.severity, count |-> new.count,
                   first_event_id |-> new.first_event_id, last_event_id |-> new.last_event_id,
                   first_time |-> new.first_time, last_time |-> new.last_time]
        BY <3>1, <3>2
      <3>4. events[i].event.time = time
        BY DEF time
      <3>. QED
        BY <2>4, <2>5, <3>2, <3>3, <3>4 DEF IsGroup
    <2>7. added = [h \in 1..Len(groups) |-> IF h = g THEN new ELSE groups[h]]
      BY <1>1
    <2>8. IsSeq(added) /\ Len(added) = Len(groups) /\ DOMAIN added = DOMAIN groups
      BY <1>1, <2>7, FunctionIsSeq
    <2>9. \A h \in DOMAIN groups : added[h] = IF h = g THEN new ELSE groups[h]
      BY <1>1, <2>7
    <2>. HIDE DEF added
    <2>. QED
      BY <2>3, <2>6, <2>8, <2>9 DEF AreGroups
  <1>3. CASE joined = {}
    <2>. DEFINE new == [ref |-> Len(groups) + 1, node |-> events[i].event.node,
                        event_name |-> events[i].event.event_name,
                        severity |-> events[i].event.severity, count |-> 1,
                        first_event_id |-> i, last_event_id |-> i,
                        first_time |-> events[i].event.time, last_time |-> events[i].event.time]
                added == Append(groups, new)
    <2>1. AddToGroups(groups, i) = added
      BY <1>3 DEF AddToGroups
    <2>2. new.ref = Len(groups) + 1 /\ IsGroup(new, events)
      BY DEF IsGroup
    <2>. HIDE DEF new
    <2>3. /\ IsSeq(added) /\ DOMAIN added = DOMAIN groups \cup {Len(groups) + 1}
          /\ added[Len(groups) + 1] = new
          /\ \A h \in DOMAIN groups : added[h] = groups[h]
      BY <1>1, AppendFacts
    <2>. HIDE DEF added
    <2>. QED
      BY <2>1, <2>2, <2>3 DEF AreGroups
  <1>. QED
    BY <1>2, <1>3

LEMMA GroupsAreGroups ==
    ASSUME NEW ids, IsSeq(ids), \A k \in DOMAIN ids : ids[k] \in DOMAIN events
    PROVE  \A n \in 0..Len(ids) : AreGroups(GroupsOf(ids)[n], events)
  <1>. DEFINE groups == GroupsOf(ids)
              bad    == {n \in 0..Len(ids) : ~AreGroups(groups[n], events)}
  <1>1. Len(ids) \in Nat /\ DOMAIN ids = 1..Len(ids)
    BY DEF IsSeq
  <1>2. \A n \in 0..Len(ids) : groups[n] = GroupsStep(ids, groups, n)
    BY <1>1, GroupsUnfold
  <1>3. bad \in SUBSET Nat /\ \A n \in 0..Len(ids) : n \in bad <=> ~AreGroups(groups[n], events)
    BY <1>1
  <1>. HIDE DEF groups, bad
  <1>4. SUFFICES ASSUME bad # {}
                 PROVE  FALSE
    BY <1>3 DEF groups
  <1>5. PICK n \in bad : \A m \in bad : n <= m
    BY <1>3, <1>4, Smallest
  <1>6. n \in 0..Len(ids)
    BY <1>5 DEF bad
  <1>7. CASE n = 0
    <2>1. groups[n] = <<>>
      BY <1>2, <1>6, <1>7 DEF GroupsStep
    <2>2. IsSeq(<<>>) /\ DOMAIN <<>> = {}
      BY EmptyFacts
    <2>3. AreGroups(<<>>, events)
      BY <2>2 DEF AreGroups
    <2>. QED
      BY <1>3, <1>5, <1>6, <2>1, <2>3
  <1>8. CASE n # 0
    <2>1. n - 1 \in 0..Len(ids) /\ ~(n <= n - 1) /\ n \in 1..Len(ids)
      BY <1>1, <1>6, <1>8
    <2>2. AreGroups(groups[n - 1], events)
      BY <1>3, <1>5, <2>1
    <2>3. groups[n] = AddToGroups(groups[n - 1], ids[n])
      BY <1>2, <1>6, <1>8 DEF GroupsStep
    <2>4. ids[n] \in DOMAIN events
      BY <1>1, <2>1
    <2>. QED
      BY <1>3, <1>5, <1>6, <2>2, <2>3, <2>4, AddToGroupsFacts
  <1>. QED
    BY <1>7, <1>8

\* Leads are groups that were shown, and no more of them than a candidate keeps.
LEMMA LeadsFacts ==
    ASSUME NEW groups, NEW refs, IsSeq(refs)
    PROVE  LET leads == Leads(groups, refs) IN
           /\ Len(leads) \in 0..MAX_LEADS
           /\ DOMAIN leads = 1..Len(leads)
           /\ leads # <<>> => Len(leads) \in 1..MAX_LEADS
           /\ \A k \in DOMAIN leads : \E r \in DOMAIN refs :
                 refs[r] \in DOMAIN groups /\ leads[k] = groups[refs[r]]
  <1>. DEFINE wanted == {r \in DOMAIN refs : refs[r] \in DOMAIN groups}
              order  == Ascending(wanted)
              m      == IF Len(order) < MAX_LEADS THEN Len(order) ELSE MAX_LEADS
              known  == SubSeq(order, 1, m)
              leads  == [k \in DOMAIN known |-> groups[refs[known[k]]]]
  <1>1. Leads(groups, refs) = leads
    BY DEF Leads, FirstOf
  <1>2. Len(refs) \in Nat /\ wanted \in SUBSET (1..Len(refs))
    BY DEF IsSeq
  <1>3. \A r \in wanted : r \in DOMAIN refs /\ refs[r] \in DOMAIN groups
    OBVIOUS
  <1>. HIDE DEF wanted
  <1>4. /\ Cardinality(wanted) \in Nat
        /\ order \in [1..Cardinality(wanted) -> wanted]
        /\ Len(order) = Cardinality(wanted)
    BY <1>2, AscendingFacts
  <1>. HIDE DEF order
  <1>5. order \in Seq(wanted) /\ DOMAIN order = 1..Len(order) /\ Len(order) \in Nat
    BY <1>4
  <1>6. m \in 0..MAX_LEADS /\ m <= Len(order)
    BY <1>5, LimitsAssumption
  <1>. HIDE DEF m
  <1>7. /\ Len(known) = m /\ DOMAIN known = 1..m
        /\ \A k \in 1..m : known[k] = order[k]
    BY <1>5, <1>6, LimitsAssumption, SubSeqProperties
  <1>. HIDE DEF known
  <1>8. \A k \in 1..m : known[k] \in wanted
    BY <1>4, <1>6, <1>7
  <1>9. /\ DOMAIN leads = 1..m
        /\ \A k \in 1..m : leads[k] = groups[refs[known[k]]]
    BY <1>7
  <1>10. IsSeq(leads) /\ Len(leads) = m
    <2>1. m \in Nat /\ leads = [k \in 1..m |-> leads[k]]
      BY <1>6, <1>7, LimitsAssumption
    <2>. HIDE DEF leads
    <2>. QED
      BY <2>1, FunctionIsSeq
  <1>. HIDE DEF leads
  <1>11. leads # <<>> => m # 0
    <2>1. ASSUME m = 0 PROVE leads = <<>>
      BY <1>10, <2>1 DEF IsSeq
    <2>. QED
      BY <2>1
  <1>. QED
    BY <1>1, <1>3, <1>6, <1>8, <1>9, <1>10, <1>11, LimitsAssumption

ScansInv ==
    /\ scans \in 0..MaxScans
    /\ scan.asking => AreGroups(scan.groups, events)
    /\ IsSeq(candidates)
    /\ \A c \in DOMAIN candidates :
          LET candidate == candidates[c] IN
          /\ AreGroups(candidate.shown, events)
          /\ candidate.leads = Leads(candidate.shown, candidate.refs)
          /\ candidate.leads # <<>>
          /\ candidate.refs \in RefLists

LEMMA ScansInit == Init => ScansInv
  <1>. SUFFICES ASSUME Init PROVE ScansInv
    OBVIOUS
  <1>. QED
    BY EmptyFacts, LimitsAssumption DEF Init, ScansInv, NoScan

\* A group stays true of a table that only grows.
LEMMA GroupsStay ==
    ASSUME NEW groups, NEW old, NEW new, AreGroups(groups, old),
           \A i \in DOMAIN old : i \in DOMAIN new /\ new[i] = old[i]
    PROVE  AreGroups(groups, new)
  BY DEF AreGroups, IsGroup

LEMMA OrderedIds ==
    ASSUME FilesInv, NEW scope
    PROVE  LET ids == get_all_events_ordered(scope) IN
           IsSeq(ids) /\ \A k \in DOMAIN ids : ids[k] \in DOMAIN events
  <1>. DEFINE wanted == {i \in DOMAIN events : InScope(i, scope)}
              ids    == Ordered(wanted)
  <1>1. wanted \in SUBSET DOMAIN events
    OBVIOUS
  <1>. HIDE DEF wanted
  <1>2. ids \in Seq(wanted)
    BY <1>1, RowsFromFiles, OrderedFacts
  <1>. HIDE DEF ids
  <1>3. IsSeq(ids) /\ \A k \in DOMAIN ids : ids[k] \in DOMAIN events
    BY <1>1, <1>2, SeqFacts
  <1>. QED
    BY <1>3 DEF ids, wanted, get_all_events_ordered

\* The events table only grows.
LEMMA EventsStay ==
    ASSUME FilesInv, [Next]_vars
    PROVE  \A i \in DOMAIN events : i \in DOMAIN events' /\ events'[i] = events[i]
  <1>1. CASE ingest_file
    <2>. DEFINE rows == Ingested(Head(arrivals), Len(files) + 1).rows
    <2>1. events' = events \o rows /\ arrivals # <<>>
      BY <1>1 DEF ingest_file
    <2>2. Head(arrivals) = arrivals[1] /\ 1 \in DOMAIN arrivals
      BY <2>1, TailFacts DEF FilesInv
    <2>3. IsFile(Head(arrivals))
      BY <2>2 DEF FilesInv
    <2>4. IsSeq(rows)
      BY <2>3, IngestedFacts
    <2>. HIDE DEF rows
    <2>5. Grown(events, rows, events')
      BY <2>1, <2>4, GrowFacts DEF FilesInv
    <2>. QED
      BY <2>5 DEF Grown
  <1>2. CASE UNCHANGED events
    BY <1>2
  <1>3. [Next]_vars => ingest_file \/ UNCHANGED events
    BY DEF Next, vars, RefuseFile, BeginScan, EndScan
  <1>. QED
    BY <1>1, <1>2, <1>3

LEMMA ScansStep == FilesInv /\ ScansInv /\ [Next]_vars => ScansInv'
  <1>. SUFFICES ASSUME FilesInv, ScansInv, [Next]_vars
                PROVE  ScansInv'
    OBVIOUS
  <1>1. CASE ingest_file
    <2>1. UNCHANGED <<scan, scans, candidates>>
      BY <1>1 DEF ingest_file
    <2>2. \A i \in DOMAIN events : i \in DOMAIN events' /\ events'[i] = events[i]
      BY EventsStay
    <2>3. scan.asking => AreGroups(scan.groups, events')
      BY <2>2, GroupsStay DEF ScansInv
    <2>4. \A c \in DOMAIN candidates : AreGroups(candidates[c].shown, events')
      BY <2>2, GroupsStay DEF ScansInv
    <2>. QED
      BY <2>1, <2>3, <2>4 DEF ScansInv
  <1>2. CASE RefuseFile
    BY <1>2 DEF RefuseFile, ScansInv
  <1>3. ASSUME NEW scope \in Scopes, BeginScan(scope)
        PROVE  ScansInv'
    <2>. DEFINE ids    == get_all_events_ordered(scope)
                groups == build_compact_corpus(scope)
    <2>1. /\ scan' = [asking |-> TRUE, scope |-> scope, corpus |-> ids, groups |-> groups]
          /\ scans < MaxScans /\ scans' = scans + 1
          /\ UNCHANGED <<events, candidates>>
      BY <1>3 DEF BeginScan
    <2>2. AreGroups(groups, events)
      <3>1. IsSeq(ids) /\ \A k \in DOMAIN ids : ids[k] \in DOMAIN events
        BY OrderedIds
      <3>2. Len(ids) \in 0..Len(ids)
        BY <3>1 DEF IsSeq
      <3>3. groups = GroupsOf(ids)[Len(ids)]
        BY DEF build_compact_corpus
      <3>. HIDE DEF ids, groups
      <3>. QED
        BY <3>1, <3>2, <3>3, GroupsAreGroups
    <2>. HIDE DEF ids, groups
    <2>3. scan'.groups = groups
      BY <2>1
    <2>4. scans' \in 0..MaxScans
      BY <2>1, LimitsAssumption DEF ScansInv
    <2>. QED
      BY <2>1, <2>2, <2>3, <2>4 DEF ScansInv
  <1>4. ASSUME NEW refs \in RefLists, EndScan(refs)
        PROVE  ScansInv'
    <2>. DEFINE leads == Leads(scan.groups, refs)
                new   == [scope |-> scan.scope, leads |-> leads, shown |-> scan.groups, refs |-> refs]
    <2>1. /\ scan.asking /\ scan' = NoScan
          /\ candidates' = IF leads = <<>> THEN candidates ELSE Append(candidates, new)
          /\ UNCHANGED <<events, scans>>
      BY <1>4 DEF EndScan, resolve_leads
    <2>2. new.leads = leads /\ new.shown = scan.groups /\ new.refs = refs
      OBVIOUS
    <2>. HIDE DEF leads, new
    <2>3. ~scan'.asking
      BY <2>1 DEF NoScan
    <2>4. CASE leads = <<>>
      BY <2>1, <2>3, <2>4 DEF ScansInv
    <2>5. CASE leads # <<>>
      <3>1. candidates' = Append(candidates, new)
        BY <2>1, <2>5
      <3>2. /\ IsSeq(Append(candidates, new))
            /\ DOMAIN Append(candidates, new) = DOMAIN candidates \cup {Len(candidates) + 1}
            /\ Append(candidates, new)[Len(candidates) + 1] = new
            /\ \A c \in DOMAIN candidates : Append(candidates, new)[c] = candidates[c]
        BY AppendFacts DEF ScansInv
      <3>3. /\ AreGroups(new.shown, events) /\ new.leads = Leads(new.shown, new.refs)
            /\ new.leads # <<>> /\ new.refs \in RefLists
        BY <2>1, <2>2, <2>5 DEF ScansInv, leads
      <3>4. IsSeq(candidates') /\ \A c \in DOMAIN candidates' :
               candidates'[c] = new \/ (c \in DOMAIN candidates /\ candidates'[c] = candidates[c])
        BY <3>1, <3>2
      <3>. QED
        BY <2>1, <2>3, <3>3, <3>4 DEF ScansInv
    <2>. QED
      BY <2>4, <2>5
  <1>5. CASE UNCHANGED vars
    BY <1>5 DEF vars, ScansInv
  <1>. QED
    BY <1>1, <1>2, <1>3, <1>4, <1>5 DEF Next

LEMMA CandidateFacts ==
    ASSUME ScansInv, NEW c \in DOMAIN candidates
    PROVE  LET candidate == candidates[c] IN
           /\ Len(candidate.leads) \in 1..MAX_LEADS
           /\ \A k \in DOMAIN candidate.leads : \E r \in DOMAIN candidate.refs :
                 /\ candidate.refs[r] \in DOMAIN candidate.shown
                 /\ candidate.leads[k] = candidate.shown[candidate.refs[r]]
  <1>. DEFINE candidate == candidates[c]
  <1>1. /\ candidate.leads = Leads(candidate.shown, candidate.refs)
        /\ candidate.leads # <<>> /\ IsSeq(candidate.refs)
    BY RefsAssumption DEF ScansInv
  <1>. HIDE DEF candidate
  <1>2. LET leads == Leads(candidate.shown, candidate.refs) IN
        /\ leads # <<>> => Len(leads) \in 1..MAX_LEADS
        /\ \A k \in DOMAIN leads : \E r \in DOMAIN candidate.refs :
              /\ candidate.refs[r] \in DOMAIN candidate.shown
              /\ leads[k] = candidate.shown[candidate.refs[r]]
    BY <1>1, LeadsFacts
  <1>. QED
    BY <1>1, <1>2 DEF candidate

LEMMA LeadsFromScans == ScansInv => LeadsStayTrue
  <1>. SUFFICES ASSUME ScansInv, NEW c \in DOMAIN candidates, NEW k \in DOMAIN candidates[c].leads
                PROVE  LET lead  == candidates[c].leads[k]
                           first == events[lead.first_event_id]
                           last  == events[lead.last_event_id] IN
        /\ \E r \in DOMAIN candidates[c].refs :
              lead.ref = candidates[c].refs[r] /\ lead = candidates[c].shown[lead.ref]
        /\ \A event \in {first.event, last.event} :
              /\ event.node = lead.node
              /\ event.event_name = lead.event_name
              /\ event.severity = lead.severity
        /\ first.event.time = lead.first_time
        /\ last.event.time = lead.last_time
        /\ first.cluster = last.cluster
    BY DEF LeadsStayTrue
  <1>. DEFINE lead == candidates[c].leads[k]
  <1>1. PICK r \in DOMAIN candidates[c].refs :
           /\ candidates[c].refs[r] \in DOMAIN candidates[c].shown
           /\ lead = candidates[c].shown[candidates[c].refs[r]]
    BY CandidateFacts
  <1>2. AreGroups(candidates[c].shown, events)
    BY DEF ScansInv
  <1>3. lead.ref = candidates[c].refs[r] /\ IsGroup(lead, events)
    BY <1>1, <1>2 DEF AreGroups
  <1>. HIDE DEF lead
  <1>4. lead.ref = candidates[c].refs[r] /\ lead = candidates[c].shown[lead.ref]
    BY <1>1, <1>3
  <1>. QED
    BY <1>3, <1>4 DEF IsGroup, lead

LEMMA FloorType == ASSUME NEW word PROVE normalize_minimum(word) \in DOMAIN _RANKS \cup {NoSeverity}
  <1>1. DOMAIN _RANKS = {"emergency", "alert", "critical", "error", "warning",
                         "notice", "informational", "info", "debug"}
    BY DEF _RANKS
  <1>2. CASE Ranked(word)
    BY <1>1, <1>2 DEF normalize_minimum, canonical, Ranked
  <1>. QED
    BY <1>2 DEF normalize_minimum

LEMMA TypeFromTables == FilesInv /\ ScansInv => TypeOK
  <1>. SUFFICES ASSUME FilesInv, ScansInv
                PROVE  TypeOK
    OBVIOUS
  <1>1. ASSUME NEW i \in DOMAIN events
        PROVE  /\ events[i].file \in DOMAIN files
               /\ events[i].cluster \in Clusters \cup {NoCluster}
               /\ events[i].sequence_num \in 1..files[events[i].file].event_count
               /\ events[i].event.time \in Int \cup {NoTime}
    <2>1. /\ events[i].file \in DOMAIN files /\ IsFile(files[events[i].file].source)
          /\ events[i].sequence_num \in 1..files[events[i].file].event_count
          /\ events[i].cluster = files[events[i].file].source.cluster
      BY RowFacts
    <2>2. events[i].event.time \in Int \cup {NoTime}
      BY RowsFromFiles DEF RowsOK
    <2>. QED
      BY <2>1, <2>2 DEF IsFile
  <1>2. \A f \in DOMAIN files : files[f].severity_filter \in DOMAIN _RANKS \cup {NoSeverity}
    BY FloorType DEF FilesInv
  <1>3. \A c \in DOMAIN candidates : Len(candidates[c].leads) \in 1..MAX_LEADS
    BY CandidateFacts
  <1>. QED
    BY <1>1, <1>2, <1>3 DEF TypeOK, ScansInv

LEMMA TablesAlways == Spec => [](FilesInv /\ ScansInv)
  <1>1. Init => FilesInv /\ ScansInv
    BY FilesInit, ScansInit
  <1>2. FilesInv /\ ScansInv /\ [Next]_vars => (FilesInv /\ ScansInv)'
    BY FilesStep, ScansStep
  <1>. QED
    BY <1>1, <1>2, PTL DEF Spec

(***************************************************************************)
(* Every row is of a file that is there and of its cluster, has a place    *)
(* within it and a time or none; floors are words that are ranked; and no  *)
(* candidate is without leads, or has more than it keeps (ingest_file,     *)
(* resolve_leads).                                                         *)
(***************************************************************************)
THEOREM TypeCorrect == Spec => []TypeOK
  BY TablesAlways, TypeFromTables, PTL

(***************************************************************************)
(* The floor on a file's row is true of its events, whatever the files and *)
(* whoever applied it; the row accounts for every line (ingest_file,       *)
(* fetch_events and src/app/severity.py).                                  *)
(***************************************************************************)
THEOREM FloorStaysExact == Spec => []FloorIsExact
  BY TablesAlways, FloorFromFiles, PTL

(***************************************************************************)
(* A candidate's leads are what the model was shown under the refs it      *)
(* answered with, and stay true of the events they name, whatever is       *)
(* ingested while it answers and afterwards (resolve_leads).               *)
(***************************************************************************)
THEOREM LeadsAreTrue == Spec => []LeadsStayTrue
  BY TablesAlways, LeadsFromScans, PTL

(***************************************************************************)
(* In every state the tables reach, whatever filters, numbers and windows  *)
(* the model may ask for, a tool answers with the first of the events of   *)
(* its cluster that were asked for, and says so when that is not all; a    *)
(* rate is counted over one cluster (src/app/agent/tools.py).              *)
(***************************************************************************)
THEOREM EvidenceStaysWhole == Spec => []EvidenceIsWhole
  <1>1. FilesInv => EvidenceIsWhole
    BY RowsFromFiles, EvidenceFromRows
  <1>. QED
    BY <1>1, TablesAlways, PTL

-----------------------------------------------------------------------------
(* Dates.                                                                  *)

\* In the year it was written in, a stamp is the moment it was written at.
LEMMA StampBuild ==
    ASSUME NEW time \in Int, NEW offset \in Int, time + offset \in Nat
    PROVE  LET stamp == Stamp(time, offset)
               year  == YearOf(time + offset)
           IN  /\ year \in Nat /\ stamp.offset = offset
               /\ stamp.place \in 0..(YearLength - 1)
               /\ stamp.place = LeapUnit => IsLeap(year)
               /\ time + offset = NewYear(year) + stamp.place
                                  - (IF stamp.place > LeapUnit /\ ~IsLeap(year) THEN 1 ELSE 0)
               /\ _build(stamp, year) = time
  <1>. DEFINE year  == YearOf(time + offset)
              stamp == Stamp(time, offset)
              first == time + offset - NewYear(year)
  <1>1. year \in 0..(time + offset)
    BY YearOfFacts
  <1>2. /\ NewYear(year) \in Int /\ NewYear(year) <= time + offset
        /\ time + offset < NewYear(year + 1)
        /\ NewYear(year + 1) = NewYear(year) + YearLength - (IF IsLeap(year) THEN 0 ELSE 1)
    BY <1>1, YearOfFacts, NewYearFacts
  <1>3. stamp = [place |-> IF ~IsLeap(year) /\ first >= LeapUnit THEN first + 1 ELSE first,
                 offset |-> offset]
    BY DEF Stamp
  <1>4. /\ stamp.place = (IF ~IsLeap(year) /\ first >= LeapUnit THEN first + 1 ELSE first)
        /\ stamp.offset = offset
    <2>. HIDE DEF stamp, first, year
    <2>. QED
      BY <1>3
  <1>5. first \in Int /\ first \in 0..(YearLength - 1) /\ (~IsLeap(year) => first < YearLength - 1)
        /\ time + offset = NewYear(year) + first
    <2>. HIDE DEF year
    <2>. QED
      BY <1>2, CalendarAssumption
  <1>. HIDE DEF stamp, year, first
  <1>6. /\ stamp.place \in 0..(YearLength - 1)
        /\ stamp.place = LeapUnit => IsLeap(year)
        /\ time + offset = NewYear(year) + stamp.place
                           - (IF stamp.place > LeapUnit /\ ~IsLeap(year) THEN 1 ELSE 0)
    BY <1>2, <1>4, <1>5, CalendarAssumption
  <1>7. _build(stamp, year) = time
    <2>1. _build(stamp, year) = NewYear(year) + stamp.place - stamp.offset
             - (IF stamp.place > LeapUnit /\ ~IsLeap(year) THEN 1 ELSE 0)
      BY <1>6 DEF _build
    <2>. QED
      BY <1>2, <1>4, <1>6, <2>1, CalendarAssumption
  <1>. QED
    BY <1>1, <1>4, <1>6, <1>7 DEF year, stamp

(***************************************************************************)
(* Two lines in time order, less than a year apart, that are given the     *)
(* same year are in that order there, if they are at all within the        *)
(* tolerance.                                                              *)
(***************************************************************************)
LEMMA SameYearOrder ==
    ASSUME NEW first \in Int, NEW last \in Int, NEW offset \in Int,
           first + offset \in Nat, last + offset \in Nat, first <= last,
           last - first + _ROLLOVER_TOLERANCE + 1 < YearLength - 1,
           NEW year \in Int, NEW a, NEW b,
           a = _build(Stamp(first, offset), year), b = _build(Stamp(last, offset), year),
           a # NoTime, b # NoTime, a <= b + _ROLLOVER_TOLERANCE
    PROVE  a <= b
  <1>. DEFINE y == YearOf(first + offset)
              z == YearOf(last + offset)
              p == Stamp(first, offset).place
              q == Stamp(last, offset).place
              Lost(place, in) == IF place > LeapUnit /\ ~IsLeap(in) THEN 1 ELSE 0
  <1>1. /\ y \in Nat /\ p \in 0..(YearLength - 1) /\ (p = LeapUnit => IsLeap(y))
        /\ first + offset = NewYear(y) + p - Lost(p, y)
        /\ Stamp(first, offset).offset = offset
    BY StampBuild
  <1>2. /\ z \in Nat /\ q \in 0..(YearLength - 1) /\ (q = LeapUnit => IsLeap(z))
        /\ last + offset = NewYear(z) + q - Lost(q, z)
        /\ Stamp(last, offset).offset = offset
    BY StampBuild
  <1>3. /\ a = NewYear(year) + p - offset - Lost(p, year)
        /\ b = NewYear(year) + q - offset - Lost(q, year)
    BY <1>1, <1>2 DEF _build
  <1>4. /\ NewYear(year) \in Int /\ NewYear(y) \in Int /\ NewYear(z) \in Int
        /\ NewYear(y + 1) \in Int
        /\ NewYear(y + 1) = NewYear(y) + YearLength - (IF IsLeap(y) THEN 0 ELSE 1)
    BY <1>1, <1>2, NewYearFacts
  <1>5. /\ NewYear(y) <= first + offset /\ first + offset < NewYear(y + 1)
        /\ NewYear(z) <= last + offset
        /\ last + offset < NewYear(z + 1) /\ NewYear(z + 1) \in Int
    BY <1>2, YearOfFacts, NewYearFacts
  <1>6. y <= z
    <2>. SUFFICES ASSUME z < y PROVE FALSE
      BY <1>1, <1>2
    <2>1. NewYear(z + 1) <= NewYear(y)
      BY <1>1, <1>2, NewYearMonotone
    <2>. HIDE DEF y, z
    <2>. QED
      BY <1>4, <1>5, <2>1
  <1>7. y < z => NewYear(y + 1) <= NewYear(z)
    BY <1>1, <1>2, NewYearMonotone
  <1>. HIDE DEF y, z, p, q
  <1>8. /\ p \in Int /\ q \in Int /\ LeapUnit \in Int
        /\ Lost(p, year) \in {0, 1} /\ Lost(q, year) \in {0, 1}
        /\ Lost(p, y) \in {0, 1} /\ Lost(q, z) \in {0, 1}
        /\ p <= q => p - Lost(p, year) <= q - Lost(q, year)
    BY <1>1, <1>2, CalendarAssumption
  <1>9. /\ y = z /\ q < p => q - Lost(q, z) < p - Lost(p, y)
        /\ ~IsLeap(y) /\ q < p => q - p <= (q - Lost(q, z)) - (p - Lost(p, y))
        /\ IsLeap(y) => Lost(p, y) = 0
    BY <1>1, <1>2, <1>8
  <1>. HIDE DEF Lost
  <1>10. SUFFICES ASSUME b < a
                  PROVE  FALSE
    BY <1>3, <1>4, <1>8
  <1>11. q < p /\ p - q <= a - b + 1
    BY <1>3, <1>4, <1>8, <1>10
  <1>12. CASE y = z
    BY <1>1, <1>2, <1>4, <1>8, <1>9, <1>11, <1>12
  <1>13. CASE y < z
    <2>1. last - first >= YearLength - 1 - (p - q)
      BY <1>1, <1>2, <1>4, <1>7, <1>8, <1>9, <1>11, <1>13, CalendarAssumption
    <2>2. a - b <= _ROLLOVER_TOLERANCE /\ a \in Int /\ b \in Int
      BY <1>3, <1>4, <1>8, CalendarAssumption
    <2>. QED
      BY <1>8, <1>11, <2>1, <2>2, CalendarAssumption
  <1>. QED
    BY <1>1, <1>2, <1>6, <1>12, <1>13

\* A line is dated from the next one that has a stamp.
LEMMA NextStampDates ==
    ASSUME NEW stamps, NEW offset, AreStamps(stamps, offset), NEW reference \in Nat,
           NEW l \in 1..Len(stamps), NEW m \in 1..Len(stamps), l < m,
           stamps[l] # NoTime, FirstFrom(stamps, l + 1, m)
    PROVE  LET walk == WalkOf(stamps, reference)
               a    == walk[l]
               b    == walk[m]
           IN  /\ a.year \in Int /\ b.year \in Int /\ a.year \in (b.year - 4)..b.year
               /\ a.date = _build(stamps[l], a.year) /\ InYear(a.date, a.year, offset)
               /\ b.date = _build(stamps[m], b.year) /\ InYear(b.date, b.year, offset)
               /\ a.date <= b.date + _ROLLOVER_TOLERANCE
               /\ \A year \in (a.year + 1)..b.year :
                     LET date == _build(stamps[l], year) IN
                     date = NoTime \/ ~(date <= b.date + _ROLLOVER_TOLERANCE)
  <1>. DEFINE walk == WalkOf(stamps, reference)
  <1>1. Len(stamps) \in Nat /\ DOMAIN stamps = 1..Len(stamps)
        /\ l + 1 \in 1..(Len(stamps) + 1) /\ m + 1 \in 1..(Len(stamps) + 1)
        /\ l \in 1..(Len(stamps) + 1) /\ m \in 1..(Len(stamps) + 1)
    BY DEF AreStamps
  <1>2. /\ Knows(stamps, reference, offset, l + 1) /\ Knows(stamps, reference, offset, m + 1)
        /\ Knows(stamps, reference, offset, l) /\ Knows(stamps, reference, offset, m)
    BY <1>1, WalkKnows
  <1>3. stamps[m] # NoTime /\ m \in (l + 1)..Len(stamps)
        /\ \A k \in (l + 1)..(m - 1) : stamps[k] = NoTime
    BY DEF FirstFrom
  <1>4. PICK j \in (l + 1)..Len(stamps) :
           /\ FirstFrom(stamps, l + 1, j)
           /\ walk[l + 1].later = walk[j].date /\ walk[l + 1].year = walk[j].year
           /\ InYear(walk[j].date, walk[j].year, offset)
    BY <1>2, <1>3 DEF Knows
  <1>5. j = m
    <2>1. stamps[j] # NoTime /\ \A k \in (l + 1)..(j - 1) : stamps[k] = NoTime
      BY <1>4 DEF FirstFrom
    <2>2. ~(j < m) /\ ~(m < j)
      BY <1>1, <1>3, <1>4, <2>1
    <2>. QED
      BY <1>1, <1>4, <2>2
  <1>6. /\ walk[l].date = _build(stamps[l], walk[l].year)
        /\ walk[l].year \in (walk[l + 1].year - 4)..walk[l + 1].year
        /\ InYear(walk[l].date, walk[l].year, offset)
        /\ Fits(walk[l].date, walk[l + 1].later, reference)
        /\ \A year \in (walk[l].year + 1)..walk[l + 1].year :
              LET date == _build(stamps[l], year) IN
              date = NoTime \/ ~Fits(date, walk[l + 1].later, reference)
    BY <1>1, <1>2, WalkDates
  <1>7. walk[m].date = _build(stamps[m], walk[m].year) /\ InYear(walk[m].date, walk[m].year, offset)
    BY <1>1, <1>2, <1>3, WalkDates
  <1>8. walk[l].year \in Int /\ walk[m].year \in Int
    BY <1>2 DEF Knows
  <1>. HIDE DEF walk
  <1>9. \A date : Fits(date, walk[l + 1].later, reference) <=> date <= walk[m].date + _ROLLOVER_TOLERANCE
    BY <1>4, <1>5 DEF Fits, InYear
  <1>. QED
    BY <1>4, <1>5, <1>6, <1>7, <1>8, <1>9 DEF walk

Marked(lines) == {i \in DOMAIN lines : lines[i].shape = "autosupport_ems" /\ lines[i].time # NoTime}

\* The readable stamps of a file are those of the lines that have one, in their order.
LEMMA StampedFacts ==
    ASSUME NEW file, IsFile(file)
    PROVE  /\ IsSeq(Stamped(file)) /\ Len(Stamped(file)) \in Nat
           /\ Len(Stamped(file)) = Len(Ascending(Marked(file.lines)))
           /\ \A k \in 1..Len(Stamped(file)) :
                 /\ Ascending(Marked(file.lines))[k] \in Marked(file.lines)
                 /\ Stamped(file)[k] = file.lines[Ascending(Marked(file.lines))[k]]
           /\ \A i \in Marked(file.lines) :
                 \E k \in 1..Len(Stamped(file)) : Ascending(Marked(file.lines))[k] = i
           /\ \A k, l \in 1..Len(Stamped(file)) :
                 k < l => Ascending(Marked(file.lines))[k] < Ascending(Marked(file.lines))[l]
  <1>. DEFINE lines   == file.lines
              marked  == Marked(lines)
              order   == Ascending(marked)
              stamped == [k \in DOMAIN order |-> lines[order[k]]]
              n       == Cardinality(marked)
  <1>1. IsSeq(lines) /\ Len(lines) \in Nat /\ marked \in SUBSET (1..Len(lines))
    BY DEF IsFile, IsSeq, Marked
  <1>2. Stamped(file) = stamped
    BY DEF Stamped, Marked
  <1>. HIDE DEF marked, lines
  <1>3. /\ n \in Nat /\ order \in [1..n -> marked] /\ Len(order) = n
        /\ \A i \in marked : \E k \in DOMAIN order : order[k] = i
        /\ \A k, l \in DOMAIN order : k < l => order[k] < order[l]
    BY <1>1, AscendingFacts
  <1>. HIDE DEF order, n
  <1>4. DOMAIN order = 1..n /\ \A k \in 1..n : order[k] \in marked
    BY <1>3
  <1>5. \A k \in 1..n : stamped[k] = lines[order[k]]
    BY <1>4
  <1>6. IsSeq(stamped) /\ Len(stamped) = n
    <2>1. stamped = [k \in 1..n |-> stamped[k]]
      BY <1>4
    <2>. HIDE DEF stamped
    <2>. QED
      BY <1>3, <2>1, FunctionIsSeq
  <1>. HIDE DEF stamped
  <1>7. /\ IsSeq(stamped) /\ Len(stamped) \in Nat /\ Len(stamped) = Len(order)
        /\ \A k \in 1..Len(stamped) : order[k] \in marked /\ stamped[k] = lines[order[k]]
        /\ \A i \in marked : \E k \in 1..Len(stamped) : order[k] = i
        /\ \A k, l \in 1..Len(stamped) : k < l => order[k] < order[l]
    <2>1. Len(stamped) = n /\ n \in Nat /\ Len(order) = n /\ DOMAIN order = 1..n
      BY <1>3, <1>4, <1>6
    <2>. QED
      BY <1>3, <1>4, <1>5, <1>6, <2>1
  <1>. QED
    BY <1>2, <1>7 DEF order, marked, lines

\* Readable stamps between which there is none come one after the other.
LEMMA NextStamp ==
    ASSUME NEW file, IsFile(file), NEW i \in Marked(file.lines), NEW j \in Marked(file.lines),
           i < j, \A k \in Marked(file.lines) : ~(i < k /\ k < j)
    PROVE  \E k \in 1..(Len(Stamped(file)) - 1) :
              Stamped(file)[k] = file.lines[i] /\ Stamped(file)[k + 1] = file.lines[j]
  <1>. DEFINE marked  == Marked(file.lines)
              order   == Ascending(marked)
              stamped == Stamped(file)
              n       == Len(stamped)
  <1>1. i \in marked /\ j \in marked /\ \A k \in marked : k \in Nat /\ ~(i < k /\ k < j)
    BY DEF IsFile, IsSeq, Marked
  <1>2. /\ n \in Nat
        /\ \A k \in 1..n : order[k] \in marked /\ stamped[k] = file.lines[order[k]]
        /\ \A r \in marked : \E k \in 1..n : order[k] = r
        /\ \A k, l \in 1..n : k < l => order[k] < order[l]
    BY StampedFacts
  <1>. HIDE DEF marked, order, stamped, n
  <1>3. PICK k \in 1..n : order[k] = i
    BY <1>1, <1>2
  <1>4. PICK l \in 1..n : order[l] = j
    BY <1>1, <1>2
  <1>5. k < l
    <2>. SUFFICES ASSUME l <= k PROVE FALSE
      BY <1>2
    <2>1. l < k \/ l = k
      BY <1>2
    <2>2. i \in Nat /\ j \in Nat
      BY <1>1
    <2>. QED
      BY <1>2, <1>3, <1>4, <2>1, <2>2
  <1>6. k + 1 \in 1..n /\ k \in 1..(n - 1) /\ order[k] < order[k + 1]
    BY <1>2, <1>5
  <1>7. ~(k + 1 < l)
    <2>. SUFFICES ASSUME k + 1 < l PROVE FALSE
      OBVIOUS
    <2>1. order[k + 1] \in marked /\ order[k + 1] < order[l]
      BY <1>2, <1>6
    <2>. QED
      BY <1>1, <1>3, <1>4, <1>6, <2>1
  <1>8. k + 1 = l
    BY <1>2, <1>5, <1>7
  <1>9. stamped[k] = file.lines[i] /\ stamped[k + 1] = file.lines[j]
    BY <1>2, <1>3, <1>4, <1>6, <1>8
  <1>. QED
    BY <1>6, <1>9 DEF n, stamped

Walked(file) == WalkOf(Stamps(file.lines, file.offset), file.mtime)

LEMMA FileStamps ==
    ASSUME NEW file, IsFile(file)
    PROVE  LET lines  == file.lines
               stamps == Stamps(lines, file.offset)
           IN  /\ Len(lines) \in Nat /\ DOMAIN lines = 1..Len(lines)
               /\ Marked(lines) \in SUBSET (1..Len(lines))
               /\ AreStamps(stamps, file.offset) /\ Len(stamps) = Len(lines)
               /\ file.mtime \in Nat /\ file.offset \in Int
               /\ \A i \in 1..Len(lines) : stamps[i] # NoTime <=> i \in Marked(lines)
               /\ \A i \in Marked(lines) :
                     /\ stamps[i] = Stamp(lines[i].time, file.offset)
                     /\ lines[i].time \in Nat /\ lines[i].time + file.offset \in Nat
  <1>. DEFINE lines  == file.lines
              stamps == Stamps(lines, file.offset)
  <1>1. /\ IsSeq(lines) /\ Len(lines) \in Nat /\ DOMAIN lines = 1..Len(lines)
        /\ file.offset \in (-_FUTURE_SLACK).._FUTURE_SLACK /\ file.mtime \in Nat
        /\ \A i \in DOMAIN lines : IsLine(lines[i], file.offset)
    BY DEF IsFile, IsSeq
  <1>. HIDE DEF lines
  <1>2. /\ AreStamps(stamps, file.offset) /\ Len(stamps) = Len(lines)
        /\ \A i \in DOMAIN lines :
              stamps[i] # NoTime <=> lines[i].shape = "autosupport_ems" /\ lines[i].time # NoTime
        /\ \A i \in DOMAIN lines : stamps[i] # NoTime => stamps[i] = Stamp(lines[i].time, file.offset)
    BY <1>1, StampsFacts
  <1>. HIDE DEF stamps
  <1>3. \A i \in 1..Len(lines) : stamps[i] # NoTime <=> i \in Marked(lines)
    BY <1>1, <1>2 DEF Marked
  <1>4. \A i \in Marked(lines) : i \in 1..Len(lines) /\ lines[i].time # NoTime
    BY <1>1 DEF Marked
  <1>5. \A i \in Marked(lines) : lines[i].time \in Nat /\ lines[i].time + file.offset \in Nat
    BY <1>1, <1>4 DEF IsLine
  <1>6. file.offset \in Int
    BY <1>1, CalendarAssumption
  <1>. QED
    BY <1>1, <1>2, <1>3, <1>4, <1>5, <1>6 DEF lines, stamps

\* How a line is dated from the next one, in a file of that format.
LEMMA MarkedDates ==
    ASSUME NEW file, IsFile(file), NEW l \in Marked(file.lines), NEW m \in Marked(file.lines),
           l < m, \A k \in Marked(file.lines) : ~(l < k /\ k < m)
    PROVE  LET lines == file.lines
               a     == Walked(file)[l]
               b     == Walked(file)[m]
           IN  /\ a.year \in Int /\ b.year \in Int /\ a.year \in (b.year - 4)..b.year
               /\ a.date = _build(Stamp(lines[l].time, file.offset), a.year)
               /\ b.date = _build(Stamp(lines[m].time, file.offset), b.year)
               /\ InYear(a.date, a.year, file.offset) /\ InYear(b.date, b.year, file.offset)
               /\ a.date <= b.date + _ROLLOVER_TOLERANCE
               /\ \A year \in (a.year + 1)..b.year :
                     LET date == _build(Stamp(lines[l].time, file.offset), year) IN
                     date = NoTime \/ ~(date <= b.date + _ROLLOVER_TOLERANCE)
  <1>. DEFINE lines  == file.lines
              stamps == Stamps(lines, file.offset)
              marked == Marked(lines)
  <1>1. /\ Len(lines) \in Nat /\ marked \in SUBSET (1..Len(lines))
        /\ AreStamps(stamps, file.offset) /\ Len(stamps) = Len(lines)
        /\ file.mtime \in Nat
        /\ \A i \in 1..Len(lines) : stamps[i] # NoTime <=> i \in marked
        /\ \A i \in marked : stamps[i] = Stamp(lines[i].time, file.offset)
    BY FileStamps
  <1>2. l \in marked /\ m \in marked /\ \A k \in marked : ~(l < k /\ k < m)
    OBVIOUS
  <1>3. Walked(file) = WalkOf(stamps, file.mtime)
    BY DEF Walked
  <1>. HIDE DEF marked, stamps
  <1>4. l \in 1..Len(stamps) /\ m \in 1..Len(stamps) /\ stamps[l] # NoTime
    BY <1>1, <1>2
  <1>5. FirstFrom(stamps, l + 1, m)
    <2>1. m \in (l + 1)..Len(stamps) /\ stamps[m] # NoTime
      BY <1>1, <1>2, <1>4
    <2>2. ASSUME NEW k \in (l + 1)..(m - 1)
          PROVE  stamps[k] = NoTime
      <3>1. k \in 1..Len(lines) /\ l < k /\ k < m
        BY <1>1, <1>4
      <3>. QED
        BY <1>1, <1>2, <3>1
    <2>. QED
      BY <2>1, <2>2 DEF FirstFrom
  <1>6. stamps[l] = Stamp(lines[l].time, file.offset) /\ stamps[m] = Stamp(lines[m].time, file.offset)
    BY <1>1, <1>2
  <1>. DEFINE walk == WalkOf(stamps, file.mtime)
  <1>7. LET a == walk[l]
            b == walk[m]
        IN  /\ a.year \in Int /\ b.year \in Int /\ a.year \in (b.year - 4)..b.year
            /\ a.date = _build(stamps[l], a.year) /\ InYear(a.date, a.year, file.offset)
            /\ b.date = _build(stamps[m], b.year) /\ InYear(b.date, b.year, file.offset)
            /\ a.date <= b.date + _ROLLOVER_TOLERANCE
            /\ \A year \in (a.year + 1)..b.year :
                  LET date == _build(stamps[l], year) IN
                  date = NoTime \/ ~(date <= b.date + _ROLLOVER_TOLERANCE)
    BY <1>1, <1>4, <1>5, NextStampDates
  <1>. HIDE DEF walk
  <1>8. Walked(file) = walk
    BY <1>3 DEF walk
  <1>. QED
    BY <1>6, <1>7, <1>8

LEMMA MarkedDate ==
    ASSUME NEW file, IsFile(file), NEW i \in Marked(file.lines)
    PROVE  Walked(file)[i].date \in Int
  <1>. DEFINE stamps == Stamps(file.lines, file.offset)
              walk   == WalkOf(stamps, file.mtime)
  <1>1. /\ AreStamps(stamps, file.offset) /\ file.mtime \in Nat
        /\ Len(stamps) \in Nat /\ i \in 1..Len(stamps) /\ stamps[i] # NoTime
    BY FileStamps
  <1>. HIDE DEF stamps
  <1>2. Knows(stamps, file.mtime, file.offset, i + 1)
    BY <1>1, WalkKnows
  <1>3. InYear(walk[i].date, walk[i].year, file.offset)
    BY <1>1, <1>2, WalkDates
  <1>. HIDE DEF walk
  <1>. QED
    BY <1>3 DEF InYear, Walked, walk, stamps

\* A file in time order is dated in time order.
LEMMA MonotoneDates ==
    ASSUME NEW file, IsFile(file), InOrder(file), ShortGaps(file)
    PROVE  \A l, m \in Marked(file.lines) : l < m => Walked(file)[l].date <= Walked(file)[m].date
  <1>. DEFINE lines  == file.lines
              marked == Marked(lines)
              walk   == Walked(file)
              offset == file.offset
  <1>1. /\ Len(lines) \in Nat /\ marked \in SUBSET (1..Len(lines)) /\ offset \in Int
        /\ \A i \in marked : lines[i].time \in Nat /\ lines[i].time + offset \in Nat
    BY FileStamps
  <1>2. ASSUME NEW l \in marked, NEW m \in marked, l < m, \A k \in marked : ~(l < k /\ k < m)
        PROVE  walk[l].date <= walk[m].date /\ walk[l].date \in Int /\ walk[m].date \in Int
    <2>. DEFINE t == lines[l].time
                u == lines[m].time
                a == walk[l]
                b == walk[m]
    <2>1. /\ a.year \in Int /\ b.year \in Int /\ a.year <= b.year
          /\ a.date = _build(Stamp(t, offset), a.year) /\ InYear(a.date, a.year, offset)
          /\ b.date = _build(Stamp(u, offset), b.year) /\ InYear(b.date, b.year, offset)
          /\ a.date <= b.date + _ROLLOVER_TOLERANCE
      BY <1>2, MarkedDates
    <2>2. PICK k \in 1..(Len(Stamped(file)) - 1) :
             Stamped(file)[k] = lines[l] /\ Stamped(file)[k + 1] = lines[m]
      BY <1>2, NextStamp
    <2>3. t <= u /\ u - t + _ROLLOVER_TOLERANCE + 1 < YearLength - 1
      BY <2>2 DEF InOrder, ShortGaps
    <2>4. t \in Int /\ u \in Int /\ t + offset \in Nat /\ u + offset \in Nat
      BY <1>1
    <2>5. /\ a.date \in Int /\ b.date \in Int /\ a.date # NoTime /\ b.date # NoTime
          /\ NewYear(b.year) <= b.date + offset
      BY <2>1 DEF InYear
    <2>. HIDE DEF t, u, a, b, offset, walk
    <2>6. CASE a.year = b.year
      <3>1. a.date <= b.date
        BY <1>1, <2>1, <2>3, <2>4, <2>5, <2>6, SameYearOrder
      <3>. QED
        BY <2>5, <3>1 DEF a, b
    <2>7. CASE a.year < b.year
      <3>1. a.date < b.date
        BY <1>1, <2>1, <2>5, <2>7, EarlierYear
      <3>. QED
        BY <2>5, <3>1 DEF a, b
    <2>. QED
      BY <2>1, <2>6, <2>7
  <1>. HIDE DEF lines, marked, walk, offset
  <1>3. SUFFICES ASSUME NEW m \in marked,
                        NEW bad, bad = {d \in Nat : m - d \in marked /\ 0 < d
                                                    /\ ~(walk[m - d].date <= walk[m].date)},
                        bad # {}
                 PROVE  FALSE
    <2>. SUFFICES ASSUME NEW l \in marked, NEW m \in marked, l < m,
                         ~(walk[l].date <= walk[m].date)
                  PROVE  FALSE
      BY DEF lines, marked, walk
    <2>1. m - l \in Nat /\ m - (m - l) = l /\ 0 < m - l
      BY <1>1
    <2>2. m - l \in {d \in Nat : m - d \in marked /\ 0 < d /\ ~(walk[m - d].date <= walk[m].date)}
      BY <2>1
    <2>. QED
      BY <1>3, <2>2
  <1>4. bad \in SUBSET Nat
    BY <1>3
  <1>5. PICK d \in bad : \A e \in bad : d <= e
    BY <1>3, <1>4, Smallest
  <1>. DEFINE l == m - d
  <1>6. d \in Nat /\ l \in marked /\ 0 < d /\ ~(walk[l].date <= walk[m].date) /\ l < m
    BY <1>1, <1>3, <1>5
  <1>. DEFINE after == {k \in marked : l < k}
  <1>7. m \in after /\ after \in SUBSET Nat /\ \A k \in after : k \in marked /\ l < k
    <2>. HIDE DEF l
    <2>1. \A k \in marked : k \in Nat
      BY <1>1
    <2>. QED
      BY <1>6, <2>1
  <1>. HIDE DEF l
  <1>8. PICK n \in after : \A k \in after : n <= k
    <2>. HIDE DEF after
    <2>. QED
      BY <1>7, Smallest
  <1>9. /\ n \in marked /\ l < n /\ n <= m
        /\ \A k \in marked : ~(l < k /\ k < n)
    BY <1>1, <1>6, <1>7, <1>8
  <1>10. walk[l].date <= walk[n].date /\ walk[l].date \in Int /\ walk[n].date \in Int
    BY <1>2, <1>6, <1>9
  <1>11. n # m
    BY <1>6, <1>10
  <1>12. walk[n].date <= walk[m].date
    <2>1. m - n \in Nat /\ 0 < m - n /\ m - (m - n) = n /\ ~(d <= m - n)
      BY <1>1, <1>6, <1>9, <1>11 DEF l
    <2>2. m - n \notin bad
      BY <1>5, <2>1
    <2>. QED
      BY <1>3, <1>9, <2>1, <2>2
  <1>13. walk[m].date \in Int
    BY MarkedDate DEF walk, marked, lines
  <1>. QED
    BY <1>6, <1>10, <1>12, <1>13

\* The row of a kept line.
LEMMA StoredRow ==
    ASSUME NEW f, NEW base, NEW order, Stored(f, base, order), NEW k \in 1..files[f].event_count,
           IsSeq(events)
    PROVE  LET i      == base + k
               source == files[f].source
           IN  /\ i \in DOMAIN events /\ events[i].file = f
               /\ order[k] \in 1..Len(Lines(source))
               /\ events[i].cluster = source.cluster
               /\ events[i].raw_line = Lines(source)[order[k]]
               /\ events[i].event = Parsed(source)[order[k]]
  <1>. DEFINE n      == files[f].event_count
              i      == base + k
              source == files[f].source
              lines  == Lines(source)
              line   == lines[order[k]]
              event  == Parsed(source)[order[k]]
              row    == events[i]
  <1>1. /\ base \in Nat /\ n \in Nat /\ base + n <= Len(events)
        /\ order \in [1..n -> 1..Len(lines)]
        /\ row = [file |-> f, cluster |-> source.cluster, sequence_num |-> k,
                  raw_line |-> line, event |-> event]
    BY DEF Stored
  <1>2. order[k] \in 1..Len(lines)
    BY <1>1
  <1>3. i \in DOMAIN events
    <2>1. DOMAIN events = 1..Len(events) /\ Len(events) \in Nat
      BY DEF IsSeq
    <2>2. k \in 1..n
      OBVIOUS
    <2>. HIDE DEF n
    <2>. QED
      BY <1>1, <2>1, <2>2
  <1>. HIDE DEF row, line, event, lines, source
  <1>4. row.file = f /\ row.cluster = source.cluster /\ row.raw_line = line /\ row.event = event
    BY <1>1
  <1>. QED
    BY <1>2, <1>3, <1>4 DEF row, line, event, lines, source

\* What is made of a line with a stamp.
LEMMA ParsedStamp ==
    ASSUME NEW file, IsFile(file), NEW l \in 1..Len(Lines(file)),
           LET line == Lines(file)[l] IN line.shape = "autosupport_ems" /\ line.time # NoTime
    PROVE  /\ Lines(file) = file.lines /\ l \in Marked(file.lines)
           /\ Parsed(file)[l].event_name # "unparsed.line" =>
                 /\ detect_format(file.lines) = "autosupport_ems"
                 /\ Parsed(file)[l].time = Walked(file)[l].date
  <1>. DEFINE lines == file.lines
  <1>1. file.kind # "fetch"
    <2>1. l \in DOMAIN Lines(file)
      BY LinesFacts
    <2>. QED
      BY <2>1, LinesFacts
  <1>2. Lines(file) = lines
    BY <1>1, LinesFacts DEF IsFile, Kinds
  <1>3. /\ IsSeq(lines) /\ DOMAIN lines = 1..Len(lines)
        /\ file.offset \in (-_FUTURE_SLACK).._FUTURE_SLACK /\ file.mtime \in Nat
        /\ \A i \in DOMAIN lines : IsLine(lines[i], file.offset)
        /\ l \in DOMAIN lines /\ l \in Marked(lines)
    BY <1>2 DEF IsFile, IsSeq, Marked
  <1>. HIDE DEF lines
  <1>4. ASSUME Parsed(file)[l].event_name # "unparsed.line"
        PROVE  /\ detect_format(lines) = "autosupport_ems"
               /\ Parsed(file)[l].time = Walked(file)[l].date
    <2>. DEFINE parsed == parse_file(lines, file.offset, file.mtime)
                dates  == _assign_years(Stamps(lines, file.offset), file.mtime)
    <2>1. Parsed(file) = parsed
      BY <1>2 DEF Parsed, lines
    <2>2. \/ parsed[l].event_name = "unparsed.line"
          \/ /\ lines[l].shape = detect_format(lines)
             /\ lines[l].shape = "autosupport_ems" => parsed[l].time = dates[l]
      BY <1>3, ParseFacts
    <2>3. dates[l] = WalkOf(Stamps(lines, file.offset), file.mtime)[l].date
      BY <1>3, DatesType
    <2>4. lines[l].shape = "autosupport_ems"
      BY <1>2 DEF lines
    <2>. HIDE DEF parsed, dates
    <2>. QED
      BY <1>4, <2>1, <2>2, <2>3, <2>4 DEF Walked, lines
  <1>. QED
    BY <1>2, <1>3, <1>4 DEF lines

LEMMA StampedRow ==
    ASSUME FilesInv, NEW f \in DOMAIN files, NEW base, NEW order, Stored(f, base, order),
           NEW i \in OfFile(f), events[i].event.event_name # "unparsed.line",
           events[i].raw_line.shape = "autosupport_ems", events[i].raw_line.time # NoTime
    PROVE  LET file == files[f].source
               k    == i - base
           IN  /\ Lines(file) = file.lines /\ detect_format(file.lines) = "autosupport_ems"
               /\ k \in 1..files[f].event_count /\ i = base + k
               /\ order[k] \in Marked(file.lines)
               /\ events[i].raw_line = file.lines[order[k]]
               /\ events[i].event.time = Walked(file)[order[k]].date
  <1>. DEFINE file == files[f].source
              n    == files[f].event_count
              k    == i - base
  <1>1. IsFile(file) /\ IsSeq(events)
    BY DEF FilesInv
  <1>2. k \in 1..n /\ i = base + k
    <2>1. /\ base \in Nat /\ n \in Nat
          /\ i \in (base + 1)..(base + n)
      BY DEF Stored, OfFile
    <2>. HIDE DEF n
    <2>2. i \in Int
      BY <2>1
    <2>. QED
      BY <2>1, <2>2
  <1>. HIDE DEF k
  <1>3. /\ order[k] \in 1..Len(Lines(file))
        /\ events[i].raw_line = Lines(file)[order[k]]
        /\ events[i].event = Parsed(file)[order[k]]
    BY <1>1, <1>2, StoredRow
  <1>4. /\ Lines(file) = file.lines /\ order[k] \in Marked(file.lines)
        /\ detect_format(file.lines) = "autosupport_ems"
        /\ Parsed(file)[order[k]].time = Walked(file)[order[k]].date
    BY <1>1, <1>3, ParsedStamp
  <1>. QED
    BY <1>2, <1>3, <1>4 DEF k

\* If every line was kept, one with a stamp has a row.
LEMMA MarkedRow ==
    ASSUME FilesInv, NEW f \in DOMAIN files, NEW base, NEW order, Stored(f, base, order),
           files[f].duplicates_skipped = 0, files[f].severity_skipped = 0,
           LET file == files[f].source IN
           Lines(file) = file.lines /\ detect_format(file.lines) = "autosupport_ems",
           NEW m \in Marked(files[f].source.lines)
    PROVE  \E k \in 1..files[f].event_count :
              /\ order[k] = m /\ base + k \in OfFile(f)
              /\ events[base + k].event.event_name # "unparsed.line"
              /\ events[base + k].raw_line.shape = "autosupport_ems"
              /\ events[base + k].raw_line.time # NoTime
  <1>. DEFINE file  == files[f].source
              lines == file.lines
  <1>1. IsFile(file) /\ IsSeq(events)
    BY DEF FilesInv
  <1>2. /\ IsSeq(lines) /\ DOMAIN lines = 1..Len(lines)
        /\ file.offset \in (-_FUTURE_SLACK).._FUTURE_SLACK /\ file.mtime \in Nat
        /\ \A i \in DOMAIN lines : IsLine(lines[i], file.offset)
        /\ m \in DOMAIN lines /\ lines[m].shape = "autosupport_ems" /\ lines[m].time # NoTime
    BY <1>1 DEF IsFile, IsSeq, Marked
  <1>3. PICK k \in 1..files[f].event_count : order[k] = m
    BY <1>2 DEF Stored
  <1>4. /\ base + k \in DOMAIN events /\ events[base + k].file = f
        /\ events[base + k].raw_line = lines[m]
        /\ events[base + k].event = Parsed(file)[m]
    BY <1>1, <1>3, StoredRow
  <1>5. Parsed(file)[m].event_name # "unparsed.line"
    <2>. DEFINE parsed == parse_file(lines, file.offset, file.mtime)
    <2>1. Parsed(file) = parsed /\ detect_format(lines) = "autosupport_ems"
      BY DEF Parsed
    <2>. HIDE DEF lines, file
    <2>2. Matches("autosupport_ems", lines[m]) /\ lines[m].event_name # "unparsed.line"
      BY <1>2 DEF Matches, IsLine
    <2>3. \E time : parsed[m] = ParsedLine(lines[m], time)
      BY <1>2, <2>1, <2>2 DEF parse_file
    <2>. HIDE DEF parsed
    <2>4. parsed[m].event_name = lines[m].event_name
      BY <2>3 DEF ParsedLine
    <2>. QED
      BY <2>1, <2>2, <2>4
  <1>. QED
    BY <1>2, <1>3, <1>4, <1>5 DEF OfFile

LEMMA DatesFollowFromFiles == FilesInv => DatesFollowTheFile
  <1>. SUFFICES ASSUME FilesInv, NEW f \in DOMAIN files
                PROVE  LET file    == files[f].source
                           stamped == {i \in OfFile(f) : /\ events[i].event.event_name # "unparsed.line"
                                                         /\ events[i].raw_line.shape = "autosupport_ems"
                                                         /\ events[i].raw_line.time # NoTime}
                           whole   == files[f].duplicates_skipped = 0 /\ files[f].severity_skipped = 0
                           Adjacent(i, j) == i < j /\ ~\E k \in stamped : i < k /\ k < j
                       IN  /\ \A i \in stamped : events[i].event.time # NoTime
                           /\ \A i, j \in stamped :
                                 Adjacent(i, j) /\ whole =>
                                     events[i].event.time <= events[j].event.time + _ROLLOVER_TOLERANCE
                           /\ InOrder(file) /\ ShortGaps(file) =>
                                 \A i, j \in stamped : i < j => events[i].event.time <= events[j].event.time
    BY DEF DatesFollowTheFile
  <1>. DEFINE file    == files[f].source
              lines   == file.lines
              n       == files[f].event_count
              stamped == {i \in OfFile(f) : /\ events[i].event.event_name # "unparsed.line"
                                            /\ events[i].raw_line.shape = "autosupport_ems"
                                            /\ events[i].raw_line.time # NoTime}
              whole   == files[f].duplicates_skipped = 0 /\ files[f].severity_skipped = 0
  <1>1. PICK base, order : Stored(f, base, order)
    BY DEF FilesInv, HasRows
  <1>2. /\ IsFile(file)
        /\ base \in Nat /\ n \in Nat /\ \A k, l \in 1..n : k < l => order[k] < order[l]
        /\ Marked(lines) \in SUBSET Nat
    <2>1. IsFile(file)
      BY DEF FilesInv
    <2>2. Marked(lines) \in SUBSET (1..Len(lines))
      BY <2>1, FileStamps
    <2>. QED
      BY <1>1, <2>1, <2>2 DEF Stored
  <1>3. ASSUME NEW i \in stamped
        PROVE  /\ i - base \in 1..n /\ i = base + (i - base)
               /\ order[i - base] \in Marked(lines)
               /\ events[i].event.time = Walked(file)[order[i - base]].date
               /\ Lines(file) = lines /\ detect_format(lines) = "autosupport_ems"
    BY <1>1, StampedRow
  <1>4. ASSUME NEW i \in stamped
        PROVE  events[i].event.time \in Int
    <2>. DEFINE l == order[i - base]
    <2>1. l \in Marked(lines) /\ events[i].event.time = Walked(file)[l].date
      BY <1>3
    <2>. HIDE DEF l
    <2>2. Walked(file)[l].date \in Int
      BY <1>2, <2>1, MarkedDate
    <2>. QED
      BY <2>1, <2>2
  <1>5. ASSUME NEW i \in stamped, NEW j \in stamped, i < j
        PROVE  /\ order[i - base] < order[j - base]
               /\ InOrder(file) /\ ShortGaps(file) => events[i].event.time <= events[j].event.time
    <2>1. /\ i - base \in 1..n /\ j - base \in 1..n
          /\ i = base + (i - base) /\ j = base + (j - base)
      BY <1>3
    <2>2. i - base < j - base
      <3>. DEFINE a == i - base
                  b == j - base
      <3>1. a \in Int /\ b \in Int /\ i = base + a /\ j = base + b
        BY <2>1
      <3>. HIDE DEF a, b
      <3>2. a < b
        BY <1>2, <1>5, <3>1
      <3>. QED
        BY <3>2 DEF a, b
    <2>3. order[i - base] < order[j - base]
      BY <1>2, <2>1, <2>2
    <2>4. ASSUME InOrder(file), ShortGaps(file)
          PROVE  Walked(file)[order[i - base]].date <= Walked(file)[order[j - base]].date
      BY <1>2, <1>3, <2>3, <2>4, MonotoneDates
    <2>. QED
      BY <1>3, <2>3, <2>4
  <1>6. ASSUME NEW i \in stamped, NEW j \in stamped, i < j,
               ~\E k \in stamped : i < k /\ k < j, whole
        PROVE  events[i].event.time <= events[j].event.time + _ROLLOVER_TOLERANCE
    <2>. DEFINE l == order[i - base]
                m == order[j - base]
    <2>1. /\ l \in Marked(lines) /\ m \in Marked(lines) /\ l < m
          /\ events[i].event.time = Walked(file)[l].date
          /\ events[j].event.time = Walked(file)[m].date
          /\ Lines(file) = lines /\ detect_format(lines) = "autosupport_ems"
      BY <1>3, <1>5, <1>6
    <2>2. ASSUME NEW o \in Marked(lines), l < o, o < m
          PROVE  FALSE
      <3>1. PICK k \in 1..n : /\ order[k] = o /\ base + k \in OfFile(f)
                              /\ events[base + k].event.event_name # "unparsed.line"
                              /\ events[base + k].raw_line.shape = "autosupport_ems"
                              /\ events[base + k].raw_line.time # NoTime
        BY <1>1, <1>6, <2>1, MarkedRow
      <3>2. base + k \in stamped
        BY <3>1
      <3>3. /\ i - base \in 1..n /\ j - base \in 1..n
            /\ i = base + (i - base) /\ j = base + (j - base)
        BY <1>3
      <3>. DEFINE a == i - base
                  b == j - base
      <3>4. a \in 1..n /\ b \in 1..n /\ i = base + a /\ j = base + b
            /\ order[a] = l /\ order[b] = m
        BY <3>3
      <3>. HIDE DEF a, b, stamped, l, m
      <3>5. l \in Nat /\ m \in Nat /\ o \in Nat
        BY <1>2, <2>1
      <3>6. ~(k <= a) /\ ~(b <= k)
        <4>1. k < a => order[k] < order[a]
          BY <1>2, <3>4
        <4>2. b < k => order[b] < order[k]
          BY <1>2, <3>4
        <4>. QED
          BY <1>2, <2>2, <3>1, <3>4, <3>5, <4>1, <4>2
      <3>7. i < base + k /\ base + k < j
        BY <1>2, <3>4, <3>6
      <3>. QED
        BY <1>6, <3>2, <3>7
    <2>. HIDE DEF l, m, stamped
    <2>3. Walked(file)[l].date <= Walked(file)[m].date + _ROLLOVER_TOLERANCE
      BY <1>2, <2>1, <2>2, MarkedDates
    <2>. QED
      BY <2>1, <2>3
  <1>7. \A i \in stamped : events[i].event.time # NoTime
    BY <1>4, CalendarAssumption
  <1>. HIDE DEF stamped
  <1>8. /\ \A i \in stamped : events[i].event.time # NoTime
        /\ \A i, j \in stamped :
              (i < j /\ ~\E k \in stamped : i < k /\ k < j) /\ whole =>
                  events[i].event.time <= events[j].event.time + _ROLLOVER_TOLERANCE
        /\ InOrder(file) /\ ShortGaps(file) =>
              \A i, j \in stamped : i < j => events[i].event.time <= events[j].event.time
    BY <1>5, <1>6, <1>7
  <1>. QED
    BY <1>8 DEF stamped

(***************************************************************************)
(* The year a line was written in is the last one in which its date fits,  *)
(* if the line could not be a year later.                                  *)
(***************************************************************************)
LEMMA YearFound ==
    ASSUME NEW time \in Int, NEW offset \in Int, time + offset \in Nat,
           NEW limit \in Int, NEW top \in Int,
           YearOf(time + offset) <= top, time <= limit, limit < Anniversary(time, offset),
           NEW year \in Int, year <= top, NEW date \in Int,
           date = _build(Stamp(time, offset), year), date <= limit,
           \A y \in (year + 1)..top :
              LET other == _build(Stamp(time, offset), y) IN other = NoTime \/ ~(other <= limit)
    PROVE  year = YearOf(time + offset) /\ date = time
  <1>. DEFINE stamp == Stamp(time, offset)
              own   == YearOf(time + offset)
              next  == own + IF stamp.place = LeapUnit THEN 4 ELSE 1
  <1>1. /\ own \in Nat /\ stamp.offset = offset /\ IsStamp(stamp)
        /\ stamp.place = LeapUnit => IsLeap(own)
        /\ _build(stamp, own) = time
    BY StampBuild, StampType
  <1>2. Anniversary(time, offset) = _build(stamp, next)
    BY DEF Anniversary
  <1>3. /\ next \in Int /\ own < next
        /\ stamp.place = LeapUnit => IsLeap(next)
    BY <1>1 DEF IsLeap
  <1>4. /\ date # NoTime /\ time # NoTime
        /\ date = _build(stamp, year)
        /\ \A y \in (year + 1)..top : _build(stamp, y) = NoTime \/ ~(_build(stamp, y) <= limit)
    BY CalendarAssumption
  <1>5. stamp.place = LeapUnit => IsLeap(year)
    BY <1>4 DEF _build
  <1>6. own < year => next <= year
    BY <1>1, <1>5 DEF IsLeap
  <1>. HIDE DEF stamp, own, next
  <1>7. _build(stamp, next) # NoTime
    BY <1>1, <1>3, BuildFacts
  <1>8. ~(year < own)
    <2>. SUFFICES ASSUME year < own PROVE FALSE
      OBVIOUS
    <2>1. own \in (year + 1)..top
      BY <1>1 DEF own
    <2>. QED
      BY <1>1, <1>4, <2>1
  <1>9. ~(own < year)
    <2>. SUFFICES ASSUME own < year PROVE FALSE
      OBVIOUS
    <2>1. next <= year
      BY <1>6
    <2>2. /\ InYear(_build(stamp, next), next, offset)
          /\ InYear(date, year, offset)
      BY <1>1, <1>3, <1>4, <1>7, BuildFacts
    <2>. DEFINE a == _build(stamp, next)
    <2>3. a <= date
      <3>1. CASE next = year
        BY <1>4, <3>1
      <3>2. CASE next < year
        <4>1. date \in Int /\ NewYear(year) <= date + offset
          BY <2>2 DEF InYear
        <4>2. InYear(a, next, offset)
          BY <2>2
        <4>. HIDE DEF a
        <4>3. a < date
          BY <1>3, <3>2, <4>1, <4>2, EarlierYear
        <4>. QED
          BY <4>1, <4>2, <4>3 DEF InYear
      <3>. QED
        BY <1>3, <2>1, <3>1, <3>2
    <2>4. a \in Int /\ limit < a
      BY <1>2, <2>2 DEF InYear
    <2>. HIDE DEF a
    <2>. QED
      BY <2>3, <2>4
  <1>10. year = own
    BY <1>1, <1>8, <1>9
  <1>. QED
    BY <1>1, <1>4, <1>10 DEF own

\* The last line with a stamp is dated from the reference.
LEMMA LastStampDates ==
    ASSUME NEW stamps, NEW offset, AreStamps(stamps, offset), NEW reference \in Nat,
           NEW l \in 1..Len(stamps), stamps[l] # NoTime,
           \A k \in (l + 1)..Len(stamps) : stamps[k] = NoTime
    PROVE  LET a   == WalkOf(stamps, reference)[l]
               top == YearOf(reference)
           IN  /\ a.year \in Int /\ a.year <= top
               /\ a.date = _build(stamps[l], a.year) /\ InYear(a.date, a.year, offset)
               /\ a.date <= reference + _FUTURE_SLACK
               /\ \A year \in (a.year + 1)..top :
                     LET date == _build(stamps[l], year) IN
                     date = NoTime \/ ~(date <= reference + _FUTURE_SLACK)
  <1>. DEFINE walk == WalkOf(stamps, reference)
  <1>1. Len(stamps) \in Nat /\ l + 1 \in 1..(Len(stamps) + 1) /\ l \in 1..(Len(stamps) + 1)
    BY DEF AreStamps
  <1>2. Knows(stamps, reference, offset, l + 1) /\ Knows(stamps, reference, offset, l)
    BY <1>1, WalkKnows
  <1>3. walk[l + 1].later = NoTime /\ walk[l + 1].year = YearOf(reference)
    <2>1. ASSUME NEW j \in (l + 1)..Len(stamps), FirstFrom(stamps, l + 1, j)
          PROVE  FALSE
      BY <2>1 DEF FirstFrom
    <2>. QED
      BY <1>2, <2>1 DEF Knows
  <1>4. /\ walk[l].date = _build(stamps[l], walk[l].year)
        /\ walk[l].year \in (walk[l + 1].year - 4)..walk[l + 1].year
        /\ InYear(walk[l].date, walk[l].year, offset)
        /\ Fits(walk[l].date, walk[l + 1].later, reference)
        /\ \A year \in (walk[l].year + 1)..walk[l + 1].year :
              LET date == _build(stamps[l], year) IN
              date = NoTime \/ ~Fits(date, walk[l + 1].later, reference)
    BY <1>1, <1>2, WalkDates
  <1>5. walk[l].year \in Int /\ walk[l + 1].year \in Int
    BY <1>1, <1>2, WalkKnows DEF Knows
  <1>. HIDE DEF walk
  <1>6. \A date : Fits(date, walk[l + 1].later, reference) <=> date <= reference + _FUTURE_SLACK
    BY <1>3 DEF Fits
  <1>. QED
    BY <1>3, <1>4, <1>5, <1>6 DEF walk

DatedTrue(file, i) ==
    /\ Walked(file)[i].date = file.lines[i].time
    /\ Walked(file)[i].year = YearOf(file.lines[i].time + file.offset)

\* The newest line is dated as it was written, if the reference leaves no doubt.
LEMMA NewestIsTrue ==
    ASSUME NEW file, IsFile(file), Anchored(file), NEW l \in Marked(file.lines),
           \A k \in Marked(file.lines) : ~(l < k)
    PROVE  DatedTrue(file, l)
  <1>. DEFINE lines   == file.lines
              stamps  == Stamps(lines, file.offset)
              marked  == Marked(lines)
              stamped == Stamped(file)
              order   == Ascending(marked)
              time    == lines[l].time
  <1>1. /\ Len(lines) \in Nat /\ marked \in SUBSET (1..Len(lines))
        /\ AreStamps(stamps, file.offset) /\ Len(stamps) = Len(lines)
        /\ file.mtime \in Nat /\ file.offset \in Int
        /\ \A i \in 1..Len(lines) : stamps[i] # NoTime <=> i \in marked
        /\ stamps[l] = Stamp(time, file.offset)
        /\ time \in Nat /\ time + file.offset \in Nat
    BY FileStamps
  <1>2. l \in marked /\ \A k \in marked : ~(l < k)
    OBVIOUS
  <1>3. stamped # <<>> /\ stamped[Len(stamped)] = lines[l]
    <2>. DEFINE m == Len(stamped)
    <2>1. /\ IsSeq(stamped) /\ m \in Nat
          /\ \A k \in 1..m : order[k] \in marked /\ stamped[k] = lines[order[k]]
          /\ \A i \in marked : \E k \in 1..m : order[k] = i
          /\ \A k, i \in 1..m : k < i => order[k] < order[i]
      BY StampedFacts
    <2>. HIDE DEF marked, stamped, order, m
    <2>2. DOMAIN stamped = 1..m
      BY <2>1 DEF IsSeq, m
    <2>3. PICK k \in 1..m : order[k] = l
      BY <1>2, <2>1
    <2>4. k = m
      <3>1. m \in 1..m
        BY <2>1, <2>3
      <3>2. order[m] \in marked
        BY <2>1, <3>1
      <3>3. ~(k < m)
        BY <1>2, <2>1, <2>3, <3>1, <3>2
      <3>. QED
        BY <2>1, <3>3
    <2>5. stamped[m] = lines[l]
      BY <2>1, <2>3, <2>4
    <2>6. DOMAIN stamped # {}
      BY <2>2, <2>3
    <2>7. stamped # <<>>
      BY <2>6, EmptyFacts
    <2>. QED
      BY <2>5, <2>7 DEF m
  <1>4. /\ time <= file.mtime + _FUTURE_SLACK
        /\ file.mtime + _FUTURE_SLACK < Anniversary(time, file.offset)
        /\ YearOf(time + file.offset) <= YearOf(file.mtime)
    BY <1>3 DEF Anchored
  <1>. HIDE DEF marked, stamps, time
  <1>5. /\ l \in 1..Len(stamps) /\ stamps[l] # NoTime
        /\ \A k \in (l + 1)..Len(stamps) : stamps[k] = NoTime
    <2>1. ASSUME NEW k \in (l + 1)..Len(stamps)
          PROVE  stamps[k] = NoTime
      <3>1. k \in 1..Len(lines) /\ l < k
        BY <1>1, <1>2
      <3>. QED
        BY <1>1, <1>2, <3>1
    <2>. QED
      BY <1>1, <1>2, <2>1
  <1>. DEFINE a == WalkOf(stamps, file.mtime)[l]
              top == YearOf(file.mtime)
              limit == file.mtime + _FUTURE_SLACK
  <1>6. /\ a.year \in Int /\ a.year <= top
        /\ a.date = _build(stamps[l], a.year) /\ InYear(a.date, a.year, file.offset)
        /\ a.date <= limit
        /\ \A year \in (a.year + 1)..top :
              LET date == _build(stamps[l], year) IN
              date = NoTime \/ ~(date <= limit)
    BY <1>1, <1>5, LastStampDates
  <1>7. top \in Int /\ limit \in Int
    <2>1. top \in 0..file.mtime
      BY <1>1, YearOfFacts
    <2>. QED
      BY <1>1, <2>1, CalendarAssumption
  <1>8. a.date \in Int
    BY <1>6 DEF InYear
  <1>. HIDE DEF a, top, limit
  <1>9. /\ time \in Int /\ time <= limit /\ limit < Anniversary(time, file.offset)
        /\ YearOf(time + file.offset) <= top
    BY <1>1, <1>4 DEF top, limit
  <1>10. a.year = YearOf(time + file.offset) /\ a.date = time
    <2>. DEFINE year == a.year
                date == a.date
    <2>1. /\ year \in Int /\ year <= top /\ date \in Int
          /\ date = _build(Stamp(time, file.offset), year) /\ date <= limit
          /\ \A y \in (year + 1)..top :
                LET other == _build(Stamp(time, file.offset), y) IN other = NoTime \/ ~(other <= limit)
      BY <1>1, <1>6, <1>8
    <2>. HIDE DEF year, date
    <2>2. time + file.offset \in Nat /\ file.offset \in Int
      BY <1>1
    <2>3. year = YearOf(time + file.offset) /\ date = time
      BY <1>7, <1>9, <2>1, <2>2, YearFound
    <2>. QED
      BY <2>3 DEF year, date
  <1>. QED
    BY <1>10 DEF DatedTrue, Walked, a, stamps, time

\* So is the line before one that is, if the two are near enough.
LEMMA EarlierIsTrue ==
    ASSUME NEW file, IsFile(file), NoLongGap(file), NearlyInOrder(file),
           NEW l \in Marked(file.lines), NEW m \in Marked(file.lines),
           l < m, \A k \in Marked(file.lines) : ~(l < k /\ k < m), DatedTrue(file, m)
    PROVE  DatedTrue(file, l)
  <1>. DEFINE lines   == file.lines
              offset  == file.offset
              t       == lines[l].time
              u       == lines[m].time
              a       == Walked(file)[l]
              b       == Walked(file)[m]
              limit   == u + _ROLLOVER_TOLERANCE
  <1>1. /\ offset \in Int /\ t \in Nat /\ t + offset \in Nat /\ u \in Nat /\ u + offset \in Nat
    BY FileStamps
  <1>2. PICK k \in 1..(Len(Stamped(file)) - 1) :
           Stamped(file)[k] = lines[l] /\ Stamped(file)[k + 1] = lines[m]
    BY NextStamp
  <1>3. /\ limit < Anniversary(t, offset) /\ t <= limit
        /\ YearOf(t + offset) <= YearOf(u + offset)
    BY <1>2 DEF NoLongGap, NearlyInOrder
  <1>4. /\ a.year \in Int /\ b.year \in Int /\ a.year \in (b.year - 4)..b.year
        /\ a.date = _build(Stamp(t, offset), a.year)
        /\ InYear(a.date, a.year, offset)
        /\ a.date <= b.date + _ROLLOVER_TOLERANCE
        /\ \A year \in (a.year + 1)..b.year :
              LET date == _build(Stamp(t, offset), year) IN
              date = NoTime \/ ~(date <= b.date + _ROLLOVER_TOLERANCE)
    BY MarkedDates
  <1>5. b.date = u /\ b.year = YearOf(u + offset)
    BY DEF DatedTrue
  <1>6. t \in Int /\ limit \in Int
    <2>1. t \in Nat /\ u \in Nat /\ _ROLLOVER_TOLERANCE \in Nat
      BY <1>1, CalendarAssumption
    <2>. HIDE DEF t, u
    <2>. QED
      BY <2>1
  <1>. DEFINE year == a.year
              date == a.date
              top  == b.year
  <1>7. /\ year \in Int /\ top \in Int /\ year <= top /\ date \in Int
        /\ date = _build(Stamp(t, offset), year) /\ date <= limit
        /\ \A y \in (year + 1)..top :
              LET other == _build(Stamp(t, offset), y) IN other = NoTime \/ ~(other <= limit)
    BY <1>4, <1>5 DEF InYear
  <1>8. YearOf(t + offset) <= top
    BY <1>3, <1>5
  <1>. HIDE DEF year, date, top, limit, t, u, a, b, offset
  <1>9. year = YearOf(t + offset) /\ date = t
    BY <1>1, <1>3, <1>6, <1>7, <1>8, YearFound
  <1>. QED
    BY <1>9 DEF DatedTrue, year, date, t, a, offset

LEMMA TrueDates ==
    ASSUME NEW file, IsFile(file), Anchored(file), NoLongGap(file), NearlyInOrder(file)
    PROVE  \A i \in Marked(file.lines) : DatedTrue(file, i)
  <1>. DEFINE n      == Len(file.lines)
              marked == Marked(file.lines)
              bad    == {d \in Nat : n - d \in marked /\ ~DatedTrue(file, n - d)}
  <1>1. n \in Nat /\ marked \in SUBSET (1..n)
    BY FileStamps
  <1>2. SUFFICES ASSUME bad # {} PROVE FALSE
    <2>. SUFFICES ASSUME NEW i \in marked, ~DatedTrue(file, i) PROVE FALSE
      OBVIOUS
    <2>. HIDE DEF n, marked
    <2>1. n - i \in Nat /\ n - (n - i) = i
      BY <1>1
    <2>2. n - i \in bad
      BY <2>1
    <2>. QED
      BY <1>2, <2>2
  <1>3. bad \in SUBSET Nat
    OBVIOUS
  <1>. HIDE DEF bad
  <1>4. PICK d \in bad : \A e \in bad : d <= e
    BY <1>2, <1>3, Smallest
  <1>. DEFINE l == n - d
  <1>5. d \in Nat /\ l \in marked /\ ~DatedTrue(file, l)
    BY <1>4 DEF bad
  <1>. DEFINE after == {k \in marked : l < k}
  <1>6. after \in SUBSET Nat /\ \A k : k \in after <=> k \in marked /\ l < k
    <2>1. \A k \in marked : k \in Nat
      BY <1>1
    <2>. HIDE DEF n, marked, l
    <2>. QED
      BY <2>1
  <1>7. CASE after = {}
    BY <1>5, <1>6, <1>7, NewestIsTrue
  <1>8. CASE after # {}
    <2>. HIDE DEF n, marked, after
    <2>1. PICK m \in after : \A k \in after : m <= k
      BY <1>6, <1>8, Smallest
    <2>2. /\ m \in marked /\ l < m /\ m \in Nat
          /\ \A k \in marked : ~(l < k /\ k < m)
      <3>1. m \in marked /\ l < m /\ m \in Nat
        BY <1>6, <2>1
      <3>2. ASSUME NEW k \in marked, l < k, k < m PROVE FALSE
        BY <1>1, <1>6, <2>1, <3>1, <3>2
      <3>. QED
        BY <3>1, <3>2
    <2>3. DatedTrue(file, m)
      <3>1. n - m \in Nat /\ n - (n - m) = m /\ ~(d <= n - m)
        BY <1>1, <1>5, <2>2
      <3>2. n - m \notin bad
        BY <1>4, <3>1
      <3>. QED
        BY <2>2, <3>1, <3>2 DEF bad
    <2>. HIDE DEF l
    <2>4. DatedTrue(file, l)
      BY <1>5, <2>2, <2>3, EarlierIsTrue DEF marked
    <2>. QED
      BY <1>5, <2>4
  <1>. QED
    BY <1>7, <1>8

LEMMA DatesFromFiles == FilesInv => DatesAreTrue
  <1>. SUFFICES ASSUME FilesInv, NEW f \in DOMAIN files,
                       Anchored(files[f].source), NoLongGap(files[f].source),
                       NearlyInOrder(files[f].source),
                       NEW i \in OfFile(f), events[i].event.event_name # "unparsed.line"
                PROVE  events[i].event.time = events[i].raw_line.time
    BY DEF DatesAreTrue, Dated
  <1>. DEFINE file == files[f].source
              lines == Lines(file)
  <1>1. IsFile(file) /\ i \in DOMAIN events /\ events[i].file = f
    BY DEF FilesInv, OfFile
  <1>2. PICK l \in 1..Len(lines) : events[i].raw_line = lines[l] /\ events[i].event = Parsed(file)[l]
    BY <1>1, RowFacts
  <1>3. /\ IsSeq(lines) /\ DOMAIN lines = 1..Len(lines)
        /\ file.offset \in (-_FUTURE_SLACK).._FUTURE_SLACK /\ file.mtime \in Nat
        /\ \A k \in DOMAIN lines : IsLine(lines[k], file.offset)
    BY <1>1, LinesFacts DEF IsFile
  <1>4. CASE lines[l].shape = "autosupport_ems" /\ lines[l].time # NoTime
    <2>1. /\ l \in Marked(file.lines) /\ lines = file.lines
          /\ events[i].event.time = Walked(file)[l].date
      BY <1>1, <1>2, <1>4, ParsedStamp
    <2>2. DatedTrue(file, l)
      BY <1>1, <2>1, TrueDates
    <2>. QED
      BY <1>2, <2>1, <2>2 DEF DatedTrue
  <1>5. CASE ~(lines[l].shape = "autosupport_ems" /\ lines[l].time # NoTime)
    <2>. DEFINE stamps == Stamps(lines, file.offset)
                dates  == _assign_years(stamps, file.mtime)
                parsed == parse_file(lines, file.offset, file.mtime)
    <2>1. Parsed(file) = parsed
      BY DEF Parsed
    <2>. HIDE DEF lines, file
    <2>2. \/ parsed[l].event_name = "unparsed.line"
          \/ /\ lines[l].shape # "autosupport_ems" => parsed[l].time = lines[l].time
             /\ lines[l].shape = "autosupport_ems" => parsed[l].time = dates[l]
      BY <1>3, ParseFacts
    <2>3. lines[l].shape = "autosupport_ems" => dates[l] = NoTime
      <3>1. stamps[l] # NoTime <=> lines[l].shape = "autosupport_ems" /\ lines[l].time # NoTime
        BY <1>3, StampsFacts
      <3>2. stamps[l] = NoTime => dates[l] = NoTime
        BY <1>3, DatesType
      <3>. QED
        BY <1>5, <3>1, <3>2
    <2>. HIDE DEF parsed, dates
    <2>. QED
      BY <1>2, <1>5, <2>1, <2>2, <2>3
  <1>. QED
    BY <1>4, <1>5

-----------------------------------------------------------------------------
(* Runs.                                                                   *)

Like(rows, p, q) ==
    /\ rows[p].event.event_name = rows[q].event.event_name
    /\ rows[p].event.severity = rows[q].event.severity

LEMMA BesideFacts ==
    ASSUME NEW rows
    PROVE  /\ \A p : Beside(rows, p, p) /\ Like(rows, p, p)
           /\ \A p, q : Beside(rows, p, q) => Beside(rows, q, p)
           /\ \A p, q : Like(rows, p, q) => Like(rows, q, p)
           /\ \A p, q, r : Beside(rows, p, q) /\ Beside(rows, q, r) => Beside(rows, p, r)
           /\ \A p, q, r : Like(rows, p, q) /\ Like(rows, q, r) => Like(rows, p, r)
  BY DEF Beside, Like

\* Starts and runs, by their members.
LEMMA RunFacts ==
    ASSUME NEW rows, NEW n \in Nat, DOMAIN rows = 1..n, Len(rows) = n
    PROVE  /\ Starts(rows) \in SUBSET (1..n)
           /\ \A q \in 1..n : q \notin Starts(rows) =>
                 \E p \in 1..n : Continues(rows, p, q)
           /\ \A p, q \in 1..n : Continues(rows, p, q) => q \notin Starts(rows)
           /\ \A p, q \in 1..n : Continues(rows, p, q) <=>
                 /\ p < q /\ Beside(rows, p, q) /\ Like(rows, p, q)
                 /\ \A r \in (p + 1)..(q - 1) : ~Beside(rows, p, r)
           /\ \A p, q \in 1..n : q \in RunOf(rows, p) <=>
                 /\ p <= q /\ Beside(rows, p, q)
                 /\ \A r \in Starts(rows) : ~(p < r /\ r <= q /\ Beside(rows, p, r))
           /\ \A p \in 1..n : RunOf(rows, p) \in SUBSET (p..n)
  <1>1. /\ Starts(rows) \in SUBSET (1..n)
        /\ \A q \in 1..n : q \notin Starts(rows) => \E p \in 1..n : Continues(rows, p, q)
        /\ \A p, q \in 1..n : Continues(rows, p, q) => q \notin Starts(rows)
    BY DEF Starts
  <1>2. \A p, q \in 1..n : Continues(rows, p, q) <=>
                 /\ p < q /\ Beside(rows, p, q) /\ Like(rows, p, q)
                 /\ \A r \in (p + 1)..(q - 1) : ~Beside(rows, p, r)
    BY DEF Continues, Like
  <1>3. ASSUME NEW p \in 1..n, NEW q \in 1..n
        PROVE  q \in RunOf(rows, p) <=>
                 /\ p <= q /\ Beside(rows, p, q)
                 /\ \A r \in Starts(rows) : ~(p < r /\ r <= q /\ Beside(rows, p, r))
    BY DEF RunOf
  <1>4. \A p \in 1..n : RunOf(rows, p) \in SUBSET (p..n)
    BY DEF RunOf
  <1>. QED
    BY <1>1, <1>2, <1>3, <1>4

\* Every row is in the run of a start, and is like it.
LEMMA EveryRowHasStart ==
    ASSUME NEW rows, NEW n \in Nat, DOMAIN rows = 1..n, Len(rows) = n
    PROVE  \A f \in 1..n : \E s \in Starts(rows) : f \in RunOf(rows, s) /\ Like(rows, s, f)
  <1>. DEFINE Good(f) == \E s \in Starts(rows) : f \in RunOf(rows, s) /\ Like(rows, s, f)
              bad == {f \in 1..n : ~Good(f)}
  <1>1. bad \in SUBSET Nat /\ \A f \in 1..n : f \notin bad => Good(f)
    OBVIOUS
  <1>2. SUFFICES ASSUME bad # {} PROVE FALSE
    BY <1>1
  <1>. HIDE DEF bad
  <1>3. PICK f \in bad : \A k \in bad : f <= k
    BY <1>1, <1>2, Smallest
  <1>4. f \in 1..n /\ ~Good(f)
    BY <1>3 DEF bad
  <1>5. CASE f \in Starts(rows)
    <2>1. Beside(rows, f, f) /\ Like(rows, f, f)
      BY BesideFacts
    <2>2. \A r \in Starts(rows) : ~(f < r /\ r <= f)
      BY <1>4, RunFacts
    <2>3. f \in RunOf(rows, f)
      BY <1>4, <2>1, <2>2, RunFacts
    <2>. QED
      BY <1>4, <1>5, <2>1, <2>3
  <1>6. CASE f \notin Starts(rows)
    <2>1. PICK p \in 1..n : Continues(rows, p, f)
      BY <1>4, <1>6, RunFacts
    <2>2. /\ p < f /\ Beside(rows, p, f) /\ Like(rows, p, f)
          /\ \A r \in (p + 1)..(f - 1) : ~Beside(rows, p, r)
      BY <1>4, <2>1, RunFacts
    <2>3. Good(p)
      <3>1. p \notin bad
        BY <1>3, <1>4, <2>2
      <3>. QED
        BY <1>1, <3>1
    <2>4. PICK s \in Starts(rows) : p \in RunOf(rows, s) /\ Like(rows, s, p)
      BY <2>3
    <2>5. s \in 1..n
      BY RunFacts
    <2>6. /\ s <= p /\ Beside(rows, s, p)
          /\ \A r \in Starts(rows) : ~(s < r /\ r <= p /\ Beside(rows, s, r))
      BY <2>4, <2>5, RunFacts
    <2>7. Beside(rows, s, f) /\ Like(rows, s, f)
      BY <2>2, <2>4, <2>6, BesideFacts
    <2>8. ASSUME NEW r \in Starts(rows), s < r, r <= f, Beside(rows, s, r)
          PROVE  FALSE
      <3>1. r \in 1..n /\ r # f
        BY <1>6, RunFacts
      <3>2. p < r
        BY <2>5, <2>6, <2>8, <3>1
      <3>3. r \in (p + 1)..(f - 1)
        BY <1>4, <2>8, <3>1, <3>2
      <3>4. Beside(rows, p, r)
        BY <2>6, <2>8, BesideFacts
      <3>. QED
        BY <2>2, <3>3, <3>4
    <2>9. s <= f
      BY <1>4, <2>2, <2>5, <2>6
    <2>10. f \in RunOf(rows, s)
      BY <1>4, <2>5, <2>7, <2>8, <2>9, RunFacts
    <2>. QED
      BY <1>4, <2>7, <2>10
  <1>. QED
    BY <1>5, <1>6

\* Of no other start.
LEMMA OneStart ==
    ASSUME NEW rows, NEW n \in Nat, DOMAIN rows = 1..n, Len(rows) = n,
           NEW s \in Starts(rows), NEW t \in Starts(rows), NEW f \in 1..n,
           f \in RunOf(rows, s), f \in RunOf(rows, t)
    PROVE  s = t
  <1>1. s \in 1..n /\ t \in 1..n
    BY RunFacts
  <1>2. /\ s <= f /\ Beside(rows, s, f)
        /\ \A r \in Starts(rows) : ~(s < r /\ r <= f /\ Beside(rows, s, r))
        /\ t <= f /\ Beside(rows, t, f)
        /\ \A r \in Starts(rows) : ~(t < r /\ r <= f /\ Beside(rows, t, r))
    BY <1>1, RunFacts
  <1>3. Beside(rows, s, t) /\ Beside(rows, t, s)
    BY <1>2, BesideFacts
  <1>. QED
    BY <1>1, <1>2, <1>3

\* A row that is no start joins the run of the latest start of its node.
LEMMA JoinsRun ==
    ASSUME NEW rows, NEW n \in Nat, DOMAIN rows = 1..n, Len(rows) = n,
           NEW q \in 1..n, q \notin Starts(rows)
    PROVE  \E s \in Starts(rows) :
              /\ s < q /\ Like(rows, s, q) /\ Beside(rows, s, q) /\ q \in RunOf(rows, s)
              /\ \A t \in Starts(rows) : t < q /\ Beside(rows, t, q) => t <= s
  <1>1. PICK s \in Starts(rows) : q \in RunOf(rows, s) /\ Like(rows, s, q)
    BY EveryRowHasStart
  <1>2. s \in 1..n
    BY RunFacts
  <1>3. /\ s <= q /\ Beside(rows, s, q)
        /\ \A r \in Starts(rows) : ~(s < r /\ r <= q /\ Beside(rows, s, r))
    BY <1>1, <1>2, RunFacts
  <1>4. s < q
    BY <1>2, <1>3
  <1>5. ASSUME NEW t \in Starts(rows), t < q, Beside(rows, t, q)
        PROVE  t <= s
    <2>1. t \in 1..n
      BY RunFacts
    <2>2. Beside(rows, s, t)
      BY <1>3, <1>5, BesideFacts
    <2>. QED
      BY <1>2, <1>3, <1>5, <2>1, <2>2
  <1>. QED
    BY <1>1, <1>3, <1>4, <1>5

\* A start is not like the latest start of its node before it.
LEMMA BeginsRun ==
    ASSUME NEW rows, NEW n \in Nat, DOMAIN rows = 1..n, Len(rows) = n,
           NEW q \in Starts(rows), NEW s \in Starts(rows), s < q, Beside(rows, s, q),
           \A t \in Starts(rows) : t < q /\ Beside(rows, t, q) => t <= s
    PROVE  ~Like(rows, s, q)
  <1>. SUFFICES ASSUME Like(rows, s, q)
                PROVE  FALSE
    OBVIOUS
  <1>1. q \in 1..n /\ s \in 1..n
    BY RunFacts
  <1>. DEFINE near == {d \in Nat : 0 < d /\ q - d \in 1..n /\ Beside(rows, q - d, q)}
  <1>2. q - s \in near
    <2>1. q - s \in Nat /\ 0 < q - s /\ q - (q - s) = s
      BY <1>1
    <2>. QED
      BY <1>1, <2>1
  <1>3. near \in SUBSET Nat
    OBVIOUS
  <1>. HIDE DEF near
  <1>4. PICK d \in near : \A e \in near : d <= e
    BY <1>2, <1>3, Smallest
  <1>5. d \in Nat /\ 0 < d /\ q - d \in 1..n /\ Beside(rows, q - d, q)
    BY <1>4 DEF near
  <1>6. PICK f \in 1..n : f = q - d
    BY <1>5
  <1>7. f < q /\ Beside(rows, f, q) /\ s <= f
    <2>1. d <= q - s
      BY <1>2, <1>4
    <2>. QED
      BY <1>1, <1>5, <1>6, <2>1
  <1>8. ASSUME NEW r \in (f + 1)..(q - 1), Beside(rows, f, r)
        PROVE  FALSE
    <2>1. q - r \in Nat /\ 0 < q - r /\ q - (q - r) = r /\ r \in 1..n /\ ~(d <= q - r)
      BY <1>1, <1>5, <1>6
    <2>2. Beside(rows, r, q)
      BY <1>7, <1>8, BesideFacts
    <2>3. q - r \in near
      BY <2>1, <2>2 DEF near
    <2>. QED
      BY <1>4, <2>1, <2>3
  <1>9. PICK t \in Starts(rows) : f \in RunOf(rows, t) /\ Like(rows, t, f)
    BY EveryRowHasStart
  <1>10. t \in 1..n
    BY RunFacts
  <1>11. /\ t <= f /\ Beside(rows, t, f)
         /\ \A r \in Starts(rows) : ~(t < r /\ r <= f /\ Beside(rows, t, r))
    BY <1>9, <1>10, RunFacts
  <1>12. t <= s
    <2>1. t < q /\ Beside(rows, t, q)
      BY <1>1, <1>7, <1>10, <1>11, BesideFacts
    <2>. QED
      BY <2>1
  <1>13. t = s
    <2>1. Beside(rows, t, s)
      BY <1>7, <1>11, BesideFacts
    <2>. QED
      BY <1>1, <1>7, <1>10, <1>11, <1>12, <2>1
  <1>14. Like(rows, f, q)
    BY <1>9, <1>13, BesideFacts
  <1>15. Continues(rows, f, q)
    BY <1>1, <1>7, <1>8, <1>14, RunFacts
  <1>. QED
    BY <1>1, <1>15, RunFacts

\* What comes in its order has as many before it as its place says.
LEMMA PlaceIsRank ==
    ASSUME NEW n \in Nat, NEW positions \in SUBSET (1..n),
           NEW k \in DOMAIN Ascending(positions)
    PROVE  Cardinality({r \in positions : r <= Ascending(positions)[k]}) = k
  <1>. DEFINE order == Ascending(positions)
              below == {r \in positions : r <= order[k]}
              f     == [j \in 1..k |-> order[j]]
  <1>1. /\ Cardinality(positions) \in Nat
        /\ DOMAIN order = 1..Cardinality(positions)
        /\ \A j \in DOMAIN order : order[j] \in positions /\ order[j] \in Nat
        /\ \A i \in positions : \E j \in DOMAIN order : order[j] = i
        /\ \A j, l \in DOMAIN order : j < l => order[j] < order[l]
    <2>1. /\ Cardinality(positions) \in 0..n
          /\ order \in [1..Cardinality(positions) -> positions]
          /\ \A i \in positions : \E j \in DOMAIN order : order[j] = i
          /\ \A j, l \in DOMAIN order : j < l => order[j] < order[l]
      BY AscendingFacts
    <2>. HIDE DEF order
    <2>2. Cardinality(positions) \in Nat /\ \A r \in positions : r \in Nat
      BY <2>1
    <2>. QED
      BY <2>1, <2>2
  <1>2. k \in DOMAIN order
    OBVIOUS
  <1>3. \A r : r \in below <=> r \in positions /\ r <= order[k]
    OBVIOUS
  <1>. HIDE DEF order, below
  <1>4. k \in Nat /\ 1..k \in SUBSET DOMAIN order /\ \A j \in DOMAIN order : j \in Nat
    BY <1>1, <1>2
  <1>5. \A j \in 1..k : f[j] = order[j] /\ f[j] \in below
    <2>1. \A j \in DOMAIN order : order[j] \in positions /\ order[j] \in Nat
      BY <1>1
    <2>2. \A j \in 1..k : j \in DOMAIN order /\ (j < k \/ j = k)
      BY <1>4
    <2>3. \A j \in DOMAIN order : j < k => order[j] < order[k]
      BY <1>1, <1>2
    <2>4. \A j \in 1..k : order[j] <= order[k]
      BY <1>2, <2>1, <2>2, <2>3
    <2>. QED
      BY <1>3, <2>1, <2>2, <2>4
  <1>6. \A i, j \in 1..k : i # j => f[i] # f[j]
    <2>. SUFFICES ASSUME NEW i \in 1..k, NEW j \in 1..k, i < j
                  PROVE  order[i] # order[j]
      BY <1>4, <1>5
    <2>1. i \in DOMAIN order /\ j \in DOMAIN order
      BY <1>4
    <2>2. order[i] < order[j] /\ order[i] \in Nat /\ order[j] \in Nat
      BY <1>1, <2>1
    <2>. QED
      BY <2>2
  <1>7. \A r \in below : \E j \in 1..k : f[j] = r
    <2>. SUFFICES ASSUME NEW r \in below
                  PROVE  \E j \in 1..k : order[j] = r
      BY <1>5
    <2>1. PICK j \in DOMAIN order : order[j] = r
      BY <1>1, <1>3
    <2>2. ~(k < j)
      BY <1>1, <1>2, <1>3, <2>1
    <2>. QED
      BY <1>1, <1>4, <2>1, <2>2
  <1>8. f \in Bijection(1..k, below)
    <2>1. f \in [1..k -> below]
      BY <1>5
    <2>. HIDE DEF f
    <2>2. f \in Injection(1..k, below)
      BY <1>6, <2>1 DEF Injection, IsInjective
    <2>3. f \in Surjection(1..k, below)
      BY <1>7, <2>1 DEF Surjection
    <2>. QED
      BY <2>2, <2>3 DEF Bijection
  <1>. HIDE DEF f
  <1>9. Cardinality(below) = k
    BY <1>4, <1>8, FS_CountingElements DEF ExistsBijection
  <1>. QED
    BY <1>9 DEF below, order

\* The part of a run that ends by q.
RunTo(rows, p, q) == {r \in RunOf(rows, p) : r <= q}

GroupOfRun(ids, rows, group, p, q) ==
    /\ group.first_event_id = ids[p]
    /\ group.count = Cardinality(RunTo(rows, p, q))
    /\ \E l \in RunTo(rows, p, q) :
          /\ \A r \in RunTo(rows, p, q) : r <= l
          /\ group.last_event_id = ids[l]
          /\ group.last_time = rows[l].event.time

\* With the next row a run is what it was, or one longer.
LEMMA RunGrows ==
    ASSUME NEW rows, NEW n \in Nat, DOMAIN rows = 1..n, Len(rows) = n,
           NEW p \in 1..n, NEW q \in 1..n
    PROVE  /\ IsFiniteSet(RunTo(rows, p, q - 1))
           /\ \A r \in RunTo(rows, p, q - 1) : r \in Nat /\ r < q
           /\ q \in RunOf(rows, p) =>
                 RunTo(rows, p, q) = RunTo(rows, p, q - 1) \cup {q}
           /\ q \notin RunOf(rows, p) =>
                 RunTo(rows, p, q) = RunTo(rows, p, q - 1)
  <1>. DEFINE run == RunOf(rows, p)
  <1>1. run \in SUBSET (p..n) /\ p \in Nat /\ q \in Nat
    BY RunFacts
  <1>2. \A r \in run : r \in Nat /\ (r <= q <=> (r = q \/ r <= q - 1)) /\ (r <= q - 1 => r < q)
    BY <1>1
  <1>3. \A x : RunTo(rows, p, x) = {r \in run : r <= x}
    BY DEF RunTo
  <1>4. IsFiniteSet(RunTo(rows, p, q - 1))
    <2>1. RunTo(rows, p, q - 1) \in SUBSET (p..n)
      BY <1>1, <1>3
    <2>2. IsFiniteSet(p..n)
      BY <1>1, FS_Interval
    <2>. QED
      BY <2>1, <2>2, FS_Subset
  <1>. HIDE DEF run
  <1>5. \A r \in RunTo(rows, p, q - 1) : r \in Nat /\ r < q
    BY <1>2, <1>3
  <1>6. q <= q
    BY <1>1
  <1>7. q \in run => RunTo(rows, p, q) = RunTo(rows, p, q - 1) \cup {q}
    <2>. SUFFICES ASSUME q \in run
                  PROVE  {r \in run : r <= q} = {r \in run : r <= q - 1} \cup {q}
      BY <1>3
    <2>. QED
      BY <1>2, <1>6
  <1>8. q \notin run => RunTo(rows, p, q) = RunTo(rows, p, q - 1)
    BY <1>2, <1>3
  <1>. QED
    BY <1>4, <1>5, <1>7, <1>8 DEF run

LEMMA RunStays ==
    ASSUME NEW ids, NEW rows, NEW n \in Nat, DOMAIN rows = 1..n, Len(rows) = n,
           NEW p \in 1..n, NEW q \in 1..n, q \notin RunOf(rows, p),
           NEW group, GroupOfRun(ids, rows, group, p, q - 1)
    PROVE  GroupOfRun(ids, rows, group, p, q)
  <1>1. RunTo(rows, p, q) = RunTo(rows, p, q - 1)
    BY RunGrows
  <1>. QED
    BY <1>1 DEF GroupOfRun

LEMMA RunLonger ==
    ASSUME NEW ids, NEW rows, NEW n \in Nat, DOMAIN rows = 1..n, Len(rows) = n,
           NEW p \in 1..n, NEW q \in 1..n, q \in RunOf(rows, p),
           NEW group, GroupOfRun(ids, rows, group, p, q - 1),
           NEW new, new.first_event_id = group.first_event_id,
           new.count = group.count + 1, new.last_event_id = ids[q],
           new.last_time = rows[q].event.time
    PROVE  GroupOfRun(ids, rows, new, p, q)
  <1>. DEFINE run == RunTo(rows, p, q - 1)
  <1>1. /\ IsFiniteSet(run) /\ RunTo(rows, p, q) = run \cup {q}
        /\ \A r \in run : r \in Nat /\ r < q
    BY RunGrows
  <1>. HIDE DEF run
  <1>2. q \notin run /\ q \in Nat
    BY <1>1
  <1>3. Cardinality(run \cup {q}) = Cardinality(run) + 1
    BY <1>1, <1>2, FS_AddElement
  <1>4. \A r \in run \cup {q} : r <= q
    BY <1>1, <1>2
  <1>5. group.first_event_id = ids[p] /\ group.count = Cardinality(run)
    BY DEF GroupOfRun, run
  <1>. QED
    BY <1>1, <1>3, <1>4, <1>5 DEF GroupOfRun

LEMMA RunBeginsAt ==
    ASSUME NEW rows, NEW n \in Nat, DOMAIN rows = 1..n, Len(rows) = n, NEW q \in Starts(rows)
    PROVE  q \in 1..n /\ q \in RunOf(rows, q)
  <1>1. q \in 1..n /\ \A r \in Starts(rows) : r \in Nat
    BY RunFacts
  <1>2. Beside(rows, q, q)
    BY BesideFacts
  <1>3. \A r \in Starts(rows) : ~(q < r /\ r <= q /\ Beside(rows, q, r))
    BY <1>1
  <1>. QED
    BY <1>1, <1>2, <1>3, RunFacts

LEMMA RunBegins ==
    ASSUME NEW ids, NEW rows, NEW n \in Nat, DOMAIN rows = 1..n, Len(rows) = n,
           NEW q \in Starts(rows), NEW new, new.first_event_id = ids[q], new.count = 1,
           new.last_event_id = ids[q], new.last_time = rows[q].event.time
    PROVE  GroupOfRun(ids, rows, new, q, q)
  <1>1. q \in 1..n /\ q \in RunOf(rows, q)
    BY RunBeginsAt
  <1>2. RunOf(rows, q) \in SUBSET (q..n)
    BY <1>1, RunFacts
  <1>3. q <= q
    BY <1>1
  <1>4. RunTo(rows, q, q) = {q}
    BY <1>1, <1>2 DEF RunTo
  <1>5. Cardinality({q}) = 1
    BY FS_Singleton
  <1>. QED
    BY <1>3, <1>4, <1>5 DEF GroupOfRun

\* The starts in their order, and how many of them come by q.
StartsUpTo(rows, q, m) ==
    LET order == Ascending(Starts(rows)) IN
    m \in 0..Len(order) /\ \A k \in DOMAIN order : order[k] <= q <=> k <= m

RunsTo(ids, rows, groups, q) ==
    LET order == Ascending(Starts(rows)) IN
    /\ StartsUpTo(rows, q, Len(groups))
    /\ \A k \in 1..Len(groups) : GroupOfRun(ids, rows, groups[k], order[k], q)

LEMMA StartsFacts ==
    ASSUME NEW rows, NEW n \in Nat, DOMAIN rows = 1..n, Len(rows) = n
    PROVE  LET order == Ascending(Starts(rows)) IN
           /\ Len(order) \in Nat /\ DOMAIN order = 1..Len(order)
           /\ Len(order) = Cardinality(Starts(rows))
           /\ \A k \in DOMAIN order : order[k] \in Starts(rows) /\ order[k] \in 1..n
           /\ \A s \in Starts(rows) : \E k \in DOMAIN order : order[k] = s
           /\ \A k, l \in DOMAIN order : k < l => order[k] < order[l]
           /\ \A k, l \in DOMAIN order : order[k] = order[l] => k = l
           /\ \A k, l \in DOMAIN order : order[k] <= order[l] => k <= l
  <1>. DEFINE starts == Starts(rows)
              order  == Ascending(starts)
  <1>1. starts \in SUBSET (1..n)
    BY RunFacts
  <1>. HIDE DEF starts
  <1>2. /\ Cardinality(starts) \in 0..n
        /\ order \in [1..Cardinality(starts) -> starts]
        /\ Len(order) = Cardinality(starts)
        /\ \A i \in starts : \E j \in DOMAIN order : order[j] = i
        /\ \A j, l \in DOMAIN order : j < l => order[j] < order[l]
    BY <1>1, AscendingFacts
  <1>. HIDE DEF order
  <1>3. Len(order) \in Nat /\ DOMAIN order = 1..Len(order)
    BY <1>2
  <1>4. \A k \in DOMAIN order : order[k] \in starts /\ order[k] \in 1..n
    BY <1>1, <1>2
  <1>5. ASSUME NEW k \in DOMAIN order, NEW l \in DOMAIN order
        PROVE  /\ order[k] = order[l] => k = l
               /\ order[k] <= order[l] => k <= l
    <2>1. k \in Nat /\ l \in Nat /\ order[k] \in Nat /\ order[l] \in Nat
      BY <1>3, <1>4
    <2>2. (k < l => order[k] < order[l]) /\ (l < k => order[l] < order[k])
      BY <1>2
    <2>. QED
      BY <2>1, <2>2
  <1>. QED
    BY <1>2, <1>3, <1>4, <1>5 DEF order, starts

\* The rows of a corpus.
AreRows(ids, rows, n) ==
    /\ n \in Nat /\ DOMAIN ids = 1..n /\ Len(ids) = n
    /\ DOMAIN rows = 1..n /\ Len(rows) = n
    /\ \A k \in 1..n : ids[k] \in DOMAIN events /\ rows[k] = events[ids[k]]

LEMMA RowsOfCorpus ==
    ASSUME NEW ids, IsSeq(ids), \A k \in DOMAIN ids : ids[k] \in DOMAIN events
    PROVE  AreRows(ids, RowsAt(ids), Len(ids))
  <1>. DEFINE rows == RowsAt(ids)
  <1>1. Len(ids) \in Nat /\ DOMAIN ids = 1..Len(ids)
    BY DEF IsSeq
  <1>2. rows = [k \in 1..Len(ids) |-> events[ids[k]]]
    BY <1>1 DEF RowsAt
  <1>3. DOMAIN rows = 1..Len(ids) /\ \A k \in 1..Len(ids) : rows[k] = events[ids[k]]
    BY <1>2
  <1>4. rows = [k \in 1..Len(ids) |-> rows[k]]
    BY <1>2
  <1>5. Len(rows) = Len(ids)
    <2>. HIDE DEF rows
    <2>. QED
      BY <1>1, <1>4, FunctionIsSeq
  <1>. QED
    BY <1>1, <1>3, <1>5 DEF AreRows

\* Keys and likeness of events are those of their rows.
LEMMA SameRows ==
    ASSUME NEW ids, NEW rows, NEW n, AreRows(ids, rows, n), NEW p \in 1..n, NEW q \in 1..n
    PROVE  /\ Key(ids[p]) = Key(ids[q]) <=> Beside(rows, p, q)
           /\ Alike(ids[p], ids[q]) <=> Like(rows, p, q)
  <1>1. rows[p] = events[ids[p]] /\ rows[q] = events[ids[q]]
    BY DEF AreRows
  <1>. QED
    BY <1>1 DEF Key, Alike, Beside, Like

\* A row that is no start makes the group of its run longer.
LEMMA JoinStep ==
    ASSUME NEW ids, NEW rows, NEW n, AreRows(ids, rows, n), NEW groups, AreGroups(groups, events),
           NEW q \in 1..n, RunsTo(ids, rows, groups, q - 1), q \notin Starts(rows)
    PROVE  RunsTo(ids, rows, AddToGroups(groups, ids[q]), q)
  <1>. DEFINE order  == Ascending(Starts(rows))
              m      == Len(groups)
              i      == ids[q]
              joined == {g \in OpenGroup(groups, i) : Alike(groups[g].first_event_id, i)}
  <1>1. /\ n \in Nat /\ q \in Nat /\ DOMAIN rows = 1..n /\ Len(rows) = n
        /\ i \in DOMAIN events /\ rows[q] = events[i]
    BY DEF AreRows
  <1>2. IsSeq(groups) /\ m \in Nat /\ DOMAIN groups = 1..m
    BY DEF AreGroups, IsSeq
  <1>3. /\ Len(order) \in Nat /\ DOMAIN order = 1..Len(order)
        /\ \A k \in DOMAIN order : order[k] \in Starts(rows) /\ order[k] \in 1..n
        /\ \A s \in Starts(rows) : \E k \in DOMAIN order : order[k] = s
        /\ \A k, l \in DOMAIN order : order[k] = order[l] => k = l
        /\ \A k, l \in DOMAIN order : order[k] <= order[l] => k <= l
    BY <1>1, StartsFacts
  <1>4. /\ m \in 0..Len(order)
        /\ \A k \in DOMAIN order : order[k] <= q - 1 <=> k <= m
        /\ \A k \in 1..m : GroupOfRun(ids, rows, groups[k], order[k], q - 1)
    BY DEF RunsTo, StartsUpTo
  <1>5. PICK s \in Starts(rows) :
           /\ s < q /\ Like(rows, s, q) /\ Beside(rows, s, q) /\ q \in RunOf(rows, s)
           /\ \A t \in Starts(rows) : t < q /\ Beside(rows, t, q) => t <= s
    BY <1>1, JoinsRun
  <1>. HIDE DEF order, m, i
  <1>6. PICK k \in DOMAIN order : order[k] = s
    BY <1>3
  <1>7. ASSUME NEW g \in 1..m
        PROVE  /\ g \in DOMAIN order /\ order[g] \in Starts(rows) /\ order[g] \in 1..n
               /\ order[g] < q
               /\ groups[g].first_event_id = ids[order[g]]
               /\ Key(groups[g].first_event_id) = Key(i) <=> Beside(rows, order[g], q)
               /\ Alike(groups[g].first_event_id, i) <=> Like(rows, order[g], q)
    <2>1. g \in DOMAIN order /\ g <= m
      BY <1>2, <1>3, <1>4
    <2>2. order[g] \in Starts(rows) /\ order[g] \in 1..n /\ order[g] <= q - 1
      BY <1>3, <1>4, <2>1
    <2>3. order[g] < q
      BY <1>1, <2>2
    <2>4. groups[g].first_event_id = ids[order[g]]
      BY <1>4 DEF GroupOfRun
    <2>5. /\ Key(ids[order[g]]) = Key(ids[q]) <=> Beside(rows, order[g], q)
          /\ Alike(ids[order[g]], ids[q]) <=> Like(rows, order[g], q)
      BY <2>2, SameRows
    <2>. QED
      BY <2>1, <2>2, <2>3, <2>4, <2>5 DEF i
  <1>8. k \in 1..m
    <2>1. order[k] \in 1..n
      BY <1>3
    <2>2. order[k] <= q - 1
      BY <1>1, <1>5, <1>6, <2>1
    <2>3. k <= m
      BY <1>4, <2>2
    <2>. QED
      BY <1>2, <1>3, <2>3
  <1>9. \A h \in 1..m : Beside(rows, order[h], q) => h <= k
    BY <1>3, <1>5, <1>6, <1>7
  <1>10. joined = {k}
    <2>1. k \in joined
      BY <1>2, <1>5, <1>6, <1>7, <1>8, <1>9 DEF OpenGroup
    <2>2. ASSUME NEW g \in joined PROVE g = k
      <3>1. g \in 1..m /\ Key(groups[g].first_event_id) = Key(i)
        BY <1>2 DEF OpenGroup
      <3>2. g <= k
        BY <1>7, <1>9, <3>1
      <3>3. k <= g
        BY <1>2, <1>5, <1>6, <1>7, <1>8 DEF OpenGroup
      <3>. QED
        BY <1>2, <1>8, <3>1, <3>2, <3>3
    <2>. QED
      BY <2>1, <2>2
  <1>. DEFINE new   == Longer(groups[k], i)
              added == [groups EXCEPT ![k] = new]
  <1>11. AddToGroups(groups, i) = added
    <2>1. (CHOOSE g \in {k} : TRUE) = k
      OBVIOUS
    <2>2. joined # {}
      BY <1>10
    <2>. QED
      BY <1>10, <2>1, <2>2 DEF AddToGroups
  <1>12. /\ new.first_event_id = groups[k].first_event_id /\ new.count = groups[k].count + 1
         /\ new.last_event_id = i /\ new.last_time = events[i].event.time
    <2>1. IsGroup(groups[k], events)
      BY <1>2, <1>8 DEF AreGroups
    <2>. DEFINE old == groups[k]
    <2>2. old = [ref |-> old.ref, node |-> old.node, event_name |-> old.event_name,
                 severity |-> old.severity, count |-> old.count,
                 first_event_id |-> old.first_event_id, last_event_id |-> old.last_event_id,
                 first_time |-> old.first_time, last_time |-> old.last_time]
      BY <2>1 DEF IsGroup
    <2>. HIDE DEF old
    <2>3. Longer(old, i) =
              [ref |-> old.ref, node |-> old.node, event_name |-> old.event_name,
               severity |-> old.severity, count |-> old.count + 1,
               first_event_id |-> old.first_event_id, last_event_id |-> i,
               first_time |-> old.first_time, last_time |-> events[i].event.time]
      BY <2>2, LongerFacts
    <2>4. /\ Longer(old, i).first_event_id = old.first_event_id
          /\ Longer(old, i).count = old.count + 1 /\ Longer(old, i).last_event_id = i
          /\ Longer(old, i).last_time = events[i].event.time
      BY <2>3
    <2>. QED
      BY <2>4 DEF old
  <1>. HIDE DEF new, joined
  <1>13. added = [g \in 1..m |-> IF g = k THEN new ELSE groups[g]]
    BY <1>2
  <1>14. Len(added) = m /\ \A g \in 1..m : added[g] = IF g = k THEN new ELSE groups[g]
    BY <1>2, <1>13, FunctionIsSeq
  <1>. HIDE DEF added
  <1>15. \A l \in DOMAIN order : order[l] <= q <=> l <= m
    <2>. SUFFICES ASSUME NEW l \in DOMAIN order
                  PROVE  order[l] <= q <=> l <= m
      OBVIOUS
    <2>1. order[l] # q /\ order[l] \in 1..n
      BY <1>3
    <2>2. order[l] <= q <=> order[l] <= q - 1
      BY <1>1, <2>1
    <2>. QED
      BY <1>4, <2>2
  <1>16. ASSUME NEW g \in 1..m
         PROVE  GroupOfRun(ids, rows, added[g], order[g], q)
    <2>1. GroupOfRun(ids, rows, groups[g], order[g], q - 1)
      BY <1>4
    <2>2. CASE g = k
      <3>1. added[g] = new
        BY <1>14, <2>2
      <3>2. q \in RunOf(rows, order[g])
        BY <1>5, <1>6, <2>2
      <3>3. /\ new.first_event_id = groups[g].first_event_id /\ new.count = groups[g].count + 1
            /\ new.last_event_id = ids[q] /\ new.last_time = rows[q].event.time
        BY <1>1, <1>12, <2>2 DEF i
      <3>4. order[g] \in 1..n
        BY <1>7
      <3>. QED
        BY <1>1, <2>1, <3>1, <3>2, <3>3, <3>4, RunLonger
    <2>3. CASE g # k
      <3>1. added[g] = groups[g]
        BY <1>14, <2>3
      <3>2. order[g] \in 1..n /\ order[g] \in Starts(rows) /\ g \in DOMAIN order
        BY <1>7
      <3>3. q \notin RunOf(rows, order[g])
        <4>. SUFFICES ASSUME q \in RunOf(rows, order[g])
                      PROVE  FALSE
          OBVIOUS
        <4>1. order[g] = order[k]
          BY <1>1, <1>5, <1>6, <3>2, OneStart
        <4>. QED
          BY <1>3, <2>3, <3>2, <4>1
      <3>. QED
        BY <1>1, <2>1, <3>1, <3>2, <3>3, RunStays
    <2>. QED
      BY <2>2, <2>3
  <1>17. RunsTo(ids, rows, added, q)
    BY <1>4, <1>14, <1>15, <1>16 DEF RunsTo, StartsUpTo, order, m
  <1>. QED
    BY <1>11, <1>17 DEF i

\* A start begins the next group.
LEMMA BeginStep ==
    ASSUME NEW ids, NEW rows, NEW n, AreRows(ids, rows, n), NEW groups, AreGroups(groups, events),
           NEW q \in 1..n, RunsTo(ids, rows, groups, q - 1), q \in Starts(rows)
    PROVE  RunsTo(ids, rows, AddToGroups(groups, ids[q]), q)
  <1>. DEFINE order  == Ascending(Starts(rows))
              m      == Len(groups)
              i      == ids[q]
              joined == {g \in OpenGroup(groups, i) : Alike(groups[g].first_event_id, i)}
  <1>1. /\ n \in Nat /\ q \in Nat /\ DOMAIN rows = 1..n /\ Len(rows) = n
        /\ i \in DOMAIN events /\ rows[q] = events[i]
    BY DEF AreRows
  <1>2. IsSeq(groups) /\ m \in Nat /\ DOMAIN groups = 1..m
    BY DEF AreGroups, IsSeq
  <1>3. /\ Len(order) \in Nat /\ DOMAIN order = 1..Len(order)
        /\ \A k \in DOMAIN order : order[k] \in Starts(rows) /\ order[k] \in 1..n
        /\ \A s \in Starts(rows) : \E k \in DOMAIN order : order[k] = s
        /\ \A k, l \in DOMAIN order : k < l => order[k] < order[l]
        /\ \A k, l \in DOMAIN order : order[k] <= order[l] => k <= l
    BY <1>1, StartsFacts
  <1>4. /\ m \in 0..Len(order)
        /\ \A k \in DOMAIN order : order[k] <= q - 1 <=> k <= m
        /\ \A k \in 1..m : GroupOfRun(ids, rows, groups[k], order[k], q - 1)
    BY DEF RunsTo, StartsUpTo
  <1>. HIDE DEF order, m, i
  <1>5. ASSUME NEW g \in 1..m
        PROVE  /\ g \in DOMAIN order /\ order[g] \in Starts(rows) /\ order[g] \in 1..n
               /\ order[g] < q
               /\ groups[g].first_event_id = ids[order[g]]
               /\ Key(groups[g].first_event_id) = Key(i) <=> Beside(rows, order[g], q)
               /\ Alike(groups[g].first_event_id, i) <=> Like(rows, order[g], q)
    <2>1. g \in DOMAIN order /\ g <= m
      BY <1>2, <1>3, <1>4
    <2>2. order[g] \in Starts(rows) /\ order[g] \in 1..n /\ order[g] <= q - 1
      BY <1>3, <1>4, <2>1
    <2>3. order[g] < q
      BY <1>1, <2>2
    <2>4. groups[g].first_event_id = ids[order[g]]
      BY <1>4 DEF GroupOfRun
    <2>5. /\ Key(ids[order[g]]) = Key(ids[q]) <=> Beside(rows, order[g], q)
          /\ Alike(ids[order[g]], ids[q]) <=> Like(rows, order[g], q)
      BY <2>2, SameRows
    <2>. QED
      BY <2>1, <2>2, <2>3, <2>4, <2>5 DEF i
  <1>6. PICK k \in DOMAIN order : order[k] = q
    BY <1>3
  <1>7. k = m + 1
    <2>1. k \in Nat /\ m < k
      <3>1. ~(order[k] <= q - 1)
        BY <1>1, <1>6
      <3>. QED
        BY <1>2, <1>3, <1>4, <3>1
    <2>2. ASSUME m + 1 < k PROVE FALSE
      <3>1. m + 1 \in DOMAIN order
        BY <1>2, <1>3, <2>1, <2>2
      <3>2. order[m + 1] < q /\ order[m + 1] \in 1..n
        BY <1>3, <1>6, <2>2, <3>1
      <3>3. order[m + 1] <= q - 1
        BY <1>1, <3>2
      <3>4. m + 1 <= m
        BY <1>4, <3>1, <3>3
      <3>. QED
        BY <1>2, <3>4
    <2>. QED
      BY <1>2, <2>1, <2>2
  <1>8. \A g \in 1..m : g \in Nat
    OBVIOUS
  <1>9. joined = {}
    <2>. SUFFICES ASSUME NEW g \in joined
                  PROVE  FALSE
      OBVIOUS
    <2>1. /\ g \in 1..m /\ Key(groups[g].first_event_id) = Key(i)
          /\ Alike(groups[g].first_event_id, i)
          /\ \A h \in 1..m : Key(groups[h].first_event_id) = Key(i) => h <= g
      BY <1>2 DEF OpenGroup
    <2>2. Beside(rows, order[g], q) /\ Like(rows, order[g], q) /\ order[g] < q
      BY <1>5, <2>1
    <2>3. ASSUME NEW t \in Starts(rows), t < q, Beside(rows, t, q)
          PROVE  t <= order[g]
      <3>1. PICK h \in DOMAIN order : order[h] = t
        BY <1>3
      <3>2. t \in 1..n /\ h \in Nat
        BY <1>3, <3>1
      <3>3. t <= q - 1
        BY <1>1, <2>3, <3>2
      <3>4. h \in 1..m
        BY <1>2, <1>3, <1>4, <3>1, <3>2, <3>3
      <3>5. h <= g
        BY <1>5, <2>1, <2>3, <3>1, <3>4
      <3>6. g \in DOMAIN order /\ order[g] \in 1..n /\ g \in Nat
        BY <1>5, <1>8, <2>1
      <3>7. ~(order[g] < t)
        <4>1. order[g] < order[h] => order[g] <= order[h] /\ order[g] # order[h]
          BY <3>1, <3>2, <3>6
        <4>2. h = g \/ h < g
          BY <3>2, <3>5, <3>6
        <4>3. h < g => order[h] < order[g]
          BY <1>3, <3>1, <3>6
        <4>. QED
          BY <3>1, <3>2, <3>6, <4>2, <4>3
      <3>. QED
        BY <3>2, <3>6, <3>7
    <2>4. order[g] \in Starts(rows)
      BY <1>5, <2>1
    <2>. QED
      BY <1>1, <2>2, <2>3, <2>4, BeginsRun
  <1>. DEFINE time  == events[i].event.time
              new   == [ref |-> m + 1, node |-> events[i].event.node,
                        event_name |-> events[i].event.event_name,
                        severity |-> events[i].event.severity, count |-> 1,
                        first_event_id |-> i, last_event_id |-> i,
                        first_time |-> time, last_time |-> time]
              added == Append(groups, new)
  <1>10. AddToGroups(groups, i) = added
    BY <1>9 DEF AddToGroups, m
  <1>11. /\ new.first_event_id = i /\ new.count = 1 /\ new.last_event_id = i
         /\ new.last_time = time
    OBVIOUS
  <1>. HIDE DEF new, joined, time
  <1>12. /\ Len(added) = m + 1 /\ added[m + 1] = new
         /\ \A g \in 1..m : added[g] = groups[g]
    BY <1>2, AppendFacts DEF m
  <1>. HIDE DEF added
  <1>13. \A l \in DOMAIN order : order[l] <= q <=> l <= m + 1
    BY <1>3, <1>6, <1>7
  <1>14. ASSUME NEW g \in 1..(m + 1)
         PROVE  GroupOfRun(ids, rows, added[g], order[g], q)
    <2>1. CASE g \in 1..m
      <3>1. added[g] = groups[g] /\ GroupOfRun(ids, rows, groups[g], order[g], q - 1)
        BY <1>4, <1>12, <2>1
      <3>2. order[g] \in 1..n /\ order[g] \in Starts(rows) /\ order[g] < q
        BY <1>5, <2>1
      <3>3. q \notin RunOf(rows, order[g])
        <4>. SUFFICES ASSUME q \in RunOf(rows, order[g])
                      PROVE  FALSE
          OBVIOUS
        <4>1. q \in RunOf(rows, q)
          BY <1>1, RunBeginsAt
        <4>2. order[g] = q
          BY <1>1, <3>2, <4>1, OneStart
        <4>. QED
          BY <1>1, <3>2, <4>2
      <3>. QED
        BY <1>1, <3>1, <3>2, <3>3, RunStays
    <2>2. CASE g = m + 1
      <3>1. added[g] = new /\ order[g] = q
        BY <1>6, <1>7, <1>12, <2>2
      <3>2. /\ new.first_event_id = ids[q] /\ new.last_event_id = ids[q] /\ new.count = 1
            /\ new.last_time = rows[q].event.time
        BY <1>1, <1>11 DEF i, time
      <3>. QED
        BY <1>1, <3>1, <3>2, RunBegins
    <2>. QED
      BY <1>2, <2>1, <2>2
  <1>15. RunsTo(ids, rows, added, q)
    <2>1. m + 1 \in 0..Len(order)
      BY <1>2, <1>3, <1>6, <1>7
    <2>. QED
      BY <1>12, <1>13, <1>14, <2>1 DEF RunsTo, StartsUpTo, order
  <1>. QED
    BY <1>10, <1>15 DEF i

LEMMA RunsOfCorpus ==
    ASSUME NEW ids, NEW n, IsSeq(ids), Len(ids) = n,
           \A k \in DOMAIN ids : ids[k] \in DOMAIN events
    PROVE  \A q \in 0..n : RunsTo(ids, RowsAt(ids), GroupsOf(ids)[q], q)
  <1>. DEFINE rows   == RowsAt(ids)
              groups == GroupsOf(ids)
              bad    == {q \in 0..n : ~RunsTo(ids, rows, groups[q], q)}
  <1>1. n \in Nat /\ DOMAIN ids = 1..n /\ AreRows(ids, rows, n)
    BY RowsOfCorpus DEF IsSeq
  <1>2. \A q \in 0..n : groups[q] = GroupsStep(ids, groups, q)
    BY <1>1, GroupsUnfold
  <1>3. \A q \in 0..n : AreGroups(groups[q], events)
    BY GroupsAreGroups
  <1>4. bad \in SUBSET Nat /\ \A q \in 0..n : q \in bad <=> ~RunsTo(ids, rows, groups[q], q)
    BY <1>1
  <1>. HIDE DEF groups, bad, rows
  <1>5. SUFFICES ASSUME bad # {}
                 PROVE  FALSE
    BY <1>4 DEF groups, rows
  <1>6. PICK q \in bad : \A k \in bad : q <= k
    BY <1>4, <1>5, Smallest
  <1>7. q \in 0..n
    BY <1>6 DEF bad
  <1>8. CASE q = 0
    <2>. DEFINE order == Ascending(Starts(rows))
    <2>1. groups[q] = <<>> /\ Len(<<>>) = 0
      BY <1>2, <1>7, <1>8 DEF GroupsStep
    <2>2. /\ Len(order) \in Nat /\ DOMAIN order = 1..Len(order)
          /\ \A k \in DOMAIN order : order[k] \in 1..n
      BY <1>1, StartsFacts DEF AreRows
    <2>. HIDE DEF order
    <2>3. 0 \in 0..Len(order) /\ \A k \in DOMAIN order : order[k] <= 0 <=> k <= 0
      BY <1>1, <2>2
    <2>4. RunsTo(ids, rows, <<>>, 0)
      BY <2>1, <2>3 DEF RunsTo, StartsUpTo, order
    <2>. QED
      BY <1>4, <1>6, <1>7, <1>8, <2>1, <2>4
  <1>9. CASE q # 0
    <2>1. q - 1 \in 0..n /\ ~(q <= q - 1) /\ q \in 1..n
      BY <1>1, <1>7, <1>9
    <2>2. RunsTo(ids, rows, groups[q - 1], q - 1) /\ AreGroups(groups[q - 1], events)
      BY <1>3, <1>4, <1>6, <2>1
    <2>3. groups[q] = AddToGroups(groups[q - 1], ids[q])
      BY <1>2, <1>7, <1>9 DEF GroupsStep
    <2>4. RunsTo(ids, rows, AddToGroups(groups[q - 1], ids[q]), q)
      BY <1>1, <2>1, <2>2, JoinStep, BeginStep
    <2>. QED
      BY <1>4, <1>6, <1>7, <2>3, <2>4
  <1>. QED
    BY <1>8, <1>9

\* When every row has been read, the groups are the runs.
LEMMA GroupsRun ==
    ASSUME NEW ids, IsSeq(ids), \A k \in DOMAIN ids : ids[k] \in DOMAIN events
    PROVE  AreRuns(ids, RowsAt(ids), GroupsOf(ids)[Len(ids)])
  <1>. DEFINE rows   == RowsAt(ids)
              n      == Len(ids)
              groups == GroupsOf(ids)[n]
              starts == Starts(rows)
              order  == Ascending(starts)
  <1>1. n \in Nat /\ DOMAIN rows = 1..n /\ Len(rows) = n
    BY RowsOfCorpus DEF AreRows
  <1>2. RunsTo(ids, rows, groups, n)
    <2>1. n \in 0..n
      BY <1>1
    <2>. QED
      BY <2>1, RunsOfCorpus
  <1>. HIDE DEF rows, n, groups
  <1>3. /\ Len(order) \in Nat /\ DOMAIN order = 1..Len(order)
        /\ Len(order) = Cardinality(starts)
        /\ \A k \in DOMAIN order : order[k] \in 1..n
        /\ \A s \in starts : \E k \in DOMAIN order : order[k] = s
    BY <1>1, StartsFacts
  <1>4. starts \in SUBSET (1..n) /\ \A p \in starts : RunOf(rows, p) \in SUBSET (p..n)
    BY <1>1, RunFacts
  <1>5. /\ Len(groups) \in 0..Len(order)
        /\ \A k \in DOMAIN order : order[k] <= n <=> k <= Len(groups)
        /\ \A k \in 1..Len(groups) : GroupOfRun(ids, rows, groups[k], order[k], n)
    BY <1>2 DEF RunsTo, StartsUpTo
  <1>6. \A k \in DOMAIN order : Cardinality({r \in starts : r <= order[k]}) = k
    BY <1>1, <1>4, PlaceIsRank
  <1>. HIDE DEF starts, order
  <1>7. Len(groups) = Len(order)
    <2>1. Len(order) \in DOMAIN order => Len(order) <= Len(groups)
      BY <1>1, <1>3, <1>5
    <2>. QED
      BY <1>3, <1>5, <2>1
  <1>8. ASSUME NEW p \in starts
        PROVE  LET group == groups[Cardinality({r \in starts : r <= p})]
                   last  == CHOOSE q \in RunOf(rows, p) : \A r \in RunOf(rows, p) : r <= q
               IN  /\ group.first_event_id = ids[p]
                   /\ group.last_event_id = ids[last]
                   /\ group.count = Cardinality(RunOf(rows, p))
                   /\ group.last_time = rows[last].event.time
    <2>1. PICK k \in DOMAIN order : order[k] = p
      BY <1>3
    <2>2. Cardinality({r \in starts : r <= p}) = k /\ GroupOfRun(ids, rows, groups[k], p, n)
      BY <1>3, <1>5, <1>6, <1>7, <2>1
    <2>. DEFINE run == RunOf(rows, p)
    <2>3. p \in Nat /\ run \in SUBSET (p..n)
      BY <1>1, <1>4
    <2>4. RunTo(rows, p, n) = run
      BY <1>1, <2>3 DEF RunTo
    <2>5. PICK l \in run :
             /\ \A r \in run : r <= l
             /\ groups[k].first_event_id = ids[p] /\ groups[k].count = Cardinality(run)
             /\ groups[k].last_event_id = ids[l] /\ groups[k].last_time = rows[l].event.time
      BY <2>2, <2>4 DEF GroupOfRun
    <2>6. (CHOOSE q \in run : \A r \in run : r <= q) = l
      <3>1. \A q \in run : q \in Nat
        BY <2>3
      <3>. HIDE DEF run
      <3>2. \A q \in run : (\A r \in run : r <= q) => q = l
        BY <2>5, <3>1
      <3>. QED
        BY <2>5, <3>2
    <2>. QED
      BY <2>2, <2>5, <2>6
  <1>9. AreRuns(ids, rows, groups)
    BY <1>3, <1>7, <1>8 DEF AreRuns, starts
  <1>. QED
    BY <1>9 DEF rows, groups, n

\* The rows a scan has read are those the table still has.
RunsInv ==
    scan.asking =>
        /\ IsSeq(scan.corpus)
        /\ \A k \in DOMAIN scan.corpus : scan.corpus[k] \in DOMAIN events
        /\ AreRuns(scan.corpus, RowsAt(scan.corpus), scan.groups)

LEMMA RunsStep == FilesInv /\ RunsInv /\ [Next]_vars => RunsInv'
  <1>. SUFFICES ASSUME FilesInv, RunsInv, [Next]_vars
                PROVE  RunsInv'
    OBVIOUS
  <1>1. CASE UNCHANGED scan
    <2>. SUFFICES ASSUME scan.asking
                  PROVE  /\ IsSeq(scan.corpus)
                         /\ \A k \in DOMAIN scan.corpus : scan.corpus[k] \in DOMAIN events'
                         /\ AreRuns(scan.corpus, RowsAt(scan.corpus)', scan.groups)
      BY <1>1 DEF RunsInv
    <2>1. /\ IsSeq(scan.corpus)
          /\ \A k \in DOMAIN scan.corpus : scan.corpus[k] \in DOMAIN events
          /\ AreRuns(scan.corpus, RowsAt(scan.corpus), scan.groups)
      BY DEF RunsInv
    <2>2. \A i \in DOMAIN events : i \in DOMAIN events' /\ events'[i] = events[i]
      BY EventsStay
    <2>3. RowsAt(scan.corpus)' = RowsAt(scan.corpus)
      <3>1. \A k \in DOMAIN scan.corpus : events'[scan.corpus[k]] = events[scan.corpus[k]]
        BY <2>1, <2>2
      <3>. QED
        BY <1>1, <3>1 DEF RowsAt
    <2>. QED
      BY <2>1, <2>2, <2>3
  <1>2. ASSUME NEW scope \in Scopes, BeginScan(scope)
        PROVE  RunsInv'
    <2>. DEFINE ids    == get_all_events_ordered(scope)
                groups == build_compact_corpus(scope)
    <2>1. /\ scan' = [asking |-> TRUE, scope |-> scope, corpus |-> ids, groups |-> groups]
          /\ events' = events
      BY <1>2 DEF BeginScan
    <2>2. IsSeq(ids) /\ \A k \in DOMAIN ids : ids[k] \in DOMAIN events
      BY OrderedIds
    <2>3. groups = GroupsOf(ids)[Len(ids)]
      BY DEF build_compact_corpus
    <2>. HIDE DEF ids, groups
    <2>4. AreRuns(ids, RowsAt(ids), groups)
      BY <2>2, <2>3, GroupsRun
    <2>5. scan'.corpus = ids /\ scan'.groups = groups
      BY <2>1
    <2>6. RowsAt(scan.corpus)' = RowsAt(ids)
      BY <2>1, <2>5 DEF RowsAt
    <2>. QED
      BY <2>1, <2>2, <2>4, <2>5, <2>6 DEF RunsInv
  <1>3. ASSUME NEW refs \in RefLists, EndScan(refs)
        PROVE  RunsInv'
    BY <1>3 DEF EndScan, NoScan, RunsInv
  <1>4. [Next]_vars => \/ UNCHANGED scan
                       \/ \E scope \in Scopes : BeginScan(scope)
                       \/ \E refs \in RefLists : EndScan(refs)
    BY DEF Next, vars, ingest_file, RefuseFile
  <1>. QED
    BY <1>1, <1>2, <1>3, <1>4

(***************************************************************************)
(* The groups a scan shows are the runs of the corpus it read, for every   *)
(* corpus of every scope, and stay so while the model answers and files    *)
(* are ingested (build_compact_corpus).                                    *)
(***************************************************************************)
THEOREM GroupsStayRuns == Spec => []GroupsAreRuns
  <1>1. Init => RunsInv
    BY DEF Init, RunsInv, NoScan
  <1>2. RunsInv => GroupsAreRuns
    BY DEF RunsInv, GroupsAreRuns
  <1>. QED
    BY <1>1, <1>2, RunsStep, TablesAlways, PTL DEF Spec

(***************************************************************************)
(* Every event of a file whose lines leave no second reading has the       *)
(* moment at which it happened, in whatever year and on whatever clock the *)
(* lines were written (_assign_years).                                     *)
(***************************************************************************)
THEOREM DatesStayTrue == Spec => []DatesAreTrue
  BY TablesAlways, DatesFromFiles, PTL

(***************************************************************************)
(* Every stamp gets a date, whatever the mtime; a file in time order has   *)
(* dates in that order, and no line of a whole file is dated more than the *)
(* tolerance after the next (_assign_years).                               *)
(***************************************************************************)
THEOREM DatesFollow == Spec => []DatesFollowTheFile
  BY TablesAlways, DatesFollowFromFiles, PTL

=============================================================================
