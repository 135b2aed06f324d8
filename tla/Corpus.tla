-------------------------------- MODULE Corpus --------------------------------
(***************************************************************************)
(* From the lines of a log to the evidence a model is shown: a file that   *)
(* arrives is filtered by severity, dated, deduplicated and stored; a scan *)
(* reads the stored events as groups, asks the model, and resolves the     *)
(* groups the answer refers to into leads; tools answer from the events.   *)
(*                                                                         *)
(* What Ingestion and AnalysisRun have of this are the steps and their     *)
(* transactions; here every file is ingested in one step, and the subject  *)
(* is what the rows hold.                                                  *)
(***************************************************************************)
EXTENDS YearInference, Severity, FiniteSets, TLC

CONSTANTS
    Clusters,        \* names of clusters
    NoCluster,       \* NULL: events of an uploaded file of no known cluster
    NoNode,          \* NULL: events of a line that could not be read
    Arrivals,        \* sequences of files that may arrive, in their order
    SAMPLE_SIZE,     \* lines a format is detected from
    ScanWindow,      \* the window of a scan of the last 24 hours
    RefLists,        \* sequences of refs the model may answer with
    MAX_LEADS,       \* leads one candidate keeps
    MAX_RESULTS,     \* MAX_TOOL_RESULT_EVENTS
    DEFAULT_RESULTS, \* what a tool returns when it is not asked for a number
    MAX_WINDOW,      \* MAX_CONTEXT_WINDOW_MINUTES
    DEFAULT_WINDOW,  \* the window of a context that is not asked for one
    Filters,         \* what the model may ask the tools for: filters of a query,
    Limits,          \* numbers of events,
    Windows,         \* and widths of a context
    MaxScans         \* bound on the scans

(***************************************************************************)
(* A line of a log, as somebody who was there would read it: its time is   *)
(* the moment it was written, whatever of it the text preserves.  A shape  *)
(* is the LINE_RE it matches; text is the whole of the line.               *)
(***************************************************************************)
Shapes == {"ems_text", "autosupport_ems", "neither"}

(***************************************************************************)
(* A file that arrives.  A fetch asks a cluster for its log, above a floor;*)
(* an upload brings the lines of a file, at an offset, with an mtime.      *)
(***************************************************************************)
Kinds == {"fetch", "upload"}

IsSeq(s) == s \in Seq(Range(s))

\* The calendar begins before anything was written, on whatever clock; the
\* name of a line that cannot be read is nobody else's.
IsLine(line, offset) ==
    /\ line = [shape |-> line.shape, time |-> line.time, node |-> line.node,
               event_name |-> line.event_name, severity |-> line.severity,
               message |-> line.message, text |-> line.text]
    /\ line.shape \in Shapes
    /\ line.time = NoTime \/ (line.time \in Nat /\ line.time + offset \in Nat)
    /\ line.shape # "neither" => line.event_name # "unparsed.line"

\* The slack is chosen to absorb the offset of any clock from UTC; a cluster
\* gives an event no severity but those of its API.
IsFile(file) ==
    /\ file.kind \in Kinds
    /\ file.cluster \in Clusters \cup {NoCluster}
    /\ IsSeq(file.lines)
    /\ file.offset \in (-_FUTURE_SLACK).._FUTURE_SLACK
    /\ file.mtime \in Nat
    /\ \A i \in DOMAIN file.lines :
          /\ IsLine(file.lines[i], file.offset)
          /\ file.kind = "fetch" =>
                /\ file.lines[i].shape = "ems_text"
                /\ file.lines[i].severity \in ONTAP_SEVERITIES \cup {NoSeverity}

ASSUME ScopeAssumption == NoCluster \notin Clusters
ASSUME ArrivalsAssumption ==
    \A a \in Arrivals : IsSeq(a) /\ \A i \in DOMAIN a : IsFile(a[i])
ASSUME RefsAssumption == \A refs \in RefLists : IsSeq(refs)
ASSUME LimitsAssumption ==
    /\ SAMPLE_SIZE \in Nat \ {0}
    /\ MAX_LEADS \in Nat \ {0}
    /\ MAX_RESULTS \in Nat \ {0}
    /\ DEFAULT_RESULTS \in 1..MAX_RESULTS
    /\ MAX_WINDOW \in Nat \ {0}
    /\ DEFAULT_WINDOW \in 1..MAX_WINDOW
    /\ ScanWindow \in Nat
    /\ MaxScans \in Nat

(***************************************************************************)
(* A filter is a record of the fields a query restricts: of names, those   *)
(* that contain what was asked for.  A model may ask for any number.       *)
(***************************************************************************)
FilterFields == {"node", "named", "severity", "start_time", "end_time"}

ASSUME ToolsAssumption ==
    /\ \A filter \in Filters : DOMAIN filter \subseteq FilterFields
    /\ Limits \cup Windows \subseteq Int

VARIABLES
    arrivals,   \* the files still to come
    files,      \* the files table
    events,     \* the events table; an id is a position
    scan,       \* the scan that waits for its answer, if there is one
    scans,      \* scans begun
    candidates  \* the candidates table

vars == <<arrivals, files, events, scan, scans, candidates>>

NoScan == [asking |-> FALSE]

Init ==
    /\ arrivals \in Arrivals
    /\ files = <<>>
    /\ events = <<>>
    /\ scan = NoScan
    /\ scans = 0
    /\ candidates = <<>>

-----------------------------------------------------------------------------
(* Orders.                                                                 *)

\* The elements of a finite set in an order, which is a set of pairs.
Sorted(S, order) ==
    [k \in 1..Cardinality(S) |->
        CHOOSE i \in S : Cardinality({j \in S : <<j, i>> \in order}) = k - 1]

\* The positions in a sequence of what is kept of it.
Ascending(positions) ==
    Sorted(positions, {p \in positions \X positions : p[1] < p[2]})

-----------------------------------------------------------------------------
(* Parsing.                                                                *)

Matches(format, line) == line.shape = format

\* At least half of the sampled lines.
detect(format, lines) ==
    LET sample == SubSeq(lines, 1, IF Len(lines) < SAMPLE_SIZE THEN Len(lines) ELSE SAMPLE_SIZE)
    IN  sample # <<>>
        /\ 2 * Cardinality({i \in DOMAIN sample : Matches(format, sample[i])}) >= Len(sample)

detect_format(lines) ==
    CASE detect("ems_text", lines) -> "ems_text"
      [] ~detect("ems_text", lines) /\ detect("autosupport_ems", lines) -> "autosupport_ems"
      [] OTHER -> "raw_fallback"

unparsed_line(line) ==
    [time |-> NoTime, node |-> NoNode, event_name |-> "unparsed.line",
     severity |-> NoSeverity, message |-> line.text]

\* What the parser of a format makes of a line that matches it.
ParsedLine(line, time) ==
    [time |-> time, node |-> line.node, event_name |-> line.event_name,
     severity |-> line.severity, message |-> line.message]

Stamps(lines, offset) ==
    [i \in DOMAIN lines |->
        IF Matches("autosupport_ems", lines[i]) /\ lines[i].time # NoTime
        THEN Stamp(lines[i].time, offset) ELSE NoTime]

parse_file(lines, offset, mtime) ==
    LET format == detect_format(lines)
        times  == IF format = "autosupport_ems"
                  THEN _assign_years(Stamps(lines, offset), mtime)
                  ELSE [i \in DOMAIN lines |-> lines[i].time]
    IN  [i \in DOMAIN lines |->
            IF Matches(format, lines[i]) THEN ParsedLine(lines[i], times[i])
                                         ELSE unparsed_line(lines[i])]

-----------------------------------------------------------------------------
(* A file is ingested.                                                     *)

(***************************************************************************)
(* The cluster returns the events with one of the severities asked for;    *)
(* event_to_text_line writes "unknown" for an event that has none.         *)
(***************************************************************************)
FetchedLines(log, minimum) ==
    LET asked == Ascending({i \in DOMAIN log :
                    minimum = NoSeverity \/ log[i].severity \in at_or_above(minimum)})
    IN  [k \in DOMAIN asked |->
            [log[asked[k]] EXCEPT !.severity = IF @ = NoSeverity THEN "unknown" ELSE @]]

Lines(file) ==
    IF file.kind = "fetch" THEN FetchedLines(file.lines, normalize_minimum(file.floor))
                           ELSE file.lines

\* The keys of what is stored for the cluster, in the time range of the batch.
existing_event_keys(cluster, batch) ==
    LET times   == {event.time : event \in batch} \ {NoTime}
        InRange(time) ==
            \/ times = {}
            \/ time = NoTime
            \/ (\E t \in times : t <= time) /\ \E t \in times : time <= t
    IN  {events[id].event : id \in
            {i \in DOMAIN events : events[i].cluster = cluster /\ InRange(events[i].event.time)}}

\* The rows of a file: above the floor, not stored before, numbered densely.
Ingested(file, id) ==
    LET lines   == Lines(file)
        parsed  == parse_file(lines, file.offset, file.mtime)
        minimum == normalize_minimum(file.floor)
        above   == {i \in DOMAIN lines : meets_minimum(parsed[i].severity, minimum)}
        known   == existing_event_keys(file.cluster, {parsed[i] : i \in above})
        kept    == {i \in above : parsed[i] \notin known}
        order   == Ascending(kept)
    IN  [rows |-> [k \in DOMAIN order |->
                     [file |-> id, cluster |-> file.cluster, sequence_num |-> k,
                      raw_line |-> lines[order[k]], event |-> parsed[order[k]]]],
         event_count |-> Cardinality(kept),
         duplicates_skipped |-> Cardinality(above) - Cardinality(kept),
         severity_skipped |-> Len(lines) - Cardinality(above)]

\* A floor nobody can rank is refused; a fetch that brings nothing is too.
Refused(file) ==
    ~LegalMinimum(file.floor) \/ (file.kind = "fetch" /\ Lines(file) = <<>>)

ingest_file ==
    /\ arrivals # <<>>
    /\ LET file   == Head(arrivals)
           id     == Len(files) + 1
       IN  /\ ~Refused(file)
           /\ \E result \in {Ingested(file, id)} :
              /\ files' = Append(files,
                 [source |-> file, severity_filter |-> normalize_minimum(file.floor),
                  event_count |-> result.event_count,
                  duplicates_skipped |-> result.duplicates_skipped,
                  severity_skipped |-> result.severity_skipped])
              /\ events' = events \o result.rows
    /\ arrivals' = Tail(arrivals)
    /\ UNCHANGED <<scan, scans, candidates>>

RefuseFile ==
    /\ arrivals # <<>>
    /\ Refused(Head(arrivals))
    /\ arrivals' = Tail(arrivals)
    /\ UNCHANGED <<files, events, scan, scans, candidates>>

-----------------------------------------------------------------------------
(* Queries.                                                                *)

\* ORDER BY event_time, sequence_num: NULL is first, and rows that tie come in
\* the order of their ids.
Before(i, j) ==
    LET a == events[i].event.time
        b == events[j].event.time
    IN  \/ a = NoTime /\ b # NoTime
        \/ a # NoTime /\ b # NoTime /\ a < b
        \/ /\ a = b
           /\ \/ events[i].sequence_num < events[j].sequence_num
              \/ events[i].sequence_num = events[j].sequence_num /\ i < j

Ordered(wanted) == Sorted(wanted, {p \in wanted \X wanted : Before(p[1], p[2])})

\* EventScope: a cluster, with a file or a beginning.
ClusterScopes == [kind : {"cluster"}, cluster : Clusters \cup {NoCluster}]

LatestTimes(cluster) ==
    {events[i].event.time : i \in {j \in DOMAIN events : events[j].cluster = cluster}} \ {NoTime}

\* The 24 hours before the cluster's newest event.
WindowScopes ==
    {[kind |-> "window", cluster |-> c,
      since |-> (CHOOSE t \in LatestTimes(c) : \A u \in LatestTimes(c) : u <= t) - ScanWindow] :
        c \in {d \in Clusters \cup {NoCluster} : LatestTimes(d) # {}}}

FileScopes ==
    {[kind |-> "file", cluster |-> files[i].source.cluster, file |-> i] : i \in DOMAIN files}

Scopes == ClusterScopes \cup WindowScopes \cup FileScopes \cup {[kind |-> "all"]}

InScope(i, scope) ==
    CASE scope.kind = "all" -> TRUE
      [] scope.kind = "cluster" -> events[i].cluster = scope.cluster
      [] scope.kind = "file" -> events[i].cluster = scope.cluster /\ events[i].file = scope.file
      [] scope.kind = "window" ->
            /\ events[i].cluster = scope.cluster
            /\ events[i].event.time # NoTime
            /\ events[i].event.time >= scope.since

get_all_events_ordered(scope) == Ordered({i \in DOMAIN events : InScope(i, scope)})

-----------------------------------------------------------------------------
(* Compaction.                                                             *)

FaultyKey(i) == events[i].event.node

Key(i) == <<events[i].cluster, events[i].event.node>>

Alike(i, j) ==
    /\ events[i].event.event_name = events[j].event.event_name
    /\ events[i].event.severity = events[j].event.severity

\* The group an event of this key may still join is the newest of the key.
OpenGroup(groups, i) ==
    {g \in DOMAIN groups :
        /\ Key(groups[g].first_event_id) = Key(i)
        /\ \A h \in DOMAIN groups : Key(groups[h].first_event_id) = Key(i) => h <= g}

Longer(group, i) ==
    [group EXCEPT !.count = @ + 1, !.last_event_id = i, !.last_time = events[i].event.time]

AddToGroups(groups, i) ==
    LET joined == {g \in OpenGroup(groups, i) : Alike(groups[g].first_event_id, i)}
    IN  IF joined # {}
        THEN [groups EXCEPT ![CHOOSE g \in joined : TRUE] = Longer(@, i)]
        ELSE Append(groups,
                [ref |-> Len(groups) + 1, node |-> events[i].event.node,
                 event_name |-> events[i].event.event_name,
                 severity |-> events[i].event.severity, count |-> 1,
                 first_event_id |-> i, last_event_id |-> i,
                 first_time |-> events[i].event.time, last_time |-> events[i].event.time])

\* The groups after each of the events.
GroupsOf(ids) ==
    LET groups[n \in 0..Len(ids)] ==
            IF n = 0 THEN <<>> ELSE AddToGroups(groups[n - 1], ids[n])
    IN  groups

build_compact_corpus(scope) ==
    LET ids == get_all_events_ordered(scope) IN GroupsOf(ids)[Len(ids)]

FaultyFirstOf(seq, limit) == seq

FirstOf(seq, limit) == SubSeq(seq, 1, IF Len(seq) < limit THEN Len(seq) ELSE limit)

\* The leads of a list of refs.
Leads(groups, refs) ==
    LET known == FirstOf(Ascending({r \in DOMAIN refs : refs[r] \in DOMAIN groups}), MAX_LEADS)
    IN  [k \in DOMAIN known |-> groups[refs[known[k]]]]

FaultyResolveLeads(groups, refs) == Leads(build_compact_corpus(scan.scope), refs)

\* Refs to nothing are dropped, a ref that is repeated is a lead each time, and
\* a candidate keeps the first MAX_LEADS.
resolve_leads(groups, refs) == Leads(groups, refs)

-----------------------------------------------------------------------------
(* The tools of an investigation that answer from the events.  A context   *)
(* says for which cluster an investigation asks, if it is scoped to one.   *)

\* event_cluster: an investigation without a scope asks every cluster.
OwnEvent(i, context) == context.scoped => events[i].cluster = context.cluster

_clamp(value, ceiling, default) ==
    IF value < 1 THEN default ELSE IF value < ceiling THEN value ELSE ceiling

\* A comparison with NULL is never true.
Selected(i, filter) ==
    LET event == events[i].event IN
    /\ "node" \in DOMAIN filter => event.node = filter.node
    /\ "named" \in DOMAIN filter => event.event_name \in filter.named
    /\ "severity" \in DOMAIN filter => event.severity = filter.severity
    /\ "start_time" \in DOMAIN filter => event.time # NoTime /\ event.time >= filter.start_time
    /\ "end_time" \in DOMAIN filter => event.time # NoTime /\ event.time <= filter.end_time

\* What a tool returns: the events, and whether it says they may not be all.
_format_events(ids, truncated_at) == [ids |-> ids, truncated |-> Len(ids) >= truncated_at]

query_events(filter, limit, context) ==
    LET capped == _clamp(limit, MAX_RESULTS, DEFAULT_RESULTS)
        wanted == {i \in DOMAIN events : OwnEvent(i, context) /\ Selected(i, filter)}
    IN  _format_events(FirstOf(Ordered(wanted), capped), capped)

\* Nothing is near an event without a time.
Near(anchor, i, window) ==
    LET event == events[anchor].event IN
    /\ i # anchor
    /\ event.time # NoTime
    /\ event.node # NoNode
    /\ Selected(i, [node |-> event.node, start_time |-> event.time - window,
                    end_time |-> event.time + window])

get_event_context(anchor, window_minutes, context) ==
    LET window == _clamp(window_minutes, MAX_WINDOW, DEFAULT_WINDOW)
        wanted == {i \in DOMAIN events : OwnEvent(i, context) /\ Near(anchor, i, window)}
    IN  _format_events(FirstOf(Ordered(wanted), MAX_RESULTS), MAX_RESULTS)

Days(ids) == {events[i].event.time : i \in ids} \ {NoTime}

FaultyGetEventRateBaseline(name, node, context) ==
    LET Named(i) == OwnEvent(i, context) /\ events[i].event.event_name = name
        here     == {i \in DOMAIN events : Named(i) /\ events[i].event.node = node}
        away     == {i \in DOMAIN events : events[i].event.event_name = name
                                           /\ events[i].event.node \notin {node, NoNode}}
    IN  [total_occurrences |-> Cardinality(here),
         days_seen_on |-> Cardinality(Days(here)),
         corpus_days |-> Cardinality(Days({i \in DOMAIN events : OwnEvent(i, context)})),
         elsewhere_in_cluster |-> Cardinality(away)]

get_event_rate_baseline(name, node, context) ==
    LET Named(i) == OwnEvent(i, context) /\ events[i].event.event_name = name
        here     == {i \in DOMAIN events : Named(i) /\ events[i].event.node = node}
        away     == {i \in DOMAIN events : Named(i) /\ events[i].event.node \notin {node, NoNode}}
    IN  [total_occurrences |-> Cardinality(here),
         days_seen_on |-> Cardinality(Days(here)),
         corpus_days |-> Cardinality(Days({i \in DOMAIN events : OwnEvent(i, context)})),
         elsewhere_in_cluster |-> Cardinality(away)]

-----------------------------------------------------------------------------
(* A scan: the corpus is read, the model answers, its refs are resolved.   *)

\* A request for a scope without events is refused.
BeginScan(scope) ==
    /\ ~scan.asking
    /\ scans < MaxScans
    /\ scans' = scans + 1
    /\ get_all_events_ordered(scope) # <<>>
    /\ scan' = [asking |-> TRUE, scope |-> scope,
                corpus |-> get_all_events_ordered(scope),
                groups |-> build_compact_corpus(scope)]
    /\ UNCHANGED <<arrivals, files, events, candidates>>

\* A candidate none of whose refs resolve is skipped.
EndScan(refs) ==
    /\ scan.asking
    /\ LET leads == resolve_leads(scan.groups, refs)
       IN  candidates' = IF leads = <<>> THEN candidates
                         ELSE Append(candidates,
                                 [scope |-> scan.scope, leads |-> leads, shown |-> scan.groups,
                                  refs |-> refs])
    /\ scan' = NoScan
    /\ UNCHANGED <<arrivals, files, events, scans>>

Next ==
    \/ ingest_file
    \/ RefuseFile
    \/ \E scope \in Scopes : BeginScan(scope)
    \/ \E refs \in RefLists : EndScan(refs)

Spec == Init /\ [][Next]_vars

-----------------------------------------------------------------------------
(* Properties.                                                             *)

TypeOK ==
    /\ \A i \in DOMAIN events :
          /\ events[i].file \in DOMAIN files
          /\ events[i].cluster \in Clusters \cup {NoCluster}
          /\ events[i].sequence_num \in 1..files[events[i].file].event_count
          /\ events[i].event.time \in Int \cup {NoTime}
    /\ \A f \in DOMAIN files : files[f].severity_filter \in DOMAIN _RANKS \cup {NoSeverity}
    /\ scans \in 0..MaxScans
    /\ \A c \in DOMAIN candidates : Len(candidates[c].leads) \in 1..MAX_LEADS

-----------------------------------------------------------------------------
(* Dates.                                                                  *)

\* The readable stamps of a file, in its order.
Stamped(file) ==
    LET stamped == Ascending({i \in DOMAIN file.lines :
                       file.lines[i].shape = "autosupport_ems" /\ file.lines[i].time # NoTime})
    IN  [k \in DOMAIN stamped |-> file.lines[stamped[k]]]

\* The next moment whose line would bear the same stamp.
Anniversary(time, offset) ==
    LET stamp == Stamp(time, offset)
    IN  _build(stamp, YearOf(time + offset) + IF stamp.place = LeapUnit THEN 4 ELSE 1)

\* No line could be a year later and still be before the next one.
NoLongGap(file) ==
    LET lines == Stamped(file) IN
    \A k \in 1..(Len(lines) - 1) :
        lines[k + 1].time + _ROLLOVER_TOLERANCE < Anniversary(lines[k].time, file.offset)

\* From a line to the next there is less than any year, leap day or not.
ShortGaps(file) ==
    LET lines == Stamped(file) IN
    \A k \in 1..(Len(lines) - 1) :
        lines[k + 1].time - lines[k].time + _ROLLOVER_TOLERANCE + 1 < YearLength - 1

\* Lines may be out of order within the tolerance, but not across a New Year.
NearlyInOrder(file) ==
    LET lines == Stamped(file) IN
    \A k \in 1..(Len(lines) - 1) :
        /\ lines[k].time <= lines[k + 1].time + _ROLLOVER_TOLERANCE
        /\ YearOf(lines[k].time + file.offset) <= YearOf(lines[k + 1].time + file.offset)

InOrder(file) ==
    LET lines == Stamped(file) IN
    \A k \in 1..(Len(lines) - 1) : lines[k].time <= lines[k + 1].time

\* The newest line is written before the mtime, or little after it, and less
\* than a year before; its year has begun where the mtime is counted.
Anchored(file) ==
    LET lines == Stamped(file) IN
    lines # <<>> =>
        LET newest == lines[Len(lines)].time IN
        /\ newest <= file.mtime + _FUTURE_SLACK
        /\ file.mtime + _FUTURE_SLACK < Anniversary(newest, file.offset)
        /\ YearOf(newest + file.offset) <= YearOf(file.mtime)

Dated(i) == events[i].event.time = events[i].raw_line.time

OfFile(f) == {i \in DOMAIN events : events[i].file = f}

(***************************************************************************)
(* The year that a bundle leaves out is put back: every event of a file    *)
(* has the moment at which it happened, February 29 and a New Year in the  *)
(* middle of the file included, when its lines leave no room for a second  *)
(* reading (_assign_years).                                                *)
(***************************************************************************)
DatesAreTrue ==
    \A f \in DOMAIN files :
        LET file == files[f].source IN
        Anchored(file) /\ NoLongGap(file) /\ NearlyInOrder(file) =>
            \A i \in OfFile(f) : events[i].event.event_name # "unparsed.line" => Dated(i)

(***************************************************************************)
(* Whatever mtime a file was given, however old it is and whatever a clock *)
(* did to it, every stamp gets a date, and of a file that is stored whole  *)
(* no line is dated more than the tolerance after the next one; the dates  *)
(* of a file in time order are in that order (_assign_years).              *)
(***************************************************************************)
DatesFollowTheFile ==
    \A f \in DOMAIN files :
        LET file    == files[f].source
            stamped == {i \in OfFile(f) : /\ events[i].event.event_name # "unparsed.line"
                                          /\ events[i].raw_line.shape = "autosupport_ems"
                                          /\ events[i].raw_line.time # NoTime}
            whole   == files[f].duplicates_skipped = 0 /\ files[f].severity_skipped = 0
            Adjacent(i, j) == i < j /\ ~\E k \in stamped : i < k /\ k < j
        IN  /\ \A i \in stamped : events[i].event.time # NoTime
            /\ \A i, j \in stamped :
                  Adjacent(i, j) /\ whole =>
                      events[i].event.time <= events[j].event.time + _ROLLOVER_TOLERANCE
            /\ InOrder(file) /\ ShortGaps(file) =>
                  \A i, j \in stamped : i < j => events[i].event.time <= events[j].event.time

-----------------------------------------------------------------------------
(* Severities.                                                             *)

Above(word, minimum) == minimum = NoSeverity \/ Rank(word) <= Rank(minimum)

\* An event that says what a line says; the year of a stamp is inferred.
Says(event, line) ==
    \/ event = unparsed_line(line)
    \/ /\ event = ParsedLine(line, event.time)
       /\ line.shape = "ems_text" => event.time = line.time

(***************************************************************************)
(* The floor on a file's row is true of its events, whoever applied it:    *)
(* nothing ranked below it is stored, what every line ranked at or above   *)
(* it in the log says, in the cluster's own included, is stored for the    *)
(* cluster, and the row accounts for every line it was given.              *)
(***************************************************************************)
FloorIsExact ==
    \A f \in DOMAIN files :
        LET minimum == files[f].severity_filter
            source  == files[f].source IN
        /\ \A i \in OfFile(f) :
              Ranked(events[i].event.severity) => Above(events[i].event.severity, minimum)
        /\ \A k \in DOMAIN source.lines :
              Ranked(source.lines[k].severity) /\ Above(source.lines[k].severity, minimum) =>
                  \E i \in DOMAIN events : /\ events[i].cluster = source.cluster
                                           /\ Says(events[i].event, source.lines[k])
        /\ files[f].event_count = Cardinality(OfFile(f))
        /\ files[f].event_count + files[f].duplicates_skipped + files[f].severity_skipped
             = Len(Lines(source))

-----------------------------------------------------------------------------
(* Groups and leads.                                                       *)

\* Of the same node of the same cluster.
Beside(rows, p, q) ==
    /\ rows[p].cluster = rows[q].cluster
    /\ rows[p].event.node = rows[q].event.node

\* The row at q is the next one of its node after the one at p, and like it.
Continues(rows, p, q) ==
    /\ p < q /\ Beside(rows, p, q)
    /\ \A r \in (p + 1)..(q - 1) : ~Beside(rows, p, r)
    /\ rows[p].event.event_name = rows[q].event.event_name
    /\ rows[p].event.severity = rows[q].event.severity

Starts(rows) == {q \in DOMAIN rows : ~\E p \in DOMAIN rows : Continues(rows, p, q)}

\* What its node did from a start to the next start of that node.
RunOf(rows, p) ==
    {q \in p..Len(rows) :
        Beside(rows, p, q) /\ ~\E r \in Starts(rows) : p < r /\ r <= q /\ Beside(rows, p, r)}

AreRuns(ids, rows, groups) ==
    /\ Len(groups) = Cardinality(Starts(rows))
    /\ \A p \in Starts(rows) :
          LET group == groups[Cardinality({r \in Starts(rows) : r <= p})]
              last  == CHOOSE q \in RunOf(rows, p) : \A r \in RunOf(rows, p) : r <= q
          IN  /\ group.first_event_id = ids[p]
              /\ group.last_event_id = ids[last]
              /\ group.count = Cardinality(RunOf(rows, p))
              /\ group.last_time = rows[last].event.time

RowsAt(ids) == [k \in DOMAIN ids |-> events[ids[k]]]

(***************************************************************************)
(* The groups a scan shows are the runs of its corpus: an event is in one  *)
(* group, with the events alike next to it on its own node of its own      *)
(* cluster, whatever other nodes did in between; counts and spans are      *)
(* theirs; and a group comes where its first event came.                   *)
(***************************************************************************)
GroupsAreRuns ==
    scan.asking => AreRuns(scan.corpus, RowsAt(scan.corpus), scan.groups)

(***************************************************************************)
(* A candidate's leads are what the model was shown under the refs it      *)
(* answered with, whatever was ingested since, and are still true of the   *)
(* events they name (resolve_leads).                                       *)
(***************************************************************************)
LeadsStayTrue ==
    \A c \in DOMAIN candidates : \A k \in DOMAIN candidates[c].leads :
        LET lead  == candidates[c].leads[k]
            first == events[lead.first_event_id]
            last  == events[lead.last_event_id] IN
        /\ \E r \in DOMAIN candidates[c].refs :
              lead.ref = candidates[c].refs[r] /\ lead = candidates[c].shown[lead.ref]
        /\ \A event \in {first.event, last.event} :
              /\ event.node = lead.node
              /\ event.event_name = lead.event_name
              /\ event.severity = lead.severity
        /\ first.event.time = lead.first_time
        /\ last.event.time = lead.last_time
        /\ first.cluster = last.cluster

-----------------------------------------------------------------------------
(* Evidence.                                                               *)

Contexts ==
    [scoped : {TRUE}, cluster : Clusters \cup {NoCluster}] \cup {[scoped |-> FALSE, cluster |-> NoCluster]}

SeenNodes == {events[i].event.node : i \in DOMAIN events} \ {NoNode}
\* An answer holds the first of the wanted events, and all, if it does not say
\* that there may be more.
Whole(answer, wanted) ==
    LET given == {answer.ids[k] : k \in DOMAIN answer.ids} IN
    /\ given \subseteq wanted
    /\ ~answer.truncated => given = wanted
    /\ Len(answer.ids) <= MAX_RESULTS
    /\ \A i \in given, j \in wanted \ given : Before(i, j)

(***************************************************************************)
(* No tool passes another cluster's events off as evidence, nor a part of  *)
(* what there is for all of it, whatever filter, number and window the     *)
(* model asks for; what it says of a rate is counted over one and the same *)
(* cluster.                                                                *)
(***************************************************************************)
EvidenceIsWhole ==
    \A context \in Contexts :
        LET own == {i \in DOMAIN events : context.scoped => events[i].cluster = context.cluster} IN
        /\ \A filter \in Filters, limit \in Limits :
              Whole(query_events(filter, limit, context), {i \in own : Selected(i, filter)})
        /\ \A anchor \in DOMAIN events, asked \in Windows :
              \E window \in 1..MAX_WINDOW :
                  /\ window = asked \/ asked \notin 1..MAX_WINDOW
                  /\ Whole(get_event_context(anchor, asked, context),
                           {i \in own : Near(anchor, i, window)})
        /\ \A node \in SeenNodes, name \in {events[i].event.event_name : i \in DOMAIN events} :
              LET rate == get_event_rate_baseline(name, node, context) IN
              /\ rate.total_occurrences + rate.elsewhere_in_cluster =
                    Cardinality({i \in own : events[i].event.event_name = name
                                             /\ events[i].event.node # NoNode})
              /\ rate.days_seen_on <= rate.corpus_days

=============================================================================
