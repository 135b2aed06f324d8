# A TLA+ model of the ONTAP EMS log agent

The agent under `src/app` ingests EMS logs of storage clusters into one SQLite
file, lets a language model propose *candidates* over a corpus (Stage 1), waits
for a human to approve each one, runs an agent loop on the approved ones (Stage
2) and keeps *findings* that a human may dismiss. This directory holds TLA+
modules of that program, TLC runs of small instances, and TLAPS proofs.

Paths below are relative to `src/`.

## 1. Inventory

### Processes

* **FastAPI worker threads.** Every route is a `def`, so requests run in
  parallel on a thread pool. Each has its own SQLite connection (`app/api/deps.py`,
  `app/db/session.py`), committed when the handler returns, rolled back when it
  raises.
* **Background tasks.** An accepted scan (`runner.execute_run`) or investigation
  (`runner.execute_investigation`) runs in the same pool after its request was
  answered, with a `session()` of its own. Nothing resumes it after a restart.
* **The command line** (`app/ingestion/cli.py`), one `session()` per call.
* **A browser page.** One callback at a time, each up to its next `await`; requests
  are answered in any order, and an interval fires whether or not its last callback
  has come to its end.

The first three share one SQLite file (rollback journal, 10 s busy timeout, Python's
deferred `BEGIN` before the first write) and one watch directory.

### Components

| component | state | operations | what must be true |
|---|---|---|---|
| Stage 2 loop (`agent/graph.py`, `state.py`, `runner.py`) | `AgentState` channels, the usage sink, the candidate row | `load_context`, `investigate`, tools, `persist_findings`; completing or failing the candidate | no call past the budget; all that was billed is recorded; every conclusion is stored, and nothing else; it ends |
| Agent tools (`agent/tools.py`) | hypotheses, conclusion, trace rows | `record_hypothesis`, `conclude_investigation`, evidence tools | a status or category off the enumeration is never promoted |
| Findings and feedback (`agent/findings.py`, `db/repo_findings.py`, `db/repo_feedback.py`) | `findings`, `feedback` | store a hypothesis, a partial, a refutation; dismiss | one open finding per signature; what was dismissed is not raised again |
| Candidate gate (`services/candidate_service.py`, `api/routes_candidates.py`, `routes_findings.py`) | `candidates.status` | investigate, discard, dismiss | one decision, one task, per candidate; what a client was told stays true |
| Stage 1 (`agent/stage1.py`, `services/analysis_service.py`, `api/routes_analysis.py`) | `analysis_runs`, `candidates` | trigger, scan, pre-filter, complete, fail | a refusal is right; what is hidden from the user is known; costs are shown |
| Ingestion (`services/ingestion_service.py`, `ingestion/*`, `api/routes_files.py`, `routes_clusters.py`) | the watch directory, `files`, `events` | upload, fetch, scan, ingest | an event is stored once, a storm whole; nothing is half ingested; nothing is lost |
| SQLite sessions (`db/session.py`) | committed and working contents, locks | SELECT, write, commit, rollback, timeouts | (the ground the others stand on) |
| Corpus compaction (`agent/compaction.py`) | none | grouping, `resolve_leads` | a lead is what the model was shown, whatever is ingested meanwhile |
| Parsing (`parsing/`) | none | format detection, line parsing, year inference | a line keeps its moment; a file keeps its order |
| Severity floor (`severity.py`) | none | ranks, `partition` | one floor, applied by the cluster and again locally, loses nothing above it |
| ONTAP client (`ontap/`) | HTTP session | paginated walks with retries, read-only summaries | pages in order, none skipped; a partial answer says so; every read ends |
| Analysis page (`web/static/js/analysis.js`, `candidates.js`) | scope options and selection, the button, poll handles, the panel | select, trigger, poll, view, decide | one run is polled at a time and no interval is left over; the button comes back; cards catch up |
| Catalog, prompts, settings, pricing, other pages, scripts | read-only data, text, pages | reading | - |

### What is hard to test

1. **Check, then act, across connections.** The suppression check and the INSERT
   of a finding, `find_by_hash` and `insert_file`, `exists()` and `write_bytes()`,
   reading a candidate as pending and updating it.
2. **Long write transactions.** The first trace row of an investigation takes the
   write lock, which is then kept over model calls of many seconds; everyone
   else has a ten second timeout. Failing to write is therefore ordinary, in the
   handler that records a failure too.
3. **Stale reads.** A scan reads its corpus and the dismissals, calls a model for
   minutes, then counts and stores.
4. **Money.** A model call is paid for whatever happens to its answer.
5. **Stops.** A restart kills tasks half-way; only committed rows remain.
6. **Dates that are not there.** A bundle's lines carry no year, and their order,
   deduplication and windows all rest on the one that is guessed.
7. **Answers in parts.** A walk over pages fails in the middle, a tool is cut at a
   ceiling, one node name exists in two clusters: a part must not pass for the whole.

`PROJECT.json` lists these as hazards, each at its line, with the property that
would catch it going wrong or the reason why there is none.

## 2. Modules and how they correspond to the code

| module | models | one step is |
|---|---|---|
| `SQLite` | `db/session.py` and the database's locking as the code uses it | one statement, or the failure of one |
| `Findings` | signatures, suppression, open findings, dismissal: operators over a findings table | - |
| `Investigation` (EXTENDS `Findings`) | one Stage 2 run | a graph node, a tool call, a stored row, an ending of the runner |
| `BudgetedLoop` | what a Stage 2 run promises about money | a turn bought, a conclusion, the settlement |
| `CandidatePipeline` (EXTENDS `SQLite`, `Findings`) | the gate's requests and the tasks behind them, over one file | one SQL statement of one connection |
| `CandidateGate` | what the gate promises, one thing at a time | a decision, an outcome, a dismissal |
| `AnalysisRun` (EXTENDS `SQLite`, `Findings`) | Stage 1 requests and scans among ingestions, dismissals and investigations | one SQL statement or the model call |
| `Ingestion` (EXTENDS `SQLite`) | uploads, fetches, scans and ingestions over one directory and one file | one file operation or SQL statement |
| `Severity`, `YearInference` | `severity.py`; the year walk of `autosupport_format.py`: operators | - |
| `Corpus` (EXTENDS both) | parsing, the rows of an ingested file, the queries, the groups and leads of a scan, the evidence tools | a file, the beginning or the end of a scan |
| `PageFeed` | what a read of a paginated collection promises | a page, an ending |
| `PageWalk` | the event fetch and the state read of a cluster | one answer to one GET, or its retry |
| `ClusterState` (EXTENDS `PageWalk`) | the summaries of `cluster_state.py` and `get_cluster_state` | - |
| `AnalysisPage` | `analysis.js`, `candidates.js`, and of the server what they read | a callback from one `await` to the next, a click, an interval |
| `MC...` | small instances for TLC | |
| `..._proofs` | theorems and lemmas | |

Definitions keep the code's names (`route_after_tools`, `record_step`,
`insert_file`). Those named otherwise say in a comment what they stand for, and
`PROJECT.json` maps each to its lines.

**SQLite.** A connection holds nothing, an empty transaction, a shared lock, the
reserved lock, or the pending lock. Reads outside a transaction see the
committed contents of that moment; inside a write transaction they see its own.
A write gets the reserved lock if no one has it; it is refused at once if its
transaction has read, otherwise when the timeout passes. A commit waits for
readers. Each operation is therefore a pair of actions: the one that gets its
lock, and the one that does not (guarded by who may hold it that long).

**Investigation.** `pc` is the graph node about to run; `hyps` is
`state["hypotheses"]`, where a hypothesis is known by its position, since
`record_hypothesis` only appends. What the model says in a turn is a member of
`Turns`, what the turn costs a member of `TurnCosts`: the code constrains
neither. `supersteps` is LangGraph's counter against `recursion_limit`: it counts
the hidden `__start__` first, and is compared before each superstep and once more
before the graph sees that no node is left. `sink` is `usage_sink`. Exceptions
(`Raise`) may come from any node and from the write of a successful outcome
(`runner.py:104`); the write of a failed one (`runner.py:115`) and the commit of
either may be refused too, and then the session rolls back (`RollBackSession`) to the
findings it began with (`before`) and the row says `investigating`. `billed` is a
history variable.

**CandidatePipeline.** One connection carries one request and, if it is an
accepted investigate request, its background task; what a client may ask is part
of a workload, and it asks when it likes or never. The content of the loop is
free: any number of traced calls up to a bound, any results. `Slow` is the set of
connections that hold the write lock for longer than the timeout: those whose
task is between two trace rows. `AnswerEarly` is a response that leaves before
`get_db` commits.

**AnalysisRun.** An event is its file and its time, which is all that scopes
tell apart. `clock` gives out the timestamps that are compared
(`completed_at`, `created_at`); `StampDismissal` and `Dismiss` are two steps
because the timestamp is taken before the write. An investigation is present
only as something that holds the write lock and stores a finding. A file may be
ingested a second time, by a request whose list of pending files is old
(`IngestAgain`): its events only grow, and if it brings none its `event_count`
becomes 0 and no recent pull is that file any more (`pulled`, the order of the
ingestions that kept something). An answer of the model is a list of candidates, one
that a `Stage1Error` is made of, or JSON that is no object, which none is made of
(`CallModelNotAnObject`). `FreeRunsAreExplained` says which runs show no cost: those,
and the ones that fail while they store their candidates.

**Ingestion.** An event is its natural key (node, time, name, severity,
message), a content is a sequence of keys, a hash is the content. A file name
has an owner (a client, or the connection whose uuid or microseconds are in it)
and the cluster that `cluster_from_filename` would read from it. A fetch's file
grows event by event and may end early. `Drop` is somebody copying a file in.
`FirstFiles` were registered before and not ingested. A request's `queue` is the set
of ids it has still to ingest, taken earliest first (`Current`), as it was listed;
the file on the disk may have been written over, and the row ingested by somebody
else, since then. The events table has one entry per bulk insert: the file, and the
events at their places in it.

The properties say no more than that allows. A file of a stale list may be marked
failed although it has events (`services/ingestion_service.py:155`), or be stored
from what was copied over it (`db/repo_files.py:78` lists them once), so `NothingHalfIngested` is
about files that are being processed and pending ones, and `StormsAreKept` about the
contents a file of that name ever had. `NoEventFromTwoFiles` and `StormsAreKept`
hold of the second ingestion of a file as well: it finds its own events stored.

**Corpus.** A line is its fields, the `LINE_RE` it matches, and the moment it was
written: what the text of a bundle keeps of that moment is `Stamp` (a place in
the year and an offset), and `_assign_years` has to find the rest. The unit of
time is about a day; a year has nine, one of which exists only in leap years.
`ingest_file` is a whole ingestion in one step, because its steps and
transactions are the subject of `Ingestion`; here it is what the rows hold.
`severity`'s words are those ONTAP knows, two it does not, one that nobody ranks
and three spellings. A scan is two steps, `BeginScan` and `EndScan`, and files
arrive in between. The queries and the tools (`query_events`,
`get_event_context`, `get_event_rate_baseline`) are operators over the tables,
and their properties hold for every argument in every state. Whatever the code sorts
is `Sorted` (an order is a set of pairs), and what it filters out of a list is
`Ascending`; the two loops that carry something from one element to the next,
`build_compact_corpus` and `_assign_years`, are recursive functions (`GroupsOf`, which
gives the groups after each event, and `WalkOf`, which gives the year, the date and
the date after it at each line).

`DatesFollowTheFile` compares neighbours only in a file that is stored whole. When a
duplicate or a line below the floor is left out from between two rows, each of the
two steps past it may go back by the tolerance. `FloorIsExact` says that what a line
*says* is stored: an equal event may have come from another line, and the year of a
bundle's line is the subject of the other two. `GroupsAreRuns` describes the groups by sets of places
in the corpus (`Starts`, `RunOf`), without any of the code's bookkeeping.

**PageWalk.** `left` is urllib3's `Retry` of one GET (a total and a number for
statuses); it is fresh for each link. Links are arbitrary: a page may link to
itself, back, or nowhere. `pages` is a history variable, except that a state
read keeps the records. `Begin` refuses a host that does not match the pattern
and missing credentials before any request. `fetch_ems_events` stops when it has
`count`; `_get_all` when a link repeats. The collection does not change while it
is read. Of what is no page, a body that is not JSON ends a state read as every
failure does and a fetch with an exception; JSON that is no object (`NotAnObject`) ends
both with an exception, the verdict `lost`.

**ClusterState.** A record read is known by the page it came with and its place there
(`Items`), so a page read twice counts twice, as it does in the code. The place of a
record in a sorted list is how many come first (`First`), and the list is those that
fewer than `MAX_LISTED_ITEMS` come before. `CountsAreHonest` compares that with what
the cluster holds: `Held` are the records of the pages in every set that is closed
under the links.

**AnalysisPage.** `requests` is what is awaited, the oldest first: what each awaits
and what the function that does was called with. A list that can be old when it
arrives is read and arrives in two steps (`ReadList`, then the `await` returns); of
the other answers the page uses a status that only moves forward, and reading and
arriving are one step. `intervals` are the runs whose interval goes on;
`pollHandle` is the last one set, which is the one that `clearInterval` is called
with, whoever calls it. An interval of a candidate is in `candidatePolls` exactly
while it goes on, since a new one clears the old. `unseen` is a history variable.
A scope is a cluster and a mode; how many events it has and what a scan of it will
cost are texts of the page, so an ingestion changes the list only when it brings a
new scope.

**Abstract specifications.** `Investigation` implements `BudgetedLoop`
(`spent <- billed`, `turns <- iteration`, `account <-` the candidate row),
`CandidatePipeline` implements `CandidateGate` (its variables are the committed
columns), and `PageWalk` implements `PageFeed` (`given <- yielded`,
`count <- read.count`). The mappings are properties of runs, and all three are
theorems.

## 3. Runs

All are explored completely, with two workers, in a few minutes each.

| run | instance | question |
|---|---|---|
| `MCInvestigation` | turn caps 3 and 4 under a recursion limit of 9, cost cap 3, calls of cost 0 to 2, ten kinds of answer, two tables times three feedbacks to start from | is every loop within budget, complete and truthful, and does it end, whichever limit is reached first and whatever fails, its own record included? |
| `MCCandidatePipeline` | 3 connections; four workloads of investigate, discard and dismiss requests and the tasks of the accepted ones (the first makes up to 2 calls, the second 1, the third none; a result each of the first two), 1 crash, fair | do requests and tasks that meet decide once and store once, is what a client was told still true later, and does everyone finish? |
| `MCAnalysisRun` | 3 connections: scans of old, new and empty files, ingestions of another file and of the first again, dismissals, investigations; three replies and the unusable ones; 1 crash | does the pre-filter hide only what is known, do candidates come with their run, which runs show no cost, is a refused scan of a file one that had been done? |
| `MCIngestion` | 3 connections: an upload whose name is taken, a fetch, a copy, scans, ingestions; two files there before; 1 crash | is each event stored once and each storm whole, is nothing half ingested? |
| `MCCorpus` | two clusters, files that overlap, come late, are half junk or have a floor; bundles of two and three lines from every moment of a four-year cycle | are dates, floors, groups, leads and evidence true of the lines that came? |
| `MCOntap` | three pages, all ways they can link, three contents, fetches of 0, 2 and 3 records and state reads of four areas, bodies of every kind, fair | is what is said of an answer true, and does every read end? |
| `MCAnalysisPage` | two scopes, one that may arrive before the other in the list; two past runs with three candidates; up to three scans or three clicks among candidates, 3 requests under way, 1 failure, fair | is one run polled at a time, does the button come back, do cards catch up? |
| `MCCandidateStuck` | 2 tasks, no crash | **violated**: a candidate stays `investigating` |
| `MCAnalysisCost` | 2 connections, otherwise as `MCAnalysisRun` | **violated**: a run that fails to store its candidates is shown as free |
| `MCAnalysisFeedback` | as `MCAnalysisRun` | **violated**: a dismissal no scan was shown is not "new" |
| `MCAnalysisWindow` | scans of the sliding window, an ingestion | **violated**: a window is refused with events no scan saw |
| `MCIngestionLost` | an upload, a scan or the command line | **violated**: an upload is deleted as a duplicate of itself |

**Why the bounds are enough.** Two connections are needed for a race; a third
serves what happens after it. In `MCCandidatePipeline` the clients' requests are
a workload, chosen so that every kind of request meets an investigation and a
second of its own kind (any of them may be sent at any time, or never); three tasks are needed for one that cannot read,
since a second must have failed to write while a third holds the lock, and then
waits to commit. The task that makes no calls is the one that cannot read. Three turns and a cap of 3
with costs up to 2 reach each budget first, both at once and neither. A
recursion limit of 9 lets three full turns pass and not four, as 50 lets 23 pass
and not 24: only their relation matters. Ten answers contain what the routers
and `persist_findings` tell apart: no calls, evidence, a working, a misspelt and
a ready hypothesis, two versions of one, both outcomes, a contradiction, a
double conclusion. One crash is enough as `Crash` may come at any step and
nothing but the committed contents survives it. Two event keys make a storm and
an overlap. The scan window is one unit over times 0 to 2, so it can move past
an event.

In `MCCorpus` a year is short, so every newest moment of a leap cycle
is taken, with gaps from beyond the tolerance out of order to more than a year,
offsets of a unit either way, and ages from before the newest line to over two
years. Limits of one or two are passed by every list; what the tools are asked for
(`MCFilters`, `MCLimits`, `MCWindows`) has every field of a filter, numbers from none
to past the ceiling and windows below, at and past theirs. In `MCOntap` three pages
are enough for every shape of chain (a line, a loop through the first page, a
loop past it, a page that links to itself), with a short page, an empty one and
a full one. Nothing in `PageWalk` bounds a walk. Fetches of pages that hold nothing and
link to each other do not end in the code (section 5), and only these the constraint
`FewEmptyPages` of the run leaves after four pages; `ReadsEnd` says nothing of them, and
every other read ends by what the code compares.

In `MCAnalysisPage` a visit is one scan on a page just opened (with or without
anything to scan), up to three on one that has loaded, or two or three clicks among the
candidates, with or without investigations that go on already: the scan and the
candidates share no state on the page but the requests under way. Three of those
let a callback of one interval overlap the next one and a third function; an
interval that finds three waits. One failure comes anywhere; two can leave the
button disabled (section 5). A second scope that comes before the first is what
moves an index. In `Init` a page that has loaded stands for one opened earlier.

**Symmetry** over connections is used in the `AnalysisRun` runs and in
`MCIngestion`, where only safety is checked.

**Deadlock** is not checked: a bounded number of connections, files or reads do
one thing each, and then the system has stopped.

**Fairness.** `Investigation` has weak fairness of its next step: a started
background task keeps being scheduled. `CandidatePipeline` has weak fairness of
each connection's request steps and task steps: threads run and every lock wait
ends, by the lock or by the timeout of `session.py:17`. No fairness is given to
clients, to early answers or to crashes. `EveryoneFinishes` therefore says that
no set of requests and tasks waits in a circle. `PageWalk` has weak fairness of
its next step, since every request has a timeout (`client.py`, `cluster_state.py`):
it is answered, dropped or given up. None is given to any particular answer, so
`ReadsEnd` must survive a cluster that fails as often as it can. In
`AnalysisPage` the oldest request is answered or fails, intervals go on firing, and
runs and investigations end (what ends them is in other modules; one that stays
`running` is section 5's subject); nothing is asked of the user, and an answer may
fail as long as failures are left. `Ingestion`,
`AnalysisRun` and `Corpus` are checked for safety only.

### What each property would catch

A property is worth its run if a plausible mistake breaks it. Each module defines
such mistakes next to the definition they vary (`Faulty...`).

| property | broken by | which is |
|---|---|---|
| `OverspendIsOneCall` | `FaultyRouteWithoutCap` | `route_after_tools` forgets the cap |
| `StaysInBudget` | `FaultyRouteWithoutConclusion` | it goes on after a conclusion |
| `BilledIsRecorded` | `FaultyFailInvestigation` | a failure is recorded without the sink |
| `RecursionLimitUnreached` | `FaultyOutOfTurns` | `>` for `>=` |
| `ReadyNeverLost` | `FaultyRouteAfterInvestigate` | the last turn's calls are skipped |
| `WorkingNeverLost` | `FaultyFirstWorkingHypotheses` | the first version is kept |
| `ResultMatchesConclusion` | `FaultyKeepsPartials` | partials whatever was concluded |
| `OpenFindingsAreNew`, `DecidesOneAtATime` | `FaultyUnchecked` | no look at open findings |
| `Termination` | `FaultyEndTools` | the refusal of two updates of one channel is not caught |
| `UniqueOpen`, `NothingHalfCommitted` | `FaultyRecordStep` | a commit after each trace row |
| `OneTaskPerCandidate`, `AcceptedIsDurable` | `FaultyStillPending` | the UPDATE loses its `WHERE status = 'pending'` |
| `EveryoneFinishes` | `FaultyLoseRace` | the loser of a race tries again |
| `AutoSuppressedStaysKnown` | `FaultyDismiss` | the status without the feedback row |
| `CandidatesComeWithTheirRun` | `FaultyInsertCandidate` | a commit after each candidate |
| `FreeRunsAreExplained` | `FaultyFailRun` | the usage of `Stage1Error` is dropped |
| `FileRefusalsRight` | `FaultySameScope` | the scope key forgets the file |
| `NoEventFromTwoFiles` | `FaultyMarkProcessing` | no write before the look-up, so no lock |
| `StormsAreKept` | `FaultyDropAlreadyIngested` | what a UNIQUE index would do |
| `NothingHalfIngested` | `FaultyShowProcessing` | "processing" is committed at once |
| `ShortfallIsShown` | `FaultyEndIngest` | the note before the ingestion, which clears it |
| `DatesAreTrue` | `FaultyFits` | the jitter tolerance is dropped |
| `DatesFollowTheFile` | `FaultyAttempts` | four years are tried, which may hold no leap year |
| `FloorIsExact` | `FaultyAtOrAbove` | `<` for `<=` in the query of the cluster |
| `GroupsAreRuns` | `FaultyKey` | nodes of one name are one node |
| `LeadsStayTrue` | `FaultyResolveLeads` | refs resolved against a corpus read again |
| `EvidenceIsWhole` | `FaultyGetEventRateBaseline` | the fleet is counted without its cluster |
| `CountsAreHonest` | `FaultyListed` | trimmed, then sorted |
| `ImplementsFeed` | `FaultyEnough` | `>` for `>=` |
| `ReadsEnd` | `FaultyAgain` | each sort of retry resets the other |
| `NoIntervalLeaks` | `FaultyPollRun` | a new poll does not clear the old interval |
| `ButtonComesBack` | `FaultyEndPolling` | `runInFlight` is not reset at the end of a run |
| `CardsCatchUp` | `FaultyPolled` | no second poll where one is, and the first is stopped |

## 4. Proofs

TLAPS checks these for every value of the constants that satisfies the modules'
assumptions (which TLC evaluates on every run). The assumptions are types of the
constants, that a null is none of the values it stands beside, that the tables a
component starts from are ones the code could have left (no two open findings of one
signature; files that wait for ingestion, under names from outside), and, in
`AnalysisRun`, that there is a last timestamp to give out. Of the logs that arrive
`Corpus` assumes that they were written after the beginning of the calendar, that a
readable line is not called `unparsed.line`, that a cluster gives an event no severity
but those of its API, and that a clock is off UTC by no more than `_FUTURE_SLACK`: that
is what the slack is for (`autosupport_format.py:60-67`). Of a cluster `ClusterState`
assumes that its pages are finitely many and that a size is a number of bytes or not
known. Before it was proved, each invariant was checked by TLC on the run of its module.

**Lemmas that several proofs use** are in `Tables_proofs`. About findings: appending
keeps rows and keeps
what blocks a signature; a row that is not blocked keeps open signatures unique; a
dismissal takes nothing away that blocks. About one statement of one
connection: there is never a second writer (`LocksKept`), the file changes only to
what a committing writer has made of it (`OnlyCommits`), neither a writer nor a reader
in a transaction sees it change (`OthersIsolated`), and what a writer has before it is
what it had or has just written (`WriterMoves`). With the last two, an invariant about
a transaction (`TxnInv` below) need only be checked for the connection that makes the
step.

`Investigation_proofs`:

* `TypeCorrect`: `TypeOK`.
* `NothingUnbilled`, `OverspendBounded`, `SpendsWithinBudget`,
  `ImplementsBudgetedLoop` rest on `MoneyInv`: cost, sink and bill agree at every
  step; a model call is next only under all three bounds; the row is untouched
  until the end. The property `BilledIsRecorded` alone speaks of the end only and
  is not inductive. Its second case, an outcome that could not be recorded, is
  `BackInv`: the row is as the request left it, and no result is stored.
* `RecursionLimitHolds` rests on `SuperstepInv`: `supersteps` is at most twice the
  turns and two more between nodes. The property is about runs with
  `2*max_iterations + 3 <= RecursionLimit` only. The code fixes the limit at 50 and
  lets a setting choose the turns, so this is true of at most 23 turns; the run
  has a cap on either side of it.
* `ReadyIsStored` rests on `ReadyInv`: a ready hypothesis that has left the queue
  is blocked, by its own row or by what stopped it, and stays so.
* `FindingsAreNew` and `ResultsAreConclusions` rest on `ResultInv`: what the rows
  stored so far say about the hypotheses and the conclusion, and that neither
  changes any more.
* `WorkIsKept` rests on `WorkInv`: of the working hypotheses that
  `persist_findings` keeps, those that have left the queue are stored or covered.
  That each of them is the last version of its key, and that there is one, is
  `LatestExists` (of finitely many positions one is last).

`CandidatePipeline_proofs`:

* `TypeCorrect` rests on `BaseInv`: types, one writer at a time and which lock each
  point holds (`LockInv`), what a request is about (`TargetInv`), and that a
  working copy has no fewer findings than the file (`GrowInv`).
* `OpenFindingsUnique`: `UniqueOpen`. The argument is why the check-then-insert of
  `persist_hypothesis` is safe: a task with a trace row, even one that could not be
  written, is in a transaction (`HoldInv`), so its check and its insert see one
  state of the file (`Isolation`); what it checked is still true when it inserts
  (`CheckedInv`); so every working copy is unique (`UniqueInv`), and so is what is
  committed.
* `NothingHalf` and `GateImplemented` rest on `TxnInv`: what a writer has made of the
  file is, when it may commit, one whole request or one whole investigation of the
  rows that are committed now, nothing less and nothing of anybody else. A commit is
  then one step of `CandidateGate`, and every other step a stutter.
* `AcceptedOnce` and `AcceptedStays` rest on `AcceptInv`: a candidate is
  `investigating` for as long as a task of it runs, and it was `pending` when the one
  accepted request changed it, so that the `UPDATE ... WHERE status = 'pending'` of
  any other one matches nothing.

`AnalysisRun_proofs`:

* `TypeCorrect` rests on the locks and the place of each connection and on tables
  that only grow: a scan finds its run, a dismissal its finding.
* `KnownForEver`: `AutoSuppressedStaysKnown`. The rows a scan prepares were
  suppressed by what was committed, as it reads before it writes (`PrepInv`), and no
  transaction, up to its commit, takes back what stands in the way of a signature
  (`Keeps` in `TxnInv`): a dismissal puts into the feedback what it takes off the open
  findings.
* `OutcomeFirst`, and `CostShown` too, rest on `RunInv`: two accepted scans never have one
  run (`OwnRuns`), so that nobody else writes a run's outcome. A scan's candidates and
  its outcome are one transaction (`CandInv`).
* `CostShown`: `FreeRunsAreExplained`. A run that failed has the cost that the
  exception carried, so the proof is which step can raise one that carries none after
  the call.
* `FileRefusals`: `FileRefusalsRight`, although the code compares two counts. No
  transaction takes an event from a file, so of what the request counted and what the
  scan was given one contains the other (`RefInv`), and they are as many when the scan
  counted again what it had been given. Of a scan that its file outgrew this is not
  true, nor of a window (both in section 5).

`Ingestion_proofs`:

* `TypeCorrect` rests on `BaseInv`: one writer, the place of each connection, and
  that the working copy only adds to the file (`Grows`), so that an id in a queue is
  of a file for ever.
* `StoredOnce`: `NoEventFromTwoFiles` rests on `ApartInv`. A connection has written
  ("processing") before it looks up the keys of its cluster, so what it keeps is still
  new when it stores it (`Fresh`).
* `WholeOrNotAtAll`: `NothingHalfIngested` rests on `HalfInv`: only the writer's
  current file is ever "processing", in its working copy, and the writer has to store
  it or give it up before it may commit.
* `ShortfallStays`: `ShortfallIsShown` rests on `ShortInv`: the row that a fetch notes
  its shortfall on, in the same transaction, is in nobody's list, as no list taken
  before has it and none taken later finds it pending.
* `StormsStay`: `StormsAreKept` rests on `StormInv`: whatever is on the disk, in hand
  or stored was once in a file of that name, at the places it had there. That an event
  is not stored a second time from what replaced the file is `ApartInv` again.

`Corpus_proofs`, for all files in any order and of any length, all calendars, limits
and answers of the model. A theorem about a fold, or about what was sorted, rests on a
lemma that says without it what the result is: `Sorted` puts every element in one
place and an earlier one before a later one (`SortedFacts`).

* `TypeCorrect` and `FloorStaysExact` rest on `FilesInv`: the rows of each file are
  its kept lines in their order, and each of the kept lines has one (`Stored`); what a
  line says that was above the floor and not kept was stored for the cluster before
  (`Complete`). A fetch filters twice, once by name and once by rank; that the local
  floor drops nothing that the cluster let through and that has a rank is `Severity`
  by cases. Rows are never changed, so a file that arrives later disturbs neither.
* `LeadsAreTrue` rests on `ScansInv`: a waiting scan's groups, and every candidate's
  leads, are true of the events they name. They were when the groups were made, after
  each event of the fold (`GroupsAreGroups`), and events are only appended.
* `GroupsStayRuns` rests on `RunsInv`: the groups of a waiting scan are the runs of its
  corpus. After each event of the fold they are the runs of the events so far
  (`RunsTo`); the next event starts a run, or is the new last one of the newest run of
  its node (`BeginStep`, `JoinStep`), and changes no other. That the group it joins is
  the one found by its key is where a key without the cluster would fail.
* `EvidenceStaysWhole`, for whatever filters, numbers and windows the model may ask for
  (constants: a filter restricts any of the five fields, by any set of names), needs no
  invariant but `FilesInv`: that a prefix of a sorted
  set, cut at a ceiling, comes before the rest, and that the nodes of one name in the
  clusters asked for are counted once, here or elsewhere.
* `DatesStayTrue` and `DatesFollow`: `DateLine` tries years downwards and takes
  the first that fits. Along the walk, the year of the next attempt is one that it has
  just used or below it, and a date follows from each stamp, as five years hold a leap
  year (`WalkDates`, `WalkKnows`). If the conditions of `DatesAreTrue` hold, take the
  last line with a wrong date: the one after it (or the mtime) is right, the line's
  own moment fits, and by `NoLongGap` no later year does. `DatesFollow` needs no such
  conditions, because a line that does not fit with the first of the five years does
  with a later attempt.

`ClusterState_proofs`, for all collections, reads and numbers of retries; the first
three theorems are about `PageWalk`:

* `TypeCorrect` and `LinksAreFollowedOnce` (a state read follows no link twice) rest
  on one invariant `Inv`: where the URL of the next GET comes from (`Walking`: the
  first page, or the link of the last one that came), that nothing is kept when no
  page came (`NothingFromNothing`), and that every followed link is in `visited` and
  the one asked for is none that has come (`Tracked`).
* `WalkImplementsFeed`: `ImplementsFeed`. Each way a GET can end is either a page
  (`ArriveGathers`) or an ending whose verdict is fair to what came
  (`FailureIsFair`).
* `CountsStayHonest`: `CountsAreHonest` rests on `ChainInv`: the pages that came are
  the chain of links from the first (`Chained`), and a verdict is what their last link
  says (`Judged`). So they are pages that the links reach (`PagesReached`), none
  twice unless one links back to the first (`PagesOnce`), and after a complete read all
  of them (`AllPagesCame`): what was read is mapped one to one into, or onto, what the
  cluster holds (`CountsCompare`). A list that was cut is full, as no two records have
  the same number of records before them (`CutListIsFull`), and holds the fullest
  (`FullestListed`).

`AnalysisPage_proofs`, for any number of scopes, requests, clicks and failures:

* `PollsCanBeStopped`: `NoIntervalLeaks`, at most one run is polled, by the interval that `pollHandle`
  names. `FlightIsWatched`: while `runInFlight` keeps the button disabled, a run is
  being started or polled. `CardsArePolled`: a card that says "Investigating..." is in
  `candidatePolls`, unless a request about its run failed. They are what `ButtonComesBack`
  and `CardsCatchUp` need of the states, and rest on what each request under way is
  about (`RequestInv`).

**Only model-checked** is liveness (`Termination`, `EveryoneFinishes`, `ReadsEnd`,
`ButtonComesBack`, `CardsCatchUp`), which is beyond the prover. Every invariant,
action property and refinement that a passing run checks is a theorem.

**What the proofs changed in the models.** Three things were found by attempts that
failed. `DatesFollowTheFile` once spoke of neighbouring *rows*, between which a line
that was not stored can hide two steps back. `FloorIsExact` once asked for a row with
the very line of the log, where an equal event of another line, dated alike, makes
it a duplicate. And that one of the five years fits a newest line rests on a clock that
is off UTC by no more than `_FUTURE_SLACK`: further west, the year before the mtime's
may still look like the future. `IsFile` assumes it now.

## 5. Where the code and its words part

Five runs each end in a counterexample; `PROJECT.json` quotes the lines.

1. **A stuck candidate** (`agent/runner.py:115`). The write that records a failure
   can fail itself; nothing is left to change `investigating`.
2. **A free failure** (`agent/stage1.py:201`). Inserting candidates is outside the
   `try` that attaches the usage to the exception.
3. **Feedback that is never new** (`services/analysis_service.py:194`). A dismissal
   made during the model call is older than `completed_at` and was not shown.
4. **A window refused** (`agent/runner.py:42`). The run counts its scope again after
   the call, and two windows of one cluster are one scope.
5. **An upload lost** (`api/routes_files.py:97`). A scan registers the file the
   upload has written; the upload deletes it as a duplicate.

Seen while modelling and present in the models, without a run of their own:

* With 24 turns or more the recursion limit ends every full loop as a failure
  (`agent/runner.py:103`; the assumption of `RecursionLimitHolds`), at exactly 24
  after its findings have been stored.
* An investigation whose outcome cannot be recorded was billed, and its row says
  neither that nor that it ended (`agent/runner.py:104`, `:115`; the second case of
  `BilledIsRecorded`).
* An answer of Stage 1 that is JSON but no object raises an `AttributeError` outside
  both `try` statements (`agent/stage1.py:189`), and the run is recorded without its
  cost, though the comment at `stage1.py:160-162` says that each raise from there on
  carries it. `FreeRunsAreExplained` names the case (`CallModelNotAnObject`).
* A request with an old list of pending files may ingest a file again while a scan of
  it waits for its answer. The scan counts what that adds as considered
  (`agent/runner.py:42`) though it was not given it, and a later request for the file is
  told that all its events were analysed (`services/analysis_service.py:196`).
  `FileRefusalsRight` leaves these scans out (`Outgrown`).
* A loop that stops for lack of tool calls leaves no findings row
  (`agent/graph.py:325`), though `README.md:84` says every outcome is recorded as one.
* Of two ready versions of one hypothesis the first is stored (`graph.py:247`).
* `"Ready"` is lower-cased and promoted (`agent/tools.py:332`), which the comment at
  `tools.py:328` says it is not.
* A trace row that cannot be written is dropped (`db/repo_agent_steps.py:58`).
* A finding dismissed between the pre-filter's two SELECTs is found by neither, and
  the candidate stays pending (`agent/stage1.py:257`).
* If one file has only the beginning of a storm, the rest of it in the next file is
  dropped as already stored (`services/ingestion_service.py:93`; line 72 says only
  what a prior fetch already recorded is removed).
* A bundle renamed because its name is taken loses its cluster
  (`api/routes_files.py:82`).
* A known file that is copied over makes every later scan raise
  (`ingestion/watcher.py:115`); a scan during a fetch makes the fetch raise.
* A pending file ingested by two requests ends with an `event_count` of 0
  (`services/ingestion_service.py:145`).
* Requests for one scope that overlap are both accepted and billed, as only completed
  runs are compared (`services/analysis_service.py:188`).
* Two lines out of order within the tolerance, but across a New Year, are dated a
  year apart from what they were (`autosupport_format.py:60-67`), and an event with a
  wrong date may be taken for one that is stored.
* A bundle whose newest line is of January on a clock east of Greenwich, read while
  it is December in UTC, is dated a year low, since the walk begins in the mtime's
  year in UTC (`autosupport_format.py:115`); lines 106-110 name files more than a
  year old as the one failure mode. `DatesAreTrue` leaves that case out.
* A fetch of pages that hold nothing and link to each other does not end
  (`ontap/client.py:143`): `count` bounds the records, though `cluster_state.py:154`
  says that it bounds the walk. `ReadsEnd` leaves that case out (`Endless`).
* A body that is no JSON ends a fetch with an exception that is no
  `OntapClientError`, and what had come is thrown away; `routes_clusters.py:64-68`
  keeps it after every other failure (verdict `lost`).
* A body that is JSON but no object raises an `AttributeError` at `payload.get`
  (`client.py:145`; `cluster_state.py:157`, `:161`), which escapes from a state read too,
  though `cluster_state.py:17-21` says that nothing there raises and all failures come
  back as `available: False`. `CountsAreHonest` is about reads that do not raise.
* A page that links back to the first one is read a second time, since the first URL
  is not among the visited (`cluster_state.py:162`); the counts then exceed the
  total, though `tools.py:460-462` calls them a lower bound. `CountsAreHonest` leaves
  that case out.
* An offline volume whose size is unknown sorts last, so a full list trims it first
  (`cluster_state.py`, `_pct`).
* `get_event_context` finds its anchor in any cluster (`agent/tools.py`); its
  neighbours come from the investigation's own.
* A tool says its answer is truncated when it just fits (`_format_events`).
* A cluster asked for a floor leaves out events without a severity, a file of the
  same lines keeps them; and "info" in a bundle and "informational" in a fetch are two
  keys, so such an event is stored twice.
* What the Analysis page preserves across a refresh is an index
  (`web/static/js/analysis.js:138`), though line 136 says the selection: after an
  ingestion of a cluster that sorts earlier it is another scope, and that is what the
  next click scans.
* The cost in the hint is of the moment the list of scopes was read. An ingestion
  before the click changes how large the scope is, or which file `recent_pull` resolves
  to (`services/analysis_service.py:88`), and the scan costs something else than
  `analysis.js:162-166` shows before the button is pressed, and calls an estimate.
* A click before the options have loaded posts `{}`, a scan of the default scope,
  though `api/schemas.py:239` says that the UI always sends an explicit choice and
  `analysis.js:162` that the cost is shown before the button is pressed.
* A callback left over from one run clears the interval of the next one and resets
  `runInFlight` (`analysis.js:190`): nothing polls that run any more, and its button is
  enabled while it goes on. Two refreshes that both fail leave the button disabled.
* A candidate whose investigation has ended draws its own run's panel, although the
  user has chosen another (`candidates.js:157`); a panel whose request fails goes on
  saying "Loading...".

## 6. What is not modelled, and why

* Evidence rows of findings, prompt text, cache markers, costs in dollars: no
  control depends on them.
* In `AnalysisRun`: read timeouts, a session that cannot be opened, events without
  a time. In `Ingestion`: connections that cannot be opened, the time range that
  bounds `existing_event_keys` (it only leaves out keys that cannot match), the
  order of a scan (any order is allowed; the code sorts), events with no time, and
  parts of lines that a buffered fetch may have flushed.
* In `Corpus`: regular expressions and JSON, the texts rendered from groups and leads,
  the evidence rows, and the number of events and the pattern a fetch may be restricted
  to (`FloorIsExact` holds for the stretch of the log that a fetch covers). In `PageWalk`: TLS, headers, redirects, back-off times, and a
  collection that changes while it is read (pages are then what the cluster sent).
* `init_db`, which each session runs first on a connection of its own
  (`db/session.py:107-110`: the migration, the schema, the catalog, a commit). After the
  first session of a database it finds nothing to change.
* The catalog, the listing and search routes only read.
* Of the Analysis page: the option that is added when it is opened for one file, the
  table of runs, a card's links to findings, and texts, the hint with its sizes and
  costs among them, of which an older one may replace a newer. The other pages list what there is and poll nothing.

## 7. Plan

Written so far, in order: `SQLite`, `Findings`, `Investigation` with
`BudgetedLoop`, `CandidatePipeline` with `CandidateGate`, `AnalysisRun`,
`Ingestion`, the proofs of the first two components; then `Severity`,
`YearInference`, `Corpus`, `PageWalk` with `PageFeed`, `ClusterState`;
then `AnalysisPage`.

The proofs followed: first `Investigation`, the types and `UniqueOpen` of
`CandidatePipeline`, and `PageWalk`; then the rest of `CandidatePipeline` with its
refinement, `WorkingNeverLost`, and the safety properties of `AnalysisRun`,
`Ingestion` and `AnalysisPage`. Last came
`Corpus` and `ClusterState`, whose sorting and folding were first written so that they
could be reasoned about. Every safety property that a passing run checks is a theorem
now.

What is left: what the counterexamples of section 5 leave true. A window is
refused rightly when nothing was ingested while its scan ran; a candidate whose task's
last write succeeds does not stay `investigating`.
