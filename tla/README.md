# Kaizen in TLA+

Kaizen records what coding agents do. Agent hooks, transcript scanners and an
LLM proxy append *events* to one SQLite database per project. An incremental
projector turns the events of a session into *tool spans* and other derived
rows, an outbox carries redacted copies to a server, a daemon runs all of this
in the background, and reports, a search index, a terminal UI and a core loop
of rules and cases read it back. Paths below are relative to the repository;
the Rust code is under `src/`.

This directory models the parts of Kaizen that keep state: nineteen modules
for the components and an abstract specification, instances for TLC, and
proofs. TLC checks small instances; TLAPS proves the main invariants, and the
refinement of an abstract delivery specification, for every value of the
constants.

## 1. Inventory

| Component | State it keeps | Operations | What is hard | What makes it correct |
|---|---|---|---|---|
| Span projector (`store/projector*`, `store/tool_span_index/matching.rs`) | open spans of a session in memory, their stack, values already emitted, last seq | apply an event, flush a session, expire old spans | events in any order, hooks and calls that address one span, spans closed from the middle | open spans are one chain; nothing closes the wrong span |
| Event store (`store/sqlite/event_*.rs`) | events, tool_spans, derived tables, one projector per handle | append, hydrate, rebuild, flush | many processes on one database; one statement per transaction; memory gone stale | rows agree with the log whichever handle wrote them |
| Hook ingest (`shell/ingest*`, `collect/hooks/normalize.rs`) | sessions row (status, prompt fingerprint) | ingest one hook | seq and status are read and written in separate statements | status and rows fit the hooks |
| Scanner (`shell/cli.rs`, `collect/tail/`, `daemon/scanner_task.rs`, `store/sqlite/event_batch.rs`) | last scan and last prune in sync_state; a list of transcripts in hand | list, read tails, upsert session, append a batch, prune, mark | several scanners; agents that write meanwhile; budgets; shared seqs and rows; nested transactions | no scanned line lost, nothing rewritten |
| Transcript parsers (`collect/tail/*.rs`) | none between scans | number and turn lines into events | every agent has its format; a file grows between scans | the events of one scan are those of the next |
| Sync outbox (`store/sqlite/sync.rs`) | sync_outbox, sync_state | append, replace, prune, mark | rows replaced while they are posted | a row leaves only when delivered or withdrawn |
| Sync engine (`sync/engine.rs`, `sync/client.rs`) | batches in flight, retries | pack, post, split on 413, retry, mark | lost responses, crashes, racing flushers, strict exporters | at least once, in order, never stuck |
| Daemon (`daemon/`) | pid file, socket, job queue; captures, proxies, scanners | start, serve, stop, restart; ensure a capture or proxy | startup order, two daemons, check-then-act across an await | one daemon, one proxy per key, true answers, every command ends |
| Outbox migration (`store/sqlite/outbox_migration.rs`) | redb file, marker, SQLite rows | copy, verify, mark, rename | several openers, a kill between steps | nothing lost or doubled |
| Legacy rebuild and span trees (`store/tool_span_index/`, `store/sqlite/tool_spans.rs`) | rows; a tree cache per handle | rebuild, read a tree, limited trees | parity with the projector; stale caches | a forest by time; every row in its tree once |
| Full-text search (`search/`, `store/sqlite/session_search*`) | Tantivy directory, pending documents, a file lock per handle | index, commit, prune, reindex, query | two locks, uncommitted documents, racing prunes | what is stored is found, and only that |
| Terminal UI (`ui/tui/`) | two sparse windows, a reader thread, a refresh schedule | keys, requests, answers, pages | late answers, failing reads, a store that changes | the pane follows the cursor, no page is stuck |
| LLM proxy (`proxy/`) | sessions, events and llm spans | apply the policy, forward, find the usage, record | concurrent requests of one session | each call has its event and its span |
| Provider pull and remote cache (`provider/`, `store/remote_cache.rs`, `shell/remote_*.rs`) | cached events, time of the last pull | decide, pull, import, merge | events that arrive during a pull, failed pulls | reports miss nothing the cache should hold and add up |
| Experiments (`experiment/`, `shell/exp.rs`) | experiments, tags | create, start, conclude, archive, tag, report | commands at once | a tag that was reported stays |
| Core loop (`core_loop/`) | rules, cases, references, reviews, alerts | run rules, act, review, query | partial runs, commands at once, prunes | finished work is there, once |
| Guidance and evals (`metrics/report.rs`, `store/sqlite/guidance.rs`, `guidance/`, `eval/`, `collect/outcomes.rs`) | artifact use, evals, outcomes, candidates | index, judge, measure, score, propose, decide | views counted apart; a clock that runs on | report and score agree |
| Retro (`retro/`) | weekly reports | read inputs, run the heuristics, choose bets | sources, duplicates, earlier reports | a report holds the best bets, none repeated |
| Code metrics (`metrics/`, `store/sqlite/metrics.rs`) | snapshots, facts, edges, a graph file | fingerprint, analyse, save, enqueue, rank | saves without a transaction | a snapshot that is shown is whole |
| Hook parsers, extensions, registry, configuration, web, MCP, reports, CLI | files or none | conversions, bookkeeping and views | formats | out of scope, see section 5 |

Components interact through the database: hook processes, the daemon's worker
and scanner, the proxy, the commands and `kaizen sync run` each open their own
store handle. `append_event_inner` calls the projector and, with sync
configured, enqueues outbox rows, and last indexes the event for search; the
engine reads the outbox rows, posts them to the server and to the exporters,
and marks them. The daemon is reached through a socket; the search index has a
file lock of its own beside the write lock of SQLite.

## 2. Modules

| Module | Stands for |
|---|---|
| `SpanProjector` | the projector as pure operators, for one session |
| `EventStore` | several handles that ingest hooks into one database |
| `TranscriptScan` | scanners, agents that write transcripts, hooks and prunes |
| `AtLeastOnce` | the abstract promise of the outbox |
| `OutboxSync` | outbox table, producers, flushers, server and exporters |
| `Daemon` | daemon processes, the pid lock and socket, the worker, commands and hooks |
| `Supervisor` | captures, proxies and scanner loops inside one daemon |
| `OutboxMigration` | openers of the store that import the old outbox (extends `OutboxImport`) |
| `OutboxImport` | what that import does with the rows of both queues, and what it promises |
| `Experiments`, `CoreLoop`, `Guidance`, `Retro` | the commands on those tables |
| `ExperimentTags` | the table of tags and what must hold of it (`Experiments` extends it) |
| `TailParsers` | a transcript that grows and the parser that reads it again |
| `SpanTrees` | the legacy rebuild and the trees that handles read (extends `SpanProjector`) |
| `Search` | store handles next to the index and both locks |
| `SearchIndex` | the tables and the index as a search reads them, its queries, and what it must find (`Search` extends it) |
| `Tui` | app, reader thread, watcher, refresh and rating tasks (extends `TuiScreen`) |
| `TuiScreen` | the app, the answers on their way and the report worker, and what must hold of them |
| `Proxy` | concurrent requests of clients, next to hooks |
| `ProxyLog`, `ProxyCost` | the rows that calls leave and what must hold of them; what a call costs (`Proxy` extends both) |
| `ProxyUsage` | the recursive walk through an answer for its usage |
| `Remote` | commands that pull and merge, and a provider that goes on (extends `RemoteCache`) |
| `RemoteCache` | the provider, the cache of its events, and when a cache is complete |
| `Metrics` | commands that index a repository that changes |
| `Workspace_MC` | `Supervisor` (which it extends, with the promises of `OutboxImport`, `ExperimentTags`, `ProxyLog`, `SearchIndex`, `TuiScreen` and `RemoteCache`) and an instance of each of the other components from `OutboxMigration` on, but for `CoreLoop` |
| `EventStore_MC`, `TranscriptScan_MC`, `OutboxSync_MC`, `Daemon_MC`, `CoreLoop_MC`, `Search_MC`, `Retro_MC` | instances for TLC |
| `EventStore_proofs`, `TranscriptScan_proofs`, `OutboxSync_proofs`, `OutboxMigration_proofs`, `Daemon_proofs`, `CoreLoop_proofs`, `Search_proofs`, `Workspace_proofs` (`Supervisor`, `Experiments`, `Proxy`, `Remote` and `Tui`) | lemmas, theorems and their proofs |

### SpanProjector

A projector value holds `order` (the stack of open span ids), `span` (the
builder of each), `seen` and `last`. `Apply` is `Projector::apply`, with the
matching rules of `matching.rs`, `Close` is `remove_open` and `close_span`,
`FlushSession` and `Expired` are the two ways to orphan spans. Abstractions: cost and token totals roll up alike and are
one measure (`cost`); files, skills and rules are deduplicated alike and are
one kind of value (`path`); a synthetic span id is the pair of seq and time it
is built from.

### EventStore

`events`, `rows`, `touched`, `status` and `prints` are the database; `mem` is
the projector of each handle; `pc`, `job`, `base`, `todo`, `out` and `after`
are the control state of an ingest under way. Every SQL statement is one step,
since the code opens no transaction around an append. The path of one event:

    Begin -> SetStatus -> Load -> [ListLatest -> Hydrate*] -> Insert
      -> Write* -> ExpireOne* -> ExpireDone -> [Flush -> Write* -> Done]
    Insert of a late event -> ClearRows -> ListAll -> (ReplayOne -> Write*)* -> ReplayDone [-> Flush ...]

A Stop whose prompt files changed appends the note at `seq + 1` first and then
itself at `seq`, which makes it late and rebuilds the session. `Restart` drops
a handle between two hooks (a hook process lives for one hook); `Crash` kills
one in the middle. `ToolHookOrder` is an assumption on the environment: the
agent waits for the hook before a tool to return before it runs the tool, so
the hook after the tool comes later. Closing an expired span and writing its
row are one step, because no other handle sees the projector in between and
the row properties are stated for settled sessions. Left out: search
projection, span tree cache, extensions, legacy projector mode.

The row properties are stated for *settled* sessions: none of the handles is
working on the session and no crash cut an append of it short after its
insert. The code has no recovery from such a torn append (the next handle
hydrates past the event and drops its deltas); this is listed as a hazard.

### TranscriptScan

`lines`, `partial`, `mtime` and `born` are the transcript files, which agents
append to a line or half a line at a time; `log`, `row`, `lastScan` and
`lastPrune` are the database; `pc`, `now`, `since`, `todo`, `found`, `cur` and
`lastSeq` are the locals of a scan. One scan is

    Begin -> List -> Read* -> (Upsert -> ReadLast -> Batch)* -> Prune -> Mark

with a step for every read of a file and every statement or transaction that
another process may come between; `Abort` ends it anywhere. `Begin(p, TRUE)` is
`kaizen load`, which looks for everything and does not mark the scan. Scanners
are processes of their own (`--refresh` of a command) or the daemon's loop,
whose in-process lock keeps its own scans apart but no other process out.
Abstractions: the 256 KiB budget of a read is a number of lines; every line is
an event; a transcript belongs to one session; all sources are listed like
Claude's, the newest first, and the order among sources is left open; a hook is
one step, because `EventStore` has its statements; the rows of a prune and its
mark are one step, since a crash between them only prunes again. `BatchFails`
is the nested transaction of an append with sync configured and a sample rate
of 1.

A transcript is *covered* while scans owe it to the log: no hook uses its seqs,
it is younger than the retention, it changed within the first window, and it
is among the newest that one scan takes. What falls behind more than a tail
between two scans is lost by design, so the properties speak of the lines that
can still be read.

### OutboxSync

`outbox` is the table as a function from id to row, `lastId` its
AUTOINCREMENT counter, `work[f]` the batches flusher `f` still has to post.
Recursion on 413 is that sequence: both halves take the place of the batch,
the left one first. Every outcome of a request is a disjunct of `Post`, with
the outcome of the exporters next to it. Where a request ends without an
answer, or with a server error, the server may have stored the batch.
`"tool_spans"` stands for every kind whose pending rows are replaced, each
payload is a number of its own, and the limit on bytes is abstracted to "any
nonempty prefix of at most `BatchMax` rows". `Crash` also stands for a SQL
statement that fails. `broken` says that sync_state has a `last_error`.

`AtLeastOnce` is what the outbox promises: a payload leaves the queue only when
the server has it or its producer withdrew it. The mapping is `queued <- Queued`
(pending rows of posted kinds), `withdrawn <- Withdrawn` (payloads without a
row) and the server's `received`.

### Daemon

`proc[d]` says how far daemon process `d` has come:

    spawned -> locked -> restoring -> bound -> serving -> exiting -> gone

`lock` and `socket` are the pid file and the socket, `toRestore`, `captured`,
`queue`, `working` and `depth` the memory of the daemon that holds the lock.
`pc[c]`, `op[c]` and `call[c]` are a command or hook, what it wants and its
request: sent, (sending, queued, working,) replied, and then written, dropped
(the client gave up) or cut off with the process. `start`, `restart`, `stop`,
the ingest of a hook and `kaizen init` are the five commands. A status request
is one step, whose answer may also be a timeout. `Crash` kills a daemon or
fails a step of its start. The deadlines of a command are `GiveUp`.

### Supervisor

The inside of one daemon: `captures` is what it reports of each workspace,
`table` the proxies it keeps, `loops` the scanner loops, `running` the proxies
that really listen, `started` the handle a task has of the proxy it spawned:
the port, and whether the proxy's task has finished. Each request handler is a
task; a step ends where the code takes or releases the state's lock or awaits.
A start or a scan may fail, and a proxy may die at any time, also between its
start and the moment its handle gets into the table.

### OutboxMigration

Every read-write open runs the import: is the file there, read it, then in one
immediate transaction compare the marker, copy and mark, then rename the file.
Openers race, wait for redb's lock on the file, and may be killed between any
two of these; another process may enqueue rows once the import has committed.
`OutboxImport` has the data side: `Reconcile` keeps a pending row of the table
(`Unmatched`) if the file replaces no rows of its kind and owner and has fewer
rows like it than there are pending up to it, which is what the code's counters
come to. A queue is a sequence, and a choice of its rows a set of places (`At`).

### Experiments, CoreLoop

One row of `experiments` and its tags, changed by commands whose reads and
writes are statements of their own. `CoreLoop` keeps one table for cases,
reviews and alerts (they differ in `table`), the references of cases, the
rules, and the events and verdicts that queries look at; a run of rules is a
list of hits that a command works off item by item, each with an insert, a read of
the row by its key and, for a case, a reference under the id that was read; it may
be killed in between. `acted` is history, what a command has taken up, and `finished` what
the commands that ended well had. `Hits` is the query side, a filter of the log
cut at `Limit`, with the conversion of `u64::MAX` to a signed
integer (`AsI64`).

### TailParsers, TranscriptScan

`TranscriptScan` has the scans and takes a line for an event; `TailParsers` has
the parsers, one transcript and scans that are exact. `files` is what the agent
has written, with half lines and blank ones; a parser decides which lines count
for a seq, how many events a line makes, and which files belong to a session.
The log keeps what earlier scans stored.

### Retro

`Inputs`, `AllBets`, `Available` and `SelectGroupedBets` are the computation of
a report: the inputs by data source, the heuristics of `retro/heuristics/`, what
earlier reports took, and the choice of the bets, as operators over a window of
events. Commands compute, look for what earlier
reports proposed, and write the report of the week. Thresholds are collapsed
(`Many`, `Apart`), since no property depends on their values.

### SpanTrees

Extends `SpanProjector`. In the incremental mode the writer keeps a projector in
memory (`open`), expires spans after each append (`Appended`) and drops its tree
when an append changed rows; an event below the last seq clears the rows and
replays the log (`Replay`), with one flush at its end if the session is done, and
drops the tree only if the replay emitted anything, as the code does. The legacy
mode (`KAIZEN_PROJECTOR=legacy`) loads the
events of the session after each append, builds the spans from nothing, finds
parents with a Fenwick tree, sums totals from the deepest span up and writes
row by row. `Orders` is every order the hash map may give spans that tie.
`SessionSpanTree`, `QuerySessionSpanTree` and `LimitedSessionSpanTree` are the
readers, each with its cache.

### Search

`searched`, `stored` and `prompts` are the tables of sessions, events and first
prompts of SQLite and `locked` its write
lock; `documents` are the committed ones of the index, `readable` and `dirty` the states of
the index, `writer[h]` the writer of a handle with its pending documents and
`doing[h]` what it does. A writer belongs to a directory (`dir`); one whose
directory a rebuild has removed commits nothing that a search finds, also if it is
the writer of another rebuild. An append inside a scan keeps the write lock of SQLite
while it waits for the writer's lock. A query is parsed, its filters joined and
matched (`Matches`). Three history variables say what a search need not be right about, and no more
than that. `excused` has the events whose documents a fault (a kill, a failure to
index) or the removal of the directory lost; `overtaken` the stored events whose
documents a prune deleted, or kept from being made, because their session came
again between the deletion of its rows and the deletion of its documents;
`raced` the sessions that were pruned while another handle had their events in
hand or rebuilt, or whose documents the prune could not delete. An event leaves
the first two when its document is committed again.

### Tui

`app` is the whole state of the interface, with its two sparse windows
(`sessions` and `events`: pages kept, in flight, generation), `reader` the
thread that answers `Request`s one at a time, `responses` the channel back,
`wal`, `refresh` and `reportTask` the watcher, the refresh schedule and the task
that computes ratings. A key is an action. Drawing requests the pages that are
missing, as in the code, and is part of the loop. `TuiScreen` has what its
properties speak of: `app`, `responses`, `reportTask`.

### Guidance

One clock, sessions with their events, the index of the events that name a
skill or rule, the judgements, and the candidates. `GuidanceReport`,
`ReadProfile` and `BuildScore` are reads of several statements; what is
written between them sets `raced`, which excuses the view.

### Proxy

A call is received, its body shortened by the policy, forwarded, and answered;
the usage is found by the walk through the JSON (or its event stream), priced,
and recorded statement by statement: session, next seq, event, span. Hooks
append to the same sessions meanwhile. `overlapped` names the calls whose append
another one overlapped. The walk is recursive, so it stands in `ProxyUsage`, and
`Proxy` takes it as the parameter `FindUsageInBody`; `Workspace_MC` gives it.

### Remote

A command decides whether the cache is fresh, pulls one page, imports it row by
row, marks the pull, and reports the local numbers, the cached ones or both.
The provider gets events while this goes on. The summaries and their merge are
operators. `whole` says that the last marked pull stored all it got.
`RemoteCache` has the state that "fresh" is about (`provider`, `remoteEvents`,
`pullState`, `whole`) and what a fresh cache must have.

### Metrics

`Nodes`, `Fact`, `ResolveImport`, `Index` and their neighbours are the analysis
of files, a file being a small syntax tree. A command takes a fingerprint,
looks for a snapshot with it, reads the files and the history, writes the graph
file, and saves the snapshot with a statement per row; `Enqueue` cuts it into
chunks for the outbox. `meant` is history: what the last save of a snapshot was
to write.

### Workspace_MC

The supervisor and the eleven components after it, but for the core loop, meet
only through tables whose other side is in one of the larger models.
`Workspace_MC` extends the supervisor and instantiates each of the others with
variables of its own; `part` is chosen at the start and says which of them runs, the rest
stands still. Some components have a second instance with other bounds (the
names with "in time", "fails", "rebuilt", "rebuilt twice", "without git", "at
once"). A property
of the run is the property of the same name in the component, restricted to
its parts; `SpansAreShown` joins two of `SpanTrees`, and those of the
supervisor hold in every part, because it rests in its first state in the
others.

## 3. Runs

| Run | Shows | Bounds |
|---|---|---|
| `EventStore` | well-formed projectors, complete rows and derived values, memory that agrees with the log, real parents | 2 handles, 2 calls of 2 tools that overlap, a Stop, TTL 1, one crash |
| `EventStore_Rebuild` | when hook events bracket a tool and late events rebuild the session, a rebuild restores every row | 2 handles, 5 hooks, prompts may change |
| `EventStore_StopRace` | violation: a call with its result in the log never gets a row | 1 call, prompts may change |
| `TranscriptScan` | no line falls out of the window unstored; the log is append-only | 2 scanners, 1 transcript of 2 lines, 1 hook event, times 0..2 |
| `TranscriptScan_Live` | liveness with a budget of one transcript per scan: every readable line gets stored | 1 scanner, 2 transcripts, 1 abort, times 0..2 |
| `TranscriptScan_Sync` | violation: with sync configured no line gets stored | 1 scanner, 1 transcript |
| `OutboxSync` | order, strict export, the refinement of `AtLeastOnce`; liveness: every payload leaves the queue | 2 flushers, 2 payloads, batches and replacements of 2, 1 retry, one crash |
| `Daemon` | one daemon, behind the socket; the queue depth; true answers; captures; restarts; liveness: every command ends | 2 clients, 3 daemon processes, 2 workspaces, a queue of 1, one crash |
| `CoreLoop` | what a finished command had to do is there, once, with its reference | 2 processes, 2 commands, 1 rule, 1 session, 1 event, 1 verdict, times 0..1 |
| `Workspace` | the properties of the twelve components below | see below |
| `Search_Lock` | violation: a scan waits for ever for the search lock | a worker that keeps its handle, a scanner |
| `Retro_Repeats` | violation: a bet of an earlier report comes up again | 1 command, 2 weeks |

The properties of `Workspace`:

| Property | Says | Bounds of its component |
|---|---|---|
| `TableIsRight`, `CapturesGetHealth` | a proxy the daemon keeps is reported, once, and listens unless its handle has finished; "pending" is shown only while a request is to scan | 2 tasks, 1 workspace, 2 ports, 1 failure |
| `ImportIsExact` | the import is there once, in order, whoever was killed | 2 openers, at most 2 + 1 rows, 1 kill |
| `ReportedTagsStay` | a reported tag is the session's tag for ever | 2 commands and one session; 1 command with a clock |
| `LogIsTheTranscript` | after each scan the log is the transcript | every agent, 4 kinds of line, 3 lines |
| `ReportsHoldTheBest` | a report is the best 1 + 2 + 2 bets | 5 windows of up to 7 events, 2 weeks |
| `SpansAreShown` | rebuilt rows are a forest by time and equal the projector's where spans nest; trees lose no row, and the writer keeps no old tree of the last seq but for one named case | 5 events of 2 tools, one of them late, a TTL of 1, writer and reader |
| `ScreenIsFed` | the pane follows the cursor; no page or report waits for nothing | 2 sessions, a failing read, a key, a write |
| `SearchIsRight` | with nothing under way, what is stored is found, and only that, but for the losses named under Search, and a session has its first prompt | 2 handles, 2 events and 1 fault; 2 events and 1 rebuild; 1 event and 2 rebuilds |
| `ReportsAgree` | report and score count the same sessions; local, cached and merged reports add up | 2 sessions, 1 artifact, times 0..3, 1 write; 2 commands |
| `CallsAreLogged` | a recorded call has its event and span, with its usage and price | 2 clients, 2 calls, 1 fault |
| `FreshCacheIsComplete` | a fresh cache holds what the provider had | 2 commands; 1 command and 1 failure |
| `SnapshotsAreWhole` | a saved snapshot is one index, whole | 2 files and a change; 2 commands and a kill |

Why the bounds are enough to be interesting. Two handles are what a stale
memory or a lost race takes; a third repeats the part of one of them. Two
calls of different tools give every way to nest, overlap and close from the
middle, and with TTL 1 the times 0, 1 and 2 put spans on both sides of the
expiry. `HydrateMax` 5 covers the whole log, so that these runs speak about
stale memory and not about the window. Each hook is fired once; every order
that `ToolHookOrder` allows is taken. Two payloads in batches of two give a
batch that is refused as too large and splits, rows that another flusher reads
while the first has them in hand, and a replacement while both are on their
way. Two scanners of one transcript take every race of a mark, a read and
a batch; two transcripts with a budget of one take the choice of the newest.
`Overlap` 0 is the hardest case for the window: a larger one only keeps lines
in it longer, which the proof covers. With `HotTime` and `PruneInterval` 1 and
times up to 2 a prune falls due in the middle of a scan. `MaxFailures` 1 in
`OutboxSync` takes a retry and the error after it, which is final. One event
and one verdict make a hit, a mined item and an alert in `CoreLoop`, and two
processes that both work on them while sessions come and go. The proofs cover
every bound. Three daemons are the one
that is replaced, the one that replaces it and a second one that lost the race
for the lock; a queue of one makes the second job wait in `send`. In the
components of `Workspace` two processes take every race of the two statements
between which the hazard lies, and one fault or kill every place of it; the
components differ in what else has to be there twice (lines, files, sessions,
weeks), and the table names it.

Deadlock is checked in the `EventStore` runs, where `Restart` is always
possible for an idle handle, and in those of `TranscriptScan`, where an idle
scanner may begin again; it is not checked for the outbox, which may stop
when its payloads are used up, for the daemon, whose clients run one command
each, nor for `CoreLoop`, `Workspace`, `Search_Lock` and `Retro_Repeats`, whose bounded
inputs end.

### What the violations say

- *StopRace*: handle 2 begins a Stop at seq 1 whose prompts changed, so its
  note goes to seq 2. Handle 1's tool call takes seq 1. Handle 2's projector
  applied the note and is at seq 2, the last seq; it counts as up to date and
  never sees the call. The Stop conflicts at seq 1 and is dropped. The call's
  result, ingested by handle 2, closes nothing, though `docs/datamodel.md`
  promises a row at the result.
- *Sync*: `append_scanned_event_batch` opens a transaction; with sync
  configured the first new event in it calls `replace_outbox_rows`, which begins
  a transaction of its own. SQLite refuses, the batch rolls back, the scan ends
  without its mark, and the next one meets the same batch.
- *Search lock*: the daemon's worker keeps its store handles, and a handle that
  indexed an event keeps the writer's lock on the index. The daemon's scanner
  opens a transaction, appends, and waits for that lock with the write lock of
  SQLite in its hands. Neither is ever released; each later hook of the worker
  fails after `busy_timeout`.
- *Repeats*: the fingerprint of a bet is looked for where `render_bet` does not
  write it, so no earlier bet is ever recognised.

### What else modelling showed

No run asks for these; each was met while a definition was translated, and the
model does what the code does.

- Events: a prune between the upsert of a session and the batch that follows
  leaves events without a session row, which no later prune finds. The status
  that a rebuild reads at its end (`event_projector.rs:51`) may be of a hook
  that came in between.
- Sync: `post_with_fanout` accepts a feedback batch without a request
  (`sync/engine.rs:245`), so feedback counts as sent.
- Parsers: `copilot_vscode` stores its record under `vscode-{id}` and its
  events under `{id}`; totals of a `goose` session repeat with each scan; an
  earlier file of a session directory that grows shifts the seqs of later
  files; three parsers match the workspace by the last `cwd` of the tail.
- Experiments: `docs/experiments.md:91-92` calls decisions sticky, and
  `exp report` passes no earlier decision on.
- Core loop: `Meta::bad_feedback` and `Meta::bad_eval`
  (`core_loop/query_meta.rs:37,45`) bind `u64::MAX`, which arrives as -1, so
  `feedback_label:bad` and `eval:bad` match nothing, though
  `docs/usage-observe.md:50-61` uses them. A run takes the oldest 100 hits
  only.
- Retro: the ids of H18 to H22 contain measured numbers; the output of H4, H10
  and H16 depends on the order of a hash map (`docs/retro.md:9` says
  deterministic); `--source mixed` counts synced events twice.
- Legacy rebuild: two legacy writers may mix their rows; a reader's tree stays
  stale after a rebuild below the last seq.
- Span trees: `replay_projector_session` clears the rows of a session whatever
  follows, and drops the cached tree only if the replay emits something
  (`event_projector.rs:43,62-64`). A call without a path that was orphaned by its
  TTL has a row; a late event below the last seq clears it, the replay, which
  expires nothing, emits nothing, and the handle that did it goes on to show the
  old tree, though the test at `store/sqlite/tests/events.rs:149` is named for a cache that an
  append invalidates. `OwnTreeIsFresh` has this as its one exception.
- TUI: a resize changes the page size (`view/event.rs:73`); a gap at the start
  of a page, or a store that keeps failing, makes requests and redraws without
  end; the number of pages and their rows are two reads.
- Search: filters are joined with AND and bind only to the last word of an OR
  (`search/reader.rs:71-82`); `search_dirty_ms` is never read; a reindex
  removes the directory under other writers, also under another reindex, whose
  last documents are then lost. A prune deletes rows first and documents by
  session id after that (`maintenance.rs:85-92`): a session that comes again in
  between is stored and cannot be found.
- Guidance: a proposal looks at the last 5 rejections only, so a rejected one
  comes back after five others; proposals of a model skip that check;
  `set_status` accepts every transition, though
  `specs/guidance-candidate.qnt` orders them; outcome measurement reads the
  pipes of a command after it has ended (`collect/outcomes.rs:96-152`).
- Proxy: two requests of one session that read the same seq leave one event
  and the other one's span; a nested `usage` inside `content` overrides the
  real one; a client that disconnects leaves no record; the proxy may write
  its own agent over that of a hook's session row.
- Remote cache: `core/data_source.rs:14` and `specs/observe-pipeline.qnt` say
  that mixed reports drop duplicates, and `remote_observe.rs` adds;
  `remote_cache.rs:2` says one transaction, and the import writes row by row,
  with failures that still mark the pull; the cursor is stored and ignored.
- Metrics: a save that is killed leaves a part of a snapshot that later runs
  take for the whole; the fingerprint is taken before the files are read, and
  outside Git it is of lengths only; relative imports take the first candidate
  path without normalising it.

### Fairness

In `TranscriptScan`, `FairSpec` gives each scanner weak fairness of beginning a
scan and of its steps: the daemon's loop scans again whatever came of the last
scan (`scanner_loop` only records the result), and no step waits for another
process. Aborts are finitely many, time, hooks and agents get no fairness.

In `OutboxSync`, `FairSpec` gives each flusher weak fairness of starting a
flush, marking and recording success: `kaizen sync run` loops for ever and
these steps wait for nobody. It gives strong fairness of "the request is
accepted and the exporters take it": a request may fail any number of times,
but a server that is asked again and again is assumed to accept again and
again. Nothing is assumed of producers or crashes. A server that refuses one
row for ever does block the queue; this is the code's design and a listed
hazard.

In `Daemon`, `FairSpec` gives weak fairness to the steps of each daemon
process, of the handler of each request, of the worker thread and of each
command: they are threads and tasks of live processes, which the scheduler
runs. Crashes, new commands and timeouts get none, with one exception: the
deadline of `wait_until_stopped`, which the code checks in each round of its
loop, and which is needed because a second daemon may answer all the while. A
request itself has no deadline in the client; that commands end is due to the
socket being cut off with its process.

In `Search`, `FairSpec` gives each handle weak fairness of its next step: a
thread that can go on does. A handle that waits for a lock has no step, which
is the point of `Search_Lock`.

## 4. Proofs

All theorems are proved with TLAPS from the assumptions `NoneAssumption`,
`StoreAssumption`, `ScanAssumption`, `OutboxAssumption`, `DaemonAssumption`,
`SupervisorAssumption`, `CoreAssumption` and `RemoteAssumption`, which TLC evaluates on the runs; a
theorem that needs more says so in its hypotheses (`Tame`, `[]Fits`,
`SearchConstants`, `Bounds`, `IsFiniteSet(Clients)`, `ExportsAreKnown`,
`ScreenParameters`).

**EventStore.** `IInv` is `TypeOK`, `ControlOK` and `ProjectorsWellFormed`.
`WellFormed` is about one projector: the stack lists exactly the open spans,
each once; the i-th has depth i - 1 and the one below it as parent; each has a
start and no end. The first part of `EventStore_proofs` shows operator by operator that
`Put`, `Detach`, `AddChild`, `Close`, `ApplyCall`, `ApplyResult`, `ApplyHook`,
`Apply` and `FlushSession` keep types and well-formedness, and that the deltas
they emit have their type. The hard one is `Detach`: taking the k-th span off
the stack hands its parent to the next one and lifts all above. `ControlOK`
is needed because a step takes the head of `job`, `todo` or `out`, which must
be there. Then comes one lemma per action. Results: `TypeCorrect`
(in particular, a persisted row is done or orphaned) and
`ProjectorsAlwaysWellFormed`, for any number of handles, sessions and hooks.

`DerivedRowsAreComplete` takes a second invariant on top of that one. Derived
rows are only complete for settled sessions, and an append takes many steps to
settle, so `PathsOK` says who owes what is missing: a path that the log of a
session knows, or that the dedup cache of a handle holds, has its row, or some
handle has the delta still to write, or is rebuilding and has an event with the
path still to apply, or has inserted a late event for which the rebuild has yet
to begin (`Owed`, `HandleOK`, `SessionOK`). The cache is the subtle
part: a path in the cache of any handle is never emitted again by it, so the
handle must know that another one owes the row. A crash in an append makes the
session `torn`, which the property excepts; an idle handle owes nothing
(`NoDebt`).

The last part of `EventStore_proofs` proves the other four row properties. They
compare tables
and memories with a replay of the log from its beginning, so the argument is
about order: a handle that reopens a session replays the same events without
expiring anything, a handle that lives on has expired some of its spans, and the
next result without an id closes whatever each has on top of its stack. `Under`
says that one projector has some of the spans of
another, with the same tools and in the same order, and `UnderApply` that an
event keeps it so, and that what the larger one closes the smaller one closes
too or no longer had. `RowsInv` compares each handle with the replay up to the
event it applied last (`At`, `Pos`): what it has open lies under the replay
(`ViewOK`); what the replay has open and the handle has not, has its row, or a
handle is about to write it (`Covered`, `HasRow`); so has every span that the
replay closed at some event, and every span that it had open at a Stop, unless
the handle that stored the Stop has yet to flush it (`WillFlush`); and a parent
that a row names, or a delta on its way, has its row or is open in the replay
(`Real`). It also needs that nobody else is about to store an opener that is
stored (`IdsOK`), that a handle which stores the next event has applied all
events before it, and that nobody rebuilds (`JobOK`). `Projection` is a recursive
function, and facts about each of its values follow from a least counterexample
(`LeastNumber`) in place of an induction. Results: `ClosedCallsAreRows`,
`UpToDateMemoryIsAlwaysRight`, `StoppedSpansAreRows` and
`RowParentsAreAlwaysReal`, for any number of handles, sessions, hooks, restarts
and crashes, under two conditions that the run `EventStore` meets:

- `Tame`: calls and hooks around tools have ids, no two of them open the same
  span, and no Stop finds changed prompts. Results may come without ids, and in
  any order. The condition is needed, as small instances for TLC show. With
  prompt changes a late event is inserted while another handle appends
  (`EventStore_StopRace`). An id that is opened again after its span expired
  stands on top of the stack of the handle that expired it and at the bottom in
  a replay, so a result without an id closes different spans in the two, and
  three of the properties fail. A hook before a tool and a call, both without
  id, are one span or two, which depends on what has been expired, and
  `UpToDateMemoryIsRight` fails.
- `[]Fits`: the log of a session never outgrows the hydration window (512
  events in the code). With a smaller window a handle that reopens the session
  does not know the spans opened before it and drops their results, the hazard
  listed at `event_projector.rs:4`; `ClosedCallsHaveRows`,
  `StoppedSpansHaveRows` and `RowParentsAreReal` fail.

**TranscriptScan.** `NoRecentLineSkipped` speaks only of `lastScan`; a scan
under way must not be allowed to break it when it marks. `IInv` adds: times are
in order (`TimesOK`); records in hand are of written transcripts and of lines
they have (`RecordsOK`); the log of a session without hook events
has only lines, and a line still readable below a stored one is stored
(`LogOK`); the last seq a scanner read has no unstored readable line below it
(`LastSeqOK`); and each covered transcript unchanged since the scan began is
stored or in the scanner's hands, with every line that can be read (`HandsOK`).
The last is preserved by `List` because of a counting argument (`ListFinds`): a
covered transcript that the budget leaves out would have more than `MaxRecent`
as new as itself. Covered transcripts come only from covered ones or from a
write, which puts them at the top of the window (`CoveredBack`). Results:
`TypeCorrect`, `NothingSkipped` and `LogIsAppendOnly`, an action property (what is
in the log is changed by no step, and goes only with a whole old session), for any number of scanners and transcripts
and any budgets and windows. `Synced` may have either value: a batch that
fails loses no line for good, it only never stores it.

**OutboxSync.** `DeliveredInOrder` is not inductive: it says nothing of the
rows a flusher still remembers. `IInv` adds, for every flusher, that each item
of its batches names the row it was read from or one that is gone (ids are
never used again, and a row's payload equals its id in the model, because both
are counted alike), that a batch about to be marked was received and, with
strict exporters, exported, and that every older row of a posted kind is
received or stands in the same or an earlier batch of the same flusher. The
last part is what makes a racing flusher and the split on 413 harmless.
Results: `TypeCorrect`, `InOrder`, `StrictExport`, and `OutboxKeepsPromise`,
the refinement of `AtLeastOnce`.

**Daemon.** The invariants are seldom inductive alone: that a request is with
the daemon that listens needs the lock, the count of jobs needs to know which
request the worker has, and that a restart replaces its daemon needs to know
what became of the one it found. `IInv` adds to the properties: a request that
can still be answered is with the daemon that listens (`CallsOK`); the requests
that are jobs are finitely many, and the worker has one of them (`JobsOK`); a
command sends its request before it waits, and only a restart goes on to start a
daemon after it (`ClientsOK`); a hook that was ingested has got past the worker
(`StoredOK`); the daemon that a restart found still runs or is gone, and gone
once it starts another (`RestartsOK`); and a registered workspace is still to be
restored, captured, or owed by a `kaizen init` that has not succeeded
(`CapturesOK`). The hard step is `Die`, which takes requests, jobs and memory
away at once: only the holder of the lock has any (`DieInv`). Results:
`TypeCorrect`, `Reachable`, `DepthRight`, `RepliesAreTrue`, `CapturesAreKept`
and `RestartsReplace`, for any number of processes, commands, workspaces and
and crashes and any capacity of the queue.

**Supervisor.** `TableIsRight` compares the table with the captures and with
the proxies that run, and all three change in different steps of a request.
`IInv` adds: what a request still has to do and has already got are of
different providers, each once (`ProvidersOK`); the proxy that a task has
started runs until its handle says otherwise, also while the task is yet to
remember it (`StartedOK`); where a task stands fits what it has in hand
(`ControlOK`); and a workspace has one scanner loop or one task that will
spawn it (`LoopOK`, `SpawnOK`), which is what makes "pending" honest. Results:
`TypeCorrect`, `TableStaysRight` and `PendingScansAreOnTheirWay`, for any number of
requests, workspaces, ports and failures. They are theorems about `Supervisor!Spec`;
the run that checks the two properties is `Workspace`, whose part
"supervisor" takes exactly the steps of that `Spec`.

**Experiments.** `ReportedTagsStay` is inductive: a first tag is what is told,
and of two commands that both found no tag the primary key lets one insert.
Result: `TagsStayAsTold`, for any commands, sessions and times.

**Proxy.** `CallsAreLogged` excepts the calls that another append of the session
overlapped, so `ProxyInv` follows a call that nobody has overlapped yet: the seq
it has read stays above those of its session until it appends (`SeqIsFree`); from
then on its event is there with its own data (`EventIsThere`); nobody else who
is about to append or to write a span is at the same session and seq (`Apart`);
and what is recorded has its rows, with nobody at its place who could write over
the span (`LogOK`). That a next seq is above all others needs the events of a
session to have a last one (`EventsOK`). Result: `CallsStayLogged`, for any
finite number of clients (`IsFiniteSet(Clients)`), which is what the count of
concurrent appends needs, any requests, answers, prices and failures, and
whatever usage is found in an answer (`FindUsageInBody` is any operator). Both
are theorems about the `Spec` of the component, whose steps the parts
"experiments" and "proxy" of the run `Workspace` take.

**Remote.** `FreshCacheIsComplete` is about the time stamp of a pull that went
well, and an import takes one event at a time, so `RemoteInv` follows each
command: if its pull began at a time, one page holds what the provider has, and
nothing of it failed yet, then each event of the window that had arrived by then
is in the cache or still in the rest of the page (`PageOK`). Nothing leaves the
cache, and nothing arrives at an earlier time (`ProviderOK`). That the page has
all of a provider that fits rests on `SortedHasAll`: events in their order are a
row of which each is a member (`InOrder`, `RowHasAll`, by counting those before
each). Result: `FreshCacheStaysComplete`, for any commands, windows and page
limits, if an event is known by its session and seq (`ExportsAreKnown`), the key
of the table.

**Tui.** `ScreenIsFed` is three facts. That news wake the report worker is
inductive (`ReportInv`). That the pane shows the session under the cursor and
that each page in flight has a message under way need to know of every message
what it is an answer to: none is of a later generation than the view has, and
one of the same generation is of the same session (`IsKnown`), so what the UI
drops is awaited by nothing (`ResponseDropped`) and what it takes is at its
place (`EventPageFinished`). A key or an answer runs through up to four
functions that each ask for more, and between them the selection is not yet
what is shown; `AppInv` is what every one of them keeps (`SessionPagesAsked`,
`EventPagesAsked`, `FeedbackAsked`, `DetailAsked`, `SelectionCleared`,
`SelectedAsked`), `Fed` what a step ends with. Result: `ScreenStaysFed`, for any
finite set of sessions, any heights and page sizes, and any numbers of keys,
failed reads and changes of other processes (`ScreenParameters`: sessions are
numbers, as their order is all that counts, and no session is `NoSession`).
These two are theorems about the `Spec` of the component as well.

**CoreLoop.** `FinishedWorkIsThereOnce` speaks of commands that ended, so `IInv`
says of the others that each item a command has taken up is done or still among
its items, with the reference of a case as a step of its own (`WorkOK`, `Owes`), that
the id a command has read is of the row of its item as long as a row has it
(`Knows`: ids are never given twice), and of the tables that ids and source keys are unique and that a row other than an alert
belongs to the session of its key (`RowsFit`): a prune takes rows by session
and leaves alerts, and work that is finished for a session that is pruned must
leave `finished` with it (`PruneRows`, `PruneDone`). The n-th hit of a query is
found by its rank, the number of hits up to it; `NthExists` shows by the least
number that such a hit exists, in place of an induction over the log.
Results: `TypeCorrect` and `FinishedWork`, for any number of processes,
sessions, rules, events and verdicts.

**OutboxMigration.** `ImportIsExact` is about the table after the import. The
invariant ties the place of each opener to what is on disk (`Progress`): the
store opens only when the file is archived, the file is archived only by who has
committed an import, and what an opener has read is the file. So the first
import finds the table as it was, every later one finds the marker of the same
rows, and until then nobody enqueues or sends. From the commit on, the rows of
the table are the merge of both queues, then what was enqueued (`Contents`). What
the merge holds is a matter of counting: the n-th of a set of places
(`NthIsPlace`, `NthGrows`), the rows at some places (`CountAt`), of queues one
after the other (`CountJoin`), and the places beyond the first c of those that
are alike (`CountBeyond`), by bijections between places and numbers. Result:
`ImportHolds`, for any number of openers, rows, appends and kills, if the bounds
are numbers (`Bounds`). `Workspace` checks the property on the same steps.

**Search.** `QuietIndexIsRight` is about moments when no handle writes, so
`SearchInv` says where everything is in between. One half (`StoredOK`): each
event with a text that is stored, or that an open transaction will store, has
its document in the index, is excused or overtaken, or is on its way, in the hand or the
writer of a handle or in the list of a rebuild (`Accounted`); what
a writer of a removed directory commits, also that of an earlier rebuild, becomes
excused. The other half
(`DocsOK`): a document of the index, or of a writer that writes to the directory
in place, is of a session that is there or raced, or that a handle is about to
delete (`Fit`, `Going`), and what a handle has in hand is of a session that is
there or raced (`HandOK`). `DeleteSessions` keeps the second half because the
lock is free when it runs, so no other writer of the directory in place holds
documents; a rebuild (`DropIndex`) keeps it because every writer is then one of a
directory that is gone. `PromptsOK` is `ListedUnderFirstPrompt` with the case of
no prompt. Results: `SearchTypes`, `QuietSearchIsRight`,
`FirstPromptIsListed` and `SearchStaysRight`, both together, for any number of
handles, sessions, events, batches, faults and rebuilds. They assume
`SearchConstants`: finitely many handles and events, batches that are not empty,
`None` apart from both, and `NotSet`, which stands for a filter that is not
given, apart from the kinds of events. `Workspace`
checks `SearchIsRight` on the steps of the same `Spec`, which it instantiates.

**Only model-checked.** `RebuildRestoresRows`: it compares the rows with what a
fold over the log closes while other handles append, and a rebuild starts only
with prompt changes, where the other row properties do not hold. The other
properties of `Workspace` (`LogIsTheTranscript`, `ReportsHoldTheBest`,
`SpansAreShown`, `ReportsAgree`, `SnapshotsAreWhole`, and the types of its
components together):
most of them compare what a sequence of statements wrote with a fold
or a recursive definition over its input. Liveness (`QueueDrains`, `LinesGetStored`,
`CommandsEnd`, `ScansEnd`), which the prover does not support.

## 5. Not modelled

- Hook parsers, and the fields of an event that a transcript parser fills
  beside its kind and ids: conversions of one JSON value each, without state.
- Extensions and interchange: digests and sums around an append; formats.
- Registry, workspace and configuration: files changed by one call at a time.
  `Daemon` takes the registry as a set.
- Web, MCP and report views, drawing in the TUI: read-only.
- Command line, installation and diagnosis.
- Wire formats of exporters and the pages of a provider; HTTP. What an exporter
  or a provider may answer is an outcome in `OutboxSync` and `Remote`.
- Statistics: bootstrap intervals, scores as real numbers, ranking of hits.
  `Experiments` replaces the interval by what it is certain to say of values
  that lie on one side.
- Of the modelled components: identity enrichment and the detached child after
  a hook's ingest; the counters of sync_state, hashing and redaction; the
  session row beyond its start, in scans; windowed lists of spans; the SQL
  projection of a session for search; streaming of bodies and headers in the
  proxy; rankings of tools and of pain in metrics. They are data that no
  property tells apart, or views.

Five hazards of the list have no property, each with its reason: the event
that is dropped at a seq that is taken, the torn append and the hydration window
are losses that the code has no answer to, and the properties of `EventStore`
state them as exceptions; the queue behind a row that the server refuses is the
price of its order; and a slower handle that queues older spans would take the
event store and the outbox in one model.
