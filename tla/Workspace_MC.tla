----------------------------- MODULE Workspace_MC -----------------------------
(* The components of a workspace that the other models leave out, each with *)
(* the processes that use it.  They meet only through tables that the other *)
(* models own, so a behaviour runs one of them: part says which, and the     *)
(* others stay as they begin.                                              *)
EXTENDS Supervisor, OutboxImport, ExperimentTags, ProxyLog, SearchIndex, TuiScreen, RemoteCache,
  SequencesExt, TLC

CONSTANTS
  p1, p2,  \* processes: commands, request handlers, openers of the store
  c1       \* the id of a tool call

Processes == {p1, p2}
Symmetry == Permutations(Processes)

VARIABLES
  part,  \* the component that runs in this behaviour
  \* OutboxMigration
  source, target, opener, read, kills,
  \* Experiments
  clock, exp, recorded, step, report,
  \* TailParsers
  agent, root, files, log, session, fresh,
  \* Retro
  week, traces, tables, reports, runner,
  \* SpanTrees
  mode, spanLog, openSpans, spanRows, rebuild, seenSeq, keptTree, shownTree,
  \* Tui
  listed, logged, rated, storeReader, height, wal, schedule, changes, keys, failedReads,
  \* Search
  writeLock, searchDir, searchDirty, searchFaults,
  \* Guidance
  today, traced, used, disk, judged, badly, measured, candidates, writes, guides,
  \* Proxy
  proxied, forwards, forwarded, proxyFaults,
  \* Remote
  readers, printed, pullFaults,
  \* Metrics
  indexNow, workTree, committed, commits, snapshots, facts, edges, sidecar,
  snapshotChunks, indexers, ranking, edits, indexKills, torn, meant

MigVars == <<legacy, source, target, queue, marker, opener, read, kills, before, appended>>
ExpVars == <<clock, exp, tags, recorded, step, told, report>>
ParsersVars == <<agent, root, files, log, session, fresh>>
WeeklyVars == <<week, traces, tables, reports, runner>>
TreesVars == <<mode, spanLog, openSpans, spanRows, rebuild, seenSeq, keptTree, shownTree>>
ScreenVars == <<listed, logged, rated, app, storeReader, responses, height, wal, schedule,
  reportTask, changes, keys, failedReads>>
IndexVars == <<searched, stored, prompts, writeLock, searchDir, documents, readable, searchDirty,
  writer, doing, searchFaults, excused, overtaken, raced>>
GuideVars == <<today, traced, used, disk, judged, badly, measured, candidates, writes, guides>>
LlmVars == <<proxied, proxyEvents, llmSpans, forwards, forwarded, proxyFaults, recordedCalls,
  overlapped>>
SharedVars == <<teamNow, provider, remoteEvents, pullState, readers, printed, pullFaults, whole>>
MeasuresVars == <<indexNow, workTree, committed, commits, snapshots, facts, edges, sidecar,
  snapshotChunks, indexers, ranking, edits, indexKills, torn, meant>>
SupVars == vars
workspaceVars == <<part, SupVars, MigVars, ExpVars, ParsersVars, WeeklyVars, TreesVars,
  ScreenVars, IndexVars, GuideVars, LlmVars, SharedVars, MeasuresVars>>

Payload(kind, payload) == [owner |-> "a", kind |-> kind, payload |-> payload]

TailLine(content, calls, parts, flat, cwd) ==
  [json |-> "ok", content |-> content, calls |-> calls, parts |-> parts, flat |-> flat, cwd |-> cwd]

TailLines ==
  {TailLine(<<>>, 0, <<>>, None, "here"),
   TailLine(<<"text", "call", "result">>, 0, <<>>, None, None),
   TailLine(<<"todo">>, 2, <<"call">>, "cost", "away"),
   TailLine(<<>>, 0, <<"result">>, "call", "here")}

Trace(in, kind, tool, call, path, cost, signs) ==
  [session |-> in, kind |-> kind, tool |-> tool, call |-> call, path |-> path,
   cost |-> cost, signs |-> signs]

Shell  == Trace("s1", "call", "shell", "c", "docs/a", 0, {"stopped", "truncated", "retry", "idle"})
Failed == Trace("s1", "result", None, "c", None, 3, {"failed", "pressure", "skill", "ignored"})
Read   == Trace("s2", "call", "read", None, "src/b", 1, {"proxied", "premium", "subagent", "idle"})
Error  == Trace("s2", "error", None, None, "skill", 0, {"pressure", "skill", "ignored", "retry"})
Edit   == Trace("s1", "call", "edit", None, "src/b", 0, {"open_todos", "mode"})
Mode   == Trace("s2", "lifecycle", None, None, None, 0, {"open_todos", "mode"})
Reject == Trace("s1", "hook", None, None, None, 0, {"reject"})
Mcp    == Trace("s2", "call", "mcp", None, None, 0, {"retry"})

Windows ==
  {<<>>, <<Shell, Failed, Failed, Edit, Edit, Reject>>, <<Read, Error, Read, Mcp, Mcp, Error>>,
   <<Edit, Mode, Edit, Mode, Mode, Edit, Mode>>, <<Shell, Edit, Shell, Edit, Shell, Edit, Read>>}

OnDisk(slug, old) == [slug |-> slug, old |-> old, size |-> 1]

Empty ==
  [files |-> {}, large |-> {}, skills |-> {}, rules |-> {}, used |-> {}, spans |-> {},
   scores |-> <<>>, prints |-> {}, feedback |-> <<>>, outcomes |-> <<>>, samples |-> <<>>]

\* Each table makes a bet.
Full ==
  [files |-> {"s1", "s2"} \X {"docs/a", "src/b"}, large |-> {"src/b"},
   skills |-> {OnDisk("k", TRUE), OnDisk("l", TRUE)}, rules |-> {OnDisk("r", TRUE), OnDisk("q", FALSE)},
   used |-> {"l"}, spans |-> {[tool |-> "read", depth |-> 2, parent |-> "t"]},
   scores |-> <<"ok", "low", "low">>, prints |-> {"s1", "s2"} \X {"f", "g"},
   feedback |-> <<"bad", "bad">>,
   outcomes |-> <<[session |-> "s1", passed |-> 1, failed |-> 1, lint |-> 0, reverted |-> 2]>>,
   samples |-> <<[session |-> "s2", cpu |-> TRUE, rss |-> TRUE, count |-> 2]>>]

SpanEvent(kind, id, tool, at, cost) ==
  [kind |-> kind, seq |-> at, ts |-> at, tool |-> tool, id |-> id, cost |-> cost, path |-> None]

SpanEvents ==
  {SpanEvent("call", c1, "shell", 0, 1), SpanEvent("pre", None, "edit", 1, 2),
   SpanEvent("post", None, "edit", 2, None), SpanEvent("result", c1, None, 3, None),
   SpanEvent("stop", None, None, 4, None)}

Word(seq, kind, tool, text) ==
  [in |-> "s", seq |-> seq, agent |-> "claude", kind |-> kind, tool |-> tool, text |-> text,
   prompt |-> seq = 1]

Ask  == Word(1, "message", None, {"fix"})
Call == Word(2, "tool_use", "shell", {"shell", "fix"})

Trace1(at, tool, names) == [at |-> at, tool |-> tool, names |-> names]

ShellRun(ends, fits, fails, summary, errors) ==
  [ends |-> ends, fits |-> fits, fails |-> fails, summary |-> summary, errors |-> errors]

ShellRuns == {ShellRun(TRUE, TRUE, FALSE, 0, 0), ShellRun(TRUE, FALSE, TRUE, None, 1), None}

\* A value of an answer: its usage, its reasons to stop, what is in it.
Json(usage, stops, values) == [usage |-> usage, stops |-> stops, values |-> values]

Body(sse, values, fits) == [sse |-> sse, lines |-> sse, values |-> values, fits |-> fits]

Bodies ==
  {Body(TRUE, <<Json([input |-> 4], <<>>, <<>>),
                Json([output |-> 2], [delta |-> "end"], <<Json(<<>>, [own |-> "other"], <<>>)>>)>>, TRUE),
   Body(FALSE, <<Json(<<>>, <<>>, <<Json([prompt |-> 9, input |-> 3,
                                               input_details |-> [reasoning |-> 1],
                                               prompt_details |-> [cached |-> 2]], <<>>,
                                         <<Json([completion |-> 5,
                                                 output_details |-> [reasoning |-> 1]],
                                                <<>>, <<>>)>>)>>)>>, TRUE),
   Body(FALSE, <<>>, FALSE)}

CostToml ==
  [cursor |-> [input |-> 1, output |-> 2, read |-> 1, create |-> 1, turn |-> 5],
   opus   |-> [input |-> 2, output |-> 3, read |-> 1, create |-> 1, turn |-> 0]]

Usage == INSTANCE ProxyUsage WITH Prices <- CostToml, Mtok <- 2, U32 <- 8, MaxWalk <- 1

UsageInBody(b) == Usage!FindUsageInBody(b)

Exported(in, seq, ts, tool, cost) ==
  [in |-> in, seq |-> seq, ts |-> ts, agent |-> in, model |-> 1, tool |-> tool, cost |-> cost,
   tokens |-> 2, parses |-> TRUE]

OwnSummary ==
  [sessions |-> 1, events |-> 2, cost |-> 3, with_cost |-> 1, by_agent |-> 1 :> 1,
   by_model |-> 1 :> 1, top_tools |-> 2 :> 1, tool_tokens |-> 2 :> 5, by_day |-> [i \in 1..7 |-> 0]]

\* What a file holds: a node of its syntax tree, and what is below it.
Node(kind, name, children) ==
  [kind |-> kind, name |-> name, relative |-> FALSE, to |-> None, children |-> children]

Source(size, parsed, nodes) ==
  [size |-> size, parsed |-> parsed, tree |-> Node("file", None, nodes)]

\* Imports b, once by its name and once by a path, and calls x twice in a branch of y.
Caller ==
  Source(1, TRUE,
    <<Node("import", "b", <<>>), [Node("import", "b", <<>>) EXCEPT !.relative = TRUE, !.to = 0],
      Node("symbol", "y", <<Node("branch", "if", <<Node("call", "x", <<>>), Node("call", "x", <<>>)>>)>>)>>)
Callee == Source(1, TRUE, <<Node("branch", "if", <<>>), Node("symbol", "x", <<>>)>>)

TailAgents ==
  {"claude", "cursor", "codex", "vibe", "claude_code", "codex_desktop", "modern", "openclaw",
   "copilot_cli", "goose", "goose_legacy", "opencode", "vscode_json", "vscode_jsonl"}

Mig == INSTANCE OutboxMigration WITH Openers <- Processes,
  Rows <- {Payload("events", 1), Payload("tool_spans", 1), Payload("tool_spans", 2)},
  MaxLegacy <- 2, MaxQueue <- 1, MaxAppends <- 1, MaxKills <- 1, pc <- opener

Exp == INSTANCE Experiments WITH Commands <- Processes, Sessions <- {"s"},
  Kinds <- {[tips |-> {"control"}, prompt |-> "treatment", value |-> 1], [tips |-> {}, prompt |-> None, value |-> 2]},
  MinSample <- 1, Duration <- 1, MaxTime <- 0

ExpInTime == INSTANCE Experiments WITH Commands <- {"exp"}, Sessions <- {"s"},
  Kinds <- {[tips |-> {"control"}, prompt |-> "treatment", value |-> 1]},
  MinSample <- 1, Duration <- 1, MaxTime <- 1

Parsers == INSTANCE TailParsers WITH Agents <- TailAgents, Lines <- TailLines,
  MaxLines <- 3

Weekly == INSTANCE Retro WITH Runners <- {"retro"}, Remote <- <<Read, Edit>>,
  Tables <- {Empty, Full}, Many <- 2, Apart <- {<<"docs/a", "src/b">>},
  Docs <- {"docs/a"}, MaxWeek <- 2

Trees == INSTANCE SpanTrees WITH CallIds <- {c1}, Tools <- {"shell", "edit"},
  Paths <- {}, Handles <- {"writer", "reader"}, Writer <- "writer",
  Events <- SpanEvents, Limits <- {1}, TTL <- 1, MaxU64 <- 9, log <- spanLog,
  open <- openSpans, rows <- spanRows, work <- rebuild, seen <- seenSeq,
  cache <- keptTree, shown <- shownTree

Screen == INSTANCE Tui WITH Sessions <- {1, 2}, Filtered <- {1}, Heights <- {1, 2},
  PageFloor <- 2, Prefetch <- 0, MaxPages <- 1, MaxChanges <- 0, MaxFailures <- 1,
  MaxKeys <- 1, table <- listed, events <- logged, reader <- storeReader,
  refresh <- schedule, failures <- failedReads

ScreenInTime == INSTANCE Tui WITH Sessions <- {1, 2}, Filtered <- {1}, Heights <- {1},
  PageFloor <- 1, Prefetch <- 0, MaxPages <- 1, MaxChanges <- 1, MaxFailures <- 0,
  MaxKeys <- 0, table <- listed, events <- logged, reader <- storeReader,
  refresh <- schedule, failures <- failedReads

Index == INSTANCE Search WITH Handles <- Processes, Kept <- {}, Sessions <- {"s"},
  Events <- {Ask, Call}, Batches <- {<<Call>>}, BatchDocs <- 2, MaxReindexes <- 0,
  MaxFaults <- 1, locked <- writeLock, dir <- searchDir, dirty <- searchDirty,
  faults <- searchFaults

IndexRebuilt == INSTANCE Search WITH Handles <- Processes, Kept <- {},
  Sessions <- {"s"}, Events <- {Ask, Call}, Batches <- {}, BatchDocs <- 2,
  MaxReindexes <- 1, MaxFaults <- 0, locked <- writeLock, dir <- searchDir,
  dirty <- searchDirty, faults <- searchFaults

RebuiltTwice == INSTANCE Search WITH Handles <- Processes, Kept <- {},
  Sessions <- {"s"}, Events <- {Ask}, Batches <- {}, BatchDocs <- 2, MaxReindexes <- 2,
  MaxFaults <- 0, locked <- writeLock, dir <- searchDir, dirty <- searchDirty,
  faults <- searchFaults

Guide == INSTANCE Guidance WITH Commands <- {"guidance"}, Sessions <- {"s", "t"},
  Artifacts <- {"a"},
  Traces <- {"s" :> [started |-> 1, events |-> <<Trace1(0, "edit", {"a"})>>]},
  Runs <- ShellRuns, Answers <- {"delete"}, Lookback <- 1, MinSessions <- 1,
  RejectedLimit <- 1, BatchSize <- 1, MinCost <- 1, MaxTime <- 3, MaxWrites <- 1,
  MaxCandidates <- 1, now <- today, sessions <- traced, evals <- judged, bad <- badly,
  outcomes <- measured, work <- guides

Llm == INSTANCE Proxy WITH Clients <- Processes, Named <- {"s"}, Uuids <- {"u"},
  Requests <- {[json |-> TRUE, model |-> "opus", messages |-> <<6, 4>>, fits |-> TRUE]},
  Bodies <- Bodies, Policy <- [keep |-> "tokens", count |-> 1], Prices <- CostToml,
  Mtok <- 2, U32 <- 8, FindUsageInBody <- UsageInBody, MaxCalls <- 2, MaxFaults <- 1,
  sessions <- proxied, work <- forwards, calls <- forwarded, faults <- proxyFaults

Shared == INSTANCE Remote WITH Commands <- Processes,
  Events <- {Exported(1, 0, 0, 1, 1), Exported(1, 1, 1, 2, 3)}, Local <- OwnSummary,
  Team <- TRUE, Ttl <- 2, TopTools <- 2, TopTokens <- 1, TopInsights <- 1,
  MaxTime <- 1, MaxFaults <- 0, work <- readers, shown <- printed, faults <- pullFaults

SharedFails == INSTANCE Remote WITH Commands <- {"reader"},
  Events <- {Exported(1, 0, 0, 1, 1), Exported(1, 1, 1, 2, 3)}, Local <- OwnSummary,
  Team <- TRUE, Ttl <- 2, TopTools <- 2, TopTokens <- 1, TopInsights <- 1,
  MaxTime <- 1, MaxFaults <- 1, work <- readers, shown <- printed, faults <- pullFaults

Measures == INSTANCE Metrics WITH Commands <- {"index"}, Paths <- {1, 2},
  Sources <- <<Caller, Callee>>, Stem <- <<"a", "b">>, Authors <- {"me"}, Git <- TRUE,
  Month <- 0, Quarter <- 1, Chunk <- 1, Rows <- 1, MaxTime <- 1, MaxChanges <- 1,
  MaxKills <- 0, now <- indexNow, files <- workTree, log <- commits, graph <- sidecar,
  queue <- snapshotChunks, work <- indexers, shown <- ranking, changes <- edits,
  kills <- indexKills

Unversioned == INSTANCE Metrics WITH Commands <- {"index"}, Paths <- {1, 2},
  Sources <- <<Caller, Source(1, FALSE, <<>>)>>, Stem <- <<"a", "b">>,
  Authors <- {"me"}, Git <- FALSE, Month <- 0, Quarter <- 1, Chunk <- 1, Rows <- 1,
  MaxTime <- 0, MaxChanges <- 1, MaxKills <- 1, now <- indexNow, files <- workTree,
  log <- commits, graph <- sidecar, queue <- snapshotChunks, work <- indexers,
  shown <- ranking, changes <- edits, kills <- indexKills

Overlapping == INSTANCE Metrics WITH Commands <- Processes, Paths <- {1},
  Sources <- <<Caller, Callee>>, Stem <- <<"a", "b">>, Authors <- {"me"}, Git <- TRUE,
  Month <- 0, Quarter <- 1, Chunk <- 1, Rows <- 1, MaxTime <- 0, MaxChanges <- 0,
  MaxKills <- 1, now <- indexNow, files <- workTree, log <- commits, graph <- sidecar,
  queue <- snapshotChunks, work <- indexers, shown <- ranking, changes <- edits,
  kills <- indexKills

WorkspaceInit ==
  /\ part \in {"supervisor", "migration", "experiments", "experiments in time",
              "parsers", "retro", "trees", "screen", "screen in time", "search",
              "search rebuilt", "search rebuilt twice", "guidance", "proxy", "remote",
              "remote fails", "metrics", "metrics without git", "metrics at once"}
  /\ Init
  /\ Mig!Init /\ (part = "migration" \/ (legacy = <<>> /\ queue = <<>> /\ source = "present" /\ target))
  /\ (IF part = "experiments in time" THEN ExpInTime!Init ELSE Exp!Init)
  /\ Parsers!Init /\ (part = "parsers" \/ (agent = "claude" /\ root = "here"))
  /\ Weekly!Init /\ (part = "retro" \/ (traces = <<>> /\ tables = Empty))
  /\ Trees!Init /\ (part = "trees" \/ (mode = "legacy"))
  /\ Screen!Init /\ storeReader.open /\ height = 1 /\ (\A s \in {1, 2} : logged[s] = 1)
     /\ (part = "screen" => Len(listed) = 2) /\ (part = "screen in time" => listed = <<1>>) /\ (part \in {"screen", "screen in time"} \/ (listed = <<>>))
  /\ Index!Init
  /\ Guide!Init /\ (part = "guidance" \/ (disk = {}))
  /\ Llm!Init
  /\ (IF part = "remote fails" THEN SharedFails!Init ELSE Shared!Init)
  /\ (IF part = "metrics at once" THEN Overlapping!Init ELSE Measures!Init)

SupStep ==
  /\ part = "supervisor" /\ Next
  /\ UNCHANGED <<part, MigVars, ExpVars, ParsersVars, WeeklyVars, TreesVars,
                 ScreenVars, IndexVars, GuideVars, LlmVars, SharedVars, MeasuresVars>>

MigStep ==
  /\ part = "migration" /\ Mig!Next
  /\ UNCHANGED <<part, SupVars, ExpVars, ParsersVars, WeeklyVars, TreesVars,
                 ScreenVars, IndexVars, GuideVars, LlmVars, SharedVars, MeasuresVars>>

ExpStep ==
  /\ \/ part = "experiments" /\ Exp!Next
     \/ part = "experiments in time" /\ ExpInTime!Next
  /\ UNCHANGED <<part, SupVars, MigVars, ParsersVars, WeeklyVars, TreesVars,
                 ScreenVars, IndexVars, GuideVars, LlmVars, SharedVars, MeasuresVars>>

ParsersStep ==
  /\ part = "parsers" /\ Parsers!Next
  /\ UNCHANGED <<part, SupVars, MigVars, ExpVars, WeeklyVars, TreesVars, ScreenVars,
                 IndexVars, GuideVars, LlmVars, SharedVars, MeasuresVars>>

WeeklyStep ==
  /\ part = "retro" /\ Weekly!Next
  /\ UNCHANGED <<part, SupVars, MigVars, ExpVars, ParsersVars, TreesVars, ScreenVars,
                 IndexVars, GuideVars, LlmVars, SharedVars, MeasuresVars>>

TreesStep ==
  /\ part = "trees" /\ Trees!Next
  /\ UNCHANGED <<part, SupVars, MigVars, ExpVars, ParsersVars, WeeklyVars, ScreenVars,
                 IndexVars, GuideVars, LlmVars, SharedVars, MeasuresVars>>

ScreenStep ==
  /\ \/ part = "screen" /\ Screen!Next
     \/ part = "screen in time" /\ ScreenInTime!Next
  /\ UNCHANGED <<part, SupVars, MigVars, ExpVars, ParsersVars, WeeklyVars, TreesVars,
                 IndexVars, GuideVars, LlmVars, SharedVars, MeasuresVars>>

IndexStep ==
  /\ \/ part = "search" /\ Index!Next
     \/ part = "search rebuilt" /\ IndexRebuilt!Next
     \/ part = "search rebuilt twice" /\ RebuiltTwice!Next
  /\ UNCHANGED <<part, SupVars, MigVars, ExpVars, ParsersVars, WeeklyVars, TreesVars,
                 ScreenVars, GuideVars, LlmVars, SharedVars, MeasuresVars>>

GuideStep ==
  /\ part = "guidance" /\ Guide!Next
  /\ UNCHANGED <<part, SupVars, MigVars, ExpVars, ParsersVars, WeeklyVars, TreesVars,
                 ScreenVars, IndexVars, LlmVars, SharedVars, MeasuresVars>>

LlmStep ==
  /\ part = "proxy" /\ Llm!Next
  /\ UNCHANGED <<part, SupVars, MigVars, ExpVars, ParsersVars, WeeklyVars, TreesVars,
                 ScreenVars, IndexVars, GuideVars, SharedVars, MeasuresVars>>

SharedStep ==
  /\ \/ part = "remote" /\ Shared!Next
     \/ part = "remote fails" /\ SharedFails!Next
  /\ UNCHANGED <<part, SupVars, MigVars, ExpVars, ParsersVars, WeeklyVars, TreesVars,
                 ScreenVars, IndexVars, GuideVars, LlmVars, MeasuresVars>>

MeasuresStep ==
  /\ \/ part = "metrics" /\ Measures!Next
     \/ part = "metrics without git" /\ Unversioned!Next
     \/ part = "metrics at once" /\ Overlapping!Next
  /\ UNCHANGED <<part, SupVars, MigVars, ExpVars, ParsersVars, WeeklyVars, TreesVars,
                 ScreenVars, IndexVars, GuideVars, LlmVars, SharedVars>>


WorkspaceNext ==
  \/ SupStep
  \/ MigStep
  \/ ExpStep
  \/ ParsersStep
  \/ WeeklyStep
  \/ TreesStep
  \/ ScreenStep
  \/ IndexStep
  \/ GuideStep
  \/ LlmStep
  \/ SharedStep
  \/ MeasuresStep

WorkspaceSpec == WorkspaceInit /\ [][WorkspaceNext]_workspaceVars

(* Every component keeps its types. *)
ComponentsTypeOK ==
  /\ TypeOK
  /\ part = "migration" => Mig!TypeOK
  /\ part = "experiments" => Exp!TypeOK
  /\ part = "experiments in time" => ExpInTime!TypeOK
  /\ part = "parsers" => Parsers!TypeOK
  /\ part = "retro" => Weekly!TypeOK
  /\ part = "trees" => Trees!TypeOK
  /\ part = "screen" => Screen!TypeOK
  /\ part = "screen in time" => ScreenInTime!TypeOK
  /\ part = "search" => Index!TypeOK
  /\ part = "search rebuilt" => IndexRebuilt!TypeOK
  /\ part = "search rebuilt twice" => RebuiltTwice!TypeOK
  /\ part = "guidance" => Guide!TypeOK
  /\ part = "proxy" => Llm!TypeOK
  /\ part = "remote" => Shared!TypeOK
  /\ part = "remote fails" => SharedFails!TypeOK
  /\ part = "metrics" => Measures!TypeOK
  /\ part = "metrics without git" => Unversioned!TypeOK
  /\ part = "metrics at once" => Overlapping!TypeOK

(* LogIsTheTranscript of TailParsers: seqs stay with their lines. *)
LogIsTheTranscript == part = "parsers" => Parsers!LogIsTheTranscript

(* ReportsHoldTheBest of Retro: a report takes the best of each group. *)
ReportsHoldTheBest == part = "retro" => Weekly!ReportsHoldTheBest

(* LegacyRowsAreRight and TreesHoldEveryRow of SpanTrees: rebuilt rows are a *)
(* forest with the right totals, and trees lose and keep nothing they should *)
(* not.                                                                     *)
SpansAreShown == part = "trees" => Trees!LegacyRowsAreRight /\ Trees!TreesHoldEveryRow

(* ViewsAgree of Guidance and ReportsAddUp of Remote: report and score count *)
(* the same sessions, and the parts of a report fit its headline.           *)
ReportsAgree ==
  /\ part = "guidance" => Guide!ViewsAgree
  /\ part = "remote" => Shared!ReportsAddUp
  /\ part = "remote fails" => SharedFails!ReportsAddUp

(* SnapshotsAreWhole of Metrics: however saves are cut or overlap, the next *)
(* one is one index.                                                       *)
SnapshotsAreWhole ==
  part \in {"metrics", "metrics without git", "metrics at once"} => Measures!SnapshotsAreWhole
=============================================================================
