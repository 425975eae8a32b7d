-------------------------------- MODULE Metrics --------------------------------
(***************************************************************************)
(* The repository index (metrics/, store/sqlite/metrics.rs): what kaizen   *)
(* metrics reads of the files and of the history of a workspace, the       *)
(* snapshot it stores under a fingerprint of both, statement by statement, *)
(* the graph beside it, the chunks of it that sync sends, and the report.  *)
(* Paths are numbers in the order of their names; a file is a syntax tree  *)
(* whose nodes are symbols, branches, calls, imports, or none of these.    *)
(***************************************************************************)
EXTENDS Naturals, Sequences, FiniteSets, FiniteSetsExt, SequencesExt, TLC

CONSTANTS
  Commands,
  Paths,       \* of the files of the workspace
  Sources,     \* version -> [size, parsed, tree]: what a file may hold
  Stem,        \* path -> the name that imports use
  Authors,
  Git,         \* whether the workspace is a repository
  Month, Quarter, Chunk, Rows,
  MaxTime, MaxChanges, MaxKills,  \* bounds
  None

VARIABLES
  now,
  files, committed, log,  \* the work tree, HEAD, the commits with the newest first
  snapshots,     \* repo_snapshots: id -> indexed_at_ms
  facts, edges,  \* file_facts and repo_edges: key -> row, key -> weight
  graph,         \* the sidecar: the snapshot it shows, and its edges
  queue,         \* the outbox: snapshot -> chunks
  work, shown,
  changes, kills,
  torn,          \* history: snapshots whose last save was cut or overlapped
  meant          \* history: what the last save of a snapshot was to store

vars == <<now, files, committed, log, snapshots, facts, edges, graph, queue, work, shown,
          changes, kills, torn, meant>>
tree == <<now, files, committed, log, changes>>
tables == <<snapshots, facts, edges>>
history == <<torn, meant>>

Idle == [step |-> "idle", id |-> None, at |-> 0, index |-> None,
         facts |-> <<>>, edges |-> <<>>, alone |-> TRUE]

Init ==
  /\ now = 0
  /\ files = [p \in Paths |-> 1] /\ committed = files /\ log = <<>>
  /\ snapshots = <<>> /\ facts = <<>> /\ edges = <<>>
  /\ graph = None /\ queue = <<>>
  /\ work = [c \in Commands |-> Idle]
  /\ shown = None
  /\ changes = 0 /\ kills = 0
  /\ torn = {} /\ meant = <<>>

Sub(a, b) == IF a > b THEN a - b ELSE 0

-----------------------------------------------------------------------------
(* One file: its symbols, what they call, how they branch. *)

\* A node and all below it, in the order of the source.
RECURSIVE Nodes(_)
Nodes(n) == FoldLeft(LAMBDA s, x : s \o Nodes(x), <<n>>, n.children)

OfKind(n, kind) == SelectSeq(Nodes(n), LAMBDA x : x.kind = kind)

\* Branches of a symbol within a symbol count for both; its place tells namesakes apart.
Symbol(p, place, n) ==
  [id |-> <<p, place>>, name |-> n.name, complexity |-> 1 + Len(OfKind(n, "branch")),
   calls |-> [i \in DOMAIN OfKind(n, "call") |-> OfKind(n, "call")[i].name]]

RECURSIVE TopLevel(_)
TopLevel(n) ==
  IF n.kind = "symbol" THEN 0
  ELSE FoldLeft(LAMBDA sum, x : sum + TopLevel(x), IF n.kind = "branch" THEN 1 ELSE 0, n.children)

SumOf(s) == FoldLeft(LAMBDA a, b : a + b, 0, s)

Analysis(p, node, symbols) ==
  [path |-> p, symbols |-> symbols, imports |-> OfKind(node, "import"),
   total |-> SumOf([i \in DOMAIN symbols |-> symbols[i].complexity]) + TopLevel(node),
   max |-> Max({0} \cup {symbols[i].complexity : i \in DOMAIN symbols})]

SymbolsIn(p, found) == [i \in DOMAIN found |-> Symbol(p, i, found[i])]

\* A file without a parser has lines and nothing else.
Analyze(p, source) ==
  IF source.parsed
  THEN Analysis(p, source.tree, SymbolsIn(p, OfKind(source.tree, "symbol")))
  ELSE [path |-> p, symbols |-> <<>>, imports |-> <<>>, total |-> 0, max |-> 0]

-----------------------------------------------------------------------------
(* All files: who depends on whom, who calls whom, who changed with whom. *)

File(p) == <<p, 0>>

Edge(from, to, kind, weight) == [from |-> from, to |-> to, kind |-> kind, weight |-> weight]

\* A name that two files have resolves to none; a relative path is taken as it is.
ResolveImport(node) ==
  LET named == {p \in Paths : Stem[p] = node.name}
  IN IF node.relative THEN node.to
     ELSE IF Cardinality(named) = 1 THEN CHOOSE p \in named : TRUE ELSE None

Dependencies(analyses) ==
  FlattenSeq([i \in DOMAIN analyses |->
    LET resolved == SelectSeq(analyses[i].imports, LAMBDA n : ResolveImport(n) # None)
    IN [j \in DOMAIN resolved |->
          Edge(File(analyses[i].path), File(ResolveImport(resolved[j])), "depends", 1)]])

FanIn(deps, p) == Len(SelectSeq(deps, LAMBDA e : e.to = File(p)))
FanOut(deps, p) == Len(SelectSeq(deps, LAMBDA e : e.from = File(p)))

\* A call of a name that two symbols have leads nowhere.
CallEdges(symbols) ==
  LET Named(name) == {i \in DOMAIN symbols : symbols[i].name = name}
      Target(name) == symbols[CHOOSE i \in Named(name) : TRUE]
      Of(s) == LET known == SelectSeq(s.calls, LAMBDA name : Cardinality(Named(name)) = 1)
               IN [j \in DOMAIN known |->
                     Edge(s.id, Target(known[j]).id, "calls", 1)]
  IN FlattenSeq([i \in DOMAIN symbols |-> Of(symbols[i])])

Recent(days) == {i \in DOMAIN log : log[i].at >= Sub(now, days)}

Touching(p, days) == {i \in Recent(days) : p \in log[i].paths}

FileHistory(p) ==
  LET commits == Touching(p, Quarter)
  IN [churn_30d |-> Cardinality(commits \cap Recent(Month)), churn_90d |-> Cardinality(commits),
      authors |-> Cardinality({log[i].author : i \in commits}),
      changed |-> IF commits = {} THEN None ELSE log[Min(commits)].at]

CoChanged ==
  LET pairs == {pair \in Paths \X Paths : pair[1] < pair[2]}
      Weight(pair) == Cardinality(Touching(pair[1], Quarter) \cap Touching(pair[2], Quarter))
      seen == SetToSeq({pair \in pairs : Weight(pair) > 0})
  IN [i \in DOMAIN seen |-> Edge(File(seen[i][1]), File(seen[i][2]), "changed", Weight(seen[i]))]

Fact(a, deps) ==
  [path |-> a.path, complexity |-> a.total, max |-> a.max,
   symbols |-> Len(a.symbols), imports |-> Len(a.imports),
   fan_in |-> FanIn(deps, a.path), fan_out |-> FanOut(deps, a.path),
   history |-> FileHistory(a.path)]

IndexOf(analyses, deps) ==
  [facts |-> [i \in DOMAIN analyses |-> Fact(analyses[i], deps)],
   edges |-> CoChanged \o deps
               \o CallEdges(FlattenSeq([i \in DOMAIN analyses |-> analyses[i].symbols]))]

IndexAll(analyses) == IndexOf(analyses, Dependencies(analyses))

\* Without a repository there is no history, and all files are taken.
Index ==
  LET paths == SetToSortSeq(Paths, <)
  IN IndexAll([i \in DOMAIN paths |-> Analyze(paths[i], Sources[files[paths[i]]])])

\* Of a repository HEAD and which files differ, else the sizes of the files.
SnapshotId ==
  IF Git THEN [head |-> Len(log), dirty |-> {p \in Paths : files[p] # committed[p]}]
  ELSE [sizes |-> [p \in Paths |-> Sources[files[p]].size]]

-----------------------------------------------------------------------------
(* The workspace. *)

Change(p) ==
  /\ changes < MaxChanges
  /\ \E v \in DOMAIN Sources \ {files[p]} : files' = [files EXCEPT ![p] = v]
  /\ changes' = changes + 1
  /\ UNCHANGED <<now, committed, log, tables, graph, queue, work, shown, kills, history>>

Commit(author) ==
  /\ Git /\ files # committed
  /\ LET paths == {p \in Paths : files[p] # committed[p]}
     IN log' = <<[at |-> now, author |-> author, paths |-> paths]>> \o log
  /\ committed' = files
  /\ UNCHANGED <<now, files, tables, graph, queue, work, shown, changes, kills, history>>

Tick ==
  /\ now < MaxTime /\ now' = now + 1
  /\ UNCHANGED <<files, committed, log, tables, graph, queue, work, shown, changes, kills, history>>

-----------------------------------------------------------------------------
(* kaizen metrics index. *)

Latest == CHOOSE id \in DOMAIN snapshots : \A i \in DOMAIN snapshots : snapshots[i] <= snapshots[id]

\* A snapshot of this fingerprint that is the latest one stands for itself.
EnsureIndexed(c, force) ==
  /\ work[c] = Idle
  /\ LET known == ~force /\ snapshots # <<>> /\ Latest = SnapshotId
     IN work' = [work EXCEPT ![c] = [Idle EXCEPT !.step = IF known THEN "enqueue" ELSE "analyze",
                                                 !.id = SnapshotId, !.at = now]]
  /\ UNCHANGED <<tree, tables, graph, queue, shown, kills, history>>

\* The files are read after the fingerprint was taken.
ReadFiles(c) ==
  /\ work[c].step = "analyze"
  /\ \E index \in {Index} :
       work' = [work EXCEPT ![c].step = "graph", ![c].index = index,
                            ![c].facts = index.facts, ![c].edges = index.edges]
  /\ UNCHANGED <<tree, tables, graph, queue, shown, kills, history>>

\* The file is removed and made again; edges between unknown nodes fall away.
RebuildSidecar(c) ==
  /\ work[c].step = "graph"
  /\ graph' = [id |-> work[c].id,
               edges |-> SelectSeq(work[c].edges, LAMBDA e : \A end \in {e.from, e.to} : end[1] \in Paths)]
  /\ work' = [work EXCEPT ![c].step = "row"]
  /\ UNCHANGED <<tree, tables, queue, shown, kills, history>>

Saving(id) == {c \in Commands : work[c].id = id /\ work[c].step \in {"clear facts", "clear edges", "save"}}

\* The first of the statements of save_repo_snapshot, each on its own.
SaveRow(c) ==
  LET id == work[c].id IN
  /\ work[c].step = "row"
  /\ snapshots' = (id :> work[c].at) @@ snapshots
  /\ torn' = torn \cup {id}
  /\ work' = [d \in Commands |->
                IF d = c THEN [work[c] EXCEPT !.step = "clear facts", !.alone = Saving(id) = {}]
                ELSE IF d \in Saving(id) THEN [work[d] EXCEPT !.alone = FALSE] ELSE work[d]]
  /\ UNCHANGED <<tree, facts, edges, graph, queue, shown, kills, meant>>

Without(table, id) == [k \in {k \in DOMAIN table : k[1] # id} |-> table[k]]

ClearFacts(c) ==
  /\ work[c].step = "clear facts"
  /\ facts' = Without(facts, work[c].id)
  /\ work' = [work EXCEPT ![c].step = "clear edges"]
  /\ UNCHANGED <<tree, snapshots, edges, graph, queue, shown, kills, history>>

ClearEdges(c) ==
  /\ work[c].step = "clear edges"
  /\ edges' = Without(edges, work[c].id)
  /\ work' = [work EXCEPT ![c].step = "save"]
  /\ UNCHANGED <<tree, snapshots, facts, graph, queue, shown, kills, history>>

\* A row of the path is there: the command fails, its rows stay.
InsertFact(c) ==
  LET key == <<work[c].id, Head(work[c].facts).path>> IN
  /\ work[c].step = "save" /\ work[c].facts # <<>>
  /\ IF key \in DOMAIN facts
     THEN facts' = facts /\ work' = [work EXCEPT ![c] = Idle]
     ELSE /\ facts' = (key :> Head(work[c].facts)) @@ facts
          /\ work' = [work EXCEPT ![c].facts = Tail(@)]
  /\ UNCHANGED <<tree, snapshots, edges, graph, queue, shown, kills, history>>

Key(id, e) == <<id, e.from, e.to, e.kind>>

At(table, k) == IF k \in DOMAIN table THEN table[k] ELSE 0

InsertEdge_Replaces(c) ==
  /\ work[c].step = "save" /\ work[c].facts = <<>> /\ work[c].edges # <<>>
  /\ LET e == Head(work[c].edges)
     IN edges' = (Key(work[c].id, e) :> e.weight) @@ edges
  /\ work' = [work EXCEPT ![c].edges = Tail(@)]
  /\ UNCHANGED <<tree, snapshots, facts, graph, queue, shown, kills, history>>

\* Equal edges add up their weights.
InsertEdge(c) ==
  /\ work[c].step = "save" /\ work[c].facts = <<>> /\ work[c].edges # <<>>
  /\ LET e == Head(work[c].edges)
         key == Key(work[c].id, e)
     IN edges' = (key :> At(edges, key) + e.weight) @@ edges
  /\ work' = [work EXCEPT ![c].edges = Tail(@)]
  /\ UNCHANGED <<tree, snapshots, facts, graph, queue, shown, kills, history>>

Saved(c) ==
  LET id == work[c].id IN
  /\ work[c].step = "save" /\ work[c].facts = <<>> /\ work[c].edges = <<>>
  /\ torn' = IF work[c].alone THEN torn \ {id} ELSE torn
  /\ meant' = (id :> work[c].index) @@ meant
  /\ work' = [work EXCEPT ![c].step = "enqueue"]
  /\ UNCHANGED <<tree, tables, graph, queue, shown, kills>>

RowsOf(table, id) == {k \in DOMAIN table : k[1] = id}

Chunked(rows, k) == SubSeq(rows, (k - 1) * Chunk + 1, Min({k * Chunk, Len(rows)}))

Chunks(rows) == (Len(rows) + Chunk - 1) \div Chunk

\* The pending chunks of the snapshot are replaced.
Enqueue(c) ==
  LET id == work[c].id
      fs == SetToSeq({facts[k] : k \in RowsOf(facts, id)})
      es == SetToSeq({[key |-> k, weight |-> edges[k]] : k \in RowsOf(edges, id)})
      total == Max({1, Chunks(fs), Chunks(es)})
  IN /\ work[c].step = "enqueue"
     /\ queue' = (id :> [k \in 1..total |-> [facts |-> Chunked(fs, k), edges |-> Chunked(es, k)]]) @@ queue
     /\ work' = [work EXCEPT ![c] = Idle]
     /\ UNCHANGED <<tree, tables, graph, shown, kills, history>>

\* The process ends between two steps, or a step fails.
Kill(c) ==
  /\ work[c] # Idle /\ kills < MaxKills
  /\ kills' = kills + 1
  /\ work' = [work EXCEPT ![c] = Idle]
  /\ UNCHANGED <<tree, tables, graph, queue, shown, history>>

-----------------------------------------------------------------------------
(* kaizen metrics. *)

Ranked(rows, Value(_)) ==
  SubSeq(SetToSortSeq(rows, LAMBDA a, b :
           Value(a) > Value(b) \/ (Value(a) = Value(b) /\ a.path < b.path)),
         1, Min({Rows, Cardinality(rows)}))

BuildReport ==
  LET rows == {facts[k] : k \in RowsOf(facts, Latest)}
  IN [hottest |-> Ranked(rows, LAMBDA f : f.history.churn_30d * f.complexity),
      changed |-> Ranked(rows, LAMBDA f : f.history.churn_30d),
      complex |-> Ranked(rows, LAMBDA f : f.complexity),
      risky   |-> Ranked(rows, LAMBDA f : f.history.churn_30d * f.history.authors * f.complexity)]

Report ==
  /\ snapshots # <<>>
  /\ shown' = BuildReport
  /\ UNCHANGED <<tree, tables, graph, queue, work, kills, history>>

Next ==
  \/ Tick \/ Report
  \/ \E p \in Paths : Change(p)
  \/ \E author \in Authors : Commit(author)
  \/ \E c \in Commands :
       \/ \E force \in BOOLEAN : EnsureIndexed(c, force)
       \/ ReadFiles(c) \/ RebuildSidecar(c) \/ SaveRow(c) \/ ClearFacts(c) \/ ClearEdges(c)
       \/ InsertFact(c) \/ InsertEdge(c) \/ Saved(c) \/ Enqueue(c) \/ Kill(c)

Spec == Init /\ [][Next]_vars

-----------------------------------------------------------------------------
(* Rows belong to snapshots, of files and edges that the index knows.      *)
TypeOK ==
  /\ \A k \in DOMAIN facts : k[1] \in DOMAIN snapshots /\ k[2] \in Paths
  /\ \A k \in DOMAIN edges : k[1] \in DOMAIN snapshots /\ edges[k] > 0
  /\ DOMAIN meant \subseteq DOMAIN snapshots /\ torn \subseteq DOMAIN snapshots
  /\ kills \in 0..MaxKills /\ changes \in 0..MaxChanges

(* A snapshot whose last save ended, and met no other save of it, holds    *)
(* the facts and the weights of one index, however often it was saved, cut *)
(* or overlapped before (store/sqlite/metrics.rs:60-67).                   *)
SnapshotsAreWhole ==
  \A id \in DOMAIN meant \ torn :
    LET index == meant[id]
        keys == {Key(id, index.edges[i]) : i \in DOMAIN index.edges}
        Weight(k) == SumOf([i \in DOMAIN index.edges |->
                              IF Key(id, index.edges[i]) = k THEN index.edges[i].weight ELSE 0])
    IN /\ {facts[k] : k \in RowsOf(facts, id)} = ToSet(index.facts)
       /\ RowsOf(edges, id) = keys
       /\ \A k \in keys : edges[k] = Weight(k)
===============================================================================
