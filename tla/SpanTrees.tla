------------------------------- MODULE SpanTrees -------------------------------
(***************************************************************************)
(* The tool spans of one session as the legacy mode (KAIZEN_PROJECTOR=     *)
(* legacy) rebuilds them from the log, and the span trees that handles     *)
(* read, whichever mode wrote the rows.  Matching and opening spans is     *)
(* shared with the projector; cost stands for every total.                 *)
(***************************************************************************)
EXTENDS SpanProjector, SequencesExt, TLC

CONSTANTS
  Handles,  \* store handles that read
  Writer,   \* the one that also writes
  Events,   \* the events that agents may send, each with its seq
  Limits,   \* row limits of limited trees
  TTL,      \* DEFAULT_ORPHAN_TTL_MS
  MaxU64

VARIABLES
  mode,   \* how the writer projects
  log,    \* the events of the session
  open,   \* the projector of the writer, always at the last seq: nobody else writes
  rows,   \* tool_spans: id -> row
  work,   \* what the writer has to do: its pc, the rows to write, and whether
          \* it drops its tree then
  seen,   \* the last seq that a handle read for a tree, or None
  cache,  \* the tree each handle keeps: the seq it belongs to
  shown   \* what a handle showed last: the rows it read and their tree

vars == <<mode, log, open, rows, work, seen, cache, shown>>

Function(pairs) == [x \in {p[1] : p \in pairs} |-> (CHOOSE p \in pairs : p[1] = x)[2]]

NoRows == Function({})

BySeq(S) == SetToSortSeq(S, LAMBDA e, f : e.seq < f.seq)

ByTime(S) == SetToSortSeq(S, LAMBDA e, f : e.ts < f.ts \/ (e.ts = f.ts /\ e.seq < f.seq))

LastSeq(S) == IF S = {} THEN None ELSE Max({e.seq : e \in S})

-----------------------------------------------------------------------------
(* The spans of a log.  Closed ones stay in the map and on the stack. *)

NewSpan(e) ==
  [NewBuilder(Empty, e, None) EXCEPT !.tool = e.tool]

Touch(pr, e, id) == IF id \in DOMAIN pr.span THEN pr.span[id] ELSE NewSpan(e)

HandleToolCall(pr, e) ==
  LET id == CallSpanId(pr, e)
  IN  Put(pr, id, [Touch(pr, e, id) EXCEPT !.tool = e.tool, !.callStart = e.ts,
                                           !.cost = Or(e.cost, @), !.hasCall = TRUE])

HandleToolResult_DropsCost(pr, e) ==
  LET id == MatchSpan(pr, e)
  IN  IF id \notin DOMAIN pr.span THEN pr
      ELSE Update(pr, id, [pr.span[id] EXCEPT !.resultEnd = e.ts, !.cost = e.cost,
                                              !.hasEnd = TRUE])

HandleToolResult(pr, e) ==
  LET id == MatchSpan(pr, e)
  IN  IF id \notin DOMAIN pr.span THEN pr
      ELSE Update(pr, id, [pr.span[id] EXCEPT !.resultEnd = e.ts, !.cost = Or(e.cost, @),
                                              !.hasEnd = TRUE])

HandleHook(pr, e) ==
  LET id == HookSpanId(pr, e)
  IN  Put(pr, id, [Touch(pr, e, id) EXCEPT
                     !.tool      = Or(@, e.tool),
                     !.hookStart = IF e.kind = "pre" THEN e.ts ELSE @,
                     !.hookEnd   = IF e.kind = "post" THEN e.ts ELSE @,
                     !.hasEnd    = @ \/ e.kind = "post"])

ApplyEvent(pr, e) ==
  CASE e.kind = "call"            -> HandleToolCall(pr, e)
    [] e.kind = "result"          -> HandleToolResult(pr, e)
    [] e.kind \in {"pre", "post"} -> HandleHook(pr, e)
    [] OTHER                      -> pr

BuildSpans(events) == FoldLeft(ApplyEvent, Empty, ByTime(events)).span

-----------------------------------------------------------------------------
(* Parents: the deepest span around, of several the first one. *)

Complete(b) == SpanStart(b) # None /\ SpanEnd(b) # None

SortsBefore(b, c) ==
  LET start(x) == Or(SpanStart(x), MaxU64)
      end(x)   == Or(SpanEnd(x), 0)
  IN  start(b) < start(c) \/ (start(b) = start(c) /\ end(b) > end(c))

\* The spans come out of a hash map, so the order of ties is any.
Orders(spans) ==
  {o \in [1..Cardinality(DOMAIN spans) -> DOMAIN spans] :
     /\ IsInjective(o)
     /\ \A i, j \in DOMAIN o : i < j => ~SortsBefore(spans[o[j]], spans[o[i]])}

\* merge_candidates
Prefer(a, b) ==
  IF a = None \/ b = None THEN Or(a, b)
  ELSE IF a.depth > b.depth \/ (a.depth = b.depth /\ a.index <= b.index) THEN a ELSE b

\* A Fenwick tree over the ranks of the ends, the latest end first.
Ends(spans) == {SpanEnd(spans[x]) : x \in {y \in DOMAIN spans : Complete(spans[y])}}

Rank(spans, end) == Cardinality({e \in Ends(spans) : e >= end})

\* rank & rank.wrapping_neg()
LowBit(rank) == Max({p \in {1, 2, 4, 8} : rank % p = 0})

InsertCandidate(tree, rank, candidate) ==
  LET up[r \in Nat] == IF r > Len(tree) THEN {} ELSE {r} \cup up[r + LowBit(r)]
  IN  [r \in DOMAIN tree |-> IF r \in up[rank] THEN Prefer(tree[r], candidate) ELSE tree[r]]

BestCandidate(tree, rank) ==
  LET best[r \in Nat] == IF r = 0 THEN None ELSE Prefer(tree[r], best[r - LowBit(r)])
  IN  best[rank]

AssignParents(spans, order) ==
  LET step(acc, i) ==
        LET b == acc.spans[order[i]]
            rank == Rank(spans, SpanEnd(b))
            p == BestCandidate(acc.tree, rank)
            placed == IF p = None THEN b ELSE [b EXCEPT !.parent = order[p.index], !.depth = p.depth + 1]
        IN  IF ~Complete(b) THEN acc
            ELSE [spans |-> [acc.spans EXCEPT ![order[i]] = placed],
                  tree |-> InsertCandidate(acc.tree, rank, [index |-> i, depth |-> placed.depth])]
      start == [spans |-> spans, tree |-> [r \in 1..Cardinality(Ends(spans)) |-> None]]
  IN  FoldLeft(step, start, [i \in DOMAIN order |-> i]).spans

\* From the deepest span up.
ComputeSubtreeCosts(spans) ==
  LET deepest == SetToSortSeq(DOMAIN spans, LAMBDA x, y : spans[x].depth > spans[y].depth)
      step(acc, x) == AddChild([span |-> acc], acc[x].parent, Seeded(acc[x])).span
  IN  FoldLeft(step, spans, deepest)

RowWithTimes(b) == [start |-> SpanStart(b), end |-> SpanEnd(b)] @@ RowOf(b)

\* The rows in the order they are written.
FinalSpanRecords(events, order) ==
  LET done == ComputeSubtreeCosts(AssignParents(BuildSpans(events), order))
  IN  [i \in DOMAIN order |-> <<order[i], RowWithTimes(done[order[i]])>>]

-----------------------------------------------------------------------------
(* The projector's rows. *)

Then(acc, res) == [proj |-> res.proj, deltas |-> acc.deltas \o res.deltas]

\* An event that is the last one: what has expired is closed in the order of a
\* hash map, and a Stop closes the rest.
Appended(e, expired) ==
  LET closed == FoldLeft(LAMBDA acc, x : Then(acc, Close(acc.proj, x)), Apply(open, e), expired)
  IN  IF e.kind = "stop" THEN Then(closed, FlushSession(closed.proj)) ELSE closed

ExpiryOrders(e) ==
  SetToSeqs(Expired(Apply(open, e).proj, e.ts, TTL))

\* replay_projector_session: nothing expires, and the end is flushed if the
\* session is done.
Replayed(events, done) ==
  LET all == FoldLeft(LAMBDA acc, e : Then(acc, Apply(acc.proj, e)),
                      [proj |-> Empty, deltas |-> <<>>], BySeq(events))
  IN  IF done THEN Then(all, FlushSession(all.proj)) ELSE all

\* The rows among the deltas, in the order they are written.
RowsOf(deltas) ==
  LET spans == SelectSeq(deltas, LAMBDA d : d.type = "span")
  IN  [i \in DOMAIN spans |-> <<spans[i].id, spans[i].row>>]

-----------------------------------------------------------------------------
(* The writer: one statement a step. *)

Idle == [pc |-> "idle", todo |-> <<>>, drop |-> FALSE]

Work(pc, todo, drop) == work' = [pc |-> pc, todo |-> todo, drop |-> drop]

Init ==
  /\ mode \in {"legacy", "incremental"} /\ log = {} /\ open = Empty /\ rows = NoRows
  /\ work = Idle
  /\ seen = [h \in Handles |-> None] /\ cache = [h \in Handles |-> None]
  /\ shown = None

\* A handle does one thing at a time.
Free(h) == seen[h] = None /\ (h = Writer => work.pc = "idle")

Replay_KeepsTree(done) ==
  LET res == Replayed(log', done)
  IN  open' = res.proj /\ Work("clear", RowsOf(res.deltas), FALSE)

\* The session's status is of whoever wrote it last.  The tree is dropped only if
\* the replay emits something.
Replay(done) ==
  LET res == Replayed(log', done)
  IN  open' = res.proj /\ Work("clear", RowsOf(res.deltas), res.deltas # <<>>)

\* append_event_inner up to the insert; a late event replays the session.
AppendEvent(e) ==
  /\ Free(Writer) /\ e \notin log /\ log' = log \cup {e}
  /\ IF mode = "legacy" THEN Work("load", <<>>, TRUE) /\ UNCHANGED open
     ELSE IF log # {} /\ e.seq <= LastSeq(log) THEN \E done \in BOOLEAN : Replay(done)
     ELSE \E expired \in ExpiryOrders(e) :
            LET res == Appended(e, expired)
            IN  open' = res.proj /\ Work("write", RowsOf(res.deltas), TRUE)
  /\ UNCHANGED <<mode, rows, seen, cache, shown>>

\* flush_projector_session, at the end of a scanned batch.
Flush ==
  LET res == FlushSession(open) IN
  /\ Free(Writer) /\ log # {}
  /\ IF mode = "legacy" THEN Work("load", <<>>, TRUE) /\ UNCHANGED open
     ELSE open' = res.proj /\ Work("write", RowsOf(res.deltas), res.deltas # <<>>)
  /\ UNCHANGED <<mode, log, rows, seen, cache, shown>>

LoadSessionEvents ==
  /\ work.pc = "load"
  /\ \E order \in Orders(BuildSpans(log)) : Work("clear", FinalSpanRecords(log, order), work.drop)
  /\ UNCHANGED <<mode, log, open, rows, seen, cache, shown>>

ClearSessionSpans ==
  /\ work.pc = "clear" /\ work' = [work EXCEPT !.pc = "write"] /\ rows' = NoRows
  /\ UNCHANGED <<mode, log, open, seen, cache, shown>>

UpsertSpan ==
  /\ work.pc = "write" /\ work.todo # <<>>
  /\ LET first == Head(work.todo)
     IN  rows' = (first[1] :> first[2]) @@ rows
  /\ work' = [work EXCEPT !.todo = Tail(@)]
  /\ UNCHANGED <<mode, log, open, seen, cache, shown>>

InvalidateSpanTreeCache ==
  /\ work.pc = "write" /\ work.todo = <<>> /\ work' = Idle
  /\ cache' = IF work.drop THEN [cache EXCEPT ![Writer] = None] ELSE cache
  /\ UNCHANGED <<mode, log, open, rows, seen, shown>>

-----------------------------------------------------------------------------
(* Trees. *)

\* Rows by depth, as far as the limit goes; the rest of the order is data.
Rows(limit) ==
  LET sorted == SetToSortSeq(DOMAIN rows, LAMBDA x, y : rows[x].depth < rows[y].depth)
  IN  SubSeq(sorted, 1, IF limit < Len(sorted) THEN limit ELSE Len(sorted))

RECURSIVE Assemble(_, _, _, _)

\* The nodes below id in preorder, each with its level; no node twice.
Assemble(id, order, done, stack) ==
  IF id \in done \/ id \in ToSet(stack) THEN [nodes |-> <<>>, done |-> done]
  ELSE LET children == SelectSeq(order, LAMBDA c : rows[c].parent = id)
           below == FoldLeft(LAMBDA acc, c :
                               LET sub == Assemble(c, order, acc.done, Append(stack, id))
                               IN  [nodes |-> acc.nodes \o sub.nodes, done |-> sub.done],
                             [nodes |-> <<>>, done |-> done], children)
       IN  [nodes |-> <<<<id, Len(stack)>>>> \o below.nodes, done |-> below.done \cup {id}]

BuildTree_RootsOnly(order) ==
  LET roots == SelectSeq(order, LAMBDA x : rows[x].parent = None)
  IN  FoldLeft(LAMBDA acc, x : LET sub == Assemble(x, order, acc.done, <<>>)
                               IN  [nodes |-> acc.nodes \o sub.nodes, done |-> sub.done],
               [nodes |-> <<>>, done |-> {}], roots).nodes

\* Roots, and spans whose parent is not among the rows; then what is left.
BuildTree(order) ==
  LET roots == SelectSeq(order, LAMBDA x : rows[x].parent \notin ToSet(order))
  IN  FoldLeft(LAMBDA acc, x : LET sub == Assemble(x, order, acc.done, <<>>)
                               IN  [nodes |-> acc.nodes \o sub.nodes, done |-> sub.done],
               [nodes |-> <<>>, done |-> {}], roots \o order).nodes

Show(order) ==
  shown' = [rows |-> [x \in ToSet(order) |-> rows[x]], tree |-> BuildTree(order)]

\* session_span_tree: first the last seq, then the rows unless a tree of it is kept.
SessionSpanTree(h) ==
  /\ Free(h) /\ log # {}
  /\ IF cache[h] # None /\ cache[h].seq = LastSeq(log)
     THEN shown' = cache[h].of /\ UNCHANGED seen
     ELSE seen' = [seen EXCEPT ![h] = LastSeq(log)] /\ UNCHANGED shown
  /\ UNCHANGED <<mode, log, open, rows, work, cache>>

QuerySessionSpanTree(h) ==
  /\ seen[h] # None /\ seen' = [seen EXCEPT ![h] = None]
  /\ Show(Rows(Cardinality(DOMAIN rows)))
  /\ cache' = [cache EXCEPT ![h] = [seq |-> seen[h], of |-> shown']]
  /\ UNCHANGED <<mode, log, open, rows, work>>

LimitedSessionSpanTree(h) ==
  /\ Free(h) /\ \E limit \in Limits : Show(Rows(limit))
  /\ UNCHANGED <<mode, log, open, rows, work, seen, cache>>

Next ==
  \/ \E e \in Events : AppendEvent(e)
  \/ Flush \/ LoadSessionEvents \/ ClearSessionSpans \/ UpsertSpan \/ InvalidateSpanTreeCache
  \/ \E h \in Handles : SessionSpanTree(h) \/ QuerySessionSpanTree(h) \/ LimitedSessionSpanTree(h)

Spec == Init /\ [][Next]_vars

-----------------------------------------------------------------------------
(* Properties. *)

(* Rows and handles have their types. *)
TypeOK ==
  /\ DOMAIN rows \subseteq SpanIds /\ log \subseteq Events
  /\ TypeOKProjector(open) /\ WellFormed(open)
  /\ work.pc \in {"idle", "load", "clear", "write"}
  /\ \A h \in Handles : seen[h] \in Option(Nat) /\ (seen[h] # None => Writer # h \/ work.pc = "idle")

Children(x) == {y \in DOMAIN rows : rows[y].parent = x}

\* A span lies in its parent, and in no span that is deeper than that.
NestedByTime ==
  \A x \in DOMAIN rows :
    LET r == rows[x]
        within(q) == q.start <= r.start /\ r.end <= q.end /\ <<q.start, q.end>> # <<r.start, r.end>>
        around == {y \in DOMAIN rows : rows[y].status = "done" /\ within(rows[y])}
    IN  IF r.status # "done" THEN r.parent = None /\ r.depth = 0
        ELSE IF r.parent = None THEN r.depth = 0 /\ around = {}
        ELSE LET p == rows[r.parent]
             IN  /\ p.status = "done" /\ p.start <= r.start /\ r.end <= p.end
                 /\ r.depth = p.depth + 1
                 /\ \A y \in around : rows[y].depth <= p.depth

TotalsAreSums ==
  \A x \in DOMAIN rows :
    rows[x].subtree = FoldSet(LAMBDA y, sum : Add(sum, rows[y].subtree), rows[x].cost, Children(x))

\* Spans that are all closed and do not overlap or touch.
WellNested ==
  \A x, y \in DOMAIN rows :
    LET a == rows[x]
        b == rows[y]
    IN  /\ a.status = "done" /\ b.status = "done"
        /\ x # y => \/ a.end < b.start \/ b.end < a.start
                    \/ (a.start < b.start /\ b.end < a.end)
                    \/ (b.start < a.start /\ a.end < b.end)

\* Then the projector writes the same rows, if seqs are in the order of time.
SameAsProjector ==
  (WellNested /\ BySeq(log) = ByTime(log)) =>
    LET rebuilt == RowsOf(Replayed(log, FALSE).deltas)
    IN  /\ {rebuilt[i][1] : i \in DOMAIN rebuilt} = DOMAIN rows
        /\ \A i \in DOMAIN rebuilt, f \in {"parent", "depth", "subtree"} :
             rebuilt[i][2][f] = rows[rebuilt[i][1]][f]

(***************************************************************************)
(* Rows that the legacy mode wrote are a forest by time, with the deepest  *)
(* span around as the parent (specs/span-hierarchy.qnt), totals that add   *)
(* up, and the rows of the projector where spans nest.                     *)
(***************************************************************************)
LegacyRowsAreRight ==
  (mode = "legacy" /\ work.pc = "idle") => NestedByTime /\ TotalsAreSums /\ SameAsProjector

\* Each row that was read is one node of the tree.
ShownOnce ==
  shown # None =>
    LET ids == [i \in DOMAIN shown.tree |-> shown.tree[i][1]]
    IN  IsInjective(ids) /\ ToSet(ids) = DOMAIN shown.rows

\* What the writer would show again is what the table holds, unless a late
\* event's replay emptied the table (event_projector.rs:62-64).
OwnTreeIsFresh ==
  (work.pc = "idle" /\ cache[Writer] # None /\ cache[Writer].seq = LastSeq(log)) =>
    cache[Writer].of.rows = rows \/ rows = NoRows

(***************************************************************************)
(* A tree holds every row its handle read exactly once, though rows are    *)
(* half written, wait for an open parent or are cut by a limit; and the    *)
(* writer keeps no old tree of the last seq, also when an event below it   *)
(* rewrote the rows, but for one case that the code leaves open: a replay  *)
(* that clears the rows and emits nothing keeps the tree                   *)
(* (session_span_tree, replay_projector_session).                         *)
(***************************************************************************)
TreesHoldEveryRow == ShownOnce /\ OwnTreeIsFresh
=============================================================================
