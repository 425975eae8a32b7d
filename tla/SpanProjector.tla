--------------------------- MODULE SpanProjector ---------------------------
(***************************************************************************)
(* The in-memory half of the incremental projector (store/projector.rs and *)
(* store/projector/*.rs) for one session, as pure operators.  A projector  *)
(* value pr holds                                                          *)
(*   order  the ids of the open spans, oldest first (a stack when calls    *)
(*          nest: the newest open span is the parent of the next one),     *)
(*   span   the builder of every open span,                                *)
(*   seen   the derived values already emitted (files, skills and rules    *)
(*          are deduplicated the same way and stand here as "paths"),      *)
(*   last   the seq of the last applied event, or None.                    *)
(* Every operator returns a new projector, or a projector with the deltas  *)
(* the store has to persist.  Usage totals (cost and tokens) are rolled up *)
(* alike and stand here as one measure, cost.                              *)
(***************************************************************************)
EXTENDS Integers, Sequences, FiniteSetsExt

CONSTANTS None,       \* Rust's Option::None
          CallIds,    \* tool_call_id values the agents send
          Tools,      \* tool names
          Paths       \* derived values extracted from payloads

Option(S) == S \cup {None}

\* span ids: an agent's call id, or the synthetic "session:seq:ts" of an event
SpanIds == CallIds \cup (Nat \X Nat)

ASSUME NoneAssumption == None \notin SpanIds \cup Tools \cup Paths \cup Nat

EventKinds ==
  {"start", "call", "result", "pre", "post", "stop", "note", "permission", "prompt"}

Event == [kind : EventKinds, seq : Nat, ts : Nat, tool : Option(Tools),
          id : Option(CallIds), cost : Option(Nat), path : Option(Paths)]

Builder == [tool : Option(Tools), hookStart : Option(Nat), hookEnd : Option(Nat),
            callStart : Option(Nat), resultEnd : Option(Nat), hasCall : BOOLEAN,
            hasEnd : BOOLEAN, cost : Option(Nat), parent : Option(SpanIds),
            depth : Nat, subtree : Option(Nat)]

Row == [tool : Option(Tools), status : {"done", "orphaned"}, cost : Option(Nat),
        parent : Option(SpanIds), depth : Nat, subtree : Option(Nat)]

Delta == [type : {"span"}, id : SpanIds, row : Row]
           \cup [type : {"path"}, path : Paths]

Empty == [order |-> <<>>, span |-> [x \in {} |-> None], seen |-> {}, last |-> None]

-----------------------------------------------------------------------------
(* Looking up open spans. *)

Synthetic(e) == <<e.seq, e.ts>>

\* Option::or, and the addition of optional totals (add_i64, add_u32)
Or(x, y)  == IF x # None THEN x ELSE y
Add(x, y) == IF y = None THEN x ELSE IF x = None THEN y ELSE x + y

SpanStart(b) == Or(b.hookStart, b.callStart)
SpanEnd(b)   == Or(b.hookEnd, b.resultEnd)

\* The newest open span among the ids in S, or None.
Newest(pr, S) ==
  LET at == {i \in DOMAIN pr.order : pr.order[i] \in S \cap DOMAIN pr.span}
  IN  IF at = {} THEN None ELSE pr.order[Max(at)]

FindOpenWithoutCall(pr, tool) ==
  IF tool = None THEN None
  ELSE Newest(pr, {x \in DOMAIN pr.span : pr.span[x].tool = tool /\ ~pr.span[x].hasCall})

FindOpenSameTool(pr, tool) ==
  IF tool = None THEN None
  ELSE Newest(pr, {x \in DOMAIN pr.span : pr.span[x].tool = tool /\ ~pr.span[x].hasEnd})

MatchSpan_IgnoresCallId(pr, e) ==
  Or(FindOpenSameTool(pr, e.tool), IF pr.order = <<>> THEN None ELSE pr.order[Len(pr.order)])

\* The span a result closes: its call id, else the newest open span of its
\* tool, else whatever span was opened last.
MatchSpan(pr, e) ==
  IF e.id \in DOMAIN pr.span THEN e.id
  ELSE Or(FindOpenSameTool(pr, e.tool),
          IF pr.order = <<>> THEN None ELSE pr.order[Len(pr.order)])

CallSpanId(pr, e) == Or(e.id, Or(FindOpenWithoutCall(pr, e.tool), Synthetic(e)))

HookSpanId(pr, e) == Or(e.id, Or(FindOpenSameTool(pr, e.tool), Synthetic(e)))

-----------------------------------------------------------------------------
(* Opening a span. *)

NewBuilder(pr, e, id) ==
  LET parent == Newest(pr, DOMAIN pr.span \ {id})
  IN  [tool |-> e.tool, hookStart |-> None, hookEnd |-> None, callStart |-> None,
       resultEnd |-> None, hasCall |-> FALSE, hasEnd |-> FALSE, cost |-> None,
       parent |-> parent,
       depth  |-> IF parent = None THEN 0 ELSE pr.span[parent].depth + 1,
       subtree |-> None]

OpenSpan(pr, e, id) ==
  IF id \in DOMAIN pr.span THEN pr.span[id] ELSE NewBuilder(pr, e, id)

Put_AlwaysPushes(pr, id, b) ==
  [pr EXCEPT !.span  = [x \in DOMAIN pr.span \cup {id} |-> IF x = id THEN b ELSE pr.span[x]],
             !.order = Append(pr.order, id)]

\* Replace the builder of an open span.
Update(pr, id, b) ==
  [pr EXCEPT !.span = [x \in DOMAIN pr.span |-> IF x = id THEN b ELSE pr.span[x]]]

\* Store builder b under id and push id on the stack unless it is there.
Put(pr, id, b) ==
  [pr EXCEPT !.span  = [x \in DOMAIN pr.span \cup {id} |-> IF x = id THEN b ELSE pr.span[x]],
             !.order = IF \E i \in DOMAIN pr.order : pr.order[i] = id
                       THEN pr.order ELSE Append(pr.order, id)]

-----------------------------------------------------------------------------
(* Closing a span. *)

\* s without its k-th element
Without(s, k) == [i \in 1 .. Len(s) - 1 |-> IF i < k THEN s[i] ELSE s[i + 1]]

Detach_KeepsChildParent(pr, id) ==
  [pr EXCEPT !.order = SelectSeq(pr.order, LAMBDA x : x # id),
             !.span  = [x \in DOMAIN pr.span \ {id} |-> pr.span[x]]]

\* Remove an open span: its child takes over its parent, and every span
\* opened after it moves up by one level (detach_chain).
Detach(pr, id) ==
  LET at   == {i \in DOMAIN pr.order : pr.order[i] = id}
      k    == Max(at)
      rest == Without(pr.order, k)
      Above(x) == \E i \in k .. Len(rest) : rest[i] = x
      Moved(x) ==
        [pr.span[x] EXCEPT
           !.parent = IF k <= Len(rest) /\ rest[k] = x THEN pr.span[id].parent ELSE @,
           !.depth  = IF Above(x) /\ @ > 0 THEN @ - 1 ELSE @]
  IN  IF at = {}
      THEN [pr EXCEPT !.span = [x \in DOMAIN pr.span \ {id} |-> pr.span[x]]]
      ELSE [pr EXCEPT !.order = rest,
                      !.span  = [x \in DOMAIN pr.span \ {id} |-> Moved(x)]]

\* Add a closed child's total to its parent, when the parent is still open.
AddChild(pr, parent, total) ==
  IF parent \notin DOMAIN pr.span THEN pr
  ELSE Update(pr, parent, [pr.span[parent] EXCEPT !.subtree = Add(@, total)])

Seeded(b) == Add(b.subtree, b.cost)

RowOf_WritesOpenSpans(b) ==
  [tool   |-> b.tool, status |-> IF SpanEnd(b) # None THEN "done" ELSE "open",
   cost   |-> b.cost, parent |-> b.parent, depth |-> b.depth, subtree |-> Seeded(b)]

RowOf(b) ==
  [tool   |-> b.tool,
   status |-> IF SpanStart(b) # None /\ SpanEnd(b) # None THEN "done" ELSE "orphaned",
   cost   |-> b.cost, parent |-> b.parent, depth |-> b.depth, subtree |-> Seeded(b)]

SpanClosed(id, b) == [type |-> "span", id |-> id, row |-> RowOf(b)]

\* remove_open followed by close_span, for an id that is open
Close(pr, id) ==
  [proj   |-> AddChild(Detach(pr, id), pr.span[id].parent, Seeded(pr.span[id])),
   deltas |-> <<SpanClosed(id, pr.span[id])>>]

-----------------------------------------------------------------------------
(* Applying one event. *)

ApplyCall(pr, e) ==
  LET id == CallSpanId(pr, e)
  IN  [proj   |-> Put(pr, id, [OpenSpan(pr, e, id) EXCEPT
                                 !.tool = e.tool, !.callStart = e.ts,
                                 !.hasCall = TRUE, !.cost = Or(e.cost, @)]),
       deltas |-> <<>>]

ApplyResult(pr, e) ==
  LET id == MatchSpan(pr, e)
      b  == [pr.span[id] EXCEPT !.resultEnd = e.ts, !.hasEnd = TRUE, !.cost = Or(e.cost, @)]
  IN  IF id \notin DOMAIN pr.span THEN [proj |-> pr, deltas |-> <<>>]
      ELSE Close(Update(pr, id, b), id)

ApplyHook(pr, e) ==
  LET id == HookSpanId(pr, e)
      b  == [OpenSpan(pr, e, id) EXCEPT
               !.tool      = Or(@, e.tool),
               !.hookStart = IF e.kind = "pre" THEN e.ts ELSE @,
               !.hookEnd   = IF e.kind = "post" THEN e.ts ELSE @,
               !.hasEnd    = @ \/ e.kind = "post"]
  IN  IF e.kind = "post" THEN Close(Put(pr, id, b), id)
      ELSE [proj |-> Put(pr, id, b), deltas |-> <<>>]

ApplySpanEvent(pr, e) ==
  CASE e.kind = "call"            -> ApplyCall(pr, e)
    [] e.kind = "result"          -> ApplyResult(pr, e)
    [] e.kind \in {"pre", "post"} -> ApplyHook(pr, e)
    [] e.kind \in {"start", "stop", "note", "permission", "prompt"} -> [proj |-> pr, deltas |-> <<>>]

\* Derived values are emitted once per session, before the span deltas.
FreshPath(pr, e) ==
  IF e.path = None \/ e.path \in pr.seen THEN <<>>
  ELSE <<[type |-> "path", path |-> e.path]>>

Seen(pr, e) == IF e.path = None THEN pr.seen ELSE pr.seen \cup {e.path}

Apply_SpanDeltasReplaceOthers(pr, e) ==
  LET res == ApplySpanEvent(pr, e)
  IN  [proj   |-> [order |-> res.proj.order, span |-> res.proj.span,
                  seen  |-> Seen(pr, e), last |-> e.seq],
       deltas |-> IF res.deltas = <<>> THEN FreshPath(pr, e) ELSE res.deltas]

Apply(pr, e) ==
  LET res == ApplySpanEvent(pr, e)
  IN  [proj   |-> [order |-> res.proj.order, span |-> res.proj.span,
                  seen  |-> Seen(pr, e), last |-> e.seq],
       deltas |-> FreshPath(pr, e) \o res.deltas]

-----------------------------------------------------------------------------
(* Closing spans without an event. *)

FlushSession_ForgetsOldest(pr) ==
  LET n == Len(pr.order)
  IN  [proj   |-> [pr EXCEPT !.order = <<>>, !.span = [x \in {} |-> None]],
       deltas |-> [i \in 1 .. n - 1 |->
                     SpanClosed(pr.order[n + 1 - i], pr.span[pr.order[n + 1 - i]])]]

\* Stop closes every open span, newest first; the spans are all taken out
\* before the first one is closed, so no total reaches a parent.
FlushSession(pr) ==
  LET n == Len(pr.order)
  IN  [proj   |-> [pr EXCEPT !.order = <<>>, !.span = [x \in {} |-> None]],
       deltas |-> [i \in 1 .. n |->
                     SpanClosed(pr.order[n + 1 - i], pr.span[pr.order[n + 1 - i]])]]

Expired(pr, now, ttl) ==
  {x \in DOMAIN pr.span : /\ SpanStart(pr.span[x]) # None
                          /\ now - SpanStart(pr.span[x]) > ttl}

-----------------------------------------------------------------------------
(* What a well-formed projector looks like. *)

TypeOKProjector(pr) ==
  /\ pr = [order |-> pr.order, span |-> pr.span, seen |-> pr.seen, last |-> pr.last]
  /\ pr.order \in Seq(SpanIds)
  /\ pr.span = [x \in DOMAIN pr.span |-> pr.span[x]]
  /\ DOMAIN pr.span \subseteq SpanIds
  /\ \A x \in DOMAIN pr.span : pr.span[x] \in Builder
  /\ pr.seen \subseteq Paths
  /\ pr.last \in Option(Nat)

\* The stack lists exactly the open spans, each once.
StackIsOpenSet(pr) ==
  /\ \A i, j \in DOMAIN pr.order : pr.order[i] = pr.order[j] => i = j
  /\ DOMAIN pr.span = {pr.order[i] : i \in DOMAIN pr.order}

\* Open spans form one chain: each is the child of the one below it.
OpenChain(pr) ==
  \A i \in DOMAIN pr.order :
    /\ pr.span[pr.order[i]].depth = i - 1
    /\ pr.span[pr.order[i]].parent = IF i = 1 THEN None ELSE pr.order[i - 1]

\* An open span has a start, so its time to live can run out, and no end.
OpenSpansCanExpire(pr) ==
  \A x \in DOMAIN pr.span : /\ SpanStart(pr.span[x]) # None
                            /\ SpanEnd(pr.span[x]) = None
                            /\ ~pr.span[x].hasEnd

WellFormed(pr) == StackIsOpenSet(pr) /\ OpenChain(pr) /\ OpenSpansCanExpire(pr)
=============================================================================
