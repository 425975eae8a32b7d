-------------------------- MODULE EventStore_proofs --------------------------
(***************************************************************************)
(* Type correctness, well-formed projectors and complete derived rows, for *)
(* any number of handles, sessions and events, any bounds and any crashes. *)
(* The invariant IInv splits into what the database holds, what each       *)
(* handle remembers of each session, where each handle is in its append,   *)
(* and the bookkeeping; an action touches one or two of them.  PathsOK, on *)
(* top of it, says who still owes which derived row.                       *)
(*                                                                         *)
(* First come lemmas about the operators of SpanProjector: from a          *)
(* well-formed projector every operation leads to a well-formed one, and   *)
(* its deltas have the right shape; then about order: which spans lie      *)
(* below which, what an event closes, and that a projector that lacks some *)
(* of the open spans of another one still lacks no more after an event     *)
(* than those and the ones it has closed itself.                           *)
(***************************************************************************)
EXTENDS EventStore, SequenceTheorems, WellFoundedInduction, TLAPS

\* The part of well-formedness a span that has just ended still has: it is on
\* the stack, in the chain, and about to be closed.
Shape(pr) == TypeOKProjector(pr) /\ StackIsOpenSet(pr) /\ OpenChain(pr)

Good(pr) == TypeOKProjector(pr) /\ WellFormed(pr)

Top(pr) == IF pr.order = <<>> THEN None ELSE pr.order[Len(pr.order)]

Fresh(b) == SpanStart(b) # None /\ SpanEnd(b) = None /\ ~b.hasEnd

-----------------------------------------------------------------------------
(* The maximum of a bounded set of numbers. *)

\* A nonempty set of numbers up to n has a maximum, and Max finds it.
LEMMA MaxOfBounded ==
  ASSUME NEW n \in Nat, NEW S, S \subseteq 0 .. n, S # {}
  PROVE  Max(S) \in S /\ \A y \in S : y <= Max(S)
<1> DEFINE T == {n - i : i \in S}
<1>a. \A i \in S : i \in Int /\ n - i \in Nat
  OBVIOUS
<1>1. T \subseteq Nat /\ T # {}
  BY <1>a, Zenon
<1>2. PICK t \in T : \A y \in T : ~(<<y, t>> \in OpToRel(<, Nat))
  <2> HIDE DEF T
  <2> QED
    BY <1>1, NatLessThanWellFounded, WFMin
<1>3. \A y \in T : ~(y < t)
  <2> HIDE DEF T
  <2> QED
    BY <1>1, <1>2 DEF OpToRel
<1>4. PICK m \in S : t = n - m
  OBVIOUS
<1>5. \A y \in S : m >= y
  <2> TAKE y \in S
  <2>1. ~(n - y < n - m)
    BY <1>3, <1>4
  <2> QED
    BY <2>1, <1>a
<1>6. Max(S) \in S /\ \A y \in S : Max(S) >= y
  BY <1>5 DEF Max
<1> QED
  BY <1>6, <1>a

-----------------------------------------------------------------------------
(* Looking up. *)

\* Looking up returns an open span or nothing.
LEMMA NewestIsOpen ==
  ASSUME NEW pr, TypeOKProjector(pr), NEW S
  PROVE  Newest(pr, S) \in DOMAIN pr.span \cup {None}
<1> DEFINE at == {i \in DOMAIN pr.order : pr.order[i] \in S \cap DOMAIN pr.span}
<1>1. Len(pr.order) \in Nat /\ DOMAIN pr.order = 1 .. Len(pr.order)
  BY LenProperties DEF TypeOKProjector
<1>2. CASE at = {}
  BY <1>2 DEF Newest
<1>3. CASE at # {}
  <2>1. at \subseteq 0 .. Len(pr.order)
    BY <1>1
  <2>2. Max(at) \in at
    BY <1>1, <1>3, <2>1, MaxOfBounded
  <2> QED
    BY <1>3, <2>2 DEF Newest
<1> QED
  BY <1>2, <1>3

\* The parent of a span that is not open yet is the top of the stack.
LEMMA NewestIsTop ==
  ASSUME NEW pr, Shape(pr), NEW id, id \notin DOMAIN pr.span
  PROVE  Newest(pr, DOMAIN pr.span \ {id}) = Top(pr)
<1> DEFINE S  == DOMAIN pr.span \ {id}
           n  == Len(pr.order)
           at == {i \in DOMAIN pr.order : pr.order[i] \in S \cap DOMAIN pr.span}
<1>1. n \in Nat /\ DOMAIN pr.order = 1 .. n /\ pr.order \in Seq(SpanIds)
  BY LenProperties DEF Shape, TypeOKProjector
<1>2. at = 1 .. n
  BY <1>1 DEF Shape, StackIsOpenSet
<1>3. Newest(pr, S) = IF at = {} THEN None ELSE pr.order[Max(at)]
  BY DEF Newest
<1>4. CASE n = 0
  <2>1. pr.order = <<>> /\ at = {}
    BY <1>1, <1>2, <1>4, EmptySeq
  <2> QED
    BY <1>3, <2>1 DEF Top
<1>5. CASE n # 0
  <2>1. at # {} /\ at \subseteq 0 .. n /\ n \in at
    BY <1>1, <1>2, <1>5
  <2>2. Max(at) \in at /\ n <= Max(at)
    BY <1>1, <2>1, MaxOfBounded
  <2>3. Max(at) = n
    BY <1>1, <1>2, <2>2
  <2>4. pr.order # <<>>
    BY <1>1, <1>5
  <2> QED
    BY <1>3, <2>1, <2>3, <2>4 DEF Top
<1> QED
  BY <1>4, <1>5

\* The span a result, a call or a hook event is about has a span id.
LEMMA SpanIdsOfEvents ==
  ASSUME NEW pr, TypeOKProjector(pr), NEW e \in Event
  PROVE  CallSpanId(pr, e) \in SpanIds /\ HookSpanId(pr, e) \in SpanIds
<1>1. FindOpenWithoutCall(pr, e.tool) \in SpanIds \cup {None}
  BY NewestIsOpen DEF FindOpenWithoutCall, TypeOKProjector
<1>2. FindOpenSameTool(pr, e.tool) \in SpanIds \cup {None}
  BY NewestIsOpen DEF FindOpenSameTool, TypeOKProjector
<1>3. Synthetic(e) \in SpanIds
  BY DEF Event, Synthetic, SpanIds
<1>4. e.id \in SpanIds \cup {None}
  BY DEF Event, SpanIds, Option
<1> QED
  BY <1>1, <1>2, <1>3, <1>4 DEF CallSpanId, HookSpanId, Or

-----------------------------------------------------------------------------
(* Storing builders. *)

\* Replacing the builder of an open span keeps the stack and the chain.
LEMMA UpdateKeepsShape ==
  ASSUME NEW pr, Shape(pr), NEW id, id \in DOMAIN pr.span, NEW b \in Builder,
         b.parent = pr.span[id].parent, b.depth = pr.span[id].depth
  PROVE  /\ Shape(Update(pr, id, b))
         /\ DOMAIN Update(pr, id, b).span = DOMAIN pr.span
         /\ \A x \in DOMAIN pr.span :
              Update(pr, id, b).span[x] = IF x = id THEN b ELSE pr.span[x]
         /\ Update(pr, id, b).order = pr.order
         /\ Update(pr, id, b).seen = pr.seen
         /\ Update(pr, id, b).last = pr.last
<1> DEFINE u == Update(pr, id, b)
<1>1. u = [order |-> pr.order, seen |-> pr.seen, last |-> pr.last,
           span |-> [x \in DOMAIN pr.span |-> IF x = id THEN b ELSE pr.span[x]]]
  BY DEF Update, Shape, TypeOKProjector
<1>2. /\ u.order = pr.order /\ u.seen = pr.seen /\ u.last = pr.last
      /\ DOMAIN u.span = DOMAIN pr.span
      /\ u.span = [x \in DOMAIN u.span |-> u.span[x]]
      /\ \A x \in DOMAIN pr.span : u.span[x] = IF x = id THEN b ELSE pr.span[x]
      /\ u = [order |-> u.order, span |-> u.span, seen |-> u.seen, last |-> u.last]
  BY <1>1
<1> HIDE DEF u
<1>3. TypeOKProjector(u)
  BY <1>2 DEF Shape, TypeOKProjector
<1>4. StackIsOpenSet(u)
  BY <1>2 DEF Shape, StackIsOpenSet
<1>5. OpenChain(u)
  BY <1>2 DEF Shape, StackIsOpenSet, OpenChain
<1> QED
  BY <1>2, <1>3, <1>4, <1>5 DEF Shape, u

\* On an open span, Put is Update.
LEMMA PutOpen ==
  ASSUME NEW pr, Shape(pr), NEW id, id \in DOMAIN pr.span, NEW b
  PROVE  Put(pr, id, b) = Update(pr, id, b)
<1>1. \E i \in DOMAIN pr.order : pr.order[i] = id
  BY DEF Shape, StackIsOpenSet
<1>2. DOMAIN pr.span \cup {id} = DOMAIN pr.span
  OBVIOUS
<1> QED
  BY <1>1, <1>2 DEF Put, Update, Shape, TypeOKProjector

\* A span that is not open is pushed on the stack, as a child of its top.
LEMMA PutNew ==
  ASSUME NEW pr, Shape(pr), NEW id \in SpanIds, id \notin DOMAIN pr.span,
         NEW b \in Builder, b.parent = Top(pr), b.depth = Len(pr.order)
  PROVE  /\ Shape(Put(pr, id, b))
         /\ DOMAIN Put(pr, id, b).span = DOMAIN pr.span \cup {id}
         /\ \A x \in DOMAIN pr.span \cup {id} :
              Put(pr, id, b).span[x] = IF x = id THEN b ELSE pr.span[x]
         /\ Put(pr, id, b).seen = pr.seen
         /\ Put(pr, id, b).last = pr.last
<1> DEFINE u == Put(pr, id, b)
           n == Len(pr.order)
<1>1. n \in Nat /\ DOMAIN pr.order = 1 .. n /\ pr.order \in Seq(SpanIds)
  BY LenProperties DEF Shape, TypeOKProjector
<1>2. ~\E i \in DOMAIN pr.order : pr.order[i] = id
  BY DEF Shape, StackIsOpenSet
<1>3. u = [order |-> Append(pr.order, id), seen |-> pr.seen, last |-> pr.last,
           span |-> [x \in DOMAIN pr.span \cup {id} |-> IF x = id THEN b ELSE pr.span[x]]]
  <2>1. (IF \E i \in DOMAIN pr.order : pr.order[i] = id THEN pr.order ELSE Append(pr.order, id))
          = Append(pr.order, id)
    BY <1>2
  <2>2. u = [pr EXCEPT !.span  = [x \in DOMAIN pr.span \cup {id} |->
                                    IF x = id THEN b ELSE pr.span[x]],
                       !.order = Append(pr.order, id)]
    BY <2>1, Zenon DEF Put
  <2> HIDE DEF u
  <2> QED
    BY <2>2 DEF Shape, TypeOKProjector
<1>4. /\ u.order = Append(pr.order, id) /\ u.seen = pr.seen /\ u.last = pr.last
      /\ DOMAIN u.span = DOMAIN pr.span \cup {id}
      /\ u.span = [x \in DOMAIN u.span |-> u.span[x]]
      /\ \A x \in DOMAIN pr.span \cup {id} : u.span[x] = IF x = id THEN b ELSE pr.span[x]
      /\ u = [order |-> u.order, span |-> u.span, seen |-> u.seen, last |-> u.last]
  BY <1>3
<1> HIDE DEF u
<1>5. /\ u.order \in Seq(SpanIds) /\ DOMAIN u.order = 1 .. n + 1
      /\ \A i \in 1 .. n : u.order[i] = pr.order[i]
      /\ u.order[n + 1] = id
  BY <1>1, <1>4
<1>6. TypeOKProjector(u)
  BY <1>4, <1>5 DEF Shape, TypeOKProjector
<1>7. StackIsOpenSet(u)
  <2>1. \A i, j \in DOMAIN u.order : u.order[i] = u.order[j] => i = j
    <3>1. \A i, j \in 1 .. n : u.order[i] = u.order[j] => i = j
      BY <1>1, <1>5 DEF Shape, StackIsOpenSet
    <3>2. \A i \in 1 .. n : u.order[i] # u.order[n + 1]
      BY <1>1, <1>2, <1>5 DEF Shape, StackIsOpenSet
    <3>3. \A i \in 1 .. n + 1 : i \in 1 .. n \/ i = n + 1
      BY <1>1
    <3> QED
      BY <1>5, <3>1, <3>2, <3>3
  <2>2. \A i \in DOMAIN u.order : u.order[i] \in DOMAIN u.span
    BY <1>1, <1>4, <1>5 DEF Shape, StackIsOpenSet
  <2>3. \A x \in DOMAIN u.span : \E i \in DOMAIN u.order : x = u.order[i]
    <3>1. \A x \in DOMAIN pr.span : \E i \in 1 .. n : x = pr.order[i]
      BY <1>1 DEF Shape, StackIsOpenSet
    <3>2. \A x \in DOMAIN pr.span : \E i \in 1 .. n : x = u.order[i]
      BY <1>5, <3>1
    <3> QED
      BY <1>1, <1>4, <1>5, <3>2
  <2> QED
    BY <2>1, <2>2, <2>3 DEF StackIsOpenSet
<1>8. OpenChain(u)
  <2> SUFFICES ASSUME NEW i \in DOMAIN u.order
               PROVE  /\ u.span[u.order[i]].depth = i - 1
                      /\ u.span[u.order[i]].parent = IF i = 1 THEN None ELSE u.order[i - 1]
    BY DEF OpenChain
  <2>1. CASE i \in 1 .. n
    <3>a. u.order[i] = pr.order[i] /\ pr.order[i] \in DOMAIN pr.span
      BY <1>1, <1>5, <2>1 DEF Shape, StackIsOpenSet
    <3>1. u.span[u.order[i]] = pr.span[pr.order[i]]
      BY <1>4, <3>a
    <3> QED
      BY <1>1, <1>5, <2>1, <3>1 DEF Shape, OpenChain
  <2>2. CASE i = n + 1
    <3>1. u.span[u.order[i]] = b
      BY <1>4, <1>5, <2>2
    <3>2. Top(pr) = IF n = 0 THEN None ELSE pr.order[n]
      BY <1>1, EmptySeq DEF Top
    <3> QED
      BY <1>1, <1>5, <2>2, <3>1, <3>2
  <2> QED
    BY <1>1, <1>5, <2>1, <2>2
<1> QED
  BY <1>4, <1>6, <1>7, <1>8 DEF Shape, u

-----------------------------------------------------------------------------
(* Closing spans. *)

\* Taking a span out of the stack relinks its child and lifts all above it:
\* the rest is again one chain, and only parents and depths changed.
LEMMA DetachKeepsShape ==
  ASSUME NEW pr, Shape(pr), NEW id, id \in DOMAIN pr.span
  PROVE  /\ Shape(Detach(pr, id))
         /\ DOMAIN Detach(pr, id).span = DOMAIN pr.span \ {id}
         /\ \A x \in DOMAIN pr.span \ {id} : Fresh(pr.span[x]) => Fresh(Detach(pr, id).span[x])
         /\ Detach(pr, id).seen = pr.seen
         /\ Detach(pr, id).last = pr.last
<1> DEFINE n    == Len(pr.order)
           at   == {i \in DOMAIN pr.order : pr.order[i] = id}
           k    == Max(at)
           rest == Without(pr.order, k)
           Above(x) == \E i \in k .. Len(rest) : rest[i] = x
           Moved(x) ==
             [pr.span[x] EXCEPT
                !.parent = IF k <= Len(rest) /\ rest[k] = x THEN pr.span[id].parent ELSE @,
                !.depth  = IF Above(x) /\ @ > 0 THEN @ - 1 ELSE @]
           u    == Detach(pr, id)
<1>1. n \in Nat /\ DOMAIN pr.order = 1 .. n /\ pr.order \in Seq(SpanIds)
  BY LenProperties DEF Shape, TypeOKProjector
<1>2. at # {} /\ at \subseteq 0 .. n
  BY <1>1 DEF Shape, StackIsOpenSet
<1>3. k \in 1 .. n /\ pr.order[k] = id
  <2>1. k \in at
    BY <1>1, <1>2, MaxOfBounded
  <2> QED
    BY <1>1, <2>1
<1>4. u = [order |-> rest, seen |-> pr.seen, last |-> pr.last,
           span |-> [x \in DOMAIN pr.span \ {id} |-> Moved(x)]]
  BY <1>2 DEF Detach, Shape, TypeOKProjector
<1> HIDE DEF k, at
<1>5. /\ rest \in Seq(SpanIds) /\ Len(rest) = n - 1 /\ DOMAIN rest = 1 .. n - 1
      /\ \A i \in 1 .. n - 1 : rest[i] = IF i < k THEN pr.order[i] ELSE pr.order[i + 1]
  <2>1. rest = [i \in 1 .. n - 1 |-> IF i < k THEN pr.order[i] ELSE pr.order[i + 1]]
    BY <1>1 DEF Without
  <2>2. \A i \in 1 .. n : pr.order[i] \in SpanIds
    BY <1>1
  <2>3. n - 1 \in Nat
    BY <1>1, <1>3
  <2>4. rest \in [1 .. n - 1 -> SpanIds]
    BY <1>1, <1>3, <2>1, <2>2
  <2>5. rest \in Seq(SpanIds)
    BY <2>3, <2>4, SeqDef
  <2>6. Len(rest) = n - 1
    BY <2>3, <2>4, <2>5, LenProperties
  <2> QED
    BY <2>1, <2>5, <2>6
<1> DEFINE from(i) == IF i < k THEN i ELSE i + 1
<1>5a. \A i \in 1 .. n - 1 : from(i) \in 1 .. n /\ rest[i] = pr.order[from(i)]
  BY <1>1, <1>3, <1>5
<1>5b. \A i, j \in 1 .. n - 1 : from(i) = from(j) => i = j
  BY <1>1, <1>3
<1>6. \A x \in DOMAIN pr.span : \E j \in 1 .. n : x = pr.order[j]
  BY <1>1 DEF Shape, StackIsOpenSet
<1>7. \A i, j \in 1 .. n : pr.order[i] = pr.order[j] => i = j
  BY <1>1 DEF Shape, StackIsOpenSet
<1>7a. \A i, j \in 1 .. n - 1 : rest[i] = rest[j] => i = j
  <2> HIDE DEF from, rest
  <2> QED
    BY <1>5a, <1>5b, <1>7
<1>8. \A i \in 1 .. n : /\ pr.order[i] \in DOMAIN pr.span
                        /\ pr.span[pr.order[i]] \in Builder
                        /\ pr.span[pr.order[i]].depth = i - 1
                        /\ pr.span[pr.order[i]].parent = IF i = 1 THEN None ELSE pr.order[i - 1]
  BY <1>1 DEF Shape, StackIsOpenSet, OpenChain, TypeOKProjector
<1> HIDE DEF rest
<1>9. \A i \in 1 .. n - 1 :
        /\ rest[i] \in DOMAIN pr.span \ {id}
        /\ i < k => Moved(rest[i]) = pr.span[rest[i]]
        /\ i >= k => Moved(rest[i]) = [pr.span[rest[i]] EXCEPT
                                         !.parent = IF i = 1 THEN None ELSE rest[i - 1],
                                         !.depth  = i - 1]
  <2> SUFFICES ASSUME NEW i \in 1 .. n - 1
               PROVE  /\ rest[i] \in DOMAIN pr.span \ {id}
                      /\ i < k => Moved(rest[i]) = pr.span[rest[i]]
                      /\ i >= k => Moved(rest[i]) =
                           [pr.span[rest[i]] EXCEPT
                              !.parent = IF i = 1 THEN None ELSE rest[i - 1],
                              !.depth  = i - 1]
    OBVIOUS
  <2>1. \A j \in 1 .. n - 1 : rest[j] = rest[i] => j = i
    BY <1>7a
  <2>2. Above(rest[i]) <=> i >= k
    BY <1>1, <1>3, <1>5, <2>1
  <2>3. (k <= Len(rest) /\ rest[k] = rest[i]) <=> i = k
    BY <1>1, <1>3, <1>5, <2>1
  <2>4. CASE i < k
    <3>1. rest[i] = pr.order[i] /\ pr.order[i] # id
      BY <1>1, <1>3, <1>5, <1>7, <2>4
    <3>2. ~Above(rest[i]) /\ ~(k <= Len(rest) /\ rest[k] = rest[i])
      BY <1>1, <1>3, <2>2, <2>3, <2>4
    <3>3. pr.span[rest[i]] \in Builder
      BY <1>1, <1>8, <3>1
    <3>4. Moved(rest[i]) = pr.span[rest[i]]
      BY <3>2, <3>3 DEF Builder
    <3>5. rest[i] \in DOMAIN pr.span \ {id}
      BY <1>1, <1>8, <3>1
    <3>6. ~(i >= k)
      BY <1>3, <2>4
    <3> QED
      BY <3>4, <3>5, <3>6, Zenon
  <2>5. CASE i >= k
    <3>1. rest[i] = pr.order[i + 1] /\ pr.order[i + 1] # id /\ i + 1 \in 1 .. n
      BY <1>1, <1>3, <1>5, <1>7, <2>5
    <3>2. Above(rest[i])
      BY <2>2, <2>5
    <3>3. /\ pr.span[rest[i]] \in Builder /\ pr.span[rest[i]].depth = i
          /\ pr.span[rest[i]].parent = pr.order[i] /\ rest[i] \in DOMAIN pr.span
      BY <1>1, <1>8, <3>1
    <3>4. pr.span[id].parent = IF k = 1 THEN None ELSE pr.order[k - 1]
      BY <1>3, <1>8
    <3>5. (IF k <= Len(rest) /\ rest[k] = rest[i] THEN pr.span[id].parent
           ELSE pr.span[rest[i]].parent) = IF i = 1 THEN None ELSE rest[i - 1]
      <4>1. CASE i = k
        BY <1>1, <1>3, <1>5, <2>3, <3>4, <4>1
      <4>2. CASE i > k
        BY <1>1, <1>3, <1>5, <2>3, <3>3, <4>2
      <4> QED
        BY <1>3, <2>5, <4>1, <4>2
    <3>6. (IF Above(rest[i]) /\ pr.span[rest[i]].depth > 0 THEN pr.span[rest[i]].depth - 1
           ELSE pr.span[rest[i]].depth) = i - 1
      BY <3>2, <3>3
    <3>7. ~(i < k)
      BY <1>3, <2>5
    <3>8. Moved(rest[i]) = [pr.span[rest[i]] EXCEPT
                              !.parent = IF i = 1 THEN None ELSE rest[i - 1],
                              !.depth  = i - 1]
      <4> HIDE DEF Above
      <4> QED
        BY <3>5, <3>6, Zenon
    <3> QED
      BY <3>1, <3>3, <3>7, <3>8
  <2> QED
    BY <1>1, <1>3, <2>4, <2>5
<1> HIDE DEF Moved
<1>10. /\ u.order = rest /\ u.seen = pr.seen /\ u.last = pr.last
       /\ DOMAIN u.span = DOMAIN pr.span \ {id}
       /\ u.span = [x \in DOMAIN u.span |-> u.span[x]]
       /\ \A x \in DOMAIN pr.span \ {id} : u.span[x] = Moved(x)
       /\ u = [order |-> u.order, span |-> u.span, seen |-> u.seen, last |-> u.last]
  BY <1>4
<1> HIDE DEF u
<1>11. \A x \in DOMAIN pr.span \ {id} : \E i \in 1 .. n - 1 : x = rest[i]
  <2> SUFFICES ASSUME NEW x \in DOMAIN pr.span \ {id}
               PROVE  \E i \in 1 .. n - 1 : x = rest[i]
    OBVIOUS
  <2>1. PICK j \in 1 .. n : x = pr.order[j]
    BY <1>6
  <2>2. CASE j < k
    BY <1>1, <1>3, <1>5, <2>1, <2>2
  <2>3. CASE j > k
    <3>1. j - 1 \in 1 .. n - 1 /\ rest[j - 1] = x
      BY <1>1, <1>3, <1>5, <2>1, <2>3
    <3> QED
      BY <3>1
  <2> QED
    BY <1>3, <2>1, <2>2, <2>3
<1>12. \A i \in 1 .. n - 1 :
         /\ u.span[rest[i]] \in Builder
         /\ u.span[rest[i]].depth = i - 1
         /\ u.span[rest[i]].parent = IF i = 1 THEN None ELSE rest[i - 1]
         /\ Fresh(pr.span[rest[i]]) => Fresh(u.span[rest[i]])
  <2> SUFFICES ASSUME NEW i \in 1 .. n - 1
               PROVE  /\ u.span[rest[i]] \in Builder
                      /\ u.span[rest[i]].depth = i - 1
                      /\ u.span[rest[i]].parent = IF i = 1 THEN None ELSE rest[i - 1]
                      /\ Fresh(pr.span[rest[i]]) => Fresh(u.span[rest[i]])
    OBVIOUS
  <2>1. u.span[rest[i]] = Moved(rest[i])
    BY <1>9, <1>10
  <2>2. pr.span[rest[i]] \in Builder
    BY <1>9 DEF Shape, TypeOKProjector
  <2>3. CASE i < k
    <3>1. u.span[rest[i]] = pr.span[pr.order[i]] /\ rest[i] = pr.order[i]
      BY <1>1, <1>5, <1>9, <2>1, <2>3
    <3>2. i # 1 => rest[i - 1] = pr.order[i - 1]
      BY <1>1, <1>3, <1>5, <2>3
    <3> QED
      BY <1>1, <1>8, <3>1, <3>2
  <2>4. CASE i >= k
    <3>1. u.span[rest[i]] = [pr.span[rest[i]] EXCEPT
                               !.parent = IF i = 1 THEN None ELSE rest[i - 1],
                               !.depth  = i - 1]
      BY <1>3, <1>9, <2>1, <2>4
    <3>2. (IF i = 1 THEN None ELSE rest[i - 1]) \in SpanIds \cup {None} /\ i - 1 \in Nat
      BY <1>1, <1>5
    <3> QED
      BY <2>2, <3>1, <3>2 DEF Builder, Option, Fresh, SpanStart, SpanEnd, Or
  <2> QED
    BY <1>3, <2>3, <2>4
<1>13. TypeOKProjector(u)
  BY <1>5, <1>10, <1>11, <1>12 DEF Shape, TypeOKProjector
<1>14. StackIsOpenSet(u)
  <2>1. \A i, j \in DOMAIN u.order : u.order[i] = u.order[j] => i = j
    BY <1>5, <1>7a, <1>10
  <2>2. \A i \in DOMAIN u.order : u.order[i] \in DOMAIN u.span
    BY <1>5, <1>9, <1>10
  <2>3. \A x \in DOMAIN u.span : \E i \in DOMAIN u.order : x = u.order[i]
    BY <1>5, <1>10, <1>11
  <2> QED
    BY <2>1, <2>2, <2>3 DEF StackIsOpenSet
<1>15. OpenChain(u)
  BY <1>5, <1>10, <1>12 DEF OpenChain
<1> QED
  BY <1>10, <1>11, <1>12, <1>13, <1>14, <1>15 DEF Shape, u

\* A total added to an open parent changes nothing but the total.
LEMMA AddChildKeepsShape ==
  ASSUME NEW pr, Shape(pr), NEW parent, NEW total \in Option(Nat)
  PROVE  /\ Shape(AddChild(pr, parent, total))
         /\ DOMAIN AddChild(pr, parent, total).span = DOMAIN pr.span
         /\ \A x \in DOMAIN pr.span :
              Fresh(pr.span[x]) => Fresh(AddChild(pr, parent, total).span[x])
         /\ AddChild(pr, parent, total).seen = pr.seen
         /\ AddChild(pr, parent, total).last = pr.last
<1>1. CASE parent \notin DOMAIN pr.span
  BY <1>1 DEF AddChild
<1>2. CASE parent \in DOMAIN pr.span
  <2> DEFINE old == pr.span[parent]
             b   == [old EXCEPT !.subtree = Add(old.subtree, total)]
  <2>1. old \in Builder
    BY <1>2 DEF Shape, TypeOKProjector
  <2>2. Add(old.subtree, total) \in Option(Nat)
    BY <2>1 DEF Builder, Option, Add
  <2>3. b \in Builder /\ b.parent = old.parent /\ b.depth = old.depth /\ (Fresh(old) => Fresh(b))
    BY <2>1, <2>2 DEF Builder, Fresh, SpanStart, SpanEnd
  <2>4. AddChild(pr, parent, total) = Update(pr, parent, b)
    BY <1>2 DEF AddChild
  <2> HIDE DEF b
  <2> QED
    BY <1>2, <2>3, <2>4, UpdateKeepsShape
<1> QED
  BY <1>1, <1>2

\* What a closed span leaves behind is a row.
LEMMA RowOfBuilder ==
  ASSUME NEW b \in Builder
  PROVE  RowOf(b) \in Row /\ Seeded(b) \in Option(Nat)
<1>1. Seeded(b) \in Option(Nat)
  BY DEF Seeded, Add, Builder, Option
<1> QED
  BY <1>1 DEF RowOf, Builder, Row

\* The row of a closed span is a delta the store can persist.
LEMMA SpanClosedIsDelta ==
  ASSUME NEW b \in Builder, NEW id \in SpanIds
  PROVE  SpanClosed(id, b) \in Delta
BY RowOfBuilder DEF SpanClosed, Delta

\* Closing a span of a projector in which only that span may have ended.
LEMMA CloseKeepsGood ==
  ASSUME NEW pr, Shape(pr), NEW id, id \in DOMAIN pr.span,
         \A x \in DOMAIN pr.span \ {id} : Fresh(pr.span[x])
  PROVE  /\ Good(Close(pr, id).proj)
         /\ Close(pr, id).deltas \in Seq(Delta)
         /\ Close(pr, id).deltas = <<SpanClosed(id, pr.span[id])>>
         /\ DOMAIN Close(pr, id).proj.span = DOMAIN pr.span \ {id}
<1> DEFINE d == Detach(pr, id)
           b == pr.span[id]
           u == AddChild(d, b.parent, Seeded(b))
<1>1. b \in Builder /\ id \in SpanIds
  BY DEF Shape, TypeOKProjector
<1>2. Seeded(b) \in Option(Nat)
  BY <1>1, RowOfBuilder
<1>3. /\ Shape(d) /\ DOMAIN d.span = DOMAIN pr.span \ {id}
      /\ \A x \in DOMAIN d.span : Fresh(d.span[x])
  BY DetachKeepsShape
<1>4. Close(pr, id).proj = u /\ Close(pr, id).deltas = <<SpanClosed(id, b)>>
  BY DEF Close
<1> HIDE DEF d, b
<1>5. /\ Shape(u) /\ DOMAIN u.span = DOMAIN pr.span \ {id}
      /\ \A x \in DOMAIN u.span : Fresh(u.span[x])
  BY <1>2, <1>3, AddChildKeepsShape
<1>6. SpanClosed(id, b) \in Delta
  BY <1>1, SpanClosedIsDelta
<1> HIDE DEF u
<1>7. Good(u)
  BY <1>5 DEF Good, Shape, WellFormed, OpenSpansCanExpire, Fresh
<1> QED
  BY <1>4, <1>5, <1>6, <1>7 DEF b

-----------------------------------------------------------------------------
(* Events. *)

\* What Good says, part by part.
LEMMA GoodIsShape ==
  ASSUME NEW pr
  PROVE  Good(pr) <=> Shape(pr) /\ \A x \in DOMAIN pr.span : Fresh(pr.span[x])
BY DEF Good, Shape, WellFormed, OpenSpansCanExpire, Fresh

\* A projector that was just reset is good.
LEMMA EmptyIsGood == Good(Empty)
<1>1. Empty.order = <<>> /\ DOMAIN Empty.order = {} /\ Empty.order \in Seq(SpanIds)
  BY DEF Empty
<1>2. DOMAIN Empty.span = {} /\ Empty.seen = {} /\ Empty.last = None
  BY DEF Empty
<1>3. TypeOKProjector(Empty)
  BY <1>1, <1>2 DEF TypeOKProjector, Empty, Option
<1> QED
  BY <1>1, <1>2, <1>3
     DEF Good, WellFormed, StackIsOpenSet, OpenChain, OpenSpansCanExpire

\* A builder just made for an event hangs below the top of the stack.
LEMMA NewBuilderOnTop ==
  ASSUME NEW pr, Shape(pr), NEW e \in Event, NEW id, id \notin DOMAIN pr.span
  PROVE  /\ NewBuilder(pr, e, id) \in Builder
         /\ NewBuilder(pr, e, id).parent = Top(pr)
         /\ NewBuilder(pr, e, id).depth = Len(pr.order)
         /\ SpanEnd(NewBuilder(pr, e, id)) = None
         /\ ~NewBuilder(pr, e, id).hasEnd
<1> DEFINE n == Len(pr.order)
           t == Top(pr)
           depth == IF t = None THEN 0 ELSE pr.span[t].depth + 1
<1>1. n \in Nat /\ DOMAIN pr.order = 1 .. n /\ pr.order \in Seq(SpanIds)
  BY LenProperties DEF Shape, TypeOKProjector
<1>2. Newest(pr, DOMAIN pr.span \ {id}) = t
  BY NewestIsTop
<1>3. t \in Option(SpanIds) /\ depth = n
  <2>1. CASE n = 0
    BY <1>1, <2>1, EmptySeq DEF Top, Option
  <2>2. CASE n # 0
    <3>1. t = pr.order[n] /\ t \in SpanIds
      BY <1>1, <2>2, EmptySeq DEF Top
    <3>2. pr.span[t].depth = n - 1
      BY <1>1, <2>2, <3>1 DEF Shape, OpenChain
    <3>3. t # None
      BY <3>1, NoneAssumption
    <3> QED
      BY <1>1, <3>1, <3>2, <3>3 DEF Option
  <2> QED
    BY <2>1, <2>2
<1>4. NewBuilder(pr, e, id) =
        [tool |-> e.tool, hookStart |-> None, hookEnd |-> None, callStart |-> None,
         resultEnd |-> None, hasCall |-> FALSE, hasEnd |-> FALSE, cost |-> None,
         parent |-> t, depth |-> n, subtree |-> None]
  BY <1>2, <1>3 DEF NewBuilder
<1> HIDE DEF t, depth
<1> QED
  BY <1>1, <1>3, <1>4 DEF Builder, Option, Event, SpanEnd, Or, t

\* The builder an event starts from: the one of the open span, or a new one.
LEMMA OpenSpanIsBuilder ==
  ASSUME NEW pr, Good(pr), NEW e \in Event, NEW id \in SpanIds
  PROVE  /\ OpenSpan(pr, e, id) \in Builder
         /\ SpanEnd(OpenSpan(pr, e, id)) = None
         /\ ~OpenSpan(pr, e, id).hasEnd
<1>1. CASE id \in DOMAIN pr.span
  BY <1>1 DEF OpenSpan, Good, WellFormed, OpenSpansCanExpire, TypeOKProjector
<1>2. CASE id \notin DOMAIN pr.span
  BY <1>2, NewBuilderOnTop, GoodIsShape DEF OpenSpan
<1> QED
  BY <1>1, <1>2

\* Storing it back with its parent and depth keeps the stack and the chain.
LEMMA PutOpenSpan ==
  ASSUME NEW pr, Good(pr), NEW e \in Event, NEW id \in SpanIds, NEW b \in Builder,
         b.parent = OpenSpan(pr, e, id).parent, b.depth = OpenSpan(pr, e, id).depth
  PROVE  /\ Shape(Put(pr, id, b))
         /\ id \in DOMAIN Put(pr, id, b).span
         /\ Put(pr, id, b).span[id] = b
         /\ \A x \in DOMAIN Put(pr, id, b).span \ {id} : Fresh(Put(pr, id, b).span[x])
<1>1. Shape(pr) /\ \A x \in DOMAIN pr.span : Fresh(pr.span[x])
  BY GoodIsShape
<1>2. CASE id \in DOMAIN pr.span
  <2>1. b.parent = pr.span[id].parent /\ b.depth = pr.span[id].depth
    BY <1>2 DEF OpenSpan
  <2>2. Put(pr, id, b) = Update(pr, id, b)
    BY <1>1, <1>2, PutOpen
  <2> QED
    BY <1>1, <1>2, <2>1, <2>2, UpdateKeepsShape
<1>3. CASE id \notin DOMAIN pr.span
  <2>1. b.parent = Top(pr) /\ b.depth = Len(pr.order)
    BY <1>1, <1>3, NewBuilderOnTop DEF OpenSpan
  <2> QED
    BY <1>1, <1>3, <2>1, PutNew
<1> QED
  BY <1>2, <1>3

\* What an operation on a projector has to return.
IsResult(res) == Good(res.proj) /\ res.deltas \in Seq(Delta)

\* A tool call opens a span, or fills the one a hook opened.
LEMMA ApplyCallGood ==
  ASSUME NEW pr, Good(pr), NEW e \in Event
  PROVE  IsResult(ApplyCall(pr, e))
<1> DEFINE id  == CallSpanId(pr, e)
           old == OpenSpan(pr, e, id)
           b   == [old EXCEPT !.tool = e.tool, !.callStart = e.ts, !.hasCall = TRUE,
                              !.cost = Or(e.cost, @)]
<1>1. id \in SpanIds
  BY SpanIdsOfEvents DEF Good
<1>2. old \in Builder /\ SpanEnd(old) = None /\ ~old.hasEnd
  BY <1>1, OpenSpanIsBuilder
<1>3. e.ts \in Nat /\ e.ts # None /\ e.tool \in Option(Tools) /\ e.cost \in Option(Nat)
  BY NoneAssumption DEF Event
<1>4. ApplyCall(pr, e) = [proj |-> Put(pr, id, b), deltas |-> <<>>]
  BY DEF ApplyCall
<1> HIDE DEF old, id
<1>5. /\ b \in Builder /\ b.parent = old.parent /\ b.depth = old.depth
      /\ Fresh(b)
  <2>1. Or(e.cost, old.cost) \in Option(Nat)
    BY <1>2, <1>3 DEF Builder, Or
  <2>2. /\ b \in Builder /\ b.parent = old.parent /\ b.depth = old.depth
        /\ b.callStart = e.ts /\ b.hookStart = old.hookStart /\ b.hookEnd = old.hookEnd
        /\ b.resultEnd = old.resultEnd /\ b.hasEnd = old.hasEnd
    BY <1>2, <1>3, <2>1 DEF Builder, Option
  <2> HIDE DEF b
  <2>3. Fresh(b)
    BY <1>2, <1>3, <2>2 DEF Fresh, SpanStart, SpanEnd, Or
  <2> QED
    BY <2>2, <2>3
<1> HIDE DEF b
<1>6. /\ Shape(Put(pr, id, b))
      /\ \A x \in DOMAIN Put(pr, id, b).span : Fresh(Put(pr, id, b).span[x])
  BY <1>1, <1>5, PutOpenSpan DEF old
<1>7. Good(Put(pr, id, b))
  BY <1>6, GoodIsShape
<1> QED
  BY <1>4, <1>7 DEF IsResult

\* A result closes the span it matches, or nothing.
LEMMA ApplyResultGood ==
  ASSUME NEW pr, Good(pr), NEW e \in Event
  PROVE  IsResult(ApplyResult(pr, e))
<1> DEFINE id  == MatchSpan(pr, e)
           old == pr.span[id]
           b   == [old EXCEPT !.resultEnd = e.ts, !.hasEnd = TRUE, !.cost = Or(e.cost, @)]
           u   == Update(pr, id, b)
<1>1. CASE id \notin DOMAIN pr.span
  <2>1. ApplyResult(pr, e) = [proj |-> pr, deltas |-> <<>>]
    BY <1>1 DEF ApplyResult
  <2> QED
    BY <2>1 DEF IsResult
<1>2. CASE id \in DOMAIN pr.span
  <2>1. ApplyResult(pr, e) = Close(u, id)
    BY <1>2 DEF ApplyResult
  <2>2. old \in Builder
    BY <1>2 DEF Good, TypeOKProjector
  <2>3. e.ts \in Nat /\ e.cost \in Option(Nat)
    BY DEF Event
  <2> HIDE DEF old, id
  <2>a. Or(e.cost, old.cost) \in Option(Nat)
    BY <2>2, <2>3 DEF Builder, Or
  <2>4. b \in Builder /\ b.parent = old.parent /\ b.depth = old.depth
    BY <2>2, <2>3, <2>a DEF Builder, Option
  <2> HIDE DEF b
  <2>5. /\ Shape(u) /\ DOMAIN u.span = DOMAIN pr.span
        /\ \A x \in DOMAIN u.span \ {id} : Fresh(u.span[x])
    BY <1>2, <2>4, GoodIsShape, UpdateKeepsShape DEF old
  <2> HIDE DEF u
  <2> QED
    BY <1>2, <2>1, <2>5, CloseKeepsGood DEF IsResult
<1> QED
  BY <1>1, <1>2

\* A pre hook opens a span, a post hook closes one, opening it if need be.
LEMMA ApplyHookGood ==
  ASSUME NEW pr, Good(pr), NEW e \in Event, e.kind \in {"pre", "post"}
  PROVE  IsResult(ApplyHook(pr, e))
<1> DEFINE id  == HookSpanId(pr, e)
           old == OpenSpan(pr, e, id)
           b   == [old EXCEPT !.tool      = Or(@, e.tool),
                              !.hookStart = IF e.kind = "pre" THEN e.ts ELSE @,
                              !.hookEnd   = IF e.kind = "post" THEN e.ts ELSE @,
                              !.hasEnd    = @ \/ e.kind = "post"]
           u   == Put(pr, id, b)
<1>1. id \in SpanIds
  BY SpanIdsOfEvents DEF Good
<1>2. old \in Builder /\ SpanEnd(old) = None /\ ~old.hasEnd
  BY <1>1, OpenSpanIsBuilder
<1>3. e.ts \in Nat /\ e.ts # None /\ e.tool \in Option(Tools)
  BY NoneAssumption DEF Event
<1>4. ApplyHook(pr, e) = IF e.kind = "post" THEN Close(u, id)
                         ELSE [proj |-> u, deltas |-> <<>>]
  BY DEF ApplyHook
<1> HIDE DEF old, id
<1>5. b \in Builder /\ b.parent = old.parent /\ b.depth = old.depth
  <2>1. Or(old.tool, e.tool) \in Option(Tools)
    BY <1>2, <1>3 DEF Builder, Option, Or
  <2>2. (old.hasEnd \/ e.kind = "post") \in BOOLEAN
    OBVIOUS
  <2>3. /\ (IF e.kind = "pre" THEN e.ts ELSE old.hookStart) \in Option(Nat)
        /\ (IF e.kind = "post" THEN e.ts ELSE old.hookEnd) \in Option(Nat)
    BY <1>2, <1>3 DEF Builder, Option
  <2> QED
    BY <1>2, <2>1, <2>2, <2>3 DEF Builder
<1>6. e.kind = "pre" => Fresh(b)
  BY <1>2, <1>3 DEF Builder, Option, Or, Fresh, SpanStart, SpanEnd
<1> HIDE DEF b
<1>7. /\ Shape(u) /\ id \in DOMAIN u.span /\ u.span[id] = b
      /\ \A x \in DOMAIN u.span \ {id} : Fresh(u.span[x])
  BY <1>1, <1>5, PutOpenSpan DEF old
<1> HIDE DEF u
<1>8. CASE e.kind = "post"
  BY <1>4, <1>7, <1>8, CloseKeepsGood DEF IsResult
<1>9. CASE e.kind = "pre"
  <2>1. Good(u)
    BY <1>6, <1>7, <1>9, GoodIsShape
  <2>2. ApplyHook(pr, e) = [proj |-> u, deltas |-> <<>>]
    BY <1>4, <1>9
  <2> QED
    BY <2>1, <2>2 DEF IsResult
<1> QED
  BY <1>8, <1>9

\* What any event does to the open spans.
LEMMA ApplySpanEventGood ==
  ASSUME NEW pr, Good(pr), NEW e \in Event
  PROVE  IsResult(ApplySpanEvent(pr, e))
<1>1. CASE e.kind = "call"
  BY <1>1, ApplyCallGood DEF ApplySpanEvent
<1>2. CASE e.kind = "result"
  BY <1>2, ApplyResultGood DEF ApplySpanEvent
<1>3. CASE e.kind \in {"pre", "post"}
  BY <1>3, ApplyHookGood DEF ApplySpanEvent
<1>4. CASE e.kind \in {"start", "stop", "note", "permission", "prompt"}
  <2>1. ApplySpanEvent(pr, e) = [proj |-> pr, deltas |-> <<>>]
    BY <1>4 DEF ApplySpanEvent
  <2> QED
    BY <2>1 DEF IsResult
<1> QED
  BY <1>1, <1>2, <1>3, <1>4 DEF Event, EventKinds

\* Applying any event to a well-formed projector.
LEMMA ApplyGood ==
  ASSUME NEW pr, Good(pr), NEW e \in Event
  PROVE  IsResult(Apply(pr, e))
<1> DEFINE res == ApplySpanEvent(pr, e)
           u   == [order |-> res.proj.order, span |-> res.proj.span,
                   seen  |-> Seen(pr, e), last |-> e.seq]
<1>1. IsResult(res)
  BY ApplySpanEventGood
<1>2. Apply(pr, e) = [proj |-> u, deltas |-> FreshPath(pr, e) \o res.deltas]
  BY DEF Apply
<1> HIDE DEF res
<1>3. FreshPath(pr, e) \in Seq(Delta)
  <2>1. e.path # None => [type |-> "path", path |-> e.path] \in Delta
    BY DEF Event, Option, Delta
  <2> QED
    BY <2>1 DEF FreshPath
<1>4. FreshPath(pr, e) \o res.deltas \in Seq(Delta)
  BY <1>1, <1>3, ConcatProperties DEF IsResult
<1>5. e.seq \in Option(Nat) /\ Seen(pr, e) \subseteq Paths
  BY DEF Seen, Good, TypeOKProjector, Event, Option
<1>7. /\ u.order = res.proj.order /\ u.span = res.proj.span
      /\ u.seen = Seen(pr, e) /\ u.last = e.seq
      /\ u = [order |-> u.order, span |-> u.span, seen |-> u.seen, last |-> u.last]
  OBVIOUS
<1> HIDE DEF u
<1>8. Good(u)
  BY <1>1, <1>5, <1>7
     DEF IsResult, Good, TypeOKProjector, WellFormed, StackIsOpenSet, OpenChain,
         OpenSpansCanExpire
<1> QED
  BY <1>2, <1>4, <1>8 DEF IsResult

\* Closing everything at a Stop.
LEMMA FlushGood ==
  ASSUME NEW pr, Good(pr)
  PROVE  IsResult(FlushSession(pr))
<1> DEFINE n == Len(pr.order)
           u == FlushSession(pr).proj
           ds == FlushSession(pr).deltas
<1>1. n \in Nat /\ DOMAIN pr.order = 1 .. n /\ pr.order \in Seq(SpanIds)
  BY LenProperties DEF Good, TypeOKProjector
<1>2. ds = [i \in 1 .. n |-> SpanClosed(pr.order[n + 1 - i], pr.span[pr.order[n + 1 - i]])]
  BY DEF FlushSession
<1>3. \A i \in 1 .. n : n + 1 - i \in 1 .. n
  BY <1>1
<1>4. \A j \in 1 .. n : /\ pr.order[j] \in SpanIds
                        /\ pr.span[pr.order[j]] \in Builder
  BY <1>1 DEF Good, WellFormed, StackIsOpenSet, TypeOKProjector
<1>5. \A i \in 1 .. n : ds[i] \in Delta
  BY <1>2, <1>3, <1>4, SpanClosedIsDelta
<1>6. ds \in [1 .. n -> Delta]
  BY <1>2, <1>5
<1>7. ds \in Seq(Delta)
  BY <1>1, <1>6, SeqDef
<1>8. u = [order |-> <<>>, span |-> [x \in {} |-> None], seen |-> pr.seen, last |-> pr.last]
  BY DEF FlushSession, Good, TypeOKProjector
<1>9. /\ u.order = <<>> /\ DOMAIN u.order = {} /\ u.order \in Seq(SpanIds) /\ DOMAIN u.span = {}
      /\ u.span = [x \in DOMAIN u.span |-> u.span[x]] /\ u.seen = pr.seen /\ u.last = pr.last
      /\ u = [order |-> u.order, span |-> u.span, seen |-> u.seen, last |-> u.last]
  BY <1>8
<1> HIDE DEF u
<1>10. Good(u)
  BY <1>9 DEF Good, TypeOKProjector, WellFormed, StackIsOpenSet, OpenChain, OpenSpansCanExpire
<1> QED
  BY <1>7, <1>10 DEF IsResult, u

-----------------------------------------------------------------------------
(* What a stack keeps when spans come and go. *)

\* Span x was opened before span y, and both are open.
Below(pr, x, y) ==
  \E i, j \in DOMAIN pr.order : i < j /\ pr.order[i] = x /\ pr.order[j] = y

\* The spans of u are those of pr without id, in their old order.
Removed(pr, u, id) ==
  /\ DOMAIN u.span = DOMAIN pr.span \ {id}
  /\ \A x \in DOMAIN u.span : u.span[x].tool = pr.span[x].tool
  /\ \A x, y : Below(u, x, y) <=> Below(pr, x, y) /\ x # id /\ y # id

\* The spans of u are those of pr with id on top.
Pushed(pr, u, id, tool) ==
  /\ DOMAIN u.span = DOMAIN pr.span \cup {id}
  /\ \A x \in DOMAIN pr.span : u.span[x].tool = pr.span[x].tool
  /\ u.span[id].tool = tool
  /\ \A x, y : Below(u, x, y) <=> Below(pr, x, y) \/ (y = id /\ x \in DOMAIN pr.span)

\* The stack as a set: positions and ids go with each other.
LEMMA StackFacts ==
  ASSUME NEW pr, Shape(pr)
  PROVE  /\ Len(pr.order) \in Nat /\ DOMAIN pr.order = 1 .. Len(pr.order)
         /\ \A x \in DOMAIN pr.span : \E i \in 1 .. Len(pr.order) : pr.order[i] = x
         /\ \A i \in 1 .. Len(pr.order) : pr.order[i] \in DOMAIN pr.span
         /\ \A i, j \in 1 .. Len(pr.order) : pr.order[i] = pr.order[j] => i = j
         /\ None \notin DOMAIN pr.span /\ DOMAIN pr.span \subseteq SpanIds
<1>1. Len(pr.order) \in Nat /\ DOMAIN pr.order = 1 .. Len(pr.order)
  BY LenProperties DEF Shape, TypeOKProjector
<1>2. DOMAIN pr.span \subseteq SpanIds /\ DOMAIN pr.span = {pr.order[i] : i \in DOMAIN pr.order}
  BY DEF Shape, TypeOKProjector, StackIsOpenSet
<1> QED
  BY <1>1, <1>2, NoneAssumption DEF Shape, StackIsOpenSet

\* Of two spans at most one is below the other; both are open.
LEMMA BelowIsStrict ==
  ASSUME NEW pr, Shape(pr), NEW x, NEW y, Below(pr, x, y)
  PROVE  x # y /\ ~Below(pr, y, x) /\ x \in DOMAIN pr.span /\ y \in DOMAIN pr.span
<1> DEFINE n == Len(pr.order)
<1>1. /\ n \in Nat /\ DOMAIN pr.order = 1 .. n
      /\ \A i \in 1 .. n : pr.order[i] \in DOMAIN pr.span
      /\ \A i, j \in 1 .. n : pr.order[i] = pr.order[j] => i = j
  BY StackFacts
<1>2. PICK i, j \in 1 .. n : i < j /\ pr.order[i] = x /\ pr.order[j] = y
  BY <1>1 DEF Below
<1>3. ASSUME NEW k \in 1 .. n, NEW l \in 1 .. n, pr.order[k] = y, pr.order[l] = x PROVE ~(k < l)
  <2>1. k = j /\ l = i
    BY <1>1, <1>2, <1>3
  <2> QED
    BY <1>2, <2>1
<1> QED
  BY <1>1, <1>2, <1>3 DEF Below

\* The newest span of a set is above all others of the set.
LEMMA NewestIsAbove ==
  ASSUME NEW pr, Shape(pr), NEW S
  PROVE  /\ S \cap DOMAIN pr.span = {} => Newest(pr, S) = None
         /\ S \cap DOMAIN pr.span # {} =>
              /\ Newest(pr, S) \in S \cap DOMAIN pr.span
              /\ \A y \in S \cap DOMAIN pr.span : y = Newest(pr, S) \/ Below(pr, y, Newest(pr, S))
<1> DEFINE n  == Len(pr.order)
           at == {i \in DOMAIN pr.order : pr.order[i] \in S \cap DOMAIN pr.span}
           k  == Max(at)
<1>1. /\ n \in Nat /\ DOMAIN pr.order = 1 .. n
      /\ \A x \in DOMAIN pr.span : \E i \in 1 .. n : pr.order[i] = x
  BY StackFacts
<1>2. Newest(pr, S) = IF at = {} THEN None ELSE pr.order[k]
  BY DEF Newest
<1>3. \A y \in S \cap DOMAIN pr.span : \E i \in at : pr.order[i] = y
  BY <1>1
<1>4. at \subseteq 1 .. n /\ \A i \in at : pr.order[i] \in S \cap DOMAIN pr.span
  BY <1>1
<1>5. at # {} => k \in at /\ \A i \in at : i <= k
  <2>1. at \subseteq 0 .. n
    BY <1>1, <1>4
  <2> HIDE DEF at
  <2> QED
    BY <1>1, <2>1, MaxOfBounded
<1> HIDE DEF at, k
<1>6. S \cap DOMAIN pr.span = {} => at = {}
  BY <1>4
<1>7. ASSUME NEW y \in S \cap DOMAIN pr.span
      PROVE  at # {} /\ (y = pr.order[k] \/ Below(pr, y, pr.order[k]))
  <2>1. PICK i \in at : pr.order[i] = y
    BY <1>3
  <2>2. k \in at /\ i <= k /\ i \in 1 .. n /\ k \in 1 .. n
    BY <1>4, <1>5, <2>1
  <2>3. CASE i = k
    BY <2>1, <2>3
  <2>4. CASE i < k
    BY <1>1, <2>1, <2>2, <2>4 DEF Below
  <2> QED
    BY <1>1, <2>1, <2>2, <2>3, <2>4
<1> QED
  BY <1>2, <1>4, <1>5, <1>6, <1>7

\* Replacing a builder moves nothing.
LEMMA UpdateOrder ==
  ASSUME NEW pr, Shape(pr), NEW id, id \in DOMAIN pr.span, NEW b \in Builder,
         b.parent = pr.span[id].parent, b.depth = pr.span[id].depth
  PROVE  /\ \A x, y : Below(Update(pr, id, b), x, y) <=> Below(pr, x, y)
         /\ \A x \in DOMAIN pr.span : x # id => Update(pr, id, b).span[x] = pr.span[x]
         /\ Update(pr, id, b).span[id] = b
         /\ DOMAIN Update(pr, id, b).span = DOMAIN pr.span
BY UpdateKeepsShape DEF Below

\* A new span is above all others.
LEMMA PutOrder ==
  ASSUME NEW pr, Shape(pr), NEW id \in SpanIds, id \notin DOMAIN pr.span,
         NEW b \in Builder, b.parent = Top(pr), b.depth = Len(pr.order)
  PROVE  Pushed(pr, Put(pr, id, b), id, b.tool)
<1> DEFINE u == Put(pr, id, b)
           n == Len(pr.order)
<1>1. /\ n \in Nat /\ DOMAIN pr.order = 1 .. n /\ pr.order \in Seq(SpanIds)
      /\ \A x \in DOMAIN pr.span : \E i \in 1 .. n : pr.order[i] = x
      /\ \A i \in 1 .. n : pr.order[i] \in DOMAIN pr.span
  BY StackFacts DEF Shape, TypeOKProjector
<1>2. ~\E i \in DOMAIN pr.order : pr.order[i] = id
  BY <1>1
<1>3. u.order = Append(pr.order, id)
  <2>1. (IF \E i \in DOMAIN pr.order : pr.order[i] = id THEN pr.order ELSE Append(pr.order, id))
          = Append(pr.order, id)
    BY <1>2
  <2>2. u = [pr EXCEPT !.span  = [x \in DOMAIN pr.span \cup {id} |->
                                    IF x = id THEN b ELSE pr.span[x]],
                       !.order = Append(pr.order, id)]
    BY <2>1, Zenon DEF Put
  <2> HIDE DEF u
  <2> QED
    BY <2>2 DEF Shape, TypeOKProjector
<1>4. /\ DOMAIN u.span = DOMAIN pr.span \cup {id}
      /\ \A x \in DOMAIN pr.span \cup {id} : u.span[x] = IF x = id THEN b ELSE pr.span[x]
  BY PutNew
<1>5. /\ DOMAIN u.order = 1 .. n + 1 /\ u.order[n + 1] = id
      /\ \A i \in 1 .. n : u.order[i] = pr.order[i]
  BY <1>1, <1>3
<1> HIDE DEF u
<1>6. ASSUME NEW x, NEW y, Below(u, x, y)
      PROVE  Below(pr, x, y) \/ (y = id /\ x \in DOMAIN pr.span)
  <2>1. PICK i, j \in 1 .. n + 1 : i < j /\ u.order[i] = x /\ u.order[j] = y
    BY <1>5, <1>6 DEF Below
  <2>2. i \in 1 .. n /\ pr.order[i] = x
    BY <1>1, <1>5, <2>1
  <2>3. CASE j = n + 1
    BY <1>1, <1>5, <2>1, <2>2, <2>3
  <2>4. CASE j \in 1 .. n
    <3>1. pr.order[j] = y
      BY <1>5, <2>1, <2>4
    <3> QED
      BY <1>1, <2>1, <2>2, <2>4, <3>1 DEF Below
  <2> QED
    BY <1>1, <2>1, <2>3, <2>4
<1>7. ASSUME NEW x, NEW y, Below(pr, x, y) PROVE Below(u, x, y)
  <2>1. PICK i, j \in 1 .. n : i < j /\ pr.order[i] = x /\ pr.order[j] = y
    BY <1>1, <1>7 DEF Below
  <2>2. i \in 1 .. n + 1 /\ j \in 1 .. n + 1 /\ u.order[i] = x /\ u.order[j] = y
    BY <1>1, <1>5, <2>1
  <2> QED
    BY <1>5, <2>1, <2>2 DEF Below
<1>8. ASSUME NEW x \in DOMAIN pr.span PROVE Below(u, x, id)
  <2>1. PICK i \in 1 .. n : pr.order[i] = x
    BY <1>1
  <2>2. i \in 1 .. n + 1 /\ n + 1 \in 1 .. n + 1 /\ i < n + 1 /\ u.order[i] = x
    BY <1>1, <1>5, <2>1
  <2> QED
    BY <1>5, <2>2 DEF Below
<1>9. \A x \in DOMAIN pr.span : x # id
  OBVIOUS
<1> QED
  BY <1>4, <1>6, <1>7, <1>8, <1>9 DEF Pushed, u

\* A span taken out of the stack leaves the others in their order.
LEMMA DetachOrder ==
  ASSUME NEW pr, Shape(pr), NEW id, id \in DOMAIN pr.span
  PROVE  Removed(pr, Detach(pr, id), id)
<1> DEFINE n    == Len(pr.order)
           at   == {i \in DOMAIN pr.order : pr.order[i] = id}
           k    == Max(at)
           rest == Without(pr.order, k)
           Above(x) == \E i \in k .. Len(rest) : rest[i] = x
           Moved(x) ==
             [pr.span[x] EXCEPT
                !.parent = IF k <= Len(rest) /\ rest[k] = x THEN pr.span[id].parent ELSE @,
                !.depth  = IF Above(x) /\ @ > 0 THEN @ - 1 ELSE @]
           u    == Detach(pr, id)
<1>1. /\ n \in Nat /\ DOMAIN pr.order = 1 .. n
      /\ \A i \in 1 .. n : pr.order[i] \in DOMAIN pr.span
      /\ \A i, j \in 1 .. n : pr.order[i] = pr.order[j] => i = j
  BY StackFacts
<1>2. at # {} /\ at \subseteq 0 .. n
  BY <1>1, StackFacts
<1>3. k \in 1 .. n /\ pr.order[k] = id
  <2>1. k \in at
    BY <1>1, <1>2, MaxOfBounded
  <2> QED
    BY <1>1, <2>1
<1>4. u = [order |-> rest, seen |-> pr.seen, last |-> pr.last,
           span |-> [x \in DOMAIN pr.span \ {id} |-> Moved(x)]]
  BY <1>2 DEF Detach, Shape, TypeOKProjector
<1> HIDE DEF k, at
<1>5. /\ DOMAIN rest = 1 .. n - 1
      /\ \A i \in 1 .. n - 1 : rest[i] = IF i < k THEN pr.order[i] ELSE pr.order[i + 1]
  BY <1>1 DEF Without
<1> HIDE DEF rest
<1>6. /\ u.order = rest /\ DOMAIN u.span = DOMAIN pr.span \ {id}
      /\ \A x \in DOMAIN pr.span \ {id} : u.span[x] = Moved(x)
  <2> HIDE DEF u, Moved
  <2> QED
    BY <1>4
<1>7. ASSUME NEW x \in DOMAIN pr.span \ {id} PROVE u.span[x].tool = pr.span[x].tool
  <2>1. pr.span[x] \in Builder
    BY DEF Shape, TypeOKProjector
  <2>2. Moved(x).tool = pr.span[x].tool
    BY <2>1 DEF Builder
  <2> HIDE DEF Moved
  <2> QED
    BY <1>6, <2>2
<1> HIDE DEF u, Moved
<1>8. ASSUME NEW x, NEW y, Below(u, x, y) PROVE Below(pr, x, y) /\ x # id /\ y # id
  <2>1. PICK i, j \in 1 .. n - 1 : i < j /\ rest[i] = x /\ rest[j] = y
    BY <1>5, <1>6, <1>8 DEF Below
  <2> DEFINE from(l) == IF l < k THEN l ELSE l + 1
  <2>2. \A l \in 1 .. n - 1 : from(l) \in 1 .. n /\ from(l) # k /\ rest[l] = pr.order[from(l)]
    BY <1>1, <1>3, <1>5
  <2>3. from(i) < from(j)
    BY <1>1, <1>3, <2>1
  <2> HIDE DEF from
  <2>4. from(i) \in 1 .. n /\ from(j) \in 1 .. n /\ pr.order[from(i)] = x /\ pr.order[from(j)] = y
    BY <2>1, <2>2
  <2>5. x # id /\ y # id
    BY <1>1, <1>3, <2>1, <2>2, <2>4
  <2> QED
    BY <1>1, <2>3, <2>4, <2>5 DEF Below
<1>9. ASSUME NEW x, NEW y, Below(pr, x, y), x # id, y # id PROVE Below(u, x, y)
  <2>1. PICK i, j \in 1 .. n : i < j /\ pr.order[i] = x /\ pr.order[j] = y
    BY <1>1, <1>9 DEF Below
  <2> DEFINE to(l) == IF l < k THEN l ELSE l - 1
  <2>2. i # k /\ j # k
    BY <1>3, <1>9, <2>1
  <2>3. \A l \in 1 .. n : l # k => to(l) \in 1 .. n - 1 /\ rest[to(l)] = pr.order[l]
    BY <1>1, <1>3, <1>5
  <2>4. to(i) < to(j)
    BY <1>1, <1>3, <2>1, <2>2
  <2> HIDE DEF to
  <2> QED
    BY <1>5, <1>6, <2>1, <2>2, <2>3, <2>4 DEF Below
<1> QED
  BY <1>6, <1>7, <1>8, <1>9 DEF Removed, u

\* Adding a total to an open span moves nothing.
LEMMA AddChildOrder ==
  ASSUME NEW pr, Shape(pr), NEW parent, NEW total \in Option(Nat)
  PROVE  /\ DOMAIN AddChild(pr, parent, total).span = DOMAIN pr.span
         /\ \A x \in DOMAIN pr.span : AddChild(pr, parent, total).span[x].tool = pr.span[x].tool
         /\ \A x, y : Below(AddChild(pr, parent, total), x, y) <=> Below(pr, x, y)
<1>1. CASE parent \notin DOMAIN pr.span
  BY <1>1 DEF AddChild
<1>2. CASE parent \in DOMAIN pr.span
  <2> DEFINE old == pr.span[parent]
             b   == [old EXCEPT !.subtree = Add(old.subtree, total)]
  <2>1. old \in Builder
    BY <1>2 DEF Shape, TypeOKProjector
  <2>2. Add(old.subtree, total) \in Option(Nat)
    BY <2>1 DEF Builder, Option, Add
  <2>3. b \in Builder /\ b.parent = old.parent /\ b.depth = old.depth /\ b.tool = old.tool
    BY <2>1, <2>2 DEF Builder
  <2>4. AddChild(pr, parent, total) = Update(pr, parent, b)
    BY <1>2 DEF AddChild
  <2> HIDE DEF b
  <2> QED
    BY <1>2, <2>3, <2>4, UpdateOrder
<1> QED
  BY <1>1, <1>2

\* Closing a span takes it out of the stack.
LEMMA CloseOrder ==
  ASSUME NEW pr, Shape(pr), NEW id, id \in DOMAIN pr.span
  PROVE  Removed(pr, Close(pr, id).proj, id)
<1> DEFINE d == Detach(pr, id)
           b == pr.span[id]
           u == AddChild(d, b.parent, Seeded(b))
<1>1. Seeded(b) \in Option(Nat)
  BY RowOfBuilder DEF Shape, TypeOKProjector
<1>2. Shape(d) /\ Removed(pr, d, id)
  BY DetachKeepsShape, DetachOrder
<1> HIDE DEF d
<1>3. /\ DOMAIN u.span = DOMAIN d.span
      /\ \A x \in DOMAIN d.span : u.span[x].tool = d.span[x].tool
      /\ \A x, y : Below(u, x, y) <=> Below(d, x, y)
  BY <1>1, <1>2, AddChildOrder
<1>4. Close(pr, id).proj = u
  BY DEF Close, d
<1> HIDE DEF u
<1>5. Removed(pr, u, id)
  BY <1>2, <1>3 DEF Removed
<1> QED
  BY <1>4, <1>5

\* The parent of an open span is another open span, or there is none.
LEMMA ParentIsOpen ==
  ASSUME NEW pr, Shape(pr), NEW x \in DOMAIN pr.span
  PROVE  pr.span[x].parent \in Option(DOMAIN pr.span \ {x})
<1> DEFINE n == Len(pr.order)
<1>1. /\ n \in Nat /\ DOMAIN pr.order = 1 .. n
      /\ \A i \in 1 .. n : pr.order[i] \in DOMAIN pr.span
      /\ \A i, j \in 1 .. n : pr.order[i] = pr.order[j] => i = j
  BY StackFacts
<1>2. PICK i \in 1 .. n : pr.order[i] = x
  BY StackFacts
<1>3. pr.span[x].parent = IF i = 1 THEN None ELSE pr.order[i - 1]
  BY <1>1, <1>2 DEF Shape, OpenChain
<1>4. i # 1 => i - 1 \in 1 .. n /\ i - 1 # i
  BY <1>1
<1>5. i # 1 => pr.order[i - 1] \in DOMAIN pr.span \ {x}
  BY <1>1, <1>2, <1>4
<1> QED
  BY <1>3, <1>5 DEF Option

-----------------------------------------------------------------------------
(* What one event does to the open spans. *)

\* An event that opens the span it names, and one that names its span.
Opens(e) == e.kind \in {"call", "pre"}
Named(e) == e.kind \in {"call", "pre", "post"} => e.id # None

\* The span an event closes, if it is open.
Target(pr, e) ==
  IF e.kind = "result" THEN MatchSpan(pr, e) ELSE IF e.kind = "post" THEN e.id ELSE None

Emits(deltas, x) == \E i \in DOMAIN deltas : deltas[i].type = "span" /\ deltas[i].id = x

ParentsIn(deltas, S) ==
  \A i \in DOMAIN deltas : deltas[i].type = "span" => deltas[i].row.parent \in S

\* res closes span id of pr, if it is open.
Closes(pr, res, id) ==
  /\ Removed(pr, res.proj, id)
  /\ id \in DOMAIN pr.span => Emits(res.deltas, id)
  /\ ParentsIn(res.deltas, Option(DOMAIN res.proj.span))

\* A call opens its span.
LEMMA CallEffect ==
  ASSUME NEW pr, Good(pr), NEW e \in Event, e.id # None, e.id \notin DOMAIN pr.span
  PROVE  Pushed(pr, ApplyCall(pr, e).proj, e.id, e.tool) /\ ApplyCall(pr, e).deltas = <<>>
<1> DEFINE id  == e.id
           old == NewBuilder(pr, e, id)
           b   == [old EXCEPT !.tool = e.tool, !.callStart = e.ts, !.hasCall = TRUE,
                              !.cost = Or(e.cost, @)]
<1>1. Shape(pr) /\ id \in SpanIds
  BY GoodIsShape DEF Event, Option, SpanIds
<1>2. CallSpanId(pr, e) = id /\ OpenSpan(pr, e, id) = old
  BY DEF CallSpanId, Or, OpenSpan
<1>3. old \in Builder /\ old.parent = Top(pr) /\ old.depth = Len(pr.order)
  BY <1>1, NewBuilderOnTop
<1>4. ApplyCall(pr, e) = [proj |-> Put(pr, id, b), deltas |-> <<>>]
  BY <1>2 DEF ApplyCall
<1> HIDE DEF old, id
<1>5. b \in Builder /\ b.parent = old.parent /\ b.depth = old.depth /\ b.tool = e.tool
  <2>1. Or(e.cost, old.cost) \in Option(Nat)
    BY <1>3 DEF Builder, Or, Event
  <2>2. e.ts \in Option(Nat) /\ e.tool \in Option(Tools)
    BY DEF Event, Option
  <2> QED
    BY <1>3, <2>1, <2>2 DEF Builder
<1> HIDE DEF b
<1>6. id \notin DOMAIN pr.span
  BY DEF id
<1>7. Pushed(pr, Put(pr, id, b), id, b.tool)
  BY <1>1, <1>3, <1>5, <1>6, PutOrder
<1> QED
  BY <1>4, <1>5, <1>7 DEF id

\* So does a hook before a tool.
LEMMA PreEffect ==
  ASSUME NEW pr, Good(pr), NEW e \in Event, e.kind = "pre", e.id # None,
         e.id \notin DOMAIN pr.span
  PROVE  Pushed(pr, ApplyHook(pr, e).proj, e.id, e.tool) /\ ApplyHook(pr, e).deltas = <<>>
<1> DEFINE id  == e.id
           old == NewBuilder(pr, e, id)
           b   == [old EXCEPT !.tool      = Or(@, e.tool),
                              !.hookStart = IF e.kind = "pre" THEN e.ts ELSE @,
                              !.hookEnd   = IF e.kind = "post" THEN e.ts ELSE @,
                              !.hasEnd    = @ \/ e.kind = "post"]
<1>1. Shape(pr) /\ id \in SpanIds
  BY GoodIsShape DEF Event, Option, SpanIds
<1>2. HookSpanId(pr, e) = id /\ OpenSpan(pr, e, id) = old
  BY DEF HookSpanId, Or, OpenSpan
<1>3. /\ old \in Builder /\ old.parent = Top(pr) /\ old.depth = Len(pr.order)
      /\ old.tool = e.tool /\ ~old.hasEnd
  BY <1>1, NewBuilderOnTop DEF NewBuilder
<1>4. ApplyHook(pr, e) = [proj |-> Put(pr, id, b), deltas |-> <<>>]
  BY <1>2 DEF ApplyHook
<1> HIDE DEF old, id
<1>5. b \in Builder /\ b.parent = old.parent /\ b.depth = old.depth /\ b.tool = e.tool
  <2>1. Or(old.tool, e.tool) = e.tool
    BY <1>3 DEF Or
  <2>2. e.ts \in Option(Nat) /\ e.tool \in Option(Tools)
    BY DEF Event, Option
  <2>3. (old.hasEnd \/ e.kind = "post") \in BOOLEAN
    OBVIOUS
  <2>4. /\ (IF e.kind = "pre" THEN e.ts ELSE old.hookStart) \in Option(Nat)
        /\ (IF e.kind = "post" THEN e.ts ELSE old.hookEnd) \in Option(Nat)
    BY <1>3, <2>2 DEF Builder
  <2> QED
    BY <1>3, <2>1, <2>2, <2>3, <2>4 DEF Builder
<1> HIDE DEF b
<1>6. id \notin DOMAIN pr.span
  BY DEF id
<1>7. Pushed(pr, Put(pr, id, b), id, b.tool)
  BY <1>1, <1>3, <1>5, <1>6, PutOrder
<1> QED
  BY <1>4, <1>5, <1>7 DEF id

\* Closing a span whose builder has just been replaced.
LEMMA UpdateThenClose ==
  ASSUME NEW pr, Good(pr), NEW id \in DOMAIN pr.span, NEW b \in Builder,
         b.parent = pr.span[id].parent, b.depth = pr.span[id].depth
  PROVE  Closes(pr, Close(Update(pr, id, b), id), id)
<1> DEFINE u == Update(pr, id, b)
           c == Close(u, id)
<1>1. Shape(pr)
  BY GoodIsShape
<1>2. /\ Shape(u) /\ DOMAIN u.span = DOMAIN pr.span /\ u.span[id] = b
      /\ \A x \in DOMAIN pr.span : x # id => u.span[x] = pr.span[x]
      /\ \A x, y : Below(u, x, y) <=> Below(pr, x, y)
  BY <1>1, UpdateKeepsShape, UpdateOrder
<1>3. c.deltas = <<SpanClosed(id, b)>>
  BY <1>2 DEF Close
<1> HIDE DEF u
<1>4. Removed(u, c.proj, id)
  BY <1>2, CloseOrder
<1> HIDE DEF c
<1>5. Removed(pr, c.proj, id)
  BY <1>2, <1>4 DEF Removed
<1>6. b.parent \in Option(DOMAIN c.proj.span)
  BY <1>1, <1>5, ParentIsOpen DEF Removed
<1>7. /\ SpanClosed(id, b).type = "span" /\ SpanClosed(id, b).id = id
      /\ SpanClosed(id, b).row.parent = b.parent
  BY DEF SpanClosed, RowOf
<1>8. Emits(c.deltas, id) /\ ParentsIn(c.deltas, Option(DOMAIN c.proj.span))
  BY <1>3, <1>6, <1>7 DEF Emits, ParentsIn
<1> QED
  BY <1>5, <1>8 DEF Closes, c, u

\* An operation that does nothing closes what is not open.
LEMMA NothingCloses ==
  ASSUME NEW pr, Good(pr), NEW id, id \notin DOMAIN pr.span
  PROVE  Closes(pr, [proj |-> pr, deltas |-> <<>>], id)
<1>1. \A x, y : Below(pr, x, y) => x # id /\ y # id
  BY BelowIsStrict, GoodIsShape
<1> QED
  BY <1>1 DEF Closes, Removed, Emits, ParentsIn

\* A result closes the span it matches.
LEMMA ResultEffect ==
  ASSUME NEW pr, Good(pr), NEW e \in Event
  PROVE  Closes(pr, ApplyResult(pr, e), MatchSpan(pr, e))
<1> DEFINE id  == MatchSpan(pr, e)
           old == pr.span[id]
           b   == [old EXCEPT !.resultEnd = e.ts, !.hasEnd = TRUE, !.cost = Or(e.cost, @)]
<1>1. CASE id \notin DOMAIN pr.span
  BY <1>1, NothingCloses DEF ApplyResult
<1>2. CASE id \in DOMAIN pr.span
  <2>1. ApplyResult(pr, e) = Close(Update(pr, id, b), id)
    BY <1>2 DEF ApplyResult
  <2>2. old \in Builder
    BY <1>2 DEF Good, TypeOKProjector
  <2>3. e.ts \in Nat /\ e.cost \in Option(Nat)
    BY DEF Event
  <2> HIDE DEF old, id
  <2>a. Or(e.cost, old.cost) \in Option(Nat)
    BY <2>2, <2>3 DEF Builder, Or
  <2>4. b \in Builder /\ b.parent = old.parent /\ b.depth = old.depth
    BY <2>2, <2>3, <2>a DEF Builder, Option
  <2> HIDE DEF b
  <2>5. Closes(pr, Close(Update(pr, id, b), id), id)
    BY <1>2, <2>4, UpdateThenClose DEF old
  <2> QED
    BY <2>1, <2>5 DEF id
<1> QED
  BY <1>1, <1>2

\* A hook after a tool closes the span it names, and one that was never opened
\* comes and goes.
LEMMA PostEffect ==
  ASSUME NEW pr, Good(pr), NEW e \in Event, e.kind = "post", e.id # None
  PROVE  Closes(pr, ApplyHook(pr, e), e.id)
<1> DEFINE id  == e.id
           old == OpenSpan(pr, e, id)
           b   == [old EXCEPT !.tool      = Or(@, e.tool),
                              !.hookStart = IF e.kind = "pre" THEN e.ts ELSE @,
                              !.hookEnd   = IF e.kind = "post" THEN e.ts ELSE @,
                              !.hasEnd    = @ \/ e.kind = "post"]
<1>1. Shape(pr) /\ id \in SpanIds
  BY GoodIsShape DEF Event, Option, SpanIds
<1>2. HookSpanId(pr, e) = id
  BY DEF HookSpanId, Or
<1>3. old \in Builder
  BY <1>1, OpenSpanIsBuilder
<1>4. ApplyHook(pr, e) = Close(Put(pr, id, b), id)
  BY <1>2 DEF ApplyHook
<1>5. id \notin DOMAIN pr.span => old.parent = Top(pr) /\ old.depth = Len(pr.order)
  BY <1>1, NewBuilderOnTop DEF OpenSpan
<1>6. id \in DOMAIN pr.span => old = pr.span[id]
  BY DEF OpenSpan
<1> HIDE DEF old, id
<1>7. b \in Builder /\ b.parent = old.parent /\ b.depth = old.depth
  <2>1. Or(old.tool, e.tool) \in Option(Tools)
    BY <1>3 DEF Builder, Option, Or, Event
  <2>2. (old.hasEnd \/ e.kind = "post") \in BOOLEAN
    OBVIOUS
  <2>3. /\ (IF e.kind = "pre" THEN e.ts ELSE old.hookStart) \in Option(Nat)
        /\ (IF e.kind = "post" THEN e.ts ELSE old.hookEnd) \in Option(Nat)
    BY <1>3 DEF Builder, Option, Event
  <2> QED
    BY <1>3, <2>1, <2>2, <2>3 DEF Builder
<1> HIDE DEF b
<1>8. CASE id \in DOMAIN pr.span
  <2>1. Put(pr, id, b) = Update(pr, id, b)
    BY <1>1, <1>8, PutOpen
  <2>2. Closes(pr, Close(Update(pr, id, b), id), id)
    BY <1>6, <1>7, <1>8, UpdateThenClose
  <2> QED
    BY <1>4, <2>1, <2>2 DEF id
<1>9. CASE id \notin DOMAIN pr.span
  <2> DEFINE u == Put(pr, id, b)
             c == Close(u, id)
  <2>1. Pushed(pr, u, id, b.tool)
    BY <1>1, <1>5, <1>7, <1>9, PutOrder
  <2>2. Shape(u) /\ DOMAIN u.span = DOMAIN pr.span \cup {id} /\ u.span[id] = b
    BY <1>1, <1>5, <1>7, <1>9, PutNew
  <2>3. c.deltas = <<SpanClosed(id, b)>>
    BY <2>2 DEF Close
  <2> HIDE DEF u
  <2>4. Removed(u, c.proj, id)
    BY <2>2, CloseOrder
  <2> HIDE DEF c
  <2>5. \A x, y : Below(pr, x, y) => x # id /\ y # id
    BY <1>1, <1>9, BelowIsStrict
  <2>6. Removed(pr, c.proj, id)
    BY <1>9, <2>1, <2>4, <2>5 DEF Removed, Pushed
  <2>7. b.parent \in Option(DOMAIN c.proj.span)
    <3>1. b.parent \in Option(DOMAIN u.span \ {id})
      BY <2>2, ParentIsOpen
    <3> QED
      BY <2>4, <3>1 DEF Removed
  <2>8. SpanClosed(id, b).row.parent = b.parent
    BY DEF SpanClosed, RowOf
  <2>9. ParentsIn(c.deltas, Option(DOMAIN c.proj.span))
    BY <2>3, <2>7, <2>8 DEF ParentsIn
  <2>10. Closes(pr, c, id)
    BY <1>9, <2>6, <2>9 DEF Closes
  <2> QED
    BY <1>4, <2>10 DEF c, u, id
<1> QED
  BY <1>8, <1>9

\* u holds the elements of s and those of t, and nothing else.
Joins(u, s, t) ==
  /\ \A i \in DOMAIN u : (\E j \in DOMAIN s : u[i] = s[j]) \/ (\E j \in DOMAIN t : u[i] = t[j])
  /\ \A j \in DOMAIN t : \E i \in DOMAIN u : u[i] = t[j]

\* Every delta of a sequence made of two comes from one of them.
LEMMA ConcatMembers ==
  ASSUME NEW S, NEW s \in Seq(S), NEW t \in Seq(S)
  PROVE  Joins(s \o t, s, t)
<1> DEFINE u == s \o t
<1>1. /\ u \in Seq(S) /\ Len(u) = Len(s) + Len(t)
      /\ \A i \in 1 .. Len(s) + Len(t) : u[i] = IF i <= Len(s) THEN s[i] ELSE t[i - Len(s)]
  BY ConcatProperties
<1>2. /\ Len(s) \in Nat /\ Len(t) \in Nat /\ DOMAIN s = 1 .. Len(s) /\ DOMAIN t = 1 .. Len(t)
      /\ DOMAIN u = 1 .. Len(u)
  BY <1>1, LenProperties
<1> HIDE DEF u
<1>3. \A i \in DOMAIN u : (i \in DOMAIN s /\ u[i] = s[i])
                          \/ (i - Len(s) \in DOMAIN t /\ u[i] = t[i - Len(s)])
  BY <1>1, <1>2
<1>4. \A j \in DOMAIN t : j + Len(s) \in DOMAIN u /\ u[j + Len(s)] = t[j]
  BY <1>1, <1>2
<1> QED
  BY <1>3, <1>4 DEF Joins, u

\* An event that names its span, and opens none that is open: it opens one, or
\* closes its target.
LEMMA ApplyEffect ==
  ASSUME NEW pr, Good(pr), NEW e \in Event, Named(e), Opens(e) => e.id \notin DOMAIN pr.span
  PROVE  /\ Opens(e) => /\ Pushed(pr, Apply(pr, e).proj, e.id, e.tool)
                        /\ \A x : ~Emits(Apply(pr, e).deltas, x)
         /\ ~Opens(e) => Closes(pr, Apply(pr, e), Target(pr, e))
         /\ ParentsIn(Apply(pr, e).deltas, Option(DOMAIN Apply(pr, e).proj.span))
         /\ Apply(pr, e).proj.last = e.seq
<1> DEFINE res == ApplySpanEvent(pr, e)
           all == Apply(pr, e)
           f   == FreshPath(pr, e)
<1>1. /\ all.proj.order = res.proj.order /\ all.proj.span = res.proj.span
      /\ all.proj.last = e.seq /\ all.deltas = f \o res.deltas
  BY DEF Apply
<1>2. res.deltas \in Seq(Delta)
  BY ApplySpanEventGood DEF IsResult
<1>3. f \in Seq(Delta) /\ \A i \in DOMAIN f : f[i].type = "path"
  <2>1. e.path # None => [type |-> "path", path |-> e.path] \in Delta
    BY DEF Event, Option, Delta
  <2> QED
    BY <2>1 DEF FreshPath
<1>4. Opens(e) => Pushed(pr, res.proj, e.id, e.tool) /\ res.deltas = <<>>
  <2>1. CASE e.kind = "call"
    BY <2>1, CallEffect DEF ApplySpanEvent, Opens, Named
  <2>2. CASE e.kind = "pre"
    BY <2>2, PreEffect DEF ApplySpanEvent, Opens, Named
  <2> QED
    BY <2>1, <2>2 DEF Opens
<1>5. ~Opens(e) => Closes(pr, res, Target(pr, e))
  <2>1. CASE e.kind = "result"
    BY <2>1, ResultEffect DEF ApplySpanEvent, Target
  <2>2. CASE e.kind = "post"
    BY <2>2, PostEffect DEF ApplySpanEvent, Target, Named
  <2>3. CASE e.kind \in {"start", "stop", "note", "permission", "prompt"}
    <3>1. res = [proj |-> pr, deltas |-> <<>>] /\ Target(pr, e) = None
      BY <2>3 DEF ApplySpanEvent, Target
    <3>2. None \notin DOMAIN pr.span
      BY StackFacts, GoodIsShape
    <3> QED
      BY <3>1, <3>2, NothingCloses
  <2> QED
    BY <2>1, <2>2, <2>3 DEF Event, EventKinds, Opens
<1> HIDE DEF res, f
<1>6. /\ \A i \in DOMAIN all.deltas : \/ all.deltas[i].type = "path"
                                      \/ \E j \in DOMAIN res.deltas : all.deltas[i] = res.deltas[j]
      /\ \A j \in DOMAIN res.deltas : \E i \in DOMAIN all.deltas : all.deltas[i] = res.deltas[j]
  <2>1. Joins(all.deltas, f, res.deltas)
    BY <1>1, <1>2, <1>3, ConcatMembers
  <2> HIDE DEF all
  <2> QED
    BY <1>3, <2>1 DEF Joins
<1> HIDE DEF all
<1>7. \A x : Emits(all.deltas, x) <=> Emits(res.deltas, x)
  BY <1>6 DEF Emits
<1>8. \A S : ParentsIn(res.deltas, S) => ParentsIn(all.deltas, S)
  BY <1>6 DEF ParentsIn
<1>9. \A x, y : Below(all.proj, x, y) <=> Below(res.proj, x, y)
  BY <1>1 DEF Below
<1>10. Opens(e) => /\ Pushed(pr, all.proj, e.id, e.tool)
                   /\ \A x : ~Emits(all.deltas, x)
                   /\ \A S : ParentsIn(all.deltas, S)
  <2> SUFFICES ASSUME Opens(e)
               PROVE  /\ Pushed(pr, all.proj, e.id, e.tool)
                      /\ \A x : ~Emits(all.deltas, x)
                      /\ \A S : ParentsIn(all.deltas, S)
    OBVIOUS
  <2>1. Pushed(pr, all.proj, e.id, e.tool)
    BY <1>1, <1>4, <1>9 DEF Pushed
  <2>2. \A x : ~Emits(res.deltas, x)
    BY <1>4 DEF Emits
  <2>3. \A S : ParentsIn(res.deltas, S)
    BY <1>4 DEF ParentsIn
  <2> QED
    BY <1>7, <1>8, <2>1, <2>2, <2>3
<1>11. ~Opens(e) => Closes(pr, all, Target(pr, e))
  <2> SUFFICES ASSUME ~Opens(e) PROVE Closes(pr, all, Target(pr, e))
    OBVIOUS
  <2>1. Removed(pr, all.proj, Target(pr, e))
    BY <1>1, <1>5, <1>9 DEF Closes, Removed
  <2> QED
    BY <1>1, <1>5, <1>7, <1>8, <2>1 DEF Closes
<1> QED
  BY <1>1, <1>10, <1>11 DEF Closes, all

-----------------------------------------------------------------------------
(* A projector that has missed nothing but the closing of some spans. *)

\* The open spans of a are open in b, of the same tools and in the same order.
Under(a, b) ==
  /\ DOMAIN a.span \subseteq DOMAIN b.span
  /\ \A x \in DOMAIN a.span : a.span[x].tool = b.span[x].tool
  /\ \A x, y \in DOMAIN a.span : Below(a, x, y) => Below(b, x, y)

\* The newest span of a set that b finds is the one a finds, if a has it.
LEMMA NewestAgree ==
  ASSUME NEW a, NEW b, Shape(a), Shape(b), Under(a, b), NEW S, NEW T,
         \A x \in DOMAIN a.span : x \in S <=> x \in T, Newest(b, T) \in DOMAIN a.span
  PROVE  Newest(a, S) = Newest(b, T)
<1> DEFINE t == Newest(b, T)
           u == Newest(a, S)
<1>1. DOMAIN a.span \subseteq DOMAIN b.span /\ None \notin DOMAIN b.span
  BY StackFacts DEF Under
<1>2. T \cap DOMAIN b.span # {}
  BY <1>1, NewestIsAbove
<1>3. t \in T \cap DOMAIN b.span
      /\ \A y \in T \cap DOMAIN b.span : y = t \/ Below(b, y, t)
  BY <1>2, NewestIsAbove
<1>4. t \in S \cap DOMAIN a.span
  BY <1>3
<1>5. u \in S \cap DOMAIN a.span /\ (t = u \/ Below(a, t, u))
  BY <1>4, NewestIsAbove
<1>6. u = t \/ Below(b, u, t)
  BY <1>1, <1>3, <1>5
<1> HIDE DEF t, u
<1>7. t = u \/ Below(b, t, u)
  BY <1>4, <1>5 DEF Under
<1>8. t = u
  BY <1>6, <1>7, BelowIsStrict
<1> QED
  BY <1>8 DEF t, u

\* The top of the stack is the newest open span.
LEMMA TopIsNewest ==
  ASSUME NEW pr, Shape(pr)
  PROVE  Top(pr) = Newest(pr, DOMAIN pr.span)
<1>1. None \notin DOMAIN pr.span /\ DOMAIN pr.span \ {None} = DOMAIN pr.span
  BY StackFacts
<1> QED
  BY <1>1, NewestIsTop

\* If a has the span that an event closes in b, the event closes it in a.
LEMMA TargetsAgree ==
  ASSUME NEW a, NEW b, Good(a), Good(b), Under(a, b), NEW e \in Event,
         Target(b, e) \in DOMAIN a.span
  PROVE  Target(a, e) = Target(b, e)
<1>1. /\ Shape(a) /\ Shape(b) /\ DOMAIN a.span \subseteq DOMAIN b.span
      /\ None \notin DOMAIN a.span
      /\ \A x \in DOMAIN a.span : a.span[x].tool = b.span[x].tool /\ ~a.span[x].hasEnd
      /\ \A x \in DOMAIN b.span : ~b.span[x].hasEnd
  BY GoodIsShape, StackFacts DEF Under, Fresh
<1>2. CASE e.kind = "result"
  <2> DEFINE S(pr) == {x \in DOMAIN pr.span : pr.span[x].tool = e.tool /\ ~pr.span[x].hasEnd}
             Same1(pr) == FindOpenSameTool(pr, e.tool)
  <2>1. /\ Target(a, e) = IF e.id \in DOMAIN a.span THEN e.id ELSE Or(Same1(a), Top(a))
        /\ Target(b, e) = IF e.id \in DOMAIN b.span THEN e.id ELSE Or(Same1(b), Top(b))
    BY <1>2 DEF Target, MatchSpan, Top
  <2>2. CASE e.id \in DOMAIN b.span
    BY <2>1, <2>2
  <2>3. CASE e.id \notin DOMAIN b.span
    <3>1. Target(a, e) = Or(Same1(a), Top(a)) /\ Target(b, e) = Or(Same1(b), Top(b))
      BY <1>1, <2>1, <2>3
    <3>2. \A x \in DOMAIN a.span : x \in S(a) <=> x \in S(b)
      BY <1>1
    <3>3. /\ Same1(a) = IF e.tool = None THEN None ELSE Newest(a, S(a))
          /\ Same1(b) = IF e.tool = None THEN None ELSE Newest(b, S(b))
      BY DEF FindOpenSameTool
    <3>4. Top(a) = Newest(a, DOMAIN a.span) /\ Top(b) = Newest(b, DOMAIN b.span)
      BY <1>1, TopIsNewest
    <3> HIDE DEF Same1
    <3>5. CASE Same1(b) # None
      <4>1. Target(b, e) = Same1(b) /\ Same1(b) = Newest(b, S(b)) /\ e.tool # None
        BY <3>1, <3>3, <3>5 DEF Or
      <4>2. Newest(a, S(a)) = Newest(b, S(b))
        <5> HIDE DEF S
        <5> QED
          BY <1>1, <3>2, <4>1, NewestAgree
      <4> QED
        BY <3>1, <3>3, <3>5, <4>1, <4>2 DEF Or
    <3>6. CASE Same1(b) = None
      <4>1. Target(b, e) = Top(b)
        BY <3>1, <3>6 DEF Or
      <4>2. Top(a) = Top(b)
        BY <1>1, <3>4, <4>1, NewestAgree
      <4>3. Same1(a) = None
        <5> SUFFICES ASSUME e.tool # None PROVE Newest(a, S(a)) = None
          BY <3>3
        <5>1. Newest(b, S(b)) = None
          BY <3>3, <3>6
        <5>2. S(b) \cap DOMAIN b.span = {}
          <6> HIDE DEF S
          <6>1. None \notin DOMAIN b.span
            BY <1>1, StackFacts
          <6> QED
            BY <1>1, <5>1, <6>1, NewestIsAbove
        <5>3. S(a) \cap DOMAIN a.span = {}
          BY <1>1, <3>2, <5>2
        <5> HIDE DEF S
        <5> QED
          BY <1>1, <5>3, NewestIsAbove
      <4> QED
        BY <3>1, <4>1, <4>2, <4>3 DEF Or
    <3> QED
      BY <3>5, <3>6
  <2> QED
    BY <2>2, <2>3
<1>3. CASE e.kind # "result"
  BY <1>3 DEF Target
<1> QED
  BY <1>2, <1>3

\* One event keeps a projector under another; what it makes them differ in, it
\* closes.
LEMMA UnderApply ==
  ASSUME NEW a, NEW b, Good(a), Good(b), Under(a, b), NEW e \in Event, Named(e),
         Opens(e) => e.id \notin DOMAIN b.span
  PROVE  /\ Under(Apply(a, e).proj, Apply(b, e).proj)
         /\ \A x \in DOMAIN Apply(b, e).proj.span \ DOMAIN Apply(a, e).proj.span :
              \/ x \in DOMAIN b.span \ DOMAIN a.span
              \/ Emits(Apply(a, e).deltas, x)
         /\ \A x \in DOMAIN b.span \ DOMAIN Apply(b, e).proj.span :
              x \in DOMAIN a.span => Emits(Apply(a, e).deltas, x)
<1> DEFINE u == Apply(a, e).proj
           v == Apply(b, e).proj
           ta == Target(a, e)
           tb == Target(b, e)
<1>1. /\ DOMAIN a.span \subseteq DOMAIN b.span
      /\ \A x \in DOMAIN a.span : a.span[x].tool = b.span[x].tool
      /\ \A x, y \in DOMAIN a.span : Below(a, x, y) => Below(b, x, y)
      /\ \A x, y : Below(a, x, y) => x \in DOMAIN a.span /\ y \in DOMAIN a.span
  BY BelowIsStrict, GoodIsShape DEF Under
<1>2. CASE Opens(e)
  <2>1. Pushed(a, u, e.id, e.tool) /\ Pushed(b, v, e.id, e.tool)
    BY <1>1, <1>2, ApplyEffect
  <2> HIDE DEF u, v
  <2>2. DOMAIN u.span \subseteq DOMAIN v.span
    BY <1>1, <2>1 DEF Pushed
  <2>3. \A x \in DOMAIN u.span : u.span[x].tool = v.span[x].tool
    BY <1>1, <2>1 DEF Pushed
  <2>4. \A x, y \in DOMAIN u.span : Below(u, x, y) => Below(v, x, y)
    BY <1>1, <2>1 DEF Pushed
  <2>5. \A x \in DOMAIN v.span \ DOMAIN u.span : x \in DOMAIN b.span \ DOMAIN a.span
    BY <2>1 DEF Pushed
  <2>6. DOMAIN b.span \subseteq DOMAIN v.span
    BY <2>1 DEF Pushed
  <2> QED
    BY <2>2, <2>3, <2>4, <2>5, <2>6 DEF Under, u, v
<1>3. CASE ~Opens(e)
  <2>1. Closes(a, Apply(a, e), ta) /\ Closes(b, Apply(b, e), tb)
    BY <1>3, ApplyEffect
  <2>2. tb \in DOMAIN a.span => ta = tb
    BY TargetsAgree
  <2>3. Removed(a, u, ta) /\ Removed(b, v, tb)
        /\ (ta \in DOMAIN a.span => Emits(Apply(a, e).deltas, ta))
    BY <2>1 DEF Closes
  <2> HIDE DEF u, v, ta, tb
  <2>4. \A x \in DOMAIN u.span : x \in DOMAIN a.span /\ x # tb /\ x \in DOMAIN v.span
    BY <1>1, <2>2, <2>3 DEF Removed
  <2>5. \A x \in DOMAIN u.span : u.span[x].tool = v.span[x].tool
    BY <1>1, <2>3, <2>4 DEF Removed
  <2>6. \A x, y \in DOMAIN u.span : Below(u, x, y) => Below(v, x, y)
    BY <1>1, <2>3, <2>4 DEF Removed
  <2>7. \A x \in DOMAIN v.span \ DOMAIN u.span :
          x \in DOMAIN b.span \ DOMAIN a.span \/ (x = ta /\ x \in DOMAIN a.span)
    BY <2>3 DEF Removed
  <2>8. \A x \in DOMAIN b.span \ DOMAIN v.span : x = tb
    BY <2>3 DEF Removed
  <2> QED
    BY <2>2, <2>3, <2>4, <2>5, <2>6, <2>7, <2>8 DEF Under, u, v
<1> QED
  BY <1>2, <1>3

\* Closing a span of a alone keeps it under b.
LEMMA UnderClose ==
  ASSUME NEW a, NEW b, Good(a), Under(a, b), NEW id \in DOMAIN a.span
  PROVE  /\ Under(Close(a, id).proj, b)
         /\ DOMAIN Close(a, id).proj.span = DOMAIN a.span \ {id}
<1> DEFINE u == Close(a, id).proj
<1>1. Removed(a, u, id)
  BY CloseOrder, GoodIsShape
<1> HIDE DEF u
<1>2. Under(u, b) /\ DOMAIN u.span = DOMAIN a.span \ {id}
  BY <1>1 DEF Removed, Under
<1> QED
  BY <1>2 DEF u

\* A projector with no open span is under any other.
LEMMA NothingUnder ==
  ASSUME NEW a, NEW b, DOMAIN a.span = {}
  PROVE  Under(a, b)
BY DEF Under

-----------------------------------------------------------------------------
(* The event store. *)

RowsOK ==
  /\ rows = [s \in Sessions |-> rows[s]]
  /\ \A s \in Sessions : /\ DOMAIN rows[s] \subseteq SpanIds
                         /\ \A x \in DOMAIN rows[s] : rows[s][x] \in Row

DbOK ==
  /\ events \in [Sessions -> Seq(Event)]
  /\ RowsOK
  /\ touched \in [Sessions -> SUBSET Paths]
  /\ status \in [Sessions -> Statuses]
  /\ prints \subseteq Sessions

MemOK ==
  /\ mem = [p \in Procs |-> [s \in Sessions |-> mem[p][s]]]
  /\ \A p \in Procs, s \in Sessions : Good(mem[p][s])

OutItem == [session : Sessions, delta : Delta]

\* What the local variables of one handle have to satisfy.
Consistent(l, sd, jb, bs, td, ou, af) ==
  /\ l \in Steps /\ sd \in Sessions /\ jb \in Seq(Event) /\ bs \in Option(Nat)
  /\ td \in Seq(Event) /\ ou \in Seq(OutItem) /\ af \in Steps
  /\ l = "idle" <=> jb = <<>>
  /\ Len(jb) <= 2
  /\ Len(jb) = 2 => jb[2].kind = "stop"
  /\ l = "status" => Head(jb).kind \in DOMAIN StatusOf
  /\ l = "hydrate" => td # <<>>
  /\ l = "write" => ou # <<>> /\ af \in {"expire", "done", "replay"}

LocalOK ==
  /\ pc = [p \in Procs |-> pc[p]] /\ sid = [p \in Procs |-> sid[p]]
  /\ job = [p \in Procs |-> job[p]] /\ base = [p \in Procs |-> base[p]]
  /\ todo = [p \in Procs |-> todo[p]] /\ out = [p \in Procs |-> out[p]]
  /\ after = [p \in Procs |-> after[p]]
  /\ \A p \in Procs :
       Consistent(pc[p], sid[p], job[p], base[p], todo[p], out[p], after[p])

BookOK == fired \subseteq Inputs /\ crashes \in 0 .. MaxCrashes /\ torn \subseteq Sessions

\* The invariant is the conjunction of its four parts.
LEMMA IInvParts == IInv <=> DbOK /\ MemOK /\ LocalOK /\ BookOK
<1>1. ASSUME IInv PROVE DbOK /\ MemOK /\ LocalOK /\ BookOK
  <2>1. DbOK /\ BookOK
    BY <1>1 DEF IInv, TypeOK, DbOK, RowsOK, BookOK
  <2>2. MemOK
    BY <1>1 DEF IInv, TypeOK, ProjectorsWellFormed, MemOK, Good
  <2>3. LocalOK
    BY <1>1 DEF IInv, TypeOK, ControlOK, LocalOK, Consistent, OutItem, Cur
  <2> QED
    BY <2>1, <2>2, <2>3
<1>2. ASSUME DbOK, MemOK, LocalOK, BookOK PROVE IInv
  <2>1. ControlOK
    BY <1>2 DEF ControlOK, LocalOK, Consistent, Cur
  <2>2. ProjectorsWellFormed
    BY <1>2 DEF ProjectorsWellFormed, MemOK, Good
  <2>3. \A p \in Procs, s \in Sessions : TypeOKProjector(mem[p][s])
    BY <1>2 DEF MemOK, Good
  <2>4. /\ pc \in [Procs -> Steps] /\ sid \in [Procs -> Sessions]
        /\ job \in [Procs -> Seq(Event)] /\ base \in [Procs -> Option(Nat)]
        /\ todo \in [Procs -> Seq(Event)] /\ out \in [Procs -> Seq(OutItem)]
        /\ after \in [Procs -> Steps]
    BY <1>2 DEF LocalOK, Consistent
  <2>5. TypeOK
    BY <1>2, <2>3, <2>4 DEF TypeOK, DbOK, RowsOK, MemOK, BookOK, OutItem
  <2> QED
    BY <2>1, <2>2, <2>5 DEF IInv
<1> QED
  BY <1>1, <1>2

-----------------------------------------------------------------------------
(* Steps on one part. *)

\* Setting one projector of a handle to a well-formed one.
LEMMA SetProjectorOK ==
  ASSUME MemOK, NEW p \in Procs, NEW s \in Sessions, NEW pr, Good(pr), SetProjector(p, s, pr)
  PROVE  MemOK'
<1>1. mem' = [q \in Procs |-> [t \in Sessions |->
                IF q = p /\ t = s THEN pr ELSE mem[q][t]]]
  BY DEF SetProjector, MemOK
<1>2. \A q \in Procs, t \in Sessions :
        mem'[q][t] = IF q = p /\ t = s THEN pr ELSE mem[q][t]
  BY <1>1
<1>3. \A q \in Procs, t \in Sessions : Good(mem'[q][t])
  BY <1>2 DEF MemOK
<1>4. mem' = [q \in Procs |-> [t \in Sessions |-> mem'[q][t]]]
  BY <1>1
<1>5. MemOK' <=> /\ mem' = [q \in Procs |-> [t \in Sessions |-> mem'[q][t]]]
                 /\ \A q \in Procs, t \in Sessions : Good(mem'[q][t])
  BY DEF MemOK
<1> QED
  BY <1>3, <1>4, <1>5

\* A handle that forgets everything.
LEMMA ForgetOK ==
  ASSUME MemOK, NEW p \in Procs, mem' = [mem EXCEPT ![p] = [s \in Sessions |-> Empty]]
  PROVE  MemOK'
<1>1. mem' = [q \in Procs |-> [t \in Sessions |-> IF q = p THEN Empty ELSE mem[q][t]]]
  BY DEF MemOK
<1>2. \A q \in Procs, t \in Sessions : mem'[q][t] = IF q = p THEN Empty ELSE mem[q][t]
  BY <1>1
<1>3. \A q \in Procs, t \in Sessions : Good(mem'[q][t])
  BY <1>2, EmptyIsGood DEF MemOK
<1>4. mem' = [q \in Procs |-> [t \in Sessions |-> mem'[q][t]]]
  BY <1>1
<1>5. MemOK' <=> /\ mem' = [q \in Procs |-> [t \in Sessions |-> mem'[q][t]]]
                 /\ \A q \in Procs, t \in Sessions : Good(mem'[q][t])
  BY DEF MemOK
<1> QED
  BY <1>3, <1>4, <1>5

\* A step of one handle that leaves its own variables consistent.
LEMMA LocalStep ==
  ASSUME LocalOK, NEW p \in Procs,
         NEW l, NEW sd, NEW jb, NEW bs, NEW td, NEW ou, NEW af,
         Consistent(l, sd, jb, bs, td, ou, af),
         pc' = [pc EXCEPT ![p] = l], sid' = [sid EXCEPT ![p] = sd],
         job' = [job EXCEPT ![p] = jb], base' = [base EXCEPT ![p] = bs],
         todo' = [todo EXCEPT ![p] = td], out' = [out EXCEPT ![p] = ou],
         after' = [after EXCEPT ![p] = af]
  PROVE  LocalOK'
<1>1. \A q \in Procs :
        /\ pc'[q] = IF q = p THEN l ELSE pc[q]
        /\ sid'[q] = IF q = p THEN sd ELSE sid[q]
        /\ job'[q] = IF q = p THEN jb ELSE job[q]
        /\ base'[q] = IF q = p THEN bs ELSE base[q]
        /\ todo'[q] = IF q = p THEN td ELSE todo[q]
        /\ out'[q] = IF q = p THEN ou ELSE out[q]
        /\ after'[q] = IF q = p THEN af ELSE after[q]
  BY DEF LocalOK
<1>2. \A q \in Procs :
        Consistent(pc'[q], sid'[q], job'[q], base'[q], todo'[q], out'[q], after'[q])
  BY <1>1, Zenon DEF LocalOK
<1>3. /\ pc' = [q \in Procs |-> pc'[q]] /\ sid' = [q \in Procs |-> sid'[q]]
      /\ job' = [q \in Procs |-> job'[q]] /\ base' = [q \in Procs |-> base'[q]]
      /\ todo' = [q \in Procs |-> todo'[q]] /\ out' = [q \in Procs |-> out'[q]]
      /\ after' = [q \in Procs |-> after'[q]]
  BY DEF LocalOK
<1>4. LocalOK' <=>
        /\ pc' = [q \in Procs |-> pc'[q]] /\ sid' = [q \in Procs |-> sid'[q]]
        /\ job' = [q \in Procs |-> job'[q]] /\ base' = [q \in Procs |-> base'[q]]
        /\ todo' = [q \in Procs |-> todo'[q]] /\ out' = [q \in Procs |-> out'[q]]
        /\ after' = [q \in Procs |-> after'[q]]
        /\ \A q \in Procs :
             Consistent(pc'[q], sid'[q], job'[q], base'[q], todo'[q], out'[q], after'[q])
  BY DEF LocalOK
<1> QED
  BY <1>2, <1>3, <1>4

\* A statement that writes one delta keeps the tables well typed.
LEMMA PersistOK ==
  ASSUME DbOK, NEW s \in Sessions, NEW delta \in Delta, Persist(s, delta),
         UNCHANGED <<events, status, prints>>
  PROVE  DbOK'
<1>1. CASE delta.type = "span"
  <2>1. delta.id \in SpanIds /\ delta.row \in Row
    BY <1>1 DEF Delta
  <2>2. /\ touched' = touched
        /\ rows' = [rows EXCEPT ![s] = [x \in DOMAIN rows[s] \cup {delta.id} |->
                                          IF x = delta.id THEN delta.row ELSE rows[s][x]]]
    BY <1>1 DEF Persist
  <2>3. \A t \in Sessions :
          rows'[t] = IF t = s THEN [x \in DOMAIN rows[s] \cup {delta.id} |->
                                      IF x = delta.id THEN delta.row ELSE rows[s][x]]
                     ELSE rows[t]
    BY <2>2 DEF DbOK, RowsOK
  <2>4. \A t \in Sessions : /\ DOMAIN rows'[t] \subseteq SpanIds
                            /\ \A x \in DOMAIN rows'[t] : rows'[t][x] \in Row
    <3> TAKE t \in Sessions
    <3>1. CASE t = s
      <4>1. rows'[t] = [x \in DOMAIN rows[s] \cup {delta.id} |->
                          IF x = delta.id THEN delta.row ELSE rows[s][x]]
        BY <2>3, <3>1
      <4>2. /\ DOMAIN rows'[t] = DOMAIN rows[s] \cup {delta.id}
            /\ \A x \in DOMAIN rows'[t] :
                 rows'[t][x] = IF x = delta.id THEN delta.row ELSE rows[s][x]
        BY <4>1
      <4> QED
        BY <2>1, <4>2 DEF DbOK, RowsOK
    <3>2. CASE t # s
      BY <2>3, <3>2 DEF DbOK, RowsOK
    <3> QED
      BY <3>1, <3>2
  <2>5. rows' = [t \in Sessions |-> rows'[t]]
    BY <2>2 DEF DbOK, RowsOK
  <2>6. RowsOK'
    BY <2>4, <2>5 DEF RowsOK
  <2> QED
    BY <2>2, <2>6 DEF DbOK
<1>2. CASE delta.type # "span"
  <2>1. delta.type = "path" /\ delta.path \in Paths
    BY <1>2 DEF Delta
  <2>2. rows' = rows /\ touched' = [touched EXCEPT ![s] = touched[s] \cup {delta.path}]
    BY <1>2, <2>1 DEF Persist
  <2>3. touched' \in [Sessions -> SUBSET Paths]
    BY <2>1, <2>2 DEF DbOK
  <2> QED
    BY <2>2, <2>3 DEF DbOK, RowsOK
<1> QED
  BY <1>1, <1>2

\* Tagging deltas with their session keeps them well typed, and some are left.
LEMMA TaggedTyped ==
  ASSUME NEW s \in Sessions, NEW deltas \in Seq(Delta)
  PROVE  Tagged(s, deltas) \in Seq(OutItem) /\ (deltas # <<>> => Tagged(s, deltas) # <<>>)
<1> DEFINE n == Len(deltas)
<1>1. n \in Nat /\ DOMAIN deltas = 1 .. n /\ \A i \in 1 .. n : deltas[i] \in Delta
  BY LenProperties, ElementOfSeq
<1>2. Tagged(s, deltas) = [i \in 1 .. n |-> [session |-> s, delta |-> deltas[i]]]
  BY <1>1 DEF Tagged
<1>3. Tagged(s, deltas) \in [1 .. n -> OutItem]
  BY <1>1, <1>2 DEF OutItem
<1>4. Tagged(s, deltas) \in Seq(OutItem)
  BY <1>1, <1>3, SeqDef
<1>5. deltas # <<>> => n # 0
  BY EmptySeq, <1>1
<1>6. DOMAIN Tagged(s, deltas) = 1 .. n
  BY <1>2
<1>7. Tagged(s, deltas) = <<>> => n = 0
  <2> SUFFICES ASSUME Tagged(s, deltas) = <<>>, n # 0 PROVE FALSE
    OBVIOUS
  <2>1. DOMAIN Tagged(s, deltas) = {}
    OBVIOUS
  <2>2. 1 \in 1 .. n
    BY <1>1
  <2> QED
    BY <1>6, <2>1, <2>2
<1> QED
  BY <1>4, <1>5, <1>7

\* Reading the log.
LEMMA LogTyped ==
  ASSUME DbOK, NEW s \in Sessions
  PROVE  LastSeq(s) \in Option(Nat) /\ NextSeq(s) \in Nat /\ Latest(events[s], HydrateMax) \in Seq(Event)
<1> DEFINE log == events[s]
           n   == Len(log)
<1>1. log \in Seq(Event) /\ n \in Nat /\ \A i \in 1 .. n : log[i] \in Event
  BY LenProperties, ElementOfSeq DEF DbOK
<1>2. log # <<>> => Last(log) \in Event
  BY <1>1, EmptySeq DEF Last
<1>3. log # <<>> => Last(log).seq \in Nat
  BY <1>2 DEF Event
<1>4. LastSeq(s) \in Option(Nat) /\ NextSeq(s) \in Nat
  BY <1>3 DEF LastSeq, NextSeq, Option
<1>5. HydrateMax \in Nat
  BY StoreAssumption
<1>6. n > HydrateMax => SubSeq(log, n - HydrateMax + 1, n) \in Seq(Event)
  <2> SUFFICES ASSUME n > HydrateMax PROVE SubSeq(log, n - HydrateMax + 1, n) \in Seq(Event)
    OBVIOUS
  <2>1. n - HydrateMax + 1 \in Int /\ n \in Int
    BY <1>1, <1>5
  <2>2. \A i \in n - HydrateMax + 1 .. n : log[i] \in Event
    BY <1>1, <1>5
  <2> QED
    BY <2>1, <2>2, SubSeqProperties
<1>7. Latest(log, HydrateMax) \in Seq(Event)
  BY <1>1, <1>5, <1>6 DEF Latest
<1> QED
  BY <1>4, <1>7

\* Inserting an event in the order of the seqs keeps the log a log.
LEMMA InsertedTyped ==
  ASSUME NEW log \in Seq(Event), NEW e \in Event
  PROVE  Inserted(log, e) \in Seq(Event)
<1> DEFINE n == Len(log)
           S == {0} \cup {i \in DOMAIN log : log[i].seq < e.seq}
           k == Max(S)
<1>1. n \in Nat /\ DOMAIN log = 1 .. n /\ \A i \in 1 .. n : log[i] \in Event
  BY LenProperties, ElementOfSeq
<1>2. S \subseteq 0 .. n /\ S # {}
  BY <1>1
<1>3. k \in 0 .. n
  <2> HIDE DEF S
  <2> QED
    BY <1>1, <1>2, MaxOfBounded
<1>4. Inserted(log, e) = SubSeq(log, 1, k) \o <<e>> \o SubSeq(log, k + 1, n)
  BY DEF Inserted
<1> HIDE DEF k
<1>5. SubSeq(log, 1, k) \in Seq(Event) /\ SubSeq(log, k + 1, n) \in Seq(Event)
  <2>1. \A i \in 1 .. k : log[i] \in Event
    BY <1>1, <1>3
  <2>2. \A i \in k + 1 .. n : log[i] \in Event
    BY <1>1, <1>3
  <2>3. 1 \in Int /\ k \in Int /\ n \in Int /\ k + 1 \in Int
    BY <1>1, <1>3
  <2> QED
    BY <2>1, <2>2, <2>3, SubSeqProperties
<1>6. <<e>> \in Seq(Event)
  OBVIOUS
<1> QED
  BY <1>4, <1>5, <1>6, ConcatProperties

-----------------------------------------------------------------------------
(* The actions. *)

\* A sequence is empty when its length is zero.
LEMMA EmptyIffNoLength ==
  ASSUME NEW S, NEW s \in Seq(S)
  PROVE  s = <<>> <=> Len(s) = 0
BY EmptySeq

\* What is left of one or two elements.
LEMMA TailOfShort ==
  ASSUME NEW S, NEW s \in Seq(S), Len(s) \in {1, 2}
  PROVE  /\ Tail(s) \in Seq(S)
         /\ Len(s) = 1 => Tail(s) = <<>>
         /\ Len(s) = 2 => Tail(s) # <<>> /\ Len(Tail(s)) = 1 /\ Head(Tail(s)) = s[2]
<1>1. s # <<>>
  BY EmptyIffNoLength
<1>2. /\ Tail(s) \in Seq(S) /\ Len(Tail(s)) = Len(s) - 1
      /\ \A i \in 1 .. Len(Tail(s)) : Tail(s)[i] = s[i + 1]
  BY <1>1, HeadTailProperties
<1>3. CASE Len(s) = 1
  <2>1. Len(Tail(s)) = 0
    BY <1>2, <1>3
  <2>2. Tail(s) = <<>>
    BY <1>2, <2>1, EmptyIffNoLength
  <2> QED
    BY <1>2, <1>3, <2>2
<1>4. CASE Len(s) = 2
  <2>1. Len(Tail(s)) = 1 /\ Tail(s)[1] = s[2]
    BY <1>2, <1>4
  <2>2. Tail(s) # <<>>
    <3> SUFFICES ASSUME Tail(s) = <<>> PROVE FALSE
      OBVIOUS
    <3>1. Len(Tail(s)) = 0
      BY EmptySeq
    <3> QED
      BY <2>1, <3>1
  <2>3. Head(Tail(s)) = Tail(s)[1]
    BY <1>2, <2>2
  <2> QED
    BY <1>2, <1>4, <2>1, <2>2, <2>3
<1> QED
  BY <1>3, <1>4

\* The end of an append leaves the handle idle or with the Stop to do.
LEMMA FinishOK ==
  ASSUME LocalOK, NEW p \in Procs, pc[p] # "idle", Finish(p),
         UNCHANGED <<sid, todo, out, after>>
  PROVE  LocalOK'
<1> DEFINE jb == Tail(job[p])
           l  == IF Len(job[p]) = 1 THEN "idle" ELSE "status"
<1>1. Consistent(pc[p], sid[p], job[p], base[p], todo[p], out[p], after[p])
  BY DEF LocalOK
<1>2. job[p] \in Seq(Event) /\ Len(job[p]) \in {1, 2}
  <2>1. job[p] \in Seq(Event) /\ job[p] # <<>> /\ Len(job[p]) <= 2
    BY <1>1 DEF Consistent
  <2>2. Len(job[p]) # 0 /\ Len(job[p]) \in Nat
    BY <2>1, EmptyIffNoLength, LenProperties
  <2>3. \A n \in Nat : n # 0 /\ n <= 2 => n \in {1, 2}
    OBVIOUS
  <2>4. Len(job[p]) \in {1, 2}
    BY <2>1, <2>2, <2>3, Zenon
  <2> QED
    BY <2>1, <2>4
<1>3. /\ jb \in Seq(Event)
      /\ Len(job[p]) = 1 => jb = <<>>
      /\ Len(job[p]) = 2 => jb # <<>> /\ Len(jb) = 1 /\ Head(jb) = job[p][2]
  BY <1>2, TailOfShort
<1>4. Len(job[p]) = 2 => job[p][2].kind = "stop"
  BY <1>1 DEF Consistent
<1> HIDE DEF jb
<1>5. Consistent(l, sid[p], jb, None, todo[p], out[p], after[p])
  <2>1. CASE Len(job[p]) = 1
    <3>1. l = "idle" /\ jb = <<>> /\ Len(jb) = 0
      BY <1>3, <2>1, EmptyIffNoLength
    <3> QED
      BY <1>1, <1>3, <3>1 DEF Consistent, Steps, Option
  <2>2. CASE Len(job[p]) = 2
    <3>1. l = "status" /\ jb # <<>> /\ Len(jb) = 1 /\ Head(jb).kind = "stop"
      BY <1>3, <1>4, <2>2
    <3> HIDE DEF l
    <3>2. Head(jb).kind \in DOMAIN StatusOf
      BY <3>1 DEF StatusOf
    <3> QED
      BY <1>1, <1>3, <3>1, <3>2 DEF Consistent, Steps, Option
  <2> QED
    BY <1>2, <2>1, <2>2
<1> QED
  BY <1>5, LocalStep DEF Finish, Goto, LocalOK, jb

\* Handing deltas to be persisted.
LEMMA EmitOK ==
  ASSUME LocalOK, NEW p \in Procs, pc[p] # "idle", NEW deltas \in Seq(Delta),
         NEW label \in {"expire", "done", "replay"}, Emit(p, deltas, label),
         NEW bs \in Option(Nat), base' = [base EXCEPT ![p] = bs],
         NEW td \in Seq(Event), todo' = [todo EXCEPT ![p] = td],
         UNCHANGED <<sid, job>>
  PROVE  LocalOK'
<1> DEFINE ou == Tagged(sid[p], deltas)
           l  == IF deltas = <<>> THEN label ELSE "write"
<1>1. Consistent(pc[p], sid[p], job[p], base[p], todo[p], out[p], after[p])
  BY DEF LocalOK
<1>2. ou \in Seq(OutItem) /\ (l = "write" => ou # <<>>)
  BY <1>1, TaggedTyped DEF Consistent
<1> HIDE DEF ou
<1>3. Consistent(l, sid[p], job[p], bs, td, ou, label)
  BY <1>1, <1>2 DEF Consistent, Steps
<1> QED
  BY <1>3, LocalStep DEF Emit, Goto, LocalOK, ou

\* Every operand of a step is well typed.
LEMMA OperandsOK ==
  ASSUME IInv, NEW p \in Procs
  PROVE  /\ sid[p] \in Sessions
         /\ Good(Mine(p))
         /\ events[sid[p]] \in Seq(Event)
         /\ pc[p] # "idle" => Cur(p) \in Event /\ job[p] # <<>>
         /\ todo[p] # <<>> => Head(todo[p]) \in Event /\ Tail(todo[p]) \in Seq(Event)
                              /\ Len(Tail(todo[p])) = Len(todo[p]) - 1
         /\ Consistent(pc[p], sid[p], job[p], base[p], todo[p], out[p], after[p])
<1>1. DbOK /\ MemOK /\ LocalOK
  BY IInvParts
<1>2. Consistent(pc[p], sid[p], job[p], base[p], todo[p], out[p], after[p])
  BY <1>1 DEF LocalOK
<1>3. sid[p] \in Sessions /\ job[p] \in Seq(Event) /\ todo[p] \in Seq(Event)
      /\ (pc[p] # "idle" => job[p] # <<>>)
  BY <1>2 DEF Consistent
<1>4. Good(Mine(p))
  BY <1>1, <1>3 DEF MemOK, Mine
<1> QED
  BY <1>1, <1>2, <1>3, <1>4, HeadTailProperties DEF Cur, DbOK

\* Begin makes one or two events out of the hook and gives the handle work.
LEMMA BeginOK ==
  ASSUME IInv, NEW p \in Procs, NEW s \in Sessions, NEW in \in Inputs,
         NEW changed \in PromptChanges, Begin(p, s, in, changed)
  PROVE  IInv'
<1> DEFINE e  == [in EXCEPT !.seq = NextSeq(s)]
           jb == IF changed THEN <<PromptChanged(e), e>> ELSE <<e>>
           l  == IF in.kind \in DOMAIN StatusOf /\ ~changed THEN "status" ELSE "load"
<1>1. DbOK /\ MemOK /\ LocalOK /\ BookOK
  BY IInvParts
<1>2. NextSeq(s) \in Nat /\ in \in Event /\ changed \in BOOLEAN
  BY <1>1, LogTyped, StoreAssumption
<1>3. e \in Event /\ e.kind = in.kind /\ e.seq = NextSeq(s)
  BY <1>2 DEF Event
<1>4. PromptChanged(e) \in Event
  BY <1>2, <1>3 DEF PromptChanged, Event, EventKinds, Option
<1> HIDE DEF e
<1>5. jb \in Seq(Event) /\ jb # <<>> /\ Len(jb) <= 2 /\ (Len(jb) = 2 => changed /\ jb[2] = e)
      /\ (~changed => Head(jb) = e)
  BY <1>2, <1>3, <1>4
<1>6. changed => e.kind = "stop"
  BY <1>3 DEF Begin
<1>7. Consistent(pc[p], sid[p], job[p], base[p], todo[p], out[p], after[p])
  BY <1>1 DEF LocalOK
<1>8. Consistent(l, s, jb, base[p], todo[p], out[p], after[p])
  <2> HIDE DEF jb
  <2>1. l \in Steps /\ l \in {"status", "load"} /\ (l = "status" => ~changed)
        /\ (l = "status" => in.kind \in DOMAIN StatusOf)
    BY DEF Steps
  <2> HIDE DEF l
  <2> QED
    BY <1>3, <1>5, <1>6, <1>7, <2>1 DEF Consistent
<1>9. LocalOK'
  BY <1>1, <1>8, LocalStep DEF Begin, Goto, e, LocalOK
<1>10. DbOK'
  <2>1. RowsOK'
    BY <1>1 DEF Begin, DbOK, RowsOK
  <2>2. status' \in [Sessions -> Statuses]
    BY <1>1 DEF Begin, DbOK, Statuses
  <2>3. prints' \subseteq Sessions
    BY <1>1 DEF Begin, DbOK
  <2> QED
    BY <1>1, <2>1, <2>2, <2>3 DEF Begin, DbOK
<1>11. MemOK' /\ BookOK'
  BY <1>1 DEF Begin, MemOK, BookOK
<1> QED
  BY <1>9, <1>10, <1>11, IInvParts, PTL

\* A handle with work goes on to a statement that needs no delta to write.
LEMMA GotoOK ==
  ASSUME LocalOK, NEW p \in Procs, pc[p] # "idle",
         NEW l \in Steps \ {"idle", "status", "write"}, Goto(p, l),
         NEW bs \in Option(Nat), base' = [base EXCEPT ![p] = bs],
         NEW td \in Seq(Event), todo' = [todo EXCEPT ![p] = td], l = "hydrate" => td # <<>>,
         UNCHANGED <<sid, job, out, after>>
  PROVE  LocalOK'
<1>1. Consistent(pc[p], sid[p], job[p], base[p], todo[p], out[p], after[p])
  BY DEF LocalOK
<1>2. Consistent(l, sid[p], job[p], bs, td, out[p], after[p])
  BY <1>1 DEF Consistent
<1> QED
  BY <1>2, LocalStep DEF Goto, LocalOK

\* The status written is the one of the hook, which has one.
LEMMA SetStatusOK ==
  ASSUME IInv, NEW p \in Procs, SetStatus(p)
  PROVE  IInv'
<1>1. DbOK /\ MemOK /\ LocalOK /\ BookOK
  BY IInvParts
<1>2. /\ pc[p] = "status" /\ sid[p] \in Sessions /\ base[p] \in Option(Nat)
      /\ todo[p] \in Seq(Event) /\ Cur(p).kind \in DOMAIN StatusOf
  BY OperandsOK DEF SetStatus, Consistent, Cur
<1>3. StatusOf[Cur(p).kind] \in Statuses
  BY <1>2 DEF StatusOf, Statuses
<1>4. status' \in [Sessions -> Statuses]
  BY <1>1, <1>2, <1>3 DEF SetStatus, DbOK
<1>5. DbOK' /\ MemOK' /\ BookOK'
  BY <1>1, <1>4 DEF SetStatus, DbOK, RowsOK, MemOK, BookOK
<1>6. "load" \in Steps \ {"idle", "status", "write"}
  BY DEF Steps
<1>7. base' = [base EXCEPT ![p] = base[p]] /\ todo' = [todo EXCEPT ![p] = todo[p]]
  BY <1>1 DEF SetStatus, LocalOK
<1>8. LocalOK'
  BY <1>1, <1>2, <1>6, <1>7, GotoOK DEF SetStatus
<1> QED
  BY <1>5, <1>8, IInvParts, PTL

\* Load keeps the projector or starts from an empty one.
LEMMA LoadOK ==
  ASSUME IInv, NEW p \in Procs, Load(p)
  PROVE  IInv'
<1>1. DbOK /\ MemOK /\ LocalOK /\ BookOK
  BY IInvParts
<1>2. pc[p] = "load" /\ sid[p] \in Sessions /\ todo[p] \in Seq(Event)
  BY OperandsOK DEF Load, Consistent
<1>3. LastSeq(sid[p]) \in Option(Nat)
  BY <1>1, <1>2, LogTyped
<1>4. todo' = [todo EXCEPT ![p] = todo[p]]
  BY <1>1 DEF Load, LocalOK
<1>5. "list" \in Steps \ {"idle", "status", "write"} /\ "insert" \in Steps \ {"idle", "status", "write"}
  BY DEF Steps
<1>6. LocalOK'
  <2>1. CASE Stale(p)
    BY <1>1, <1>2, <1>3, <1>4, <1>5, <2>1, GotoOK DEF Load
  <2>2. CASE ~Stale(p)
    BY <1>1, <1>2, <1>3, <1>4, <1>5, <2>2, GotoOK DEF Load
  <2> QED
    BY <2>1, <2>2
<1>7. MemOK'
  <2>1. CASE Stale(p)
    BY <1>1, <1>2, <2>1, SetProjectorOK, EmptyIsGood DEF Load
  <2>2. CASE ~Stale(p)
    BY <1>1, <2>2 DEF Load, MemOK
  <2> QED
    BY <2>1, <2>2
<1>8. DbOK' /\ BookOK'
  BY <1>1 DEF Load, db, DbOK, RowsOK, BookOK
<1> QED
  BY <1>6, <1>7, <1>8, IInvParts, PTL

\* The window read from the log is a sequence of events.
LEMMA ListLatestOK ==
  ASSUME IInv, NEW p \in Procs, ListLatest(p)
  PROVE  IInv'
<1> DEFINE td == Latest(events[sid[p]], HydrateMax)
           l  == IF td = <<>> THEN "insert" ELSE "hydrate"
<1>1. DbOK /\ MemOK /\ LocalOK /\ BookOK
  BY IInvParts
<1>2. pc[p] = "list" /\ sid[p] \in Sessions /\ base[p] \in Option(Nat)
  BY OperandsOK DEF ListLatest, Consistent
<1>3. td \in Seq(Event)
  BY <1>1, <1>2, LogTyped
<1> HIDE DEF td
<1>4. todo' = [todo EXCEPT ![p] = td] /\ base' = [base EXCEPT ![p] = base[p]]
  BY <1>1 DEF ListLatest, LocalOK, td
<1>5. todo'[p] = td
  BY <1>1, <1>4 DEF LocalOK
<1>6. Goto(p, l)
  BY <1>5 DEF ListLatest
<1>7. l \in Steps \ {"idle", "status", "write"} /\ (l = "hydrate" => td # <<>>)
  BY DEF Steps
<1> HIDE DEF l
<1>8. LocalOK'
  BY <1>1, <1>2, <1>3, <1>4, <1>6, <1>7, GotoOK DEF ListLatest
<1>9. DbOK' /\ MemOK' /\ BookOK'
  BY <1>1 DEF ListLatest, db, DbOK, RowsOK, MemOK, BookOK
<1> QED
  BY <1>8, <1>9, IInvParts, PTL

\* A rest of todo that is not empty has an event to hydrate with.
LEMMA HydrateOK ==
  ASSUME IInv, NEW p \in Procs, Hydrate(p)
  PROVE  IInv'
<1> DEFINE td == Tail(todo[p])
           l  == IF Len(todo[p]) = 1 THEN "insert" ELSE "hydrate"
<1>1. DbOK /\ MemOK /\ LocalOK /\ BookOK
  BY IInvParts
<1>2. /\ pc[p] = "hydrate" /\ sid[p] \in Sessions /\ base[p] \in Option(Nat)
      /\ todo[p] \in Seq(Event) /\ todo[p] # <<>> /\ Good(Mine(p))
  BY OperandsOK DEF Hydrate, Consistent
<1>3. Head(todo[p]) \in Event /\ td \in Seq(Event) /\ Len(td) = Len(todo[p]) - 1
  BY <1>2, OperandsOK
<1>4. Len(todo[p]) # 1 => td # <<>>
  <2> SUFFICES ASSUME td = <<>> PROVE Len(todo[p]) = 1
    OBVIOUS
  <2>1. Len(td) = 0 /\ Len(todo[p]) \in Nat
    BY <1>2, EmptySeq, LenProperties
  <2> QED
    BY <1>3, <2>1
<1> HIDE DEF td
<1>5. todo' = [todo EXCEPT ![p] = td] /\ base' = [base EXCEPT ![p] = base[p]]
  BY <1>1 DEF Hydrate, LocalOK, td
<1>6. l \in Steps \ {"idle", "status", "write"} /\ (l = "hydrate" => td # <<>>)
  BY <1>4 DEF Steps
<1>7. Goto(p, l)
  BY DEF Hydrate
<1> HIDE DEF l
<1>8. LocalOK'
  BY <1>1, <1>2, <1>3, <1>5, <1>6, <1>7, GotoOK DEF Hydrate
<1>9. MemOK'
  <2>1. Good(Apply(Mine(p), Head(todo[p])).proj)
    BY <1>2, <1>3, ApplyGood DEF IsResult
  <2> QED
    BY <1>1, <1>2, <2>1, SetProjectorOK DEF Hydrate
<1>10. DbOK' /\ BookOK'
  BY <1>1 DEF Hydrate, db, DbOK, RowsOK, BookOK
<1> QED
  BY <1>8, <1>9, <1>10, IInvParts, PTL

\* An insert ends in a conflict, in a rebuild or in deltas to persist.
LEMMA InsertOK ==
  ASSUME IInv, NEW p \in Procs, Insert(p)
  PROVE  IInv'
<1> DEFINE s   == sid[p]
           e   == Cur(p)
           res == Apply(Mine(p), e)
           conflict == \E i \in DOMAIN events[s] : events[s][i].seq = e.seq
           late == base[p] # None /\ e.seq <= base[p]
<1>1. DbOK /\ MemOK /\ LocalOK /\ BookOK
  BY IInvParts
<1>2. /\ pc[p] = "insert" /\ s \in Sessions /\ base[p] \in Option(Nat) /\ todo[p] \in Seq(Event)
      /\ e \in Event /\ Good(Mine(p)) /\ events[s] \in Seq(Event)
  BY OperandsOK DEF Insert, Consistent
<1>3. Good(res.proj) /\ res.deltas \in Seq(Delta)
  BY <1>2, ApplyGood DEF IsResult
<1>4. UNCHANGED <<rows, touched, status, prints, sid, todo, fired, crashes, torn>>
  BY DEF Insert
<1>5. CASE conflict
  <2>1. Finish(p) /\ UNCHANGED <<events, mem, out, after>>
    BY <1>5 DEF Insert
  <2>2. LocalOK'
    BY <1>1, <1>2, <1>4, <2>1, FinishOK
  <2>3. DbOK' /\ MemOK' /\ BookOK'
    BY <1>1, <1>4, <2>1 DEF DbOK, RowsOK, MemOK, BookOK
  <2> QED
    BY <2>2, <2>3, IInvParts, PTL
<1>6. CASE ~conflict
  <2>1. events' = [events EXCEPT ![s] = Inserted(events[s], e)]
    BY <1>6 DEF Insert
  <2>2. Inserted(events[s], e) \in Seq(Event)
    BY <1>2, InsertedTyped
  <2>3. events' \in [Sessions -> Seq(Event)]
    BY <1>1, <1>2, <2>1, <2>2 DEF DbOK
  <2>4. DbOK' /\ BookOK'
    BY <1>1, <1>4, <2>3 DEF DbOK, RowsOK, BookOK
  <2>5. /\ base' = [base EXCEPT ![p] = None] /\ None \in Option(Nat)
        /\ todo' = [todo EXCEPT ![p] = todo[p]]
    BY <1>1, <1>4, <1>6 DEF Insert, LocalOK, Option
  <2>6. LocalOK' /\ MemOK'
    <3>1. CASE late
      <4>1. Goto(p, "clear") /\ UNCHANGED <<mem, out, after, job>>
        BY <1>6, <3>1 DEF Insert
      <4>2. "clear" \in Steps \ {"idle", "status", "write"}
        BY DEF Steps
      <4>3. LocalOK'
        BY <1>1, <1>2, <1>4, <2>5, <4>1, <4>2, GotoOK
      <4> QED
        BY <1>1, <4>1, <4>3 DEF MemOK
    <3>2. CASE ~late
      <4>1. SetProjector(p, s, res.proj) /\ Emit(p, res.deltas, "expire") /\ UNCHANGED job
        BY <1>6, <3>2 DEF Insert
      <4>2. MemOK'
        BY <1>1, <1>2, <1>3, <4>1, SetProjectorOK
      <4>3. LocalOK'
        BY <1>1, <1>2, <1>3, <1>4, <2>5, <4>1, EmitOK
      <4> QED
        BY <4>2, <4>3
    <3> QED
      BY <3>1, <3>2
  <2> QED
    BY <2>4, <2>6, IInvParts, PTL
<1> QED
  BY <1>5, <1>6

\* After the last delta the handle goes on where Emit said.
LEMMA WriteOK ==
  ASSUME IInv, NEW p \in Procs, Write(p)
  PROVE  IInv'
<1> DEFINE ou == Tail(out[p])
           l  == IF Len(out[p]) = 1 THEN after[p] ELSE "write"
<1>1. DbOK /\ MemOK /\ LocalOK /\ BookOK
  BY IInvParts
<1>2. Consistent(pc[p], sid[p], job[p], base[p], todo[p], out[p], after[p]) /\ pc[p] = "write"
  BY <1>1 DEF LocalOK, Write
<1>3. out[p] \in Seq(OutItem) /\ out[p] # <<>> /\ after[p] \in {"expire", "done", "replay"}
  BY <1>2 DEF Consistent
<1>4. Head(out[p]) \in OutItem /\ ou \in Seq(OutItem) /\ Len(ou) = Len(out[p]) - 1
  BY <1>3, HeadTailProperties
<1>5. Len(out[p]) # 1 => ou # <<>>
  <2> SUFFICES ASSUME ou = <<>> PROVE Len(out[p]) = 1
    OBVIOUS
  <2>1. Len(ou) = 0 /\ Len(out[p]) \in Nat
    BY <1>3, EmptySeq, LenProperties
  <2> QED
    BY <1>4, <2>1
<1> HIDE DEF ou
<1>6. Consistent(l, sid[p], job[p], base[p], todo[p], ou, after[p])
  BY <1>2, <1>3, <1>4, <1>5 DEF Consistent, Steps
<1>7. LocalOK'
  BY <1>1, <1>6, LocalStep DEF Write, Goto, LocalOK, ou
<1>8. Head(out[p]).session \in Sessions /\ Head(out[p]).delta \in Delta
  BY <1>4 DEF OutItem
<1>9. DbOK'
  BY <1>1, <1>8, PersistOK DEF Write
<1>10. MemOK' /\ BookOK'
  BY <1>1 DEF Write, MemOK, BookOK
<1> QED
  BY <1>7, <1>9, <1>10, IInvParts, PTL

\* An expired span is an open one, and none of the others has ended.
LEMMA ExpireOneOK ==
  ASSUME IInv, NEW p \in Procs, NEW s \in Sessions, NEW x, ExpireOne(p, s, x)
  PROVE  IInv'
<1> DEFINE pr == mem[p][s]
<1>1. DbOK /\ MemOK /\ LocalOK /\ BookOK
  BY IInvParts
<1>2. Good(pr) /\ x \in DOMAIN pr.span
  BY <1>1 DEF MemOK, ExpireOne, Expired
<1>3. Good(Close(pr, x).proj) /\ Close(pr, x).deltas = <<SpanClosed(x, pr.span[x])>>
  BY <1>2, GoodIsShape, CloseKeepsGood
<1>4. SpanClosed(x, pr.span[x]) \in Delta
  BY <1>2, SpanClosedIsDelta DEF Good, TypeOKProjector
<1>5. Head(Close(pr, x).deltas) \in Delta
  BY <1>3, <1>4
<1>6. DbOK'
  BY <1>1, <1>5, PersistOK DEF ExpireOne
<1>7. MemOK'
  BY <1>1, <1>3, SetProjectorOK DEF ExpireOne
<1>8. LocalOK' /\ BookOK'
  BY <1>1 DEF ExpireOne, LocalOK, BookOK
<1> QED
  BY <1>6, <1>7, <1>8, IInvParts, PTL

\* When nothing is left to expire the append ends, or the Stop is flushed.
LEMMA ExpireDoneOK ==
  ASSUME IInv, NEW p \in Procs, ExpireDone(p)
  PROVE  IInv'
<1>1. DbOK /\ MemOK /\ LocalOK /\ BookOK
  BY IInvParts
<1>2. pc[p] = "expire" /\ base[p] \in Option(Nat) /\ todo[p] \in Seq(Event)
  BY OperandsOK DEF ExpireDone, Consistent
<1>3. LocalOK'
  <2>1. CASE Cur(p).kind = "stop"
    <3>1. Goto(p, "flush") /\ UNCHANGED <<job, base, sid, todo, out, after>>
      BY <2>1 DEF ExpireDone
    <3>2. base' = [base EXCEPT ![p] = base[p]] /\ todo' = [todo EXCEPT ![p] = todo[p]]
      BY <1>1, <3>1 DEF LocalOK
    <3>3. "flush" \in Steps \ {"idle", "status", "write"}
      BY DEF Steps
    <3> QED
      BY <1>1, <1>2, <3>1, <3>2, <3>3, GotoOK
  <2>2. CASE Cur(p).kind # "stop"
    BY <1>1, <1>2, <2>2, FinishOK DEF ExpireDone
  <2> QED
    BY <2>1, <2>2
<1>4. DbOK' /\ MemOK' /\ BookOK'
  BY <1>1 DEF ExpireDone, db, DbOK, RowsOK, MemOK, BookOK
<1> QED
  BY <1>3, <1>4, IInvParts, PTL

\* A flush leaves an empty stack and one delta per span.
LEMMA FlushOK ==
  ASSUME IInv, NEW p \in Procs, Flush(p)
  PROVE  IInv'
<1> DEFINE res == FlushSession(Mine(p))
<1>1. DbOK /\ MemOK /\ LocalOK /\ BookOK
  BY IInvParts
<1>2. /\ pc[p] = "flush" /\ sid[p] \in Sessions /\ base[p] \in Option(Nat)
      /\ todo[p] \in Seq(Event) /\ Good(Mine(p))
  BY OperandsOK DEF Flush, Consistent
<1>3. Good(res.proj) /\ res.deltas \in Seq(Delta)
  BY <1>2, FlushGood DEF IsResult
<1>4. base' = [base EXCEPT ![p] = base[p]] /\ todo' = [todo EXCEPT ![p] = todo[p]]
  BY <1>1 DEF Flush, LocalOK
<1>5. SetProjector(p, sid[p], res.proj) /\ Emit(p, res.deltas, "done") /\ UNCHANGED <<sid, job>>
  BY DEF Flush
<1> HIDE DEF res
<1>6. MemOK'
  BY <1>1, <1>2, <1>3, <1>5, SetProjectorOK
<1>7. LocalOK'
  BY <1>1, <1>2, <1>3, <1>4, <1>5, EmitOK
<1>8. DbOK' /\ BookOK'
  BY <1>1 DEF Flush, db, DbOK, RowsOK, BookOK
<1> QED
  BY <1>6, <1>7, <1>8, IInvParts, PTL

\* The end of a flush is the end of the append.
LEMMA DoneOK ==
  ASSUME IInv, NEW p \in Procs, Done(p)
  PROVE  IInv'
<1>1. DbOK /\ MemOK /\ LocalOK /\ BookOK
  BY IInvParts
<1>2. LocalOK'
  BY <1>1, FinishOK DEF Done
<1>3. DbOK' /\ MemOK' /\ BookOK'
  BY <1>1 DEF Done, db, DbOK, RowsOK, MemOK, BookOK
<1> QED
  BY <1>2, <1>3, IInvParts, PTL

\* Clearing leaves no row and an empty projector.
LEMMA ClearRowsOK ==
  ASSUME IInv, NEW p \in Procs, ClearRows(p)
  PROVE  IInv'
<1>1. DbOK /\ MemOK /\ LocalOK /\ BookOK
  BY IInvParts
<1>2. pc[p] = "clear" /\ sid[p] \in Sessions /\ base[p] \in Option(Nat) /\ todo[p] \in Seq(Event)
  BY OperandsOK DEF ClearRows, Consistent
<1>3. base' = [base EXCEPT ![p] = base[p]] /\ todo' = [todo EXCEPT ![p] = todo[p]]
  BY <1>1 DEF ClearRows, LocalOK
<1>4. "listall" \in Steps \ {"idle", "status", "write"}
  BY DEF Steps
<1>5. LocalOK'
  BY <1>1, <1>2, <1>3, <1>4, GotoOK DEF ClearRows
<1>6. MemOK'
  BY <1>1, <1>2, SetProjectorOK, EmptyIsGood DEF ClearRows
<1>7. RowsOK'
  BY <1>1 DEF ClearRows, DbOK, RowsOK
<1>8. DbOK' /\ BookOK'
  BY <1>1, <1>7 DEF ClearRows, DbOK, BookOK
<1> QED
  BY <1>5, <1>6, <1>8, IInvParts, PTL

\* A rebuild reads the whole log.
LEMMA ListAllOK ==
  ASSUME IInv, NEW p \in Procs, ListAll(p)
  PROVE  IInv'
<1>1. DbOK /\ MemOK /\ LocalOK /\ BookOK
  BY IInvParts
<1>2. pc[p] = "listall" /\ base[p] \in Option(Nat) /\ events[sid[p]] \in Seq(Event)
  BY OperandsOK DEF ListAll, Consistent
<1>3. base' = [base EXCEPT ![p] = base[p]] /\ todo' = [todo EXCEPT ![p] = events[sid[p]]]
  BY <1>1 DEF ListAll, LocalOK
<1>4. "replay" \in Steps \ {"idle", "status", "write"}
  BY DEF Steps
<1>5. LocalOK'
  BY <1>1, <1>2, <1>3, <1>4, GotoOK DEF ListAll
<1>6. DbOK' /\ MemOK' /\ BookOK'
  BY <1>1 DEF ListAll, db, DbOK, RowsOK, MemOK, BookOK
<1> QED
  BY <1>5, <1>6, IInvParts, PTL

\* One event of a rebuild.
LEMMA ReplayOneOK ==
  ASSUME IInv, NEW p \in Procs, ReplayOne(p)
  PROVE  IInv'
<1> DEFINE res == Apply(Mine(p), Head(todo[p]))
<1>1. DbOK /\ MemOK /\ LocalOK /\ BookOK
  BY IInvParts
<1>2. /\ pc[p] = "replay" /\ sid[p] \in Sessions /\ base[p] \in Option(Nat)
      /\ Good(Mine(p)) /\ Head(todo[p]) \in Event /\ Tail(todo[p]) \in Seq(Event)
  BY OperandsOK DEF ReplayOne, Consistent
<1>3. Good(res.proj) /\ res.deltas \in Seq(Delta)
  BY <1>2, ApplyGood DEF IsResult
<1>4. base' = [base EXCEPT ![p] = base[p]] /\ todo' = [todo EXCEPT ![p] = Tail(todo[p])]
  BY <1>1 DEF ReplayOne, LocalOK
<1>5. SetProjector(p, sid[p], res.proj) /\ Emit(p, res.deltas, "replay") /\ UNCHANGED <<sid, job>>
  BY DEF ReplayOne
<1> HIDE DEF res
<1>6. MemOK'
  BY <1>1, <1>2, <1>3, <1>5, SetProjectorOK
<1>7. LocalOK'
  BY <1>1, <1>2, <1>3, <1>4, <1>5, EmitOK
<1>8. DbOK' /\ BookOK'
  BY <1>1 DEF ReplayOne, db, DbOK, RowsOK, BookOK
<1> QED
  BY <1>6, <1>7, <1>8, IInvParts, PTL

\* At its end the session is flushed if it is Done.
LEMMA ReplayDoneOK ==
  ASSUME IInv, NEW p \in Procs, ReplayDone(p)
  PROVE  IInv'
<1>1. DbOK /\ MemOK /\ LocalOK /\ BookOK
  BY IInvParts
<1>2. pc[p] = "replay" /\ base[p] \in Option(Nat) /\ todo[p] \in Seq(Event)
  BY OperandsOK DEF ReplayDone, Consistent
<1>3. LocalOK'
  <2>1. CASE status[sid[p]] = "Done"
    <3>1. Goto(p, "flush") /\ UNCHANGED <<job, base, sid, todo, out, after>>
      BY <2>1 DEF ReplayDone
    <3>2. base' = [base EXCEPT ![p] = base[p]] /\ todo' = [todo EXCEPT ![p] = todo[p]]
      BY <1>1, <3>1 DEF LocalOK
    <3>3. "flush" \in Steps \ {"idle", "status", "write"}
      BY DEF Steps
    <3> QED
      BY <1>1, <1>2, <3>1, <3>2, <3>3, GotoOK
  <2>2. CASE status[sid[p]] # "Done"
    BY <1>1, <1>2, <2>2, FinishOK DEF ReplayDone
  <2> QED
    BY <2>1, <2>2
<1>4. DbOK' /\ MemOK' /\ BookOK'
  BY <1>1 DEF ReplayDone, db, DbOK, RowsOK, MemOK, BookOK
<1> QED
  BY <1>3, <1>4, IInvParts, PTL

\* A handle that is dropped forgets its projectors and nothing else.
LEMMA RestartOK ==
  ASSUME IInv, NEW p \in Procs, Restart(p)
  PROVE  IInv'
<1>1. DbOK /\ MemOK /\ LocalOK /\ BookOK
  BY IInvParts
<1>2. MemOK'
  BY <1>1, ForgetOK DEF Restart
<1>3. DbOK' /\ LocalOK' /\ BookOK'
  BY <1>1 DEF Restart, db, DbOK, RowsOK, LocalOK, BookOK
<1> QED
  BY <1>2, <1>3, IInvParts, PTL

\* A killed process loses everything it had in memory.
LEMMA CrashOK ==
  ASSUME IInv, NEW p \in Procs, Crash(p)
  PROVE  IInv'
<1>1. DbOK /\ MemOK /\ LocalOK /\ BookOK
  BY IInvParts
<1>2. sid[p] \in Sessions /\ after[p] \in Steps
  BY OperandsOK DEF Consistent
<1>3. MemOK'
  BY <1>1, ForgetOK DEF Crash
<1>4. Consistent("idle", sid[p], <<>>, None, <<>>, <<>>, after[p])
  <2>1. <<>> \in Seq(Event) /\ <<>> \in Seq(OutItem) /\ Len(<<>>) = 0
    BY EmptySeq
  <2> QED
    BY <1>2, <2>1 DEF Consistent, Steps, Option
<1>5. LocalOK'
  BY <1>1, <1>4, LocalStep DEF Crash, Goto, LocalOK
<1>6. DbOK'
  BY <1>1 DEF Crash, db, DbOK, RowsOK
<1>7. crashes' \in 0 .. MaxCrashes
  BY <1>1, StoreAssumption DEF Crash, BookOK
<1>8. BookOK'
  BY <1>1, <1>2, <1>7 DEF Crash, BookOK
<1> QED
  BY <1>3, <1>5, <1>6, <1>8, IInvParts, PTL

-----------------------------------------------------------------------------
(* The theorems. *)

\* The store starts in a consistent state.
LEMMA InitIInv == Init => IInv
<1> SUFFICES ASSUME Init PROVE IInv
  OBVIOUS
<1>1. PICK s0 : s0 \in Sessions
  BY StoreAssumption
<1>2. (CHOOSE s \in Sessions : TRUE) \in Sessions
  BY <1>1
<1>3. <<>> \in Seq(Event) /\ <<>> \in Seq(OutItem) /\ Len(<<>>) = 0
  BY EmptySeq
<1>4. DbOK
  <2>1. RowsOK
    BY DEF Init, RowsOK
  <2> QED
    BY <1>3, <2>1 DEF Init, DbOK, Statuses
<1>5. MemOK
  <2>1. \A p \in Procs, s \in Sessions : mem[p][s] = Empty
    BY DEF Init
  <2>2. mem = [p \in Procs |-> [s \in Sessions |-> mem[p][s]]]
    BY DEF Init
  <2> QED
    BY <2>1, <2>2, EmptyIsGood DEF MemOK
<1>6. LocalOK
  <2> DEFINE sd == CHOOSE s \in Sessions : TRUE
  <2>1. sd \in Sessions
    BY <1>2
  <2>2. /\ pc = [p \in Procs |-> "idle"] /\ sid = [p \in Procs |-> sd]
        /\ job = [p \in Procs |-> <<>>] /\ base = [p \in Procs |-> None]
        /\ todo = [p \in Procs |-> <<>>] /\ out = [p \in Procs |-> <<>>]
        /\ after = [p \in Procs |-> "idle"]
    BY DEF Init
  <2> HIDE DEF sd
  <2>3. Consistent("idle", sd, <<>>, None, <<>>, <<>>, "idle")
    BY <1>3, <2>1 DEF Consistent, Steps, Option
  <2>4. \A p \in Procs : Consistent(pc[p], sid[p], job[p], base[p], todo[p], out[p], after[p])
    BY <2>2, <2>3
  <2> QED
    BY <2>2, <2>4 DEF LocalOK
<1>7. BookOK
  BY StoreAssumption DEF Init, BookOK
<1> QED
  BY <1>4, <1>5, <1>6, <1>7, IInvParts

\* Every step of every handle keeps the invariant.
LEMMA NextIInv == IInv /\ [Next]_vars => IInv'
<1> SUFFICES ASSUME IInv, [Next]_vars PROVE IInv'
  OBVIOUS
<1>1. CASE UNCHANGED vars
  <2>1. DbOK /\ MemOK /\ LocalOK /\ BookOK
    BY IInvParts
  <2>2. DbOK'
    BY <1>1, <2>1 DEF vars, db, DbOK, RowsOK
  <2>3. MemOK' /\ LocalOK' /\ BookOK'
    BY <1>1, <2>1 DEF vars, local, MemOK, LocalOK, BookOK
  <2> QED
    BY <2>2, <2>3, IInvParts, PTL
<1>2. ASSUME NEW p \in Procs, Step(p) PROVE IInv'
  <2>1. CASE \E s \in Sessions, in \in Inputs, changed \in PromptChanges : Begin(p, s, in, changed)
    BY <2>1, BeginOK
  <2>2. CASE SetStatus(p)
    BY <2>2, SetStatusOK
  <2>3. CASE Load(p)
    BY <2>3, LoadOK
  <2>4. CASE ListLatest(p)
    BY <2>4, ListLatestOK
  <2>5. CASE Hydrate(p)
    BY <2>5, HydrateOK
  <2>6. CASE Insert(p)
    BY <2>6, InsertOK
  <2>7. CASE Write(p)
    BY <2>7, WriteOK
  <2>8. CASE \E s \in Sessions : \E x \in DOMAIN mem[p][s].span : ExpireOne(p, s, x)
    BY <2>8, ExpireOneOK
  <2>9. CASE ExpireDone(p)
    BY <2>9, ExpireDoneOK
  <2>10. CASE Flush(p)
    BY <2>10, FlushOK
  <2>11. CASE Done(p)
    BY <2>11, DoneOK
  <2>12. CASE ClearRows(p)
    BY <2>12, ClearRowsOK
  <2>13. CASE ListAll(p)
    BY <2>13, ListAllOK
  <2>14. CASE ReplayOne(p)
    BY <2>14, ReplayOneOK
  <2>15. CASE ReplayDone(p)
    BY <2>15, ReplayDoneOK
  <2>16. CASE Restart(p)
    BY <2>16, RestartOK
  <2>17. CASE Crash(p)
    BY <2>17, CrashOK
  <2> QED
    BY <1>2, <2>1, <2>2, <2>3, <2>4, <2>5, <2>6, <2>7, <2>8, <2>9, <2>10, <2>11, <2>12, <2>13,
       <2>14, <2>15, <2>16, <2>17 DEF Step
<1> QED
  BY <1>1, <1>2 DEF Next

\* The invariant is inductive, so it holds in every reachable state, for any
\* number of handles, sessions and hooks (all of event_write.rs and
\* event_projector.rs).
THEOREM StoreInvariant == Spec => []IInv
<1>1. Init => IInv
  BY InitIInv
<1>2. IInv /\ [Next]_vars => IInv'
  BY NextIInv
<1> QED
  BY <1>1, <1>2, PTL DEF Spec

\* The tables hold well-typed rows and every handle is where its append says.
THEOREM TypeCorrect == Spec => []TypeOK
<1>1. IInv => TypeOK
  BY DEF IInv
<1> QED
  BY <1>1, StoreInvariant, PTL

\* Whatever hooks arrive at whatever handles, in every handle the open spans of
\* a session form one chain that the stack lists exactly, and none has ended
\* (store/projector, projector_hierarchy).
THEOREM ProjectorsAlwaysWellFormed == Spec => []ProjectorsWellFormed
<1>1. IInv => ProjectorsWellFormed
  BY DEF IInv
<1> QED
  BY <1>1, StoreInvariant, PTL

-----------------------------------------------------------------------------
(* Derived rows.  A value the log or a dedup cache knows has its row, or    *)
(* some handle still owes it: a delta it has not written yet, the late      *)
(* event it is about to rebuild the session for, or an event of the rebuild *)
(* it has not applied yet.                                                  *)

LogPaths(log) == {log[i].path : i \in DOMAIN log}

OutPaths(ou) == {ou[i].delta.path : i \in {j \in DOMAIN ou : ou[j].delta.type = "path"}}

Rebuilding(l, af) == l = "replay" \/ (l = "write" /\ af = "replay")

Debt(l, jb, td, ou, af) ==
  OutPaths(ou)
    \cup (IF l \in {"clear", "listall"} THEN {Head(jb).path} ELSE {})
    \cup (IF Rebuilding(l, af) THEN LogPaths(td) ELSE {})

DebtOf(q) == Debt(pc[q], job[q], todo[q], out[q], after[q])

Owed(s, x) == x \in touched[s] \/ \E q \in Procs : sid[q] = s /\ x \in DebtOf(q)

\* What the deltas, the events read and the cache of one handle have to satisfy.
\* The last conjunct is why a rebuild may trust its cache: what it has seen since
\* it cleared the rows it has emitted itself.
HandleOK(q) ==
  /\ out[q] # <<>> => pc[q] = "write"
  /\ \A i \in DOMAIN out[q] : out[q][i].session = sid[q]
  /\ pc[q] = "hydrate" => LogPaths(todo[q]) \subseteq LogPaths(events[sid[q]])
  /\ pc[q] \in {"clear", "listall"} => Cur(q).path \in LogPaths(events[sid[q]])
  /\ pc[q] = "listall" \/ Rebuilding(pc[q], after[q])
       => mem[q][sid[q]].seen \subseteq touched[sid[q]] \cup OutPaths(out[q])

SessionOK(s) ==
  s \notin torn =>
    /\ \A x \in LogPaths(events[s]) \ {None} : Owed(s, x)
    /\ \A q \in Procs : \A x \in mem[q][s].seen : Owed(s, x)

PathsOK == (\A q \in Procs : HandleOK(q)) /\ \A s \in Sessions : SessionOK(s)

\* A step that changes nothing of handle q.
Same(q) == /\ pc'[q] = pc[q] /\ sid'[q] = sid[q] /\ job'[q] = job[q] /\ todo'[q] = todo[q]
           /\ out'[q] = out[q] /\ after'[q] = after[q] /\ mem'[q] = mem[q]

\* No row and no event is ever taken away.
Grows == /\ \A s \in Sessions : touched[s] \subseteq touched'[s]
         /\ \A s \in Sessions : LogPaths(events[s]) \subseteq LogPaths(events'[s])
         /\ torn \subseteq torn'

-----------------------------------------------------------------------------
\* A handle that has no delta to write and no session to rebuild owes nothing.
LEMMA NoDebt ==
  ASSUME NEW q, HandleOK(q), pc[q] \notin {"write", "clear", "listall", "replay"}
  PROVE  DebtOf(q) = {} /\ out[q] = <<>>
<1>1. out[q] = <<>>
  BY DEF HandleOK
<1>2. OutPaths(out[q]) = {}
  BY <1>1 DEF OutPaths
<1> QED
  BY <1>1, <1>2 DEF DebtOf, Debt, Rebuilding

\* The other handles keep what they had.
LEMMA OthersKeep ==
  ASSUME LocalOK, NEW p \in Procs, Grows, NEW q \in Procs, Same(q), HandleOK(q)
  PROVE  HandleOK(q)'
<1>1. sid[q] \in Sessions
  BY DEF LocalOK, Consistent
<1>2. /\ touched[sid[q]] \subseteq touched'[sid[q]]
      /\ LogPaths(events[sid[q]]) \subseteq LogPaths(events'[sid[q]])
  BY <1>1 DEF Grows
<1>3. Cur(q)' = Cur(q)
  BY DEF Same, Cur
<1> QED
  BY <1>2, <1>3 DEF HandleOK, Same

\* A step of one handle that pays or keeps its debts.
LEMMA PathsStep ==
  ASSUME IInv, IInv', PathsOK, NEW p \in Procs,
         \A q \in Procs \ {p} : Same(q), Grows, HandleOK(p)',
         \A s \in Sessions \ torn' : sid[p] = s => \A x \in DebtOf(p) \ {None} : Owed(s, x)',
         \A s \in Sessions \ torn' : \A x \in LogPaths(events'[s]) \ {None} :
           x \in LogPaths(events[s]) \/ Owed(s, x) \/ Owed(s, x)',
         \A s \in Sessions \ torn' : \A x \in mem'[p][s].seen : Owed(s, x) \/ Owed(s, x)'
  PROVE  PathsOK'
<1>1. ASSUME NEW q \in Procs PROVE HandleOK(q)'
  BY <1>1, OthersKeep, IInvParts DEF PathsOK
<1>2. ASSUME NEW s \in Sessions, s \notin torn', NEW x, x # None, Owed(s, x) PROVE Owed(s, x)'
  <2>1. CASE x \in touched[s]
    BY <1>2, <2>1 DEF Grows, Owed
  <2>2. ASSUME NEW q \in Procs, sid[q] = s, x \in DebtOf(q) PROVE Owed(s, x)'
    <3>1. CASE q = p
      BY <1>2, <2>2, <3>1
    <3>2. CASE q # p
      <4>1. DebtOf(q)' = DebtOf(q) /\ sid'[q] = s
        BY <2>2, <3>2 DEF Same, DebtOf
      <4> QED
        BY <2>2, <4>1 DEF Owed
    <3> QED
      BY <3>1, <3>2
  <2> QED
    BY <1>2, <2>1, <2>2 DEF Owed
<1>3. ASSUME NEW s \in Sessions PROVE SessionOK(s)'
  <2> SUFFICES ASSUME s \notin torn'
               PROVE  /\ \A x \in LogPaths(events'[s]) \ {None} : Owed(s, x)'
                      /\ \A q \in Procs : \A x \in mem'[q][s].seen : Owed(s, x)'
    BY DEF SessionOK
  <2>1. SessionOK(s) /\ s \notin torn
    BY <1>3 DEF PathsOK, Grows
  <2>2. ASSUME NEW x \in LogPaths(events'[s]) \ {None} PROVE Owed(s, x)'
    BY <1>2, <1>3, <2>1, <2>2 DEF SessionOK
  <2>3. ASSUME NEW q \in Procs, NEW x \in mem'[q][s].seen, x # None PROVE Owed(s, x)'
    <3>1. CASE q = p
      BY <1>2, <1>3, <2>3, <3>1
    <3>2. CASE q # p
      <4>1. x \in mem[q][s].seen
        BY <2>3, <3>2 DEF Same
      <4>2. Owed(s, x)
        BY <2>1, <2>3, <4>1 DEF SessionOK
      <4> QED
        BY <1>2, <1>3, <2>3, <4>2
    <3> QED
      BY <3>1, <3>2
  <2>4. \A q \in Procs : None \notin mem'[q][s].seen
    <3>1. MemOK'
      BY IInvParts, PTL
    <3> QED
      BY <1>3, <3>1, NoneAssumption DEF MemOK, Good, TypeOKProjector
  <2> QED
    BY <2>2, <2>3, <2>4
<1>4. (\A q \in Procs : HandleOK(q)') /\ (\A s \in Sessions : SessionOK(s)')
  BY <1>1, <1>3
<1> QED
  BY <1>4 DEF PathsOK

\* A step that reads or forgets, between two debts.
LEMMA QuietStep ==
  ASSUME IInv, IInv', PathsOK, NEW p \in Procs,
         \A q \in Procs \ {p} : Same(q), UNCHANGED <<events, touched>>, torn \subseteq torn',
         pc[p] \notin {"write", "clear", "listall", "replay"},
         pc'[p] \notin {"write", "clear", "listall", "replay"},
         out'[p] = out[p],
         pc'[p] = "hydrate" => LogPaths(todo'[p]) \subseteq LogPaths(events[sid'[p]]),
         \A s \in Sessions \ torn' : \A x \in mem'[p][s].seen : Owed(s, x)
  PROVE  PathsOK'
<1>1. DebtOf(p) = {} /\ out[p] = <<>>
  BY NoDebt DEF PathsOK
<1>2. Grows
  BY DEF Grows
<1>3. HandleOK(p)'
  BY <1>1 DEF HandleOK, Rebuilding
<1> QED
  BY <1>1, <1>2, <1>3, PathsStep

\* The updates of the variables of handle p.
Moves(p, l, sd, jb, td, ou, af, pm) ==
  /\ pc' = [pc EXCEPT ![p] = l] /\ sid' = [sid EXCEPT ![p] = sd]
  /\ job' = [job EXCEPT ![p] = jb] /\ todo' = [todo EXCEPT ![p] = td]
  /\ out' = [out EXCEPT ![p] = ou] /\ after' = [after EXCEPT ![p] = af]
  /\ mem' = [mem EXCEPT ![p] = pm]

\* What they come to, for p and for the others.
LEMMA MovesOK ==
  ASSUME IInv, NEW p \in Procs, NEW l, NEW sd, NEW jb, NEW td, NEW ou, NEW af, NEW pm,
         Moves(p, l, sd, jb, td, ou, af, pm)
  PROVE  /\ \A q \in Procs \ {p} : Same(q)
         /\ pc'[p] = l /\ sid'[p] = sd /\ job'[p] = jb /\ todo'[p] = td /\ out'[p] = ou
         /\ after'[p] = af /\ mem'[p] = pm
<1>1. LocalOK /\ mem = [q \in Procs |-> mem[q]]
  BY IInvParts DEF MemOK
<1> QED
  BY <1>1 DEF Same, LocalOK, Moves

\* A variable that an action leaves alone is updated with its value.
LEMMA Unmoved ==
  ASSUME IInv, NEW p \in Procs
  PROVE  /\ pc = [pc EXCEPT ![p] = pc[p]] /\ sid = [sid EXCEPT ![p] = sid[p]]
         /\ job = [job EXCEPT ![p] = job[p]] /\ todo = [todo EXCEPT ![p] = todo[p]]
         /\ out = [out EXCEPT ![p] = out[p]] /\ after = [after EXCEPT ![p] = after[p]]
         /\ mem = [mem EXCEPT ![p] = mem[p]]
<1>1. LocalOK /\ mem = [q \in Procs |-> mem[q]]
  BY IInvParts DEF MemOK
<1> QED
  BY <1>1 DEF LocalOK

\* One projector of a handle.
LEMMA OneProjector ==
  ASSUME IInv, NEW p \in Procs, NEW s \in Sessions, NEW pr
  PROVE  /\ SetProjector(p, s, pr) <=> mem' = [mem EXCEPT ![p] = [mem[p] EXCEPT ![s] = pr]]
         /\ \A t \in Sessions :
              [mem[p] EXCEPT ![s] = pr][t] = IF t = s THEN pr ELSE mem[p][t]
<1>1. MemOK
  BY IInvParts
<1>2. mem[p] = [t \in Sessions |-> mem[p][t]]
  BY <1>1 DEF MemOK
<1> QED
  BY <1>2 DEF SetProjector

\* What a projector has seen after an event: what it had seen before, and the
\* value of the event, which is among the deltas when it is new.
LEMMA ApplySeen ==
  ASSUME NEW pr, Good(pr), NEW e \in Event
  PROVE  /\ Apply(pr, e).proj.seen \subseteq pr.seen \cup ({e.path} \ {None})
         /\ \A x \in (Apply(pr, e).proj.seen \cup {e.path}) \ (pr.seen \cup {None}) :
              \E i \in DOMAIN Apply(pr, e).deltas : /\ Apply(pr, e).deltas[i].type = "path"
                                                    /\ Apply(pr, e).deltas[i].path = x
<1> DEFINE fresh == FreshPath(pr, e)
           ds    == ApplySpanEvent(pr, e).deltas
<1>1. Apply(pr, e).proj.seen = Seen(pr, e) /\ Apply(pr, e).deltas = fresh \o ds
  BY DEF Apply
<1>2. Seen(pr, e) \subseteq pr.seen \cup ({e.path} \ {None})
  BY DEF Seen
<1>3. ASSUME NEW x \in {e.path}, x \notin pr.seen, x # None
      PROVE  \E i \in DOMAIN (fresh \o ds) : /\ (fresh \o ds)[i].type = "path"
                                             /\ (fresh \o ds)[i].path = x
  <2>1. fresh = <<[type |-> "path", path |-> x]>>
    BY <1>3 DEF FreshPath
  <2> DEFINE d == [type |-> "path", path |-> x]
  <2>2. d \in Delta
    BY <1>3 DEF Event, Option, Delta
  <2>3. d.type = "path" /\ d.path = x /\ fresh = <<d>>
    BY <2>1
  <2>4. ds \in Seq(Delta)
    BY ApplySpanEventGood DEF IsResult
  <2> HIDE DEF d, ds, fresh
  <2>5. <<d>> \in Seq(Delta) /\ Len(<<d>>) = 1 /\ <<d>>[1] = d
    BY <2>2
  <2>6. /\ fresh \o ds \in Seq(Delta) /\ Len(fresh \o ds) = 1 + Len(ds)
        /\ (fresh \o ds)[1] = d
    BY <2>3, <2>4, <2>5, ConcatProperties
  <2>7. Len(ds) \in Nat /\ DOMAIN (fresh \o ds) = 1 .. Len(fresh \o ds)
    BY <2>4, <2>6, LenProperties
  <2>8. 1 \in DOMAIN (fresh \o ds)
    BY <2>6, <2>7
  <2> QED
    BY <2>3, <2>6, <2>8
<1> QED
  BY <1>1, <1>2, <1>3

\* Closing a span forgets nothing the projector has seen.
LEMMA CloseSeen ==
  ASSUME NEW pr, Good(pr), NEW id \in DOMAIN pr.span
  PROVE  Close(pr, id).proj.seen = pr.seen
<1> DEFINE d == Detach(pr, id)
           b == pr.span[id]
<1>1. b \in Builder /\ Shape(pr)
  BY GoodIsShape DEF Good, TypeOKProjector
<1>2. Seeded(b) \in Option(Nat)
  BY <1>1, RowOfBuilder
<1>3. Shape(d) /\ d.seen = pr.seen
  BY <1>1, DetachKeepsShape
<1> HIDE DEF d
<1>4. AddChild(d, b.parent, Seeded(b)).seen = d.seen
  BY <1>2, <1>3, AddChildKeepsShape
<1> QED
  BY <1>3, <1>4 DEF Close, d

-----------------------------------------------------------------------------
\* The values of the latest events are values of the log.
LEMMA LatestPaths ==
  ASSUME NEW log \in Seq(Event)
  PROVE  LogPaths(Latest(log, HydrateMax)) \subseteq LogPaths(log)
<1> DEFINE n == Len(log)
           k == n - HydrateMax
<1>1. n \in Nat /\ DOMAIN log = 1 .. n /\ HydrateMax \in Nat
  BY LenProperties, StoreAssumption
<1>2. CASE n <= HydrateMax
  BY <1>2 DEF Latest
<1>3. CASE n > HydrateMax
  <2> DEFINE w == SubSeq(log, k + 1, n)
  <2>1. k \in Nat /\ k + 1 \in Int /\ n \in Int
    BY <1>1, <1>3
  <2> HIDE DEF k
  <2>2. \A i \in k + 1 .. n : i \in 1 .. n /\ log[i] \in Event
    BY <1>1, <2>1, ElementOfSeq
  <2>3. /\ Len(w) = IF k + 1 <= n THEN n - (k + 1) + 1 ELSE 0
        /\ \A i \in 1 .. n - (k + 1) + 1 : w[i] = log[(k + 1) + i - 1]
        /\ w \in Seq(Event)
    BY <2>1, <2>2, SubSeqProperties
  <2>4. DOMAIN w = 1 .. Len(w)
    BY <2>3, LenProperties
  <2>5. k < n
    BY <1>1, <1>3, StoreAssumption DEF k
  <2>6. Len(w) = n - k
    <3> HIDE DEF w, n
    <3> QED
      BY <1>1, <2>1, <2>3, <2>5
  <2>7. \A i \in DOMAIN w : k + i \in DOMAIN log /\ w[i] = log[k + i]
    <3> SUFFICES ASSUME NEW i \in 1 .. n - k PROVE k + i \in 1 .. n /\ w[i] = log[k + i]
      BY <1>1, <2>4, <2>6
    <3> HIDE DEF w
    <3>1. i \in 1 .. n - (k + 1) + 1 /\ (k + 1) + i - 1 = k + i /\ k + i \in 1 .. n
      BY <1>1, <2>1
    <3> QED
      BY <2>3, <3>1
  <2>8. Latest(log, HydrateMax) = w
    BY <1>1, <1>3 DEF Latest, k
  <2> HIDE DEF w
  <2> QED
    BY <2>7, <2>8 DEF LogPaths
<1> QED
  BY <1>1, <1>2, <1>3

\* The values of a log with one more event.
LEMMA InsertedPaths ==
  ASSUME NEW log \in Seq(Event), NEW e \in Event
  PROVE  LogPaths(Inserted(log, e)) = LogPaths(log) \cup {e.path}
<1> DEFINE n == Len(log)
           S == {0} \cup {i \in DOMAIN log : log[i].seq < e.seq}
           k == Max(S)
           lo == SubSeq(log, 1, k)
           hi == SubSeq(log, k + 1, n)
           all == Inserted(log, e)
<1>1. n \in Nat /\ DOMAIN log = 1 .. n /\ \A i \in 1 .. n : log[i] \in Event
  BY LenProperties, ElementOfSeq
<1>2. S \subseteq 0 .. n /\ S # {}
  BY <1>1
<1>3. k \in 0 .. n
  <2> HIDE DEF S
  <2> QED
    BY <1>1, <1>2, MaxOfBounded
<1>4. all = lo \o <<e>> \o hi
  BY DEF Inserted
<1> HIDE DEF k, all
<1>5. /\ lo \in Seq(Event) /\ Len(lo) = k /\ \A i \in 1 .. k : lo[i] = log[i]
  <2>1. 1 \in Int /\ k \in Int /\ \A i \in 1 .. k : log[i] \in Event
    BY <1>1, <1>3
  <2>2. /\ lo \in Seq(Event) /\ Len(lo) = IF 1 <= k THEN k - 1 + 1 ELSE 0
        /\ \A i \in 1 .. k - 1 + 1 : lo[i] = log[1 + i - 1]
    BY <2>1, SubSeqProperties
  <2> HIDE DEF lo
  <2>3. k - 1 + 1 = k /\ \A i \in 1 .. k : 1 + i - 1 = i
    BY <2>1
  <2> QED
    BY <1>3, <2>2, <2>3
<1>6. /\ hi \in Seq(Event) /\ Len(hi) = n - k /\ \A i \in 1 .. n - k : hi[i] = log[k + i]
  <2>1. k + 1 \in Int /\ n \in Int /\ \A i \in k + 1 .. n : log[i] \in Event
    BY <1>1, <1>3
  <2>2. /\ hi \in Seq(Event) /\ Len(hi) = IF k + 1 <= n THEN n - (k + 1) + 1 ELSE 0
        /\ \A i \in 1 .. n - (k + 1) + 1 : hi[i] = log[(k + 1) + i - 1]
    BY <2>1, SubSeqProperties
  <2> HIDE DEF hi
  <2> HIDE DEF n
  <2>3. /\ n - (k + 1) + 1 = n - k /\ \A i \in 1 .. n - k : (k + 1) + i - 1 = k + i
        /\ Len(hi) = n - k
    BY <1>1, <1>3, <2>2
  <2> QED
    BY <2>2, <2>3
<1> HIDE DEF lo, hi
<1>7. <<e>> \in Seq(Event) /\ Len(<<e>>) = 1 /\ <<e>>[1] = e
  OBVIOUS
<1> DEFINE mid == lo \o <<e>>
<1>8. /\ mid \in Seq(Event) /\ Len(mid) = k + 1
      /\ \A i \in 1 .. k + 1 : mid[i] = IF i <= k THEN lo[i] ELSE <<e>>[i - k]
  BY <1>5, <1>7, ConcatProperties
<1>8a. all = mid \o hi
  BY <1>4
<1> HIDE DEF mid
<1>9. /\ all \in Seq(Event) /\ Len(all) = k + 1 + (n - k)
      /\ \A i \in 1 .. k + 1 + (n - k) :
           all[i] = IF i <= k + 1 THEN mid[i] ELSE hi[i - (k + 1)]
  BY <1>6, <1>8, <1>8a, ConcatProperties
<1>10. k + 1 + (n - k) = n + 1 /\ DOMAIN all = 1 .. n + 1
  BY <1>1, <1>3, <1>9, LenProperties
<1>11. \A i \in 1 .. n + 1 : all[i] = IF i <= k THEN log[i] ELSE IF i = k + 1 THEN e ELSE log[i - 1]
  <2> SUFFICES ASSUME NEW i \in 1 .. n + 1
               PROVE  all[i] = IF i <= k THEN log[i] ELSE IF i = k + 1 THEN e ELSE log[i - 1]
    OBVIOUS
  <2> HIDE DEF n
  <2>1. CASE i <= k
    <3>1. i \in 1 .. k /\ i \in 1 .. k + 1 /\ i \in 1 .. k + 1 + (n - k)
      BY <1>1, <1>3, <2>1
    <3> QED
      BY <1>5, <1>8, <1>9, <2>1, <3>1
  <2>2. CASE i = k + 1
    <3>1. /\ i \in 1 .. k + 1 /\ i \in 1 .. k + 1 + (n - k) /\ ~(i <= k) /\ i - k = 1
          /\ i <= k + 1
      BY <1>1, <1>3, <2>2
    <3>2. all[i] = mid[i] /\ mid[i] = <<e>>[1]
      BY <1>8, <1>9, <3>1
    <3> QED
      BY <1>7, <2>2, <3>1, <3>2
  <2>3. CASE i > k + 1
    <3>1. i - (k + 1) \in 1 .. n - k /\ k + (i - (k + 1)) = i - 1
      BY <1>1, <1>3, <2>3
    <3>2. all[i] = hi[i - (k + 1)]
      BY <1>1, <1>3, <1>9, <1>10, <2>3
    <3> QED
      BY <1>3, <1>6, <2>3, <3>1, <3>2
  <2> QED
    BY <1>3, <2>1, <2>2, <2>3
<1>12. \A i \in DOMAIN all : all[i].path \in LogPaths(log) \cup {e.path}
  <2> SUFFICES ASSUME NEW i \in 1 .. n + 1
               PROVE  all[i] = e \/ \E j \in DOMAIN log : all[i] = log[j]
    BY <1>10 DEF LogPaths
  <2> HIDE DEF n
  <2>1. CASE i <= k
    BY <1>1, <1>3, <1>11, <2>1
  <2>2. CASE i = k + 1
    BY <1>3, <1>11, <2>2
  <2>3. CASE i > k + 1
    <3>1. i - 1 \in DOMAIN log
      BY <1>1, <1>3, <2>3
    <3>2. all[i] = log[i - 1]
      BY <1>3, <1>11, <2>3
    <3> QED
      BY <3>1, <3>2
  <2> QED
    BY <1>3, <2>1, <2>2, <2>3
<1>13. \A j \in DOMAIN log : \E i \in DOMAIN all : all[i] = log[j]
  <2> SUFFICES ASSUME NEW j \in 1 .. n PROVE \E i \in 1 .. n + 1 : all[i] = log[j]
    BY <1>1, <1>10
  <2>1. CASE j <= k
    BY <1>1, <1>3, <1>11, <2>1
  <2>2. CASE j > k
    <3>1. j + 1 \in 1 .. n + 1 /\ all[j + 1] = log[j]
      BY <1>1, <1>3, <1>11, <2>2
    <3> QED
      BY <3>1
  <2> QED
    BY <1>3, <2>1, <2>2
<1>14. k + 1 \in DOMAIN all /\ all[k + 1] = e
  BY <1>1, <1>3, <1>10, <1>11
<1> QED
  BY <1>12, <1>13, <1>14 DEF LogPaths, all

\* The first element of a list, and the rest.
LEMMA HeadOrTail ==
  ASSUME NEW S, NEW s \in Seq(S), s # <<>>
  PROVE  /\ \A i \in DOMAIN s : s[i] = Head(s) \/ \E j \in DOMAIN Tail(s) : s[i] = Tail(s)[j]
         /\ \A j \in DOMAIN Tail(s) : \E i \in DOMAIN s : Tail(s)[j] = s[i]
         /\ \E i \in DOMAIN s : Head(s) = s[i]
<1>1. /\ Tail(s) \in Seq(S) /\ Len(Tail(s)) = Len(s) - 1 /\ Head(s) = s[1]
      /\ \A i \in 1 .. Len(Tail(s)) : Tail(s)[i] = s[i + 1]
  BY HeadTailProperties
<1>2. Len(s) \in Nat /\ Len(s) # 0 /\ DOMAIN s = 1 .. Len(s)
      /\ DOMAIN Tail(s) = 1 .. Len(Tail(s))
  BY <1>1, LenProperties, EmptyIffNoLength
<1>3. \A i \in DOMAIN s : i = 1 \/ (i - 1 \in DOMAIN Tail(s) /\ Tail(s)[i - 1] = s[i])
  <2> TAKE i \in DOMAIN s
  <2>1. CASE i # 1
    <3>1. i - 1 \in 1 .. Len(Tail(s)) /\ (i - 1) + 1 = i
      BY <1>1, <1>2, <2>1
    <3> QED
      BY <1>1, <1>2, <3>1
  <2> QED
    BY <2>1
<1>4. \A j \in DOMAIN Tail(s) : j + 1 \in DOMAIN s /\ Tail(s)[j] = s[j + 1]
  BY <1>1, <1>2
<1>5. 1 \in DOMAIN s
  BY <1>2
<1> QED
  BY <1>1, <1>3, <1>4, <1>5

\* The values of the deltas, tagged with their session.
LEMMA TaggedPaths ==
  ASSUME NEW s, NEW deltas \in Seq(Delta)
  PROVE  /\ \A i \in DOMAIN Tagged(s, deltas) : Tagged(s, deltas)[i].session = s
         /\ \A i \in DOMAIN deltas : deltas[i].type = "path" =>
              deltas[i].path \in OutPaths(Tagged(s, deltas))
         /\ deltas = <<>> => Tagged(s, deltas) = <<>>
<1> DEFINE ou == Tagged(s, deltas)
<1>1. DOMAIN ou = DOMAIN deltas
      /\ \A i \in DOMAIN deltas : ou[i].session = s /\ ou[i].delta = deltas[i]
  BY DEF Tagged
<1> HIDE DEF ou
<1> QED
  BY <1>1 DEF OutPaths, ou

-----------------------------------------------------------------------------
(* The actions. *)

\* The next hook: the handle owes nothing and has seen nothing new.
LEMMA BeginPaths ==
  ASSUME IInv, IInv', PathsOK, NEW p \in Procs, NEW s \in Sessions, NEW in \in Inputs,
         NEW changed \in PromptChanges, Begin(p, s, in, changed)
  PROVE  PathsOK'
<1>1. /\ \A q \in Procs \ {p} : Same(q)
      /\ pc'[p] = IF in.kind \in DOMAIN StatusOf /\ ~changed THEN "status" ELSE "load"
      /\ out'[p] = out[p] /\ mem'[p] = mem[p]
  <2> DEFINE l == IF in.kind \in DOMAIN StatusOf /\ ~changed THEN "status" ELSE "load"
             e == [in EXCEPT !.seq = NextSeq(s)]
             jb == IF changed THEN <<PromptChanged(e), e>> ELSE <<e>>
  <2>1. Moves(p, l, s, jb, todo[p], out[p], after[p], mem[p])
    BY Unmoved DEF Begin, Goto, Moves
  <2> HIDE DEF l, jb
  <2> QED
    BY <2>1, MovesOK DEF l
<1>2. pc[p] = "idle" /\ UNCHANGED <<events, touched, torn>>
  BY DEF Begin
<1>3. \A t \in Sessions \ torn' : \A x \in mem'[p][t].seen : Owed(t, x)
  BY <1>1, <1>2 DEF PathsOK, SessionOK
<1> QED
  BY <1>1, <1>2, <1>3, QuietStep

\* The status of the session is not a derived row.
LEMMA SetStatusPaths ==
  ASSUME IInv, IInv', PathsOK, NEW p \in Procs, SetStatus(p)
  PROVE  PathsOK'
<1>1. Moves(p, "load", sid[p], job[p], todo[p], out[p], after[p], mem[p])
  BY Unmoved DEF SetStatus, Goto, Moves
<1>2. pc[p] = "status" /\ UNCHANGED <<events, touched, torn>>
  BY DEF SetStatus
<1>3. \A t \in Sessions \ torn' : \A x \in mem'[p][t].seen : Owed(t, x)
  BY <1>1, <1>2, MovesOK DEF PathsOK, SessionOK
<1> QED
  BY <1>1, <1>2, <1>3, MovesOK, QuietStep

\* A projector that is reset has seen nothing.
LEMMA LoadPaths ==
  ASSUME IInv, IInv', PathsOK, NEW p \in Procs, Load(p)
  PROVE  PathsOK'
<1>1. sid[p] \in Sessions
  BY OperandsOK
<1>2. pc[p] = "load" /\ UNCHANGED <<events, touched, torn>>
  BY DEF Load, db
<1>3. CASE Stale(p)
  <2> DEFINE pm == [mem[p] EXCEPT ![sid[p]] = Empty]
  <2>1. mem' = [mem EXCEPT ![p] = pm] /\ \A t \in Sessions : pm[t] = IF t = sid[p] THEN Empty ELSE mem[p][t]
    BY <1>1, <1>3, OneProjector DEF Load
  <2> HIDE DEF pm
  <2>2. Moves(p, "list", sid[p], job[p], todo[p], out[p], after[p], pm)
    BY <1>3, <2>1, Unmoved DEF Load, Goto, Moves
  <2>3. \A t \in Sessions \ torn' : \A x \in mem'[p][t].seen : Owed(t, x)
    BY <1>2, <2>1, <2>2, MovesOK DEF PathsOK, SessionOK, Empty
  <2> QED
    BY <1>2, <2>2, <2>3, MovesOK, QuietStep
<1>4. CASE ~Stale(p)
  <2>1. Moves(p, "insert", sid[p], job[p], todo[p], out[p], after[p], mem[p])
    BY <1>4, Unmoved DEF Load, Goto, Moves
  <2>2. \A t \in Sessions \ torn' : \A x \in mem'[p][t].seen : Owed(t, x)
    BY <1>2, <2>1, MovesOK DEF PathsOK, SessionOK
  <2> QED
    BY <1>2, <2>1, <2>2, MovesOK, QuietStep
<1> QED
  BY <1>3, <1>4

\* What is hydrated from is in the log.
LEMMA ListLatestPaths ==
  ASSUME IInv, IInv', PathsOK, NEW p \in Procs, ListLatest(p)
  PROVE  PathsOK'
<1> DEFINE td == Latest(events[sid[p]], HydrateMax)
           l  == IF todo'[p] = <<>> THEN "insert" ELSE "hydrate"
<1>1. events[sid[p]] \in Seq(Event)
  BY OperandsOK
<1>2. LogPaths(td) \subseteq LogPaths(events[sid[p]])
  BY <1>1, LatestPaths
<1> HIDE DEF td
<1>3. pc' = [pc EXCEPT ![p] = l] /\ todo' = [todo EXCEPT ![p] = td] /\ l \in {"insert", "hydrate"}
  BY DEF ListLatest, Goto, td
<1> HIDE DEF l
<1>4. Moves(p, l, sid[p], job[p], td, out[p], after[p], mem[p])
  BY <1>3, Unmoved DEF ListLatest, Moves
<1>5. pc[p] = "list" /\ UNCHANGED <<events, touched, torn>>
  BY DEF ListLatest, db
<1>6. \A t \in Sessions \ torn' : \A x \in mem'[p][t].seen : Owed(t, x)
  BY <1>4, <1>5, MovesOK DEF PathsOK, SessionOK
<1> QED
  BY <1>2, <1>3, <1>4, <1>5, <1>6, MovesOK, QuietStep

\* The value of an event of the log is not forgotten when hydration drops its
\* delta: whoever stored the event owes it or has written it.
LEMMA HydratePaths ==
  ASSUME IInv, IInv', PathsOK, NEW p \in Procs, Hydrate(p)
  PROVE  PathsOK'
<1> DEFINE e  == Head(todo[p])
           pr == Apply(Mine(p), e).proj
           pm == [mem[p] EXCEPT ![sid[p]] = pr]
           l  == IF Len(todo[p]) = 1 THEN "insert" ELSE "hydrate"
<1>1. /\ sid[p] \in Sessions /\ Good(Mine(p)) /\ pc[p] = "hydrate" /\ todo[p] # <<>>
      /\ todo[p] \in Seq(Event) /\ e \in Event
  BY OperandsOK DEF Consistent, Hydrate
<1>2. LogPaths(todo[p]) \subseteq LogPaths(events[sid[p]])
  BY <1>1 DEF PathsOK, HandleOK
<1>3. e.path \in LogPaths(todo[p]) /\ LogPaths(Tail(todo[p])) \subseteq LogPaths(todo[p])
  BY <1>1, HeadOrTail DEF LogPaths
<1>4. pr.seen \subseteq Mine(p).seen \cup ({e.path} \ {None})
  BY <1>1, ApplySeen
<1> HIDE DEF e, pr
<1>5. mem' = [mem EXCEPT ![p] = pm] /\ \A t \in Sessions : pm[t] = IF t = sid[p] THEN pr ELSE mem[p][t]
  BY <1>1, OneProjector DEF Hydrate, e, pr
<1>6. pc' = [pc EXCEPT ![p] = l] /\ todo' = [todo EXCEPT ![p] = Tail(todo[p])]
      /\ l \in {"insert", "hydrate"}
  BY DEF Hydrate, Goto
<1> HIDE DEF pm, l
<1>7. Moves(p, l, sid[p], job[p], Tail(todo[p]), out[p], after[p], pm)
  BY <1>5, <1>6, Unmoved DEF Hydrate, Moves
<1>8. UNCHANGED <<events, touched, torn>>
  BY DEF Hydrate, db
<1>9. \A t \in Sessions \ torn' : \A x \in mem'[p][t].seen : Owed(t, x)
  <2> SUFFICES ASSUME NEW t \in Sessions \ torn, NEW x \in pm[t].seen PROVE Owed(t, x)
    BY <1>7, <1>8, MovesOK
  <2>1. SessionOK(t)
    BY DEF PathsOK
  <2>2. CASE x \in mem[p][t].seen
    BY <2>1, <2>2 DEF SessionOK
  <2>3. CASE x \notin mem[p][t].seen
    <3>1. t = sid[p] /\ x = e.path /\ x # None
      BY <1>4, <1>5, <2>3 DEF Mine
    <3> QED
      BY <1>2, <1>3, <2>1, <3>1 DEF SessionOK
  <2> QED
    BY <2>2, <2>3
<1> QED
  BY <1>1, <1>2, <1>3, <1>6, <1>7, <1>8, <1>9, MovesOK, QuietStep

\* The end of an append, by a handle that owes nothing.
LEMMA FinishPaths ==
  ASSUME IInv, IInv', PathsOK, NEW p \in Procs, Finish(p), DebtOf(p) = {}, out[p] = <<>>,
         UNCHANGED <<events, touched, torn, mem, sid, todo, out, after>>
  PROVE  PathsOK'
<1> DEFINE l == IF Len(job[p]) = 1 THEN "idle" ELSE "status"
<1>1. Moves(p, l, sid[p], Tail(job[p]), todo[p], out[p], after[p], mem[p])
  BY Unmoved DEF Finish, Goto, Moves
<1>2. l \in {"idle", "status"}
  OBVIOUS
<1> HIDE DEF l
<1>3. HandleOK(p)'
  BY <1>1, <1>2, MovesOK DEF HandleOK, Rebuilding
<1>4. Grows
  BY DEF Grows
<1>5. \A s \in Sessions \ torn' : \A x \in mem'[p][s].seen : Owed(s, x)
  BY DEF PathsOK, SessionOK
<1> QED
  BY <1>1, <1>3, <1>4, <1>5, MovesOK, PathsStep

\* Deltas handed over are owed until they are written, those of every new value
\* included.
LEMMA EmitPaths ==
  ASSUME IInv, IInv', PathsOK, NEW p \in Procs, NEW label \in {"expire", "done", "replay"},
         NEW deltas \in Seq(Delta), NEW pr,
         pc[p] # "write", out[p] = <<>>, Emit(p, deltas, label), SetProjector(p, sid[p], pr),
         todo' = [todo EXCEPT ![p] = todo'[p]], UNCHANGED <<job, sid, touched, torn>>,
         \A x \in pr.seen \ Mine(p).seen : \E i \in DOMAIN deltas :
           deltas[i].type = "path" /\ deltas[i].path = x,
         label = "replay" => Mine(p).seen \subseteq touched[sid[p]],
         \A s \in Sessions : LogPaths(events[s]) \subseteq LogPaths(events'[s]),
         \A s \in Sessions : \A x \in LogPaths(events'[s]) \ {None} :
           x \in LogPaths(events[s]) \/ (s = sid[p] /\ x \in pr.seen),
         \A x \in DebtOf(p) \ {None} : label = "replay" /\ x \in pr.seen \cup LogPaths(todo'[p])
  PROVE  PathsOK'
<1> DEFINE ou == Tagged(sid[p], deltas)
           l  == IF deltas = <<>> THEN label ELSE "write"
           pm == [mem[p] EXCEPT ![sid[p]] = pr]
<1>1. /\ \A i \in DOMAIN ou : ou[i].session = sid[p]
      /\ \A i \in DOMAIN deltas : deltas[i].type = "path" => deltas[i].path \in OutPaths(ou)
      /\ l # "write" => ou = <<>>
  BY TaggedPaths
<1>2. sid[p] \in Sessions
  BY OperandsOK
<1>3. mem' = [mem EXCEPT ![p] = pm] /\ \A t \in Sessions : pm[t] = IF t = sid[p] THEN pr ELSE mem[p][t]
  BY <1>2, OneProjector
<1> HIDE DEF pm
<1>4. Moves(p, l, sid[p], job[p], todo'[p], ou, label, pm)
  BY <1>3, Unmoved DEF Emit, Goto, Moves
<1> HIDE DEF ou
<1>5. l \in {label, "write"}
  OBVIOUS
<1> HIDE DEF l
<1>6. \A x \in pr.seen : x \in Mine(p).seen \/ x \in OutPaths(ou)
  BY <1>1
<1>7. HandleOK(p)'
  <2>1. pm[sid[p]] = pr
    BY <1>2, <1>3
  <2>2. label = "replay" => pr.seen \subseteq touched[sid[p]] \cup OutPaths(ou)
    BY <1>6
  <2> QED
    BY <1>1, <1>4, <1>5, <2>1, <2>2, MovesOK DEF HandleOK, Rebuilding
<1>8. Grows
  BY DEF Grows
<1>9. \A x \in OutPaths(ou) : Owed(sid[p], x)'
  BY <1>4, MovesOK DEF Owed, DebtOf, Debt
<1>10. label = "replay" => \A x \in LogPaths(todo'[p]) : Owed(sid[p], x)'
  BY <1>4, <1>5, MovesOK DEF Owed, DebtOf, Debt, Rebuilding
<1>11. \A s \in Sessions \ torn' : \A x \in mem[p][s].seen : Owed(s, x)
  BY DEF PathsOK, SessionOK
<1>12. sid[p] \notin torn' => \A x \in pr.seen : Owed(sid[p], x) \/ Owed(sid[p], x)'
  BY <1>2, <1>6, <1>9, <1>11 DEF Mine
<1>13. \A s \in Sessions \ torn' : \A x \in mem'[p][s].seen : Owed(s, x) \/ Owed(s, x)'
  BY <1>3, <1>4, <1>11, <1>12, MovesOK
<1>14. \A s \in Sessions \ torn' : \A x \in LogPaths(events'[s]) \ {None} :
         x \in LogPaths(events[s]) \/ Owed(s, x) \/ Owed(s, x)'
  BY <1>12
<1>15. \A s \in Sessions \ torn' : sid[p] = s => \A x \in DebtOf(p) \ {None} : Owed(s, x)'
  <2> SUFFICES ASSUME NEW x \in DebtOf(p) \ {None} PROVE Owed(sid[p], x)'
    OBVIOUS
  <2>1. label = "replay" /\ x \in pr.seen \cup LogPaths(todo'[p])
    OBVIOUS
  <2>2. CASE x \in touched[sid[p]]
    BY <2>2 DEF Owed
  <2>3. CASE x \notin touched[sid[p]]
    BY <1>6, <1>9, <1>10, <2>1, <2>3
  <2> QED
    BY <2>2, <2>3
<1> QED
  BY <1>4, <1>7, <1>8, <1>13, <1>14, <1>15, MovesOK, PathsStep

\* A stored event: its value is a delta, or the session will be rebuilt with it,
\* or somebody owes it already.
LEMMA InsertPaths ==
  ASSUME IInv, IInv', PathsOK, NEW p \in Procs, Insert(p)
  PROVE  PathsOK'
<1> DEFINE s   == sid[p]
           e   == Cur(p)
           res == Apply(Mine(p), e)
           conflict == \E i \in DOMAIN events[s] : events[s][i].seq = e.seq
           late == base[p] # None /\ e.seq <= base[p]
<1>1. /\ pc[p] = "insert" /\ s \in Sessions /\ e \in Event /\ Good(Mine(p))
      /\ events[s] \in Seq(Event)
  BY OperandsOK DEF Insert, Consistent
<1>2. UNCHANGED <<touched, torn, sid, todo>>
  BY DEF Insert
<1>3. DebtOf(p) = {} /\ out[p] = <<>>
  BY <1>1, NoDebt DEF PathsOK
<1>4. CASE conflict
  BY <1>2, <1>3, <1>4, FinishPaths DEF Insert
<1>5. CASE ~conflict
  <2>1. events' = [events EXCEPT ![s] = Inserted(events[s], e)]
    BY <1>5 DEF Insert
  <2>2. LogPaths(Inserted(events[s], e)) = LogPaths(events[s]) \cup {e.path}
    BY <1>1, InsertedPaths
  <2>3. \A t \in Sessions : LogPaths(events'[t]) = IF t = s THEN LogPaths(events[s]) \cup {e.path}
                                                  ELSE LogPaths(events[t])
    <3>1. events = [t \in Sessions |-> events[t]]
      BY IInvParts DEF DbOK
    <3> HIDE DEF s, e
    <3> QED
      BY <2>1, <2>2, <3>1
  <2>4. CASE late
    <3>1. Goto(p, "clear") /\ UNCHANGED <<mem, out, after, job>>
      BY <1>5, <2>4 DEF Insert
    <3>2. Moves(p, "clear", s, job[p], todo[p], out[p], after[p], mem[p])
      BY <1>2, <3>1, Unmoved DEF Goto, Moves
    <3>3. Grows
      BY <1>2, <2>3 DEF Grows
    <3>4. HandleOK(p)'
      <4>1. e.path \in LogPaths(events'[s])
        BY <1>1, <2>3
      <4> QED
        BY <1>3, <3>2, <4>1, MovesOK DEF HandleOK, Rebuilding, Cur
    <3>5. \A t \in Sessions, x \in {e.path} : t = s => Owed(t, x)'
      <4> SUFFICES ASSUME NEW x, x = e.path, NEW t, t = s PROVE Owed(t, x)'
        OBVIOUS
      <4>1. x \in Debt("clear", job[p], todo[p], out[p], after[p])
        BY DEF Debt, Cur
      <4> HIDE DEF s, e
      <4> QED
        BY <3>2, <4>1, MovesOK DEF Owed, DebtOf
    <3>6. \A t \in Sessions \ torn' : \A x \in mem'[p][t].seen : Owed(t, x)
      BY <1>2, <3>1 DEF PathsOK, SessionOK
    <3>7. \A t \in Sessions \ torn' : \A x \in LogPaths(events'[t]) \ {None} :
            x \in LogPaths(events[t]) \/ Owed(t, x) \/ Owed(t, x)'
      <4> HIDE DEF s, e
      <4> QED
        BY <2>3, <3>5
    <3> QED
      BY <1>3, <3>2, <3>3, <3>4, <3>6, <3>7, MovesOK, PathsStep
  <2>5. CASE ~late
    <3>1. SetProjector(p, s, res.proj) /\ Emit(p, res.deltas, "expire") /\ UNCHANGED job
      BY <1>5, <2>5 DEF Insert
    <3>2. res.deltas \in Seq(Delta)
      BY <1>1, ApplyGood DEF IsResult
    <3>3. \A x \in (res.proj.seen \cup {e.path}) \ (Mine(p).seen \cup {None}) :
            \E i \in DOMAIN res.deltas : res.deltas[i].type = "path" /\ res.deltas[i].path = x
      BY <1>1, ApplySeen
    <3>4. Mine(p).seen \subseteq res.proj.seen /\ (e.path # None => e.path \in res.proj.seen)
          /\ None \notin res.proj.seen
      <4>1. Good(res.proj)
        BY <1>1, ApplyGood DEF IsResult
      <4>2. None \notin res.proj.seen
        BY <4>1, NoneAssumption DEF Good, TypeOKProjector
      <4> QED
        BY <4>2 DEF Apply, Seen
    <3>5. todo' = [todo EXCEPT ![p] = todo'[p]]
      BY <1>2, Unmoved
    <3>6. /\ \A t \in Sessions : LogPaths(events[t]) \subseteq LogPaths(events'[t])
          /\ \A t \in Sessions : \A x \in LogPaths(events'[t]) \ {None} :
               x \in LogPaths(events[t]) \/ (t = sid[p] /\ x \in res.proj.seen)
      BY <2>3, <3>4
    <3>7. \A x \in res.proj.seen \ Mine(p).seen : \E i \in DOMAIN res.deltas :
            res.deltas[i].type = "path" /\ res.deltas[i].path = x
      BY <3>3, <3>4
    <3> HIDE DEF res, e, late, conflict
    <3> QED
      BY <1>1, <1>2, <1>3, <3>1, <3>2, <3>5, <3>6, <3>7, EmitPaths
  <2> QED
    BY <2>4, <2>5
<1> QED
  BY <1>4, <1>5

\* The delta written is a row now; the others are owed as before.
LEMMA WritePaths ==
  ASSUME IInv, IInv', PathsOK, NEW p \in Procs, Write(p)
  PROVE  PathsOK'
<1> DEFINE s  == sid[p]
           ou == Tail(out[p])
           d  == Head(out[p])
           l  == IF Len(out[p]) = 1 THEN after[p] ELSE "write"
<1>1. /\ pc[p] = "write" /\ s \in Sessions /\ out[p] \in Seq(OutItem) /\ out[p] # <<>>
      /\ after[p] \in {"expire", "done", "replay"}
  BY OperandsOK DEF Write, Consistent
<1>2. HandleOK(p)
  BY DEF PathsOK
<1>3. /\ \A i \in DOMAIN out[p] : out[p][i] = d \/ \E j \in DOMAIN ou : out[p][i] = ou[j]
      /\ \A j \in DOMAIN ou : \E i \in DOMAIN out[p] : ou[j] = out[p][i]
      /\ \E i \in DOMAIN out[p] : d = out[p][i]
  BY <1>1, HeadOrTail
<1>4. /\ d \in OutItem /\ ou \in Seq(OutItem) /\ Len(ou) = Len(out[p]) - 1
  BY <1>1, HeadTailProperties
<1>5. Moves(p, l, s, job[p], todo[p], ou, after[p], mem[p])
  BY Unmoved DEF Write, Goto, Moves
<1>6. Persist(d.session, d.delta) /\ UNCHANGED <<events, torn>>
  BY DEF Write
<1> HIDE DEF ou, d
<1>7. Len(out[p]) = 1 => ou = <<>>
  <2> SUFFICES ASSUME Len(out[p]) = 1 PROVE ou = <<>>
    OBVIOUS
  <2>1. Len(ou) = 0
    BY <1>4
  <2> QED
    BY <1>4, <2>1, EmptyIffNoLength
<1>8. d.session = s /\ \A j \in DOMAIN ou : ou[j].session = s
  BY <1>2, <1>3 DEF HandleOK
<1>9. /\ \A t \in Sessions : touched[t] \subseteq touched'[t]
      /\ d.delta.type = "path" => d.delta.path \in touched'[s]
  <2>1. touched = [t \in Sessions |-> touched[t]]
    BY IInvParts DEF DbOK
  <2> QED
    BY <1>1, <1>6, <1>8, <2>1 DEF Persist
<1>10. \A x \in OutPaths(out[p]) : x \in touched'[s] \/ x \in OutPaths(ou)
  <2> SUFFICES ASSUME NEW i \in DOMAIN out[p], out[p][i].delta.type = "path"
               PROVE  out[p][i].delta.path \in touched'[s] \cup OutPaths(ou)
    BY DEF OutPaths
  <2>1. CASE out[p][i] = d
    BY <1>9, <2>1
  <2>2. CASE \E j \in DOMAIN ou : out[p][i] = ou[j]
    BY <2>2 DEF OutPaths
  <2> QED
    BY <1>3, <2>1, <2>2
<1>11. /\ l = "write" \/ l = after[p]
       /\ l # "write" => ou = <<>>
       /\ Rebuilding(l, after[p]) <=> Rebuilding(pc[p], after[p])
  BY <1>1, <1>7 DEF Rebuilding
<1> HIDE DEF l
<1>12. Grows
  BY <1>6, <1>9 DEF Grows
<1>13. HandleOK(p)'
  <2>1. Rebuilding(l, after[p]) => mem[p][s].seen \subseteq touched'[s] \cup OutPaths(ou)
    BY <1>1, <1>2, <1>9, <1>10, <1>11 DEF HandleOK
  <2>2. l \notin {"hydrate", "clear", "listall"}
    BY <1>1, <1>11
  <2> QED
    BY <1>5, <1>8, <1>11, <2>1, <2>2, MovesOK DEF HandleOK
<1>14. \A x \in DebtOf(p) : Owed(s, x)'
  <2> SUFFICES ASSUME NEW x \in DebtOf(p) PROVE Owed(s, x)'
    OBVIOUS
  <2>1. x \in OutPaths(out[p]) \/ (Rebuilding(l, after[p]) /\ x \in LogPaths(todo[p]))
    BY <1>1, <1>11 DEF DebtOf, Debt
  <2>2. x \in touched'[s] \/ x \in OutPaths(ou) \/ (Rebuilding(l, after[p]) /\ x \in LogPaths(todo[p]))
    BY <1>10, <2>1
  <2> QED
    BY <1>5, <2>2, MovesOK DEF Owed, DebtOf, Debt
<1>15. \A t \in Sessions \ torn' : \A x \in mem'[p][t].seen : Owed(t, x)
  BY <1>5, <1>6, MovesOK DEF PathsOK, SessionOK
<1> QED
  BY <1>5, <1>6, <1>12, <1>13, <1>14, <1>15, MovesOK, PathsStep

\* Closing an expired span writes a span row.
LEMMA ExpireOnePaths ==
  ASSUME IInv, IInv', PathsOK, NEW p \in Procs, NEW s \in Sessions, NEW x, ExpireOne(p, s, x)
  PROVE  PathsOK'
<1> DEFINE pr == Close(mem[p][s], x).proj
           pm == [mem[p] EXCEPT ![s] = pr]
<1>1. Good(mem[p][s]) /\ x \in DOMAIN mem[p][s].span
  BY IInvParts DEF MemOK, ExpireOne, Expired
<1>2. pr.seen = mem[p][s].seen
  BY <1>1, CloseSeen
<1>3. Head(Close(mem[p][s], x).deltas).type = "span"
  BY DEF Close, SpanClosed
<1>4. UNCHANGED <<events, touched, torn>> /\ pc[p] = "expire"
  BY <1>3 DEF ExpireOne, Persist
<1> HIDE DEF pr
<1>5. mem' = [mem EXCEPT ![p] = pm] /\ \A t \in Sessions : pm[t] = IF t = s THEN pr ELSE mem[p][t]
  BY OneProjector DEF ExpireOne, pr
<1> HIDE DEF pm
<1>6. Moves(p, pc[p], sid[p], job[p], todo[p], out[p], after[p], pm)
  BY <1>5, Unmoved DEF ExpireOne, Moves
<1>7. \A t \in Sessions \ torn' : \A y \in mem'[p][t].seen : Owed(t, y)
  BY <1>2, <1>4, <1>5, <1>6, MovesOK DEF PathsOK, SessionOK
<1> QED
  BY <1>4, <1>6, <1>7, MovesOK, QuietStep

\* When nothing is left to expire the append ends, or the Stop is flushed.
LEMMA ExpireDonePaths ==
  ASSUME IInv, IInv', PathsOK, NEW p \in Procs, ExpireDone(p)
  PROVE  PathsOK'
<1>1. pc[p] = "expire" /\ UNCHANGED <<events, touched, torn, mem, sid, todo, out, after>>
  BY DEF ExpireDone, db
<1>2. DebtOf(p) = {} /\ out[p] = <<>>
  BY <1>1, NoDebt DEF PathsOK
<1>3. CASE Cur(p).kind = "stop"
  <2>1. Moves(p, "flush", sid[p], job[p], todo[p], out[p], after[p], mem[p])
    BY <1>3, Unmoved DEF ExpireDone, Goto, Moves
  <2>2. \A t \in Sessions \ torn' : \A y \in mem'[p][t].seen : Owed(t, y)
    BY <1>1 DEF PathsOK, SessionOK
  <2> QED
    BY <1>1, <2>1, <2>2, MovesOK, QuietStep
<1>4. CASE Cur(p).kind # "stop"
  BY <1>1, <1>2, <1>4, FinishPaths DEF ExpireDone
<1> QED
  BY <1>3, <1>4

\* A flush emits rows of spans, and sees nothing.
LEMMA FlushPaths ==
  ASSUME IInv, IInv', PathsOK, NEW p \in Procs, Flush(p)
  PROVE  PathsOK'
<1> DEFINE res == FlushSession(Mine(p))
<1>1. pc[p] = "flush" /\ Good(Mine(p)) /\ sid[p] \in Sessions
  BY OperandsOK DEF Flush
<1>2. res.deltas \in Seq(Delta)
  BY <1>1, FlushGood DEF IsResult
<1>3. res.proj.seen = Mine(p).seen
  BY <1>1 DEF FlushSession, Good, TypeOKProjector
<1>4. /\ SetProjector(p, sid[p], res.proj) /\ Emit(p, res.deltas, "done")
      /\ UNCHANGED <<sid, job, todo, events, touched, torn>>
  BY DEF Flush, db
<1> HIDE DEF res
<1>5. DebtOf(p) = {} /\ out[p] = <<>>
  BY <1>1, NoDebt DEF PathsOK
<1>6. todo' = [todo EXCEPT ![p] = todo'[p]]
  BY <1>4, Unmoved
<1> QED
  BY <1>1, <1>2, <1>3, <1>4, <1>5, <1>6, EmitPaths

\* The end of a flush.
LEMMA DonePaths ==
  ASSUME IInv, IInv', PathsOK, NEW p \in Procs, Done(p)
  PROVE  PathsOK'
<1>1. pc[p] = "done" /\ UNCHANGED <<events, touched, torn, mem, sid, todo, out, after>> /\ Finish(p)
  BY DEF Done, db
<1>2. DebtOf(p) = {} /\ out[p] = <<>>
  BY <1>1, NoDebt DEF PathsOK
<1> QED
  BY <1>1, <1>2, FinishPaths

\* Clearing takes the span rows, not the derived ones; the late event is still
\* owed, and the cache is empty.
LEMMA ClearRowsPaths ==
  ASSUME IInv, IInv', PathsOK, NEW p \in Procs, ClearRows(p)
  PROVE  PathsOK'
<1> DEFINE s  == sid[p]
           pm == [mem[p] EXCEPT ![s] = Empty]
<1>1. pc[p] = "clear" /\ s \in Sessions /\ HandleOK(p)
  BY OperandsOK DEF ClearRows, PathsOK
<1>2. UNCHANGED <<events, touched, torn>>
  BY DEF ClearRows
<1>3. mem' = [mem EXCEPT ![p] = pm] /\ \A t \in Sessions : pm[t] = IF t = s THEN Empty ELSE mem[p][t]
  BY <1>1, OneProjector DEF ClearRows
<1> HIDE DEF pm
<1>4. Moves(p, "listall", s, job[p], todo[p], out[p], after[p], pm)
  BY <1>3, Unmoved DEF ClearRows, Goto, Moves
<1>5. Empty.seen = {} /\ pm[s] = Empty
  BY <1>1, <1>3 DEF Empty
<1>6. HandleOK(p)'
  BY <1>1, <1>2, <1>4, <1>5, MovesOK DEF HandleOK, Rebuilding, Cur
<1>7. \A x \in DebtOf(p) : Owed(s, x)'
  BY <1>1, <1>4, MovesOK DEF Owed, DebtOf, Debt, Rebuilding
<1>8. \A t \in Sessions \ torn' : \A x \in mem'[p][t].seen : Owed(t, x)
  BY <1>2, <1>3, <1>4, <1>5, MovesOK DEF PathsOK, SessionOK
<1>9. Grows
  BY <1>2 DEF Grows
<1> QED
  BY <1>2, <1>4, <1>6, <1>7, <1>8, <1>9, MovesOK, PathsStep

\* The log read for a rebuild has the late event.
LEMMA ListAllPaths ==
  ASSUME IInv, IInv', PathsOK, NEW p \in Procs, ListAll(p)
  PROVE  PathsOK'
<1> DEFINE s == sid[p]
<1>1. pc[p] = "listall" /\ HandleOK(p)
  BY DEF ListAll, PathsOK
<1>2. UNCHANGED <<events, touched, torn>>
  BY DEF ListAll, db
<1>3. Moves(p, "replay", s, job[p], events[s], out[p], after[p], mem[p])
  BY Unmoved DEF ListAll, Goto, Moves
<1>4. out[p] = <<>> /\ Cur(p).path \in LogPaths(events[s])
      /\ mem[p][s].seen \subseteq touched[s] \cup OutPaths(out[p])
  BY <1>1 DEF HandleOK
<1>5. HandleOK(p)'
  BY <1>1, <1>2, <1>3, <1>4, MovesOK DEF HandleOK
<1>6. \A x \in DebtOf(p) : Owed(s, x)'
  <2>1. \A x \in DebtOf(p) : x = Cur(p).path
    BY <1>1, <1>4 DEF DebtOf, Debt, Rebuilding, OutPaths, Cur
  <2> QED
    BY <1>3, <1>4, <2>1, MovesOK DEF Owed, DebtOf, Debt, Rebuilding
<1>7. \A t \in Sessions \ torn' : \A x \in mem'[p][t].seen : Owed(t, x)
  BY <1>2, <1>3, MovesOK DEF PathsOK, SessionOK
<1>8. Grows
  BY <1>2 DEF Grows
<1> QED
  BY <1>2, <1>3, <1>5, <1>6, <1>7, <1>8, MovesOK, PathsStep

\* An event applied in a rebuild: its value is in the table already or is
\* emitted again.
LEMMA ReplayOnePaths ==
  ASSUME IInv, IInv', PathsOK, NEW p \in Procs, ReplayOne(p)
  PROVE  PathsOK'
<1> DEFINE s   == sid[p]
           e   == Head(todo[p])
           res == Apply(Mine(p), e)
<1>1. /\ pc[p] = "replay" /\ s \in Sessions /\ Good(Mine(p)) /\ e \in Event
      /\ todo[p] # <<>> /\ todo[p] \in Seq(Event) /\ HandleOK(p)
  BY OperandsOK DEF ReplayOne, PathsOK, Consistent
<1>2. res.deltas \in Seq(Delta) /\ Good(res.proj)
  BY <1>1, ApplyGood DEF IsResult
<1>3. \A x \in (res.proj.seen \cup {e.path}) \ (Mine(p).seen \cup {None}) :
        \E i \in DOMAIN res.deltas : res.deltas[i].type = "path" /\ res.deltas[i].path = x
  <2> HIDE DEF e
  <2> QED
    BY <1>1, ApplySeen
<1>4. None \notin res.proj.seen
  BY <1>2, NoneAssumption DEF Good, TypeOKProjector
<1>5. e.path # None => e.path \in res.proj.seen
  BY DEF Apply, Seen
<1>6. \A x \in LogPaths(todo[p]) : x = e.path \/ x \in LogPaths(Tail(todo[p]))
  BY <1>1, HeadOrTail DEF LogPaths
<1>7. out[p] = <<>> /\ Mine(p).seen \subseteq touched[s]
  BY <1>1 DEF HandleOK, Rebuilding, OutPaths, Mine
<1>8. \A x \in DebtOf(p) \ {None} : x \in res.proj.seen \cup LogPaths(Tail(todo[p]))
  <2>1. \A x \in DebtOf(p) : x \in LogPaths(todo[p])
    BY <1>1, <1>7 DEF DebtOf, Debt, OutPaths
  <2> QED
    BY <1>5, <1>6, <2>1
<1>9. /\ SetProjector(p, s, res.proj) /\ Emit(p, res.deltas, "replay")
      /\ todo' = [todo EXCEPT ![p] = Tail(todo[p])]
      /\ UNCHANGED <<sid, job, events, touched, torn>>
  BY DEF ReplayOne, db
<1>10. todo'[p] = Tail(todo[p])
  BY <1>9, IInvParts DEF LocalOK
<1> HIDE DEF res, e
<1>11. \A x \in res.proj.seen \ Mine(p).seen : \E i \in DOMAIN res.deltas :
         res.deltas[i].type = "path" /\ res.deltas[i].path = x
  <2> TAKE x \in res.proj.seen \ Mine(p).seen
  <2>1. x \in (res.proj.seen \cup {e.path}) \ (Mine(p).seen \cup {None})
    BY <1>4
  <2> QED
    BY <1>3, <2>1
<1> QED
  BY <1>1, <1>2, <1>7, <1>8, <1>9, <1>10, <1>11, EmitPaths

\* At the end of a rebuild nothing is owed.
LEMMA ReplayDonePaths ==
  ASSUME IInv, IInv', PathsOK, NEW p \in Procs, ReplayDone(p)
  PROVE  PathsOK'
<1>1. pc[p] = "replay" /\ todo[p] = <<>> /\ HandleOK(p)
      /\ UNCHANGED <<events, touched, torn, mem, sid, todo, out, after>>
  BY DEF ReplayDone, db, PathsOK
<1>2. DebtOf(p) = {} /\ out[p] = <<>>
  BY <1>1 DEF DebtOf, Debt, OutPaths, LogPaths, HandleOK
<1>3. CASE status[sid[p]] = "Done"
  <2>1. Moves(p, "flush", sid[p], job[p], todo[p], out[p], after[p], mem[p])
    BY <1>3, Unmoved DEF ReplayDone, Goto, Moves
  <2>2. \A t \in Sessions \ torn' : \A y \in mem'[p][t].seen : Owed(t, y)
    BY <1>1 DEF PathsOK, SessionOK
  <2>3. Grows
    BY <1>1 DEF Grows
  <2>4. HandleOK(p)'
    BY <1>2, <2>1, MovesOK DEF HandleOK, Rebuilding
  <2> QED
    BY <1>1, <1>2, <2>1, <2>2, <2>3, <2>4, MovesOK, PathsStep
<1>4. CASE status[sid[p]] # "Done"
  BY <1>1, <1>2, <1>4, FinishPaths DEF ReplayDone
<1> QED
  BY <1>3, <1>4

\* A handle that is dropped owes nothing, and its caches are empty.
LEMMA RestartPaths ==
  ASSUME IInv, IInv', PathsOK, NEW p \in Procs, Restart(p)
  PROVE  PathsOK'
<1> DEFINE pm == [s \in Sessions |-> Empty]
<1>1. pc[p] = "idle" /\ UNCHANGED <<events, touched, torn>>
  BY DEF Restart, db
<1>2. Moves(p, pc[p], sid[p], job[p], todo[p], out[p], after[p], pm)
  BY Unmoved DEF Restart, Moves
<1>3. \A t \in Sessions : pm[t].seen = {}
  BY DEF Empty
<1> HIDE DEF pm
<1>4. \A t \in Sessions \ torn' : \A y \in mem'[p][t].seen : Owed(t, y)
  BY <1>2, <1>3, MovesOK
<1> QED
  BY <1>1, <1>2, <1>4, MovesOK, QuietStep

\* A process killed before its insert owes nothing; one killed later leaves its
\* session torn.
LEMMA CrashPaths ==
  ASSUME IInv, IInv', PathsOK, NEW p \in Procs, Crash(p)
  PROVE  PathsOK'
<1> DEFINE pm == [s \in Sessions |-> Empty]
<1>1. UNCHANGED <<events, touched, sid>> /\ torn \subseteq torn'
  BY DEF Crash, db
<1>2. Moves(p, "idle", sid[p], <<>>, <<>>, <<>>, after[p], pm)
  BY Unmoved DEF Crash, Goto, Moves
<1>3. \A t \in Sessions : pm[t].seen = {}
  BY DEF Empty
<1> HIDE DEF pm
<1>4. \A t \in Sessions : mem'[p][t].seen = {}
  BY <1>2, <1>3, MovesOK
<1>5. HandleOK(p)'
  BY <1>2, MovesOK DEF HandleOK, Rebuilding
<1>6. sid[p] \notin torn' => DebtOf(p) = {}
  <2> SUFFICES ASSUME sid[p] \notin torn' PROVE DebtOf(p) = {}
    OBVIOUS
  <2>1. pc[p] \in {"status", "load", "list", "hydrate", "insert"}
    BY DEF Crash
  <2> QED
    BY <2>1, NoDebt DEF PathsOK
<1>7. Grows
  BY <1>1 DEF Grows
<1> QED
  BY <1>1, <1>2, <1>4, <1>5, <1>6, <1>7, MovesOK, PathsStep

-----------------------------------------------------------------------------
\* At first there is nothing to owe.
LEMMA InitPaths == Init => PathsOK
<1> SUFFICES ASSUME Init PROVE PathsOK
  OBVIOUS
<1>1. \A q \in Procs : HandleOK(q)
  BY DEF Init, HandleOK, Rebuilding
<1>2. ASSUME NEW s \in Sessions PROVE SessionOK(s)
  <2>1. LogPaths(events[s]) = {}
    BY <1>2 DEF Init, LogPaths
  <2>2. \A q \in Procs : mem[q][s].seen = {}
    BY <1>2 DEF Init, Empty
  <2> QED
    BY <2>1, <2>2 DEF SessionOK
<1> QED
  BY <1>1, <1>2 DEF PathsOK

\* Every step of every handle pays what it owes or goes on owing it.
LEMMA NextPaths == IInv /\ PathsOK /\ [Next]_vars => PathsOK'
<1> SUFFICES ASSUME IInv, PathsOK, [Next]_vars PROVE PathsOK'
  OBVIOUS
<1>1. IInv'
  BY NextIInv
<1>2. CASE UNCHANGED vars
  BY <1>2 DEF vars, db, local, PathsOK, HandleOK, SessionOK, Owed, DebtOf, Cur
<1>3. ASSUME NEW p \in Procs, Step(p) PROVE PathsOK'
  <2>1. CASE \E s \in Sessions, in \in Inputs, changed \in PromptChanges : Begin(p, s, in, changed)
    BY <1>1, <2>1, BeginPaths
  <2>2. CASE SetStatus(p)
    BY <1>1, <2>2, SetStatusPaths
  <2>3. CASE Load(p)
    BY <1>1, <2>3, LoadPaths
  <2>4. CASE ListLatest(p)
    BY <1>1, <2>4, ListLatestPaths
  <2>5. CASE Hydrate(p)
    BY <1>1, <2>5, HydratePaths
  <2>6. CASE Insert(p)
    BY <1>1, <2>6, InsertPaths
  <2>7. CASE Write(p)
    BY <1>1, <2>7, WritePaths
  <2>8. CASE \E s \in Sessions : \E x \in DOMAIN mem[p][s].span : ExpireOne(p, s, x)
    BY <1>1, <2>8, ExpireOnePaths
  <2>9. CASE ExpireDone(p)
    BY <1>1, <2>9, ExpireDonePaths
  <2>10. CASE Flush(p)
    BY <1>1, <2>10, FlushPaths
  <2>11. CASE Done(p)
    BY <1>1, <2>11, DonePaths
  <2>12. CASE ClearRows(p)
    BY <1>1, <2>12, ClearRowsPaths
  <2>13. CASE ListAll(p)
    BY <1>1, <2>13, ListAllPaths
  <2>14. CASE ReplayOne(p)
    BY <1>1, <2>14, ReplayOnePaths
  <2>15. CASE ReplayDone(p)
    BY <1>1, <2>15, ReplayDonePaths
  <2>16. CASE Restart(p)
    BY <1>1, <2>16, RestartPaths
  <2>17. CASE Crash(p)
    BY <1>1, <2>17, CrashPaths
  <2> QED
    BY <1>3, <2>1, <2>2, <2>3, <2>4, <2>5, <2>6, <2>7, <2>8, <2>9, <2>10, <2>11, <2>12, <2>13,
       <2>14, <2>15, <2>16, <2>17 DEF Step
<1> QED
  BY <1>2, <1>3 DEF Next

\* In a session no handle works on, and none died on, nothing is owed.
LEMMA PathsAreRows == IInv /\ PathsOK => DerivedRowsComplete
<1> SUFFICES ASSUME IInv, PathsOK, NEW s \in Sessions, Settled(s), NEW n \in DOMAIN events[s]
             PROVE  events[s][n].path \in touched[s] \cup {None}
  BY DEF DerivedRowsComplete
<1>1. SessionOK(s) /\ s \notin torn
  BY DEF PathsOK, Settled
<1>2. \A q \in Procs : sid[q] = s => DebtOf(q) = {}
  <2> SUFFICES ASSUME NEW q \in Procs, sid[q] = s PROVE DebtOf(q) = {}
    OBVIOUS
  <2>1. pc[q] = "idle"
    BY DEF Settled, Busy
  <2> QED
    BY <2>1, NoDebt DEF PathsOK
<1>3. events[s][n].path \in LogPaths(events[s])
  BY DEF LogPaths
<1> QED
  BY <1>1, <1>2, <1>3 DEF SessionOK, Owed

\* However many handles append, restart and die, and whatever they hydrate from
\* or rebuild, every file, skill or rule of a stored event has its row once the
\* session is settled (derived.rs, apply_projector_events).
THEOREM DerivedRowsAreComplete == Spec => []DerivedRowsComplete
<1>1. Init => PathsOK
  BY InitPaths
<1>2. IInv /\ PathsOK /\ [Next]_vars => PathsOK'
  BY NextPaths
<1>3. IInv /\ PathsOK => DerivedRowsComplete
  BY PathsAreRows
<1> QED
  BY <1>1, <1>2, <1>3, StoreInvariant, PTL DEF Spec

-----------------------------------------------------------------------------
(* The rows of spans: which closed, expired or flushed spans have their    *)
(* row, as long as every tool call has an id of its own, no prompt file    *)
(* changes and a log fits in the hydration window.  The argument compares  *)
(* the projector of every handle with the replay of the log up to the      *)
(* event it has applied last.                                              *)

\* What the agents have to keep to: a tool call and the hooks around a tool
\* have an id, and no two of them open the same span; no prompt file changes.
Tame ==
  /\ PromptChanges \subseteq {FALSE}
  /\ \A in \in Inputs : Named(in)
  /\ \A a, b \in Inputs : Opens(a) /\ Opens(b) /\ a.id = b.id => a = b

\* Hydration reads the whole log.
Fits == \A s \in Sessions : Len(events[s]) <= HydrateMax

-----------------------------------------------------------------------------
(* The replay of a log. *)

\* Every nonempty set of numbers has a least one.
LEMMA LeastNumber ==
  ASSUME NEW T, T \subseteq Nat, T # {}
  PROVE  \E n \in T : \A m \in T : n <= m
<1>1. PICK x \in T : \A y \in T : <<y, x>> \notin OpToRel(<, Nat)
  BY NatLessThanWellFounded, WFMin
<1>2. \A y \in T : ~(y < x)
  BY <1>1 DEF OpToRel
<1> QED
  BY <1>2

\* at lists the projectors of a replay up to the m-th event.
Replays(log, m, at) ==
  at = [n \in 0 .. m |-> IF n = 0 THEN Empty ELSE Apply(at[n - 1], log[n]).proj]

\* There is a replay of every log.
LEMMA ReplayExists ==
  ASSUME NEW log, NEW k \in Nat
  PROVE  \E at : Replays(log, k, at)
<1> DEFINE T == {m \in Nat : ~\E at : Replays(log, m, at)}
<1>1. SUFFICES ASSUME T # {} PROVE FALSE
  OBVIOUS
<1>2. PICK m \in T : \A j \in T : m <= j
  <2> HIDE DEF T
  <2>1. T \subseteq Nat
    BY DEF T
  <2> QED
    BY <1>1, <2>1, LeastNumber
<1>3. CASE m = 0
  <2> DEFINE f == [n \in 0 .. 0 |-> Empty]
  <2>1. f = [n \in 0 .. 0 |-> IF n = 0 THEN Empty ELSE Apply(f[n - 1], log[n]).proj]
    OBVIOUS
  <2> QED
    BY <1>3, <2>1 DEF Replays
<1>4. CASE m # 0
  <2>1. m - 1 \in Nat /\ m - 1 \notin T
    BY <1>2, <1>4
  <2>2. PICK g : Replays(log, m - 1, g)
    BY <2>1
  <2>3. /\ DOMAIN g = 0 .. m - 1
        /\ \A n \in 0 .. m - 1 : g[n] = IF n = 0 THEN Empty ELSE Apply(g[n - 1], log[n]).proj
    BY <2>2 DEF Replays
  <2> DEFINE h == [n \in 0 .. m |-> IF n <= m - 1 THEN g[n] ELSE Apply(g[m - 1], log[m]).proj]
  <2>4. \A n \in 0 .. m : h[n] = IF n = 0 THEN Empty ELSE Apply(h[n - 1], log[n]).proj
    <3> SUFFICES ASSUME NEW n \in 0 .. m
                 PROVE  h[n] = IF n = 0 THEN Empty ELSE Apply(h[n - 1], log[n]).proj
      OBVIOUS
    <3>1. n # 0 => n - 1 \in 0 .. m - 1 /\ h[n - 1] = g[n - 1]
      BY <2>1
    <3>2. CASE n <= m - 1
      BY <2>1, <2>3, <3>1, <3>2
    <3>3. CASE n = m
      BY <1>4, <2>1, <3>1, <3>3
    <3> QED
      BY <2>1, <3>2, <3>3
  <2>5. h = [n \in 0 .. m |-> IF n = 0 THEN Empty ELSE Apply(h[n - 1], log[n]).proj]
    <3>1. h = [n \in 0 .. m |-> h[n]]
      OBVIOUS
    <3> HIDE DEF h
    <3> QED
      BY <2>4, <3>1
  <2> HIDE DEF h
  <2> QED
    BY <2>5 DEF Replays
<1> QED
  BY <1>3, <1>4

\* Projection is that replay.
LEMMA ProjectionStep ==
  ASSUME NEW log \in Seq(Event)
  PROVE  /\ Projection(log)[0] = Empty
         /\ \A n \in 1 .. Len(log) : Projection(log)[n] = Apply(Projection(log)[n - 1], log[n]).proj
<1> DEFINE k == Len(log)
           P == Projection(log)
<1>1. k \in Nat
  OBVIOUS
<1>2. P = CHOOSE at : Replays(log, k, at)
  BY DEF Projection, Replays
<1>3. Replays(log, k, P)
  BY <1>1, <1>2, ReplayExists
<1> HIDE DEF P
<1>4. \A n \in 0 .. k : P[n] = IF n = 0 THEN Empty ELSE Apply(P[n - 1], log[n]).proj
  BY <1>3 DEF Replays
<1>5. \A n \in 1 .. k : n \in 0 .. k /\ n # 0
  BY <1>1
<1>6. 0 \in 0 .. k
  BY <1>1
<1> QED
  BY <1>4, <1>5, <1>6 DEF P

\* A log of seqs without a gap, whose events name their spans and of which no
\* two open the same one.
WellLog(log) ==
  /\ log \in Seq(Event)
  /\ \A i \in 1 .. Len(log) : log[i].seq = i - 1 /\ Named(log[i])
  /\ \A i, j \in 1 .. Len(log) :
       Opens(log[i]) /\ Opens(log[j]) /\ log[i].id = log[j].id => i = j

\* Every projector of a replay is well formed and has only spans open that an
\* event up to it opened.
LEMMA ReplayIsGood ==
  ASSUME NEW log, WellLog(log), NEW k \in 0 .. Len(log)
  PROVE  /\ Good(Projection(log)[k])
         /\ \A x \in DOMAIN Projection(log)[k].span :
              \E i \in 1 .. k : Opens(log[i]) /\ log[i].id = x
<1> DEFINE P == Projection(log)
           N == Len(log)
           OpenedUpTo(n) == \A x \in DOMAIN P[n].span : \E i \in 1 .. n : Opens(log[i]) /\ log[i].id = x
           T == {n \in 0 .. N : ~(Good(P[n]) /\ OpenedUpTo(n))}
<1>1. /\ N \in Nat /\ P[0] = Empty /\ \A i \in 1 .. N : log[i] \in Event
      /\ \A n \in 1 .. N : P[n] = Apply(P[n - 1], log[n]).proj
  BY ProjectionStep, LenProperties, ElementOfSeq DEF WellLog
<1> HIDE DEF P
<1>2. SUFFICES ASSUME T # {} PROVE FALSE
  BY DEF P
<1>3. PICK m \in T : \A j \in T : m <= j
  <2> HIDE DEF T
  <2>1. T \subseteq Nat
    BY <1>1 DEF T
  <2> QED
    BY <1>2, <2>1, LeastNumber
<1>4. CASE m = 0
  <2>1. Good(P[0]) /\ DOMAIN P[0].span = {}
    BY <1>1, EmptyIsGood DEF Empty
  <2> QED
    BY <1>3, <1>4, <2>1
<1>5. CASE m # 0
  <2>1. m \in 1 .. N /\ m - 1 \in 0 .. N /\ m - 1 \notin T
    <3>1. m \in 0 .. N
      OBVIOUS
    <3> HIDE DEF T
    <3> QED
      BY <1>1, <1>3, <1>5, <3>1
  <2>2. Good(P[m - 1]) /\ OpenedUpTo(m - 1)
    BY <2>1
  <2> DEFINE e == log[m]
  <2>3. e \in Event /\ P[m] = Apply(P[m - 1], e).proj /\ Named(e)
    BY <1>1, <2>1 DEF WellLog
  <2>4. Opens(e) => e.id \notin DOMAIN P[m - 1].span
    <3> SUFFICES ASSUME Opens(e), e.id \in DOMAIN P[m - 1].span PROVE FALSE
      OBVIOUS
    <3>1. PICK i \in 1 .. m - 1 : Opens(log[i]) /\ log[i].id = e.id
      BY <2>2
    <3>2. i \in 1 .. N /\ i # m
      BY <1>1, <2>1
    <3> QED
      BY <2>1, <3>1, <3>2 DEF WellLog
  <2>5. Good(P[m])
    BY <2>2, <2>3, ApplyGood DEF IsResult
  <2>6. \A x \in DOMAIN P[m].span : x \in DOMAIN P[m - 1].span \/ (Opens(e) /\ e.id = x)
    <3> HIDE DEF e
    <3>1. CASE Opens(e)
      BY <2>2, <2>3, <2>4, <3>1, ApplyEffect DEF Pushed
    <3>2. CASE ~Opens(e)
      BY <2>2, <2>3, <3>2, ApplyEffect DEF Closes, Removed
    <3> QED
      BY <3>1, <3>2
  <2>7. OpenedUpTo(m)
    <3> SUFFICES ASSUME NEW x \in DOMAIN P[m].span
                 PROVE  \E i \in 1 .. m : Opens(log[i]) /\ log[i].id = x
      OBVIOUS
    <3>1. CASE x \in DOMAIN P[m - 1].span
      <4>1. PICK i \in 1 .. m - 1 : Opens(log[i]) /\ log[i].id = x
        BY <2>2, <3>1
      <4>2. i \in 1 .. m
        BY <2>1
      <4> QED
        BY <4>1, <4>2
    <3>2. CASE Opens(e) /\ e.id = x
      BY <2>1, <3>2
    <3> QED
      BY <2>6, <3>1, <3>2
  <2> QED
    BY <1>3, <2>5, <2>7
<1> QED
  BY <1>4, <1>5

\* What an event of a log finds open is not what it opens.
LEMMA OpenersAreFresh ==
  ASSUME NEW log, WellLog(log), NEW n \in 1 .. Len(log)
  PROVE  /\ log[n] \in Event /\ Named(log[n]) /\ n - 1 \in 0 .. Len(log)
         /\ Projection(log)[n] = Apply(Projection(log)[n - 1], log[n]).proj
         /\ Good(Projection(log)[n - 1])
         /\ Opens(log[n]) => log[n].id \notin DOMAIN Projection(log)[n - 1].span
<1>1. /\ log[n] \in Event /\ Named(log[n]) /\ n - 1 \in 0 .. Len(log)
      /\ Projection(log)[n] = Apply(Projection(log)[n - 1], log[n]).proj
  BY ProjectionStep, LenProperties, ElementOfSeq DEF WellLog
<1>2. Good(Projection(log)[n - 1])
  BY <1>1, ReplayIsGood
<1>3. ASSUME Opens(log[n]), log[n].id \in DOMAIN Projection(log)[n - 1].span PROVE FALSE
  <2>1. PICK i \in 1 .. n - 1 : Opens(log[i]) /\ log[i].id = log[n].id
    BY <1>1, <1>3, ReplayIsGood
  <2>2. i \in 1 .. Len(log) /\ i # n
    BY LenProperties DEF WellLog
  <2> QED
    BY <1>3, <2>1, <2>2 DEF WellLog
<1> QED
  BY <1>1, <1>2, <1>3

\* A span that the replay has open, and has not later, was closed in between.
LEMMA GoneMeansClosed ==
  ASSUME NEW log, NEW P, NEW m \in Nat, NEW n \in Nat, m <= n, NEW x,
         x \in DOMAIN P[m].span, x \notin DOMAIN P[n].span
  PROVE  \E k \in m + 1 .. n : x \in DOMAIN P[k - 1].span /\ x \notin DOMAIN P[k].span
<1> DEFINE T == {k \in m .. n : x \notin DOMAIN P[k].span}
<1>1. n \in T /\ T \subseteq Nat
  OBVIOUS
<1>2. PICK k \in T : \A j \in T : k <= j
  <2> HIDE DEF T
  <2> QED
    BY <1>1, LeastNumber
<1>3. k # m /\ k \in m .. n
  OBVIOUS
<1>4. k - 1 \in m .. n /\ k - 1 \notin T /\ k \in m + 1 .. n
  BY <1>2, <1>3
<1>5. x \in DOMAIN P[k - 1].span
  BY <1>4
<1> QED
  BY <1>2, <1>4, <1>5

\* The replay of a log goes on when an event is appended to it.
LEMMA ReplayGoesOn ==
  ASSUME NEW log \in Seq(Event), NEW e \in Event, NEW k \in 0 .. Len(log)
  PROVE  Projection(Append(log, e))[k] = Projection(log)[k]
<1> DEFINE P == Projection(log)
           Q == Projection(Append(log, e))
           N == Len(log)
           T == {n \in 0 .. N : Q[n] # P[n]}
<1>1. /\ N \in Nat /\ P[0] = Empty /\ \A n \in 1 .. N : P[n] = Apply(P[n - 1], log[n]).proj
  BY ProjectionStep, LenProperties
<1>2. /\ Append(log, e) \in Seq(Event) /\ Len(Append(log, e)) = N + 1
      /\ \A i \in 1 .. N : Append(log, e)[i] = log[i]
  BY AppendProperties
<1>3. Q[0] = Empty /\ \A n \in 1 .. N : Q[n] = Apply(Q[n - 1], log[n]).proj
  <2>1. /\ Q[0] = Empty
        /\ \A n \in 1 .. N + 1 : Q[n] = Apply(Q[n - 1], Append(log, e)[n]).proj
    BY <1>2, ProjectionStep
  <2> HIDE DEF Q
  <2>2. \A n \in 1 .. N : n \in 1 .. N + 1
    BY <1>1
  <2> QED
    BY <1>2, <2>1, <2>2
<1> HIDE DEF P, Q
<1>4. SUFFICES ASSUME T # {} PROVE FALSE
  BY DEF P, Q
<1>5. PICK m \in T : \A j \in T : m <= j
  <2> HIDE DEF T
  <2>1. T \subseteq Nat
    BY <1>1 DEF T
  <2> QED
    BY <1>4, <2>1, LeastNumber
<1>6. m # 0
  BY <1>1, <1>3, <1>5
<1>7. m \in 1 .. N /\ m - 1 \in 0 .. N /\ m - 1 \notin T
  BY <1>1, <1>5, <1>6
<1>8. Q[m - 1] = P[m - 1]
  BY <1>7
<1> QED
  BY <1>1, <1>3, <1>5, <1>7, <1>8

-----------------------------------------------------------------------------
(* The invariant. *)

\* what the replay of a session has open after its n-th event
At(s, n) == Projection(events[s])[n]

\* how many events of the log a handle has applied
Pos(p, s) == IF mem[p][s].last = None THEN 0 ELSE mem[p][s].last + 1

\* A handle that has not stored its event yet.
Ready(p) == pc[p] \in {"status", "load", "list", "hydrate", "insert"}

FiredIds == {in.id : in \in {x \in fired : Opens(x)}}

\* No event, stored or about to be, opens a span that another one opens.
Pending(p) == Ready(p) /\ Opens(Cur(p))

IdsOK ==
  /\ \A s \in Sessions : \A i \in DOMAIN events[s] :
       Opens(events[s][i]) =>
         /\ events[s][i].id \in FiredIds
         /\ \A p \in Procs : Pending(p) => Cur(p).id # events[s][i].id
  /\ \A p \in Procs : Pending(p) => Cur(p).id \in FiredIds
  /\ \A p, q \in Procs : Pending(p) /\ Pending(q) /\ Cur(p).id = Cur(q).id => p = q

\* A handle never has to rebuild a session, and when the event it is about to
\* store is the next one, it has applied the whole log.
JobOK(p) ==
  /\ pc[p] \notin {"clear", "listall", "replay"}
  /\ pc[p] = "write" => after[p] # "replay"
  /\ pc[p] # "idle" => Len(job[p]) = 1 /\ Named(Cur(p))
  /\ Ready(p) => Cur(p).seq <= Len(events[sid[p]])
  /\ pc[p] \in {"list", "hydrate", "insert"} /\ base[p] # None => base[p] < Len(events[sid[p]])
  /\ pc[p] = "list" => Mine(p) = Empty
  /\ pc[p] = "hydrate" =>
       /\ Mine(p) = At(sid[p], Pos(p, sid[p]))
       /\ \A i \in DOMAIN todo[p] : /\ Pos(p, sid[p]) + i \in DOMAIN events[sid[p]]
                                    /\ todo[p][i] = events[sid[p]][Pos(p, sid[p]) + i]
       /\ Cur(p).seq = Len(events[sid[p]])
            => Pos(p, sid[p]) + Len(todo[p]) = Len(events[sid[p]])
  /\ pc[p] = "insert" /\ Cur(p).seq = Len(events[sid[p]])
       => Pos(p, sid[p]) = Len(events[sid[p]])

\* What a handle has open, the replay up to its last event has open.
ViewOK(p, s) ==
  /\ Pos(p, s) \in 0 .. Len(events[s])
  /\ Under(mem[p][s], At(s, Pos(p, s)))

\* A span has its row, or a handle is about to write it.
OutSpan(ou, s, x) ==
  \E i \in DOMAIN ou : ou[i].session = s /\ ou[i].delta.type = "span" /\ ou[i].delta.id = x

HasRow(s, x) == x \in DOMAIN rows[s] \/ \E p \in Procs : OutSpan(out[p], s, x)

\* The handle that has stored a Stop will flush the spans it has open.
WillFlush(p, s, x) ==
  /\ sid[p] = s /\ pc[p] # "idle" /\ Cur(p).kind = "stop"
  /\ pc[p] \in {"expire", "flush"} \/ (pc[p] = "write" /\ after[p] = "expire")
  /\ x \in DOMAIN mem[p][s].span

\* A parent that a row may name.
Real(s, x) == x = None \/ HasRow(s, x) \/ x \in DOMAIN At(s, Len(events[s])).span

OutParents(ou, s) ==
  {ou[i].delta.row.parent : i \in {j \in DOMAIN ou : ou[j].session = s /\ ou[j].delta.type = "span"}}

\* What the replay has open and a handle has not, that handle has closed.
Covered(p, s) == \A x \in DOMAIN At(s, Pos(p, s)).span \ DOMAIN mem[p][s].span : HasRow(s, x)

\* Whatever the replay has closed, and whatever a handle has closed before the
\* replay did, has its row.
SpansOK(s) ==
  s \notin torn =>
    /\ \A p \in Procs : Covered(p, s)
    /\ \A n \in DOMAIN events[s] :
         \A x \in DOMAIN At(s, n - 1).span \ DOMAIN At(s, n).span : HasRow(s, x)
    /\ \A n \in DOMAIN events[s] : events[s][n].kind = "stop" =>
         \A x \in DOMAIN At(s, n - 1).span : HasRow(s, x) \/ \E p \in Procs : WillFlush(p, s, x)
    /\ \A x \in DOMAIN rows[s] : Real(s, rows[s][x].parent)
    /\ \A p \in Procs : \A x \in OutParents(out[p], s) : Real(s, x)

RowsInv ==
  /\ IdsOK
  /\ \A s \in Sessions : WellLog(events[s])
  /\ \A p \in Procs : JobOK(p)
  /\ \A p \in Procs, s \in Sessions : ViewOK(p, s)
  /\ \A s \in Sessions : SpansOK(s)

-----------------------------------------------------------------------------
(* Steps that store no event. *)

\* At first nothing is stored, open or under way.
LEMMA InitRows == Init => RowsInv
<1> SUFFICES ASSUME Init PROVE RowsInv
  OBVIOUS
<1>1. \A s \in Sessions : events[s] = <<>> /\ DOMAIN rows[s] = {}
  BY DEF Init
<1>2. /\ torn = {} /\ \A p \in Procs : pc[p] = "idle" /\ out[p] = <<>>
      /\ \A p \in Procs, s \in Sessions : mem[p][s] = Empty
  BY DEF Init
<1>3. \A s \in Sessions : WellLog(events[s]) /\ Len(events[s]) = 0 /\ DOMAIN events[s] = {}
  <2>1. <<>> \in Seq(Event) /\ Len(<<>>) = 0 /\ DOMAIN <<>> = {}
    OBVIOUS
  <2>2. WellLog(<<>>)
    BY <2>1 DEF WellLog
  <2> QED
    BY <1>1, <2>1, <2>2
<1>4. \A s \in Sessions : At(s, 0) = Empty
  BY <1>3, ProjectionStep DEF At, WellLog
<1>5. \A p \in Procs, s \in Sessions : Pos(p, s) = 0
  BY <1>2 DEF Pos, Empty
<1>6. IdsOK
  BY <1>2, <1>3 DEF IdsOK, Pending, Ready
<1>7. \A p \in Procs : JobOK(p)
  BY <1>2 DEF JobOK, Ready
<1>8. \A p \in Procs, s \in Sessions : ViewOK(p, s)
  BY <1>2, <1>3, <1>5, NothingUnder DEF ViewOK, Empty
<1>9. \A s \in Sessions : SpansOK(s)
  <2> TAKE s \in Sessions
  <2>1. \A p \in Procs : Covered(p, s)
    BY <1>4, <1>5 DEF Covered, Empty
  <2>2. \A p \in Procs : OutParents(out[p], s) = {}
    BY <1>2 DEF OutParents
  <2> QED
    BY <1>1, <1>3, <2>1, <2>2 DEF SpansOK
<1> QED
  BY <1>3, <1>6, <1>7, <1>8, <1>9 DEF RowsInv

\* The end of a log whose seqs have no gap.
LEMMA LogEnds ==
  ASSUME NEW s \in Sessions, WellLog(events[s])
  PROVE  /\ Len(events[s]) \in Nat /\ DOMAIN events[s] = 1 .. Len(events[s])
         /\ NextSeq(s) = Len(events[s])
         /\ LastSeq(s) = IF Len(events[s]) = 0 THEN None ELSE Len(events[s]) - 1
<1> DEFINE log == events[s]
           n   == Len(log)
<1>1. n \in Nat /\ DOMAIN log = 1 .. n /\ (log = <<>> <=> n = 0)
  BY LenProperties, EmptyIffNoLength DEF WellLog
<1>2. n # 0 => Last(log) = log[n] /\ log[n].seq = n - 1
  BY <1>1 DEF Last, WellLog
<1> QED
  BY <1>1, <1>2 DEF NextSeq, LastSeq

\* What a handle has open is real.
LEMMA OpenIsReal ==
  ASSUME RowsInv, NEW p \in Procs, NEW s \in Sessions, s \notin torn,
         NEW x \in DOMAIN mem[p][s].span
  PROVE  Real(s, x)
<1> DEFINE n == Len(events[s])
           m == Pos(p, s)
           P == Projection(events[s])
<1>1. WellLog(events[s]) /\ ViewOK(p, s) /\ SpansOK(s)
  BY DEF RowsInv
<1>2. n \in Nat /\ DOMAIN events[s] = 1 .. n /\ m \in 0 .. n
  BY <1>1, LogEnds DEF ViewOK
<1>3. x \in DOMAIN P[m].span
  BY <1>1 DEF ViewOK, Under, At
<1> SUFFICES ASSUME x \notin DOMAIN P[n].span PROVE HasRow(s, x)
  BY DEF Real, At
<1> HIDE DEF n, m, P
<1>4. m \in Nat /\ m <= n
  BY <1>2
<1>5. PICK k \in m + 1 .. n : x \in DOMAIN P[k - 1].span /\ x \notin DOMAIN P[k].span
  BY <1>2, <1>3, <1>4, GoneMeansClosed
<1>6. k \in DOMAIN events[s]
  BY <1>2, <1>4
<1> QED
  BY <1>1, <1>5, <1>6 DEF SpansOK, At, P

\* No step but the start of a hook adds to what is about to be stored.
LEMMA IdsKeep ==
  ASSUME RowsInv, NEW p \in Procs, \A q \in Procs \ {p} : Same(q),
         UNCHANGED <<events, fired>>, Ready(p)' => Ready(p) /\ job'[p] = job[p]
  PROVE  IdsOK'
<1>1. \A q \in Procs : Pending(q)' => Pending(q) /\ Cur(q)' = Cur(q)
  BY DEF Pending, Ready, Cur, Same
<1>2. FiredIds' = FiredIds
  BY DEF FiredIds
<1> QED
  BY <1>1, <1>2 DEF IdsOK, RowsInv

\* The other handles are where they were.
LEMMA JobsKeep ==
  ASSUME NEW q \in Procs, Same(q), base'[q] = base[q], events' = events, JobOK(q)
  PROVE  JobOK(q)'
<1>1. /\ Cur(q)' = Cur(q) /\ Mine(q)' = Mine(q) /\ Ready(q)' = Ready(q)
      /\ Pos(q, sid[q])' = Pos(q, sid[q]) /\ At(sid[q], Pos(q, sid[q]))' = At(sid[q], Pos(q, sid[q]))
  BY DEF Same, Cur, Mine, Ready, Pos, At
<1> QED
  BY <1>1 DEF JobOK, Same

\* A step of one handle that stores no event and takes no row away.
LEMMA RowsStep ==
  ASSUME RowsInv, NEW p \in Procs,
         \A q \in Procs \ {p} : Same(q) /\ base'[q] = base[q],
         events' = events, torn \subseteq torn', IdsOK', JobOK(p)',
         \A s \in Sessions : ViewOK(p, s)',
         \A s \in Sessions \ torn' : Covered(p, s)',
         \A s \in Sessions \ torn' : \A x : HasRow(s, x) => HasRow(s, x)',
         \A s \in Sessions \ torn' : \A x :
           WillFlush(p, s, x) => HasRow(s, x)' \/ WillFlush(p, s, x)',
         \A s \in Sessions \ torn' : \A y \in DOMAIN rows'[s] :
           Real(s, rows'[s][y].parent) \/ (y \in DOMAIN rows[s] /\ rows'[s][y] = rows[s][y]),
         \A s \in Sessions \ torn' : \A y \in OutParents(out'[p], s) : Real(s, y)
  PROVE  RowsInv'
<1>1. \A s \in Sessions : WellLog(events[s])'
  BY DEF RowsInv
<1>2. \A q \in Procs : JobOK(q)'
  BY JobsKeep DEF RowsInv
<1>3. ASSUME NEW q \in Procs, NEW s \in Sessions, q # p
      PROVE  Pos(q, s)' = Pos(q, s) /\ mem'[q][s] = mem[q][s] /\ ViewOK(q, s)'
  BY <1>3 DEF Same, Pos, At, ViewOK, RowsInv
<1>4. \A q \in Procs, s \in Sessions : ViewOK(q, s)'
  BY <1>3
<1>5. ASSUME NEW s \in Sessions, s \notin torn' PROVE SpansOK(s)'
  <2>1. SpansOK(s) /\ s \notin torn
    BY <1>5 DEF RowsInv
  <2>2. \A n : At(s, n)' = At(s, n)
    BY DEF At
  <2>3. \A x : HasRow(s, x) => HasRow(s, x)'
    BY <1>5
  <2>4. \A x : Real(s, x) => Real(s, x)'
    BY <2>3 DEF Real, At
  <2>5. ASSUME NEW q \in Procs PROVE Covered(q, s)'
    <3>1. CASE q = p
      BY <1>5, <3>1
    <3>2. CASE q # p
      <4>1. Pos(q, s)' = Pos(q, s) /\ mem'[q][s] = mem[q][s] /\ Covered(q, s)
        BY <1>3, <2>1, <3>2 DEF SpansOK
      <4> QED
        BY <2>3, <4>1 DEF Covered, At
    <3> QED
      BY <3>1, <3>2
  <2>6. ASSUME NEW q \in Procs, NEW x, WillFlush(q, s, x) PROVE HasRow(s, x)' \/ WillFlush(q, s, x)'
    <3>1. CASE q = p
      BY <1>5, <2>6, <3>1
    <3>2. CASE q # p
      BY <2>6, <3>2 DEF WillFlush, Same, Cur
    <3> QED
      BY <3>1, <3>2
  <2>7. \A n \in DOMAIN events[s] :
          \A x \in DOMAIN At(s, n - 1).span \ DOMAIN At(s, n).span : HasRow(s, x)'
    BY <2>1, <2>3 DEF SpansOK
  <2>8. \A n \in DOMAIN events[s] : events[s][n].kind = "stop" =>
          \A x \in DOMAIN At(s, n - 1).span : HasRow(s, x)' \/ \E q \in Procs : WillFlush(q, s, x)'
    BY <2>1, <2>3, <2>6 DEF SpansOK
  <2>9. ASSUME NEW y \in DOMAIN rows'[s], NEW z, z = rows'[s][y].parent PROVE Real(s, z)'
    <3>1. Real(s, z)
      BY <1>5, <2>1, <2>9 DEF SpansOK
    <3> QED
      BY <2>4, <3>1
  <2>10. ASSUME NEW q \in Procs, NEW y \in OutParents(out'[q], s) PROVE Real(s, y)'
    BY <1>5, <2>1, <2>4, <2>10 DEF SpansOK, Same
  <2> QED
    BY <2>2, <2>5, <2>7, <2>8, <2>9, <2>10 DEF SpansOK, Real
<1>6. \A s \in Sessions : SpansOK(s)'
  BY <1>5 DEF SpansOK
<1> QED
  BY <1>1, <1>2, <1>4, <1>6 DEF RowsInv

\* A handle that has everything open that the replay has open.
Whole(p, s) == ViewOK(p, s) /\ DOMAIN At(s, Pos(p, s)).span \subseteq DOMAIN mem[p][s].span

\* A step that writes no row and emits no delta.
LEMMA QuietRows ==
  ASSUME RowsInv, NEW p \in Procs,
         \A q \in Procs \ {p} : Same(q) /\ base'[q] = base[q],
         UNCHANGED <<events, rows>>, out'[p] = out[p], torn \subseteq torn', IdsOK', JobOK(p)',
         \A s \in Sessions : mem'[p][s] = mem[p][s] \/ Whole(p, s)',
         \A s \in Sessions : \A x : WillFlush(p, s, x) => WillFlush(p, s, x)'
  PROVE  RowsInv'
<1>1. \A q \in Procs : out'[q] = out[q]
  BY DEF Same
<1>2. \A s, x : HasRow(s, x) => HasRow(s, x)'
  BY <1>1 DEF HasRow
<1>3. ASSUME NEW s \in Sessions, mem'[p][s] = mem[p][s]
      PROVE  ViewOK(p, s)' /\ (s \notin torn' => Covered(p, s)')
  <2>1. /\ Pos(p, s)' = Pos(p, s) /\ At(s, Pos(p, s))' = At(s, Pos(p, s))
        /\ ViewOK(p, s) /\ SpansOK(s)
    BY <1>3 DEF Pos, At, RowsInv
  <2>2. ViewOK(p, s)'
    BY <1>3, <2>1 DEF ViewOK
  <2>3. s \notin torn' => Covered(p, s)
    BY <2>1 DEF SpansOK
  <2>4. s \notin torn' => Covered(p, s)'
    BY <1>2, <1>3, <2>1, <2>3 DEF Covered
  <2> QED
    BY <2>2, <2>4
<1>4. ASSUME NEW s \in Sessions, Whole(p, s)' PROVE ViewOK(p, s)' /\ Covered(p, s)'
  BY <1>4 DEF Whole, Covered
<1>5. \A s \in Sessions \ torn' : \A y \in OutParents(out'[p], s) : Real(s, y)
  BY DEF RowsInv, SpansOK
<1> QED
  BY <1>2, <1>3, <1>4, <1>5, RowsStep

\* An empty projector has everything open that an empty log has open.
LEMMA EmptyIsWhole ==
  ASSUME RowsInv, events' = events, NEW p \in Procs, NEW s \in Sessions, mem'[p][s] = Empty
  PROVE  Whole(p, s)' /\ Pos(p, s)' = 0 /\ At(s, 0)' = Empty
<1>1. WellLog(events[s]) /\ Len(events[s]) \in Nat
  BY LogEnds DEF RowsInv
<1>2. Pos(p, s)' = 0
  BY DEF Pos, Empty
<1>3. At(s, 0)' = Empty
  BY <1>1, ProjectionStep DEF At, WellLog
<1>4. At(s, Pos(p, s))' = Empty
  BY <1>2, <1>3 DEF At
<1>5. DOMAIN mem'[p][s].span = {} /\ DOMAIN Empty.span = {}
  BY DEF Empty
<1>6. ViewOK(p, s)'
  BY <1>1, <1>2, <1>5, NothingUnder DEF ViewOK
<1> QED
  BY <1>2, <1>3, <1>4, <1>5, <1>6 DEF Whole

\* The updates of base.
LEMMA BaseMoves ==
  ASSUME IInv, NEW p \in Procs, NEW b, base' = [base EXCEPT ![p] = b]
  PROVE  base'[p] = b /\ \A q \in Procs \ {p} : base'[q] = base[q]
BY IInvParts DEF LocalOK

\* The next hook gets the next seq of its session; it opens no span that a hook
\* before it opened.
LEMMA BeginRows ==
  ASSUME IInv, RowsInv, Tame, NEW p \in Procs, NEW s \in Sessions, NEW in \in Inputs,
         NEW changed \in PromptChanges, Begin(p, s, in, changed)
  PROVE  RowsInv'
<1> DEFINE e  == [in EXCEPT !.seq = NextSeq(s)]
           l  == IF in.kind \in DOMAIN StatusOf /\ ~changed THEN "status" ELSE "load"
<1>1. /\ in \in Event /\ WellLog(events[s]) /\ NextSeq(s) = Len(events[s])
      /\ Len(events[s]) \in Nat /\ in \notin fired /\ ~changed /\ pc[p] = "idle"
  BY StoreAssumption, LogEnds DEF Tame, RowsInv, Begin
<1>2. e.kind = in.kind /\ e.id = in.id /\ e.seq = Len(events[s]) /\ Named(in)
  BY <1>1 DEF Event, Tame
<1>3. (IF changed THEN <<PromptChanged(e), e>> ELSE <<e>>) = <<e>>
  BY <1>1
<1> HIDE DEF e
<1>4. Moves(p, l, s, <<e>>, todo[p], out[p], after[p], mem[p])
  BY <1>3, Unmoved DEF Begin, Goto, Moves, e
<1>5. l \in {"status", "load"}
  OBVIOUS
<1> HIDE DEF l
<1>6. /\ pc'[p] = l /\ sid'[p] = s /\ job'[p] = <<e>> /\ out'[p] = out[p] /\ mem'[p] = mem[p]
      /\ \A q \in Procs \ {p} : Same(q) /\ base'[q] = base[q]
  BY <1>4, MovesOK DEF Begin
<1>7. UNCHANGED <<events, rows, torn>> /\ fired' = fired \cup {in}
  BY DEF Begin
<1>8. Cur(p)' = e /\ Len(job'[p]) = 1
  BY <1>6 DEF Cur
<1>9. JobOK(p)'
  <2>1. Named(Cur(p))'
    BY <1>2, <1>8 DEF Named
  <2>2. (Cur(p).seq <= Len(events[sid[p]]))'
    BY <1>1, <1>2, <1>6, <1>7, <1>8
  <2> QED
    BY <1>5, <1>6, <1>8, <2>1, <2>2 DEF JobOK
<1>10. IdsOK'
  <2>1. FiredIds \subseteq FiredIds' /\ (Opens(e) => e.id \in FiredIds')
    BY <1>2, <1>7 DEF FiredIds, Opens
  <2>2. Opens(e) => e.id \notin FiredIds
    <3> SUFFICES ASSUME Opens(e), e.id \in FiredIds PROVE FALSE
      OBVIOUS
    <3>1. PICK a \in fired : Opens(a) /\ a.id = in.id
      BY <1>2 DEF FiredIds
    <3>2. a \in Inputs /\ Opens(in)
      BY <1>2, IInvParts DEF BookOK, Opens
    <3> QED
      BY <1>1, <3>1, <3>2 DEF Tame
  <2>3. \A q \in Procs \ {p} : (Pending(q)' <=> Pending(q)) /\ Cur(q)' = Cur(q)
    BY <1>6 DEF Same, Pending, Ready, Cur
  <2>4. Pending(p)' => Opens(e)
    BY <1>8 DEF Pending
  <2>5. IdsOK
    BY DEF RowsInv
  <2>6. \A t \in Sessions : \A i \in DOMAIN events[t] :
          Opens(events[t][i]) =>
            /\ events[t][i].id \in FiredIds'
            /\ \A q \in Procs : Pending(q)' => Cur(q)'.id # events[t][i].id
    BY <1>8, <2>1, <2>2, <2>3, <2>4, <2>5 DEF IdsOK
  <2>7. \A q \in Procs : Pending(q)' => Cur(q)'.id \in FiredIds'
    BY <1>8, <2>1, <2>3, <2>4, <2>5 DEF IdsOK
  <2>8. ASSUME NEW q \in Procs, NEW r \in Procs, Pending(q)', Pending(r)', Cur(q)'.id = Cur(r)'.id
        PROVE  q = r
    BY <1>8, <2>2, <2>3, <2>4, <2>5, <2>8 DEF IdsOK
  <2> QED
    BY <1>7, <2>6, <2>7, <2>8 DEF IdsOK
<1>11. \A t \in Sessions : \A x : ~WillFlush(p, t, x)
  BY <1>1 DEF WillFlush
<1> QED
  BY <1>6, <1>7, <1>9, <1>10, <1>11, QuietRows

\* The status of the session says nothing about its rows.
LEMMA SetStatusRows ==
  ASSUME IInv, RowsInv, NEW p \in Procs, SetStatus(p)
  PROVE  RowsInv'
<1>1. Moves(p, "load", sid[p], job[p], todo[p], out[p], after[p], mem[p])
  BY Unmoved DEF SetStatus, Goto, Moves
<1>2. pc[p] = "status" /\ UNCHANGED <<events, rows, torn, fired, base>> /\ JobOK(p)
  BY DEF SetStatus, RowsInv
<1>3. /\ pc'[p] = "load" /\ sid'[p] = sid[p] /\ job'[p] = job[p] /\ out'[p] = out[p]
      /\ mem'[p] = mem[p] /\ \A q \in Procs \ {p} : Same(q) /\ base'[q] = base[q]
  BY <1>1, <1>2, MovesOK
<1>4. Cur(p)' = Cur(p)
  BY <1>3 DEF Cur
<1>5. JobOK(p)'
  BY <1>2, <1>3, <1>4 DEF JobOK, Ready
<1>6. IdsOK'
  BY <1>2, <1>3, IdsKeep DEF Ready
<1>7. \A t \in Sessions : \A x : ~WillFlush(p, t, x)
  BY <1>2 DEF WillFlush
<1> QED
  BY <1>2, <1>3, <1>5, <1>6, <1>7, QuietRows

\* A projector that is not stale has applied the whole log.
LEMMA LoadRows ==
  ASSUME IInv, RowsInv, NEW p \in Procs, Load(p)
  PROVE  RowsInv'
<1>1. PICK s \in Sessions : s = sid[p]
  BY OperandsOK
<1> DEFINE n == Len(events[s])
           l == IF Stale(p) THEN "list" ELSE "insert"
           pm == IF Stale(p) THEN [mem[p] EXCEPT ![s] = Empty] ELSE mem[p]
<1>1a. n \in Nat /\ LastSeq(s) = IF n = 0 THEN None ELSE n - 1
  BY LogEnds DEF RowsInv
<1>2. pc[p] = "load" /\ UNCHANGED <<events, rows, torn, fired>> /\ JobOK(p)
      /\ base' = [base EXCEPT ![p] = LastSeq(s)]
  BY <1>1 DEF Load, RowsInv, db
<1>3. \A t \in Sessions : pm[t] = IF Stale(p) /\ t = s THEN Empty ELSE mem[p][t]
  <2>1. \A t \in Sessions : [mem[p] EXCEPT ![s] = Empty][t] = IF t = s THEN Empty ELSE mem[p][t]
    BY OneProjector
  <2> QED
    BY <2>1
<1>4. Moves(p, l, s, job[p], todo[p], out[p], after[p], pm)
  <2>1. CASE Stale(p)
    BY <1>1, <2>1, OneProjector, Unmoved DEF Load, Goto, Moves
  <2>2. CASE ~Stale(p)
    BY <1>1, <2>2, Unmoved DEF Load, Goto, Moves
  <2> QED
    BY <2>1, <2>2
<1>4a. l = IF Stale(p) THEN "list" ELSE "insert"
  OBVIOUS
<1> HIDE DEF pm, l
<1>5. /\ pc'[p] = l /\ sid'[p] = s /\ job'[p] = job[p] /\ out'[p] = out[p] /\ mem'[p] = pm
      /\ \A q \in Procs \ {p} : Same(q)
  BY <1>4, MovesOK
<1>5a. base'[p] = LastSeq(s) /\ \A q \in Procs \ {p} : base'[q] = base[q]
  BY <1>2, BaseMoves
<1> HIDE DEF n
<1>6. Cur(p)' = Cur(p) /\ Mine(p)' = pm[s]
  BY <1>5 DEF Cur, Mine
<1>7. base'[p] # None => base'[p] < n
  BY <1>1a, <1>5a
<1>8. \A t \in Sessions : mem'[p][t] = mem[p][t] \/ Whole(p, t)'
  BY <1>2, <1>3, <1>5, EmptyIsWhole
<1>9. JobOK(p)'
  <2>1. CASE Stale(p)
    <3>1. Mine(p)' = Empty /\ pc'[p] = "list"
      BY <1>3, <1>4a, <1>5, <1>6, <2>1
    <3> QED
      BY <1>1, <1>2, <1>5, <1>6, <1>7, <3>1 DEF JobOK, n, Ready
  <2>2. CASE ~Stale(p)
    <3>1. mem'[p][s] = mem[p][s] /\ pc'[p] = "insert"
      BY <1>3, <1>4a, <1>5, <2>2
    <3>2. mem[p][s].last = LastSeq(s)
      BY <1>1, <2>2 DEF Stale, Mine
    <3>3. n # 0 => n - 1 # None
      BY <1>1a, NoneAssumption
    <3>4. Pos(p, s)' = n
      BY <1>1a, <3>1, <3>2, <3>3 DEF Pos
    <3>5. (Pos(p, sid[p]) = Len(events[sid[p]]))'
      BY <1>2, <1>5, <3>4 DEF Pos, n
    <3> QED
      BY <1>1, <1>2, <1>5, <1>6, <1>7, <3>1, <3>5 DEF JobOK, n, Ready
  <2> QED
    BY <2>1, <2>2
<1>10. IdsOK'
  BY <1>2, <1>5, IdsKeep DEF Ready
<1>11. \A t \in Sessions : \A x : ~WillFlush(p, t, x)
  BY <1>2 DEF WillFlush
<1> QED
  BY <1>2, <1>5, <1>5a, <1>8, <1>9, <1>10, <1>11, QuietRows

\* Hydration reads the whole log.
LEMMA ListLatestRows ==
  ASSUME IInv, RowsInv, Fits, NEW p \in Procs, ListLatest(p)
  PROVE  RowsInv'
<1>1. PICK s \in Sessions : s = sid[p]
  BY OperandsOK
<1> DEFINE log == events[s]
           n   == Len(log)
           l   == IF log = <<>> THEN "insert" ELSE "hydrate"
<1>2. /\ n \in Nat /\ DOMAIN log = 1 .. n /\ (log = <<>> <=> n = 0)
  BY LogEnds, EmptyIffNoLength DEF RowsInv, WellLog
<1>3. /\ pc[p] = "list" /\ UNCHANGED <<events, rows, torn, fired, base>> /\ JobOK(p)
      /\ Mine(p) = Empty
  BY DEF ListLatest, RowsInv, db, JobOK
<1>4. Latest(log, HydrateMax) = log
  BY DEF Fits, Latest
<1>5. todo' = [todo EXCEPT ![p] = log]
  BY <1>1, <1>4 DEF ListLatest
<1>6. todo'[p] = log
  BY <1>5, IInvParts DEF LocalOK
<1>7. Moves(p, l, s, job[p], log, out[p], after[p], mem[p])
  BY <1>1, <1>5, <1>6, Unmoved DEF ListLatest, Goto, Moves
<1>8. l = IF n = 0 THEN "insert" ELSE "hydrate"
  BY <1>2
<1> HIDE DEF l
<1>9. /\ pc'[p] = l /\ sid'[p] = s /\ job'[p] = job[p] /\ out'[p] = out[p] /\ mem'[p] = mem[p]
      /\ \A q \in Procs \ {p} : Same(q) /\ base'[q] = base[q]
  BY <1>3, <1>7, MovesOK
<1>10. Cur(p)' = Cur(p) /\ Mine(p)' = Empty /\ mem'[p][s] = Empty
  BY <1>1, <1>3, <1>9 DEF Cur, Mine
<1>11. Pos(p, s)' = 0 /\ At(s, 0)' = Empty
  BY <1>3, <1>10, EmptyIsWhole
<1>12. Pos(p, sid[p])' = 0 /\ At(sid[p], Pos(p, sid[p]))' = Empty
  BY <1>9, <1>11 DEF Pos, At
<1> HIDE DEF n
<1>13. \A i \in DOMAIN log : 0 + i \in DOMAIN log /\ log[i] = log[0 + i]
  BY <1>2
<1>14. JobOK(p)'
  <2>1. CASE n = 0
    BY <1>1, <1>2, <1>3, <1>8, <1>9, <1>10, <1>12, <2>1 DEF JobOK, Ready, n
  <2>2. CASE n # 0
    <3>1. 0 + n = n /\ pc'[p] = "hydrate" /\ todo'[p] = events'[s]
      BY <1>2, <1>3, <1>6, <1>8, <1>9, <2>2
    <3> QED
      BY <1>1, <1>3, <1>9, <1>10, <1>12, <1>13, <3>1 DEF JobOK, Ready, n
  <2> QED
    BY <2>1, <2>2
<1>15. IdsOK'
  BY <1>3, <1>9, IdsKeep DEF Ready
<1>16. \A t \in Sessions : \A x : ~WillFlush(p, t, x)
  BY <1>3 DEF WillFlush
<1> QED
  BY <1>3, <1>9, <1>14, <1>15, <1>16, QuietRows

\* The last event a projector applied is where it stands.
LEMMA HydrateRows ==
  ASSUME IInv, RowsInv, NEW p \in Procs, Hydrate(p)
  PROVE  RowsInv'
<1>1. PICK s \in Sessions : s = sid[p]
  BY OperandsOK
<1>1a. PICK m : m = Pos(p, s)
  OBVIOUS
<1> DEFINE log == events[s]
           n   == Len(log)
           td  == todo[p]
           pr  == Apply(mem[p][s], Head(td)).proj
           pm  == [mem[p] EXCEPT ![s] = pr]
           l   == IF Len(td) = 1 THEN "insert" ELSE "hydrate"
<1>2. /\ n \in Nat /\ DOMAIN log = 1 .. n /\ WellLog(log) /\ ViewOK(p, s) /\ JobOK(p)
  BY LogEnds DEF RowsInv
<1>3. /\ pc[p] = "hydrate" /\ UNCHANGED <<events, rows, torn, fired, base>>
      /\ mem[p][s] = At(s, m)
      /\ \A i \in DOMAIN td : m + i \in DOMAIN log /\ td[i] = log[m + i]
      /\ Cur(p).seq = n => m + Len(td) = n
  BY <1>1, <1>1a, <1>2 DEF Hydrate, db, JobOK, Mine
<1>4. /\ td \in Seq(Event) /\ td # <<>> /\ Len(td) \in Nat \ {0} /\ DOMAIN td = 1 .. Len(td)
      /\ Len(Tail(td)) = Len(td) - 1 /\ Tail(td) \in Seq(Event)
      /\ DOMAIN Tail(td) = 1 .. Len(td) - 1
      /\ \A i \in 1 .. Len(td) - 1 : Tail(td)[i] = td[i + 1]
      /\ Head(td) = td[1]
  <2>1. td \in Seq(Event) /\ td # <<>>
    BY <1>3, OperandsOK DEF Consistent
  <2> HIDE DEF td
  <2> QED
    BY <2>1, HeadTailProperties, LenProperties, EmptyIffNoLength
<1>5. m \in Nat /\ m + 1 \in 1 .. n /\ Head(td) = log[m + 1] /\ log[m + 1].seq = m
  <2>1. 1 \in DOMAIN td
    BY <1>4
  <2>2. m \in Nat
    BY <1>1a, <1>2 DEF ViewOK
  <2> HIDE DEF td
  <2>3. m + 1 \in 1 .. n /\ Head(td) = log[m + 1]
    BY <1>2, <1>3, <1>4, <2>1
  <2> QED
    BY <1>2, <2>2, <2>3 DEF WellLog
<1>6. pr = At(s, m + 1) /\ pr.last = m
  <2>1. Projection(log)[m + 1] = Apply(Projection(log)[(m + 1) - 1], log[m + 1]).proj
    BY <1>2, <1>5, ProjectionStep DEF WellLog
  <2>2. (m + 1) - 1 = m
    BY <1>5
  <2>3. pr.last = Head(td).seq
    BY DEF Apply
  <2> QED
    BY <1>3, <1>5, <2>1, <2>2, <2>3 DEF At
<1>7. \A t \in Sessions : pm[t] = IF t = s THEN pr ELSE mem[p][t]
  BY OneProjector
<1>8. Moves(p, l, s, job[p], Tail(td), out[p], after[p], pm)
  BY <1>1, OneProjector, Unmoved DEF Hydrate, Goto, Moves, Mine
<1>9. l = IF Len(td) = 1 THEN "insert" ELSE "hydrate"
  OBVIOUS
<1> HIDE DEF l, pm, pr
<1>10. /\ pc'[p] = l /\ sid'[p] = s /\ job'[p] = job[p] /\ out'[p] = out[p] /\ mem'[p] = pm
       /\ todo'[p] = Tail(td) /\ \A q \in Procs \ {p} : Same(q) /\ base'[q] = base[q]
  BY <1>3, <1>8, MovesOK
<1>11. Cur(p)' = Cur(p) /\ Mine(p)' = pr /\ mem'[p][s] = pr
  BY <1>7, <1>10 DEF Cur, Mine
<1>12. Pos(p, s)' = m + 1 /\ Pos(p, sid[p])' = m + 1
  <2>1. m # None
    BY <1>5, NoneAssumption
  <2> QED
    BY <1>6, <1>10, <1>11, <2>1 DEF Pos
<1>13. At(s, m + 1)' = pr /\ At(sid[p], Pos(p, sid[p]))' = pr
  BY <1>3, <1>6, <1>10, <1>12 DEF At
<1>14. Whole(p, s)'
  <2>1. ViewOK(p, s)'
    <3>1. m + 1 \in 0 .. n
      BY <1>2, <1>5
    <3>2. Under(pr, pr)
      BY DEF Under
    <3> QED
      BY <1>3, <1>11, <1>12, <1>13, <3>1, <3>2 DEF ViewOK, At
  <2> QED
    BY <1>11, <1>12, <1>13, <2>1 DEF Whole, At
<1>15. \A t \in Sessions : mem'[p][t] = mem[p][t] \/ Whole(p, t)'
  BY <1>7, <1>10, <1>14
<1> HIDE DEF n
<1>16. JobOK(p)'
  <2>1. Cur(p).seq = n => m + Len(td) = n
    BY <1>3
  <2>2. CASE Len(td) = 1
    <3>1. (Cur(p).seq = Len(events[sid[p]]))' => Pos(p, sid[p])' = Len(events'[sid'[p]])
      BY <1>3, <1>10, <1>11, <1>12, <2>1, <2>2 DEF n
    <3> QED
      BY <1>1, <1>2, <1>3, <1>9, <1>10, <1>11, <2>2, <3>1 DEF JobOK, Ready
  <2>3. CASE Len(td) # 1
    <3>1. \A i \in DOMAIN Tail(td) : (m + 1) + i \in DOMAIN log /\ Tail(td)[i] = log[(m + 1) + i]
      <4> SUFFICES ASSUME NEW i \in 1 .. Len(td) - 1
                   PROVE  (m + 1) + i \in DOMAIN log /\ Tail(td)[i] = log[(m + 1) + i]
        BY <1>4
      <4> HIDE DEF td
      <4>1. i + 1 \in DOMAIN td /\ (m + 1) + i = m + (i + 1)
        BY <1>4, <1>5
      <4> QED
        BY <1>3, <1>4, <4>1
    <3>2. Cur(p).seq = n => (m + 1) + Len(Tail(td)) = n
      <4> HIDE DEF td
      <4> QED
        BY <1>4, <1>5, <2>1
    <3> QED
      BY <1>1, <1>2, <1>3, <1>9, <1>10, <1>11, <1>12, <1>13, <2>3, <3>1, <3>2 DEF JobOK, Ready, n
  <2> QED
    BY <2>2, <2>3
<1>17. IdsOK'
  BY <1>3, <1>10, IdsKeep DEF Ready
<1>18. \A t \in Sessions : \A x : ~WillFlush(p, t, x)
  BY <1>3 DEF WillFlush
<1> QED
  BY <1>3, <1>10, <1>15, <1>16, <1>17, <1>18, QuietRows

\* At the end of an append the handle is idle.
LEMMA FinishRows ==
  ASSUME IInv, RowsInv, NEW p \in Procs, pc[p] # "idle", Finish(p),
         UNCHANGED <<events, rows, mem, sid, todo, out, after, fired, torn>>,
         \A t \in Sessions : \A x : ~WillFlush(p, t, x)
  PROVE  RowsInv'
<1>1. JobOK(p) /\ Len(job[p]) = 1
  BY DEF RowsInv, JobOK
<1>2. Moves(p, "idle", sid[p], Tail(job[p]), todo[p], out[p], after[p], mem[p])
  BY <1>1, Unmoved DEF Finish, Goto, Moves
<1>3. /\ pc'[p] = "idle" /\ out'[p] = out[p] /\ mem'[p] = mem[p]
      /\ \A q \in Procs \ {p} : Same(q)
  BY <1>2, MovesOK
<1>4. \A q \in Procs \ {p} : base'[q] = base[q]
  BY BaseMoves DEF Finish
<1>5. JobOK(p)'
  BY <1>3 DEF JobOK, Ready
<1>6. IdsOK'
  BY <1>3, IdsKeep DEF Ready
<1> QED
  BY <1>3, <1>4, <1>5, <1>6, QuietRows

\* After the last expired span: a Stop still has its spans to flush.
LEMMA ExpireDoneRows ==
  ASSUME IInv, RowsInv, NEW p \in Procs, ExpireDone(p)
  PROVE  RowsInv'
<1>1. /\ pc[p] = "expire" /\ JobOK(p)
      /\ UNCHANGED <<events, rows, mem, sid, todo, out, after, fired, torn>>
  BY DEF ExpireDone, db, RowsInv
<1>2. CASE Cur(p).kind = "stop"
  <2>1. Goto(p, "flush") /\ UNCHANGED <<job, base>>
    BY <1>2 DEF ExpireDone
  <2>2. Moves(p, "flush", sid[p], job[p], todo[p], out[p], after[p], mem[p])
    BY <1>1, <2>1, Unmoved DEF Goto, Moves
  <2>3. /\ pc'[p] = "flush" /\ sid'[p] = sid[p] /\ job'[p] = job[p] /\ out'[p] = out[p]
        /\ mem'[p] = mem[p] /\ \A q \in Procs \ {p} : Same(q) /\ base'[q] = base[q]
    BY <2>1, <2>2, MovesOK
  <2>4. JobOK(p)'
    BY <1>1, <2>3 DEF JobOK, Ready, Cur, Named
  <2>5. IdsOK'
    BY <1>1, <2>3, IdsKeep DEF Ready
  <2>6. \A t \in Sessions : \A x : WillFlush(p, t, x) => WillFlush(p, t, x)'
    BY <1>1, <2>3 DEF WillFlush, Cur
  <2> QED
    BY <1>1, <2>3, <2>4, <2>5, <2>6, QuietRows
<1>3. CASE Cur(p).kind # "stop"
  <2>1. \A t \in Sessions : \A x : ~WillFlush(p, t, x)
    BY <1>3 DEF WillFlush
  <2> QED
    BY <1>1, <1>3, <2>1, FinishRows DEF ExpireDone
<1> QED
  BY <1>2, <1>3

\* The Stop is done when its deltas are written.
LEMMA DoneRows ==
  ASSUME IInv, RowsInv, NEW p \in Procs, Done(p)
  PROVE  RowsInv'
<1>1. pc[p] = "done" /\ Finish(p)
      /\ UNCHANGED <<events, rows, mem, sid, todo, out, after, fired, torn>>
  BY DEF Done, db
<1>2. \A t \in Sessions : \A x : ~WillFlush(p, t, x)
  BY <1>1 DEF WillFlush
<1> QED
  BY <1>1, <1>2, FinishRows

\* A handle that is dropped starts again from the empty log.
LEMMA RestartRows ==
  ASSUME IInv, RowsInv, NEW p \in Procs, Restart(p)
  PROVE  RowsInv'
<1> DEFINE pm == [s \in Sessions |-> Empty]
<1>1. pc[p] = "idle" /\ UNCHANGED <<events, rows, fired, base, torn>>
  BY DEF Restart, db
<1>2. Moves(p, "idle", sid[p], job[p], todo[p], out[p], after[p], pm)
  BY <1>1, Unmoved DEF Restart, Moves
<1>3. \A t \in Sessions : pm[t] = Empty
  OBVIOUS
<1> HIDE DEF pm
<1>4. /\ pc'[p] = "idle" /\ out'[p] = out[p] /\ mem'[p] = pm
      /\ \A q \in Procs \ {p} : Same(q) /\ base'[q] = base[q]
  BY <1>1, <1>2, MovesOK
<1>5. \A t \in Sessions : Whole(p, t)'
  BY <1>1, <1>3, <1>4, EmptyIsWhole
<1>6. JobOK(p)'
  BY <1>4 DEF JobOK, Ready
<1>7. IdsOK'
  BY <1>1, <1>4, IdsKeep DEF Ready
<1>8. \A t \in Sessions : \A x : ~WillFlush(p, t, x)
  BY <1>1 DEF WillFlush
<1> QED
  BY <1>1, <1>4, <1>5, <1>6, <1>7, <1>8, QuietRows

\* A process killed before its insert had nothing to write; one killed later
\* leaves its session torn.
LEMMA CrashRows ==
  ASSUME IInv, PathsOK, RowsInv, NEW p \in Procs, Crash(p)
  PROVE  RowsInv'
<1> DEFINE pm == [s \in Sessions |-> Empty]
<1>1. UNCHANGED <<events, rows, fired>> /\ torn \subseteq torn' /\ base' = [base EXCEPT ![p] = None]
      /\ (sid[p] \notin torn' => Ready(p))
  BY DEF Crash, db, Ready
<1>2. Moves(p, "idle", sid[p], <<>>, <<>>, <<>>, after[p], pm)
  BY Unmoved DEF Crash, Goto, Moves
<1>3. \A t \in Sessions : pm[t] = Empty
  OBVIOUS
<1> HIDE DEF pm
<1>4. /\ pc'[p] = "idle" /\ out'[p] = <<>> /\ mem'[p] = pm
      /\ \A q \in Procs \ {p} : Same(q) /\ base'[q] = base[q]
  BY <1>1, <1>2, MovesOK, BaseMoves
<1>5. \A t \in Sessions : Whole(p, t)'
  BY <1>1, <1>3, <1>4, EmptyIsWhole
<1>6. JobOK(p)'
  BY <1>4 DEF JobOK, Ready
<1>7. IdsOK'
  BY <1>1, <1>4, IdsKeep DEF Ready
<1>8. \A t \in Sessions \ torn' : \A x : ~WillFlush(p, t, x) /\ ~OutSpan(out[p], t, x)
  BY <1>1, NoDebt DEF WillFlush, OutSpan, Ready, PathsOK, HandleOK
<1>9. \A t \in Sessions \ torn' : \A x : HasRow(t, x) => HasRow(t, x)'
  BY <1>1, <1>4, <1>8 DEF HasRow, Same
<1>10. \A t \in Sessions : ViewOK(p, t)' /\ Covered(p, t)'
  BY <1>5 DEF Whole, Covered
<1>11. \A t \in Sessions : OutParents(out'[p], t) = {}
  BY <1>4 DEF OutParents
<1> QED
  BY <1>1, <1>4, <1>6, <1>7, <1>8, <1>9, <1>10, <1>11, RowsStep

-----------------------------------------------------------------------------
(* Steps that write rows or emit deltas. *)

\* What persisting a delta does to the rows.
LEMMA PersistRows ==
  ASSUME IInv, NEW s \in Sessions, NEW d, Persist(s, d)
  PROVE  /\ \A t \in Sessions : DOMAIN rows[t] \subseteq DOMAIN rows'[t]
         /\ d.type = "span" => d.id \in DOMAIN rows'[s]
         /\ \A t \in Sessions : \A y \in DOMAIN rows'[t] :
              \/ y \in DOMAIN rows[t] /\ rows'[t][y] = rows[t][y]
              \/ t = s /\ d.type = "span" /\ rows'[t][y] = d.row
<1>1. rows = [t \in Sessions |-> rows[t]]
  BY IInvParts DEF DbOK, RowsOK
<1>2. CASE d.type # "span"
  BY <1>2 DEF Persist
<1>3. CASE d.type = "span"
  <2> DEFINE r == [x \in DOMAIN rows[s] \cup {d.id} |-> IF x = d.id THEN d.row ELSE rows[s][x]]
  <2>1. rows' = [rows EXCEPT ![s] = r]
    BY <1>3 DEF Persist
  <2>2. \A t \in Sessions : rows'[t] = IF t = s THEN r ELSE rows[t]
    BY <1>1, <2>1
  <2>3. /\ DOMAIN r = DOMAIN rows[s] \cup {d.id}
        /\ \A x \in DOMAIN r : r[x] = IF x = d.id THEN d.row ELSE rows[s][x]
    OBVIOUS
  <2> HIDE DEF r
  <2> QED
    BY <1>3, <2>2, <2>3
<1> QED
  BY <1>2, <1>3

\* The delta a handle is about to write and those after it.
LEMMA WriteRows ==
  ASSUME IInv, PathsOK, RowsInv, NEW p \in Procs, Write(p)
  PROVE  RowsInv'
<1> DEFINE ou == out[p]
           hd == Head(ou)
           tl == Tail(ou)
           l  == IF Len(ou) = 1 THEN after[p] ELSE "write"
<1>1. PICK s \in Sessions : s = sid[p]
  BY OperandsOK
<1>2. /\ pc[p] = "write" /\ JobOK(p) /\ HandleOK(p) /\ Persist(hd.session, hd.delta)
      /\ UNCHANGED <<events, sid, job, base, todo, after, mem, fired, torn>>
  BY DEF Write, RowsInv, PathsOK
<1>3. ou \in Seq(OutItem) /\ ou # <<>> /\ after[p] \in {"expire", "done"}
  BY <1>2, OperandsOK DEF Consistent, JobOK
<1>4. Moves(p, l, sid[p], job[p], todo[p], tl, after[p], mem[p])
  BY <1>2, Unmoved DEF Write, Goto, Moves
<1>5. /\ \A i \in DOMAIN ou : ou[i] = hd \/ \E j \in DOMAIN tl : ou[i] = tl[j]
      /\ \A j \in DOMAIN tl : \E i \in DOMAIN ou : tl[j] = ou[i]
      /\ \E i \in DOMAIN ou : hd = ou[i]
  <2> HIDE DEF ou
  <2> QED
    BY <1>3, HeadOrTail
<1>6. l \in {"expire", "done", "write"} /\ (l # "write" => l = after[p])
  BY <1>3
<1> HIDE DEF hd, tl, l
<1>7. /\ pc'[p] = l /\ sid'[p] = sid[p] /\ job'[p] = job[p] /\ out'[p] = tl /\ mem'[p] = mem[p]
      /\ after'[p] = after[p] /\ \A q \in Procs \ {p} : Same(q) /\ base'[q] = base[q]
  BY <1>2, <1>4, MovesOK
<1>8. hd.session = s
  BY <1>1, <1>2, <1>5 DEF HandleOK
<1>9. /\ \A t \in Sessions : DOMAIN rows[t] \subseteq DOMAIN rows'[t]
      /\ hd.delta.type = "span" => hd.delta.id \in DOMAIN rows'[s]
      /\ \A t \in Sessions : \A y \in DOMAIN rows'[t] :
           \/ y \in DOMAIN rows[t] /\ rows'[t][y] = rows[t][y]
           \/ t = s /\ hd.delta.type = "span" /\ rows'[t][y] = hd.delta.row
  BY <1>2, <1>8, PersistRows
<1>10. ASSUME NEW t \in Sessions, NEW x, HasRow(t, x) PROVE HasRow(t, x)'
  <2>1. OutSpan(ou, t, x) => OutSpan(tl, t, x) \/ x \in DOMAIN rows'[t]
    BY <1>5, <1>8, <1>9 DEF OutSpan
  <2>2. CASE x \in DOMAIN rows[t]
    BY <1>9, <2>2 DEF HasRow
  <2>3. ASSUME NEW q \in Procs, OutSpan(out[q], t, x) PROVE HasRow(t, x)'
    <3>1. CASE q = p
      BY <1>7, <2>1, <2>3, <3>1 DEF HasRow
    <3>2. CASE q # p
      BY <1>7, <2>3, <3>2 DEF HasRow, Same
    <3> QED
      BY <3>1, <3>2
  <2> QED
    BY <1>10, <2>2, <2>3 DEF HasRow
<1>11. ASSUME NEW t \in Sessions, t \notin torn', NEW y \in OutParents(ou, t) PROVE Real(t, y)
  BY <1>2, <1>11 DEF RowsInv, SpansOK
<1>12. \A t : OutParents(tl, t) \subseteq OutParents(ou, t)
  BY <1>5 DEF OutParents
<1>13. hd.delta.type = "span" => hd.delta.row.parent \in OutParents(ou, s)
  BY <1>5, <1>8 DEF OutParents
<1>14. ASSUME NEW t \in Sessions, t \notin torn', NEW y \in DOMAIN rows'[t]
       PROVE  Real(t, rows'[t][y].parent) \/ (y \in DOMAIN rows[t] /\ rows'[t][y] = rows[t][y])
  BY <1>9, <1>11, <1>13, <1>14
<1>15. \A t \in Sessions : Pos(p, t)' = Pos(p, t) /\ At(t, Pos(p, t))' = At(t, Pos(p, t))
  BY <1>2, <1>7 DEF Pos, At
<1>16. \A t \in Sessions : ViewOK(p, t)'
  BY <1>2, <1>7, <1>15 DEF RowsInv, ViewOK
<1>17. \A t \in Sessions \ torn' : Covered(p, t)'
  BY <1>2, <1>7, <1>10, <1>15 DEF RowsInv, SpansOK, Covered
<1>18. JobOK(p)'
  BY <1>2, <1>3, <1>6, <1>7 DEF JobOK, Ready, Cur, Named
<1>19. IdsOK'
  BY <1>2, <1>6, <1>7, IdsKeep DEF Ready
<1>20. \A t \in Sessions : \A x : WillFlush(p, t, x) => WillFlush(p, t, x)'
  BY <1>2, <1>6, <1>7 DEF WillFlush, Cur
<1> QED
  BY <1>2, <1>7, <1>10, <1>11, <1>12, <1>14, <1>16, <1>17, <1>18, <1>19, <1>20, RowsStep

\* Closing a span applies no event.
LEMMA CloseLast ==
  ASSUME NEW pr, Good(pr), NEW id \in DOMAIN pr.span
  PROVE  Close(pr, id).proj.last = pr.last
<1> DEFINE d == Detach(pr, id)
           b == pr.span[id]
<1>1. b \in Builder /\ Shape(pr)
  BY GoodIsShape DEF Good, TypeOKProjector
<1>2. Seeded(b) \in Option(Nat)
  BY <1>1, RowOfBuilder
<1>3. Shape(d) /\ d.last = pr.last
  BY <1>1, DetachKeepsShape
<1> HIDE DEF d
<1>4. AddChild(d, b.parent, Seeded(b)).last = d.last
  BY <1>2, <1>3, AddChildKeepsShape
<1> QED
  BY <1>3, <1>4 DEF Close, d

\* A span that expires gets its row, whose parent is another open span.
LEMMA ExpireOneRows ==
  ASSUME IInv, RowsInv, NEW p \in Procs, NEW s \in Sessions, NEW x \in DOMAIN mem[p][s].span,
         ExpireOne(p, s, x)
  PROVE  RowsInv'
<1> DEFINE pr == mem[p][s]
           c  == Close(pr, x)
           u  == c.proj
           d  == SpanClosed(x, pr.span[x])
           pm == [mem[p] EXCEPT ![s] = u]
<1>1. Good(pr) /\ ViewOK(p, s) /\ JobOK(p)
  BY IInvParts DEF MemOK, RowsInv
<1>2. Head(c.deltas) = d
  BY DEF Close
<1>3. /\ pc[p] = "expire" /\ SetProjector(p, s, u) /\ Persist(s, d)
      /\ UNCHANGED <<events, pc, sid, job, base, todo, out, after, fired, torn>>
  BY <1>2 DEF ExpireOne
<1>4. /\ Under(u, At(s, Pos(p, s))) /\ DOMAIN u.span = DOMAIN pr.span \ {x} /\ u.last = pr.last
  BY <1>1, UnderClose, CloseLast DEF ViewOK
<1>5. d.type = "span" /\ d.id = x /\ d.row.parent = pr.span[x].parent
  BY DEF SpanClosed, RowOf
<1>6. pr.span[x].parent \in Option(DOMAIN pr.span \ {x})
  BY <1>1, GoodIsShape, ParentIsOpen
<1> HIDE DEF d, u, c
<1>7. Moves(p, pc[p], sid[p], job[p], todo[p], out[p], after[p], pm)
      /\ \A t \in Sessions : pm[t] = IF t = s THEN u ELSE mem[p][t]
  BY <1>3, OneProjector, Unmoved DEF Moves
<1> HIDE DEF pm
<1>8. /\ pc'[p] = pc[p] /\ sid'[p] = sid[p] /\ job'[p] = job[p] /\ out'[p] = out[p] /\ mem'[p] = pm
      /\ after'[p] = after[p] /\ \A q \in Procs \ {p} : Same(q) /\ base'[q] = base[q]
  BY <1>3, <1>7, MovesOK
<1>9. /\ \A t \in Sessions : DOMAIN rows[t] \subseteq DOMAIN rows'[t]
      /\ x \in DOMAIN rows'[s]
      /\ \A t \in Sessions : \A y \in DOMAIN rows'[t] :
           \/ y \in DOMAIN rows[t] /\ rows'[t][y] = rows[t][y]
           \/ t = s /\ rows'[t][y].parent = pr.span[x].parent
  BY <1>3, <1>5, PersistRows
<1>10. \A t \in Sessions : \A y : HasRow(t, y) => HasRow(t, y)'
  BY <1>3, <1>9 DEF HasRow
<1>11. s \notin torn => Real(s, pr.span[x].parent)
  <2>1. CASE pr.span[x].parent = None
    BY <2>1 DEF Real
  <2>2. CASE pr.span[x].parent \in DOMAIN pr.span
    BY <2>2, OpenIsReal
  <2> QED
    BY <1>6, <2>1, <2>2 DEF Option
<1>12. ASSUME NEW t \in Sessions, t \notin torn', NEW y \in DOMAIN rows'[t]
       PROVE  Real(t, rows'[t][y].parent) \/ (y \in DOMAIN rows[t] /\ rows'[t][y] = rows[t][y])
  BY <1>3, <1>9, <1>11, <1>12
<1>13. \A t \in Sessions : /\ Pos(p, t)' = Pos(p, t) /\ At(t, Pos(p, t))' = At(t, Pos(p, t))
                           /\ Under(mem'[p][t], At(t, Pos(p, t)))
                           /\ \A y \in DOMAIN mem[p][t].span \ DOMAIN mem'[p][t].span : t = s /\ y = x
  <2> TAKE t \in Sessions
  <2>1. mem'[p][t].last = mem[p][t].last
    BY <1>4, <1>7, <1>8
  <2>2. Pos(p, t)' = Pos(p, t) /\ At(t, Pos(p, t))' = At(t, Pos(p, t))
    BY <1>3, <2>1 DEF Pos, At
  <2>3. Under(mem[p][t], At(t, Pos(p, t)))
    BY DEF RowsInv, ViewOK
  <2> QED
    BY <1>4, <1>7, <1>8, <2>2, <2>3
<1>14. \A t \in Sessions : ViewOK(p, t)'
  BY <1>3, <1>13 DEF RowsInv, ViewOK
<1>15. ASSUME NEW t \in Sessions, t \notin torn' PROVE Covered(p, t)'
  <2>1. Covered(p, t)
    BY <1>3, <1>15 DEF RowsInv, SpansOK
  <2> SUFFICES ASSUME NEW y \in DOMAIN At(t, Pos(p, t)).span, y \notin DOMAIN mem'[p][t].span
               PROVE  HasRow(t, y)'
    BY <1>13 DEF Covered
  <2>2. CASE y \in DOMAIN mem[p][t].span
    BY <1>9, <1>13, <2>2 DEF HasRow
  <2>3. CASE y \notin DOMAIN mem[p][t].span
    BY <1>10, <2>1, <2>3 DEF Covered
  <2> QED
    BY <2>2, <2>3
<1>16. JobOK(p)'
  BY <1>1, <1>3, <1>8 DEF JobOK, Ready, Cur, Named
<1>17. IdsOK'
  BY <1>3, <1>8, IdsKeep DEF Ready
<1>18. ASSUME NEW t \in Sessions, NEW y, WillFlush(p, t, y) PROVE HasRow(t, y)' \/ WillFlush(p, t, y)'
  <2>1. CASE y \in DOMAIN mem'[p][t].span
    BY <1>3, <1>18, <2>1 DEF WillFlush, Cur
  <2>2. CASE y \notin DOMAIN mem'[p][t].span
    BY <1>9, <1>13, <1>18, <2>2 DEF WillFlush, HasRow
  <2> QED
    BY <2>1, <2>2
<1>19. \A t \in Sessions \ torn' : \A y \in OutParents(out'[p], t) : Real(t, y)
  BY <1>3 DEF RowsInv, SpansOK
<1> QED
  BY <1>3, <1>8, <1>10, <1>12, <1>14, <1>15, <1>16, <1>17, <1>18, <1>19, RowsStep

\* A flush emits the row of every open span and forgets the span.
LEMMA FlushEffect ==
  ASSUME NEW pr, Good(pr)
  PROVE  /\ DOMAIN FlushSession(pr).proj.span = {} /\ FlushSession(pr).proj.last = pr.last
         /\ \A x \in DOMAIN pr.span : Emits(FlushSession(pr).deltas, x)
         /\ ParentsIn(FlushSession(pr).deltas, Option(DOMAIN pr.span))
<1> DEFINE n  == Len(pr.order)
           ds == FlushSession(pr).deltas
           up(i) == pr.order[n + 1 - i]
<1>1. /\ Shape(pr) /\ n \in Nat
      /\ \A x \in DOMAIN pr.span : \E i \in 1 .. n : pr.order[i] = x
      /\ \A i \in 1 .. n : pr.order[i] \in DOMAIN pr.span
  BY GoodIsShape, StackFacts
<1>2. FlushSession(pr).proj = [order |-> <<>>, span |-> [x \in {} |-> None],
                               seen |-> pr.seen, last |-> pr.last]
  BY DEF FlushSession, Good, TypeOKProjector
<1>3. ds = [i \in 1 .. n |-> SpanClosed(up(i), pr.span[up(i)])]
  BY DEF FlushSession
<1>4. \A i \in 1 .. n : n + 1 - i \in 1 .. n
  BY <1>1
<1>5. \A i \in 1 .. n : up(i) \in DOMAIN pr.span
  BY <1>1, <1>4
<1>6. ASSUME NEW x \in DOMAIN pr.span PROVE Emits(ds, x)
  <2>1. PICK k \in 1 .. n : pr.order[k] = x
    BY <1>1
  <2>2. n + 1 - k \in 1 .. n /\ up(n + 1 - k) = x
    BY <1>1, <2>1
  <2> HIDE DEF up, ds
  <2>3. n + 1 - k \in DOMAIN ds /\ ds[n + 1 - k] = SpanClosed(x, pr.span[x])
    BY <1>3, <2>2
  <2> QED
    BY <2>3 DEF Emits, SpanClosed
<1>7. ParentsIn(ds, Option(DOMAIN pr.span))
  <2> SUFFICES ASSUME NEW i \in 1 .. n PROVE ds[i].row.parent \in Option(DOMAIN pr.span)
    BY <1>3 DEF ParentsIn
  <2> HIDE DEF up, ds
  <2>0. ds[i] = SpanClosed(up(i), pr.span[up(i)])
    BY <1>3
  <2>1. ds[i].row.parent = pr.span[up(i)].parent
    BY <2>0 DEF SpanClosed, RowOf
  <2>2. up(i) \in DOMAIN pr.span
    BY <1>5
  <2>3. pr.span[up(i)].parent \in Option(DOMAIN pr.span \ {up(i)})
    BY <1>1, <2>2, ParentIsOpen
  <2> QED
    BY <2>1, <2>3 DEF Option
<1> QED
  BY <1>2, <1>6, <1>7

\* Deltas tagged with their session.
LEMMA TaggedSpans ==
  ASSUME NEW s, NEW deltas, NEW S, ParentsIn(deltas, S)
  PROVE  /\ \A t, x : OutSpan(Tagged(s, deltas), t, x) <=> t = s /\ Emits(deltas, x)
         /\ \A t : OutParents(Tagged(s, deltas), t) \subseteq S
         /\ \A t : t # s => OutParents(Tagged(s, deltas), t) = {}
<1> DEFINE ou == Tagged(s, deltas)
<1>1. DOMAIN ou = DOMAIN deltas
      /\ \A i \in DOMAIN deltas : ou[i].session = s /\ ou[i].delta = deltas[i]
  BY DEF Tagged
<1> HIDE DEF ou
<1> QED
  BY <1>1 DEF OutSpan, OutParents, Emits, ParentsIn, ou

\* After a Stop every span that the handle has open is about to get its row.
LEMMA FlushRows ==
  ASSUME IInv, PathsOK, RowsInv, NEW p \in Procs, Flush(p)
  PROVE  RowsInv'
<1>1. PICK s \in Sessions : s = sid[p]
  BY OperandsOK
<1> DEFINE pr == mem[p][s]
           ds == FlushSession(pr).deltas
           u  == FlushSession(pr).proj
           pm == [mem[p] EXCEPT ![s] = u]
           l  == IF ds = <<>> THEN "done" ELSE "write"
<1>2. Good(pr) /\ ViewOK(p, s) /\ JobOK(p)
  BY IInvParts DEF MemOK, RowsInv
<1>3. /\ pc[p] = "flush" /\ UNCHANGED <<events, rows, sid, job, base, todo, fired, torn>>
      /\ SetProjector(p, s, u) /\ Emit(p, ds, "done")
  BY <1>1 DEF Flush, Mine, db
<1>4. out[p] = <<>>
  BY <1>3, NoDebt DEF PathsOK
<1>5. /\ DOMAIN u.span = {} /\ u.last = pr.last /\ \A x \in DOMAIN pr.span : Emits(ds, x)
      /\ ParentsIn(ds, Option(DOMAIN pr.span))
  BY <1>2, FlushEffect
<1> HIDE DEF ds, u
<1>6. l \in {"done", "write"}
  OBVIOUS
<1>7. Moves(p, l, sid[p], job[p], todo[p], Tagged(s, ds), "done", pm)
      /\ \A t \in Sessions : pm[t] = IF t = s THEN u ELSE mem[p][t]
  BY <1>1, <1>3, OneProjector, Unmoved DEF Moves, Emit, Goto
<1> HIDE DEF pm, l
<1>8. /\ pc'[p] = l /\ sid'[p] = sid[p] /\ job'[p] = job[p] /\ out'[p] = Tagged(s, ds)
      /\ mem'[p] = pm /\ after'[p] = "done" /\ \A q \in Procs \ {p} : Same(q) /\ base'[q] = base[q]
  BY <1>3, <1>7, MovesOK
<1>9. /\ \A t, x : OutSpan(out'[p], t, x) <=> t = s /\ Emits(ds, x)
      /\ \A t : OutParents(out'[p], t) \subseteq Option(DOMAIN pr.span)
      /\ \A t : t # s => OutParents(out'[p], t) = {}
  BY <1>5, <1>8, TaggedSpans
<1>10. ASSUME NEW t \in Sessions, NEW y, HasRow(t, y) PROVE HasRow(t, y)'
  <2>1. \A q \in Procs : OutSpan(out[q], t, y) => q # p
    BY <1>4 DEF OutSpan
  <2> QED
    BY <1>3, <1>8, <1>10, <2>1 DEF HasRow, Same
<1>11. \A y \in DOMAIN pr.span : HasRow(s, y)'
  BY <1>5, <1>9 DEF HasRow
<1>12. ASSUME NEW t \in Sessions, t \notin torn', NEW y \in OutParents(out'[p], t) PROVE Real(t, y)
  <2>1. t = s /\ y \in Option(DOMAIN pr.span) /\ s \notin torn
    BY <1>3, <1>9, <1>12
  <2>2. CASE y = None
    BY <2>2 DEF Real
  <2>3. CASE y \in DOMAIN pr.span
    BY <2>1, <2>3, OpenIsReal
  <2> QED
    BY <2>1, <2>2, <2>3 DEF Option
<1>13. \A t \in Sessions : /\ Pos(p, t)' = Pos(p, t) /\ At(t, Pos(p, t))' = At(t, Pos(p, t))
                           /\ Under(mem'[p][t], At(t, Pos(p, t)))
                           /\ \A y \in DOMAIN mem[p][t].span \ DOMAIN mem'[p][t].span : t = s
  <2> TAKE t \in Sessions
  <2>1. mem'[p][t].last = mem[p][t].last
    BY <1>5, <1>7, <1>8
  <2>2. Pos(p, t)' = Pos(p, t) /\ At(t, Pos(p, t))' = At(t, Pos(p, t))
    BY <1>3, <2>1 DEF Pos, At
  <2>3. Under(mem[p][t], At(t, Pos(p, t)))
    BY DEF RowsInv, ViewOK
  <2>4. Under(u, At(s, Pos(p, s)))
    BY <1>5, NothingUnder
  <2> QED
    BY <1>7, <1>8, <2>2, <2>3, <2>4
<1>14. \A t \in Sessions : ViewOK(p, t)'
  BY <1>3, <1>13 DEF RowsInv, ViewOK
<1>15. ASSUME NEW t \in Sessions, t \notin torn' PROVE Covered(p, t)'
  <2>1. Covered(p, t)
    BY <1>3, <1>15 DEF RowsInv, SpansOK
  <2> SUFFICES ASSUME NEW y \in DOMAIN At(t, Pos(p, t)).span, y \notin DOMAIN mem'[p][t].span
               PROVE  HasRow(t, y)'
    BY <1>13 DEF Covered
  <2>2. CASE y \in DOMAIN mem[p][t].span
    BY <1>11, <1>13, <2>2
  <2>3. CASE y \notin DOMAIN mem[p][t].span
    BY <1>10, <2>1, <2>3 DEF Covered
  <2> QED
    BY <2>2, <2>3
<1>16. JobOK(p)'
  BY <1>2, <1>3, <1>6, <1>8 DEF JobOK, Ready, Cur, Named
<1>17. IdsOK'
  BY <1>3, <1>6, <1>8, IdsKeep DEF Ready
<1>18. \A t \in Sessions : \A y : WillFlush(p, t, y) => HasRow(t, y)'
  BY <1>1, <1>11 DEF WillFlush
<1>19. \A t \in Sessions : rows'[t] = rows[t]
  BY <1>3
<1> QED
  BY <1>3, <1>8, <1>10, <1>12, <1>14, <1>15, <1>16, <1>17, <1>18, <1>19, RowsStep

-----------------------------------------------------------------------------
(* The step that stores an event. *)

\* An event newer than the whole log is inserted at its end.
LEMMA InsertedAtEnd ==
  ASSUME NEW log \in Seq(Event), NEW e \in Event, \A i \in DOMAIN log : log[i].seq < e.seq
  PROVE  Inserted(log, e) = Append(log, e)
<1> DEFINE n == Len(log)
           S == {0} \cup {i \in DOMAIN log : log[i].seq < e.seq}
           k == Max(S)
<1>1. n \in Nat /\ DOMAIN log = 1 .. n
  BY LenProperties
<1>2. S \subseteq 0 .. n /\ n \in S /\ S # {}
  BY <1>1
<1>3. k \in 0 .. n /\ n <= k
  <2> HIDE DEF S
  <2> QED
    BY <1>1, <1>2, MaxOfBounded
<1>4. k = n
  <2> HIDE DEF k, n
  <2> QED
    BY <1>1, <1>3
<1>5. Inserted(log, e) = SubSeq(log, 1, k) \o <<e>> \o SubSeq(log, k + 1, n)
  BY DEF Inserted
<1> HIDE DEF k
<1>6. SubSeq(log, 1, n) = log
  BY SubSeqFull
<1>7. SubSeq(log, n + 1, n) = <<>>
  BY <1>1, SubSeqEmpty
<1>8. <<e>> \in Seq(Event) /\ log \o <<e>> \in Seq(Event)
  BY ConcatProperties
<1>9. log \o <<e>> \o <<>> = log \o <<e>>
  BY <1>8, ConcatEmptySeq
<1> QED
  BY <1>4, <1>5, <1>6, <1>7, <1>9, AppendIsConcat

\* Handle p stores event e of session s, which is the next one.
Stores(p, s, e) ==
  /\ pc[p] = "insert" /\ s = sid[p] /\ e = Cur(p) /\ e.seq = Len(events[s])
  /\ Pos(p, s) = Len(events[s])
  /\ events' = [events EXCEPT ![s] = Append(events[s], e)]
  /\ SetProjector(p, s, Apply(mem[p][s], e).proj)
  /\ Emit(p, Apply(mem[p][s], e).deltas, "expire")
  /\ base' = [base EXCEPT ![p] = None]
  /\ UNCHANGED <<rows, sid, job, todo, fired, torn>>

\* An event is stored only as the next one of its session.
LEMMA InsertStores ==
  ASSUME IInv, RowsInv, NEW p \in Procs, Insert(p), NEW s, s = sid[p], NEW e, e = Cur(p),
         ~\E i \in DOMAIN events[s] : events[s][i].seq = e.seq
  PROVE  Stores(p, s, e)
<1> DEFINE log == events[s]
           n   == Len(log)
<1>1. /\ pc[p] = "insert" /\ s \in Sessions /\ e \in Event /\ JobOK(p) /\ base[p] \in Option(Nat)
  BY OperandsOK DEF Insert, RowsInv, Consistent
<1>2. log \in Seq(Event) /\ n \in Nat /\ DOMAIN log = 1 .. n /\ \A i \in 1 .. n : log[i].seq = i - 1
  BY <1>1, LogEnds DEF RowsInv, WellLog
<1>3. e.seq \in Nat /\ e.seq <= n
  BY <1>1 DEF Event, JobOK, Ready
<1>4. e.seq = n
  <2> SUFFICES ASSUME e.seq < n PROVE FALSE
    <3> HIDE DEF n
    <3> QED
      BY <1>2, <1>3
  <2> HIDE DEF n
  <2>1. e.seq + 1 \in 1 .. n /\ (e.seq + 1) - 1 = e.seq
    BY <1>2, <1>3
  <2> HIDE DEF log
  <2>2. log[e.seq + 1].seq = e.seq
    BY <1>2, <2>1
  <2> QED
    BY <1>2, <2>1, <2>2 DEF log
<1>5. ~(base[p] # None /\ e.seq <= base[p])
  <2> SUFFICES ASSUME base[p] # None, n <= base[p] PROVE FALSE
    BY <1>4
  <2>1. base[p] < n /\ base[p] \in Nat
    BY <1>1 DEF JobOK, Option
  <2> HIDE DEF n
  <2> QED
    BY <1>2, <2>1
<1>6. Pos(p, s) = n
  BY <1>1, <1>4 DEF JobOK
<1>7. Inserted(log, e) = Append(log, e)
  <2>1. \A i \in DOMAIN log : log[i].seq < e.seq
    <3> HIDE DEF n
    <3> QED
      BY <1>2, <1>4
  <2> QED
    BY <1>1, <1>2, <2>1, InsertedAtEnd
<1>8. /\ events' = [events EXCEPT ![s] = Inserted(log, e)]
      /\ SetProjector(p, s, Apply(mem[p][s], e).proj)
      /\ Emit(p, Apply(mem[p][s], e).deltas, "expire")
      /\ base' = [base EXCEPT ![p] = None]
      /\ UNCHANGED <<rows, sid, job, todo, fired, torn>>
  BY <1>5 DEF Insert, Mine
<1> QED
  BY <1>1, <1>4, <1>6, <1>7, <1>8 DEF Stores

\* The log that this leaves, and its replay.
LEMMA StoresLog ==
  ASSUME IInv, RowsInv, NEW p \in Procs, NEW s, NEW e, Stores(p, s, e)
  PROVE  /\ s \in Sessions /\ e \in Event /\ Named(e) /\ Len(events[s]) \in Nat
         /\ \A t \in Sessions : events'[t] = IF t = s THEN Append(events[s], e) ELSE events[t]
         /\ Len(events'[s]) = Len(events[s]) + 1 /\ events'[s][Len(events[s]) + 1] = e
         /\ \A i \in 1 .. Len(events[s]) : events'[s][i] = events[s][i]
         /\ WellLog(events'[s])
         /\ Opens(e) => e.id \notin DOMAIN At(s, Len(events[s])).span
         /\ Good(At(s, Len(events[s])))
         /\ Projection(events'[s])[Len(events[s]) + 1] = Apply(At(s, Len(events[s])), e).proj
<1> DEFINE log == events[s]
           n   == Len(log)
           new == Append(log, e)
<1>1. s \in Sessions /\ e \in Event /\ JobOK(p) /\ pc[p] = "insert" /\ e.seq = n /\ e = Cur(p)
  BY OperandsOK DEF Stores, RowsInv
<1>2. WellLog(log) /\ n \in Nat /\ DOMAIN log = 1 .. n
  BY <1>1, LogEnds DEF RowsInv
<1>3. \A t \in Sessions : events'[t] = IF t = s THEN new ELSE events[t]
  BY <1>1, IInvParts DEF Stores, DbOK
<1>4. /\ new \in Seq(Event) /\ Len(new) = n + 1 /\ new[n + 1] = e
      /\ \A i \in 1 .. n : new[i] = log[i]
  BY <1>1, <1>2, AppendProperties DEF WellLog
<1> HIDE DEF new
<1>5. Named(e)
  BY <1>1 DEF JobOK
<1>6. Opens(e) => \A i \in 1 .. n : Opens(log[i]) => log[i].id # e.id
  <2> SUFFICES ASSUME Opens(e), NEW i \in 1 .. n, Opens(log[i]) PROVE log[i].id # e.id
    OBVIOUS
  <2>1. Pending(p)
    BY <1>1 DEF Pending, Ready
  <2> QED
    BY <1>1, <1>2, <2>1 DEF RowsInv, IdsOK
<1> HIDE DEF n
<1>7. \A i \in 1 .. n + 1 : i = n + 1 \/ i \in 1 .. n
  BY <1>2
<1>8. WellLog(new)
  <2>1. ASSUME NEW i \in 1 .. n + 1 PROVE new[i].seq = i - 1 /\ Named(new[i])
    <3>1. CASE i = n + 1
      BY <1>1, <1>2, <1>4, <1>5, <3>1
    <3>2. CASE i \in 1 .. n
      BY <1>2, <1>4, <3>2 DEF WellLog, n
    <3> QED
      BY <1>7, <3>1, <3>2
  <2>2. ASSUME NEW i \in 1 .. n + 1, NEW j \in 1 .. n + 1, Opens(new[i]), Opens(new[j]),
               new[i].id = new[j].id
        PROVE  i = j
    <3>1. CASE i \in 1 .. n /\ j \in 1 .. n
      BY <1>2, <1>4, <2>2, <3>1 DEF WellLog, n
    <3>2. CASE i = n + 1 /\ j \in 1 .. n
      BY <1>4, <1>6, <2>2, <3>2
    <3>3. CASE j = n + 1 /\ i \in 1 .. n
      BY <1>4, <1>6, <2>2, <3>3
    <3> QED
      BY <1>7, <3>1, <3>2, <3>3
  <2> QED
    BY <1>4, <2>1, <2>2 DEF WellLog
<1>9. n \in 0 .. n /\ n + 1 \in 1 .. n + 1 /\ (n + 1) - 1 = n
  BY <1>2
<1>10. /\ Projection(new)[n + 1] = Apply(Projection(new)[n], e).proj
       /\ Good(Projection(new)[n])
       /\ Opens(e) => e.id \notin DOMAIN Projection(new)[n].span
  BY <1>4, <1>8, <1>9, OpenersAreFresh
<1>11. Projection(new)[n] = At(s, n)
  BY <1>1, <1>2, <1>9, ReplayGoesOn DEF At, new, n, WellLog
<1> QED
  BY <1>1, <1>2, <1>3, <1>4, <1>5, <1>8, <1>10, <1>11 DEF n, new

\* What the replay had before is what it has.
LEMMA StoresAt ==
  ASSUME IInv, RowsInv, NEW p \in Procs, NEW s, NEW e, Stores(p, s, e), NEW t \in Sessions,
         NEW k \in 0 .. Len(events[t])
  PROVE  At(t, k)' = At(t, k)
<1>1. events'[t] = IF t = s THEN Append(events[s], e) ELSE events[t]
  BY StoresLog
<1>2. events[t] \in Seq(Event) /\ e \in Event
  BY StoresLog DEF RowsInv, WellLog
<1>3. CASE t = s
  BY <1>1, <1>2, <1>3, ReplayGoesOn DEF At
<1>4. CASE t # s
  BY <1>1, <1>4 DEF At
<1> QED
  BY <1>3, <1>4

\* Its opener is now stored and no longer about to be.
LEMMA StoresIds ==
  ASSUME IInv, RowsInv, NEW p \in Procs, NEW s, NEW e, Stores(p, s, e)
  PROVE  IdsOK'
<1> DEFINE n == Len(events[s])
<1>0. pc[p] = "insert" /\ e = Cur(p) /\ fired' = fired
  BY DEF Stores
<1>1. /\ s \in Sessions /\ n \in Nat
      /\ \A t \in Sessions : t # s => events'[t] = events[t]
      /\ Len(events'[s]) = n + 1 /\ events'[s][n + 1] = e /\ WellLog(events'[s])
      /\ \A i \in 1 .. n : events'[s][i] = events[s][i]
  BY StoresLog
<1>1a. DOMAIN events[s] = 1 .. n /\ IdsOK
  BY <1>1, LogEnds DEF RowsInv
<1>2. DOMAIN events'[s] = 1 .. n + 1
  BY <1>1, LenProperties DEF WellLog
<1> HIDE DEF n
<1>3. \A i \in 1 .. n + 1 : i = n + 1 \/ i \in 1 .. n
  BY <1>1
<1>4. \A t \in Sessions : \A i \in DOMAIN events'[t] :
        \/ i \in DOMAIN events[t] /\ events'[t][i] = events[t][i]
        \/ events'[t][i] = e
  BY <1>1, <1>1a, <1>2, <1>3
<1>5. FiredIds' = FiredIds
  BY <1>0 DEF FiredIds
<1>6. Opens(e) => Pending(p)
  BY <1>0 DEF Pending, Ready
<1>7. pc' = [pc EXCEPT ![p] = pc'[p]] /\ pc'[p] \in {"expire", "write"} /\ job' = job
  BY IInvParts DEF Stores, Emit, Goto, LocalOK
<1>8. \A q \in Procs : Pending(q)' => Pending(q) /\ q # p /\ Cur(q)' = Cur(q)
  BY <1>7, IInvParts DEF Pending, Ready, Cur, LocalOK
<1> QED
  BY <1>0, <1>1, <1>1a, <1>4, <1>5, <1>6, <1>8 DEF IdsOK

\* The other handles are no longer about to store the next event.
LEMMA StoresJobs ==
  ASSUME IInv, RowsInv, NEW p \in Procs, NEW s, NEW e, Stores(p, s, e), NEW q \in Procs,
         Same(q), base'[q] = base[q]
  PROVE  JobOK(q)'
<1>1. PICK t \in Sessions : t = sid[q]
  BY OperandsOK
<1>2. PICK m : m = Pos(q, t)
  OBVIOUS
<1> DEFINE n == Len(events[t])
           k == Len(events'[t])
<1>3. /\ WellLog(events[t]) /\ n \in Nat /\ DOMAIN events[t] = 1 .. n /\ m \in 0 .. n
      /\ JobOK(q)
  BY <1>2, LogEnds DEF RowsInv, ViewOK
<1>4. /\ At(t, m)' = At(t, m)
      /\ k = n \/ (k = n + 1 /\ t = s)
      /\ k = n => events'[t] = events[t]
      /\ \A i \in 1 .. n : events'[t][i] = events[t][i]
      /\ DOMAIN events'[t] = 1 .. k /\ k \in Nat
  <2>1. At(t, m)' = At(t, m)
    BY <1>3, StoresAt
  <2>2. CASE t = s
    <3>1. /\ k = n + 1 /\ \A i \in 1 .. n : events'[t][i] = events[t][i]
          /\ WellLog(events'[t])
      BY <2>2, StoresLog
    <3>2. DOMAIN events'[t] = 1 .. k /\ k \in Nat
      BY <3>1, LenProperties DEF WellLog
    <3> HIDE DEF n, k
    <3> QED
      BY <1>3, <2>1, <2>2, <3>1, <3>2
  <2>3. CASE t # s
    <3>1. events'[t] = events[t]
      BY <2>3, StoresLog
    <3> QED
      BY <1>3, <2>1, <3>1
  <2> QED
    BY <2>2, <2>3
<1> HIDE DEF n, k
<1>5. /\ pc'[q] = pc[q] /\ sid'[q] = t /\ job'[q] = job[q] /\ todo'[q] = todo[q]
      /\ after'[q] = after[q] /\ Cur(q)' = Cur(q) /\ Mine(q)' = Mine(q) /\ Mine(q) = mem[q][t]
      /\ Ready(q)' = Ready(q)
  BY <1>1 DEF Same, Cur, Mine, Ready
<1>6. Pos(q, sid[q]) = m /\ Pos(q, sid[q])' = m
  BY <1>1, <1>2, <1>5 DEF Pos, Same
<1>7. At(sid[q], Pos(q, sid[q]))' = At(t, m) /\ At(sid[q], Pos(q, sid[q])) = At(t, m)
  BY <1>1, <1>4, <1>5, <1>6 DEF At
<1>8. Ready(q) => Cur(q).seq \in Nat /\ Cur(q).seq <= n
  <2>1. Ready(q) => Cur(q) \in Event
    BY OperandsOK DEF Ready
  <2> QED
    BY <1>1, <1>3, <2>1 DEF Event, JobOK, n
<1>9. /\ Ready(q) => Cur(q).seq <= k
      /\ pc[q] \in {"list", "hydrate", "insert"} /\ base[q] # None => base[q] < k
      /\ Ready(q) /\ Cur(q).seq = k => k = n
  <2>1. pc[q] \in {"list", "hydrate", "insert"} /\ base[q] # None => base[q] < n /\ base[q] \in Nat
    <3>1. base[q] \in Option(Nat)
      BY OperandsOK DEF Consistent
    <3> QED
      BY <1>1, <1>3, <3>1 DEF JobOK, Option, n
  <2> QED
    BY <1>3, <1>4, <1>8, <2>1
<1>10. pc[q] = "hydrate" =>
         /\ mem[q][t] = At(t, m)
         /\ \A i \in DOMAIN todo[q] : m + i \in DOMAIN events'[t] /\ todo[q][i] = events'[t][m + i]
         /\ Cur(q).seq = k => m + Len(todo[q]) = k
  <2> SUFFICES ASSUME pc[q] = "hydrate"
               PROVE  /\ mem[q][t] = At(t, m)
                      /\ \A i \in DOMAIN todo[q] : /\ m + i \in DOMAIN events'[t]
                                                   /\ todo[q][i] = events'[t][m + i]
                      /\ Cur(q).seq = k => m + Len(todo[q]) = k
    OBVIOUS
  <2>1. /\ mem[q][t] = At(t, m)
        /\ \A i \in DOMAIN todo[q] : m + i \in DOMAIN events[t] /\ todo[q][i] = events[t][m + i]
        /\ Cur(q).seq = n => m + Len(todo[q]) = n
    BY <1>1, <1>3, <1>5, <1>6, <1>7 DEF JobOK, n
  <2>2. 1 .. n \subseteq 1 .. k
    BY <1>3, <1>4
  <2> QED
    BY <1>3, <1>4, <1>9, <2>1, <2>2 DEF Ready
<1>11. pc[q] = "insert" /\ Cur(q).seq = k => m = k
  BY <1>1, <1>3, <1>6, <1>9 DEF JobOK, Ready, n
<1> QED
  BY <1>1, <1>3, <1>5, <1>6, <1>7, <1>9, <1>10, <1>11 DEF JobOK, k

\* What the storing of event e of session s by handle p does to its handle,
\* which has u open after it, and to the replay, which had b and has v.
Stored(p, s, e, n, u, b, v) ==
  /\ \A q \in Procs \ {p} : Same(q) /\ base'[q] = base[q]
  /\ pc'[p] \in {"expire", "write"} /\ after'[p] = "expire"
  /\ \A t \in Sessions : t # s => mem'[p][t] = mem[p][t] /\ OutParents(out'[p], t) = {}
  /\ Pos(p, s)' = n + 1 /\ At(s, n + 1)' = v
  /\ Under(u, v)
  /\ \A t \in Sessions : \A x : HasRow(t, x) => HasRow(t, x)'
  /\ s \notin torn => /\ \A x \in DOMAIN v.span \ DOMAIN u.span : HasRow(s, x)'
                      /\ \A x \in DOMAIN b.span \ DOMAIN v.span : HasRow(s, x)'
                      /\ e.kind = "stop" =>
                           \A x \in DOMAIN b.span : HasRow(s, x)' \/ x \in DOMAIN u.span
  /\ OutParents(out'[p], s) \subseteq Option(DOMAIN u.span)

\* A span that the event closes in the replay has its row, or its handle is
\* about to write it.
LEMMA StoresMem ==
  ASSUME IInv, PathsOK, RowsInv, NEW p \in Procs, NEW s, NEW e, Stores(p, s, e),
         NEW n, n = Len(events[s]), NEW u, u = mem'[p][s], NEW b, b = At(s, n),
         NEW v, v = Apply(b, e).proj
  PROVE  Stored(p, s, e, n, u, b, v)
<1> DEFINE a   == mem[p][s]
           res == Apply(a, e)
           pm  == [mem[p] EXCEPT ![s] = res.proj]
           l   == IF res.deltas = <<>> THEN "expire" ELSE "write"
<1>1. /\ s \in Sessions /\ e \in Event /\ Named(e) /\ n \in Nat /\ e.seq = n
      /\ Opens(e) => e.id \notin DOMAIN b.span
      /\ Good(b) /\ Projection(events'[s])[n + 1] = v
      /\ pc[p] = "insert" /\ s = sid[p] /\ Pos(p, s) = n
  <2>1. pc[p] = "insert" /\ s = sid[p] /\ Pos(p, s) = n /\ e.seq = n
    BY DEF Stores
  <2>2. /\ s \in Sessions /\ e \in Event /\ Named(e) /\ n \in Nat
        /\ Opens(e) => e.id \notin DOMAIN b.span
        /\ Good(b) /\ Projection(events'[s])[n + 1] = v
    BY StoresLog
  <2> QED
    BY <2>1, <2>2
<1>2. Good(a) /\ Under(a, b)
  BY <1>1, IInvParts DEF MemOK, RowsInv, ViewOK
<1>3. /\ Under(res.proj, v)
      /\ \A x \in DOMAIN v.span \ DOMAIN res.proj.span :
           x \in DOMAIN b.span \ DOMAIN a.span \/ Emits(res.deltas, x)
      /\ \A x \in DOMAIN b.span \ DOMAIN v.span : x \in DOMAIN a.span => Emits(res.deltas, x)
  BY <1>1, <1>2, UnderApply
<1>4. /\ ParentsIn(res.deltas, Option(DOMAIN res.proj.span)) /\ res.proj.last = n
      /\ e.kind = "stop" => DOMAIN res.proj.span = DOMAIN a.span
  <2>1. Opens(e) => e.id \notin DOMAIN a.span
    BY <1>1, <1>2 DEF Under
  <2>2. /\ ParentsIn(res.deltas, Option(DOMAIN res.proj.span)) /\ res.proj.last = n
        /\ ~Opens(e) => Closes(a, res, Target(a, e))
    BY <1>1, <1>2, <2>1, ApplyEffect
  <2>3. e.kind = "stop" => ~Opens(e) /\ Target(a, e) = None
    BY DEF Opens, Target
  <2>4. None \notin DOMAIN a.span
    BY <1>2, GoodIsShape, StackFacts
  <2> HIDE DEF res
  <2>5. e.kind = "stop" => DOMAIN res.proj.span = DOMAIN a.span \ {None}
    BY <2>2, <2>3 DEF Closes, Removed
  <2> QED
    BY <2>2, <2>4, <2>5
<1> HIDE DEF res
<1>5. Moves(p, l, sid[p], job[p], todo[p], Tagged(s, res.deltas), "expire", pm)
      /\ \A t \in Sessions : pm[t] = IF t = s THEN res.proj ELSE mem[p][t]
  BY <1>1, OneProjector, Unmoved DEF Stores, Moves, Emit, Goto, res
<1>6. l \in {"expire", "write"}
  OBVIOUS
<1> HIDE DEF pm, l
<1>7. /\ pc'[p] = l /\ after'[p] = "expire" /\ out'[p] = Tagged(s, res.deltas) /\ mem'[p] = pm
      /\ \A q \in Procs \ {p} : Same(q) /\ base'[q] = base[q]
  BY <1>5, MovesOK, BaseMoves DEF Stores
<1>8. u = res.proj
  BY <1>1, <1>5, <1>7
<1>9. /\ \A t, x : OutSpan(out'[p], t, x) <=> t = s /\ Emits(res.deltas, x)
      /\ \A t : OutParents(out'[p], t) \subseteq Option(DOMAIN u.span)
      /\ \A t : t # s => OutParents(out'[p], t) = {}
  BY <1>4, <1>7, <1>8, TaggedSpans
<1>10. out[p] = <<>> /\ rows' = rows
  BY <1>1, NoDebt DEF PathsOK, Stores
<1>11. ASSUME NEW t \in Sessions, NEW x, HasRow(t, x) PROVE HasRow(t, x)'
  <2>1. \A q \in Procs : OutSpan(out[q], t, x) => q # p
    BY <1>10 DEF OutSpan
  <2> QED
    BY <1>7, <1>10, <1>11, <2>1 DEF HasRow, Same
<1>12. \A x : Emits(res.deltas, x) => HasRow(s, x)'
  BY <1>9 DEF HasRow
<1>13. s \notin torn => \A x \in DOMAIN b.span \ DOMAIN a.span : HasRow(s, x)'
  <2>1. s \notin torn => Covered(p, s)
    BY <1>1 DEF RowsInv, SpansOK
  <2>2. At(s, Pos(p, s)) = b /\ s \in Sessions
    BY <1>1
  <2>3. SUFFICES ASSUME s \notin torn, NEW x \in DOMAIN b.span \ DOMAIN a.span
                 PROVE  HasRow(s, x)'
    OBVIOUS
  <2>4. HasRow(s, x)
    BY <2>1, <2>2, <2>3 DEF Covered
  <2> HIDE DEF a
  <2> QED
    BY <1>11, <2>2, <2>4
<1>14. Pos(p, s)' = n + 1 /\ At(s, n + 1)' = v
  <2>1. u.last = n /\ n # None
    BY <1>1, <1>4, <1>8, NoneAssumption
  <2> QED
    BY <1>1, <2>1 DEF Pos, At
<1> QED
  BY <1>3, <1>4, <1>5, <1>6, <1>7, <1>8, <1>9, <1>11, <1>12, <1>13, <1>14 DEF Stored

\* The storing of an event keeps the invariant.
LEMMA StoresRows ==
  ASSUME IInv, PathsOK, RowsInv, NEW p \in Procs, NEW s, NEW e, Stores(p, s, e)
  PROVE  RowsInv'
<1>1. PICK n : n = Len(events[s])
  OBVIOUS
<1>2. PICK u : u = mem'[p][s]
  OBVIOUS
<1>3. PICK b : b = At(s, n)
  OBVIOUS
<1>4. PICK v : v = Apply(b, e).proj
  OBVIOUS
<1>5. /\ \A q \in Procs \ {p} : Same(q) /\ base'[q] = base[q]
      /\ pc'[p] \in {"expire", "write"} /\ after'[p] = "expire"
      /\ \A t \in Sessions : t # s => mem'[p][t] = mem[p][t] /\ OutParents(out'[p], t) = {}
      /\ Pos(p, s)' = n + 1 /\ At(s, n + 1)' = v
      /\ Under(u, v)
      /\ \A t \in Sessions : \A x : HasRow(t, x) => HasRow(t, x)'
      /\ s \notin torn => /\ \A x \in DOMAIN v.span \ DOMAIN u.span : HasRow(s, x)'
                          /\ \A x \in DOMAIN b.span \ DOMAIN v.span : HasRow(s, x)'
                          /\ e.kind = "stop" =>
                               \A x \in DOMAIN b.span : HasRow(s, x)' \/ x \in DOMAIN u.span
      /\ OutParents(out'[p], s) \subseteq Option(DOMAIN u.span)
  <2>1. Stored(p, s, e, n, u, b, v)
    BY <1>1, <1>2, <1>3, <1>4, StoresMem
  <2> QED
    BY <2>1 DEF Stored
<1>6. /\ s \in Sessions /\ n \in Nat /\ Named(e)
      /\ \A t \in Sessions : events'[t] = IF t = s THEN Append(events[s], e) ELSE events[t]
      /\ Len(events'[s]) = n + 1 /\ events'[s][n + 1] = e
      /\ \A i \in 1 .. n : events'[s][i] = events[s][i]
      /\ WellLog(events'[s])
  BY <1>1, StoresLog
<1>7. /\ pc[p] = "insert" /\ s = sid[p] /\ e = Cur(p)
      /\ sid' = sid /\ job' = job /\ rows' = rows /\ torn' = torn
  BY DEF Stores
<1>8. \A t \in Sessions : /\ WellLog(events[t]) /\ Len(events[t]) \in Nat
                          /\ DOMAIN events[t] = 1 .. Len(events[t])
  BY LogEnds DEF RowsInv
<1>9. \A t \in Sessions : \A k \in 0 .. Len(events[t]) : At(t, k)' = At(t, k)
  BY StoresAt
<1>10. \A t \in Sessions : t # s => events'[t] = events[t]
  BY <1>6
<1>11. ASSUME NEW t \in Sessions, NEW i \in DOMAIN events'[t]
       PROVE  \/ i \in DOMAIN events[t] /\ events'[t][i] = events[t][i]
              \/ t = s /\ i = n + 1
  <2>1. CASE t # s
    BY <1>10, <2>1
  <2>2. CASE t = s
    <3>1. DOMAIN events'[s] = 1 .. n + 1
      BY <1>6, LenProperties DEF WellLog
    <3>2. \A j \in 1 .. n + 1 : j = n + 1 \/ j \in 1 .. n
      BY <1>6
    <3>3. DOMAIN events[s] = 1 .. n
      BY <1>1, <1>6, <1>8
    <3> QED
      BY <1>6, <2>2, <3>1, <3>2, <3>3
  <2> QED
    BY <2>1, <2>2
<1>12. IdsOK'
  BY StoresIds
<1>13. \A t \in Sessions : WellLog(events'[t])
  BY <1>6, <1>8, <1>10
<1>14. ASSUME NEW q \in Procs PROVE JobOK(q)'
  <2>1. CASE q = p
    <3>1. JobOK(p) /\ pc[p] # "idle" /\ job'[p] = job[p] /\ Cur(p)' = Cur(p)
      BY <1>7 DEF RowsInv, Cur
    <3>2. Len(job[p]) = 1 /\ Named(Cur(p)) /\ ~Ready(p)'
      BY <1>5, <3>1 DEF JobOK, Ready
    <3>3. /\ pc'[p] \notin {"clear", "listall", "replay", "list", "hydrate", "insert"}
          /\ after'[p] # "replay"
      BY <1>5
    <3> QED
      BY <2>1, <3>1, <3>2, <3>3 DEF JobOK
  <2>2. CASE q # p
    BY <1>5, <2>2, StoresJobs
  <2> QED
    BY <2>1, <2>2
\* a handle's view of a session, but for the one that has moved
<1>15. ASSUME NEW q \in Procs, NEW t \in Sessions, ~(q = p /\ t = s), NEW m, m = Pos(q, t)
       PROVE  /\ mem'[q][t] = mem[q][t] /\ Pos(q, t)' = m /\ m \in 0 .. Len(events[t])
              /\ m \in 0 .. Len(events'[t])
              /\ At(t, Pos(q, t))' = At(t, m) /\ Under(mem[q][t], At(t, m))
  <2>1. mem'[q][t] = mem[q][t]
    BY <1>5, <1>15 DEF Same
  <2>2. Pos(q, t)' = m
    BY <1>15, <2>1 DEF Pos
  <2>3. m \in 0 .. Len(events[t]) /\ Under(mem[q][t], At(t, m))
    BY <1>15 DEF RowsInv, ViewOK
  <2>4. m \in 0 .. Len(events'[t])
    <3>1. CASE t = s
      BY <1>1, <1>6, <2>3, <3>1
    <3>2. CASE t # s
      BY <1>10, <2>3, <3>2
    <3> QED
      BY <3>1, <3>2
  <2>5. At(t, m)' = At(t, m)
    BY <1>9, <2>3
  <2>6. At(t, Pos(q, t))' = At(t, m)
    BY <2>2, <2>5 DEF At
  <2> QED
    BY <2>1, <2>2, <2>3, <2>4, <2>6
\* and of the one that has
<1>16. At(s, Pos(p, s))' = v /\ At(s, Len(events[s]))' = v
  BY <1>5, <1>6 DEF At
<1>17. ASSUME NEW q \in Procs, NEW t \in Sessions PROVE ViewOK(q, t)'
  <2>1. CASE q = p /\ t = s
    <3>1. n + 1 \in 0 .. n + 1
      BY <1>6
    <3> QED
      BY <1>2, <1>5, <1>6, <1>16, <2>1, <3>1 DEF ViewOK
  <2>2. CASE ~(q = p /\ t = s)
    BY <1>15, <2>2 DEF ViewOK
  <2> QED
    BY <2>1, <2>2
<1>18. ASSUME NEW t \in Sessions, t \notin torn, NEW x, Real(t, x) PROVE Real(t, x)'
  <2>1. CASE x = None \/ HasRow(t, x)
    BY <1>5, <2>1 DEF Real
  <2>2. CASE x \in DOMAIN At(t, Len(events[t])).span /\ t = s
    <3>1. x \in DOMAIN v.span \/ HasRow(s, x)'
      BY <1>1, <1>3, <1>5, <1>18, <2>2
    <3> QED
      BY <1>16, <2>2, <3>1 DEF Real
  <2>3. CASE x \in DOMAIN At(t, Len(events[t])).span /\ t # s
    <3>1. At(t, Len(events[t]))' = At(t, Len(events[t]))
      BY <1>10, <2>3 DEF At
    <3> QED
      BY <2>3, <3>1 DEF Real
  <2> QED
    BY <1>18, <2>1, <2>2, <2>3 DEF Real
<1>19. ASSUME NEW t \in Sessions PROVE SpansOK(t)'
  <2>1. SUFFICES ASSUME t \notin torn
                 PROVE  /\ \A q \in Procs : Covered(q, t)'
                        /\ \A k \in DOMAIN events'[t] :
                             /\ \A x \in DOMAIN At(t, k - 1)'.span \ DOMAIN At(t, k)'.span :
                                  HasRow(t, x)'
                             /\ events'[t][k].kind = "stop" =>
                                  \A x \in DOMAIN At(t, k - 1)'.span :
                                    HasRow(t, x)' \/ \E q \in Procs : WillFlush(q, t, x)'
                        /\ \A x \in DOMAIN rows[t] : Real(t, rows[t][x].parent)'
                        /\ \A q \in Procs : \A x \in OutParents(out'[q], t) : Real(t, x)'
    BY <1>7 DEF SpansOK
  <2>2. SpansOK(t)
    BY DEF RowsInv
  <2>3. ASSUME NEW q \in Procs PROVE Covered(q, t)'
    <3>1. CASE q = p /\ t = s
      BY <1>2, <1>5, <1>16, <2>1, <3>1 DEF Covered
    <3>2. CASE ~(q = p /\ t = s)
      <4>1. PICK m : m = Pos(q, t)
        OBVIOUS
      <4>2. mem'[q][t] = mem[q][t] /\ At(t, Pos(q, t))' = At(t, m)
        BY <1>15, <3>2, <4>1
      <4>3. Covered(q, t)
        BY <2>1, <2>2 DEF SpansOK
      <4>4. ASSUME NEW x \in DOMAIN At(t, m).span \ DOMAIN mem[q][t].span PROVE HasRow(t, x)'
        <5>1. HasRow(t, x)
          BY <4>1, <4>3, <4>4 DEF Covered
        <5> QED
          BY <1>5, <5>1
      <4> QED
        BY <4>2, <4>4 DEF Covered
    <3> QED
      BY <3>1, <3>2
  <2>4. ASSUME NEW k \in DOMAIN events'[t]
        PROVE  /\ \A x \in DOMAIN At(t, k - 1)'.span \ DOMAIN At(t, k)'.span : HasRow(t, x)'
               /\ events'[t][k].kind = "stop" =>
                    \A x \in DOMAIN At(t, k - 1)'.span :
                      HasRow(t, x)' \/ \E q \in Procs : WillFlush(q, t, x)'
    <3>1. CASE k \in DOMAIN events[t] /\ events'[t][k] = events[t][k]
      <4>1. k \in 0 .. Len(events[t]) /\ k - 1 \in 0 .. Len(events[t])
        BY <1>8, <3>1
      <4>2. At(t, k)' = At(t, k) /\ At(t, k - 1)' = At(t, k - 1)
        BY <1>9, <4>1
      <4>3. \A x \in DOMAIN At(t, k - 1).span \ DOMAIN At(t, k).span : HasRow(t, x)'
        BY <1>5, <2>1, <2>2, <3>1 DEF SpansOK
      <4>4. ASSUME events[t][k].kind = "stop", NEW x \in DOMAIN At(t, k - 1).span
            PROVE  HasRow(t, x)' \/ \E q \in Procs : WillFlush(q, t, x)'
        <5>1. HasRow(t, x) \/ \E q \in Procs : WillFlush(q, t, x)
          BY <2>1, <2>2, <3>1, <4>4 DEF SpansOK
        <5>2. ASSUME NEW q \in Procs, WillFlush(q, t, x) PROVE WillFlush(q, t, x)'
          <6>1. q # p
            BY <1>7, <5>2 DEF WillFlush
          <6> QED
            BY <1>5, <5>2, <6>1 DEF WillFlush, Same, Cur
        <5> QED
          BY <1>5, <5>1, <5>2
      <4> QED
        BY <3>1, <4>2, <4>3, <4>4
    <3>2. CASE t = s /\ k = n + 1
      <4>1. k - 1 = n /\ events'[t][k] = e /\ n \in 0 .. Len(events[s])
        BY <1>1, <1>6, <3>2
      <4>2. At(t, k)' = v /\ At(t, k - 1)' = b
        BY <1>3, <1>5, <1>6, <1>9, <3>2, <4>1
      <4>3. ASSUME NEW x \in DOMAIN u.span, e.kind = "stop" PROVE WillFlush(p, t, x)'
        BY <1>2, <1>5, <1>7, <3>2, <4>3 DEF WillFlush, Cur
      <4> QED
        BY <1>5, <2>1, <3>2, <4>1, <4>2, <4>3
    <3> QED
      BY <1>11, <3>1, <3>2
  <2>5. ASSUME NEW q \in Procs, NEW x \in OutParents(out'[q], t) PROVE Real(t, x)'
    <3>1. CASE q = p /\ t = s
      <4>1. x = None \/ x \in DOMAIN u.span
        BY <1>5, <2>5, <3>1 DEF Option
      <4>2. DOMAIN u.span \subseteq DOMAIN v.span
        BY <1>5 DEF Under
      <4> QED
        BY <1>16, <3>1, <4>1, <4>2 DEF Real
    <3>2. CASE q = p /\ t # s
      BY <1>5, <2>5, <3>2
    <3>3. CASE q # p
      <4>1. x \in OutParents(out[q], t)
        BY <1>5, <2>5, <3>3 DEF Same
      <4> QED
        BY <1>18, <2>1, <2>2, <4>1 DEF SpansOK
    <3> QED
      BY <3>1, <3>2, <3>3
  <2>6. ASSUME NEW x \in DOMAIN rows[t] PROVE Real(t, rows[t][x].parent)'
    <3>1. PICK r : r = rows[t][x].parent
      OBVIOUS
    <3>2. Real(t, r)'
      BY <1>18, <2>1, <2>2, <3>1 DEF SpansOK
    <3> QED
      BY <1>7, <3>1, <3>2 DEF Real
  <2> QED
    BY <2>3, <2>4, <2>5, <2>6
<1> QED
  BY <1>12, <1>13, <1>14, <1>17, <1>19 DEF RowsInv

\* An event that the table has already is dropped; any other is the next one.
LEMMA InsertRows ==
  ASSUME IInv, PathsOK, RowsInv, NEW p \in Procs, Insert(p)
  PROVE  RowsInv'
<1>1. PICK s : s = sid[p]
  OBVIOUS
<1>2. PICK e : e = Cur(p)
  OBVIOUS
<1>3. CASE \E i \in DOMAIN events[s] : events[s][i].seq = e.seq
  <2>1. /\ pc[p] = "insert" /\ Finish(p)
        /\ UNCHANGED <<events, rows, mem, sid, todo, out, after, fired, torn>>
    BY <1>1, <1>2, <1>3 DEF Insert
  <2>2. \A t \in Sessions : \A x : ~WillFlush(p, t, x)
    BY <2>1 DEF WillFlush
  <2> QED
    BY <2>1, <2>2, FinishRows
<1>4. CASE ~\E i \in DOMAIN events[s] : events[s][i].seq = e.seq
  <2>1. Stores(p, s, e)
    BY <1>1, <1>2, <1>4, InsertStores
  <2> QED
    BY <2>1, StoresRows
<1> QED
  BY <1>3, <1>4

\* No step breaks the invariant.  None of the four that rebuild a session is
\* ever taken.
LEMMA NextRows ==
  ASSUME Tame
  PROVE  IInv /\ PathsOK /\ Fits /\ RowsInv /\ [Next]_vars => RowsInv'
<1> SUFFICES ASSUME IInv, PathsOK, Fits, RowsInv, [Next]_vars PROVE RowsInv'
  OBVIOUS
<1>1. CASE UNCHANGED vars
  <2>1. UNCHANGED <<events, rows, mem, pc, sid, job, base, todo, out, after, fired, torn>>
    BY <1>1 DEF vars, db, local
  <2>2. IdsOK'
    BY <2>1 DEF RowsInv, IdsOK, FiredIds, Pending, Ready, Cur
  <2>3. \A q \in Procs : Same(q) /\ base'[q] = base[q]
    BY <2>1 DEF Same
  <2>4. \A q \in Procs : JobOK(q)'
    BY <2>1, <2>3, JobsKeep DEF RowsInv
  <2>5. \A q \in Procs, s \in Sessions : ViewOK(q, s)'
    BY <2>1 DEF RowsInv, ViewOK, Pos, At
  <2>6. \A s \in Sessions : SpansOK(s)'
    BY <2>1 DEF RowsInv, SpansOK, Covered, HasRow, WillFlush, Real, At, Pos, Cur
  <2> QED
    BY <2>1, <2>2, <2>4, <2>5, <2>6 DEF RowsInv
<1>2. CASE Next
  <2>1. PICK p \in Procs : Step(p)
    BY <1>2 DEF Next
  <2>2. /\ pc[p] \notin {"clear", "listall", "replay"}
    BY DEF RowsInv, JobOK
  <2>3. CASE \E s \in Sessions, in \in Inputs, changed \in PromptChanges : Begin(p, s, in, changed)
    BY <2>3, BeginRows
  <2>4. CASE SetStatus(p)
    BY <2>4, SetStatusRows
  <2>5. CASE Load(p)
    BY <2>5, LoadRows
  <2>6. CASE ListLatest(p)
    BY <2>6, ListLatestRows
  <2>7. CASE Hydrate(p)
    BY <2>7, HydrateRows
  <2>8. CASE Insert(p)
    BY <2>8, InsertRows
  <2>9. CASE Write(p)
    BY <2>9, WriteRows
  <2>10. CASE \E s \in Sessions : \E x \in DOMAIN mem[p][s].span : ExpireOne(p, s, x)
    BY <2>10, ExpireOneRows
  <2>11. CASE ExpireDone(p)
    BY <2>11, ExpireDoneRows
  <2>12. CASE Flush(p)
    BY <2>12, FlushRows
  <2>13. CASE Done(p)
    BY <2>13, DoneRows
  <2>14. CASE ClearRows(p) \/ ListAll(p) \/ ReplayOne(p) \/ ReplayDone(p)
    BY <2>2, <2>14 DEF ClearRows, ListAll, ReplayOne, ReplayDone
  <2>15. CASE Restart(p)
    BY <2>15, RestartRows
  <2>16. CASE Crash(p)
    BY <2>16, CrashRows
  <2> QED
    BY <2>1, <2>3, <2>4, <2>5, <2>6, <2>7, <2>8, <2>9, <2>10, <2>11, <2>12, <2>13, <2>14,
       <2>15, <2>16 DEF Step
<1> QED
  BY <1>1, <1>2

-----------------------------------------------------------------------------
(* What a settled session shows. *)

\* No delta is on its way, and no flush.
LEMMA SettledRows ==
  ASSUME IInv, PathsOK, RowsInv, NEW s \in Sessions, Settled(s)
  PROVE  /\ s \notin torn /\ SpansOK(s)
         /\ \A x : HasRow(s, x) => x \in DOMAIN rows[s]
         /\ \A q \in Procs : \A x : ~WillFlush(q, s, x)
<1>1. s \notin torn /\ \A q \in Procs : pc[q] # "idle" => sid[q] # s
  BY DEF Settled, Busy
<1>2. ASSUME NEW q \in Procs, NEW x, OutSpan(out[q], s, x) PROVE FALSE
  <2>1. PICK i \in DOMAIN out[q] : out[q][i].session = s
    BY <1>2 DEF OutSpan
  <2>2. HandleOK(q)
    BY DEF PathsOK
  <2>3. sid[q] = s
    BY <2>1, <2>2 DEF HandleOK
  <2>4. out[q] # <<>>
    BY <2>1
  <2>5. pc[q] = "write"
    BY <2>2, <2>4 DEF HandleOK
  <2> QED
    BY <1>1, <2>3, <2>5
<1>3. \A q \in Procs : \A x : ~WillFlush(q, s, x)
  BY <1>1 DEF WillFlush
<1> QED
  BY <1>1, <1>2, <1>3 DEF HasRow, RowsInv

\* The span of a stored call is gone once a result with its id is stored.
LEMMA ClosedCallsSettled == IInv /\ PathsOK /\ RowsInv => ClosedCallsHaveRows
<1> SUFFICES ASSUME IInv, PathsOK, RowsInv, NEW s \in Sessions, Settled(s),
                    NEW m \in DOMAIN events[s], NEW n \in DOMAIN events[s], m < n,
                    events[s][m].kind = "call", events[s][n].kind = "result",
                    events[s][m].id # None, events[s][m].id = events[s][n].id
             PROVE  events[s][m].id \in DOMAIN rows[s]
  BY DEF ClosedCallsHaveRows
<1> DEFINE log == events[s]
           P   == Projection(log)
           x   == log[m].id
<1>1. WellLog(log) /\ Len(log) \in Nat /\ DOMAIN log = 1 .. Len(log)
  BY LogEnds DEF RowsInv
<1>2. m \in 1 .. Len(log) /\ n \in 1 .. Len(log) /\ m \in Nat /\ n \in Nat /\ m <= n
  BY <1>1
<1>3. x \in DOMAIN P[m].span
  <2>1. /\ log[m] \in Event /\ Named(log[m]) /\ Opens(log[m])
        /\ P[m] = Apply(P[m - 1], log[m]).proj
        /\ Good(P[m - 1]) /\ x \notin DOMAIN P[m - 1].span
    BY <1>1, <1>2, OpenersAreFresh DEF Opens
  <2> HIDE DEF P, log
  <2>2. Pushed(P[m - 1], P[m], x, log[m].tool)
    BY <2>1, ApplyEffect
  <2> QED
    BY <2>2 DEF Pushed
<1>4. x \notin DOMAIN P[n].span
  <2>1. /\ log[n] \in Event /\ Named(log[n]) /\ ~Opens(log[n])
        /\ P[n] = Apply(P[n - 1], log[n]).proj
        /\ Good(P[n - 1])
    BY <1>1, <1>2, OpenersAreFresh DEF Opens
  <2>2. log[n].id = x /\ log[n].kind = "result"
    OBVIOUS
  <2> HIDE DEF P, log, x
  <2>3. /\ DOMAIN P[n].span = DOMAIN P[n - 1].span \ {Target(P[n - 1], log[n])}
    BY <2>1, ApplyEffect DEF Closes, Removed
  <2>4. x \in DOMAIN P[n - 1].span => Target(P[n - 1], log[n]) = x
    BY <2>2 DEF Target, MatchSpan
  <2> QED
    BY <2>3, <2>4
<1>5. PICK k \in m + 1 .. n : x \in DOMAIN P[k - 1].span /\ x \notin DOMAIN P[k].span
  <2> HIDE DEF P, x, log
  <2> QED
    BY <1>2, <1>3, <1>4, GoneMeansClosed
<1>6. k \in DOMAIN events[s]
  BY <1>1, <1>2
<1>7. HasRow(s, x)
  BY <1>5, <1>6, SettledRows DEF SpansOK, At
<1> QED
  BY <1>7, SettledRows

\* A handle at the last seq has applied the whole log.
LEMMA UpToDateSettled == IInv /\ PathsOK /\ RowsInv => UpToDateMemoryIsRight
<1> SUFFICES ASSUME IInv, RowsInv, NEW p \in Procs, NEW s \in Sessions,
                    mem[p][s].last # None, mem[p][s].last = LastSeq(s)
             PROVE  DOMAIN mem[p][s].span \subseteq DOMAIN Replayed(s).span
  BY DEF UpToDateMemoryIsRight
<1> DEFINE n == Len(events[s])
<1>1. n \in Nat /\ LastSeq(s) = IF n = 0 THEN None ELSE n - 1
  BY LogEnds DEF RowsInv
<1> HIDE DEF n
<1>2. Pos(p, s) = n
  BY <1>1 DEF Pos
<1>3. Under(mem[p][s], At(s, n))
  BY <1>2 DEF RowsInv, ViewOK
<1> QED
  BY <1>3 DEF Under, At, Replayed, n

\* After the flush of a Stop nothing it found open is without a row.
LEMMA StoppedSpansSettled == IInv /\ PathsOK /\ RowsInv => StoppedSpansHaveRows
<1> SUFFICES ASSUME IInv, PathsOK, RowsInv, NEW s \in Sessions, Settled(s),
                    NEW n \in DOMAIN events[s], events[s][n].kind = "stop",
                    NEW x \in DOMAIN At(s, n - 1).span
             PROVE  x \in DOMAIN rows[s]
  BY DEF StoppedSpansHaveRows, At
<1>1. HasRow(s, x) \/ \E q \in Procs : WillFlush(q, s, x)
  BY SettledRows DEF SpansOK
<1> QED
  BY <1>1, SettledRows

\* A parent that is not open any more has its row.
LEMMA RowParentsSettled == IInv /\ PathsOK /\ RowsInv => RowParentsAreReal
<1> SUFFICES ASSUME IInv, PathsOK, RowsInv, NEW s \in Sessions, Settled(s),
                    NEW x \in DOMAIN rows[s], NEW r, r = rows[s][x].parent
             PROVE  r \in {None} \cup DOMAIN rows[s] \cup DOMAIN Replayed(s).span
  BY DEF RowParentsAreReal
<1>1. Real(s, r)
  BY SettledRows DEF SpansOK
<1> QED
  BY <1>1, SettledRows DEF Real, At, Replayed

\* The invariant the four theorems below share.
LEMMA RowsAlways == ASSUME Tame PROVE Spec /\ []Fits => [](IInv /\ PathsOK /\ RowsInv)
<1>1. Init => PathsOK
  BY InitPaths
<1>2. IInv /\ PathsOK /\ [Next]_vars => PathsOK'
  BY NextPaths
<1>3. Init => RowsInv
  BY InitRows
<1>4. IInv /\ PathsOK /\ Fits /\ RowsInv /\ [Next]_vars => RowsInv'
  BY NextRows
<1> QED
  BY <1>1, <1>2, <1>3, <1>4, StoreInvariant, PTL DEF Spec

\* As long as every tool call has an id of its own, no prompt file changes and
\* a session fits in the hydration window: whatever the handles, restarts and
\* crashes, a stored tool call whose result is stored after it has its row once
\* nobody works on its session (sync_projector_session, apply_tool_result).
THEOREM ClosedCallsAreRows == ASSUME Tame PROVE Spec /\ []Fits => []ClosedCallsHaveRows
BY RowsAlways, ClosedCallsSettled, PTL

\* Under the same conditions, a handle whose projector is at the last seq, and
\* so appends without reading the log again, has no span open that the log has
\* closed (sync_projector_session).
THEOREM UpToDateMemoryIsAlwaysRight ==
  ASSUME Tame PROVE Spec /\ []Fits => []UpToDateMemoryIsRight
BY RowsAlways, UpToDateSettled, PTL

\* Under the same conditions, a stored Stop leaves no span without a row,
\* whichever handle had it open (flush_session).
THEOREM StoppedSpansAreRows == ASSUME Tame PROVE Spec /\ []Fits => []StoppedSpansHaveRows
BY RowsAlways, StoppedSpansSettled, PTL

\* Under the same conditions, the parent that a row names has a row itself or
\* is still open (detach_chain, remove_open).
THEOREM RowParentsAreAlwaysReal == ASSUME Tame PROVE Spec /\ []Fits => []RowParentsAreReal
BY RowsAlways, RowParentsSettled, PTL
=============================================================================
