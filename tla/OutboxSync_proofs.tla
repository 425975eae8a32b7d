-------------------------- MODULE OutboxSync_proofs --------------------------
(***************************************************************************)
(* The outbox keeps its promise, delivers in order and clears only what    *)
(* was exported, for any number of flushers, owners and rows and any       *)
(* batch size.  The inductive invariant says what each flusher knows of    *)
(* the table it read: an id in its memory still names the payload it read  *)
(* (AUTOINCREMENT), and every older row that the server does not have is   *)
(* in the flusher's hands too, to be posted no later.                      *)
(***************************************************************************)
EXTENDS OutboxSync, SequenceTheorems, TLAPS

\* The table ob, with what the server (rc) and the exporters (ex) have, after
\* md payloads.
TableOK(ob, rc, ex, md) ==
  /\ ob = [id \in DOMAIN ob |-> ob[id]]
  /\ DOMAIN ob \subseteq 1 .. md
  /\ \A id \in DOMAIN ob : ob[id] \in Row /\ ob[id].payload = id
  /\ \A id \in DOMAIN ob : ob[id].sent => /\ Posted(ob[id].kind) => id \in rc
                                          /\ ~FailOpen => id \in ex
  /\ rc \subseteq 1 .. md /\ ex \subseteq 1 .. md
  /\ \A i, j \in DOMAIN ob : i < j /\ Posted(ob[i].kind) /\ j \in rc => i \in rc

\* A flusher at label l with the batches w and n failures, next to that table.
FlusherOK(l, w, n, ob, rc, ex, md) ==
  /\ l \in Labels /\ w \in Seq(SUBSET Item) /\ n \in 0 .. MaxFailures
  /\ l = "idle" <=> w = <<>>
  /\ \A k \in 1 .. Len(w) : \A item \in w[k] :
       /\ item.payload = item.id /\ item.id \in 1 .. md
       /\ item.id \in DOMAIN ob => ob[item.id].kind = item.kind
  /\ l \in {"mark", "ok"} => \A item \in w[1] : /\ Posted(item.kind) => item.id \in rc
                                                /\ ~FailOpen => item.id \in ex
  /\ \A k \in 1 .. Len(w) : \A item \in w[k] : \A j \in DOMAIN ob :
       j < item.id /\ Posted(ob[j].kind)
         => j \in rc \/ \E m \in 1 .. k : \E other \in w[m] : other.id = j

FlushersOK ==
  /\ pc = [f \in Flushers |-> pc[f]] /\ work = [f \in Flushers |-> work[f]]
  /\ failures = [f \in Flushers |-> failures[f]]
  /\ \A f \in Flushers :
       FlusherOK(pc[f], work[f], failures[f], outbox, received, exported, made)

BookOK == lastId = made /\ made \in 0 .. MaxPayloads /\ broken \in BOOLEAN /\ crashes \in 0 .. MaxCrashes

IInv == TableOK(outbox, received, exported, made) /\ FlushersOK /\ BookOK

-----------------------------------------------------------------------------
(* Lemmas about the table and the flushers. *)

\* What a flusher knows stays true when rows come and go and more is delivered.
LEMMA Grows ==
  ASSUME NEW l, NEW w, NEW n, NEW ob, NEW rc, NEW ex, NEW md \in Nat,
         FlusherOK(l, w, n, ob, rc, ex, md),
         NEW ob2, NEW rc2, NEW ex2, NEW md2 \in Nat,
         md <= md2, rc \subseteq rc2, ex \subseteq ex2,
         \A j \in DOMAIN ob2 : \/ j \in DOMAIN ob /\ ob2[j].kind = ob[j].kind
                               \/ j \in Nat /\ j > md
  PROVE  FlusherOK(l, w, n, ob2, rc2, ex2, md2)
<1>1. ASSUME NEW k \in 1 .. Len(w), NEW item \in w[k]
      PROVE  /\ item.payload = item.id /\ item.id \in 1 .. md2
             /\ item.id \in DOMAIN ob2 => ob2[item.id].kind = item.kind
  BY <1>1 DEF FlusherOK
<1>2. ASSUME NEW k \in 1 .. Len(w), NEW item \in w[k], NEW j \in DOMAIN ob2,
             j < item.id, Posted(ob2[j].kind)
      PROVE  j \in rc2 \/ \E m \in 1 .. k : \E other \in w[m] : other.id = j
  <2>1. item.id \in 1 .. md
    BY <1>2 DEF FlusherOK
  <2>2. j \in DOMAIN ob /\ ob2[j].kind = ob[j].kind
    BY <1>2, <2>1
  <2> QED
    BY <1>2, <2>2 DEF FlusherOK
<1>3. l \in {"mark", "ok"} => \A item \in w[1] : /\ Posted(item.kind) => item.id \in rc2
                                                 /\ ~FailOpen => item.id \in ex2
  BY DEF FlusherOK
<1> QED
  BY <1>1, <1>2, <1>3 DEF FlusherOK

\* Delivering and exporting the batch a flusher posts keeps the order.
LEMMA Deliver ==
  ASSUME NEW ob, NEW rc, NEW ex, NEW md \in Nat, TableOK(ob, rc, ex, md),
         NEW l, NEW w, NEW n, FlusherOK(l, w, n, ob, rc, ex, md), w # <<>>,
         NEW stored, stored = Payloads({item \in w[1] : Posted(item.kind)}),
         NEW rc2, rc2 = rc \/ rc2 = rc \cup stored,
         NEW ex2, ex2 = ex \/ ex2 = ex \cup Payloads(w[1])
  PROVE  TableOK(ob, rc2, ex2, md) /\ rc \subseteq rc2 /\ ex \subseteq ex2
<1>1. Len(w) \in Nat /\ Len(w) # 0
  BY EmptySeq, LenProperties DEF FlusherOK
<1>2. 1 \in 1 .. Len(w)
  BY <1>1
<1>3. \A item \in w[1] : item.payload = item.id /\ item.id \in 1 .. md
  BY <1>2 DEF FlusherOK
<1>4. rc2 \subseteq 1 .. md /\ ex2 \subseteq 1 .. md /\ rc \subseteq rc2 /\ ex \subseteq ex2
  BY <1>3 DEF TableOK, Payloads
<1>5. ASSUME NEW i \in DOMAIN ob, NEW j \in DOMAIN ob, i < j, Posted(ob[i].kind), j \in rc2
      PROVE  i \in rc2
  <2>1. CASE j \in rc
    BY <1>4, <1>5, <2>1 DEF TableOK
  <2>2. CASE j \notin rc
    <3>1. rc2 = rc \cup Payloads({item \in w[1] : Posted(item.kind)})
      BY <1>5, <2>2
    <3>2. PICK item \in w[1] : item.id = j
      BY <1>3, <1>5, <2>2, <3>1 DEF Payloads
    <3>3. i \in rc \/ \E m \in 1 .. 1 : \E other \in w[m] : other.id = i
      BY <1>2, <1>5, <3>2 DEF FlusherOK
    <3>4. CASE \E other \in w[1] : other.id = i
      <4>1. PICK other \in w[1] : other.id = i
        BY <3>4
      <4>2. other.payload = i /\ other.kind = ob[i].kind
        BY <1>2, <1>3, <1>5, <4>1 DEF FlusherOK
      <4> QED
        BY <1>5, <3>1, <4>1, <4>2 DEF Payloads
    <3>5. \A m \in 1 .. 1 : m = 1
      OBVIOUS
    <3>6. i \in rc \/ \E other \in w[1] : other.id = i
      BY <3>3, <3>5, Zenon
    <3> QED
      BY <1>4, <3>4, <3>6
  <2> QED
    BY <2>1, <2>2
<1>6. /\ ob = [id \in DOMAIN ob |-> ob[id]]
      /\ DOMAIN ob \subseteq 1 .. md
      /\ \A id \in DOMAIN ob : ob[id] \in Row /\ ob[id].payload = id
  BY DEF TableOK
<1>7. \A id \in DOMAIN ob : ob[id].sent => /\ (Posted(ob[id].kind) => id \in rc2)
                                            /\ (~FailOpen => id \in ex2)
  BY <1>4 DEF TableOK
<1>8. \A i, j \in DOMAIN ob : i < j /\ Posted(ob[i].kind) /\ j \in rc2 => i \in rc2
  BY <1>5
<1>9. TableOK(ob, rc2, ex2, md)
  BY <1>4, <1>6, <1>7, <1>8, Zenon DEF TableOK
<1> QED
  BY <1>4, <1>9

\* A step of one flusher, while the table and the deliveries move on.
LEMMA FlusherStep ==
  ASSUME FlushersOK, NEW f \in Flushers, NEW l, NEW w, NEW n,
         pc' = [pc EXCEPT ![f] = l], work' = [work EXCEPT ![f] = w],
         failures' = [failures EXCEPT ![f] = n],
         FlusherOK(l, w, n, outbox', received', exported', made'),
         \A g \in Flushers :
           FlusherOK(pc[g], work[g], failures[g], outbox', received', exported', made')
  PROVE  FlushersOK'
<1>1. \A g \in Flushers : /\ pc'[g] = IF g = f THEN l ELSE pc[g]
                          /\ work'[g] = IF g = f THEN w ELSE work[g]
                          /\ failures'[g] = IF g = f THEN n ELSE failures[g]
  BY DEF FlushersOK
<1>2. \A g \in Flushers :
        FlusherOK(pc'[g], work'[g], failures'[g], outbox', received', exported', made')
  BY <1>1, Zenon
<1>3. /\ pc' = [g \in Flushers |-> pc'[g]] /\ work' = [g \in Flushers |-> work'[g]]
      /\ failures' = [g \in Flushers |-> failures'[g]]
  BY DEF FlushersOK
<1>4. FlushersOK' <=>
        /\ pc' = [g \in Flushers |-> pc'[g]] /\ work' = [g \in Flushers |-> work'[g]]
        /\ failures' = [g \in Flushers |-> failures'[g]]
        /\ \A g \in Flushers :
             FlusherOK(pc'[g], work'[g], failures'[g], outbox', received', exported', made')
  BY DEF FlushersOK
<1> QED
  BY <1>2, <1>3, <1>4

\* A step of the table that no flusher takes part in.
LEMMA TableStep ==
  ASSUME FlushersOK, UNCHANGED flush,
         \A g \in Flushers :
           FlusherOK(pc[g], work[g], failures[g], outbox', received', exported', made')
  PROVE  FlushersOK'
<1>1. FlushersOK' <=>
        /\ pc' = [g \in Flushers |-> pc'[g]] /\ work' = [g \in Flushers |-> work'[g]]
        /\ failures' = [g \in Flushers |-> failures'[g]]
        /\ \A g \in Flushers :
             FlusherOK(pc'[g], work'[g], failures'[g], outbox', received', exported', made')
  BY DEF FlushersOK
<1>2. pc' = pc /\ work' = work /\ failures' = failures
  BY DEF flush
<1> QED
  BY <1>1, <1>2 DEF FlushersOK

-----------------------------------------------------------------------------
(* The actions keep the invariant. *)

NewIds(n) == made + 1 .. made + n

\* The table after an insertion: the rows kept, as they were, and rows with
\* new ids.
LEMMA InsertRows ==
  ASSUME IInv, NEW kept, kept \subseteq DOMAIN outbox, NEW owner \in Owners, NEW kind \in Kinds,
         NEW n \in Nat, Insert(kept, owner, kind, n)
  PROVE  /\ NewIds(n) \cap kept = {} /\ kept \subseteq 1 .. made
         /\ NewIds(n) \subseteq 1 .. made + n /\ NewIds(n) \subseteq Nat
         /\ 1 .. made \subseteq 1 .. made + n
         /\ outbox' = [id \in DOMAIN outbox' |-> outbox'[id]]
         /\ DOMAIN outbox' = kept \cup NewIds(n)
         /\ \A id \in kept : outbox'[id] = outbox[id]
         /\ \A id \in NewIds(n) : outbox'[id] \in Row /\ outbox'[id].payload = id
                                                    /\ ~outbox'[id].sent
         /\ received' = received /\ exported' = exported
         /\ UNCHANGED <<flush, broken, crashes>>
<1> DEFINE new == NewIds(n)
<1>0. new = made + 1 .. made + n
  BY DEF NewIds
<1> HIDE DEF new
<1>1. TableOK(outbox, received, exported, made) /\ BookOK /\ made \in Nat
  BY OutboxAssumption DEF IInv, BookOK
<1>2. FirstId(kept) = made + 1 /\ FirstId(kept) + n - 1 = made + n
  BY <1>1 DEF FirstId, BookOK
<1>3. \A id \in new : made + id - FirstId(kept) + 1 = id
  BY <1>0, <1>1, <1>2
<1>4. outbox' = [id \in kept \cup new |->
                      IF id \in new
                      THEN [owner |-> owner, kind |-> kind,
                            payload |-> made + id - FirstId(kept) + 1, sent |-> FALSE]
                      ELSE outbox[id]]
  BY <1>0, <1>2 DEF Insert
<1>5. /\ new \cap kept = {} /\ kept \subseteq 1 .. made
      /\ new \subseteq 1 .. made + n /\ new \subseteq Nat /\ 1 .. made \subseteq 1 .. made + n
  BY <1>0, <1>1 DEF TableOK
<1>6. received' = received /\ exported' = exported /\ UNCHANGED <<flush, broken, crashes>>
  BY DEF Insert
<1>7. ASSUME NEW id \in new
      PROVE  outbox'[id] \in Row /\ outbox'[id].payload = id /\ ~outbox'[id].sent
  <2>1. outbox'[id] = [owner |-> owner, kind |-> kind, payload |-> id, sent |-> FALSE]
    BY <1>3, <1>4
  <2>2. id \in Nat
    BY <1>5
  <2> QED
    BY <2>1, <2>2 DEF Row
<1>8. /\ outbox' = [id \in DOMAIN outbox' |-> outbox'[id]]
      /\ DOMAIN outbox' = kept \cup new
      /\ \A id \in kept : outbox'[id] = outbox[id]
  BY <1>4, <1>5
<1> QED
  BY <1>5, <1>6, <1>7, <1>8 DEF new

\* Only rows with new ids come in, so what flushers remember stays right.
LEMMA InsertOK ==
  ASSUME IInv, NEW kept, kept \subseteq DOMAIN outbox, NEW owner \in Owners, NEW kind \in Kinds,
         NEW n \in Nat, Insert(kept, owner, kind, n)
  PROVE  IInv'
<1> DEFINE new == NewIds(n)
<1>0. new = made + 1 .. made + n
  BY DEF NewIds
<1>1. TableOK(outbox, received, exported, made) /\ FlushersOK /\ BookOK /\ made \in Nat
  BY OutboxAssumption DEF IInv, BookOK
<1>2. made + n <= MaxPayloads /\ made' = made + n /\ lastId' = made + n
  <2>1. FirstId(kept) = made + 1 /\ FirstId(kept) + n - 1 = made + n
    BY <1>1 DEF FirstId, BookOK
  <2> QED
    BY <1>1, <2>1 DEF Insert, BookOK
<1>3. received' = received /\ exported' = exported /\ UNCHANGED <<flush, broken, crashes>>
  BY InsertRows
<1>4. /\ new \cap kept = {} /\ kept \subseteq 1 .. made
      /\ new \subseteq 1 .. made + n /\ new \subseteq Nat /\ 1 .. made \subseteq 1 .. made + n
  BY InsertRows
<1>5. /\ outbox' = [id \in DOMAIN outbox' |-> outbox'[id]] /\ DOMAIN outbox' = kept \cup new
      /\ \A id \in kept : outbox'[id] = outbox[id]
      /\ \A id \in new : outbox'[id] \in Row /\ outbox'[id].payload = id /\ ~outbox'[id].sent
  BY InsertRows
<1> HIDE DEF new
<1>6. TableOK(outbox', received', exported', made')
  <2>1. outbox' = [id \in DOMAIN outbox' |-> outbox'[id]]
    BY <1>5
  <2>2. DOMAIN outbox' \subseteq 1 .. made'
    BY <1>1, <1>2, <1>4, <1>5
  <2>3. \A id \in DOMAIN outbox' : outbox'[id] \in Row /\ outbox'[id].payload = id
    <3>1. \A id \in kept : outbox'[id] \in Row /\ outbox'[id].payload = id
      BY <1>1, <1>5 DEF TableOK
    <3> QED
      BY <1>5, <3>1
  <2>4. \A id \in DOMAIN outbox' : outbox'[id].sent => /\ Posted(outbox'[id].kind) => id \in received'
                                                       /\ ~FailOpen => id \in exported'
    BY <1>1, <1>3, <1>5 DEF TableOK
  <2>5. received' \subseteq 1 .. made' /\ exported' \subseteq 1 .. made'
    BY <1>1, <1>2, <1>3 DEF TableOK
  <2>6. \A i, j \in DOMAIN outbox' :
          i < j /\ Posted(outbox'[i].kind) /\ j \in received' => i \in received'
    <3> SUFFICES ASSUME NEW i \in DOMAIN outbox', NEW j \in DOMAIN outbox',
                        i < j, Posted(outbox'[i].kind), j \in received'
                 PROVE  i \in received'
      OBVIOUS
    <3>1. j \in 1 .. made
      BY <1>1, <1>3 DEF TableOK
    <3>2. j \notin new /\ i \notin new
      BY <1>0, <1>1, <2>2, <3>1
    <3>3. i \in kept /\ j \in kept
      BY <1>5, <3>2
    <3> QED
      BY <1>1, <1>3, <1>5, <3>3 DEF TableOK
  <2> QED
    BY <2>1, <2>2, <2>3, <2>4, <2>5, <2>6, Zenon DEF TableOK
<1>7. \A j \in DOMAIN outbox' : \/ j \in DOMAIN outbox /\ outbox'[j].kind = outbox[j].kind
                                \/ j \in Nat /\ j > made
  BY <1>0, <1>1, <1>5
<1>8. \A g \in Flushers :
        FlusherOK(pc[g], work[g], failures[g], outbox', received', exported', made')
  <2> TAKE g \in Flushers
  <2>1. FlusherOK(pc[g], work[g], failures[g], outbox, received, exported, made)
    BY <1>1 DEF FlushersOK
  <2>2. made' \in Nat /\ made <= made' /\ received \subseteq received' /\ exported \subseteq exported'
    BY <1>1, <1>2, <1>3
  <2> QED
    BY <1>1, <1>7, <2>1, <2>2, Grows
<1>9. FlushersOK'
  BY <1>1, <1>3, <1>8, TableStep
<1>10. BookOK'
  BY <1>1, <1>2, <1>3, OutboxAssumption DEF BookOK
<1> QED
  BY <1>6, <1>9, <1>10 DEF IInv

\* Rows go, and nothing else happens.
LEMMA PruneOK ==
  ASSUME IInv, NEW owner \in Owners, Prune(owner)
  PROVE  IInv'
<1>1. TableOK(outbox, received, exported, made) /\ FlushersOK /\ BookOK /\ made \in Nat
  BY OutboxAssumption DEF IInv, BookOK
<1>2. /\ outbox' = [id \in DOMAIN outbox' |-> outbox'[id]]
      /\ DOMAIN outbox' \subseteq DOMAIN outbox
      /\ \A id \in DOMAIN outbox' : outbox'[id] = outbox[id]
  BY DEF Prune
<1>3. /\ UNCHANGED <<lastId, broken, crashes>> /\ UNCHANGED flush
      /\ received' = received /\ exported' = exported /\ made' = made
  BY DEF Prune
<1>4. TableOK(outbox', received', exported', made')
  BY <1>1, <1>2, <1>3 DEF TableOK
<1>5. \A g \in Flushers :
        FlusherOK(pc[g], work[g], failures[g], outbox', received', exported', made')
  <2> TAKE g \in Flushers
  <2>1. FlusherOK(pc[g], work[g], failures[g], outbox, received, exported, made)
    BY <1>1 DEF FlushersOK
  <2>2. \A j \in DOMAIN outbox' : j \in DOMAIN outbox /\ outbox'[j].kind = outbox[j].kind
    BY <1>2
  <2>3. made' \in Nat /\ made <= made' /\ received \subseteq received' /\ exported \subseteq exported'
    BY <1>1, <1>3
  <2> QED
    BY <1>1, <2>1, <2>2, <2>3, Grows
<1>6. FlushersOK'
  BY <1>1, <1>3, <1>5, TableStep
<1>7. BookOK'
  BY <1>1, <1>3 DEF BookOK
<1> QED
  BY <1>4, <1>6, <1>7 DEF IInv

\* Whatever is enqueued, the invariant holds.
LEMMA EnqueueOK ==
  ASSUME IInv, Enqueue
  PROVE  IInv'
<1>1. ASSUME NEW owner \in Owners, NEW kind \in Kinds, AppendRow(owner, kind) PROVE IInv'
  BY <1>1, InsertOK DEF AppendRow
<1>2. ASSUME NEW owner \in Owners, NEW n \in 0 .. MaxReplace, Replace(owner, n) PROVE IInv'
  <2>1. n \in Nat /\ "tool_spans" \in Kinds
    BY OutboxAssumption DEF Kinds
  <2> DEFINE kept == {id \in DOMAIN outbox : ~(/\ outbox[id].owner = owner
                                               /\ outbox[id].kind = "tool_spans"
                                               /\ ~outbox[id].sent)}
  <2>2. kept \subseteq DOMAIN outbox /\ Insert(kept, owner, "tool_spans", n)
    BY <1>2 DEF Replace
  <2> HIDE DEF kept
  <2> QED
    BY <2>1, <2>2, InsertOK
<1> QED
  BY <1>1, <1>2, PruneOK DEF Enqueue

\* The batches of an empty sequence, of a tail and of a split head.
LEMMA TailOfWork ==
  ASSUME NEW w \in Seq(SUBSET Item), w # <<>>
  PROVE  /\ Head(w) = w[1] /\ 1 \in 1 .. Len(w) /\ Len(w) \in Nat
         /\ Tail(w) \in Seq(SUBSET Item) /\ Len(Tail(w)) = Len(w) - 1
         /\ \A k \in 1 .. Len(w) - 1 : Tail(w)[k] = w[k + 1]
<1>1. Len(w) \in Nat /\ Len(w) # 0
  BY EmptySeq, LenProperties
<1>2. /\ Tail(w) \in Seq(SUBSET Item) /\ Len(Tail(w)) = Len(w) - 1
      /\ \A k \in 1 .. Len(Tail(w)) : Tail(w)[k] = w[k + 1]
  BY HeadTailProperties
<1>3. Head(w) = w[1]
  OBVIOUS
<1> QED
  BY <1>1, <1>2, <1>3

\* A flusher that gives up knows nothing, which is consistent with any table.
LEMMA IdleOK ==
  ASSUME NEW ob, NEW rc, NEW ex, NEW md
  PROVE  FlusherOK("idle", <<>>, 0, ob, rc, ex, md)
<1>1. <<>> \in Seq(SUBSET Item) /\ Len(<<>>) = 0 /\ 0 \in 0 .. MaxFailures
  BY EmptySeq, OutboxAssumption
<1> QED
  BY <1>1 DEF FlusherOK, Labels

\* What an attempt of flusher f, whatever its outcome, does to the table and to
\* what the flushers know of it.
LEMMA AttemptWorld ==
  ASSUME IInv, NEW f \in Flushers, pc[f] = "post", NEW taken \in BOOLEAN, Attempt(f, taken),
         received' = received
           \/ received' = received \cup Payloads({item \in Batch(f) : Posted(item.kind)})
  PROVE  /\ TableOK(outbox', received', exported', made')
         /\ UNCHANGED <<outbox, lastId, made, crashes>>
         /\ received \subseteq received' /\ exported \subseteq exported'
         /\ \A g \in Flushers :
              FlusherOK(pc[g], work[g], failures[g], outbox', received', exported', made')
         /\ taken => exported' = exported \cup Payloads(Batch(f))
         /\ work[f] # <<>> /\ work[f] \in Seq(SUBSET Item)
<1>1. TableOK(outbox, received, exported, made) /\ FlushersOK /\ made \in Nat
  BY OutboxAssumption DEF IInv, BookOK
<1>2. FlusherOK(pc[f], work[f], failures[f], outbox, received, exported, made)
  BY <1>1 DEF FlushersOK
<1>3. work[f] # <<>> /\ work[f] \in Seq(SUBSET Item)
  BY <1>2 DEF FlusherOK
<1>4. Batch(f) = work[f][1]
  BY <1>3, TailOfWork DEF Batch
<1>5. /\ exported' = exported \/ exported' = exported \cup Payloads(Batch(f))
      /\ taken => exported' = exported \cup Payloads(Batch(f))
  BY DEF Attempt, FanOut
<1>6. UNCHANGED <<outbox, lastId, made, crashes>>
  BY DEF Attempt, queue
<1>7. /\ TableOK(outbox, received', exported', made)
      /\ received \subseteq received' /\ exported \subseteq exported'
  <2> DEFINE stored == Payloads({item \in work[f][1] : Posted(item.kind)})
  <2>1. received' = received \/ received' = received \cup stored
    BY <1>4
  <2>2. exported' = exported \/ exported' = exported \cup Payloads(work[f][1])
    BY <1>4, <1>5
  <2>3. PICK s : s = stored
    OBVIOUS
  <2>4. received' = received \/ received' = received \cup s
    BY <2>1, <2>3
  <2>5. s = Payloads({item \in work[f][1] : Posted(item.kind)})
    BY <2>3
  <2> HIDE DEF stored
  <2> QED
    BY <1>1, <1>2, <1>3, <2>2, <2>4, <2>5, Deliver
<1>8. \A g \in Flushers :
        FlusherOK(pc[g], work[g], failures[g], outbox', received', exported', made')
  <2> TAKE g \in Flushers
  <2>1. FlusherOK(pc[g], work[g], failures[g], outbox, received, exported, made)
    BY <1>1 DEF FlushersOK
  <2>2. made' \in Nat /\ made <= made'
    BY <1>1, <1>6
  <2>3. \A j \in DOMAIN outbox' : j \in DOMAIN outbox /\ outbox'[j].kind = outbox[j].kind
    BY <1>6
  <2> QED
    BY <1>1, <1>7, <2>1, <2>2, <2>3, Grows
<1> QED
  BY <1>3, <1>5, <1>6, <1>7, <1>8

\* Giving up, after any attempt.
LEMMA GiveUpOK ==
  ASSUME IInv, NEW f \in Flushers, GiveUp(f),
         \A g \in Flushers :
           FlusherOK(pc[g], work[g], failures[g], outbox', received', exported', made')
  PROVE  FlushersOK'
<1>1. /\ work' = [work EXCEPT ![f] = <<>>] /\ failures' = [failures EXCEPT ![f] = 0]
      /\ pc' = [pc EXCEPT ![f] = "idle"]
  BY DEF GiveUp, NextBatch, Goto
<1>2. FlushersOK
  BY DEF IInv
<1> QED
  BY <1>1, <1>2, IdleOK, FlusherStep

\* Staying where it is, after any attempt.
LEMMA StayOK ==
  ASSUME IInv, UNCHANGED flush,
         \A g \in Flushers :
           FlusherOK(pc[g], work[g], failures[g], outbox', received', exported', made')
  PROVE  FlushersOK'
<1>1. FlushersOK
  BY DEF IInv
<1> QED
  BY <1>1, TableStep

\* A batch that was packed holds every older row the server may not have.
LEMMA BeginOK ==
  ASSUME IInv, NEW f \in Flushers, NEW ids \in SUBSET PendingIds, Begin(f, ids)
  PROVE  IInv'
<1> DEFINE w == <<Items(ids)>>
<1>1. TableOK(outbox, received, exported, made) /\ FlushersOK /\ BookOK /\ made \in Nat
  BY OutboxAssumption DEF IInv, BookOK
<1>2. /\ work' = [work EXCEPT ![f] = w] /\ failures' = [failures EXCEPT ![f] = 0]
      /\ pc' = [pc EXCEPT ![f] = "post"]
  BY DEF Begin, NextBatch, Goto
<1>3. UNCHANGED <<outbox, lastId, made, received, exported, broken, crashes>>
  BY DEF Begin, queue
<1>4. \A item \in Items(ids) : /\ item \in Item /\ item.payload = item.id
                               /\ item.id \in DOMAIN outbox /\ item.id \in ids
                               /\ item.kind = outbox[item.id].kind
  <2> SUFFICES ASSUME NEW id \in ids
               PROVE  LET item == [id |-> id, kind |-> outbox[id].kind,
                                   payload |-> outbox[id].payload]
                      IN  item \in Item /\ item.payload = item.id /\ item.id \in DOMAIN outbox
    BY DEF Items
  <2>1. id \in DOMAIN outbox
    BY DEF PendingIds
  <2>2. id \in Nat /\ outbox[id] \in Row /\ outbox[id].payload = id
    BY <1>1, <2>1 DEF TableOK
  <2> QED
    BY <2>1, <2>2 DEF Item, Row
<1>5. ASSUME NEW item \in Items(ids), NEW j \in DOMAIN outbox, j < item.id, Posted(outbox[j].kind)
      PROVE  j \in received \/ \E other \in Items(ids) : other.id = j
  <2>1. CASE outbox[j].sent
    BY <1>1, <1>5, <2>1 DEF TableOK
  <2>2. CASE ~outbox[j].sent
    <3>1. j \in ids
      BY <1>4, <1>5, <2>2 DEF Begin, IsBatch, PendingIds
    <3>2. [id |-> j, kind |-> outbox[j].kind, payload |-> outbox[j].payload] \in Items(ids)
      BY <3>1 DEF Items
    <3> QED
      BY <3>2
  <2> QED
    BY <2>1, <2>2
<1>6. Items(ids) \subseteq Item
  BY <1>4
<1>7. w \in Seq(SUBSET Item) /\ w # <<>> /\ Len(w) = 1 /\ w[1] = Items(ids)
  BY <1>6
<1> HIDE DEF w
<1>8. FlusherOK("post", w, 0, outbox, received, exported, made)
  <2>1. 0 \in 0 .. MaxFailures /\ "post" \in Labels
    BY OutboxAssumption DEF Labels
  <2>2. \A k \in 1 .. Len(w) : k = 1
    BY <1>7
  <2>3. \A k \in 1 .. Len(w) : \A item \in w[k] :
          /\ item.payload = item.id /\ item.id \in 1 .. made
          /\ item.id \in DOMAIN outbox => outbox[item.id].kind = item.kind
    BY <1>1, <1>4, <1>7, <2>2 DEF TableOK
  <2>4. ASSUME NEW k \in 1 .. Len(w), NEW item \in w[k], NEW j \in DOMAIN outbox,
               j < item.id, Posted(outbox[j].kind)
        PROVE  j \in received \/ \E m \in 1 .. k : \E other \in w[m] : other.id = j
    <3>1. k = 1 /\ 1 \in 1 .. k
      BY <2>2
    <3> QED
      BY <1>5, <1>7, <2>4, <3>1
  <2> QED
    BY <1>7, <2>1, <2>3, <2>4 DEF FlusherOK
<1>9. FlushersOK'
  <2>1. \A g \in Flushers :
          FlusherOK(pc[g], work[g], failures[g], outbox', received', exported', made')
    BY <1>1, <1>3, Zenon DEF FlushersOK
  <2> QED
    BY <1>1, <1>2, <1>3, <1>8, <2>1, FlusherStep
<1> QED
  BY <1>1, <1>3, <1>9 DEF IInv, BookOK


\* What is kept beside the table and the flushers.
LEMMA BookKept ==
  ASSUME IInv, UNCHANGED <<lastId, made>>, broken' \in BOOLEAN, crashes' \in 0 .. MaxCrashes
  PROVE  BookOK'
BY DEF IInv, BookOK

\* Of a batch that may be posted, the server stores every payload.
LEMMA WholeBatch ==
  ASSUME NEW batch, \A item \in batch : Posted(item.kind)
  PROVE  Payloads({item \in batch : Posted(item.kind)}) = Payloads(batch)
<1>1. {item \in batch : Posted(item.kind)} = batch
  OBVIOUS
<1> QED
  BY <1>1

\* After an accepted request the flusher goes on to mark rows that the server,
\* and with strict exporters the exporters too, have.
LEMMA AcceptedOK ==
  ASSUME IInv, NEW f \in Flushers, pc[f] = "post", NEW taken \in BOOLEAN, Accepted(f, taken)
  PROVE  IInv'
<1>1. /\ received' = received \cup Payloads({item \in Batch(f) : Posted(item.kind)})
      /\ Attempt(f, taken) /\ broken' = broken
  BY DEF Accepted
<1>2. /\ TableOK(outbox', received', exported', made')
      /\ UNCHANGED <<outbox, lastId, made, crashes>>
      /\ \A g \in Flushers :
           FlusherOK(pc[g], work[g], failures[g], outbox', received', exported', made')
      /\ taken => exported' = exported \cup Payloads(Batch(f))
      /\ work[f] # <<>> /\ work[f] \in Seq(SUBSET Item)
  BY <1>1, AttemptWorld
<1>3. BookOK'
  BY <1>1, <1>2, BookKept DEF IInv, BookOK
<1>4. FlushersOK'
  <2>1. CASE taken \/ FailOpen
    <3>1. FlusherOK("post", work[f], failures[f], outbox', received', exported', made')
      BY <1>2
    <3>2. Batch(f) = work[f][1] /\ 1 \in 1 .. Len(work[f])
      BY <1>2, TailOfWork DEF Batch
    <3>3. \A item \in work[f][1] : /\ Posted(item.kind) => item.id \in received'
                                   /\ ~FailOpen => item.id \in exported'
      BY <1>1, <1>2, <2>1, <3>1, <3>2 DEF FlusherOK, Payloads
    <3>4. FlusherOK("mark", work[f], failures[f], outbox', received', exported', made')
      BY <3>1, <3>3 DEF FlusherOK, Labels
    <3>5. /\ pc' = [pc EXCEPT ![f] = "mark"] /\ work' = [work EXCEPT ![f] = work[f]]
          /\ failures' = [failures EXCEPT ![f] = failures[f]]
      BY <2>1 DEF Accepted, Goto, IInv, FlushersOK
    <3> QED
      BY <1>2, <3>4, <3>5, FlusherStep DEF IInv
  <2>2. CASE ~(taken \/ FailOpen)
    BY <1>2, <2>2, GiveUpOK DEF Accepted
  <2> QED
    BY <2>1, <2>2
<1> QED
  BY <1>2, <1>3, <1>4 DEF IInv

\* Splitting the first batch keeps the order: the left half comes first, and
\* whatever the right half and the later batches rely on comes before them.
LEMMA SplitOK ==
  ASSUME NEW w, NEW n, NEW ob, NEW rc, NEW ex, NEW md \in Nat,
         FlusherOK("post", w, n, ob, rc, ex, md), DOMAIN ob \subseteq Nat,
         w # <<>>, w \in Seq(SUBSET Item), NEW left, IsLeftHalf(left, w[1])
  PROVE  FlusherOK("post", <<left, w[1] \ left>> \o Tail(w), 0, ob, rc, ex, md)
<1> DEFINE two == <<left, w[1] \ left>>
           ww == two \o Tail(w)
<1>1. /\ Len(w) \in Nat /\ 1 \in 1 .. Len(w) /\ Tail(w) \in Seq(SUBSET Item)
      /\ Len(Tail(w)) = Len(w) - 1 /\ \A k \in 1 .. Len(w) - 1 : Tail(w)[k] = w[k + 1]
  BY TailOfWork
<1>2. w[1] \in SUBSET Item /\ left \subseteq w[1]
  BY <1>1, ElementOfSeq DEF IsLeftHalf
<1>3. two \in Seq(SUBSET Item) /\ Len(two) = 2 /\ two[1] = left /\ two[2] = w[1] \ left
  BY <1>2
<1>4. /\ ww \in Seq(SUBSET Item) /\ Len(ww) = Len(w) + 1 /\ ww[1] = left /\ ww[2] = w[1] \ left
      /\ \A k \in 3 .. Len(ww) : ww[k] = w[k - 1]
  <2>1. /\ ww \in Seq(SUBSET Item) /\ Len(ww) = Len(two) + Len(Tail(w))
        /\ \A k \in 1 .. Len(two) + Len(Tail(w)) :
             ww[k] = IF k <= Len(two) THEN two[k] ELSE Tail(w)[k - Len(two)]
    BY <1>1, <1>3, ConcatProperties
  <2> HIDE DEF two, ww
  <2>2. Len(ww) = Len(w) + 1 /\ ww[1] = left /\ ww[2] = w[1] \ left
    BY <1>1, <1>3, <2>1
  <2>3. ASSUME NEW k \in 3 .. Len(ww) PROVE ww[k] = w[k - 1]
    <3>1. ww[k] = Tail(w)[k - 2] /\ k - 2 \in 1 .. Len(w) - 1 /\ k - 2 + 1 = k - 1
      BY <1>1, <1>3, <2>1, <2>2
    <3> QED
      BY <1>1, <3>1
  <2> QED
    BY <2>1, <2>2, <2>3
<1> HIDE DEF two, ww
<1>5. \A k \in 1 .. Len(ww) : k = 1 \/ k = 2 \/ (k \in 3 .. Len(ww) /\ k - 1 \in 2 .. Len(w))
  BY <1>1, <1>4
<1>6. ASSUME NEW k \in 1 .. Len(ww), NEW item \in ww[k]
      PROVE  /\ item.payload = item.id /\ item.id \in 1 .. md
             /\ item.id \in DOMAIN ob => ob[item.id].kind = item.kind
  <2>1. PICK i \in 1 .. Len(w) : item \in w[i]
    BY <1>1, <1>2, <1>4, <1>5, <1>6
  <2> QED
    BY <2>1 DEF FlusherOK
<1>7. ASSUME NEW k \in 1 .. Len(ww), NEW item \in ww[k], NEW j \in DOMAIN ob,
             j < item.id, Posted(ob[j].kind)
      PROVE  j \in rc \/ \E m \in 1 .. k : \E other \in ww[m] : other.id = j
  <2>1. \A i \in 1 .. Len(w) :
          item \in w[i] => j \in rc \/ \E m \in 1 .. i : \E other \in w[m] : other.id = j
    BY <1>7 DEF FlusherOK
  <2>2. CASE k = 1
    <3>1. item \in left /\ item \in w[1]
      BY <1>2, <1>4, <1>7, <2>2
    <3>2. \A m \in 1 .. 1 : m = 1
      OBVIOUS
    <3>3. j \in rc \/ \E other \in w[1] : other.id = j
      BY <1>1, <2>1, <3>1, <3>2, Zenon
    <3>4. ASSUME NEW other \in w[1], other.id = j PROVE other \in left
      <4>1. ASSUME other \notin left PROVE FALSE
        <5>1. item.id < j
          BY <3>1, <3>4, <4>1 DEF IsLeftHalf
        <5>2. item.id \in Nat /\ j \in Nat
          BY <1>6
        <5> QED
          BY <1>7, <5>1, <5>2
      <4> QED
        BY <4>1
    <3> QED
      BY <1>4, <2>2, <3>3, <3>4
  <2>3. CASE k = 2
    <3>1. item \in w[1]
      BY <1>4, <1>7, <2>3
    <3>2. \A m \in 1 .. 1 : m = 1
      OBVIOUS
    <3>3. j \in rc \/ \E other \in w[1] : other.id = j
      BY <1>1, <2>1, <3>1, <3>2, Zenon
    <3> QED
      BY <1>4, <2>3, <3>3
  <2>4. CASE k \in 3 .. Len(ww)
    <3>1. item \in w[k - 1] /\ k - 1 \in 1 .. Len(w)
      BY <1>1, <1>4, <1>7, <2>4
    <3>2. j \in rc \/ \E m \in 1 .. k - 1 : \E other \in w[m] : other.id = j
      BY <2>1, <3>1
    <3>3. ASSUME NEW m \in 1 .. k - 1, NEW other \in w[m], other.id = j
          PROVE  \E i \in 1 .. k : \E o \in ww[i] : o.id = j
      <4>1. CASE m = 1
        BY <1>4, <2>4, <3>3, <4>1
      <4>2. CASE m # 1
        <5>1. m + 1 \in 3 .. Len(ww) /\ m + 1 \in 1 .. k /\ m + 1 - 1 = m
          BY <1>1, <1>4, <2>4, <4>2
        <5>2. ww[m + 1] = w[m]
          BY <1>4, <5>1
        <5> QED
          BY <3>3, <5>1, <5>2
      <4> QED
        BY <4>1, <4>2
    <3> QED
      BY <3>2, <3>3
  <2> QED
    BY <1>5, <2>2, <2>3, <2>4
<1>8. ww # <<>>
  BY <1>1, <1>4
<1>9. FlusherOK("post", ww, 0, ob, rc, ex, md)
  <2>1. 0 \in 0 .. MaxFailures /\ "post" \in Labels
    BY OutboxAssumption DEF Labels
  <2> QED
    BY <1>4, <1>6, <1>7, <1>8, <2>1 DEF FlusherOK
<1> QED
  BY <1>9 DEF ww, two

\* No answer to a request, except acceptance, makes a flusher clear a row.
LEMMA PostOK ==
  ASSUME IInv, NEW f \in Flushers, Post(f)
  PROVE  IInv'
<1> USE DEF Batch
<1>1. pc[f] = "post"
  BY DEF Post
<1>2. ASSUME NEW taken \in BOOLEAN, Attempt(f, taken),
             \/ received' = received
             \/ /\ received' = received \cup Payloads(Batch(f))
                /\ \A item \in Batch(f) : Posted(item.kind)
      PROVE  /\ TableOK(outbox', received', exported', made')
             /\ UNCHANGED <<outbox, lastId, made, crashes>>
             /\ \A g \in Flushers :
                  FlusherOK(pc[g], work[g], failures[g], outbox', received', exported', made')
             /\ work[f] # <<>> /\ work[f] \in Seq(SUBSET Item)
  <2>1. \/ received' = received
        \/ received' = received \cup Payloads({item \in Batch(f) : Posted(item.kind)})
    BY <1>2, WholeBatch
  <2> QED
    BY <1>1, <1>2, <2>1, AttemptWorld
<1>3. ASSUME NEW taken \in BOOLEAN, NEW left \in SUBSET Batch(f), TooLarge(f, taken, left)
      PROVE  IInv'
  <2>1. /\ TableOK(outbox', received', exported', made')
        /\ UNCHANGED <<outbox, lastId, made, crashes>>
        /\ \A g \in Flushers :
             FlusherOK(pc[g], work[g], failures[g], outbox', received', exported', made')
        /\ work[f] # <<>> /\ work[f] \in Seq(SUBSET Item)
    BY <1>2, <1>3 DEF TooLarge
  <2>2. Head(work[f]) = work[f][1]
    BY <2>1, TailOfWork
  <2> DEFINE ww == <<left, work[f][1] \ left>> \o Tail(work[f])
  <2>3. FlusherOK("post", ww, 0, outbox', received', exported', made')
    <3>1. FlusherOK("post", work[f], failures[f], outbox', received', exported', made')
      BY <1>1, <2>1
    <3>2. DOMAIN outbox' \subseteq Nat
      BY <2>1 DEF TableOK
    <3>3. made' \in Nat
      BY <2>1, OutboxAssumption DEF IInv, BookOK
    <3>4. IsLeftHalf(left, work[f][1])
      BY <1>3, <2>2 DEF TooLarge
    <3> QED
      BY <2>1, <3>1, <3>2, <3>3, <3>4, SplitOK
  <2>4. NextBatch(f, ww) /\ UNCHANGED broken
    BY <1>3, <2>2 DEF TooLarge
  <2> HIDE DEF ww
  <2>5. ww # <<>>
    BY <2>3 DEF FlusherOK
  <2>6. /\ pc' = [pc EXCEPT ![f] = "post"] /\ work' = [work EXCEPT ![f] = ww]
        /\ failures' = [failures EXCEPT ![f] = 0]
    BY <2>4, <2>5 DEF NextBatch, Goto
  <2>7. FlushersOK'
    BY <2>1, <2>3, <2>6, FlusherStep DEF IInv
  <2>8. BookOK'
    BY <2>1, <2>4, BookKept DEF IInv, BookOK
  <2> QED
    BY <2>1, <2>7, <2>8 DEF IInv
<1>4. ASSUME NEW taken \in BOOLEAN, RateLimited(f, taken) PROVE IInv'
  <2>1. /\ TableOK(outbox', received', exported', made')
        /\ UNCHANGED <<outbox, lastId, made, crashes>>
        /\ \A g \in Flushers :
             FlusherOK(pc[g], work[g], failures[g], outbox', received', exported', made')
    BY <1>2, <1>4 DEF RateLimited
  <2>2. FlushersOK'
    BY <1>4, <2>1, StayOK DEF RateLimited
  <2>3. BookOK'
    BY <1>4, <2>1, BookKept DEF RateLimited, IInv, BookOK
  <2> QED
    BY <2>1, <2>2, <2>3 DEF IInv
<1>5. ASSUME NEW taken \in BOOLEAN, NEW stored \in BOOLEAN, ServerError(f, taken, stored)
      PROVE  IInv'
  <2>1. /\ TableOK(outbox', received', exported', made')
        /\ UNCHANGED <<outbox, lastId, made, crashes>>
        /\ \A g \in Flushers :
             FlusherOK(pc[g], work[g], failures[g], outbox', received', exported', made')
    BY <1>2, <1>5 DEF ServerError
  <2>2. FlushersOK'
    <3>1. CASE failures[f] < MaxFailures
      <4>1. FlusherOK(pc[f], work[f], failures[f] + 1, outbox', received', exported', made')
        <5>1. FlusherOK(pc[f], work[f], failures[f], outbox', received', exported', made')
          BY <2>1
        <5>2. failures[f] + 1 \in 0 .. MaxFailures
          BY <3>1, <5>1, OutboxAssumption DEF FlusherOK
        <5> QED
          BY <5>1, <5>2 DEF FlusherOK
      <4>2. /\ pc' = [pc EXCEPT ![f] = pc[f]] /\ work' = [work EXCEPT ![f] = work[f]]
            /\ failures' = [failures EXCEPT ![f] = failures[f] + 1]
        BY <1>5, <3>1 DEF ServerError, IInv, FlushersOK
      <4> QED
        BY <2>1, <4>1, <4>2, FlusherStep DEF IInv
    <3>2. CASE ~(failures[f] < MaxFailures)
      BY <1>5, <2>1, <3>2, GiveUpOK DEF ServerError
    <3> QED
      BY <3>1, <3>2
  <2>3. BookOK'
    BY <1>5, <2>1, BookKept DEF ServerError, IInv, BookOK
  <2> QED
    BY <2>1, <2>2, <2>3 DEF IInv
<1>6. ASSUME NEW taken \in BOOLEAN, Refused(f, taken) PROVE IInv'
  <2>1. /\ TableOK(outbox', received', exported', made')
        /\ UNCHANGED <<outbox, lastId, made, crashes>>
        /\ \A g \in Flushers :
             FlusherOK(pc[g], work[g], failures[g], outbox', received', exported', made')
    BY <1>2, <1>6 DEF Refused
  <2>2. FlushersOK'
    BY <1>6, <2>1, GiveUpOK DEF Refused
  <2>3. BookOK'
    BY <1>6, <2>1, BookKept DEF Refused, IInv, BookOK
  <2> QED
    BY <2>1, <2>2, <2>3 DEF IInv
<1>7. ASSUME NEW taken \in BOOLEAN, NEW stored \in BOOLEAN, NoResponse(f, taken, stored)
      PROVE  IInv'
  <2>1. /\ TableOK(outbox', received', exported', made')
        /\ UNCHANGED <<outbox, lastId, made, crashes>>
        /\ \A g \in Flushers :
             FlusherOK(pc[g], work[g], failures[g], outbox', received', exported', made')
    BY <1>2, <1>7 DEF NoResponse
  <2>2. FlushersOK'
    BY <1>7, <2>1, GiveUpOK DEF NoResponse
  <2>3. BookOK'
    BY <1>7, <2>1, BookKept DEF NoResponse, IInv, BookOK
  <2> QED
    BY <2>1, <2>2, <2>3 DEF IInv
<1> QED
  BY <1>1, <1>3, <1>4, <1>5, <1>6, <1>7, AcceptedOK DEF Post

\* Marking clears rows that the flusher knows to be delivered.
LEMMA MarkOK ==
  ASSUME IInv, NEW f \in Flushers, Mark(f)
  PROVE  IInv'
<1>1. TableOK(outbox, received, exported, made) /\ FlushersOK /\ BookOK /\ made \in Nat
  BY OutboxAssumption DEF IInv, BookOK
<1>2. FlusherOK("mark", work[f], failures[f], outbox, received, exported, made)
  BY <1>1 DEF FlushersOK, Mark
<1>3. work[f] \in Seq(SUBSET Item) /\ work[f] # <<>>
  BY <1>2 DEF FlusherOK
<1>4. Batch(f) = work[f][1] /\ 1 \in 1 .. Len(work[f])
  BY <1>3, TailOfWork DEF Batch
<1>5. UNCHANGED <<lastId, made, received, exported, work, failures, broken, crashes>>
  BY DEF Mark
<1>6. /\ outbox' = [id \in DOMAIN outbox' |-> outbox'[id]]
      /\ DOMAIN outbox' = DOMAIN outbox
      /\ \A id \in DOMAIN outbox :
           outbox'[id] = IF \E item \in work[f][1] : item.id = id
                         THEN [outbox[id] EXCEPT !.sent = TRUE] ELSE outbox[id]
  BY <1>4 DEF Mark
<1>7. \A id \in DOMAIN outbox :
        /\ outbox'[id] \in Row /\ outbox'[id].kind = outbox[id].kind
        /\ outbox'[id].payload = outbox[id].payload
        /\ outbox'[id].sent => outbox[id].sent \/ \E item \in work[f][1] : item.id = id
  <2> TAKE id \in DOMAIN outbox
  <2>1. outbox[id] \in Row
    BY <1>1 DEF TableOK
  <2>2. CASE \E item \in work[f][1] : item.id = id
    <3>1. outbox'[id] = [outbox[id] EXCEPT !.sent = TRUE]
      BY <1>6, <2>2
    <3> QED
      BY <2>1, <2>2, <3>1 DEF Row
  <2>3. CASE ~\E item \in work[f][1] : item.id = id
    <3>1. outbox'[id] = outbox[id]
      BY <1>6, <2>3
    <3> QED
      BY <2>1, <3>1
  <2> QED
    BY <2>2, <2>3
<1>8. ASSUME NEW id \in DOMAIN outbox', outbox'[id].sent
      PROVE  (Posted(outbox'[id].kind) => id \in received) /\ (~FailOpen => id \in exported)
  <2>1. CASE outbox[id].sent
    BY <1>1, <1>6, <1>7, <2>1 DEF TableOK
  <2>2. CASE \E item \in work[f][1] : item.id = id
    BY <1>2, <1>4, <1>6, <1>7, <2>2 DEF FlusherOK
  <2> QED
    BY <1>6, <1>7, <1>8, <2>1, <2>2
<1>9. TableOK(outbox', received', exported', made')
  BY <1>1, <1>5, <1>6, <1>7, <1>8 DEF TableOK
<1>10. \A g \in Flushers :
         FlusherOK(pc[g], work[g], failures[g], outbox', received', exported', made')
  <2> TAKE g \in Flushers
  <2>1. FlusherOK(pc[g], work[g], failures[g], outbox, received, exported, made)
    BY <1>1 DEF FlushersOK
  <2>2. \A j \in DOMAIN outbox' : j \in DOMAIN outbox /\ outbox'[j].kind = outbox[j].kind
    BY <1>6, <1>7
  <2>3. made' \in Nat /\ made <= made' /\ received \subseteq received' /\ exported \subseteq exported'
    BY <1>1, <1>5
  <2> QED
    BY <1>1, <2>1, <2>2, <2>3, Grows
<1>11. FlushersOK'
  <2>1. pc[f] = "mark"
    BY DEF Mark
  <2>2. FlusherOK("ok", work[f], failures[f], outbox', received', exported', made')
    BY <1>10, <2>1 DEF FlusherOK, Labels
  <2>3. /\ pc' = [pc EXCEPT ![f] = "ok"] /\ work' = [work EXCEPT ![f] = work[f]]
        /\ failures' = [failures EXCEPT ![f] = failures[f]]
    BY <1>1, <1>5 DEF Mark, Goto, FlushersOK
  <2> QED
    BY <1>1, <1>10, <2>2, <2>3, FlusherStep
<1>12. BookOK'
  BY <1>1, <1>5, BookKept DEF BookOK
<1> QED
  BY <1>9, <1>11, <1>12 DEF IInv

\* The next batch may rely on the one just marked: the server has it.
LEMMA TailOK ==
  ASSUME NEW w, NEW n, NEW ob, NEW rc, NEW ex, NEW md \in Nat,
         FlusherOK("ok", w, n, ob, rc, ex, md),
         w # <<>>, w \in Seq(SUBSET Item), Tail(w) # <<>>
  PROVE  FlusherOK("post", Tail(w), 0, ob, rc, ex, md)
<1> DEFINE t == Tail(w)
<1>1. /\ Len(w) \in Nat /\ 1 \in 1 .. Len(w) /\ t \in Seq(SUBSET Item)
      /\ Len(t) = Len(w) - 1 /\ \A k \in 1 .. Len(w) - 1 : t[k] = w[k + 1]
  BY TailOfWork
<1>2. t # <<>>
  OBVIOUS
<1> HIDE DEF t
<1>3. \A k \in 1 .. Len(t) : k + 1 \in 1 .. Len(w) /\ t[k] = w[k + 1]
  BY <1>1
<1>4. ASSUME NEW k \in 1 .. Len(t), NEW item \in t[k]
      PROVE  /\ item.payload = item.id /\ item.id \in 1 .. md
             /\ item.id \in DOMAIN ob => ob[item.id].kind = item.kind
  <2>1. k + 1 \in 1 .. Len(w) /\ item \in w[k + 1]
    BY <1>3, <1>4
  <2> QED
    BY <2>1 DEF FlusherOK
<1>5. ASSUME NEW k \in 1 .. Len(t), NEW item \in t[k], NEW j \in DOMAIN ob,
             j < item.id, Posted(ob[j].kind)
      PROVE  j \in rc \/ \E m \in 1 .. k : \E other \in t[m] : other.id = j
  <2>1. k + 1 \in 1 .. Len(w) /\ item \in w[k + 1]
    BY <1>3, <1>5
  <2>2. j \in rc \/ \E m \in 1 .. k + 1 : \E other \in w[m] : other.id = j
    BY <1>5, <2>1 DEF FlusherOK
  <2>3. ASSUME NEW m \in 1 .. k + 1, NEW other \in w[m], other.id = j
        PROVE  j \in rc \/ \E i \in 1 .. k : \E o \in t[i] : o.id = j
    <3>1. CASE m = 1
      <4>1. other.kind = ob[j].kind
        BY <1>1, <2>3, <3>1 DEF FlusherOK
      <4> QED
        BY <1>5, <2>3, <3>1, <4>1 DEF FlusherOK
    <3>2. CASE m # 1
      <4>1. m - 1 \in 1 .. k /\ m - 1 \in 1 .. Len(w) - 1 /\ m - 1 + 1 = m
        BY <1>1, <2>1, <3>2
      <4>2. t[m - 1] = w[m]
        BY <1>1, <4>1
      <4> QED
        BY <2>3, <4>1, <4>2
    <3> QED
      BY <3>1, <3>2
  <2> QED
    BY <2>2, <2>3
<1>6. 0 \in 0 .. MaxFailures /\ "post" \in Labels
  BY OutboxAssumption DEF Labels
<1>7. FlusherOK("post", t, 0, ob, rc, ex, md)
  BY <1>1, <1>2, <1>4, <1>5, <1>6 DEF FlusherOK
<1> QED
  BY <1>7 DEF t

\* What the flushers know when neither the table nor the deliveries change.
LEMMA NothingDelivered ==
  ASSUME IInv, UNCHANGED <<queue, received, exported>>
  PROVE  /\ TableOK(outbox', received', exported', made')
         /\ \A g \in Flushers :
              FlusherOK(pc[g], work[g], failures[g], outbox', received', exported', made')
<1>1. outbox' = outbox /\ received' = received /\ exported' = exported /\ made' = made
  BY DEF queue
<1>2. TableOK(outbox', received', exported', made')
  BY <1>1 DEF IInv
<1>3. \A g \in Flushers :
        FlusherOK(pc[g], work[g], failures[g], outbox', received', exported', made')
  BY <1>1, Zenon DEF IInv, FlushersOK
<1> QED
  BY <1>2, <1>3

\* The flusher goes on to the other half of a split batch, or starts anew.
LEMMA StateOkOK ==
  ASSUME IInv, NEW f \in Flushers, StateOk(f)
  PROVE  IInv'
<1>1. /\ TableOK(outbox', received', exported', made')
      /\ \A g \in Flushers :
           FlusherOK(pc[g], work[g], failures[g], outbox', received', exported', made')
  BY NothingDelivered DEF StateOk
<1>2. FlusherOK("ok", work[f], failures[f], outbox', received', exported', made')
  BY <1>1 DEF StateOk
<1>3. work[f] # <<>> /\ work[f] \in Seq(SUBSET Item)
  BY <1>2 DEF FlusherOK
<1>4. FlushersOK'
  <2>1. CASE Tail(work[f]) = <<>>
    <3>1. GiveUp(f)
      BY <2>1 DEF StateOk, GiveUp
    <3> QED
      BY <1>1, <3>1, GiveUpOK
  <2>2. CASE Tail(work[f]) # <<>>
    <3>1. /\ pc' = [pc EXCEPT ![f] = "post"] /\ work' = [work EXCEPT ![f] = Tail(work[f])]
          /\ failures' = [failures EXCEPT ![f] = 0]
      BY <2>2 DEF StateOk, NextBatch, Goto
    <3>2. made' \in Nat
      BY OutboxAssumption DEF StateOk, queue, IInv, BookOK
    <3>3. FlusherOK("post", Tail(work[f]), 0, outbox', received', exported', made')
      BY <1>2, <1>3, <2>2, <3>2, TailOK
    <3> QED
      BY <1>1, <3>1, <3>3, FlusherStep DEF IInv
  <2> QED
    BY <2>1, <2>2
<1>5. BookOK'
  BY BookKept DEF StateOk, queue, IInv, BookOK
<1> QED
  BY <1>1, <1>4, <1>5 DEF IInv

\* A flusher that dies forgets what it knew.
LEMMA CrashOK ==
  ASSUME IInv, NEW f \in Flushers, Crash(f)
  PROVE  IInv'
<1>1. /\ TableOK(outbox', received', exported', made')
      /\ \A g \in Flushers :
           FlusherOK(pc[g], work[g], failures[g], outbox', received', exported', made')
  BY NothingDelivered DEF Crash
<1>2. FlushersOK'
  BY <1>1, GiveUpOK DEF Crash
<1>3. crashes' \in 0 .. MaxCrashes
  BY OutboxAssumption DEF Crash, IInv, BookOK
<1>4. BookOK'
  BY <1>3, BookKept DEF Crash, queue, IInv, BookOK
<1> QED
  BY <1>1, <1>2, <1>4 DEF IInv

-----------------------------------------------------------------------------
(* The invariant. *)

\* The empty outbox.
LEMMA InitOK == Init => IInv
<1> SUFFICES ASSUME Init PROVE IInv
  OBVIOUS
<1>1. TableOK(outbox, received, exported, made)
  BY DEF Init, TableOK
<1>2. FlushersOK
  <2>1. \A f \in Flushers :
          FlusherOK(pc[f], work[f], failures[f], outbox, received, exported, made)
    <3> TAKE f \in Flushers
    <3>1. pc[f] = "idle" /\ work[f] = <<>> /\ failures[f] = 0
      BY DEF Init
    <3> QED
      BY <3>1, IdleOK
  <2> QED
    BY <2>1 DEF Init, FlushersOK
<1>3. BookOK
  <2>1. lastId = 0 /\ made = 0 /\ broken = FALSE /\ crashes = 0
    BY DEF Init
  <2>2. lastId = made /\ made \in 0 .. MaxPayloads /\ crashes \in 0 .. MaxCrashes
    BY <2>1, OutboxAssumption
  <2>3. broken \in BOOLEAN
    BY <2>1
  <2> QED
    BY <2>2, <2>3 DEF BookOK
<1> QED
  BY <1>1, <1>2, <1>3 DEF IInv

\* Every step keeps the invariant.
LEMMA NextOK == IInv /\ [Next]_vars => IInv'
<1> SUFFICES ASSUME IInv, [Next]_vars PROVE IInv'
  OBVIOUS
<1>1. CASE Enqueue
  BY <1>1, EnqueueOK
<1>2. ASSUME NEW f \in Flushers, Flush(f) PROVE IInv'
  BY <1>2, BeginOK, PostOK, MarkOK, StateOkOK, CrashOK DEF Flush
<1>3. CASE UNCHANGED vars
  <2>1. /\ TableOK(outbox', received', exported', made')
        /\ \A g \in Flushers :
             FlusherOK(pc[g], work[g], failures[g], outbox', received', exported', made')
    BY <1>3, NothingDelivered DEF vars
  <2>2. FlushersOK'
    BY <1>3, <2>1, StayOK DEF vars
  <2>3. BookOK'
    BY <1>3, BookKept DEF vars, queue, IInv, BookOK
  <2> QED
    BY <2>1, <2>2, <2>3 DEF IInv
<1> QED
  BY <1>1, <1>2, <1>3 DEF Next

\* The outbox and the memory of every flusher agree in every reachable state,
\* whatever the flushers, owners, batch size and bounds
\* (list_outbox_pending to mark_outbox_sent).
THEOREM OutboxInvariant == Spec => []IInv
BY InitOK, NextOK, PTL DEF Spec


\* The tables the flushers share have the types the code gives them.
THEOREM TypeCorrect == Spec => []TypeOK
<1>1. IInv => TypeOK
  <2> SUFFICES ASSUME IInv PROVE TypeOK
    OBVIOUS
  <2>1. TableOK(outbox, received, exported, made) /\ FlushersOK /\ BookOK /\ lastId \in Nat
    BY OutboxAssumption DEF IInv, BookOK
  <2>2. \A f \in Flushers : /\ pc[f] \in Labels /\ work[f] \in Seq(SUBSET Item)
                            /\ failures[f] \in 0 .. MaxFailures
    BY <2>1 DEF FlushersOK, FlusherOK
  <2>3. /\ pc \in [Flushers -> Labels] /\ work \in [Flushers -> Seq(SUBSET Item)]
        /\ failures \in [Flushers -> 0 .. MaxFailures]
    BY <2>1, <2>2 DEF FlushersOK
  <2>4. /\ outbox = [id \in DOMAIN outbox |-> outbox[id]]
        /\ DOMAIN outbox \subseteq 1 .. lastId /\ \A id \in DOMAIN outbox : outbox[id] \in Row
        /\ received \subseteq 1 .. made /\ exported \subseteq 1 .. made
    BY <2>1 DEF TableOK, BookOK
  <2> QED
    BY <2>1, <2>3, <2>4, Zenon DEF TypeOK, BookOK
<1> QED
  BY <1>1, OutboxInvariant, PTL

\* Of two rows still in the outbox the server never has the later one without
\* the earlier one (list_outbox_pending, split_batch, mark_outbox_sent).
THEOREM InOrder == Spec => []DeliveredInOrder
<1>1. IInv => DeliveredInOrder
  BY DEF IInv, TableOK, DeliveredInOrder
<1> QED
  BY <1>1, OutboxInvariant, PTL

\* With strict exporters, a row marked sent was taken by all of them
\* (post_with_fanout).
THEOREM StrictExport == Spec => []ClearedRowsWereExported
<1>1. IInv => ClearedRowsWereExported
  BY DEF IInv, TableOK, ClearedRowsWereExported
<1> QED
  BY <1>1, OutboxInvariant, PTL

-----------------------------------------------------------------------------
(* The outbox implements AtLeastOnce. *)

\* What is queued and what is withdrawn, when payloads are ids.
LEMMA View ==
  ASSUME NEW ob, NEW rc, NEW ex, NEW md, TableOK(ob, rc, ex, md)
  PROVE  /\ {ob[id].payload : id \in {i \in {k \in DOMAIN ob : ~ob[k].sent} : Posted(ob[i].kind)}}
              = {id \in DOMAIN ob : ~ob[id].sent /\ Posted(ob[id].kind)}
         /\ {ob[id].payload : id \in DOMAIN ob} = DOMAIN ob
<1>1. \A id \in DOMAIN ob : ob[id].payload = id
  BY DEF TableOK
<1>2. \A ids : ids \subseteq DOMAIN ob => {ob[id].payload : id \in ids} = ids
  BY <1>1
<1> DEFINE ids == {i \in {k \in DOMAIN ob : ~ob[k].sent} : Posted(ob[i].kind)}
<1>3. ids = {id \in DOMAIN ob : ~ob[id].sent /\ Posted(ob[id].kind)} /\ ids \subseteq DOMAIN ob
  OBVIOUS
<1> HIDE DEF ids
<1>4. {ob[id].payload : id \in ids} = {id \in DOMAIN ob : ~ob[id].sent /\ Posted(ob[id].kind)}
  BY <1>2, <1>3
<1> QED
  BY <1>2, <1>4 DEF ids

\* The same, of the outbox before and after a step.
LEMMA Views ==
  ASSUME IInv, IInv'
  PROVE  /\ Queued = {id \in DOMAIN outbox : ~outbox[id].sent /\ Posted(outbox[id].kind)}
         /\ Queued' = {id \in DOMAIN outbox' : ~outbox'[id].sent /\ Posted(outbox'[id].kind)}
         /\ Withdrawn = (1 .. made) \ DOMAIN outbox
         /\ Withdrawn' = (1 .. made') \ DOMAIN outbox'
<1>1. TableOK(outbox, received, exported, made) /\ TableOK(outbox', received', exported', made')
  BY DEF IInv
<1> QED
  BY <1>1, View DEF Queued, Withdrawn, PendingIds

\* Rows come and go, nothing is delivered: payloads are put in and taken back.
LEMMA PutStep ==
  ASSUME IInv, IInv', received' = received,
         made <= made', DOMAIN outbox' \subseteq DOMAIN outbox \cup (made + 1 .. made'),
         made + 1 .. made' \subseteq DOMAIN outbox',
         \A id \in DOMAIN outbox \cap DOMAIN outbox' : outbox'[id] = outbox[id]
  PROVE  Delivery!Next
<1> DEFINE new == Queued' \ Queued
           old == DOMAIN outbox \ DOMAIN outbox'
<1>1. /\ Queued = {id \in DOMAIN outbox : ~outbox[id].sent /\ Posted(outbox[id].kind)}
      /\ Queued' = {id \in DOMAIN outbox' : ~outbox'[id].sent /\ Posted(outbox'[id].kind)}
      /\ Withdrawn = (1 .. made) \ DOMAIN outbox
      /\ Withdrawn' = (1 .. made') \ DOMAIN outbox'
  BY Views
<1>2. /\ DOMAIN outbox \subseteq 1 .. made /\ DOMAIN outbox' \subseteq 1 .. made'
      /\ received \subseteq 1 .. made /\ made \in Nat /\ made' \in 0 .. MaxPayloads
  BY OutboxAssumption DEF IInv, TableOK, BookOK
<1>3. new \subseteq made + 1 .. made'
  BY <1>1
<1>4. new \cap (Queued \cup received \cup Withdrawn) = {}
  <2>1. Queued \cup received \cup Withdrawn \subseteq 1 .. made
    BY <1>1, <1>2
  <2>2. (made + 1 .. made') \cap (1 .. made) = {}
    BY <1>2
  <2> QED
    BY <1>3, <2>1, <2>2
<1>5. Queued' = (Queued \ old) \cup new
  BY <1>1
<1>6. Withdrawn' = Withdrawn \cup old
  BY <1>1, <1>2
<1>7. new \in SUBSET (1 .. MaxPayloads) /\ old \in SUBSET (1 .. MaxPayloads)
  <2>1. 1 .. made' \subseteq 1 .. MaxPayloads /\ 1 .. made \subseteq 1 .. MaxPayloads
    BY <1>2, OutboxAssumption
  <2> QED
    BY <1>1, <1>2, <2>1
<1>8. Delivery!Put(new, old)
  BY <1>4, <1>5, <1>6 DEF Delivery!Put
<1> HIDE DEF new, old
<1> QED
  BY <1>7, <1>8 DEF Delivery!Next

\* The table stays and more is delivered: the server receives payloads.
LEMMA ReceiveStep ==
  ASSUME IInv', UNCHANGED <<outbox, made>>, received \subseteq received'
  PROVE  Delivery!Next
<1>1. Queued' = Queued /\ Withdrawn' = Withdrawn
  BY DEF Queued, Withdrawn, PendingIds
<1>2. received' \in SUBSET (1 .. MaxPayloads)
  BY OutboxAssumption DEF IInv, TableOK, BookOK
<1>3. Delivery!Receive(received')
  BY <1>1 DEF Delivery!Receive
<1> QED
  BY <1>2, <1>3 DEF Delivery!Next

\* Rows are marked: what leaves the queue has been received.
LEMMA ClearStep ==
  ASSUME IInv, IInv', NEW f \in Flushers, Mark(f)
  PROVE  Delivery!Next
<1>1. /\ Queued = {id \in DOMAIN outbox : ~outbox[id].sent /\ Posted(outbox[id].kind)}
      /\ Queued' = {id \in DOMAIN outbox' : ~outbox'[id].sent /\ Posted(outbox'[id].kind)}
      /\ Withdrawn = (1 .. made) \ DOMAIN outbox
      /\ Withdrawn' = (1 .. made') \ DOMAIN outbox'
  BY Views
<1>2. made' = made /\ received' = received /\ DOMAIN outbox' = DOMAIN outbox
  BY DEF Mark
<1>3. \A id \in DOMAIN outbox : /\ outbox'[id].kind = outbox[id].kind
                                /\ ~outbox'[id].sent => ~outbox[id].sent
  <2> TAKE id \in DOMAIN outbox
  <2>1. outbox[id] \in Row
    BY DEF IInv, TableOK
  <2>2. outbox'[id] = [outbox[id] EXCEPT !.sent = TRUE] \/ outbox'[id] = outbox[id]
    BY DEF Mark
  <2> QED
    BY <2>1, <2>2 DEF Row
<1>4. Queued' \subseteq Queued
  BY <1>1, <1>2, <1>3
<1>5. Queued \ Queued' \subseteq received
  BY <1>1, <1>2, <1>3 DEF IInv, TableOK
<1>6. Queued' = Queued \ (Queued \ Queued') /\ Withdrawn' = Withdrawn
  BY <1>1, <1>2, <1>4
<1>7. Delivery!Clear(Queued \ Queued')
  BY <1>2, <1>5, <1>6 DEF Delivery!Clear
<1>8. Queued \ Queued' \in SUBSET Queued
  OBVIOUS
<1> QED
  BY <1>7, <1>8 DEF Delivery!Next


\* Enqueueing puts payloads in and takes back those it replaces or prunes.
LEMMA EnqueueStep ==
  ASSUME IInv, Enqueue
  PROVE  Delivery!Next
<1>1. IInv'
  BY EnqueueOK
<1>2. made \in Nat
  BY OutboxAssumption DEF IInv, BookOK
<1>3. ASSUME NEW kept, kept \subseteq DOMAIN outbox, NEW owner \in Owners, NEW kind \in Kinds,
             NEW n \in Nat, Insert(kept, owner, kind, n)
      PROVE  Delivery!Next
  <2>1. made' = made + n /\ received' = received
    BY <1>3 DEF Insert
  <2>2. NewIds(n) = made + 1 .. made' /\ made <= made'
    BY <1>2, <2>1 DEF NewIds
  <2>3. DOMAIN outbox' = kept \cup NewIds(n) /\ \A id \in kept : outbox'[id] = outbox[id]
    BY <1>3, InsertRows
  <2>4. NewIds(n) \cap DOMAIN outbox = {}
    BY <1>2 DEF NewIds, IInv, TableOK
  <2> QED
    BY <1>1, <1>3, <2>1, <2>2, <2>3, <2>4, PutStep
<1>4. ASSUME NEW owner \in Owners, NEW kind \in Kinds, AppendRow(owner, kind)
      PROVE  Delivery!Next
  BY <1>3, <1>4 DEF AppendRow
<1>5. ASSUME NEW owner \in Owners, NEW n \in 0 .. MaxReplace, Replace(owner, n)
      PROVE  Delivery!Next
  <2>1. n \in Nat /\ "tool_spans" \in Kinds
    BY OutboxAssumption DEF Kinds
  <2> DEFINE kept == {id \in DOMAIN outbox : ~(/\ outbox[id].owner = owner
                                               /\ outbox[id].kind = "tool_spans"
                                               /\ ~outbox[id].sent)}
  <2>2. kept \subseteq DOMAIN outbox /\ Insert(kept, owner, "tool_spans", n)
    BY <1>5 DEF Replace
  <2> HIDE DEF kept
  <2> QED
    BY <1>3, <2>1, <2>2
<1>6. ASSUME NEW owner \in Owners, Prune(owner) PROVE Delivery!Next
  <2>1. /\ made' = made /\ received' = received
        /\ DOMAIN outbox' \subseteq DOMAIN outbox
        /\ \A id \in DOMAIN outbox' : outbox'[id] = outbox[id]
    BY <1>6 DEF Prune
  <2>2. made + 1 .. made' = {} /\ made <= made'
    BY <1>2, <2>1
  <2> QED
    BY <1>1, <2>1, <2>2, PutStep
<1> QED
  BY <1>4, <1>5, <1>6 DEF Enqueue

\* A request adds to what the server has, or to nothing.
LEMMA PostReceives ==
  ASSUME NEW f, Post(f)
  PROVE  UNCHANGED <<outbox, made>> /\ received \subseteq received'
<1>1. PICK taken \in BOOLEAN :
        \/ Accepted(f, taken)
        \/ \E left \in SUBSET Batch(f) : TooLarge(f, taken, left)
        \/ RateLimited(f, taken)
        \/ \E stored \in BOOLEAN : ServerError(f, taken, stored)
        \/ Refused(f, taken)
        \/ \E stored \in BOOLEAN : NoResponse(f, taken, stored)
  BY DEF Post
<1>2. Attempt(f, taken)
  BY <1>1 DEF Accepted, TooLarge, RateLimited, ServerError, Refused, NoResponse
<1>3. UNCHANGED <<outbox, made>>
  BY <1>2 DEF Attempt, queue
<1>4. received \subseteq received'
  BY <1>1 DEF Accepted, TooLarge, RateLimited, ServerError, Refused, NoResponse
<1> QED
  BY <1>3, <1>4

\* Every step of the outbox is a step of AtLeastOnce, or none.
LEMMA StepImplements == IInv /\ [Next]_vars => [Delivery!Next]_(Delivery!vars)
<1> SUFFICES ASSUME IInv, [Next]_vars PROVE [Delivery!Next]_(Delivery!vars)
  OBVIOUS
<1>1. IInv'
  BY NextOK
<1>2. CASE Enqueue
  BY <1>2, EnqueueStep
<1>3. ASSUME NEW f \in Flushers, Flush(f) PROVE Delivery!Next
  <2>1. CASE Mark(f)
    BY <1>1, <2>1, ClearStep
  <2>2. CASE Post(f)
    BY <1>1, <2>2, PostReceives, ReceiveStep
  <2>3. CASE \E ids \in SUBSET PendingIds : Begin(f, ids)
    BY <1>1, <2>3, ReceiveStep DEF Begin, queue
  <2>4. CASE StateOk(f) \/ Crash(f)
    BY <1>1, <2>4, ReceiveStep DEF StateOk, Crash, queue
  <2> QED
    BY <1>3, <2>1, <2>2, <2>3, <2>4 DEF Flush
<1>4. CASE UNCHANGED vars
  BY <1>1, <1>4, ReceiveStep DEF vars, queue
<1> QED
  BY <1>2, <1>3, <1>4 DEF Next

\* Only what the server has, or what was replaced or pruned, leaves the queue:
\* the outbox implements its abstract specification, for any number of
\* flushers and rows (sync.rs, engine.rs).
THEOREM OutboxKeepsPromise == Spec => KeepsPromise
<1>1. Init => Delivery!Init
  <2> SUFFICES ASSUME Init PROVE Delivery!Init
    OBVIOUS
  <2>1. DOMAIN outbox = {} /\ made = 0 /\ received = {}
    BY DEF Init
  <2>2. Queued = {} /\ Withdrawn = {}
    BY <2>1 DEF Queued, Withdrawn, PendingIds
  <2> QED
    BY <2>1, <2>2 DEF Delivery!Init
<1> QED
  BY <1>1, StepImplements, OutboxInvariant, PTL DEF Spec, KeepsPromise, Delivery!Spec
=============================================================================
