---------------------------- MODULE CoreLoop_proofs ----------------------------
(* Theorems about CoreLoop, for any number of processes, sessions, rules,     *)
(* events, verdicts and runs.                                                 *)
EXTENDS CoreLoop, FiniteSetTheorems, WellFoundedInduction, TLAPS

\* The session that a source key speaks of.
SessionOf(key) == IF key[1] \in {"rule", "builtin"} THEN key[3] ELSE key[2]

\* A reference is of a case only; the key tells the session.
Item ==
  {i \in [action : Actions, key : Keys, session : Sessions \cup {None},
          ref : Sessions \cup (Sessions \X Nat) \cup {None}] :
     i.session = SessionOf(i.key) /\ (i.ref # None => i.action = "case")}

Working == [at : {"act", "read", "ref"}, items : Seq(Item), then : Seq(Rules),
            mines : BOOLEAN, from : Nat, id : Nat \cup {None}]

Checking == [at : {"check"}, seen : Seq(Event), from : Nat, names : Seq(BuiltIn)]

\* Row ids and source keys are unique, and but for alerts, which may outlive
\* their session, a row belongs to the session of its key.
RowsFit(rs) ==
  /\ IsFiniteSet(rs) /\ rs \subseteq Row
  /\ \A x, y \in rs : x.id = y.id => x = y
  /\ \A x, y \in rs : x.table = y.table /\ x.key = y.key => x = y
  /\ \A x \in rs : x.table # "alert" => x.session = SessionOf(x.key)

RowsOK ==
  /\ RowsFit(rows)
  /\ \A row \in rows : row.session \in sessions \cup {None}
  /\ \A ref \in refs : \E row \in rows : row.id = ref[1] /\ row.table = "case"

IsDone(i) ==
  \E row \in rows : /\ row.table = i.action /\ row.key = i.key
                    /\ i.ref # None => <<row.id, i.ref>> \in refs

\* What a command has taken up is done, or still to do.
Owes(w, items) ==
  \A i \in items : i \in Item /\ (IsDone(i) \/ \E n \in DOMAIN w.items : w.items[n] = i)

\* A row with the id that a command has read is the row of its item.
Knows(w) ==
  \A row \in rows : row.id = w.id =>
    row.table = w.items[1].action /\ row.key = w.items[1].key

WorkOK(p) ==
  \/ work[p] = Idle /\ acted[p] = {}
  \/ work[p] \in Checking /\ work[p].names # <<>> /\ acted[p] = {}
  \/ /\ work[p] \in Working /\ Owes(work[p], acted[p])
     /\ work[p].at # "act" => work[p].items # <<>>
     /\ work[p].at = "ref" => work[p].items[1].ref # None /\ Knows(work[p])

FinishedOK == \A i \in finished : i \in Item /\ IsDone(i)

DataOK ==
  /\ now \in 0 .. MaxTime /\ sessions \subseteq Sessions
  /\ events \in Seq(Event) /\ verdicts \in Seq(Verdict)
  /\ DOMAIN rules \subseteq Rules /\ \A r \in DOMAIN rules : rules[r] \in BOOLEAN
  /\ IsFiniteSet(DOMAIN rules)

CommandsOK ==
  /\ runs \in 0 .. MaxRuns
  /\ work \in [Runners -> {Idle} \cup Working \cup Checking]
  /\ acted \in [Runners -> SUBSET Item]
  /\ \A p \in Runners : WorkOK(p)

IInv == DataOK /\ RowsOK /\ CommandsOK /\ FinishedOK

LEMMA IInvTypeOK == IInv => TypeOK
BY DEF IInv, DataOK, RowsOK, RowsFit, CommandsOK, TypeOK

-----------------------------------------------------------------------------
(* Queries. *)

LEMMA LessThanIsWellFounded == IsWellFoundedOn({ss \in Nat \X Nat : ss[1] < ss[2]}, Nat)
BY NatLessThanWellFounded DEF OpToRel

LEMMA LeastNumber ==
  ASSUME NEW T, T \subseteq Nat, T # {}
  PROVE  \E n \in T : \A m \in T : n <= m
<1> DEFINE R == {ss \in Nat \X Nat : ss[1] < ss[2]}
<1>1. PICK x \in T : \A y \in T : <<y, x>> \notin R
  <2>1. IsWellFoundedOn(R, Nat)
    BY LessThanIsWellFounded
  <2> HIDE DEF R
  <2> QED
    BY <2>1, WFMin
<1>2. \A y \in T : ~(y < x)
  BY <1>1
<1> QED
  BY <1>2

UpTo(at, i) == {j \in at : j <= i}

\* The n-th of a set of numbers is the least that has n of them up to it: one
\* less has fewer, so it is in the set itself, and makes n.
LEMMA NthExists ==
  ASSUME NEW m \in Nat, NEW at, at \subseteq 1 .. m, NEW n \in 1 .. Cardinality(at)
  PROVE  \E i \in at : Cardinality(UpTo(at, i)) = n
<1>0. \A j \in at : j \in Int /\ 1 <= j /\ j <= m
  OBVIOUS
<1>1. IsFiniteSet(at) /\ Cardinality(at) \in Nat
  <2>1. IsFiniteSet(1 .. m)
    BY FS_Interval
  <2> QED
    BY <2>1, FS_Subset, FS_CardinalityType
<1>2. \A i : IsFiniteSet(UpTo(at, i)) /\ Cardinality(UpTo(at, i)) \in Nat
  <2>1. \A i : UpTo(at, i) \subseteq at
    BY DEF UpTo
  <2> QED
    BY <1>1, <2>1, FS_Subset, FS_CardinalityType
<1> DEFINE T == {k \in 0 .. m : n <= Cardinality(UpTo(at, k))}
<1>3. m \in T
  <2>1. UpTo(at, m) = at
    BY <1>0 DEF UpTo
  <2> QED
    BY <1>1, <2>1
<1>4. PICK k \in T : \A l \in T : k <= l
  <2>1. T \subseteq Nat /\ T # {}
    BY <1>3
  <2> HIDE DEF T
  <2> QED
    BY <2>1, LeastNumber
<1>5. k # 0
  <2>1. UpTo(at, 0) = {}
    <3> SUFFICES ASSUME NEW j \in UpTo(at, 0) PROVE FALSE
      OBVIOUS
    <3> j \in at /\ j <= 0
      BY DEF UpTo
    <3> QED
      BY <1>0
  <2>2. Cardinality(UpTo(at, 0)) = 0
    BY <2>1, FS_EmptySet
  <2> QED
    BY <1>1, <2>2
<1>6. k - 1 \in 0 .. m /\ k - 1 \notin T
  BY <1>4, <1>5
<1>7. Cardinality(UpTo(at, k - 1)) < n /\ n <= Cardinality(UpTo(at, k))
  BY <1>1, <1>2, <1>6
<1>8. k \in at
  <2> SUFFICES ASSUME k \notin at PROVE FALSE
    OBVIOUS
  <2>1. \A j \in at : j <= k <=> j <= k - 1
    BY <1>0, <1>4
  <2>2. UpTo(at, k) = UpTo(at, k - 1)
    BY <2>1 DEF UpTo
  <2> QED
    BY <1>1, <1>2, <1>7, <2>2
<1>9. UpTo(at, k) = UpTo(at, k - 1) \cup {k} /\ k \notin UpTo(at, k - 1)
  <2>1. \A j \in at : j <= k <=> j <= k - 1 \/ j = k
    BY <1>0, <1>4
  <2>2. ~(k <= k - 1) /\ k <= k
    BY <1>4
  <2> QED
    BY <1>8, <2>1, <2>2 DEF UpTo
<1>10. Cardinality(UpTo(at, k)) = Cardinality(UpTo(at, k - 1)) + 1
  BY <1>2, <1>9, FS_AddElement
<1> QED
  BY <1>1, <1>2, <1>7, <1>8, <1>10

LEMMA AtType ==
  ASSUME NEW S, NEW seq \in Seq(S), NEW places, places \subseteq DOMAIN seq
  PROVE  At(seq, places) \in Seq(S) /\ Cardinality(places) \in 0 .. Len(seq)
<1> DEFINE nth(n) == CHOOSE i \in places : Cardinality({j \in places : j <= i}) = n
<1>1. Len(seq) \in Nat /\ DOMAIN seq = 1 .. Len(seq)
  OBVIOUS
<1>2. IsFiniteSet(1 .. Len(seq)) /\ Cardinality(1 .. Len(seq)) = Len(seq)
  <2> DEFINE n == Len(seq)
  <2> HIDE DEF n
  <2>1. n \in Nat
    BY <1>1 DEF n
  <2>2. IsFiniteSet(1 .. n) /\ Cardinality(1 .. n) = n
    BY <2>1, FS_Interval
  <2> QED
    BY <2>2 DEF n
<1>3. Cardinality(places) \in Nat /\ Cardinality(places) <= Len(seq)
  BY <1>1, <1>2, FS_Subset, FS_CardinalityType
<1>4. ASSUME NEW n \in 1 .. Cardinality(places)
      PROVE  nth(n) \in places
  <2>1. \E i \in places : Cardinality({j \in places : j <= i}) = n
    BY <1>1, NthExists DEF UpTo
  <2> QED
    BY <2>1
<1> HIDE DEF nth
<1>5. \A n \in 1 .. Cardinality(places) : seq[nth(n)] \in S
  BY <1>1, <1>4
<1>6. [n \in 1 .. Cardinality(places) |-> seq[nth(n)]] \in Seq(S)
  BY <1>3, <1>5
<1>7. At(seq, places) = [n \in 1 .. Cardinality(places) |-> seq[nth(n)]]
  BY DEF At, nth
<1> QED
  BY <1>3, <1>6, <1>7

LEMMA InWindowType ==
  ASSUME TypeOK, NEW from, NEW until
  PROVE  InWindow(from, until) \in Seq(Verdict)
<1>1. verdicts \in Seq(Verdict)
  BY DEF TypeOK
<1> QED
  BY <1>1, AtType DEF InWindow, Matching

LEMMA BadType ==
  ASSUME TypeOK, NEW of
  PROVE  Bad(of) \in Seq(Verdict)
<1> DEFINE seq == InWindow(From, now)
<1>1. seq \in Seq(Verdict)
  BY InWindowType
<1>2. Bad(of) = At(seq, {i \in DOMAIN seq : seq[i].of = of /\ seq[i].bad})
  BY DEF Bad, Matching
<1> HIDE DEF seq
<1> QED
  BY <1>1, <1>2, AtType

LEMMA HitsType ==
  ASSUME TypeOK, NEW terms, NEW from
  PROVE  Hits(terms, from) \in Seq(Event)
<1> DEFINE all == Matching(events, LAMBDA e : \A t \in terms : MatchesTerm(t, e, from))
           n == Len(all)
<1>1. Hits(terms, from) = SubSeq(all, 1, IF n < Limit THEN n ELSE Limit)
  BY DEF Hits
<1>2. events \in Seq(Event)
  BY DEF TypeOK
<1>3. all \in Seq(Event)
  BY <1>2, AtType DEF Matching
<1> HIDE DEF all
<1>4. Limit \in Nat /\ n \in Nat
  BY <1>3, CoreAssumption
<1>5. \A m \in 0 .. n : SubSeq(all, 1, m) \in Seq(Event)
  BY <1>3
<1> HIDE DEF n
<1>6. (IF n < Limit THEN n ELSE Limit) \in 0 .. n
  BY <1>4
<1> QED
  BY <1>1, <1>5, <1>6

\* The items that queries make.
LEMMA ItemsType ==
  ASSUME TypeOK
  PROVE  /\ \A rule \in Rules : \A from :
              Map(Hits(rule.terms, from), LAMBDA hit : HitItem(rule, hit)) \in Seq(Item)
         /\ \A of : Map(Bad(of), MinedItem) \in Seq(Item)
         /\ \A session \in Sessions : <<ManualItem(session)>> \in Seq(Item)
<1>1. ASSUME NEW rule \in Rules, NEW hit \in Event
      PROVE  HitItem(rule, hit) \in Item
  <2>1. rule.action \in Actions /\ hit.session \in Sessions /\ hit.seq \in Nat
    BY CoreAssumption DEF Actions, Event
  <2>2. <<"rule", rule, hit.session, hit.seq>> \in Keys
    BY <2>1 DEF Keys
  <2>3. SessionOf(<<"rule", rule, hit.session, hit.seq>>) = hit.session
    BY DEF SessionOf
  <2> QED
    BY <2>1, <2>2, <2>3 DEF HitItem, Item
<1>2. ASSUME NEW v \in Verdict
      PROVE  MinedItem(v) \in Item
  <2>1. v.of \in {"eval", "feedback"} /\ v.session \in Sessions
    BY DEF Verdict
  <2>2. <<v.of, v.session>> \in Keys
    BY <2>1 DEF Keys
  <2>3. SessionOf(<<v.of, v.session>>) = v.session
    BY <2>1 DEF SessionOf
  <2> QED
    BY <2>1, <2>2, <2>3 DEF MinedItem, Item, Actions
<1>3. ASSUME NEW session \in Sessions
      PROVE  ManualItem(session) \in Item
  <2>1. <<"manual", session>> \in Keys /\ SessionOf(<<"manual", session>>) = session
    BY DEF Keys, SessionOf
  <2> QED
    BY <2>1 DEF ManualItem, Item, Actions
<1>4. ASSUME NEW rule \in Rules, NEW from
      PROVE  Map(Hits(rule.terms, from), LAMBDA hit : HitItem(rule, hit)) \in Seq(Item)
  <2> DEFINE hits == Hits(rule.terms, from)
  <2>1. hits \in Seq(Event)
    BY HitsType
  <2> HIDE DEF hits
  <2>2. \A i \in DOMAIN hits : HitItem(rule, hits[i]) \in Item
    BY <1>1, <2>1
  <2>3. [i \in DOMAIN hits |-> HitItem(rule, hits[i])] \in Seq(Item)
    BY <2>1, <2>2
  <2> QED
    BY <2>3 DEF Map, hits
<1>5. ASSUME NEW of
      PROVE  Map(Bad(of), MinedItem) \in Seq(Item)
  <2> DEFINE bad == Bad(of)
  <2>1. bad \in Seq(Verdict)
    BY BadType
  <2> HIDE DEF bad
  <2>2. \A i \in DOMAIN bad : MinedItem(bad[i]) \in Item
    BY <1>2, <2>1
  <2>3. [i \in DOMAIN bad |-> MinedItem(bad[i])] \in Seq(Item)
    BY <2>1, <2>2
  <2> QED
    BY <2>3 DEF Map, bad
<1>6. \A session \in Sessions : <<ManualItem(session)>> \in Seq(Item)
  BY <1>3
<1> QED
  BY <1>4, <1>5, <1>6

LEMMA SetToSeqType ==
  ASSUME NEW S, IsFiniteSet(S)
  PROVE  SetToSeq(S) \in Seq(S)
<1>1. Cardinality(S) \in Nat /\ ExistsBijection(1 .. Cardinality(S), S)
  BY FS_CardinalityType
<1>2. \E f \in [1 .. Cardinality(S) -> S] : IsInjective(f)
  BY <1>1 DEF ExistsBijection, Bijection, Injection, IsInjective
<1>3. SetToSeq(S) \in [1 .. Cardinality(S) -> S]
  BY <1>2 DEF SetToSeq
<1> QED
  BY <1>1, <1>3

LEMMA FromType == TypeOK => From \in Nat
BY CoreAssumption DEF TypeOK, From

-----------------------------------------------------------------------------
(* Rows. *)

\* Of one number more than there are ids, one is not among them.
LEMMA FreshIdType ==
  ASSUME RowsFit(rows)
  PROVE  FreshId \in Nat /\ FreshId \notin Ids
<1> DEFINE holders == {q \in Runners : work[q].at = "ref"}
           stored == {row.id : row \in rows}
           held == {work[p].id : p \in holders}
<1>1. IsFiniteSet(stored)
  <2> DEFINE f == [row \in rows |-> row.id]
  <2>1. f \in Surjection(rows, stored)
    BY DEF Surjection
  <2>2. IsFiniteSet(rows)
    BY DEF RowsFit
  <2> HIDE DEF f, stored
  <2> QED
    BY <2>1, <2>2, FS_Surjection
<1>2. IsFiniteSet(held)
  <2> DEFINE f == [p \in holders |-> work[p].id]
  <2>1. f \in Surjection(holders, held)
    BY DEF Surjection
  <2>2. IsFiniteSet(holders)
    BY CoreAssumption, FS_Subset
  <2> HIDE DEF f, held, holders
  <2> QED
    BY <2>1, <2>2, FS_Surjection
<1>3. IsFiniteSet(Ids) /\ Cardinality(Ids) \in Nat
  <2>1. Ids = stored \cup held
    BY DEF Ids
  <2> HIDE DEF stored, held
  <2> QED
    BY <1>1, <1>2, <2>1, FS_Union, FS_CardinalityType
<1> DEFINE T == 1 .. (Cardinality(Ids) + 1)
<1>4. Cardinality(T) = Cardinality(Ids) + 1
  BY <1>3, FS_Interval
<1>5. ~(T \subseteq Ids)
  <2> HIDE DEF T
  <2> QED
    BY <1>3, <1>4, FS_Subset
<1>6. \E n \in T : n \notin Ids
  BY <1>5
<1>7. FreshId \in T /\ FreshId \notin Ids
  BY <1>6 DEF FreshId
<1> QED
  BY <1>3, <1>7

\* Rows are kept, but for their status and the session of an alert, and so are
\* references; what is new has no id that a command has read.
Grows ==
  /\ refs \subseteq refs'
  /\ \A row \in rows : \E x \in rows' : x.id = row.id /\ x.table = row.table /\ x.key = row.key
  /\ \A x \in rows' : x.id \in Ids =>
       \E row \in rows : x.id = row.id /\ x.table = row.table /\ x.key = row.key

LEMMA DoneStays ==
  ASSUME Grows, NEW i, IsDone(i)
  PROVE  IsDone(i)'
BY DEF Grows, IsDone

\* A statement that inserts keeps the rows in order and leaves the row there.
LEMMA StoredKeeps ==
  ASSUME RowsOK, NEW item, item.action \in Actions, item.key \in Keys,
         item.session \in sessions \cup {None}, sessions \subseteq Sessions,
         item.action # "alert" => item.session = SessionOf(item.key),
         rows' = Stored(item), UNCHANGED <<sessions, refs>>
  PROVE  /\ RowsOK' /\ Grows
         /\ \E row \in rows' : row.table = item.action /\ row.key = item.key
<1> DEFINE new == [table |-> item.action, id |-> FreshId, key |-> item.key,
                   session |-> item.session, status |-> "open"]
<1>1. CASE Existing(item) # {}
  <2>1. rows' = rows
    BY <1>1 DEF Stored
  <2>2. RowsOK'
    BY <2>1 DEF RowsOK, RowsFit
  <2>3. Grows
    BY <2>1 DEF Grows
  <2> QED
    BY <1>1, <2>1, <2>2, <2>3 DEF Existing
<1>2. CASE Existing(item) = {}
  <2>1. rows' = rows \cup {new}
    BY <1>2 DEF Stored
  <2>2. FreshId \in Nat /\ FreshId \notin Ids /\ \A row \in rows : row.id # FreshId
    BY FreshIdType DEF RowsOK, Ids
  <2>3. /\ new \in Row /\ new.id = FreshId /\ new.table = item.action
        /\ new.key = item.key /\ new.session = item.session
    BY <2>2 DEF Row
  <2>4. \A row \in rows : ~(row.table = item.action /\ row.key = item.key)
    BY <1>2 DEF Existing
  <2> HIDE DEF new
  <2>5. IsFiniteSet(rows')
    <3> IsFiniteSet(rows)
      BY DEF RowsOK, RowsFit
    <3> QED
      BY <2>1, FS_AddElement
  <2>6. RowsFit(rows)'
    BY <2>1, <2>2, <2>3, <2>4, <2>5 DEF RowsOK, RowsFit
  <2>7. RowsOK'
    BY <2>1, <2>3, <2>6 DEF RowsOK
  <2>8. \A x \in rows' : x.id \in Ids => x \in rows
    BY <2>1, <2>2, <2>3
  <2>9. Grows
    BY <2>1, <2>8 DEF Grows
  <2> QED
    BY <2>1, <2>3, <2>7, <2>9
<1> QED
  BY <1>1, <1>2

-----------------------------------------------------------------------------
(* Commands. *)

LEMMA WorkStays ==
  ASSUME CommandsOK, Grows, NEW q \in Runners, UNCHANGED <<work[q], acted[q]>>
  PROVE  WorkOK(q)'
<1>1. WorkOK(q)
  BY DEF CommandsOK
<1>2. Owes(work[q], acted[q]) => Owes(work[q], acted[q])'
  BY DoneStays DEF Owes
<1>3. work[q].at = "ref" /\ Knows(work[q]) => Knows(work[q])'
  BY DEF Knows, Grows, Ids
<1> QED
  BY <1>1, <1>2, <1>3 DEF WorkOK

LEMMA FinishedStays ==
  ASSUME FinishedOK, Grows, UNCHANGED finished
  PROVE  FinishedOK'
BY DoneStays DEF FinishedOK

LEMMA NothingMoves == UNCHANGED <<rows, refs>> => Grows
BY DEF Grows

LEMMA RowsStay == RowsOK /\ UNCHANGED <<rows, refs, sessions>> => RowsOK'
BY DEF RowsOK, RowsFit

LEMMA DataStays == DataOK /\ UNCHANGED data => DataOK'
BY DEF DataOK, data

\* A command is in the state that its control says.
LEMMA AtOf ==
  ASSUME CommandsOK, NEW p \in Runners
  PROVE  /\ work[p].at = "check" => work[p] \in Checking /\ work[p].names # <<>> /\ acted[p] = {}
         /\ work[p].at \in {"act", "read", "ref"} =>
              work[p] \in Working /\ Owes(work[p], acted[p])
         /\ work[p].at \in {"read", "ref"} => work[p].items # <<>>
         /\ work[p].at = "ref" => work[p].items[1].ref # None /\ Knows(work[p])
         /\ work[p] = Idle => acted[p] = {}
BY DEF CommandsOK, WorkOK, Idle, Working, Checking

\* What one process does to its own work, beside rows that grow.
LEMMA OneMoves ==
  ASSUME CommandsOK, Grows, NEW p \in Runners, NEW w, NEW items,
         w \in {Idle} \cup Working \cup Checking, items \subseteq Item,
         work' = [work EXCEPT ![p] = w], acted' = [acted EXCEPT ![p] = items],
         runs' \in 0 .. MaxRuns, WorkOK(p)'
  PROVE  CommandsOK'
<1>1. /\ work' \in [Runners -> {Idle} \cup Working \cup Checking]
      /\ acted' \in [Runners -> SUBSET Item]
  BY DEF CommandsOK
<1>2. ASSUME NEW q \in Runners, q # p
      PROVE  WorkOK(q)'
  <2> UNCHANGED <<work[q], acted[q]>>
    BY <1>2 DEF CommandsOK
  <2> QED
    BY WorkStays
<1> QED
  BY <1>1, <1>2 DEF CommandsOK

\* A process takes up items, having nothing left to do of the earlier ones.
LEMMA WorksKeeps ==
  ASSUME IInv, NEW p \in Runners, NEW items \in Seq(Item), NEW then \in Seq(Rules),
         NEW mines \in BOOLEAN, NEW from \in Nat,
         Works(p, items, then, mines, from), runs' \in 0 .. MaxRuns,
         work[p] = Idle \/ OutOfItems(p)
  PROVE  IInv'
<1> DEFINE w == [at |-> "act", items |-> items, then |-> then, mines |-> mines, from |-> from,
                 id |-> None]
<1> USE DEF IInv
<1>1. /\ work' = [work EXCEPT ![p] = w] /\ acted' = [acted EXCEPT ![p] = @ \cup ToSet(items)]
      /\ UNCHANGED <<data, rows, refs, finished>>
  BY DEF Works
<1>2. Grows
  BY <1>1, NothingMoves
<1>3. w \in Working
  BY DEF Working
<1>4. ToSet(items) \subseteq Item /\ \A i \in ToSet(items) : \E n \in DOMAIN items : items[n] = i
  BY DEF ToSet
<1>5. acted[p] \subseteq Item /\ acted'[p] = acted[p] \cup ToSet(items) /\ work'[p] = w
  BY <1>1 DEF CommandsOK
<1>6. \A i \in acted[p] : IsDone(i)
  <2>1. CASE work[p] = Idle
    BY <2>1, AtOf
  <2>2. CASE OutOfItems(p)
    <3>1. Owes(work[p], acted[p])
      BY <2>2, AtOf DEF OutOfItems
    <3>2. DOMAIN work[p].items = {}
      BY <2>2 DEF OutOfItems
    <3> QED
      BY <3>1, <3>2 DEF Owes
  <2> QED
    BY <2>1, <2>2
<1>7. WorkOK(p)'
  <2>1. w.at = "act" /\ w.items = items
    OBVIOUS
  <2> HIDE DEF w
  <2>2. \A i \in acted'[p] : i \in Item /\ (IsDone(i)' \/ \E n \in DOMAIN items : items[n] = i)
    BY <1>2, <1>4, <1>5, <1>6, DoneStays
  <2>3. Owes(work[p], acted[p])'
    BY <1>5, <2>1, <2>2 DEF Owes
  <2> QED
    BY <1>3, <1>5, <2>1, <2>3 DEF WorkOK
<1>8. CommandsOK'
  <2> DEFINE all == acted[p] \cup ToSet(items)
  <2>1. all \subseteq Item /\ acted' = [acted EXCEPT ![p] = all]
    BY <1>1, <1>4, <1>5
  <2> HIDE DEF w, all
  <2> QED
    BY <1>1, <1>2, <1>3, <1>7, <2>1, OneMoves
<1>9. sessions' = sessions
  BY <1>1 DEF data
<1> QED
  BY <1>1, <1>2, <1>8, <1>9, DataStays, RowsStay, FinishedStays

LEMMA BeginsRuns ==
  ASSUME CommandsOK, NEW p \in Runners, Begins(p)
  PROVE  runs' \in 0 .. MaxRuns /\ work[p] = Idle
BY CoreAssumption DEF Begins, CommandsOK

LEMMA RunRulesKeeps ==
  ASSUME IInv, NEW p \in Runners, RunRules(p)
  PROVE  IInv'
<1> DEFINE S == {r \in DOMAIN rules : rules[r]}
<1>1. IsFiniteSet(S) /\ S \subseteq Rules
  BY FS_Subset DEF IInv, DataOK
<1>2. RunRules(p) => Works(p, <<>>, SetToSeq(S), FALSE, From)
  BY DEF RunRules
<1> HIDE DEF S
<1>3. SetToSeq(S) \in Seq(Rules)
  BY <1>1, SetToSeqType
<1>4. runs' \in 0 .. MaxRuns /\ work[p] = Idle
  BY BeginsRuns DEF RunRules, IInv
<1>5. <<>> \in Seq(Item) /\ From \in Nat
  BY IInvTypeOK, FromType
<1> QED
  BY <1>2, <1>3, <1>4, <1>5, WorksKeeps

LEMMA NextRuleKeeps ==
  ASSUME IInv, NEW p \in Runners, NextRule(p)
  PROVE  IInv'
<1> DEFINE then == work[p].then
           rule == Head(then)
           items == Map(Hits(rule.terms, work[p].from), LAMBDA hit : HitItem(rule, hit))
<1>1. /\ OutOfItems(p) /\ then # <<>> /\ runs' = runs
      /\ Works(p, items, Tail(then), FALSE, work[p].from)
  BY DEF NextRule
<1>2. work[p] \in Working
  BY <1>1, AtOf DEF OutOfItems, IInv
<1>3. then \in Seq(Rules) /\ work[p].from \in Nat
  BY <1>2 DEF Working
<1> HIDE DEF then
<1>4. rule \in Rules /\ Tail(then) \in Seq(Rules)
  BY <1>1, <1>3
<1> HIDE DEF rule
<1>5. items \in Seq(Item)
  BY <1>4, IInvTypeOK, ItemsType
<1>6. runs' \in 0 .. MaxRuns
  BY <1>1 DEF IInv, CommandsOK
<1> HIDE DEF items
<1> QED
  BY <1>1, <1>3, <1>4, <1>5, <1>6, WorksKeeps

LEMMA MineKeeps ==
  ASSUME IInv, NEW p \in Runners,
         Mine(p) \/ MineFeedback(p) \/ \E session \in Sessions : CreateCase(p, session)
  PROVE  IInv'
<1>1. From \in Nat /\ TypeOK /\ <<>> \in Seq(Rules)
  BY IInvTypeOK, FromType
<1>2. CASE Mine(p)
  <2> DEFINE items == Map(Bad("eval"), MinedItem)
  <2>1. items \in Seq(Item)
    BY <1>1, ItemsType
  <2>2. runs' \in 0 .. MaxRuns /\ work[p] = Idle
    BY <1>2, BeginsRuns DEF Mine, IInv
  <2>3. Works(p, items, <<>>, TRUE, From)
    BY <1>2 DEF Mine
  <2> HIDE DEF items
  <2> QED
    BY <1>1, <2>1, <2>2, <2>3, WorksKeeps
<1>3. CASE MineFeedback(p)
  <2> DEFINE items == Map(Bad("feedback"), MinedItem)
  <2>1. items \in Seq(Item)
    BY <1>1, ItemsType
  <2>2. runs' \in 0 .. MaxRuns /\ OutOfItems(p)
    BY <1>3 DEF MineFeedback, IInv, CommandsOK
  <2>3. Works(p, items, <<>>, FALSE, From)
    BY <1>3 DEF MineFeedback
  <2> HIDE DEF items
  <2> QED
    BY <1>1, <2>1, <2>2, <2>3, WorksKeeps
<1>4. ASSUME NEW session \in Sessions, CreateCase(p, session)
      PROVE  IInv'
  <2> DEFINE items == <<ManualItem(session)>>
  <2>1. items \in Seq(Item)
    BY <1>1, ItemsType
  <2>2. runs' \in 0 .. MaxRuns /\ work[p] = Idle
    BY <1>4, BeginsRuns DEF CreateCase, IInv
  <2>3. Works(p, items, <<>>, FALSE, From)
    BY <1>4 DEF CreateCase
  <2> HIDE DEF items
  <2> QED
    BY <1>1, <2>1, <2>2, <2>3, WorksKeeps
<1> QED
  BY <1>2, <1>3, <1>4

\* A process stops: it ends, fails or is killed.
LEMMA StopsKeeps ==
  ASSUME IInv, NEW p \in Runners, Stops(p), UNCHANGED <<data, rows, refs, runs>>
  PROVE  DataOK' /\ RowsOK' /\ CommandsOK' /\ Grows
<1> USE DEF IInv
<1>1. Grows
  BY NothingMoves
<1>2. work' = [work EXCEPT ![p] = Idle] /\ acted' = [acted EXCEPT ![p] = {}]
  BY DEF Stops
<1>3. WorkOK(p)'
  BY <1>2 DEF WorkOK, CommandsOK
<1>4. runs' \in 0 .. MaxRuns
  BY DEF CommandsOK
<1>5. CommandsOK'
  <2> DEFINE w == Idle
             none == {}
  <2> w \in {Idle} \cup Working \cup Checking /\ none \subseteq Item
    OBVIOUS
  <2> work' = [work EXCEPT ![p] = w] /\ acted' = [acted EXCEPT ![p] = none]
    BY <1>2
  <2> CommandsOK
    OBVIOUS
  <2> HIDE DEF w, none, IInv
  <2> QED
    BY <1>1, <1>3, <1>4, OneMoves
<1>6. sessions' = sessions
  BY DEF data
<1> QED
  BY <1>1, <1>5, <1>6, DataStays, RowsStay

LEMMA EndingKeeps ==
  ASSUME IInv, NEW p \in Runners, Fails(p) \/ Killed(p) \/ Ends(p)
  PROVE  IInv'
<1> USE DEF IInv
<1>1. Stops(p) /\ UNCHANGED <<data, rows, refs, runs>>
  BY DEF Fails, Killed, Ends
<1>2. DataOK' /\ RowsOK' /\ CommandsOK' /\ Grows
  BY <1>1, StopsKeeps
<1>3. CASE UNCHANGED finished
  BY <1>2, <1>3, FinishedStays
<1>4. CASE Ends(p)
  <2>1. OutOfItems(p) /\ finished' = finished \cup acted[p]
    BY <1>4 DEF Ends
  <2>2. Owes(work[p], acted[p]) /\ DOMAIN work[p].items = {}
    BY <2>1, AtOf DEF OutOfItems
  <2>3. \A i \in acted[p] : i \in Item /\ IsDone(i)
    BY <2>2 DEF Owes
  <2>4. FinishedOK'
    BY <1>2, <2>1, <2>3, DoneStays DEF FinishedOK
  <2> QED
    BY <1>2, <2>4
<1> QED
  BY <1>3, <1>4 DEF Fails, Killed

\* What is first of the items is done: nothing else is.
LEMMA DoneKeeps ==
  ASSUME CommandsOK, Grows, NEW p \in Runners, Done(p), work[p].at \in {"read", "ref"},
         NEW item, work[p].items # <<>>, item = work[p].items[1], IsDone(item)',
         UNCHANGED <<acted, runs>>
  PROVE  CommandsOK'
<1> DEFINE w == [work[p] EXCEPT !.items = Tail(@), !.at = "act", !.id = None]
           items == work[p].items
           mine == acted[p]
<1>1. work[p] \in Working /\ Owes(work[p], acted[p])
  BY AtOf
<1>2. items \in Seq(Item) /\ Tail(items) \in Seq(Item)
  BY <1>1 DEF Working
<1>3. w \in Working /\ w.at = "act" /\ w.items = Tail(items)
  BY <1>1, <1>2 DEF Working
<1>4. work' = [work EXCEPT ![p] = w]
  BY <1>1 DEF Done, CommandsOK, Working
<1>5. work'[p] = w /\ acted'[p] = acted[p]
  BY <1>4 DEF CommandsOK
<1>6. \A n \in DOMAIN items : n = 1 \/ \E m \in DOMAIN Tail(items) : Tail(items)[m] = items[n]
  <2> SUFFICES ASSUME NEW n \in DOMAIN items, n # 1
               PROVE  n - 1 \in DOMAIN Tail(items) /\ Tail(items)[n - 1] = items[n]
    OBVIOUS
  <2> HIDE DEF items
  <2> QED
    BY <1>2
<1>7. Owes(work[p], acted[p])'
  <2> HIDE DEF w
  <2>1. \A i \in acted[p] :
          i \in Item /\ (IsDone(i)' \/ \E m \in DOMAIN Tail(items) : Tail(items)[m] = i)
    BY <1>1, <1>6, DoneStays DEF Owes
  <2> QED
    BY <1>3, <1>5, <2>1 DEF Owes
<1>8. WorkOK(p)'
  <2> HIDE DEF w
  <2> QED
    BY <1>3, <1>5, <1>7 DEF WorkOK
<1>9. mine \subseteq Item /\ acted' = [acted EXCEPT ![p] = mine] /\ runs' \in 0 .. MaxRuns
  BY DEF CommandsOK
<1> HIDE DEF w, mine
<1> QED
  BY <1>3, <1>4, <1>8, <1>9, OneMoves

\* A process goes on with its first item.
LEMMA TakesUpKeeps ==
  ASSUME CommandsOK, Grows, NEW p \in Runners, NEW w \in Working,
         Owes(work[p], acted[p]), w.items = work[p].items, w.items # <<>>,
         w.at = "ref" => w.items[1].ref # None /\ Knows(w)',
         work' = [work EXCEPT ![p] = w], UNCHANGED <<acted, runs>>
  PROVE  CommandsOK'
<1> DEFINE mine == acted[p]
<1>1. work'[p] = w /\ acted'[p] = acted[p]
  BY DEF CommandsOK
<1>2. mine \subseteq Item /\ acted' = [acted EXCEPT ![p] = mine] /\ runs' \in 0 .. MaxRuns
  BY DEF CommandsOK
<1> HIDE DEF mine
<1>3. Owes(work[p], acted[p])'
  BY <1>1, DoneStays DEF Owes
<1>4. Knows(w)' = Knows(work[p])'
  BY <1>1 DEF Knows
<1>5. WorkOK(p)'
  BY <1>1, <1>3, <1>4 DEF WorkOK
<1> QED
  BY <1>2, <1>5, OneMoves

LEMMA ActOnItemKeeps ==
  ASSUME IInv, NEW p \in Runners, ActOnItem(p)
  PROVE  IInv'
<1> PICK item : item = work[p].items[1]
  OBVIOUS
<1> DEFINE w == [work[p] EXCEPT !.at = "read"]
           mine == acted[p]
<1> USE DEF IInv
<1>1. /\ work[p].at = "act" /\ work[p].items # <<>>
      /\ item.session \in sessions /\ rows' = Stored(item)
      /\ UNCHANGED <<data, refs, runs, acted, finished>>
  BY DEF ActOnItem, Inserts
<1>2. work[p] \in Working /\ Owes(work[p], acted[p])
  BY <1>1, AtOf
<1>3. item \in Item
  <2> DEFINE items == work[p].items
  <2> items \in Seq(Item) /\ items # <<>>
    BY <1>1, <1>2 DEF Working
  <2> HIDE DEF items
  <2> items[1] \in Item
    OBVIOUS
  <2> QED
    BY DEF items
<1>4. RowsOK' /\ Grows
  <2>1. /\ item.action \in Actions /\ item.key \in Keys /\ item.session = SessionOf(item.key)
        /\ item.session \in sessions \cup {None} /\ sessions \subseteq Sessions
    BY <1>1, <1>3 DEF Item, DataOK
  <2>2. UNCHANGED <<sessions, refs>>
    BY <1>1 DEF data
  <2> QED
    BY <1>1, <2>1, <2>2, StoredKeeps
<1>5. w \in Working /\ w.at = "read" /\ w.items = work[p].items
  BY <1>2 DEF Working
<1>6. work' = [work EXCEPT ![p] = w]
  BY DEF ActOnItem, CommandsOK
<1>7. CommandsOK'
  BY <1>1, <1>2, <1>4, <1>5, <1>6, TakesUpKeeps
<1> QED
  BY <1>1, <1>4, <1>7, DataStays, FinishedStays

\* The row that is read by its key is the item's.
LEMMA GetBySourceKeeps ==
  ASSUME IInv, NEW p \in Runners, GetBySource(p)
  PROVE  IInv'
<1> PICK item : item = work[p].items[1]
  OBVIOUS
<1> USE DEF IInv
<1>1. PICK row \in Existing(item) :
        IF item.ref = None THEN Done(p)
        ELSE work' = [work EXCEPT ![p].at = "ref", ![p].id = row.id]
  BY DEF GetBySource
<1>2. work[p].at = "read" /\ UNCHANGED <<data, rows, refs, runs, acted, finished>>
  BY DEF GetBySource
<1>3. work[p] \in Working /\ work[p].items # <<>> /\ Owes(work[p], acted[p])
  BY <1>2, AtOf
<1>4. row \in rows /\ row.table = item.action /\ row.key = item.key /\ row.id \in Nat
  BY <1>1 DEF Existing, RowsOK, RowsFit, Row
<1>5. Grows /\ sessions' = sessions
  BY <1>2, NothingMoves DEF data
<1>6. CASE item.ref = None
  <2>1. Done(p)
    BY <1>1, <1>6
  <2>2. IsDone(item)'
    BY <1>2, <1>4, <1>6 DEF IsDone
  <2>3. CommandsOK'
    BY <1>2, <1>3, <1>5, <2>1, <2>2, DoneKeeps
  <2> QED
    BY <1>2, <1>5, <2>3, DataStays, RowsStay, FinishedStays
<1>7. CASE item.ref # None
  <2> PICK w : w = [work[p] EXCEPT !.at = "ref", !.id = row.id]
    OBVIOUS
  <2>1. w \in Working /\ w.at = "ref" /\ w.items = work[p].items /\ w.id = row.id
    BY <1>3, <1>4 DEF Working
  <2>2. work' = [work EXCEPT ![p] = w]
    BY <1>1, <1>3, <1>7 DEF CommandsOK, Working
  <2>3. Knows(w)'
    BY <1>2, <1>4, <2>1 DEF Knows, RowsOK, RowsFit
  <2>4. CommandsOK'
    BY <1>2, <1>3, <1>5, <1>7, <2>1, <2>2, <2>3, TakesUpKeeps
  <2> QED
    BY <1>2, <1>5, <2>4, DataStays, RowsStay, FinishedStays
<1> QED
  BY <1>6, <1>7

LEMMA AddRefKeeps ==
  ASSUME IInv, NEW p \in Runners, AddRef(p)
  PROVE  IInv'
<1> PICK item : item = work[p].items[1]
  OBVIOUS
<1> PICK row \in rows : row.id = work[p].id
  BY DEF AddRef
<1> USE DEF IInv
<1>1. /\ work[p].at = "ref" /\ refs' = refs \cup {<<row.id, item.ref>>}
      /\ Done(p) /\ UNCHANGED <<data, rows, runs, acted, finished>>
  BY DEF AddRef
<1>2. work[p].items # <<>> /\ item.ref # None /\ work[p] \in Working /\ Knows(work[p])
  BY <1>1, AtOf
<1>3. item \in Item
  <2> DEFINE items == work[p].items
  <2> items \in Seq(Item) /\ items # <<>>
    BY <1>2 DEF Working
  <2> HIDE DEF items
  <2> items[1] \in Item
    OBVIOUS
  <2> QED
    BY DEF items
<1>4. row \in rows /\ row.table = item.action /\ row.key = item.key
  BY <1>2 DEF Knows
<1>5. item.action = "case"
  BY <1>2, <1>3 DEF Item
<1>6. Grows
  BY <1>1 DEF Grows, Ids
<1>7. IsDone(item)'
  BY <1>1, <1>4 DEF IsDone
<1>8. CommandsOK'
  BY <1>1, <1>2, <1>6, <1>7, DoneKeeps
<1>9. RowsOK'
  <2>1. \A ref \in refs' : \E x \in rows : x.id = ref[1] /\ x.table = "case"
    BY <1>1, <1>4, <1>5 DEF RowsOK
  <2>2. RowsFit(rows)' /\ sessions' = sessions
    BY <1>1 DEF RowsOK, RowsFit, data
  <2> QED
    BY <1>1, <2>1, <2>2 DEF RowsOK
<1> QED
  BY <1>1, <1>6, <1>8, <1>9, DataStays, FinishedStays

LEMMA CheckAlertsKeeps ==
  ASSUME IInv, NEW p \in Runners, CheckAlerts(p)
  PROVE  IInv'
<1> DEFINE w == [at |-> "check", seen |-> events, from |-> From,
                 names |-> <<"cost_spike", "error_rate", "feedback_score_drop",
                             "eval_regression">>]
           mine == acted[p]
<1> USE DEF IInv
<1>1. work' = [work EXCEPT ![p] = w] /\ UNCHANGED <<data, rows, refs, acted, finished>>
  BY DEF CheckAlerts
<1>2. runs' \in 0 .. MaxRuns /\ work[p] = Idle
  BY BeginsRuns DEF CheckAlerts
<1>3. w \in Checking /\ w.names # <<>>
  <2>1. From \in Nat /\ events \in Seq(Event)
    BY IInvTypeOK, FromType DEF DataOK
  <2>2. w.names \in Seq(BuiltIn) /\ w.names # <<>>
    BY DEF BuiltIn
  <2> QED
    BY <2>1, <2>2 DEF Checking
<1>4. mine = {} /\ mine \subseteq Item /\ acted' = [acted EXCEPT ![p] = mine]
  BY <1>1, <1>2, AtOf DEF CommandsOK
<1>5. Grows
  BY <1>1, NothingMoves
<1>6. work'[p] = w /\ acted'[p] = {}
  BY <1>1, <1>4 DEF CommandsOK
<1> HIDE DEF w, mine
<1>7. WorkOK(p)'
  BY <1>3, <1>6 DEF WorkOK
<1>8. CommandsOK'
  BY <1>1, <1>2, <1>3, <1>4, <1>5, <1>7, OneMoves
<1>9. sessions' = sessions
  BY <1>1 DEF data
<1> QED
  BY <1>1, <1>5, <1>8, <1>9, DataStays, RowsStay, FinishedStays

LEMMA CheckAlertKeeps ==
  ASSUME IInv, NEW p \in Runners, CheckAlert(p)
  PROVE  IInv'
<1> DEFINE name == work[p].names[1]
           from == work[p].from
           w == IF Len(work[p].names) = 1 THEN Idle ELSE [work[p] EXCEPT !.names = Tail(@)]
           none == {}
<1> USE DEF IInv
<1>1. work[p].at = "check" /\ UNCHANGED <<data, refs, runs, acted, finished>>
  BY DEF CheckAlert
<1>2. work[p] \in Checking /\ work[p].names # <<>> /\ acted[p] = {}
  BY <1>1, AtOf
<1>3. from \in Nat /\ name \in BuiltIn
  <2> DEFINE names == work[p].names
  <2> names \in Seq(BuiltIn) /\ names # <<>> /\ from \in Nat
    BY <1>2 DEF Checking
  <2> HIDE DEF names
  <2> names[1] \in BuiltIn
    OBVIOUS
  <2> QED
    BY DEF names
<1>4. \/ rows' = rows
      \/ \E s \in sessions \cup {None} : rows' = Stored(Alert(name, s, from))
  BY DEF CheckAlert, Spikes
<1>5. RowsOK' /\ Grows
  <2>1. UNCHANGED <<sessions, refs>>
    BY <1>1 DEF data
  <2>2. CASE rows' = rows
    BY <2>1, <2>2, RowsStay, NothingMoves
  <2>3. ASSUME NEW s \in sessions \cup {None}, rows' = Stored(Alert(name, s, from))
        PROVE  RowsOK' /\ Grows
    <3> DEFINE alert == Alert(name, s, from)
    <3>1. sessions \subseteq Sessions
      BY DEF DataOK
    <3>2. alert.action = "alert" /\ alert.session = s
      BY DEF Alert
    <3>3. alert.key \in Keys
      BY <1>3, <3>1 DEF Alert, Keys
    <3>4. alert.action \in Actions
      BY <3>2 DEF Actions
    <3> HIDE DEF alert
    <3> QED
      BY <2>1, <2>3, <3>1, <3>2, <3>3, <3>4, StoredKeeps DEF alert
  <2> QED
    BY <1>4, <2>2, <2>3
<1>6. \/ w = Idle
      \/ w \in Checking /\ w.names # <<>>
  <2>1. CASE Len(work[p].names) = 1
    BY <2>1
  <2>2. CASE Len(work[p].names) # 1
    <3> DEFINE names == work[p].names
    <3>1. names \in Seq(BuiltIn) /\ names # <<>> /\ Len(names) # 1
      BY <1>2, <2>2 DEF Checking
    <3>2. w = [work[p] EXCEPT !.names = Tail(names)]
      BY <2>2
    <3> HIDE DEF names
    <3>3. Tail(names) \in Seq(BuiltIn) /\ Tail(names) # <<>>
      <4>0. Len(names) \in Nat /\ Len(names) # 0
        BY <3>1
      <4>1. PICK n \in Nat : n = Len(names) /\ n # 0 /\ n # 1
        BY <3>1, <4>0
      <4>2. 1 \in 1 .. (n - 1)
        BY <4>1
      <4>3. Tail(names) \in Seq(BuiltIn) /\ DOMAIN Tail(names) = 1 .. (n - 1)
        BY <3>1, <4>1
      <4>4. DOMAIN <<>> = {}
        OBVIOUS
      <4>5. Tail(names) # <<>>
        BY <4>2, <4>3, <4>4, Zenon
      <4> QED
        BY <4>3, <4>5
    <3> QED
      BY <1>2, <3>2, <3>3 DEF Checking
  <2> QED
    BY <2>1, <2>2
<1>7. work' = [work EXCEPT ![p] = w]
  BY DEF CheckAlert, CommandsOK
<1> HIDE DEF w
<1>8. none \subseteq Item /\ acted' = [acted EXCEPT ![p] = none] /\ runs' \in 0 .. MaxRuns
  BY <1>1, <1>2 DEF CommandsOK
<1>9. work'[p] = w /\ acted'[p] = {}
  BY <1>1, <1>2, <1>7 DEF CommandsOK
<1>10. WorkOK(p)'
  BY <1>6, <1>9 DEF WorkOK
<1> HIDE DEF none
<1>11. CommandsOK'
  BY <1>5, <1>6, <1>7, <1>8, <1>10, OneMoves
<1> QED
  BY <1>1, <1>5, <1>11, DataStays, FinishedStays

-----------------------------------------------------------------------------
(* The other commands, and what goes on around them. *)

LEMMA RulesKeep ==
  ASSUME IInv, NEW r \in Rules, CreateRule(r) \/ SetEnabled(r)
  PROVE  IInv'
<1> USE DEF IInv
<1>1. UNCHANGED <<now, sessions, events, verdicts, rows, refs, work, runs, acted, finished>>
  BY DEF CreateRule, SetEnabled
<1>2. /\ now' \in 0 .. MaxTime /\ sessions' \subseteq Sessions
      /\ events' \in Seq(Event) /\ verdicts' \in Seq(Verdict)
  BY <1>1 DEF DataOK
<1>3. ASSUME CreateRule(r)
      PROVE  DataOK'
  <2>1. rules' = [x \in DOMAIN rules \cup {r} |-> x = r \/ rules[x]]
    BY <1>3 DEF CreateRule
  <2>2. DOMAIN rules' = DOMAIN rules \cup {r}
    BY <2>1
  <2>3. ASSUME NEW x \in DOMAIN rules'
        PROVE  rules'[x] \in BOOLEAN
    <3>1. rules'[x] = (x = r \/ rules[x])
      BY <2>1, <2>3, Zenon
    <3> QED
      BY <3>1, Zenon
  <2>4. IsFiniteSet(DOMAIN rules')
    BY <2>2, FS_AddElement DEF DataOK
  <2>5. DOMAIN rules' \subseteq Rules
    BY <2>2 DEF DataOK
  <2> QED
    BY <1>2, <2>3, <2>4, <2>5, Zenon DEF DataOK
<1>4. ASSUME SetEnabled(r)
      PROVE  DataOK'
  <2>1. DOMAIN rules' = DOMAIN rules /\ \A x \in DOMAIN rules : rules'[x] \in BOOLEAN
    BY <1>4 DEF SetEnabled, DataOK
  <2>2. DOMAIN rules' \subseteq Rules /\ IsFiniteSet(DOMAIN rules')
    BY <2>1 DEF DataOK
  <2> QED
    BY <1>2, <2>1, <2>2, Zenon DEF DataOK
<1>5. Grows /\ RowsOK'
  BY <1>1, NothingMoves, RowsStay
<1>6. \A q \in Runners : WorkOK(q)'
  BY <1>1, <1>5, WorkStays
<1>7. CommandsOK'
  BY <1>1, <1>6 DEF CommandsOK
<1> QED
  BY <1>1, <1>3, <1>4, <1>5, <1>7, FinishedStays

LEMMA CloseKeeps ==
  ASSUME IInv, NEW row \in rows, Close(row)
  PROVE  IInv'
<1> DEFINE closed == [row EXCEPT !.status = "closed"]
<1> USE DEF IInv
<1>1. rows' = (rows \ {row}) \cup {closed}
  BY DEF Close
<1>2. UNCHANGED <<data, refs, work, runs, acted, finished>> /\ sessions' = sessions
  BY DEF Close, data
<1>3. row \in Row
  BY DEF RowsOK, RowsFit
<1>4. /\ closed \in Row /\ closed.id = row.id /\ closed.table = row.table
      /\ closed.key = row.key /\ closed.session = row.session
  BY <1>3 DEF Row
<1> HIDE DEF closed
<1>5. IsFiniteSet(rows')
  <2>1. IsFiniteSet(rows)
    BY DEF RowsOK, RowsFit
  <2>2. IsFiniteSet(rows \ {row})
    BY <2>1, FS_RemoveElement
  <2> QED
    BY <1>1, <2>2, FS_AddElement
<1>6. RowsFit(rows)'
  BY <1>1, <1>4, <1>5 DEF RowsOK, RowsFit
<1>7. RowsOK'
  BY <1>1, <1>2, <1>4, <1>6 DEF RowsOK
<1>8. Grows
  BY <1>1, <1>2, <1>4 DEF Grows
<1>9. \A q \in Runners : WorkOK(q)'
  BY <1>2, <1>8, WorkStays
<1>10. CommandsOK'
  BY <1>2, <1>9 DEF CommandsOK
<1> QED
  BY <1>2, <1>7, <1>8, <1>10, DataStays, FinishedStays

LEMMA WorldKeeps ==
  ASSUME IInv,
         \/ Tick
         \/ \E s \in Sessions, kind \in {"tool", "error"} : Ingest(s, kind)
         \/ \E s \in Sessions, of \in {"eval", "feedback"}, bad \in BOOLEAN : Judge(s, of, bad)
  PROVE  IInv'
<1> USE DEF IInv
<1>1. UNCHANGED <<rules, rows, refs, work, runs, acted, finished>>
  BY DEF Tick, Ingest, Judge
<1>2. DataOK' /\ sessions \subseteq sessions'
  <2>1. CASE Tick
    BY <2>1, CoreAssumption DEF Tick, DataOK
  <2>2. ASSUME NEW s \in Sessions, NEW kind \in {"tool", "error"}, Ingest(s, kind)
        PROVE  DataOK' /\ sessions \subseteq sessions'
    <3> DEFINE e == [session |-> s, seq |-> Len(events) + 1, kind |-> kind, at |-> now]
    <3>1. events \in Seq(Event) /\ now \in 0 .. MaxTime
      BY DEF DataOK
    <3>2. Len(events) + 1 \in 1 .. MaxEvents
      BY <2>2, <3>1, CoreAssumption DEF Ingest
    <3>3. e \in Event
      BY <3>1, <3>2 DEF Event
    <3> HIDE DEF e
    <3>4. Append(events, e) \in Seq(Event)
      BY <3>1, <3>3
    <3> QED
      BY <1>1, <2>2, <3>4 DEF Ingest, DataOK, e
  <2>3. ASSUME NEW s \in Sessions, NEW of \in {"eval", "feedback"}, NEW bad \in BOOLEAN,
               Judge(s, of, bad)
        PROVE  DataOK' /\ sessions \subseteq sessions'
    <3> DEFINE v == [session |-> s, of |-> of, bad |-> bad, at |-> now]
    <3>1. verdicts \in Seq(Verdict) /\ now \in 0 .. MaxTime
      BY DEF DataOK
    <3>2. v \in Verdict
      BY <3>1 DEF Verdict
    <3> HIDE DEF v
    <3>3. Append(verdicts, v) \in Seq(Verdict)
      BY <3>1, <3>2
    <3> QED
      BY <1>1, <2>3, <3>3 DEF Judge, DataOK, v
  <2> QED
    BY <2>1, <2>2, <2>3
<1>3. RowsOK' /\ Grows
  BY <1>1, <1>2 DEF RowsOK, RowsFit, Grows
<1>4. \A q \in Runners : WorkOK(q)'
  BY <1>1, <1>3, WorkStays
<1>5. CommandsOK'
  BY <1>1, <1>4 DEF CommandsOK
<1> QED
  BY <1>1, <1>2, <1>3, <1>5, FinishedStays

-----------------------------------------------------------------------------
(* A prune. *)

\* The alerts of a session that goes stay, without it.
Alone(row) == [row EXCEPT !.session = None]

\* Row x, after the session s is pruned, is what has become of row.
KeptAs(x, row, s) ==
  /\ x.id = row.id /\ x.table = row.table /\ x.key = row.key
  /\ \/ x = row /\ row.session # s
     \/ /\ x = Alone(row) /\ x.session = None /\ x \in Row
        /\ row.session = s /\ row.table = "alert"

LEMMA PruneRows ==
  ASSUME IInv, NEW s \in Sessions, Prune(s)
  PROVE  /\ \A x \in rows' : \E row \in rows : KeptAs(x, row, s)
         /\ \A row \in rows : row.session # s => row \in rows'
         /\ \A row \in rows : row.session = s /\ row.table = "alert" =>
              \E x \in rows' : x.id = row.id /\ x.table = row.table /\ x.key = row.key
         /\ IsFiniteSet(rows')
<1> DEFINE gone == {row \in rows : row.session = s}
           alerts == {g \in gone : g.table = "alert"}
           alone == {Alone(row) : row \in alerts}
<1>1. rows' = (rows \ gone) \cup alone
  BY DEF Prune, Alone
<1>2. rows \subseteq Row /\ IsFiniteSet(rows)
  BY DEF IInv, RowsOK, RowsFit
<1>3. ASSUME NEW row \in rows
      PROVE  /\ Alone(row) \in Row /\ Alone(row).id = row.id /\ Alone(row).table = row.table
             /\ Alone(row).key = row.key /\ Alone(row).session = None
  BY <1>2 DEF Row, Alone
<1>4. IsFiniteSet(alone)
  <2> DEFINE f == [row \in alerts |-> Alone(row)]
  <2>1. IsFiniteSet(alerts)
    BY <1>2, FS_Subset
  <2>2. f \in Surjection(alerts, alone)
    BY DEF Surjection
  <2> HIDE DEF f, alerts, alone
  <2> QED
    BY <2>1, <2>2, FS_Surjection
<1>5. IsFiniteSet(rows')
  <2>1. IsFiniteSet(rows \ gone)
    BY <1>2, FS_Subset
  <2> HIDE DEF alone, gone
  <2> QED
    BY <1>1, <1>4, <2>1, FS_Union
<1>6. \A x \in rows' : \E row \in rows : KeptAs(x, row, s)
  BY <1>1, <1>3 DEF KeptAs
<1>7. \A row \in rows : row.session # s => row \in rows'
  BY <1>1
<1>8. \A row \in rows : row.session = s /\ row.table = "alert" =>
        \E x \in rows' : x.id = row.id /\ x.table = row.table /\ x.key = row.key
  <2> SUFFICES ASSUME NEW row \in rows, row.session = s, row.table = "alert"
               PROVE  Alone(row) \in rows'
    BY <1>3
  <2> QED
    BY <1>1
<1> QED
  BY <1>5, <1>6, <1>7, <1>8

\* What was done for the other sessions stays done.
LEMMA PruneDone ==
  ASSUME IInv, NEW s \in Sessions, Prune(s), NEW i \in Item, i.session # s, IsDone(i)
  PROVE  IsDone(i)'
<1>1. PICK row \in rows : /\ row.table = i.action /\ row.key = i.key
                          /\ i.ref # None => <<row.id, i.ref>> \in refs
  BY DEF IsDone
<1>2. i.session = SessionOf(i.key) /\ (i.ref # None => i.action = "case")
  BY DEF Item
<1>3. CASE row.session # s
  <2>1. row \in rows'
    BY <1>3, PruneRows
  <2>2. \A g \in rows : g.session = s => g.id # row.id
    BY <1>3 DEF IInv, RowsOK, RowsFit
  <2>3. \A ref \in refs : ref[1] = row.id => ref \in refs'
    BY <2>2 DEF Prune, RefsWithout
  <2>4. i.ref # None => <<row.id, i.ref>> \in refs'
    BY <1>1, <2>3
  <2> QED
    BY <1>1, <2>1, <2>4 DEF IsDone
<1>4. CASE row.session = s
  <2>1. row.table = "alert"
    BY <1>1, <1>2, <1>4 DEF IInv, RowsOK, RowsFit
  <2>2. i.ref = None
    BY <1>1, <1>2, <2>1
  <2>3. \E x \in rows' : x.table = row.table /\ x.key = row.key
    BY <1>4, <2>1, PruneRows
  <2> QED
    BY <1>1, <2>2, <2>3 DEF IsDone
<1> QED
  BY <1>3, <1>4

LEMMA PruneKeeps ==
  ASSUME IInv, NEW s \in Sessions, Prune(s)
  PROVE  IInv'
<1> USE DEF IInv
<1>1. /\ sessions' = sessions \ {s} /\ UNCHANGED <<now, rules, work, runs>>
      /\ acted' = [p \in Runners |-> {item \in acted[p] : item.session # s}]
      /\ finished' = {item \in finished : item.session # s}
      /\ refs' \subseteq refs
      /\ \A ref \in refs', row \in rows : row.session = s => row.id # ref[1]
  BY DEF Prune, RefsWithout
<1>2. DataOK'
  <2>1. events' \in Seq(Event)
    BY AtType DEF Prune, Matching, DataOK
  <2>2. verdicts' \in Seq(Verdict)
    BY AtType DEF Prune, Matching, DataOK
  <2> QED
    BY <1>1, <2>1, <2>2 DEF DataOK
<1>3. RowsOK'
  <2>1. RowsFit(rows)'
    <3>1. rows' \subseteq Row
      BY PruneRows DEF RowsOK, RowsFit, KeptAs
    <3>2. ASSUME NEW x \in rows', NEW y \in rows',
                 x.id = y.id \/ (x.table = y.table /\ x.key = y.key)
          PROVE  x = y
      <4>1. PICK row \in rows : KeptAs(x, row, s)
        BY PruneRows
      <4>2. PICK other \in rows : KeptAs(y, other, s)
        BY PruneRows
      <4>3. row = other
        BY <3>2, <4>1, <4>2 DEF KeptAs, RowsOK, RowsFit
      <4> QED
        BY <4>1, <4>2, <4>3 DEF KeptAs
    <3>3. \A x \in rows' : x.table # "alert" => x.session = SessionOf(x.key)
      BY PruneRows DEF RowsOK, RowsFit, KeptAs
    <3>4. IsFiniteSet(rows')
      BY PruneRows
    <3> QED
      BY <3>1, <3>2, <3>3, <3>4 DEF RowsFit
  <2>2. \A row \in rows' : row.session \in sessions' \cup {None}
    BY <1>1, PruneRows DEF RowsOK, KeptAs
  <2>3. \A ref \in refs' : \E row \in rows' : row.id = ref[1] /\ row.table = "case"
    BY <1>1, PruneRows DEF RowsOK
  <2> QED
    BY <2>1, <2>2, <2>3 DEF RowsOK
<1>4. \A p \in Runners : acted'[p] = {item \in acted[p] : item.session # s}
  BY <1>1
<1>5. CommandsOK'
  <2>1. acted' \in [Runners -> SUBSET Item]
    BY <1>1 DEF CommandsOK
  <2>2. ASSUME NEW p \in Runners
        PROVE  WorkOK(p)'
    <3>1. WorkOK(p) /\ work'[p] = work[p] /\ acted[p] \subseteq Item
      BY <1>1 DEF CommandsOK
    <3>2. Owes(work[p], acted[p]) => Owes(work[p], acted[p])'
      BY <1>4, <3>1, PruneDone DEF Owes
    <3>3. acted[p] = {} => acted'[p] = {}
      BY <1>4
    <3>4. Knows(work[p]) => Knows(work[p])'
      BY <3>1, PruneRows DEF Knows, KeptAs
    <3> QED
      BY <3>1, <3>2, <3>3, <3>4 DEF WorkOK
  <2> QED
    BY <1>1, <2>1, <2>2 DEF CommandsOK
<1>6. FinishedOK'
  BY <1>1, PruneDone DEF FinishedOK
<1> QED
  BY <1>2, <1>3, <1>5, <1>6

-----------------------------------------------------------------------------

LEMMA InitIInv == Init => IInv
<1> SUFFICES ASSUME Init PROVE IInv
  OBVIOUS
<1>1. IsFiniteSet({})
  BY FS_EmptySet
<1>2. DOMAIN rules = {}
  BY DEF Init
<1>3. DataOK
  BY <1>1, <1>2, CoreAssumption DEF Init, DataOK
<1>4. RowsOK
  BY <1>1 DEF Init, RowsOK, RowsFit
<1>5. CommandsOK
  BY CoreAssumption DEF Init, CommandsOK, WorkOK
<1>6. FinishedOK
  BY DEF Init, FinishedOK
<1> QED
  BY <1>3, <1>4, <1>5, <1>6 DEF IInv

LEMMA StutterKeeps ==
  ASSUME IInv, UNCHANGED vars
  PROVE  IInv'
<1> USE DEF IInv
<1>1. UNCHANGED <<data, sessions, rows, refs, work, runs, acted, finished>>
  BY DEF vars, data
<1>2. Grows /\ RowsOK' /\ DataOK' /\ FinishedOK'
  BY <1>1, NothingMoves, RowsStay, DataStays, FinishedStays
<1>3. \A q \in Runners : WorkOK(q)'
  BY <1>1, <1>2, WorkStays
<1>4. CommandsOK'
  BY <1>1, <1>3 DEF CommandsOK
<1> QED
  BY <1>2, <1>4

LEMMA StepKeepsIInv == IInv /\ [Next]_vars => IInv'
<1> SUFFICES ASSUME IInv, [Next]_vars PROVE IInv'
  OBVIOUS
<1>1. ASSUME NEW p \in Runners, RunRules(p) \/ NextRule(p)
      PROVE  IInv'
  BY <1>1, RunRulesKeeps, NextRuleKeeps
<1>2. ASSUME NEW p \in Runners,
             Mine(p) \/ MineFeedback(p) \/ \E s \in Sessions : CreateCase(p, s)
      PROVE  IInv'
  BY <1>2, MineKeeps
<1>3. ASSUME NEW p \in Runners, CheckAlerts(p) \/ CheckAlert(p)
      PROVE  IInv'
  BY <1>3, CheckAlertsKeeps, CheckAlertKeeps
<1>4. ASSUME NEW p \in Runners, ActOnItem(p) \/ GetBySource(p) \/ AddRef(p)
      PROVE  IInv'
  BY <1>4, ActOnItemKeeps, GetBySourceKeeps, AddRefKeeps
<1>5. ASSUME NEW p \in Runners, Fails(p) \/ Ends(p) \/ Killed(p)
      PROVE  IInv'
  BY <1>5, EndingKeeps
<1>6. ASSUME NEW r \in Rules, CreateRule(r) \/ SetEnabled(r)
      PROVE  IInv'
  BY <1>6, RulesKeep
<1>7. ASSUME NEW row \in rows, Close(row)
      PROVE  IInv'
  BY <1>7, CloseKeeps
<1>8. ASSUME NEW s \in Sessions, Prune(s)
      PROVE  IInv'
  BY <1>8, PruneKeeps
<1>9. ASSUME \/ Tick
             \/ \E s \in Sessions, kind \in {"tool", "error"} : Ingest(s, kind)
             \/ \E s \in Sessions, of \in {"eval", "feedback"}, bad \in BOOLEAN :
                  Judge(s, of, bad)
      PROVE  IInv'
  BY <1>9, WorldKeeps
<1>10. CASE UNCHANGED vars
  BY <1>10, StutterKeeps
<1> QED
  BY <1>1, <1>2, <1>3, <1>4, <1>5, <1>6, <1>7, <1>8, <1>9, <1>10 DEF Next

\* All that the commands rely on, in every state: row ids and source keys are
\* unique, and what a command took up is done or is still among its items.
THEOREM CoreInvariant == Spec => []IInv
<1>1. Init => IInv
  BY InitIInv
<1>2. IInv /\ [Next]_vars => IInv'
  BY StepKeepsIInv
<1> QED
  BY <1>1, <1>2, PTL DEF Spec

\* Every variable keeps its type; rows belong to sessions that are there, and
\* references to cases that are there (core_loop/store.rs).
THEOREM TypeCorrect == Spec => []TypeOK
BY CoreInvariant, IInvTypeOK, PTL

\* A command that ended well has left one row for every hit, bad eval and bad
\* feedback that it took up, with its reference if it is a case, whatever the
\* other processes did meanwhile (core_loop/engine.rs).
THEOREM FinishedWork == Spec => []FinishedWorkIsThereOnce
<1>1. ASSUME IInv
      PROVE  FinishedWorkIsThereOnce
  <2> SUFFICES ASSUME NEW item \in finished
               PROVE  /\ Cardinality(Existing(item)) = 1
                      /\ item.ref # None =>
                           \E row \in Existing(item) : <<row.id, item.ref>> \in refs
    BY DEF FinishedWorkIsThereOnce
  <2>1. PICK row \in rows : /\ row.table = item.action /\ row.key = item.key
                            /\ item.ref # None => <<row.id, item.ref>> \in refs
    BY <1>1 DEF IInv, FinishedOK, IsDone
  <2>2. Existing(item) = {row}
    BY <1>1, <2>1 DEF Existing, IInv, RowsOK, RowsFit
  <2>3. Cardinality({row}) = 1
    BY FS_Singleton
  <2> QED
    BY <2>1, <2>2, <2>3
<1> QED
  BY <1>1, CoreInvariant, PTL
=============================================================================
