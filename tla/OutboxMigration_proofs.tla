----------------------- MODULE OutboxMigration_proofs -----------------------
(***************************************************************************)
(* The import of the old outbox is exact, for any number of openers, rows  *)
(* and kills.  The invariant says how far an opener can be with what is on *)
(* disk, and that from the commit of the import on the table holds the     *)
(* merge of the two queues, followed by what was enqueued since.  What the *)
(* merge holds is a matter of counting places: first the lemmas on the     *)
(* places of a queue, then the steps, then the two halves of the promise.  *)
(***************************************************************************)
EXTENDS OutboxMigration, FiniteSetTheorems, SequenceTheorems, WellFoundedInduction, TLAPS

\* The rows of the table after the import.
Imported(items) ==
  IF legacy = <<>> THEN RowsOf(items)
  ELSE RowsOf(At(items, Sent(items))) \o Reconcile(legacy, items)

\* Only who has committed the import can archive the file, and only who sees
\* it archived can open the store.
Progress ==
  /\ source = "archived" => marker # NoMarker
  /\ \A o \in Openers :
       /\ pc[o] = "open" => source = "archived"
       /\ pc[o] = "rename" => marker # NoMarker
       /\ pc[o] = "import" => read[o] = legacy

Contents ==
  IF marker = NoMarker THEN queue = before /\ appended = <<>>
  ELSE RowsOf(queue) = Imported(before) \o appended

Typed ==
  /\ TypeOK
  /\ before \in Seq(Item) /\ appended \in Seq(Rows)
  /\ pc = [o \in Openers |-> pc[o]] /\ read = [o \in Openers |-> read[o]]

IInv == Typed /\ Progress /\ Contents

\* The bounds are numbers.
Bounds == MaxLegacy \in Nat /\ MaxQueue \in Nat /\ MaxKills \in Nat

-----------------------------------------------------------------------------
(* The places of a queue. *)

LEMMA LessThanIsWellFounded == IsWellFoundedOn({ss \in Nat \X Nat : ss[1] < ss[2]}, Nat)
BY NatLessThanWellFounded DEF OpToRel

LEMMA LeastNumber ==
  ASSUME NEW T, T \subseteq Nat, T # {}
  PROVE  \E n \in T : \A m \in T : n <= m
<1> DEFINE R == {ss \in Nat \X Nat : ss[1] < ss[2]}
<1>1. PICK x \in T : \A y \in T : <<y, x>> \notin R
  <2>1. IsWellFoundedOn(R, Nat)
    BY LessThanIsWellFounded
  <2> HIDE DEF R
  <2> QED
    BY <2>1, WFMin
<1>2. \A y \in T : ~(y < x)
  BY <1>1
<1> QED
  BY <1>2

\* The n-th of a set of numbers is the least that has n of them up to it: one
\* less has fewer, so it is in the set itself, and makes n.
LEMMA NthExists ==
  ASSUME NEW m \in Nat, NEW at, at \subseteq 1 .. m, NEW n \in 1 .. Cardinality(at)
  PROVE  \E i \in at : Cardinality(UpTo(at, i)) = n
<1>0. \A j \in at : j \in Int /\ 1 <= j /\ j <= m
  OBVIOUS
<1>1. IsFiniteSet(at) /\ Cardinality(at) \in Nat
  <2>1. IsFiniteSet(1 .. m)
    BY FS_Interval
  <2> QED
    BY <2>1, FS_Subset, FS_CardinalityType
<1>2. \A i : IsFiniteSet(UpTo(at, i)) /\ Cardinality(UpTo(at, i)) \in Nat
  <2>1. \A i : UpTo(at, i) \subseteq at
    BY DEF UpTo
  <2> QED
    BY <1>1, <2>1, FS_Subset, FS_CardinalityType
<1> DEFINE T == {k \in 0 .. m : n <= Cardinality(UpTo(at, k))}
<1>3. m \in T
  <2>1. UpTo(at, m) = at
    BY <1>0 DEF UpTo
  <2> QED
    BY <1>1, <2>1
<1>4. PICK k \in T : \A l \in T : k <= l
  <2>1. T \subseteq Nat /\ T # {}
    BY <1>3
  <2> HIDE DEF T
  <2> QED
    BY <2>1, LeastNumber
<1>5. k # 0
  <2>1. UpTo(at, 0) = {}
    <3> SUFFICES ASSUME NEW j \in UpTo(at, 0) PROVE FALSE
      OBVIOUS
    <3> j \in at /\ j <= 0
      BY DEF UpTo
    <3> QED
      BY <1>0
  <2>2. Cardinality(UpTo(at, 0)) = 0
    BY <2>1, FS_EmptySet
  <2> QED
    BY <1>1, <2>2
<1>6. k - 1 \in 0 .. m /\ k - 1 \notin T
  BY <1>4, <1>5
<1>7. Cardinality(UpTo(at, k - 1)) < n /\ n <= Cardinality(UpTo(at, k))
  BY <1>1, <1>2, <1>6
<1>8. k \in at
  <2> SUFFICES ASSUME k \notin at PROVE FALSE
    OBVIOUS
  <2>1. \A j \in at : j <= k <=> j <= k - 1
    BY <1>0, <1>4
  <2>2. UpTo(at, k) = UpTo(at, k - 1)
    BY <2>1 DEF UpTo
  <2> QED
    BY <1>1, <1>2, <1>7, <2>2
<1>9. UpTo(at, k) = UpTo(at, k - 1) \cup {k} /\ k \notin UpTo(at, k - 1)
  <2>1. \A j \in at : j <= k <=> j <= k - 1 \/ j = k
    BY <1>0, <1>4
  <2>2. ~(k <= k - 1) /\ k <= k
    BY <1>4
  <2> QED
    BY <1>8, <2>1, <2>2 DEF UpTo
<1>10. Cardinality(UpTo(at, k)) = Cardinality(UpTo(at, k - 1)) + 1
  BY <1>2, <1>9, FS_AddElement
<1> QED
  BY <1>1, <1>2, <1>7, <1>8, <1>10

\* A set of places of a queue is finite, and so is each part of it.
LEMMA PlacesAreFinite ==
  ASSUME NEW m \in Nat, NEW at, at \subseteq 1 .. m
  PROVE  /\ IsFiniteSet(at) /\ Cardinality(at) \in Nat
         /\ \A i : IsFiniteSet(UpTo(at, i)) /\ Cardinality(UpTo(at, i)) \in 0 .. Cardinality(at)
<1>1. IsFiniteSet(at) /\ Cardinality(at) \in Nat
  <2>1. IsFiniteSet(1 .. m)
    BY FS_Interval
  <2> QED
    BY <2>1, FS_Subset, FS_CardinalityType
<1>2. ASSUME NEW i
      PROVE  IsFiniteSet(UpTo(at, i)) /\ Cardinality(UpTo(at, i)) \in 0 .. Cardinality(at)
  <2>1. UpTo(at, i) \subseteq at
    BY DEF UpTo
  <2>2. IsFiniteSet(UpTo(at, i)) /\ Cardinality(UpTo(at, i)) <= Cardinality(at)
    BY <1>1, <2>1, FS_Subset
  <2>3. Cardinality(UpTo(at, i)) \in Nat
    BY <2>2, FS_CardinalityType
  <2> QED
    BY <1>1, <2>2, <2>3
<1> QED
  BY <1>1, <1>2

\* The number of places up to one of them grows with it.
LEMMA RankGrows ==
  ASSUME NEW m \in Nat, NEW at, at \subseteq 1 .. m, NEW i \in at, NEW j \in at, i < j
  PROVE  Cardinality(UpTo(at, i)) < Cardinality(UpTo(at, j))
<1>0. \A k \in at : k \in Int
  OBVIOUS
<1>1. UpTo(at, i) \subseteq UpTo(at, j) /\ j \in UpTo(at, j) /\ j \notin UpTo(at, i)
  <2>1. \A k \in at : k <= i => k <= j
    BY <1>0
  <2>2. j <= j /\ ~(j <= i)
    BY <1>0
  <2> QED
    BY <2>1, <2>2 DEF UpTo
<1>2. IsFiniteSet(UpTo(at, j)) /\ Cardinality(UpTo(at, j)) \in Nat /\ Cardinality(UpTo(at, i)) \in Nat
  <2>1. /\ Cardinality(at) \in Nat
        /\ \A k : IsFiniteSet(UpTo(at, k)) /\ Cardinality(UpTo(at, k)) \in 0 .. Cardinality(at)
    BY PlacesAreFinite
  <2> QED
    BY <2>1
<1>3. Cardinality(UpTo(at, i)) <= Cardinality(UpTo(at, j))
  BY <1>1, <1>2, FS_Subset
<1>4. Cardinality(UpTo(at, i)) # Cardinality(UpTo(at, j))
  BY <1>1, <1>2, FS_Subset
<1> QED
  BY <1>2, <1>3, <1>4

\* The n-th place is one of them, with n of them up to it.
LEMMA NthIsPlace ==
  ASSUME NEW m \in Nat, NEW at, at \subseteq 1 .. m, NEW n \in 1 .. Cardinality(at)
  PROVE  Nth(at, n) \in at /\ Cardinality(UpTo(at, Nth(at, n))) = n
BY NthExists DEF Nth

\* A place is the one that its number names.
LEMMA PlaceIsNth ==
  ASSUME NEW m \in Nat, NEW at, at \subseteq 1 .. m, NEW i \in at
  PROVE  /\ Cardinality(UpTo(at, i)) \in 1 .. Cardinality(at)
         /\ Nth(at, Cardinality(UpTo(at, i))) = i
<1> DEFINE n == Cardinality(UpTo(at, i))
<1>0. \A k \in at : k \in Int
  OBVIOUS
<1>1. n \in 0 .. Cardinality(at) /\ IsFiniteSet(UpTo(at, i)) /\ Cardinality(at) \in Nat
  BY PlacesAreFinite
<1>2. n # 0
  <2>1. i \in UpTo(at, i)
    BY <1>0 DEF UpTo
  <2> QED
    BY <1>1, <2>1, FS_EmptySet
<1>3. n \in 1 .. Cardinality(at)
  BY <1>1, <1>2
<1> DEFINE j == Nth(at, n)
<1>4. j \in at /\ Cardinality(UpTo(at, j)) = n
  <2> HIDE DEF n
  <2> QED
    BY <1>3, NthIsPlace
<1>5. ~(i < j) /\ ~(j < i)
  <2> HIDE DEF j
  <2>1. i < j => n < Cardinality(UpTo(at, j))
    BY <1>4, RankGrows
  <2>2. j < i => Cardinality(UpTo(at, j)) < n
    BY <1>4, RankGrows
  <2> QED
    BY <1>1, <1>4, <2>1, <2>2
<1>6. i = j
  <2>1. i \in Int /\ j \in Int
    BY <1>0, <1>4
  <2> HIDE DEF j
  <2> QED
    BY <1>5, <2>1
<1> QED
  BY <1>3, <1>6

\* Places are listed in their order.
LEMMA NthGrows ==
  ASSUME NEW m \in Nat, NEW at, at \subseteq 1 .. m,
         NEW a \in 1 .. Cardinality(at), NEW b \in 1 .. Cardinality(at), a < b
  PROVE  Nth(at, a) < Nth(at, b)
<1> DEFINE i == Nth(at, a)
           j == Nth(at, b)
<1>1. i \in at /\ Cardinality(UpTo(at, i)) = a
  BY NthIsPlace
<1>2. j \in at /\ Cardinality(UpTo(at, j)) = b
  BY NthIsPlace
<1> HIDE DEF i, j
<1>3. i \in Int /\ j \in Int /\ a \in Int /\ b \in Int
  <2>1. Cardinality(at) \in Nat
    BY PlacesAreFinite
  <2> QED
    BY <1>1, <1>2, <2>1
<1>4. i # j
  BY <1>1, <1>2, <1>3
<1>5. ~(j < i)
  <2> SUFFICES ASSUME j < i PROVE FALSE
    OBVIOUS
  <2>1. b < a
    BY <1>1, <1>2, RankGrows
  <2> QED
    BY <1>3, <2>1
<1>6. i < j
  BY <1>3, <1>4, <1>5
<1> QED
  BY <1>6 DEF i, j

-----------------------------------------------------------------------------
(* Counting rows. *)

Named(at, numbers) == {Nth(at, n) : n \in numbers}

\* As many places as numbers name them.
LEMMA NthImage ==
  ASSUME NEW m \in Nat, NEW at, at \subseteq 1 .. m, NEW A, A \subseteq 1 .. Cardinality(at)
  PROVE  Cardinality(Named(at, A)) = Cardinality(A)
<1> DEFINE T == {Nth(at, n) : n \in A}
           f == [n \in A |-> Nth(at, n)]
<1>1. Cardinality(at) \in Nat
  BY PlacesAreFinite
<1>2. IsFiniteSet(A)
  <2>1. IsFiniteSet(1 .. Cardinality(at))
    BY <1>1, FS_Interval
  <2> QED
    BY <2>1, FS_Subset
<1>3. \A a, b \in A : Nth(at, a) = Nth(at, b) => a = b
  <2> SUFFICES ASSUME NEW a \in A, NEW b \in A, Nth(at, a) = Nth(at, b) PROVE a = b
    OBVIOUS
  <2>1. Cardinality(UpTo(at, Nth(at, a))) = a
    BY NthIsPlace
  <2>2. Cardinality(UpTo(at, Nth(at, b))) = b
    BY NthIsPlace
  <2> QED
    BY <2>1, <2>2
<1>4. f \in Bijection(A, T)
  BY <1>3 DEF Bijection, Injection, IsInjective, Surjection
<1>5. ExistsBijection(A, T)
  BY <1>4 DEF ExistsBijection
<1> HIDE DEF T, f
<1>6. Cardinality(T) = Cardinality(A)
  BY <1>2, <1>5, FS_Bijection
<1> QED
  BY <1>6 DEF T, Named

\* Beyond the first m of some places lie the others.
LEMMA CountBeyond ==
  ASSUME NEW m \in Nat, NEW at, at \subseteq 1 .. m, NEW lo \in Nat
  PROVE  Cardinality({i \in at : Cardinality(UpTo(at, i)) > lo})
           = IF Cardinality(at) > lo THEN Cardinality(at) - lo ELSE 0
<1> DEFINE c == Cardinality(at)
           T == {i \in at : Cardinality(UpTo(at, i)) > lo}
           A == (lo + 1) .. c
<1>1. c \in Nat
  BY PlacesAreFinite
<1>2. \A i \in at : Cardinality(UpTo(at, i)) \in 1 .. c /\ Nth(at, Cardinality(UpTo(at, i))) = i
  BY PlaceIsNth
<1>3. \A n \in 1 .. c : Nth(at, n) \in at /\ Cardinality(UpTo(at, Nth(at, n))) = n
  BY NthIsPlace
<1> HIDE DEF c
<1>4. A \subseteq 1 .. c
  BY <1>1
<1>5. T = Named(at, A)
  <2>1. ASSUME NEW i \in T PROVE i \in {Nth(at, n) : n \in A}
    <3>1. Cardinality(UpTo(at, i)) \in A /\ i = Nth(at, Cardinality(UpTo(at, i)))
      BY <1>1, <1>2
    <3> HIDE DEF A, T
    <3> QED
      BY <3>1
  <2>2. ASSUME NEW n \in A PROVE Nth(at, n) \in T
    <3>1. n > lo
      BY <1>1
    <3> QED
      BY <1>3, <1>4, <3>1
  <2> HIDE DEF A, T
  <2> QED
    BY <2>1, <2>2 DEF Named
<1>6. Cardinality(T) = Cardinality(A)
  <2> HIDE DEF A, T
  <2> QED
    BY <1>4, <1>5, NthImage DEF c
<1>7. Cardinality(A) = IF c > lo THEN c - lo ELSE 0
  <2>1. lo + 1 \in Int /\ c \in Int
    BY <1>1
  <2>2. Cardinality((lo + 1) .. c) = IF lo + 1 > c THEN 0 ELSE c - (lo + 1) + 1
    BY <2>1, FS_Interval
  <2> QED
    BY <1>1, <2>2
<1> QED
  BY <1>6, <1>7 DEF c

\* The number of rows among the items at some places.
LEMMA CountAt ==
  ASSUME NEW m \in Nat, NEW items, NEW at, at \subseteq 1 .. m, NEW row
  PROVE  Count(RowsOf(At(items, at)), row) = Cardinality({i \in at : items[i].row = row})
<1> DEFINE c == Cardinality(at)
           rows == RowsOf(At(items, at))
           A == {n \in DOMAIN rows : rows[n] = row}
           T == {i \in at : items[i].row = row}
<1>1. c \in Nat
  BY PlacesAreFinite
<1>2. \A i \in at : Cardinality(UpTo(at, i)) \in 1 .. c /\ Nth(at, Cardinality(UpTo(at, i))) = i
  BY PlaceIsNth
<1>3. \A n \in 1 .. c : Nth(at, n) \in at
  BY NthIsPlace
<1>4. DOMAIN rows = 1 .. c /\ \A n \in 1 .. c : rows[n] = items[Nth(at, n)].row
  BY DEF RowsOf, At
<1> HIDE DEF rows
<1>5. T = Named(at, A) /\ A \subseteq 1 .. c
  <2>1. ASSUME NEW i \in T PROVE i \in {Nth(at, n) : n \in A}
    <3>1. Cardinality(UpTo(at, i)) \in A /\ i = Nth(at, Cardinality(UpTo(at, i)))
      BY <1>2, <1>4
    <3> HIDE DEF A, T
    <3> QED
      BY <3>1
  <2>2. ASSUME NEW n \in A PROVE Nth(at, n) \in T
    BY <1>3, <1>4
  <2>3. A \subseteq 1 .. c
    BY <1>4
  <2> HIDE DEF A, T
  <2> QED
    BY <2>1, <2>2, <2>3 DEF Named
<1>6. Cardinality(T) = Cardinality(A)
  <2> HIDE DEF A, T
  <2> QED
    BY <1>5, NthImage
<1> QED
  BY <1>6 DEF Count, rows

\* A row occurs in two queues one after the other as often as in both.
LEMMA CountJoin ==
  ASSUME NEW S, NEW a \in Seq(S), NEW b \in Seq(S), NEW row
  PROVE  Count(a \o b, row) = Count(a, row) + Count(b, row)
<1> DEFINE A == {i \in DOMAIN a : a[i] = row}
           B == {i \in DOMAIN b : b[i] = row}
           C == {i \in DOMAIN (a \o b) : (a \o b)[i] = row}
           n == Len(a)
           f == [i \in B |-> i + n]
           D == {i + n : i \in B}
<1>1. n \in Nat /\ Len(b) \in Nat /\ DOMAIN a = 1 .. n /\ DOMAIN b = 1 .. Len(b)
  OBVIOUS
<1>2. /\ DOMAIN (a \o b) = 1 .. (n + Len(b))
      /\ \A i \in 1 .. n : (a \o b)[i] = a[i]
      /\ \A i \in 1 .. Len(b) : (a \o b)[i + n] = b[i]
  OBVIOUS
<1> DEFINE ab == a \o b
           l == Len(b)
<1> HIDE DEF ab, l, n
<1>3. C = A \cup D
  <2>1. ASSUME NEW i \in C PROVE i \in A \cup D
    <3>1. i \in 1 .. (n + l) /\ ab[i] = row
      BY <1>2 DEF ab, l
    <3>2. CASE i \in 1 .. n
      BY <1>1, <1>2, <3>1, <3>2 DEF ab
    <3>3. CASE i \notin 1 .. n
      <4>1. i - n \in 1 .. l /\ i = (i - n) + n
        BY <1>1, <3>1, <3>3 DEF l
      <4>2. b[i - n] = row
        BY <1>2, <3>1, <4>1 DEF ab, l
      <4>3. i - n \in B
        BY <1>1, <4>1, <4>2 DEF l
      <4> QED
        BY <4>1, <4>3
    <3> QED
      BY <3>2, <3>3
  <2>2. ASSUME NEW i \in A PROVE i \in C
    BY <1>1, <1>2
  <2>3. ASSUME NEW i \in B PROVE i + n \in C
    BY <1>1, <1>2
  <2> HIDE DEF A, B, C
  <2> QED
    BY <2>1, <2>2, <2>3
<1>4. A \cap D = {}
  <2> SUFFICES ASSUME NEW i \in B, i + n \in A PROVE FALSE
    OBVIOUS
  <2>1. i \in 1 .. l /\ i + n \in 1 .. n
    BY <1>1 DEF l
  <2> QED
    BY <1>1, <2>1 DEF l
<1>5. IsFiniteSet(A) /\ IsFiniteSet(B)
  <2>1. IsFiniteSet(1 .. n) /\ IsFiniteSet(1 .. l)
    BY <1>1, FS_Interval DEF l
  <2>2. A \subseteq 1 .. n /\ B \subseteq 1 .. l
    BY <1>1 DEF l
  <2> QED
    BY <2>1, <2>2, FS_Subset
<1>6. IsFiniteSet(D) /\ Cardinality(D) = Cardinality(B)
  <2>1. \A i, j \in B : i + n = j + n => i = j
    BY <1>1
  <2>2. f \in Bijection(B, D)
    <3> HIDE DEF B
    <3> QED
      BY <2>1 DEF Bijection, Injection, IsInjective, Surjection
  <2>3. ExistsBijection(B, D)
    BY <2>2 DEF ExistsBijection
  <2> HIDE DEF B, D, f
  <2> QED
    BY <1>5, <2>3, FS_Bijection
<1>7. Cardinality(A \cup D) = Cardinality(A) + Cardinality(D)
  <2> HIDE DEF A, D
  <2>1. Cardinality(A \cup D) = Cardinality(A) + Cardinality(D) - Cardinality(A \cap D)
    BY <1>5, <1>6, FS_Union
  <2>2. Cardinality({}) = 0
    BY FS_EmptySet
  <2>3. Cardinality(A) \in Nat /\ Cardinality(D) \in Nat
    BY <1>5, <1>6, FS_CardinalityType
  <2>4. Cardinality(A \cap D) = 0
    BY <1>4, <2>2
  <2> QED
    BY <2>1, <2>3, <2>4
<1>8. Cardinality(C) = Cardinality(A) + Cardinality(B)
  BY <1>3, <1>6, <1>7
<1> QED
  BY <1>8 DEF Count

-----------------------------------------------------------------------------
(* What the merge holds. *)

LEMMA PlacesOfItems ==
  ASSUME NEW items \in Seq(Item)
  PROVE  /\ Len(items) \in Nat /\ DOMAIN items = 1 .. Len(items)
         /\ Pending(items) \subseteq 1 .. Len(items)
         /\ Sent(items) \subseteq 1 .. Len(items)
BY DEF Pending, Sent

LEMMA RowsOfType ==
  ASSUME NEW items \in Seq(Item)
  PROVE  /\ RowsOf(items) \in Seq(Rows)
         /\ Len(RowsOf(items)) = Len(items)
         /\ \A i \in 1 .. Len(items) : RowsOf(items)[i] = items[i].row
<1>1. \A i \in 1 .. Len(items) : items[i] \in Item
  OBVIOUS
<1>2. \A i \in 1 .. Len(items) : items[i].row \in Rows
  BY <1>1 DEF Item
<1> QED
  BY <1>2 DEF RowsOf

LEMMA AtType ==
  ASSUME NEW items \in Seq(Item), NEW at, at \subseteq 1 .. Len(items)
  PROVE  /\ At(items, at) \in Seq(Item) /\ Len(At(items, at)) = Cardinality(at)
         /\ Cardinality(at) \in Nat
         /\ \A n \in 1 .. Cardinality(at) : /\ At(items, at)[n] = items[Nth(at, n)]
                                            /\ Nth(at, n) \in at
<1> DEFINE c == Cardinality(at)
<1>1. Len(items) \in Nat
  OBVIOUS
<1>2. c \in Nat
  BY <1>1, PlacesAreFinite
<1>3. \A n \in 1 .. c : Nth(at, n) \in at
  BY <1>1, NthIsPlace
<1> HIDE DEF c
<1>4. \A n \in 1 .. c : items[Nth(at, n)] \in Item
  <2>1. \A i \in 1 .. Len(items) : items[i] \in Item
    OBVIOUS
  <2> QED
    BY <1>3, <2>1
<1>5. /\ At(items, at) = [n \in 1 .. c |-> items[Nth(at, n)]]
  BY DEF At, c
<1>6. At(items, at) \in Seq(Item) /\ Len(At(items, at)) = c
  BY <1>2, <1>4, <1>5
<1> QED
  BY <1>2, <1>3, <1>5, <1>6 DEF c

LEMMA ReconcileType ==
  ASSUME NEW items \in Seq(Item), NEW rows \in Seq(Rows)
  PROVE  /\ Unmatched(rows, items) \subseteq 1 .. Len(items)
         /\ RowsOf(At(items, Unmatched(rows, items))) \in Seq(Rows)
         /\ Reconcile(rows, items) \in Seq(Rows)
<1>1. Unmatched(rows, items) \subseteq 1 .. Len(items)
  BY PlacesOfItems DEF Unmatched
<1>2. At(items, Unmatched(rows, items)) \in Seq(Item)
  BY <1>1, AtType
<1>3. RowsOf(At(items, Unmatched(rows, items))) \in Seq(Rows)
  BY <1>2, RowsOfType
<1> QED
  BY <1>1, <1>3 DEF Reconcile

LEMMA RowsOfJoin ==
  ASSUME NEW items \in Seq(Item), NEW rows \in Seq(Rows)
  PROVE  LET new == [i \in DOMAIN rows |-> [row |-> rows[i], sent |-> FALSE]]
         IN  items \o new \in Seq(Item) /\ RowsOf(items \o new) = RowsOf(items) \o rows
<1> DEFINE new == [i \in DOMAIN rows |-> [row |-> rows[i], sent |-> FALSE]]
<1>1. new \in Seq(Item) /\ Len(new) = Len(rows) /\ \A i \in 1 .. Len(rows) : new[i].row = rows[i]
  <2>1. Len(rows) \in Nat /\ DOMAIN rows = 1 .. Len(rows)
    OBVIOUS
  <2>2. \A i \in 1 .. Len(rows) : new[i] = [row |-> rows[i], sent |-> FALSE]
    BY <2>1
  <2>3. \A i \in 1 .. Len(rows) : rows[i] \in Rows
    OBVIOUS
  <2>4. \A i \in 1 .. Len(rows) : [row |-> rows[i], sent |-> FALSE] \in Item
    BY <2>3 DEF Item
  <2>5. new \in [1 .. Len(rows) -> Item]
    BY <2>1, <2>4
  <2>6. new \in Seq(Item) /\ Len(new) = Len(rows)
    <3> HIDE DEF new
    <3> QED
      BY <2>1, <2>5
  <2> QED
    BY <2>2, <2>6
<1> HIDE DEF new
<1> DEFINE both == items \o new
           joined == RowsOf(items) \o rows
<1>2. both \in Seq(Item) /\ Len(both) = Len(items) + Len(rows)
  BY <1>1
<1>3. RowsOf(both) \in Seq(Rows) /\ Len(RowsOf(both)) = Len(items) + Len(rows)
  BY <1>2, RowsOfType
<1>4. RowsOf(items) \in Seq(Rows) /\ Len(RowsOf(items)) = Len(items)
  BY RowsOfType
<1>5. joined \in Seq(Rows) /\ Len(joined) = Len(items) + Len(rows)
  BY <1>4
<1>6. ASSUME NEW i \in 1 .. (Len(items) + Len(rows)) PROVE RowsOf(both)[i] = joined[i]
  <2>1. RowsOf(both)[i] = both[i].row
    BY <1>2, RowsOfType
  <2>2. CASE i <= Len(items)
    <3>1. both[i] = items[i] /\ joined[i] = RowsOf(items)[i]
      BY <1>1, <1>4, <2>2
    <3>2. RowsOf(items)[i] = items[i].row
      BY <2>2, RowsOfType
    <3> QED
      BY <2>1, <3>1, <3>2
  <2>3. CASE ~(i <= Len(items))
    <3>1. both[i] = new[i - Len(items)] /\ joined[i] = rows[i - Len(items)]
      BY <1>1, <1>4, <2>3
    <3>2. i - Len(items) \in 1 .. Len(rows)
      BY <2>3
    <3> QED
      BY <1>1, <2>1, <3>1, <3>2
  <2> QED
    BY <2>2, <2>3
<1>7. RowsOf(both) = joined
  <2> HIDE DEF both, joined
  <2> QED
    BY <1>3, <1>5, <1>6
<1> QED
  BY <1>2, <1>7 DEF new

\* Of the pending rows that are alike, those stay that the file has no match
\* for; of a replaced kind none.
LEMMA UnmatchedCount ==
  ASSUME NEW items \in Seq(Item), NEW rows \in Seq(Rows), NEW row
  PROVE  LET p == Cardinality({i \in Pending(items) : items[i].row = row})
             c == Count(rows, row)
         IN  Cardinality({i \in Unmatched(rows, items) : items[i].row = row})
               = IF Replaced(rows, row) THEN 0 ELSE IF p > c THEN p - c ELSE 0
<1> DEFINE P == {i \in Pending(items) : items[i].row = row}
           K == {i \in Unmatched(rows, items) : items[i].row = row}
           c == Count(rows, row)
<1>1. Len(items) \in Nat /\ P \subseteq 1 .. Len(items)
  BY PlacesOfItems
<1>2. c \in Nat
  <2>1. DOMAIN rows = 1 .. Len(rows) /\ Len(rows) \in Nat
    OBVIOUS
  <2>2. {i \in DOMAIN rows : rows[i] = row} \subseteq 1 .. Len(rows)
    BY <2>1
  <2> QED
    BY <2>1, <2>2, PlacesAreFinite DEF Count
<1>3. \A i \in P : Alike(items, i) = P
  BY DEF Alike
<1>4. CASE Replaced(rows, row)
  <2>1. K = {}
    BY <1>4 DEF Unmatched, KeepSqlite
  <2> QED
    BY <1>4, <2>1, FS_EmptySet
<1>5. CASE ~Replaced(rows, row)
  <2>1. ASSUME NEW i \in P
        PROVE  KeepSqlite(rows, items, i) <=> Cardinality(UpTo(P, i)) > c
    <3>1. Alike(items, i) = P /\ items[i].row = row
      BY <1>3
    <3> HIDE DEF P
    <3> QED
      BY <1>5, <3>1 DEF KeepSqlite
  <2>2. K = {i \in P : KeepSqlite(rows, items, i)}
    BY DEF Unmatched
  <2>3. K = {i \in P : Cardinality(UpTo(P, i)) > c}
    <3> HIDE DEF P, K, c
    <3> QED
      BY <2>1, <2>2
  <2>4. Cardinality({i \in P : Cardinality(UpTo(P, i)) > c})
          = IF Cardinality(P) > c THEN Cardinality(P) - c ELSE 0
    <3> HIDE DEF P, c
    <3> QED
      BY <1>1, <1>2, CountBeyond
  <2> QED
    BY <1>5, <2>3, <2>4
<1> QED
  BY <1>4, <1>5

-----------------------------------------------------------------------------
(* The steps. *)

LEMMA DigestIsMarker == \A rows : Digest(rows) # NoMarker
<1> SUFFICES ASSUME NEW rows PROVE <<rows>> # <<>>
  BY DEF Digest, NoMarker
<1>1. Len(<<rows>>) = 1 /\ Len(<<>>) = 0
  OBVIOUS
<1> QED
  BY <1>1

LEMMA ImportedType ==
  ASSUME NEW items \in Seq(Item), legacy \in Seq(Rows)
  PROVE  Imported(items) \in Seq(Rows)
<1>1. RowsOf(items) \in Seq(Rows)
  BY RowsOfType
<1>2. At(items, Sent(items)) \in Seq(Item)
  BY PlacesOfItems, AtType
<1>3. RowsOf(At(items, Sent(items))) \in Seq(Rows)
  BY <1>2, RowsOfType
<1>4. Reconcile(legacy, items) \in Seq(Rows)
  BY ReconcileType
<1> QED
  BY <1>1, <1>3, <1>4 DEF Imported

LEMMA InitIInv == Bounds /\ Init => IInv
<1> SUFFICES ASSUME Bounds, Init PROVE IInv
  OBVIOUS
<1>1. ASSUME NEW S, NEW n \in Nat, NEW s \in BoundedSeq(S, n) PROVE s \in Seq(S)
  <2>1. PICK m \in 0 .. n : s \in [1 .. m -> S]
    BY DEF BoundedSeq, SeqOf
  <2> QED
    BY <2>1
<1>2. legacy \in Seq(Rows) /\ queue \in Seq(Item)
  BY <1>1 DEF Init, Bounds
<1>3. Typed
  BY <1>2 DEF Init, Bounds, Typed, TypeOK
<1>4. Progress /\ Contents
  BY DEF Init, Progress, Contents
<1> QED
  BY <1>3, <1>4 DEF IInv

\* The queue and what it is compared with stay.
LEMMA ContentsStay ==
  Contents /\ UNCHANGED <<legacy, queue, marker, before, appended>> => Contents'
<1> SUFFICES ASSUME Contents, UNCHANGED <<legacy, queue, marker, before, appended>>
             PROVE  Contents'
  OBVIOUS
<1>1. Imported(before)' = Imported(before)
  BY DEF Imported, Reconcile, Unmatched, KeepSqlite, Alike, Pending, Sent, At, RowsOf
<1> QED
  BY <1>1 DEF Contents

\* A step of an opener that does not touch the queue.
LEMMA OpenerSteps ==
  ASSUME Bounds, IInv, NEW o \in Openers,
         SourceMissing(o) \/ SourceFound(o) \/ ReadLegacy(o) \/ OpenFails(o)
           \/ Rename(o) \/ Kill(o)
  PROVE  IInv'
<1> USE DEF IInv, Goto
<1>1. Contents'
  BY ContentsStay DEF SourceMissing, SourceFound, ReadLegacy, OpenFails, Rename, Kill
<1>2. CASE SourceMissing(o)
  BY <1>1, <1>2 DEF SourceMissing, Typed, TypeOK, Progress
<1>3. CASE SourceFound(o)
  BY <1>1, <1>3 DEF SourceFound, Typed, TypeOK, Progress
<1>4. CASE ReadLegacy(o)
  BY <1>1, <1>4 DEF ReadLegacy, Typed, TypeOK, Progress
<1>5. CASE OpenFails(o)
  BY <1>1, <1>5 DEF OpenFails, Typed, TypeOK, Progress
<1>6. CASE Rename(o)
  BY <1>1, <1>6 DEF Rename, Typed, TypeOK, Progress
<1>7. CASE Kill(o)
  <2>1. kills' \in 0 .. MaxKills
    BY <1>7 DEF Kill, Typed, TypeOK, Bounds
  <2>2. Typed'
    BY <1>7, <2>1 DEF Kill, Typed, TypeOK
  <2> QED
    BY <1>1, <1>7, <2>2 DEF Kill, Typed, TypeOK, Progress
<1> QED
  BY <1>2, <1>3, <1>4, <1>5, <1>6, <1>7

\* The import: only the first one finds no marker, and it finds the table as
\* it was.
LEMMA MigrateRowsStep ==
  ASSUME IInv, NEW o \in Openers, MigrateRows(o)
  PROVE  IInv'
<1>1. read[o] = legacy /\ legacy \in Seq(Rows) /\ queue \in Seq(Item) /\ before \in Seq(Item)
  BY DEF IInv, Typed, TypeOK, Progress, MigrateRows
<1>2. CASE marker = Digest(legacy)
  <2>1. UNCHANGED <<legacy, queue, marker, before, appended>>
    BY <1>1, <1>2 DEF MigrateRows, MarkerMatches
  <2>2. Contents'
    BY <2>1, ContentsStay DEF IInv
  <2>3. marker # NoMarker
    BY <1>2, DigestIsMarker
  <2> QED
    BY <2>1, <2>2, <2>3 DEF IInv, Typed, TypeOK, Progress, MigrateRows, Goto
<1>3. CASE marker # Digest(legacy)
  <2>1. marker = NoMarker
    BY <1>3 DEF IInv, Typed, TypeOK
  <2>2. queue = before /\ appended = <<>>
    BY <2>1 DEF IInv, Contents
  <2>3. marker' = Digest(legacy) /\ marker' # NoMarker
    BY <1>1, <1>3, DigestIsMarker DEF MigrateRows, MarkerMatches
  <2>4. UNCHANGED <<legacy, source, target, read, kills, before, appended>>
    BY DEF MigrateRows
  <2>5. Imported(before)' = Imported(before)
    BY <2>4 DEF Imported, Reconcile, Unmatched, KeepSqlite, Alike, Pending, Sent, At, RowsOf
  <2>6. Imported(before) \in Seq(Rows) /\ Imported(before) \o <<>> = Imported(before)
    <3>1. Imported(before) \in Seq(Rows)
      BY <1>1, ImportedType
    <3> QED
      BY <3>1
  <2>7. queue' \in Seq(Item) /\ RowsOf(queue') = Imported(before)
    <3>1. CASE legacy = <<>>
      <4>1. queue' = queue
        BY <1>1, <1>3, <3>1 DEF MigrateRows, MarkerMatches
      <4> QED
        BY <1>1, <2>2, <3>1, <4>1 DEF Imported
    <3>2. CASE legacy # <<>>
      <4> DEFINE old == At(before, Sent(before))
                 rows == Reconcile(legacy, before)
      <4>1. queue' = old \o [i \in DOMAIN rows |-> [row |-> rows[i], sent |-> FALSE]]
        BY <1>1, <1>3, <2>2, <3>2 DEF MigrateRows, MarkerMatches, ReplacePending
      <4>2. old \in Seq(Item) /\ rows \in Seq(Rows)
        BY <1>1, PlacesOfItems, AtType, ReconcileType
      <4>3. Imported(before) = RowsOf(old) \o rows
        BY <3>2 DEF Imported
      <4> HIDE DEF old, rows
      <4> QED
        BY <4>1, <4>2, <4>3, RowsOfJoin
    <3> QED
      BY <3>1, <3>2
  <2>8. Contents'
    BY <2>2, <2>3, <2>4, <2>5, <2>6, <2>7 DEF Contents, RowsOf
  <2>9. Typed'
    BY <2>3, <2>4, <2>7 DEF IInv, Typed, TypeOK, MigrateRows, Goto
  <2>10. Progress'
    BY <2>3, <2>4 DEF IInv, Typed, TypeOK, Progress, MigrateRows, Goto
  <2> QED
    BY <2>8, <2>9, <2>10 DEF IInv
<1> QED
  BY <1>2, <1>3

LEMMA EnqueueStep ==
  ASSUME IInv, NEW o \in Openers, NEW row \in Rows, Enqueue(o, row)
  PROVE  IInv'
<1> DEFINE new == <<row>>
<1>1. legacy \in Seq(Rows) /\ queue \in Seq(Item) /\ before \in Seq(Item) /\ appended \in Seq(Rows)
  BY DEF IInv, Typed, TypeOK
<1>2. marker # NoMarker
  BY DEF IInv, Progress, Enqueue
<1>3. UNCHANGED <<legacy, source, target, marker, pc, read, kills, before>>
  BY DEF Enqueue
<1>4. queue' \in Seq(Item) /\ RowsOf(queue') = RowsOf(queue) \o new
  <2>1. new \in Seq(Rows) /\ DOMAIN new = 1 .. 1 /\ new[1] = row
    OBVIOUS
  <2>2. [i \in DOMAIN new |-> [row |-> new[i], sent |-> FALSE]] = <<[row |-> row, sent |-> FALSE]>>
    <3> DEFINE item == [row |-> row, sent |-> FALSE]
               both == [i \in DOMAIN new |-> [row |-> new[i], sent |-> FALSE]]
    <3> HIDE DEF new
    <3>1. both \in [1 .. 1 -> {item}]
      <4>0. \A i \in 1 .. 1 : i = 1
        OBVIOUS
      <4>1. \A i \in DOMAIN new : [row |-> new[i], sent |-> FALSE] = item
        BY <2>1, <4>0
      <4> HIDE DEF item
      <4> QED
        BY <2>1, <4>1
    <3> HIDE DEF both, item
    <3>2. both = <<item>>
      BY <3>1
    <3> QED
      BY <3>2 DEF both, item
  <2> DEFINE item == [row |-> row, sent |-> FALSE]
  <2>3. item \in Item
    BY DEF Item
  <2>4. queue' = queue \o <<item>>
    <3>1. queue' = Append(queue, item)
      BY DEF Enqueue
    <3> HIDE DEF item
    <3> QED
      BY <1>1, <2>3, <3>1
  <2> HIDE DEF new
  <2> QED
    BY <1>1, <2>1, <2>2, <2>4, RowsOfJoin
<1>5. appended' = appended \o new /\ appended' \in Seq(Rows)
  BY <1>1 DEF Enqueue
<1>6. Imported(before)' = Imported(before)
  BY <1>3 DEF Imported, Reconcile, Unmatched, KeepSqlite, Alike, Pending, Sent, At, RowsOf
<1>7. (RowsOf(queue))' = Imported(before) \o (appended \o new)
  <2>1. RowsOf(queue) = Imported(before) \o appended
    BY <1>2 DEF IInv, Contents
  <2>2. Imported(before) \in Seq(Rows) /\ new \in Seq(Rows)
    BY <1>1, ImportedType
  <2>3. (Imported(before) \o appended) \o new = Imported(before) \o (appended \o new)
    <3> DEFINE i == Imported(before)
    <3> HIDE DEF i, new
    <3> QED
      BY <1>1, <2>2 DEF i
  <2>4. (RowsOf(queue))' = RowsOf(queue')
    BY DEF RowsOf
  <2> QED
    BY <1>4, <2>1, <2>3, <2>4
<1>8. Contents'
  BY <1>2, <1>3, <1>5, <1>6, <1>7 DEF Contents
<1>9. Typed' /\ Progress'
  BY <1>3, <1>4, <1>5 DEF IInv, Typed, TypeOK, Progress
<1> QED
  BY <1>8, <1>9 DEF IInv

LEMMA FlushStep ==
  ASSUME IInv, NEW o \in Openers, Flush(o)
  PROVE  IInv'
<1>1. legacy \in Seq(Rows) /\ queue \in Seq(Item)
  BY DEF IInv, Typed, TypeOK
<1>2. marker # NoMarker
  BY DEF IInv, Progress, Flush
<1>3. UNCHANGED <<legacy, source, target, marker, pc, read, kills, before, appended>>
  BY DEF Flush
<1>4. PICK i \in DOMAIN queue : queue' = [queue EXCEPT ![i].sent = TRUE]
  BY DEF Flush
<1>5. queue' \in Seq(Item) /\ RowsOf(queue') = RowsOf(queue)
  <2>1. \A j \in DOMAIN queue : queue[j] \in Item
    BY <1>1
  <2>2. \A j \in DOMAIN queue : queue'[j] \in Item /\ queue'[j].row = queue[j].row
    BY <1>4, <2>1 DEF Item
  <2>3. DOMAIN queue' = DOMAIN queue /\ DOMAIN queue = 1 .. Len(queue) /\ Len(queue) \in Nat
    BY <1>1, <1>4
  <2>4. queue' \in Seq(Item)
    <3> DEFINE item == [queue[i] EXCEPT !.sent = TRUE]
    <3>1. queue' = [queue EXCEPT ![i] = item]
      BY <1>4
    <3>2. item \in Item
      BY <2>1 DEF Item
    <3> HIDE DEF item
    <3>3. queue \in [1 .. Len(queue) -> Item]
      BY <1>1
    <3>4. queue' \in [1 .. Len(queue) -> Item]
      BY <3>1, <3>2, <3>3
    <3> QED
      BY <2>3, <3>4
  <2> QED
    BY <2>2, <2>3, <2>4 DEF RowsOf
<1>6. Imported(before)' = Imported(before)
  BY <1>3 DEF Imported, Reconcile, Unmatched, KeepSqlite, Alike, Pending, Sent, At, RowsOf
<1>7. (RowsOf(queue))' = RowsOf(queue)
  BY <1>5 DEF RowsOf
<1>8. Contents'
  BY <1>2, <1>3, <1>6, <1>7 DEF IInv, Contents
<1>9. Typed' /\ Progress'
  BY <1>3, <1>5 DEF IInv, Typed, TypeOK, Progress
<1> QED
  BY <1>8, <1>9 DEF IInv

LEMMA SurroundingSteps ==
  ASSUME IInv, Unlock \/ ClearTarget \/ UNCHANGED vars
  PROVE  IInv'
<1>1. UNCHANGED <<legacy, queue, marker, pc, read, kills, before, appended>>
  BY DEF Unlock, ClearTarget, vars
<1>2. Contents'
  BY <1>1, ContentsStay DEF IInv
<1>3. Typed'
  BY <1>1 DEF IInv, Typed, TypeOK, Unlock, ClearTarget, vars
<1>4. Progress'
  BY <1>1 DEF IInv, Progress, Unlock, ClearTarget, vars
<1> QED
  BY <1>2, <1>3, <1>4 DEF IInv

\* The invariant.
THEOREM Invariance == ASSUME Bounds PROVE Spec => []IInv
<1>1. Init => IInv
  BY InitIInv
<1>2. IInv /\ [Next]_vars => IInv'
  <2> SUFFICES ASSUME IInv, [Next]_vars PROVE IInv'
    OBVIOUS
  <2>1. CASE Unlock \/ ClearTarget \/ UNCHANGED vars
    BY <2>1, SurroundingSteps
  <2>2. ASSUME NEW o \in Openers,
               SourceMissing(o) \/ SourceFound(o) \/ ReadLegacy(o) \/ OpenFails(o)
                 \/ Rename(o) \/ Kill(o)
        PROVE  IInv'
    BY <2>2, OpenerSteps
  <2>3. ASSUME NEW o \in Openers, MigrateRows(o) PROVE IInv'
    BY <2>3, MigrateRowsStep
  <2>4. ASSUME NEW o \in Openers, Flush(o) PROVE IInv'
    BY <2>4, FlushStep
  <2>5. ASSUME NEW o \in Openers, NEW row \in Rows, Enqueue(o, row) PROVE IInv'
    BY <2>5, EnqueueStep
  <2> QED
    BY <2>1, <2>2, <2>3, <2>4, <2>5 DEF Next
<1> QED
  BY <1>1, <1>2, PTL DEF Spec

-----------------------------------------------------------------------------
(* The promise. *)

\* Sent and pending rows are all rows.
LEMMA CountSplit ==
  ASSUME NEW items \in Seq(Item), NEW row
  PROVE  /\ Cardinality({i \in Sent(items) : items[i].row = row}) \in Nat
         /\ Cardinality({i \in Pending(items) : items[i].row = row}) \in Nat
         /\ Count(RowsOf(items), row)
              = Cardinality({i \in Sent(items) : items[i].row = row})
                + Cardinality({i \in Pending(items) : items[i].row = row})
<1> DEFINE S == {i \in Sent(items) : items[i].row = row}
           P == {i \in Pending(items) : items[i].row = row}
<1>1. Len(items) \in Nat /\ S \subseteq 1 .. Len(items) /\ P \subseteq 1 .. Len(items)
  BY PlacesOfItems
<1>2. {i \in DOMAIN RowsOf(items) : RowsOf(items)[i] = row} = S \cup P /\ S \cap P = {}
  BY DEF RowsOf, Sent, Pending
<1> HIDE DEF S, P
<1>3. IsFiniteSet(S) /\ Cardinality(S) \in Nat
  BY <1>1, PlacesAreFinite
<1>4. IsFiniteSet(P) /\ Cardinality(P) \in Nat
  BY <1>1, PlacesAreFinite
<1>5. Cardinality(S \cup P) = Cardinality(S) + Cardinality(P)
  <2>1. Cardinality(S \cup P) = Cardinality(S) + Cardinality(P) - Cardinality(S \cap P)
    BY <1>3, <1>4, FS_Union
  <2>2. Cardinality(S \cap P) = 0
    BY <1>2, FS_EmptySet
  <2> QED
    BY <1>3, <1>4, <2>1, <2>2
<1>6. Count(RowsOf(items), row) = Cardinality(S \cup P)
  BY <1>2 DEF Count
<1> QED
  BY <1>3, <1>4, <1>5, <1>6 DEF S, P

LEMMA CountType ==
  ASSUME NEW S, NEW rows \in Seq(S), NEW row
  PROVE  Count(rows, row) \in Nat /\ Count(<<>>, row) = 0
<1>1. DOMAIN rows = 1 .. Len(rows) /\ Len(rows) \in Nat
  OBVIOUS
<1>2. {i \in DOMAIN rows : rows[i] = row} \subseteq 1 .. Len(rows)
  BY <1>1
<1>3. Count(rows, row) \in Nat
  BY <1>1, <1>2, PlacesAreFinite DEF Count
<1>4. {i \in DOMAIN <<>> : <<>>[i] = row} = {}
  OBVIOUS
<1>5. Count(<<>>, row) = 0
  BY <1>4, FS_EmptySet DEF Count
<1> QED
  BY <1>3, <1>5

\* The merge holds a row as often as the fuller of the two queues.
LEMMA MergeLosesNothing ==
  ASSUME NEW items \in Seq(Item), legacy \in Seq(Rows), NEW row
  PROVE  Count(Imported(items), row)
           = Count(RowsOf(At(items, Sent(items))), row)
               + IF Replaced(legacy, row) THEN Count(legacy, row)
                 ELSE Larger(Count(legacy, row), Count(RowsOf(At(items, Pending(items))), row))
<1> DEFINE s == Cardinality({i \in Sent(items) : items[i].row = row})
           p == Cardinality({i \in Pending(items) : items[i].row = row})
           c == Count(legacy, row)
<1>1. s \in Nat /\ p \in Nat /\ c \in Nat /\ Count(RowsOf(items), row) = s + p
  BY CountSplit, CountType
<1>2. Count(RowsOf(At(items, Sent(items))), row) = s
  <2>1. Len(items) \in Nat /\ Sent(items) \subseteq 1 .. Len(items)
    BY PlacesOfItems
  <2> QED
    BY <2>1, CountAt
<1>3. Count(RowsOf(At(items, Pending(items))), row) = p
  <2>1. Len(items) \in Nat /\ Pending(items) \subseteq 1 .. Len(items)
    BY PlacesOfItems
  <2> QED
    BY <2>1, CountAt
<1>4. CASE legacy = <<>>
  <2>1. ~Replaced(legacy, row) /\ c = 0
    BY <1>4, CountType DEF Replaced
  <2>2. Count(Imported(items), row) = s + p
    BY <1>1, <1>4 DEF Imported
  <2> HIDE DEF s, p, c
  <2>3. Larger(c, p) = p
    BY <1>1, <2>1 DEF Larger
  <2> QED
    BY <1>2, <1>3, <2>1, <2>2, <2>3 DEF c
<1>5. CASE legacy # <<>>
  <2> DEFINE old  == RowsOf(At(items, Sent(items)))
             rest == RowsOf(At(items, Unmatched(legacy, items)))
             r == IF Replaced(legacy, row) THEN 0 ELSE IF p > c THEN p - c ELSE 0
  <2>1. old \in Seq(Rows)
    BY PlacesOfItems, AtType, RowsOfType
  <2>2. rest \in Seq(Rows) /\ Reconcile(legacy, items) = legacy \o rest
    BY ReconcileType DEF Reconcile
  <2>3. Count(rest, row) = r
    <3>1. Len(items) \in Nat /\ Unmatched(legacy, items) \subseteq 1 .. Len(items)
      BY PlacesOfItems, ReconcileType
    <3>2. Count(rest, row) = Cardinality({i \in Unmatched(legacy, items) : items[i].row = row})
      BY <3>1, CountAt
    <3>3. Cardinality({i \in Unmatched(legacy, items) : items[i].row = row}) = r
      BY UnmatchedCount
    <3> QED
      BY <3>2, <3>3
  <2>4. Imported(items) = old \o (legacy \o rest)
    BY <1>5, <2>2 DEF Imported
  <2> HIDE DEF old, rest
  <2>5. Count(legacy \o rest, row) = Count(legacy, row) + Count(rest, row)
    BY <2>2, CountJoin
  <2>6. Count(old \o (legacy \o rest), row) = Count(old, row) + Count(legacy \o rest, row)
    <3>1. legacy \o rest \in Seq(Rows)
      BY <2>2
    <3> QED
      BY <2>1, <3>1, CountJoin
  <2>7. Count(Imported(items), row) = s + (c + r) /\ Count(old, row) = s
    BY <1>2, <2>3, <2>4, <2>5, <2>6 DEF old
  <2> HIDE DEF s, p, c
  <2>8. c + r = IF Replaced(legacy, row) THEN c ELSE Larger(c, p)
    BY <1>1 DEF Larger
  <2> QED
    BY <1>3, <2>7, <2>8 DEF old, c
<1> QED
  BY <1>4, <1>5

LEMMA NothingIsLost == IInv => NothingLostOrImportedTwice
<1> SUFFICES ASSUME IInv PROVE NothingLostOrImportedTwice
  OBVIOUS
<1>1. legacy \in Seq(Rows) /\ before \in Seq(Item) /\ appended \in Seq(Rows)
  BY DEF IInv, Typed, TypeOK
<1>2. CASE marker = NoMarker
  BY <1>2 DEF IInv, Contents, NothingLostOrImportedTwice
<1>3. CASE marker # NoMarker
  <2> SUFFICES ASSUME NEW row \in Occurring
               PROVE  Count(RowsOf(queue), row) =
                        Count(RowsOf(At(before, Sent(before))), row) + Count(appended, row)
                          + IF Replaced(legacy, row) THEN Count(legacy, row)
                            ELSE Larger(Count(legacy, row),
                                        Count(RowsOf(At(before, Pending(before))), row))
    BY <1>3 DEF NothingLostOrImportedTwice
  <2> DEFINE s == Count(RowsOf(At(before, Sent(before))), row)
             a == Count(appended, row)
             i == Imported(before)
             r == IF Replaced(legacy, row) THEN Count(legacy, row)
                  ELSE Larger(Count(legacy, row),
                              Count(RowsOf(At(before, Pending(before))), row))
  <2>1. RowsOf(queue) = i \o appended
    BY <1>3 DEF IInv, Contents
  <2>2. i \in Seq(Rows)
    BY <1>1, ImportedType
  <2>3. Count(i, row) = s + r
    BY <1>1, MergeLosesNothing
  <2>4. Count(i \o appended, row) = Count(i, row) + a
    <3> HIDE DEF i
    <3> QED
      BY <1>1, <2>2, CountJoin
  <2>5. s \in Nat /\ a \in Nat
    <3>1. RowsOf(At(before, Sent(before))) \in Seq(Rows)
      BY <1>1, PlacesOfItems, AtType, RowsOfType
    <3> QED
      BY <1>1, <3>1, CountType
  <2>6. r \in Nat
    <3>1. RowsOf(At(before, Pending(before))) \in Seq(Rows)
      BY <1>1, PlacesOfItems, AtType, RowsOfType
    <3> QED
      BY <1>1, <3>1, CountType DEF Larger
  <2> HIDE DEF s, a, i, r
  <2>7. Count(RowsOf(queue), row) = s + a + r
    BY <2>1, <2>3, <2>4, <2>5, <2>6
  <2> QED
    BY <2>7 DEF s, a, r
<1> QED
  BY <1>2, <1>3

\* s is a and then b.
Joined(s, a, b, S) ==
  /\ s \in Seq(S) /\ Len(s) = Len(a) + Len(b)
  /\ \A i \in 1 .. Len(a) : s[i] = a[i]
  /\ \A i \in 1 .. Len(b) : s[Len(a) + i] = b[i]

LEMMA JoinItems ==
  ASSUME NEW S, NEW a \in Seq(S), NEW b \in Seq(S), NEW s, s = a \o b
  PROVE  Joined(s, a, b, S)
BY DEF Joined

LEMMA SameItems ==
  ASSUME NEW S, NEW a \in Seq(S), NEW b \in Seq(S), Len(a) = Len(b),
         \A i \in 1 .. Len(a) : a[i] = b[i]
  PROVE  a = b
OBVIOUS

\* A part of a queue that equals another queue item by item is that queue.
LEMMA PartIs ==
  ASSUME NEW S, NEW s \in Seq(S), NEW b \in Seq(S), NEW lo \in Nat, NEW hi \in Nat,
         hi = lo + Len(b), hi <= Len(s), \A i \in 1 .. Len(b) : s[lo + i] = b[i]
  PROVE  SubSeq(s, lo + 1, hi) = b
<1> DEFINE t == SubSeq(s, lo + 1, hi)
           k == Len(b)
<1>1. k \in Nat /\ Len(s) \in Nat
  OBVIOUS
<1>2. \A i \in (lo + 1) .. hi : s[i] \in S
  BY <1>1
<1>3. /\ t \in Seq(S)
      /\ Len(t) = IF lo + 1 <= hi THEN hi - (lo + 1) + 1 ELSE 0
      /\ \A i \in 1 .. (hi - (lo + 1) + 1) : t[i] = s[(lo + 1) + i - 1]
  BY <1>2, SubSeqProperties
<1> HIDE DEF t, k
<1>4. hi - (lo + 1) + 1 = k /\ (IF lo + 1 <= hi THEN hi - (lo + 1) + 1 ELSE 0) = k
      /\ \A i \in 1 .. k : (lo + 1) + i - 1 = lo + i
  BY <1>1 DEF k
<1>5. Len(t) = k /\ \A i \in 1 .. k : t[i] = s[lo + i]
  BY <1>3, <1>4
<1>6. t = b
  <2>1. \A i \in 1 .. Len(t) : t[i] = b[i]
    BY <1>5 DEF k
  <2> QED
    BY <1>3, <1>5, <2>1, SameItems DEF k
<1> QED
  BY <1>6 DEF t

\* Four queues one after the other.
InRow(s, a, b, c, d) ==
  /\ Len(s) = Len(a) + Len(b) + Len(c) + Len(d)
  /\ SubSeq(s, Len(a) + 1, Len(a) + Len(b)) = b
  /\ SubSeq(s, Len(s) - Len(d) + 1, Len(s)) = d
  /\ \A i \in 1 .. Len(c) : s[Len(a) + Len(b) + i] = c[i]

LEMMA InARow ==
  ASSUME NEW S, NEW a \in Seq(S), NEW b \in Seq(S), NEW c \in Seq(S), NEW d \in Seq(S), NEW s,
         s = (a \o (b \o c)) \o d
  PROVE  InRow(s, a, b, c, d)
<1> DEFINE bc == b \o c
           abc == a \o bc
           ka == Len(a)
           kb == Len(b)
           kc == Len(c)
           kd == Len(d)
<1>1. ka \in Nat /\ kb \in Nat /\ kc \in Nat /\ kd \in Nat
  OBVIOUS
<1>2. bc \in Seq(S) /\ Len(bc) = kb + kc
      /\ (\A i \in 1 .. kb : bc[i] = b[i]) /\ (\A i \in 1 .. kc : bc[kb + i] = c[i])
  <2>1. Joined(bc, b, c, S)
    BY JoinItems
  <2> HIDE DEF bc
  <2> QED
    BY <2>1 DEF Joined
<1> HIDE DEF bc
<1>3. abc \in Seq(S) /\ Len(abc) = ka + Len(bc)
      /\ (\A i \in 1 .. Len(bc) : abc[ka + i] = bc[i])
  <2>1. Joined(abc, a, bc, S)
    BY <1>2, JoinItems
  <2> HIDE DEF abc
  <2> QED
    BY <2>1 DEF Joined
<1> HIDE DEF abc
<1>4. s \in Seq(S) /\ Len(s) = Len(abc) + kd
      /\ (\A i \in 1 .. Len(abc) : s[i] = abc[i])
      /\ (\A i \in 1 .. kd : s[Len(abc) + i] = d[i])
  <2>1. s = abc \o d
    BY DEF abc, bc
  <2>2. Joined(s, abc, d, S)
    BY <1>3, <2>1, JoinItems
  <2> QED
    BY <2>2 DEF Joined
<1> HIDE DEF ka, kb, kc, kd
<1>5. Len(bc) = kb + kc /\ Len(abc) = ka + (kb + kc) /\ Len(s) = (ka + (kb + kc)) + kd
  BY <1>2, <1>3, <1>4
<1>6. \A i \in 1 .. kb : s[ka + i] = b[i]
  <2> SUFFICES ASSUME NEW i \in 1 .. kb PROVE s[ka + i] = b[i]
    OBVIOUS
  <2>1. i \in 1 .. (kb + kc) /\ ka + i \in 1 .. (ka + (kb + kc))
    BY <1>1
  <2>2. s[ka + i] = abc[ka + i] /\ abc[ka + i] = bc[i] /\ bc[i] = b[i]
    BY <1>2, <1>3, <1>4, <1>5, <2>1
  <2> QED
    BY <2>2
<1>7. \A i \in 1 .. kc : s[ka + kb + i] = c[i]
  <2> SUFFICES ASSUME NEW i \in 1 .. kc PROVE s[ka + kb + i] = c[i]
    OBVIOUS
  <2>1. /\ kb + i \in 1 .. (kb + kc) /\ ka + (kb + i) \in 1 .. (ka + (kb + kc))
        /\ ka + kb + i = ka + (kb + i)
    BY <1>1
  <2>2. /\ s[ka + (kb + i)] = abc[ka + (kb + i)] /\ abc[ka + (kb + i)] = bc[kb + i]
        /\ bc[kb + i] = c[i]
    BY <1>2, <1>3, <1>4, <1>5, <2>1
  <2> QED
    BY <2>1, <2>2
<1>8. SubSeq(s, ka + 1, ka + kb) = b
  <2>1. ka + kb \in Nat /\ ka + kb <= Len(s)
    BY <1>1, <1>5
  <2> QED
    BY <1>1, <1>4, <1>6, <2>1, PartIs DEF kb
<1>9. SubSeq(s, Len(s) - kd + 1, Len(s)) = d
  <2> DEFINE lo == Len(abc)
  <2>1. lo \in Nat /\ Len(s) \in Nat /\ Len(s) = lo + kd /\ Len(s) - kd = lo
    BY <1>1, <1>5
  <2>2. \A i \in 1 .. kd : s[lo + i] = d[i]
    BY <1>4
  <2> HIDE DEF lo
  <2>3. SubSeq(s, lo + 1, Len(s)) = d
    BY <1>4, <2>1, <2>2, PartIs DEF kd
  <2> QED
    BY <2>1, <2>3
<1>10. Len(s) = ka + kb + kc + kd
  BY <1>1, <1>5
<1> QED
  BY <1>4, <1>7, <1>8, <1>9, <1>10 DEF InRow, ka, kb, kc, kd

LEMMA OrderIsKept == IInv => LegacyComesFirst
<1> SUFFICES ASSUME IInv, marker # NoMarker, legacy # <<>> PROVE LegacyComesFirst
  BY DEF LegacyComesFirst
<1> DEFINE S    == Sent(before)
           K    == Unmatched(legacy, before)
           old  == RowsOf(At(before, S))
           rest == RowsOf(At(before, K))
           now  == RowsOf(queue)
           keep == [n \in 1 .. Cardinality(K) |-> Nth(K, n)]
<1>1. legacy \in Seq(Rows) /\ before \in Seq(Item) /\ appended \in Seq(Rows)
  BY DEF IInv, Typed, TypeOK
<1>2. /\ Len(before) \in Nat /\ S \subseteq 1 .. Len(before) /\ K \subseteq 1 .. Len(before)
      /\ K \subseteq Pending(before)
  BY <1>1, PlacesOfItems, ReconcileType DEF Unmatched
<1>3. old \in Seq(Rows) /\ Len(old) = Cardinality(S) /\ Cardinality(S) \in Nat
  BY <1>1, <1>2, AtType, RowsOfType
<1>4. /\ rest \in Seq(Rows) /\ Len(rest) = Cardinality(K) /\ Cardinality(K) \in Nat
      /\ \A n \in 1 .. Cardinality(K) : Nth(K, n) \in K /\ rest[n] = before[Nth(K, n)].row
  <2>1. /\ At(before, K) \in Seq(Item) /\ Len(At(before, K)) = Cardinality(K)
        /\ Cardinality(K) \in Nat
        /\ \A n \in 1 .. Cardinality(K) : /\ At(before, K)[n] = before[Nth(K, n)]
                                          /\ Nth(K, n) \in K
    BY <1>1, <1>2, AtType
  <2>2. /\ rest \in Seq(Rows) /\ Len(rest) = Len(At(before, K))
        /\ \A n \in 1 .. Len(At(before, K)) : rest[n] = At(before, K)[n].row
    BY <2>1, RowsOfType
  <2> QED
    BY <2>1, <2>2
<1>5. now = (old \o (legacy \o rest)) \o appended
  BY DEF IInv, Contents, Imported, Reconcile
<1> HIDE DEF S, K, old, rest, now
<1> DEFINE skip == Cardinality(S)
           end  == Len(now) - Len(appended)
<1>6. /\ Len(now) = skip + Len(legacy) + Cardinality(K) + Len(appended)
      /\ SubSeq(now, skip + 1, skip + Len(legacy)) = legacy
      /\ SubSeq(now, end + 1, Len(now)) = appended
      /\ \A n \in 1 .. Cardinality(K) : now[skip + Len(legacy) + n] = rest[n]
  <2>1. /\ Len(now) = Len(old) + Len(legacy) + Len(rest) + Len(appended)
        /\ SubSeq(now, Len(old) + 1, Len(old) + Len(legacy)) = legacy
        /\ SubSeq(now, Len(now) - Len(appended) + 1, Len(now)) = appended
        /\ \A n \in 1 .. Len(rest) : now[Len(old) + Len(legacy) + n] = rest[n]
    <3>1. InRow(now, old, legacy, rest, appended)
      BY <1>1, <1>3, <1>4, <1>5, InARow
    <3> QED
      BY <3>1 DEF InRow
  <2> QED
    BY <1>3, <1>4, <2>1
<1>7. end - skip - Len(legacy) = Cardinality(K)
  <2>1. Len(legacy) \in Nat /\ Len(appended) \in Nat
    BY <1>1
  <2> QED
    BY <1>3, <1>4, <1>6, <2>1
<1>8. /\ keep \in [1 .. (end - skip - Len(legacy)) -> Pending(before)]
      /\ \A i, j \in DOMAIN keep : i < j => keep[i] < keep[j]
      /\ \A i \in DOMAIN keep : before[keep[i]].row = now[skip + Len(legacy) + i]
  <2>1. keep \in [1 .. Cardinality(K) -> Pending(before)]
    BY <1>2, <1>4
  <2>2. \A i, j \in 1 .. Cardinality(K) : i < j => Nth(K, i) < Nth(K, j)
    BY <1>2, NthGrows
  <2> QED
    BY <1>4, <1>6, <1>7, <2>1, <2>2
<1> HIDE DEF keep
<1> QED
  BY <1>6, <1>8 DEF LegacyComesFirst, now, S

\* ImportIsExact of OutboxImport: however many openers race through the
\* import and are killed, it is done once, loses nothing and keeps the order
\* of both queues (migrate, migrate_rows, rename_source).
THEOREM ImportHolds == ASSUME Bounds PROVE Spec => []ImportIsExact
<1>1. IInv => ImportIsExact
  BY NothingIsLost, OrderIsKept DEF ImportIsExact
<1>2. Spec => []IInv
  BY Invariance
<1> QED
  BY <1>1, <1>2, PTL

\* TypeOK of OutboxMigration: a marker is that of this very file, and nobody
\* has read anything else.
THEOREM TypesHold == ASSUME Bounds PROVE Spec => []TypeOK
<1>1. IInv => TypeOK
  BY DEF IInv, Typed
<1>2. Spec => []IInv
  BY Invariance
<1> QED
  BY <1>1, <1>2, PTL

=============================================================================
