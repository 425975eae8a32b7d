---------------------------- MODULE Search_proofs ----------------------------
(***************************************************************************)
(* The full-text index: what is stored is found and what is pruned is      *)
(* gone, for any number of handles, sessions and events, any order of      *)
(* their steps, and any number of kills, failures and rebuilds.            *)
(***************************************************************************)
EXTENDS Search, FiniteSetTheorems, SequenceTheorems, WellFoundedInduction, TLAPS

\* The events and batches that the constants may hold.
SearchConstants ==
  /\ IsFiniteSet(Handles) /\ IsFiniteSet(Events)
  /\ \A e \in Events : e.in \in Sessions /\ e.seq \in Nat
  /\ Batches \subseteq Seq(Events) \ {<<>>}
  /\ BatchDocs \in Nat /\ MaxReindexes \in Nat /\ MaxFaults \in Nat
  /\ None \notin Events \cup Handles /\ NotSet \notin {"message", "tool_use", "tool_result"}

\* What a handle does, and what it has in hand for it.
Work == [step : Steps, todo : Seq(Events), batch : BOOLEAN, mine : SUBSET Events,
         known : SUBSET Sessions]

Writer == [open : BOOLEAN, dir : Nat, adds : SUBSET Events]

Appending == {"insert", "look", "index"}
Rebuilding == {"events", "drop", "open", "rebuild"}

WorkOK(w) ==
  /\ w \in Work
  /\ w.step = "idle" => w = Idle
  /\ w.step \in Appending => w.todo # <<>>
  /\ w.batch => w.step \in Appending \cup {"commit"}

WriterOK(w, step, last) ==
  /\ w \in Writer /\ w.dir <= last
  /\ ~w.open => w.adds = {}
  /\ step \in {"events", "drop", "open"} => ~w.open

Types ==
  /\ searched \subseteq Sessions /\ stored \subseteq Events
  /\ prompts \in [Sessions -> Events \cup {None}]
  /\ locked \in Handles \cup {None}
  /\ dir \in Nat \ {0} /\ documents \subseteq Events
  /\ readable \in BOOLEAN /\ dirty \in BOOLEAN
  /\ writer \in [Handles -> Writer] /\ doing \in [Handles -> Work]
  /\ \A h \in Handles : WorkOK(doing[h]) /\ WriterOK(writer[h], doing[h].step, dir)
  /\ faults \in 0 .. MaxFaults
  /\ excused \cup overtaken \subseteq Events /\ raced \subseteq Sessions

\* The rebuilds that have yet to replace the directory.
Budget ==
  dir + Cardinality({p \in Handles : doing[p].step \in {"events", "drop"}}) <= MaxReindexes + 1

\* An event whose document is there, lost, or on its way: in a writer, in
\* the hands of the handle that appends it, or in those of a rebuild.
InRebuild(h) ==
  IF doing[h].step \in {"open", "rebuild"} THEN Range(doing[h].todo) ELSE {}

Accounted(e) ==
  \/ e \in excused \cup overtaken \cup documents
  \/ \E h \in Handles : e \in writer[h].adds \cup InHand(h) \cup InRebuild(h)

\* An event that is stored, or will be with its batch.
Held(e) == e \in stored \/ \E h \in Handles : e \in doing[h].mine

StoredOK ==
  /\ \A e \in stored : IsIndexed(e) => Accounted(e)
  /\ \A h \in Handles : \A e \in doing[h].mine : IsIndexed(e) => Accounted(e)

\* A session that is there, or was pruned while a handle had it in hand.
Live(s) == s \in searched \cup raced

\* A session whose documents are about to be deleted.
Going(s) == \E h \in Handles : doing[h].step \in {"take", "delete"} /\ s \in doing[h].known

\* A handle that writes a document, now or later, writes one of a live session.
HandOK(h) ==
  /\ doing[h].step = "index" => Live(Head1(h).in)
  /\ doing[h].step = "events" => \A s \in doing[h].known : Live(s)
  /\ doing[h].step \in {"drop", "open", "rebuild"} => \A e \in Range(doing[h].todo) : Live(e.in)
  /\ doing[h].step = "rebuild" => \A e \in writer[h].adds : Live(e.in)

\* What may be committed to the index in place.
Fit(e) == Live(e.in) \/ Going(e.in)

DocsOK ==
  /\ \A e \in documents : Fit(e)
  /\ \A h \in Handles : writer[h].dir = dir => \A e \in writer[h].adds : Fit(e)
  /\ \A h \in Handles : HandOK(h)

\* The prompts of the events that are stored.
Prompted(es, s) == {e \in es : e.in = s /\ e.prompt}

Earliest(e, es) == e \in es /\ \A f \in es : e.seq <= f.seq

PromptsOK ==
  \A s \in Sessions : IF Prompted(stored, s) = {} THEN prompts[s] = None
                      ELSE Earliest(prompts[s], Prompted(stored, s))

SearchInv == Types /\ Budget /\ StoredOK /\ DocsOK /\ PromptsOK

-----------------------------------------------------------------------------
(* Steps of one handle. *)

\* Handle h has w in hand and the writer wr after the step.
Acts(h, w, wr) == doing' = [doing EXCEPT ![h] = w] /\ writer' = [writer EXCEPT ![h] = wr]

\* The others are left alone.
LEMMA ActsAt ==
  ASSUME Types, NEW h \in Handles, NEW w, NEW wr, Acts(h, w, wr)
  PROVE  /\ doing'[h] = w /\ writer'[h] = wr
         /\ \A p \in Handles \ {h} : doing'[p] = doing[p] /\ writer'[p] = writer[p]
         /\ doing' = [p \in Handles |-> IF p = h THEN w ELSE doing[p]]
         /\ writer' = [p \in Handles |-> IF p = h THEN wr ELSE writer[p]]
BY DEF Types, Acts

\* What the handle and its writer look like.
LEMMA Operands ==
  ASSUME Types, NEW h \in Handles
  PROVE  /\ WorkOK(doing[h]) /\ WriterOK(writer[h], doing[h].step, dir)
         /\ doing[h].step \in Steps /\ doing[h].todo \in Seq(Events) /\ doing[h].mine \subseteq Events
         /\ doing[h].known \subseteq Sessions /\ doing[h].batch \in BOOLEAN
         /\ writer[h].adds \subseteq Events /\ writer[h].dir \in Nat /\ writer[h].dir <= dir
BY DEF Types, WorkOK, WriterOK, Work, Writer

\* The first of a list of events, and the rest.
LEMMA HeadTail ==
  ASSUME NEW todo \in Seq(Events), todo # <<>>
  PROVE  /\ Head(todo) \in Events /\ Tail(todo) \in Seq(Events)
         /\ Range(todo) = {Head(todo)} \cup Range(Tail(todo))
<1>1. Head(todo) \in Events /\ Tail(todo) \in Seq(Events)
  BY HeadTailProperties
<1>2. /\ Len(todo) \in Nat \ {0} /\ DOMAIN todo = 1 .. Len(todo)
      /\ DOMAIN Tail(todo) = 1 .. Len(todo) - 1
      /\ \A i \in 1 .. Len(todo) - 1 : Tail(todo)[i] = todo[i + 1]
      /\ Head(todo) = todo[1]
  BY HeadTailProperties, EmptySeq, LenProperties
<1> DEFINE n == Len(todo)
           t == Tail(todo)
<1> HIDE DEF n, t
<1>3. ASSUME NEW i \in 1 .. n PROVE todo[i] \in {Head(todo)} \cup Range(t)
  <2>1. CASE i = 1
    BY <1>2, <2>1
  <2>2. CASE i # 1
    <3>1. i - 1 \in 1 .. n - 1 /\ (i - 1) + 1 = i
      BY <1>2, <2>2 DEF n
    <3> QED
      BY <1>2, <3>1 DEF Range, n, t
  <2> QED
    BY <2>1, <2>2
<1>4. ASSUME NEW i \in 1 .. n - 1 PROVE t[i] \in Range(todo)
  <2>1. i + 1 \in 1 .. n
    BY <1>2 DEF n
  <2> QED
    BY <1>2, <2>1 DEF Range, n, t
<1>5. Head(todo) \in Range(todo)
  <2>1. 1 \in 1 .. n
    BY <1>2 DEF n
  <2> QED
    BY <1>2, <2>1 DEF Range, n
<1> QED
  BY <1>1, <1>2, <1>3, <1>4, <1>5 DEF Range, n, t

\* Types are kept when what the handle has then is well typed.
LEMMA TypesStep ==
  ASSUME Types, NEW h \in Handles, NEW w, NEW wr, Acts(h, w, wr), WorkOK(w), WriterOK(wr, w.step, dir'),
         dir' \in Nat \ {0}, dir <= dir',
         searched' \subseteq Sessions, stored' \subseteq Events,
         prompts' \in [Sessions -> Events \cup {None}], locked' \in Handles \cup {None},
         documents' \subseteq Events, readable' \in BOOLEAN, dirty' \in BOOLEAN,
         faults' \in 0 .. MaxFaults, (excused \cup overtaken)' \subseteq Events, raced' \subseteq Sessions
  PROVE  Types'
<1>1. w \in Work /\ wr \in Writer
  BY DEF WorkOK, WriterOK
<1>2. doing' \in [Handles -> Work] /\ writer' \in [Handles -> Writer]
  BY <1>1, ActsAt DEF Types
<1>3. ASSUME NEW p \in Handles PROVE WorkOK(doing'[p]) /\ WriterOK(writer'[p], doing'[p].step, dir')
  <2>1. CASE p = h
    BY <2>1, ActsAt DEF WriterOK
  <2>2. CASE p # h
    <3>1. doing'[p] = doing[p] /\ writer'[p] = writer[p]
      BY <2>2, ActsAt
    <3>2. writer[p].dir \in Nat /\ writer[p].dir <= dir /\ dir \in Nat
      BY Operands DEF Types
    <3>3. writer[p].dir <= dir'
      BY <3>2
    <3> QED
      BY <3>1, <3>3, Operands DEF WriterOK
  <2> QED
    BY <2>1, <2>2
<1> QED
  BY <1>2, <1>3 DEF Types

\* Most steps begin no rebuild.
LEMMA BudgetStep ==
  ASSUME SearchConstants, Types, Budget, NEW h \in Handles, NEW w, NEW wr, Acts(h, w, wr), dir' = dir,
         w.step \in {"events", "drop"} => doing[h].step \in {"events", "drop"}
  PROVE  Budget'
<1> DEFINE B == {p \in Handles : doing[p].step \in {"events", "drop"}}
           C == {p \in Handles : doing'[p].step \in {"events", "drop"}}
<1>1. C \subseteq B
  BY ActsAt
<1>2. IsFiniteSet(B)
  BY FS_Subset DEF SearchConstants
<1>3. Cardinality(C) <= Cardinality(B) /\ Cardinality(C) \in Nat /\ Cardinality(B) \in Nat
  BY <1>1, <1>2, FS_Subset, FS_CardinalityType
<1> HIDE DEF B, C
<1>4. dir + Cardinality(B) <= MaxReindexes + 1
  BY DEF Budget, B
<1>5. dir' + Cardinality(C) <= MaxReindexes + 1
  BY <1>3, <1>4 DEF Types, SearchConstants
<1> QED
  BY <1>5 DEF Budget, C

\* What was accounted for stays so, if that of the handle does.
LEMMA StoredStep ==
  ASSUME Types, StoredOK, NEW h \in Handles, NEW w, NEW wr, Acts(h, w, wr),
         \A e \in excused \cup overtaken \cup documents : Held(e) => Accounted(e)',
         \A e \in writer[h].adds \cup InHand(h) \cup InRebuild(h) : IsIndexed(e) => Accounted(e)',
         \A e \in stored' \cup w.mine :
           e \in stored \cup doing[h].mine \/ (IsIndexed(e) => Accounted(e)')
  PROVE  StoredOK'
<1>1. ASSUME NEW e, Accounted(e), IsIndexed(e), Held(e) PROVE Accounted(e)'
  <2>1. CASE e \in excused \cup overtaken \cup documents
    BY <1>1, <2>1
  <2>2. ASSUME NEW p \in Handles, e \in writer[p].adds \cup InHand(p) \cup InRebuild(p)
        PROVE  Accounted(e)'
    <3>1. CASE p = h
      BY <1>1, <2>2, <3>1
    <3>2. CASE p # h
      <4>1. doing'[p] = doing[p] /\ writer'[p] = writer[p]
        BY <3>2, ActsAt
      <4>2. InHand(p)' = InHand(p) /\ InRebuild(p)' = InRebuild(p)
        BY <4>1 DEF InHand, InRebuild, Head1
      <4> QED
        BY <2>2, <4>1, <4>2 DEF Accounted
    <3> QED
      BY <3>1, <3>2
  <2> QED
    BY <1>1, <2>1, <2>2 DEF Accounted
<1>2. \A e \in stored \cup doing[h].mine : IsIndexed(e) => Accounted(e)'
  BY <1>1 DEF StoredOK, Held
<1>3. \A e \in stored' : IsIndexed(e) => Accounted(e)'
  BY <1>2
<1>4. \A p \in Handles : \A e \in doing'[p].mine : IsIndexed(e) => Accounted(e)'
  <2>1. \A e \in doing'[h].mine : IsIndexed(e) => Accounted(e)'
    BY <1>2, ActsAt
  <2>2. \A p \in Handles \ {h} : \A e \in doing'[p].mine : IsIndexed(e) => Accounted(e)'
    BY <1>1, ActsAt DEF StoredOK, Held
  <2> QED
    BY <2>1, <2>2
<1> QED
  BY <1>3, <1>4 DEF StoredOK

\* What the handle carries towards the index.
Carries(w) ==
  IF w.step \in {"look", "index"} THEN {Head(w.todo)}
  ELSE IF w.step \in {"open", "rebuild"} THEN Range(w.todo) ELSE {}

\* Where the documents of the handle go, and those of what it stores.
LEMMA StoredKeep ==
  ASSUME Types, StoredOK, NEW h \in Handles, NEW w, NEW wr, Acts(h, w, wr),
         excused \cup overtaken \cup documents \subseteq excused' \cup overtaken' \cup documents' \cup Carries(w),
         \A e \in writer[h].adds \cup Carries(doing[h]) :
           IsIndexed(e) => e \in excused' \cup overtaken' \cup documents' \cup wr.adds \cup Carries(w),
         \A e \in stored' \cup w.mine :
           e \in stored \cup doing[h].mine \cup excused' \cup overtaken' \cup documents' \cup Carries(w)
  PROVE  StoredOK'
<1>1. doing'[h] = w /\ writer'[h] = wr
  BY ActsAt
<1>2. ASSUME NEW e \in excused' \cup overtaken' \cup documents' \cup wr.adds \cup Carries(w) PROVE Accounted(e)'
  <2>1. wr.adds \cup Carries(w) = writer'[h].adds \cup InHand(h)' \cup InRebuild(h)'
    BY <1>1 DEF Carries, InHand, InRebuild, Head1
  <2>2. e \in excused' \cup overtaken' \cup documents' \/ e \in writer'[h].adds \cup InHand(h)' \cup InRebuild(h)'
    BY <2>1
  <2> QED
    BY <2>2 DEF Accounted
<1>3. Carries(doing[h]) = InHand(h) \cup InRebuild(h)
  BY DEF Carries, InHand, InRebuild, Head1
<1>4. \A e \in excused \cup overtaken \cup documents : Accounted(e)'
  BY <1>2
<1>5. \A e \in writer[h].adds \cup InHand(h) \cup InRebuild(h) : IsIndexed(e) => Accounted(e)'
  BY <1>2, <1>3
<1>6. \A e \in stored' \cup w.mine :
        e \in stored \cup doing[h].mine \/ (IsIndexed(e) => Accounted(e)')
  BY <1>2
<1> QED
  BY <1>4, <1>5, <1>6, StoredStep

\* A live session stays live and a pruned one is live or about to go, but for
\* the steps that prune and delete.
LEMMA DocsStep ==
  ASSUME Types, DocsOK, NEW h \in Handles, NEW w, NEW wr, Acts(h, w, wr),
         \A s : Live(s) => Live(s)',
         doing[h].step \in {"take", "delete"} =>
           \A s \in doing[h].known : Live(s)' \/ (w.step \in {"take", "delete"} /\ s \in w.known),
         \A e \in documents' : Fit(e),
         dir' = dir \/ dir' = dir + 1,
         wr.dir = dir' => \A e \in wr.adds : Fit(e),
         HandOK(h)'
  PROVE  DocsOK'
<1>1. /\ doing'[h] = w /\ writer'[h] = wr
      /\ \A p \in Handles \ {h} : doing'[p] = doing[p] /\ writer'[p] = writer[p]
  BY ActsAt
<1>2. ASSUME NEW s, Going(s) PROVE Live(s)' \/ Going(s)'
  <2>1. PICK p \in Handles : doing[p].step \in {"take", "delete"} /\ s \in doing[p].known
    BY <1>2 DEF Going
  <2>2. CASE p = h
    BY <1>1, <2>1, <2>2 DEF Going
  <2>3. CASE p # h
    BY <1>1, <2>1, <2>3 DEF Going
  <2> QED
    BY <2>2, <2>3
<1>3. \A e : Fit(e) => Fit(e)'
  BY <1>2 DEF Fit
<1>4. ASSUME NEW p \in Handles, writer'[p].dir = dir', NEW e \in writer'[p].adds PROVE Fit(e)'
  <2>1. CASE p = h
    BY <1>1, <1>3, <1>4, <2>1
  <2>2. CASE p # h
    <3>1. writer[p].dir \in Nat /\ writer[p].dir <= dir /\ dir \in Nat
      BY Operands DEF Types
    <3>2. writer[p].dir = dir'
      BY <1>1, <1>4, <2>2
    <3>3. writer[p].dir = dir
      BY <3>1, <3>2
    <3> QED
      BY <1>1, <1>3, <1>4, <2>2, <3>3 DEF DocsOK
  <2> QED
    BY <2>1, <2>2
<1>5. ASSUME NEW p \in Handles PROVE HandOK(p)'
  <2>1. CASE p # h
    <3>1. HandOK(p) /\ doing'[p] = doing[p] /\ writer'[p] = writer[p]
      BY <1>1, <2>1 DEF DocsOK
    <3> QED
      BY <3>1 DEF HandOK, Head1
  <2> QED
    BY <2>1
<1> QED
  BY <1>3, <1>4, <1>5 DEF DocsOK

\* Where no document is written and no session pruned.
LEMMA DocsQuiet ==
  ASSUME Types, DocsOK, NEW h \in Handles, NEW w, NEW wr, Acts(h, w, wr),
         searched \subseteq searched', raced \subseteq raced',
         doing[h].step \in {"take", "delete"} =>
           doing[h].known \subseteq raced' \/ (w.step \in {"take", "delete"} /\ w.known = doing[h].known),
         documents' \subseteq documents, dir' = dir, wr.adds = {} \/ wr = writer[h],
         w.step \notin {"index", "events", "drop", "open", "rebuild"}
  PROVE  DocsOK'
<1>1. \A s : Live(s) => Live(s)'
  BY DEF Live
<1>2. \A s \in raced' : Live(s)'
  BY DEF Live
<1>3. wr.dir = dir' => \A e \in wr.adds : Fit(e)
  BY DEF DocsOK
<1>4. \A e \in documents' : Fit(e)
  BY DEF DocsOK
<1>5. HandOK(h)'
  BY ActsAt DEF HandOK
<1>6. doing[h].step \in {"take", "delete"} =>
        \A s \in doing[h].known : Live(s)' \/ (w.step \in {"take", "delete"} /\ s \in w.known)
  BY <1>2
<1> QED
  BY <1>1, <1>3, <1>4, <1>5, <1>6, DocsStep

\* A commit loses no document and adds none that the writer has not.
LEMMA CommitsEffect ==
  ASSUME Types, NEW h \in Handles, NEW X \in SUBSET Events, NEW w, w.adds = X,
         w.dir = writer[h].dir, Commits(w)
  PROVE  /\ documents' \subseteq Events /\ readable' \in BOOLEAN /\ (excused \cup overtaken)' \subseteq Events
         /\ \A e \in excused \cup overtaken \cup documents \cup X : e \in excused' \cup overtaken' \cup documents'
         /\ \A e \in documents' : e \in documents \/ (e \in X /\ writer[h].dir = dir)
BY DEF Commits, Types

\* After an event comes the next one, the commit of the batch, or nothing.
LEMMA NextWork ==
  ASSUME Types, NEW h \in Handles, doing[h].todo # <<>>, doing[h].step \in Appending,
         NEW mine \in SUBSET Events, NextEvent(h, mine)
  PROVE  \E w : /\ doing' = [doing EXCEPT ![h] = w] /\ WorkOK(w)
                /\ w.step \in {"insert", "commit", "idle"} /\ w.mine \subseteq mine
<1> DEFINE todo == Tail(doing[h].todo)
           step == IF todo # <<>> THEN "insert" ELSE IF doing[h].batch THEN "commit" ELSE "idle"
           on   == [doing[h] EXCEPT !.todo = todo, !.mine = mine, !.step = step]
           w    == IF step = "idle" THEN Idle ELSE on
<1>1. doing' = [doing EXCEPT ![h] = w]
  BY DEF NextEvent
<1>2. doing[h] \in Work /\ todo \in Seq(Events)
  BY Operands, HeadTail DEF WorkOK
<1>3. WorkOK(Idle) /\ Idle.step = "idle" /\ Idle.mine = {}
  <2>1. <<>> \in Seq(Events)
    BY EmptySeq
  <2> QED
    BY <2>1 DEF WorkOK, Idle, Work, Steps, Appending
<1>4. step # "idle" => WorkOK(on) /\ on.step = step /\ on.mine = mine
  <2> HIDE DEF todo
  <2> QED
    BY <1>2 DEF WorkOK, Work, Steps, Appending
<1>5. step \in {"insert", "commit", "idle"}
  OBVIOUS
<1> HIDE DEF on, step
<1>6. WorkOK(w) /\ w.step \in {"insert", "commit", "idle"} /\ w.mine \subseteq mine
  BY <1>3, <1>4, <1>5
<1> HIDE DEF w
<1> QED
  BY <1>1, <1>6

\* A handle that is idle, and a writer that is closed.
LEMMA Resting ==
  /\ WorkOK(Idle) /\ Idle.step = "idle" /\ Idle.mine = {} /\ Idle.todo = <<>> /\ Idle.batch = FALSE
  /\ Closed \in Writer /\ Closed.adds = {} /\ ~Closed.open /\ Closed.dir = 0
<1>1. <<>> \in Seq(Events)
  BY EmptySeq
<1> QED
  BY <1>1 DEF WorkOK, Idle, Work, Steps, Appending, Closed, Writer

-----------------------------------------------------------------------------
(* The prompt a session is listed under. *)

\* A nonempty set of events has an earliest one.
LEMMA EarliestExists ==
  ASSUME SearchConstants, NEW S \in SUBSET Events, S # {}
  PROVE  \E e \in S : \A f \in S : e.seq <= f.seq
<1> DEFINE T == {e.seq : e \in S}
<1>1. T \subseteq Nat /\ T # {}
  BY DEF SearchConstants
<1>2. PICK x \in T : \A y \in T : <<y, x>> \notin OpToRel(<, Nat)
  <2> HIDE DEF T
  <2> QED
    BY <1>1, NatLessThanWellFounded, WFMin
<1>3. \A y \in T : x <= y
  <2> HIDE DEF T
  <2>1. \A y \in T : ~(y < x)
    BY <1>1, <1>2 DEF OpToRel
  <2> QED
    BY <1>1, <2>1
<1> QED
  BY <1>3

\* It stays the earliest when events are stored, in whatever order.
LEMMA PromptsStep ==
  ASSUME SearchConstants, Types, PromptsOK, NEW es \in SUBSET Events,
         stored' = stored \cup es, prompts' = Projected(prompts, es)
  PROVE  PromptsOK' /\ prompts' \in [Sessions -> Events \cup {None}]
<1>1. ASSUME NEW s \in Sessions
      PROVE  /\ IF Prompted(stored', s) = {} THEN prompts'[s] = None
                ELSE Earliest(prompts'[s], Prompted(stored', s))
             /\ prompts'[s] \in Events \cup {None}
  <2> DEFINE found == {e \in es : e.in = s /\ e.prompt}
                        \cup IF prompts[s] = None THEN {} ELSE {prompts[s]}
             first == CHOOSE e \in found : \A f \in found : e.seq <= f.seq
  <2>1. prompts'[s] = IF found = {} THEN None ELSE first
    BY DEF Projected
  <2>2. /\ Prompted(stored, s) = {} => prompts[s] = None
        /\ Prompted(stored, s) # {} =>
             /\ prompts[s] \in Prompted(stored, s) /\ prompts[s] # None
             /\ \A f \in Prompted(stored, s) : prompts[s].seq <= f.seq
    <3>1. None \notin Prompted(stored, s)
      BY DEF Prompted, Types, SearchConstants
    <3> QED
      BY <3>1 DEF PromptsOK, Earliest
  <2>3. found \subseteq Prompted(stored', s) /\ found \subseteq Events
    BY <2>2 DEF Prompted, Types
  <2>4. Prompted(stored', s) \subseteq Events
    BY DEF Prompted, Types
  <2>5. ASSUME NEW f \in Prompted(stored', s)
        PROVE  f \in found \/ (prompts[s] \in found /\ prompts[s].seq <= f.seq)
    <3>1. CASE f \in es
      BY <3>1 DEF Prompted
    <3>2. CASE f \in stored
      <4>1. f \in Prompted(stored, s)
        BY <3>2 DEF Prompted
      <4> QED
        BY <2>2, <4>1
    <3> QED
      BY <3>1, <3>2 DEF Prompted
  <2> HIDE DEF found
  <2>6. CASE found = {}
    BY <2>1, <2>5, <2>6
  <2>7. CASE found # {}
    <3>1. first \in found /\ \A f \in found : first.seq <= f.seq
      BY <2>3, <2>7, EarliestExists
    <3> HIDE DEF first
    <3>2. prompts'[s] = first
      BY <2>1, <2>7
    <3>3. ASSUME NEW f \in Prompted(stored', s) PROVE first.seq <= f.seq
      <4>1. CASE f \in found
        BY <3>1, <4>1
      <4>2. CASE prompts[s] \in found /\ prompts[s].seq <= f.seq
        <5>1. first.seq \in Nat /\ prompts[s].seq \in Nat /\ f.seq \in Nat
          BY <2>3, <2>4, <3>1, <4>2 DEF SearchConstants
        <5>2. first.seq <= prompts[s].seq
          BY <3>1, <4>2
        <5> QED
          BY <4>2, <5>1, <5>2
      <4> QED
        BY <2>5, <4>1, <4>2
    <3> QED
      BY <2>3, <3>1, <3>2, <3>3 DEF Earliest
  <2> QED
    BY <2>6, <2>7
<1>2. prompts' = [s \in Sessions |-> prompts'[s]]
  BY DEF Projected
<1> QED
  BY <1>1, <1>2 DEF PromptsOK

\* And when nothing is.
LEMMA PromptsKeep == ASSUME PromptsOK, UNCHANGED <<stored, prompts>> PROVE PromptsOK'
BY DEF PromptsOK

-----------------------------------------------------------------------------
(* Appends. *)

\* A hook begins to append.
LEMMA IngestInv ==
  ASSUME SearchConstants, SearchInv, NEW h \in Handles, NEW e \in Events, Ingest(h, e)
  PROVE  SearchInv'
<1> DEFINE w == [Idle EXCEPT !.step = "insert", !.todo = <<e>>]
<1>1. Types /\ Budget /\ StoredOK /\ DocsOK /\ PromptsOK
  BY DEF SearchInv
<1>2. /\ doing[h] = Idle /\ Acts(h, w, writer[h]) /\ searched' = searched \cup {e.in}
      /\ UNCHANGED <<stored, prompts, locked, dir, documents, readable, dirty, faults, excused, overtaken, raced>>
  BY <1>1 DEF Ingest, Acts, index, history, Types
<1>3. WorkOK(w) /\ w.step = "insert" /\ w.mine = {}
  <2>1. <<e>> \in Seq(Events) /\ <<e>> # <<>>
    OBVIOUS
  <2> QED
    BY <2>1 DEF WorkOK, Idle, Work, Steps, Appending
<1> HIDE DEF w
<1>4. Types'
  <2>1. WriterOK(writer[h], w.step, dir')
    BY <1>1, <1>2, <1>3, Operands DEF WriterOK, Idle
  <2>2. searched' \subseteq Sessions
    BY <1>1, <1>2 DEF Types, SearchConstants
  <2> QED
    BY <1>1, <1>2, <1>3, <2>1, <2>2, TypesStep DEF Types
<1>5. Budget'
  BY <1>1, <1>2, <1>3, BudgetStep
<1>6. StoredOK'
  <2>1. InHand(h) = {} /\ InRebuild(h) = {}
    BY <1>2 DEF Idle, InHand, InRebuild
  <2>2. \A f \in excused \cup overtaken \cup documents \cup writer[h].adds : Accounted(f)'
    BY <1>1, <1>2, ActsAt DEF Accounted
  <2> QED
    BY <1>1, <1>2, <1>3, <2>1, <2>2, StoredStep
<1>7. DocsOK'
  BY <1>1, <1>2, <1>3, DocsQuiet DEF Idle
<1> QED
  BY <1>1, <1>2, <1>4, <1>5, <1>6, <1>7, PromptsKeep DEF SearchInv

\* A scan begins its transaction.
LEMMA ScanInv ==
  ASSUME SearchConstants, SearchInv, NEW h \in Handles, NEW batch \in Batches, Scan(h, batch)
  PROVE  SearchInv'
<1> DEFINE w == [Idle EXCEPT !.step = "insert", !.todo = batch, !.batch = TRUE]
<1>1. Types /\ Budget /\ StoredOK /\ DocsOK /\ PromptsOK
  BY DEF SearchInv
<1>2. /\ doing[h] = Idle /\ Acts(h, w, writer[h]) /\ searched' = searched \cup {batch[1].in}
      /\ locked' = h
      /\ UNCHANGED <<stored, prompts, dir, documents, readable, dirty, faults, excused, overtaken, raced>>
  BY <1>1 DEF Scan, Acts, index, history, Types
<1>3. WorkOK(w) /\ w.step = "insert" /\ w.mine = {} /\ batch[1] \in Events
  <2>1. batch \in Seq(Events) /\ batch # <<>>
    BY DEF SearchConstants
  <2>2. batch[1] \in Events
    BY <2>1, HeadTailProperties, EmptySeq
  <2> QED
    BY <2>1, <2>2 DEF WorkOK, Idle, Work, Steps, Appending
<1> HIDE DEF w
<1>4. Types'
  <2>1. WriterOK(writer[h], w.step, dir')
    BY <1>1, <1>2, <1>3, Operands DEF WriterOK, Idle
  <2>2. searched' \subseteq Sessions
    BY <1>1, <1>2, <1>3 DEF Types, SearchConstants
  <2> QED
    BY <1>1, <1>2, <1>3, <2>1, <2>2, TypesStep DEF Types
<1>5. Budget'
  BY <1>1, <1>2, <1>3, BudgetStep
<1>6. StoredOK'
  <2>1. Carries(doing[h]) = {}
    BY <1>2 DEF Idle, Carries
  <2> QED
    BY <1>1, <1>2, <1>3, <2>1, StoredKeep
<1>7. DocsOK'
  BY <1>1, <1>2, <1>3, DocsQuiet DEF Idle
<1> QED
  BY <1>1, <1>2, <1>4, <1>5, <1>6, <1>7, PromptsKeep DEF SearchInv

\* A row of the append is stored, at once or with the transaction; one that is
\* there already is passed over.
LEMMA InsertInv ==
  ASSUME SearchConstants, SearchInv, NEW h \in Handles, Insert(h)
  PROVE  SearchInv'
<1>1. Types /\ Budget /\ StoredOK /\ DocsOK /\ PromptsOK
  BY DEF SearchInv
<1>2. /\ doing[h].step = "insert" /\ writer' = [writer EXCEPT ![h] = writer[h]]
      /\ UNCHANGED <<searched, locked, dir, documents, readable, dirty, faults, excused, overtaken, raced>>
  BY <1>1 DEF Insert, index, history, Types
<1>3. WorkOK(doing[h]) /\ doing[h] \in Work /\ doing[h].todo # <<>> /\ doing[h].mine \subseteq Events
  BY <1>1, <1>2, Operands DEF WorkOK, Appending
<1>4. Head1(h) \in Events
  BY <1>1, <1>3, Operands, HeadTail DEF Head1
<1>5. \E w, es : /\ doing' = [doing EXCEPT ![h] = w] /\ WorkOK(w)
                 /\ w.step \in {"insert", "commit", "idle", "look"}
                 /\ stored' = stored \cup es /\ es \subseteq Events
                 /\ (stored' = stored /\ UNCHANGED prompts) \/ prompts' = Projected(prompts, es)
                 /\ w.mine \cup es \subseteq stored \cup doing[h].mine \cup Carries(w)
  <2>1. CASE Head1(h) \in stored \cup doing[h].mine
    <3>1. NextEvent(h, doing[h].mine) /\ UNCHANGED <<stored, prompts>>
      BY <2>1 DEF Insert
    <3>2. PICK w : /\ doing' = [doing EXCEPT ![h] = w] /\ WorkOK(w)
                   /\ w.step \in {"insert", "commit", "idle"} /\ w.mine \subseteq doing[h].mine
      BY <1>1, <1>2, <1>3, <3>1, NextWork DEF Appending
    <3>3. stored' = stored \cup {}
      BY <3>1
    <3> QED
      BY <3>1, <3>2, <3>3
  <2>2. CASE Head1(h) \notin stored \cup doing[h].mine /\ doing[h].batch
    <3> DEFINE w == [doing[h] EXCEPT !.step = "look", !.mine = @ \cup {Head1(h)}]
    <3>1. doing' = [doing EXCEPT ![h] = w] /\ UNCHANGED <<stored, prompts>>
      BY <2>2 DEF Insert
    <3>2. WorkOK(w)
      BY <1>3, <1>4 DEF WorkOK, Work, Steps, Appending
    <3>3. w.step = "look" /\ w.mine = doing[h].mine \cup {Head1(h)} /\ Carries(w) = {Head1(h)}
      BY <1>3 DEF Work, Carries, Head1
    <3>4. stored' = stored \cup {}
      BY <3>1
    <3> HIDE DEF w
    <3> QED
      BY <3>1, <3>2, <3>3, <3>4
  <2>3. CASE Head1(h) \notin stored \cup doing[h].mine /\ ~doing[h].batch
    <3> DEFINE w == [doing[h] EXCEPT !.step = "look"]
    <3>1. /\ doing' = [doing EXCEPT ![h] = w] /\ stored' = stored \cup {Head1(h)}
          /\ prompts' = Projected(prompts, {Head1(h)})
      BY <1>1, <2>3 DEF Insert, Step, Types
    <3>2. WorkOK(w)
      BY <1>3 DEF WorkOK, Work, Steps, Appending
    <3>3. w.step = "look" /\ w.mine = doing[h].mine /\ Carries(w) = {Head1(h)}
      BY <1>3 DEF Work, Carries, Head1
    <3> HIDE DEF w
    <3> QED
      BY <1>4, <3>1, <3>2, <3>3
  <2> QED
    BY <2>1, <2>2, <2>3
<1>6. PICK w, es : /\ doing' = [doing EXCEPT ![h] = w] /\ WorkOK(w)
                   /\ w.step \in {"insert", "commit", "idle", "look"}
                   /\ stored' = stored \cup es /\ es \subseteq Events
                   /\ (stored' = stored /\ UNCHANGED prompts) \/ prompts' = Projected(prompts, es)
                   /\ w.mine \cup es \subseteq stored \cup doing[h].mine \cup Carries(w)
  BY <1>5
<1>7. Acts(h, w, writer[h])
  BY <1>2, <1>6 DEF Acts
<1>8. PromptsOK' /\ prompts' \in [Sessions -> Events \cup {None}]
  <2>1. CASE stored' = stored /\ UNCHANGED prompts
    BY <1>1, <2>1, PromptsKeep DEF Types
  <2>2. CASE prompts' = Projected(prompts, es)
    BY <1>1, <1>6, <2>2, PromptsStep
  <2> QED
    BY <1>6, <2>1, <2>2
<1>9. Types'
  <2>1. WriterOK(writer[h], w.step, dir')
    BY <1>1, <1>2, <1>6, Operands DEF WriterOK
  <2>2. stored' \subseteq Events
    BY <1>1, <1>6 DEF Types
  <2> QED
    BY <1>1, <1>2, <1>6, <1>7, <1>8, <2>1, <2>2, TypesStep DEF Types
<1>10. Budget'
  BY <1>1, <1>2, <1>6, <1>7, BudgetStep
<1>11. StoredOK'
  <2>1. Carries(doing[h]) = {}
    BY <1>2 DEF Carries
  <2> QED
    BY <1>1, <1>2, <1>6, <1>7, <2>1, StoredKeep
<1>12. DocsOK'
  BY <1>1, <1>2, <1>6, <1>7, DocsQuiet
<1> QED
  BY <1>8, <1>9, <1>10, <1>11, <1>12 DEF SearchInv

\* SQLITE_BUSY ends an append before it stored anything.
LEMMA BusyInv ==
  ASSUME SearchConstants, SearchInv, NEW h \in Handles, Busy(h)
  PROVE  SearchInv'
<1>1. Types /\ Budget /\ StoredOK /\ DocsOK /\ PromptsOK
  BY DEF SearchInv
<1>2. /\ doing[h].step = "insert" /\ Acts(h, Idle, writer[h])
      /\ UNCHANGED <<searched, stored, prompts, locked, dir, documents, readable, dirty, faults, excused,
                     overtaken, raced>>
  BY <1>1 DEF Busy, Acts, store, index, history, Types
<1>3. Types'
  <2>1. WriterOK(writer[h], Idle.step, dir')
    BY <1>1, <1>2, Resting, Operands DEF WriterOK
  <2> QED
    BY <1>1, <1>2, <2>1, Resting, TypesStep DEF Types
<1>4. Budget'
  BY <1>1, <1>2, Resting, BudgetStep
<1>5. StoredOK'
  <2>1. Carries(doing[h]) = {}
    BY <1>2 DEF Carries
  <2> QED
    BY <1>1, <1>2, <2>1, Resting, StoredKeep
<1>6. DocsOK'
  BY <1>1, <1>2, Resting, DocsQuiet
<1> QED
  BY <1>1, <1>2, <1>3, <1>4, <1>5, <1>6, PromptsKeep DEF SearchInv

\* The rows of a batch are there at once.
LEMMA CommitInv ==
  ASSUME SearchConstants, SearchInv, NEW h \in Handles, Commit(h)
  PROVE  SearchInv'
<1>1. Types /\ Budget /\ StoredOK /\ DocsOK /\ PromptsOK
  BY DEF SearchInv
<1>2. /\ doing[h].step = "commit" /\ Acts(h, Idle, writer[h])
      /\ stored' = stored \cup doing[h].mine /\ prompts' = Projected(prompts, doing[h].mine)
      /\ locked' = None
      /\ UNCHANGED <<searched, dir, documents, readable, dirty, faults, excused, overtaken, raced>>
  BY <1>1 DEF Commit, Acts, index, history, Types
<1>3. PromptsOK' /\ prompts' \in [Sessions -> Events \cup {None}]
  BY <1>1, <1>2, Operands, PromptsStep
<1>4. Types'
  <2>1. WriterOK(writer[h], Idle.step, dir')
    BY <1>1, <1>2, Resting, Operands DEF WriterOK
  <2>2. stored' \subseteq Events
    BY <1>1, <1>2, Operands DEF Types
  <2> QED
    BY <1>1, <1>2, <1>3, <2>1, <2>2, Resting, TypesStep DEF Types
<1>5. Budget'
  BY <1>1, <1>2, Resting, BudgetStep
<1>6. StoredOK'
  <2>1. Carries(doing[h]) = {}
    BY <1>2 DEF Carries
  <2> QED
    BY <1>1, <1>2, <2>1, Resting, StoredKeep
<1>7. DocsOK'
  BY <1>1, <1>2, Resting, DocsQuiet
<1> QED
  BY <1>3, <1>4, <1>5, <1>6, <1>7 DEF SearchInv

\* Or not at all.
LEMMA RollBackInv ==
  ASSUME SearchConstants, SearchInv, NEW h \in Handles, RollBack(h)
  PROVE  SearchInv'
<1>1. Types /\ Budget /\ StoredOK /\ DocsOK /\ PromptsOK
  BY DEF SearchInv
<1>2. /\ doing[h].step \in {"insert", "commit"} /\ Acts(h, Idle, writer[h])
      /\ locked' = None /\ faults < MaxFaults /\ faults' = faults + 1
      /\ UNCHANGED <<searched, stored, prompts, dir, documents, readable, dirty, excused, overtaken, raced>>
  BY <1>1 DEF RollBack, Acts, index, history, Types
<1>3. Types'
  <2>1. WriterOK(writer[h], Idle.step, dir')
    BY <1>1, <1>2, Resting, Operands DEF WriterOK
  <2>2. faults' \in 0 .. MaxFaults
    BY <1>1, <1>2 DEF Types, SearchConstants
  <2> QED
    BY <1>1, <1>2, <2>1, <2>2, Resting, TypesStep DEF Types
<1>4. Budget'
  BY <1>1, <1>2, Resting, BudgetStep
<1>5. StoredOK'
  <2>1. Carries(doing[h]) = {}
    BY <1>2 DEF Carries
  <2> QED
    BY <1>1, <1>2, <2>1, Resting, StoredKeep
<1>6. DocsOK'
  BY <1>1, <1>2, Resting, DocsQuiet
<1> QED
  BY <1>1, <1>2, <1>3, <1>4, <1>5, <1>6, PromptsKeep DEF SearchInv

-----------------------------------------------------------------------------
(* Documents. *)

\* The event of a pruned session is passed over, that of another indexed.
LEMMA LookUpInv ==
  ASSUME SearchConstants, SearchInv, NEW h \in Handles, LookUp(h)
  PROVE  SearchInv'
<1>1. Types /\ Budget /\ StoredOK /\ DocsOK /\ PromptsOK
  BY DEF SearchInv
<1>2. /\ doing[h].step = "look" /\ writer' = [writer EXCEPT ![h] = writer[h]]
      /\ overtaken' = IF Head1(h).in \in searched THEN overtaken ELSE overtaken \cup {Head1(h)}
      /\ UNCHANGED <<searched, stored, prompts, locked, dir, documents, readable, dirty, faults, excused, raced>>
  BY <1>1 DEF LookUp, store, index, Types
<1>3. WorkOK(doing[h]) /\ doing[h] \in Work /\ doing[h].todo # <<>> /\ doing[h].mine \subseteq Events
  BY <1>1, <1>2, Operands DEF WorkOK, Appending
<1>4. Head1(h) \in Events /\ Carries(doing[h]) = {Head1(h)}
  BY <1>1, <1>2, <1>3, Operands, HeadTail DEF Head1, Carries
<1>5. \E w : /\ doing' = [doing EXCEPT ![h] = w] /\ WorkOK(w) /\ w.mine \subseteq doing[h].mine
             /\ \/ w.step \in {"insert", "commit", "idle"}
                   /\ (IsIndexed(Head1(h)) => Head1(h) \in excused' \cup overtaken')
                \/ /\ w.step = "index" /\ w.todo = doing[h].todo /\ Head1(h).in \in searched
                   /\ Carries(w) = {Head1(h)}
  <2>1. CASE Head1(h).in \in searched /\ IsIndexed(Head1(h))
    <3> DEFINE w == [doing[h] EXCEPT !.step = "index"]
    <3>1. doing' = [doing EXCEPT ![h] = w]
      BY <1>1, <2>1 DEF LookUp, Step, Types
    <3>2. WorkOK(w)
      BY <1>3 DEF WorkOK, Work, Steps, Appending
    <3>3. w.step = "index" /\ w.mine = doing[h].mine /\ w.todo = doing[h].todo /\ Carries(w) = {Head1(h)}
      BY <1>3 DEF Work, Carries, Head1
    <3> HIDE DEF w
    <3> QED
      BY <2>1, <3>1, <3>2, <3>3
  <2>2. CASE ~(Head1(h).in \in searched /\ IsIndexed(Head1(h)))
    <3>1. NextEvent(h, doing[h].mine)
      BY <2>2 DEF LookUp
    <3>2. PICK w : /\ doing' = [doing EXCEPT ![h] = w] /\ WorkOK(w)
                   /\ w.step \in {"insert", "commit", "idle"} /\ w.mine \subseteq doing[h].mine
      BY <1>1, <1>2, <1>3, <3>1, NextWork DEF Appending
    <3>3. IsIndexed(Head1(h)) => Head1(h) \in excused' \cup overtaken'
      BY <1>2, <2>2
    <3> QED
      BY <3>2, <3>3
  <2> QED
    BY <2>1, <2>2
<1>6. PICK w :
        /\ doing' = [doing EXCEPT ![h] = w] /\ WorkOK(w) /\ w.mine \subseteq doing[h].mine
        /\ \/ w.step \in {"insert", "commit", "idle"}
              /\ (IsIndexed(Head1(h)) => Head1(h) \in excused' \cup overtaken')
           \/ /\ w.step = "index" /\ w.todo = doing[h].todo /\ Head1(h).in \in searched
              /\ Carries(w) = {Head1(h)}
  BY <1>5
<1>7. Acts(h, w, writer[h])
  BY <1>2, <1>6 DEF Acts
<1>8. Types'
  <2>1. WriterOK(writer[h], w.step, dir')
    BY <1>1, <1>2, <1>6, Operands DEF WriterOK
  <2>2. (excused \cup overtaken)' \subseteq Events
    BY <1>1, <1>2, <1>4 DEF Types
  <2> QED
    BY <1>1, <1>2, <1>6, <1>7, <2>1, <2>2, TypesStep DEF Types
<1>9. Budget'
  BY <1>1, <1>2, <1>6, <1>7, BudgetStep
<1>10. StoredOK'
  <2>1. excused \cup overtaken \subseteq excused' \cup overtaken'
    BY <1>2
  <2>2. IsIndexed(Head1(h)) => Head1(h) \in excused' \cup overtaken' \cup Carries(w)
    BY <1>6
  <2> QED
    BY <1>1, <1>2, <1>4, <1>6, <1>7, <2>1, <2>2, StoredKeep
<1>11. DocsOK'
  <2>1. CASE w.step \in {"insert", "commit", "idle"}
    BY <1>1, <1>2, <1>7, <2>1, DocsQuiet
  <2>2. CASE w.step = "index" /\ w.todo = doing[h].todo /\ Head1(h).in \in searched
    <3>1. \A s : Live(s) => Live(s)'
      BY <1>2 DEF Live
    <3>2. HandOK(h)'
      BY <1>1, <1>2, <1>7, <2>2, ActsAt DEF HandOK, Live, Head1
    <3>3. /\ \A e \in documents' : Fit(e)
          /\ writer[h].dir = dir' => \A e \in writer[h].adds : Fit(e)
      BY <1>1, <1>2 DEF DocsOK
    <3> QED
      BY <1>1, <1>2, <1>7, <3>1, <3>2, <3>3, DocsStep
  <2> QED
    BY <1>6, <2>1, <2>2
<1> QED
  BY <1>1, <1>2, <1>8, <1>9, <1>10, <1>11, PromptsKeep DEF SearchInv

\* The writer opens in the directory that is in place.
LEMMA OpenWriterInv ==
  ASSUME SearchConstants, SearchInv, NEW h \in Handles, OpenWriter(h)
  PROVE  SearchInv'
<1> DEFINE w == IF doing[h].step = "open" THEN [doing[h] EXCEPT !.step = "rebuild"] ELSE doing[h]
           wr == [Closed EXCEPT !.open = TRUE, !.dir = dir]
<1>1. Types /\ Budget /\ StoredOK /\ DocsOK /\ PromptsOK
  BY DEF SearchInv
<1>2. /\ doing[h].step \in {"index", "open"} /\ ~writer[h].open /\ writer' = [writer EXCEPT ![h] = wr]
      /\ UNCHANGED <<searched, stored, prompts, locked, dir, documents, readable, dirty, faults, excused,
                     overtaken, raced>>
  BY <1>1 DEF OpenWriter, store, index, history
<1>3. doing' = [doing EXCEPT ![h] = w]
  BY <1>1 DEF OpenWriter, Step, Types
<1>4. WorkOK(doing[h]) /\ doing[h] \in Work /\ writer[h].adds = {}
  BY <1>1, <1>2, Operands DEF WorkOK, WriterOK
<1>5. WorkOK(w) /\ w.mine = doing[h].mine /\ Carries(w) = Carries(doing[h])
  BY <1>2, <1>4 DEF WorkOK, Work, Steps, Appending, Carries
<1>6. w.step \in {"index", "rebuild"} /\ w.todo = doing[h].todo /\ w.known = doing[h].known
  BY <1>2, <1>4 DEF Work
<1>7. w.step = "index" <=> doing[h].step = "index"
  BY <1>2, <1>4 DEF Work
<1>8. wr \in Writer /\ wr.open /\ wr.dir = dir /\ wr.adds = {}
  BY <1>1 DEF Writer, Closed, Types
<1> HIDE DEF w, wr
<1>9. Acts(h, w, wr)
  BY <1>2, <1>3 DEF Acts
<1>10. Types'
  <2>1. WriterOK(wr, w.step, dir')
    BY <1>1, <1>2, <1>6, <1>8 DEF WriterOK, Types
  <2> QED
    BY <1>1, <1>2, <1>5, <1>9, <2>1, TypesStep DEF Types
<1>11. Budget'
  BY <1>1, <1>2, <1>6, <1>9, BudgetStep
<1>12. StoredOK'
  BY <1>1, <1>2, <1>4, <1>5, <1>9, StoredKeep
<1>13. DocsOK'
  <2>1. \A s : Live(s) => Live(s)'
    BY <1>2 DEF Live
  <2>2. HandOK(h)'
    <3>1. HandOK(h)
      BY <1>1 DEF DocsOK
    <3>2. doing'[h] = w /\ writer'[h] = wr
      BY <1>1, <1>9, ActsAt
    <3> QED
      BY <1>2, <1>6, <1>7, <1>8, <2>1, <3>1, <3>2 DEF HandOK, Head1
  <2>3. \A e \in documents' : Fit(e)
    BY <1>1, <1>2 DEF DocsOK
  <2>4. wr.dir = dir' => \A e \in wr.adds : Fit(e)
    BY <1>8
  <2> QED
    BY <1>1, <1>2, <1>9, <2>1, <2>2, <2>3, <2>4, DocsStep
<1> QED
  BY <1>1, <1>2, <1>10, <1>11, <1>12, <1>13, PromptsKeep DEF SearchInv

\* A failure of the index leaves the event without a document.
LEMMA FailIndexInv ==
  ASSUME SearchConstants, SearchInv, NEW h \in Handles, FailIndex(h)
  PROVE  SearchInv'
<1>1. Types /\ Budget /\ StoredOK /\ DocsOK /\ PromptsOK
  BY DEF SearchInv
<1>2. /\ doing[h].step = "index" /\ writer' = [writer EXCEPT ![h] = writer[h]]
      /\ faults < MaxFaults /\ faults' = faults + 1 /\ dirty' = TRUE
      /\ excused' = excused \cup {Head1(h)} /\ NextEvent(h, doing[h].mine)
      /\ UNCHANGED <<searched, stored, prompts, locked, dir, documents, readable, overtaken, raced>>
  BY <1>1 DEF FailIndex, store, Types
<1>3. WorkOK(doing[h]) /\ doing[h] \in Work /\ doing[h].todo # <<>> /\ doing[h].mine \subseteq Events
  BY <1>1, <1>2, Operands DEF WorkOK, Appending
<1>4. Head1(h) \in Events /\ Carries(doing[h]) = {Head1(h)}
  BY <1>1, <1>2, <1>3, Operands, HeadTail DEF Head1, Carries
<1>5. PICK w : /\ doing' = [doing EXCEPT ![h] = w] /\ WorkOK(w)
               /\ w.step \in {"insert", "commit", "idle"} /\ w.mine \subseteq doing[h].mine
  BY <1>1, <1>2, <1>3, NextWork DEF Appending
<1>6. Acts(h, w, writer[h])
  BY <1>2, <1>5 DEF Acts
<1>7. Types'
  <2>1. WriterOK(writer[h], w.step, dir')
    BY <1>1, <1>2, <1>5, Operands DEF WriterOK
  <2>2. (excused \cup overtaken)' \subseteq Events
    BY <1>1, <1>2, <1>4 DEF Types
  <2>3. faults' \in 0 .. MaxFaults
    BY <1>1, <1>2 DEF Types, SearchConstants
  <2> QED
    BY <1>1, <1>2, <1>5, <1>6, <2>1, <2>2, <2>3, TypesStep DEF Types
<1>8. Budget'
  BY <1>1, <1>2, <1>5, <1>6, BudgetStep
<1>9. StoredOK'
  BY <1>1, <1>2, <1>4, <1>5, <1>6, StoredKeep
<1>10. DocsOK'
  BY <1>1, <1>2, <1>5, <1>6, DocsQuiet
<1> QED
  BY <1>1, <1>2, <1>7, <1>8, <1>9, <1>10, PromptsKeep DEF SearchInv

\* The elements of a list of events are events.
LEMMA RangeOfTodo ==
  ASSUME NEW todo \in Seq(Events)
  PROVE  /\ Range(todo) \subseteq Events /\ Range(<<>>) = {}
         /\ {todo[i] : i \in DOMAIN todo} = Range(todo)
<1>1. \A i \in DOMAIN todo : todo[i] \in Events
  BY ElementOfSeq, LenProperties
<1> QED
  BY <1>1 DEF Range

\* An event goes to the writer, of an append or of a rebuild, which may commit.
LEMMA AddInv ==
  ASSUME SearchConstants, SearchInv, NEW h \in Handles, NEW late \in BOOLEAN, Add(h, late)
  PROVE  SearchInv'
<1> DEFINE X == writer[h].adds \cup {Head1(h)}
           full == [writer[h] EXCEPT !.adds = @ \cup {Head1(h)}]
           none == [writer[h] EXCEPT !.adds = {}]
<1>1. Types /\ Budget /\ StoredOK /\ DocsOK /\ PromptsOK
  BY DEF SearchInv
<1>2. /\ doing[h].step \in {"index", "rebuild"} /\ writer[h].open /\ doing[h].todo # <<>>
      /\ UNCHANGED <<searched, stored, prompts, locked, dir, dirty, faults, raced>>
  BY DEF Add, store
<1>3. WorkOK(doing[h]) /\ doing[h] \in Work /\ doing[h].mine \subseteq Events
      /\ writer[h] \in Writer /\ writer[h].dir <= dir
  BY <1>1, Operands DEF WorkOK, WriterOK
<1>4. /\ Head1(h) \in Events /\ Tail(doing[h].todo) \in Seq(Events)
      /\ Range(doing[h].todo) = {Head1(h)} \cup Range(Tail(doing[h].todo))
  BY <1>1, <1>2, Operands, HeadTail DEF Head1
<1>5. X \in SUBSET Events /\ full.adds = X /\ full.dir = writer[h].dir
      /\ full \in Writer /\ full.open /\ none.adds = {} /\ none.dir = writer[h].dir
      /\ none \in Writer /\ none.open
  BY <1>2, <1>3, <1>4 DEF Writer
<1>6. \E wr : /\ writer' = [writer EXCEPT ![h] = wr] /\ wr \in Writer /\ wr.dir = writer[h].dir /\ wr.open
              /\ wr.adds \subseteq X
              /\ documents' \subseteq Events /\ readable' \in BOOLEAN /\ (excused \cup overtaken)' \subseteq Events
              /\ excused \cup overtaken \cup documents \subseteq excused' \cup overtaken' \cup documents'
              /\ X \subseteq excused' \cup overtaken' \cup documents' \cup wr.adds
              /\ \A e \in documents' : e \in documents \/ (e \in X /\ writer[h].dir = dir)
  <2>1. CASE writer' = [writer EXCEPT ![h] = none] /\ Commits(full)
    <3> HIDE DEF X, full, none
    <3>1. /\ documents' \subseteq Events /\ readable' \in BOOLEAN /\ (excused \cup overtaken)' \subseteq Events
          /\ \A e \in excused \cup overtaken \cup documents \cup X : e \in excused' \cup overtaken' \cup documents'
          /\ \A e \in documents' : e \in documents \/ (e \in X /\ writer[h].dir = dir)
      BY <1>1, <1>5, <2>1, CommitsEffect
    <3> QED
      BY <1>5, <2>1, <3>1
  <2>2. CASE writer' = [writer EXCEPT ![h] = full] /\ UNCHANGED <<documents, readable, excused, overtaken>>
    <3> HIDE DEF X, full, none
    <3>1. documents' \subseteq Events /\ readable' \in BOOLEAN /\ (excused \cup overtaken)' \subseteq Events
      BY <1>1, <2>2 DEF Types
    <3> QED
      BY <1>5, <2>2, <3>1
  <2>3. [writer EXCEPT ![h].adds = {}] = [writer EXCEPT ![h] = none]
    BY <1>1 DEF Types
  <2> QED
    BY <2>1, <2>2, <2>3 DEF Add
<1>7. \E w : /\ doing' = [doing EXCEPT ![h] = w] /\ WorkOK(w) /\ w.mine \subseteq doing[h].mine
             /\ \/ doing[h].step = "index" /\ w.step \in {"insert", "commit", "idle"}
                \/ /\ doing[h].step = "rebuild" /\ w.step = "rebuild"
                   /\ w.todo = Tail(doing[h].todo)
  <2>1. CASE doing[h].step = "index"
    <3>1. NextEvent(h, doing[h].mine)
      BY <2>1 DEF Add
    <3> QED
      BY <1>1, <1>2, <1>3, <2>1, <3>1, NextWork DEF Appending
  <2>2. CASE doing[h].step = "rebuild"
    <3> DEFINE w == [doing[h] EXCEPT !.todo = Tail(@)]
    <3>1. doing' = [doing EXCEPT ![h] = w]
      BY <1>1, <2>2 DEF Add, Types
    <3>2. WorkOK(w)
      BY <1>3, <1>4, <2>2 DEF WorkOK, Work, Appending
    <3>3. w.mine = doing[h].mine /\ w.step = "rebuild" /\ w.todo = Tail(doing[h].todo)
      BY <1>3, <2>2 DEF Work
    <3> HIDE DEF w
    <3> QED
      BY <2>2, <3>1, <3>2, <3>3
  <2> QED
    BY <1>2, <2>1, <2>2
<1> HIDE DEF full, none
<1>8. PICK wr :
        /\ writer' = [writer EXCEPT ![h] = wr] /\ wr \in Writer /\ wr.dir = writer[h].dir /\ wr.open
        /\ wr.adds \subseteq X
        /\ documents' \subseteq Events /\ readable' \in BOOLEAN /\ (excused \cup overtaken)' \subseteq Events
        /\ excused \cup overtaken \cup documents \subseteq excused' \cup overtaken' \cup documents'
        /\ X \subseteq excused' \cup overtaken' \cup documents' \cup wr.adds
        /\ \A e \in documents' : e \in documents \/ (e \in X /\ writer[h].dir = dir)
  BY <1>6
<1>9. PICK w :
        /\ doing' = [doing EXCEPT ![h] = w] /\ WorkOK(w) /\ w.mine \subseteq doing[h].mine
        /\ \/ doing[h].step = "index" /\ w.step \in {"insert", "commit", "idle"}
           \/ /\ doing[h].step = "rebuild" /\ w.step = "rebuild"
              /\ w.todo = Tail(doing[h].todo)
  BY <1>7
<1>10. Acts(h, w, wr)
  BY <1>8, <1>9 DEF Acts
<1>11. Types'
  <2>1. WriterOK(wr, w.step, dir')
    BY <1>2, <1>3, <1>8, <1>9 DEF WriterOK
  <2> QED
    BY <1>1, <1>2, <1>8, <1>9, <1>10, <2>1, TypesStep DEF Types
<1>12. Budget'
  BY <1>1, <1>2, <1>9, <1>10, BudgetStep
<1>13. StoredOK'
  <2>1. Carries(doing[h]) \subseteq X \cup Carries(w)
    <3>1. CASE doing[h].step = "index"
      BY <3>1 DEF Carries, Head1
    <3>2. CASE doing[h].step = "rebuild" /\ w.step = "rebuild" /\ w.todo = Tail(doing[h].todo)
      BY <1>4, <3>2 DEF Carries
    <3> QED
      BY <1>9, <3>1, <3>2
  <2>2. \A e \in writer[h].adds \cup Carries(doing[h]) :
          e \in excused' \cup overtaken' \cup documents' \cup wr.adds \cup Carries(w)
    BY <1>8, <2>1
  <2>3. \A e \in stored' \cup w.mine : e \in stored \cup doing[h].mine
    BY <1>2, <1>9
  <2> QED
    BY <1>1, <1>8, <1>10, <2>2, <2>3, StoredKeep
<1>14. DocsOK'
  <2>1. \A s : Live(s) => Live(s)'
    BY <1>2 DEF Live
  <2>2. HandOK(h)
    BY <1>1 DEF DocsOK
  <2>3. Live(Head1(h).in)
    <3>1. CASE doing[h].step = "index"
      BY <2>2, <3>1 DEF HandOK
    <3>2. CASE doing[h].step = "rebuild"
      BY <1>4, <2>2, <3>2 DEF HandOK
    <3> QED
      BY <1>2, <3>1, <3>2
  <2>4. writer[h].dir = dir => \A e \in X : Fit(e)
    BY <1>1, <2>3 DEF DocsOK, Fit
  <2>5. HandOK(h)'
    <3>1. doing'[h] = w /\ writer'[h] = wr
      BY <1>1, <1>10, ActsAt
    <3>2. CASE w.step \in {"insert", "commit", "idle"}
      BY <3>1, <3>2 DEF HandOK
    <3>3. CASE doing[h].step = "rebuild" /\ w.step = "rebuild" /\ w.todo = Tail(doing[h].todo)
      <4>1. \A e \in Range(w.todo) : Live(e.in)'
        BY <1>4, <2>1, <2>2, <3>3 DEF HandOK
      <4>2. \A e \in wr.adds : Live(e.in)'
        BY <1>8, <2>1, <2>2, <2>3, <3>3 DEF HandOK
      <4> QED
        BY <3>1, <3>3, <4>1, <4>2 DEF HandOK
    <3> QED
      BY <1>9, <3>2, <3>3
  <2>6. \A e \in documents' : Fit(e)
    BY <1>1, <1>8, <2>4 DEF DocsOK
  <2>7. wr.dir = dir' => \A e \in wr.adds : Fit(e)
    BY <1>2, <1>8, <2>4
  <2> QED
    BY <1>1, <1>2, <1>10, <2>1, <2>5, <2>6, <2>7, DocsStep
<1> QED
  BY <1>1, <1>2, <1>11, <1>12, <1>13, <1>14, PromptsKeep DEF SearchInv

\* What the commit of a writer alone does to the index.
LEMMA CommitKeeps ==
  ASSUME SearchConstants, Types, Budget, StoredOK, DocsOK, NEW h \in Handles, NEW w, NEW wr,
         Acts(h, w, wr), Commits(writer[h]), WorkOK(w), wr \in Writer,
         wr.dir <= dir, wr.adds = {}, w.mine \subseteq doing[h].mine, doing[h].step \in {"idle", "take"},
         w.step \in {"idle", "delete"}, w.known = doing[h].known,
         w.step = "idle" => doing[h].step = "idle",
         UNCHANGED <<searched, stored, prompts, locked, dir, dirty, faults, raced>>
  PROVE  Types' /\ Budget' /\ StoredOK' /\ DocsOK'
<1>1. writer[h].adds \in SUBSET Events
  BY Operands
<1>2. /\ documents' \subseteq Events /\ readable' \in BOOLEAN /\ (excused \cup overtaken)' \subseteq Events
      /\ \A e \in excused \cup overtaken \cup documents \cup writer[h].adds : e \in excused' \cup overtaken' \cup documents'
      /\ \A e \in documents' : e \in documents \/ (e \in writer[h].adds /\ writer[h].dir = dir)
  BY <1>1, CommitsEffect
<1>3. Types'
  <2>1. WriterOK(wr, w.step, dir')
    BY DEF WriterOK
  <2> QED
    BY <1>2, <2>1, TypesStep DEF Types
<1>4. Budget'
  BY BudgetStep
<1>5. StoredOK'
  <2>1. Carries(doing[h]) = {}
    BY DEF Carries
  <2> QED
    BY <1>2, <2>1, StoredKeep
<1>6. DocsOK'
  <2>1. \A s : Live(s) => Live(s)'
    BY DEF Live
  <2>2. HandOK(h)'
    BY ActsAt DEF HandOK
  <2>3. \A e \in documents' : Fit(e)
    BY <1>2 DEF DocsOK
  <2> QED
    BY <2>1, <2>2, <2>3, DocsStep
<1> QED
  BY <1>3, <1>4, <1>5, <1>6

\* The end of a Stop hook commits.
LEMMA FlushInv ==
  ASSUME SearchConstants, SearchInv, NEW h \in Handles, Flush(h)
  PROVE  SearchInv'
<1> DEFINE wr == [writer[h] EXCEPT !.adds = {}]
<1>1. Types /\ Budget /\ StoredOK /\ DocsOK /\ PromptsOK
  BY DEF SearchInv
<1>2. /\ doing[h] = Idle /\ Acts(h, Idle, wr) /\ Commits(writer[h])
      /\ UNCHANGED <<searched, stored, prompts, locked, dir, dirty, faults, raced>>
  BY <1>1 DEF Flush, Acts, store, Types
<1>3. wr \in Writer /\ wr.dir <= dir /\ wr.adds = {}
  BY <1>1, Operands DEF WriterOK, Writer
<1> HIDE DEF wr
<1>4. Types' /\ Budget' /\ StoredOK' /\ DocsOK'
  BY <1>1, <1>2, <1>3, Resting, CommitKeeps
<1> QED
  BY <1>1, <1>2, <1>4, PromptsKeep DEF SearchInv

\* The handle that goes commits.
LEMMA DropInv ==
  ASSUME SearchConstants, SearchInv, NEW h \in Handles, Drop(h)
  PROVE  SearchInv'
<1>1. Types /\ Budget /\ StoredOK /\ DocsOK /\ PromptsOK
  BY DEF SearchInv
<1>2. /\ doing[h] = Idle /\ Acts(h, Idle, Closed) /\ Commits(writer[h])
      /\ UNCHANGED <<searched, stored, prompts, locked, dir, dirty, faults, raced>>
  BY <1>1 DEF Drop, Acts, store, Types
<1>3. Closed \in Writer /\ Closed.dir <= dir /\ Closed.adds = {}
  BY <1>1, Resting DEF Types
<1>4. Types' /\ Budget' /\ StoredOK' /\ DocsOK'
  BY <1>1, <1>2, <1>3, Resting, CommitKeeps
<1> QED
  BY <1>1, <1>2, <1>4, PromptsKeep DEF SearchInv

\* The writer of a handle that prunes gives way, with its documents committed.
LEMMA TakeWriterInv ==
  ASSUME SearchConstants, SearchInv, NEW h \in Handles, TakeWriter(h)
  PROVE  SearchInv'
<1> DEFINE w == [doing[h] EXCEPT !.step = "delete"]
<1>1. Types /\ Budget /\ StoredOK /\ DocsOK /\ PromptsOK
  BY DEF SearchInv
<1>2. /\ doing[h].step = "take" /\ Acts(h, w, Closed) /\ Commits(writer[h])
      /\ UNCHANGED <<searched, stored, prompts, locked, dir, dirty, faults, raced>>
  BY <1>1 DEF TakeWriter, Acts, Step, store, Types
<1>3. Closed \in Writer /\ Closed.dir <= dir /\ Closed.adds = {}
  BY <1>1, Resting DEF Types
<1>4. WorkOK(doing[h]) /\ doing[h] \in Work
  BY <1>1, Operands DEF WorkOK
<1>5. WorkOK(w) /\ w.step = "delete" /\ w.mine = doing[h].mine /\ w.known = doing[h].known
  BY <1>2, <1>4 DEF WorkOK, Work, Steps, Appending
<1> HIDE DEF w
<1>6. Types' /\ Budget' /\ StoredOK' /\ DocsOK'
  BY <1>1, <1>2, <1>3, <1>5, CommitKeeps
<1> QED
  BY <1>1, <1>2, <1>6, PromptsKeep DEF SearchInv

\* A killed process loses what it has in hand and in its writer, and leaves
\* the documents of the sessions that it was about to delete.
LEMMA KillInv ==
  ASSUME SearchConstants, SearchInv, NEW h \in Handles, Kill(h)
  PROVE  SearchInv'
<1>1. Types /\ Budget /\ StoredOK /\ DocsOK /\ PromptsOK
  BY DEF SearchInv
<1>2. /\ Acts(h, Idle, Closed) /\ faults < MaxFaults /\ faults' = faults + 1
      /\ excused' = excused \cup writer[h].adds \cup {doing[h].todo[i] : i \in DOMAIN doing[h].todo}
      /\ raced' = raced \cup IF doing[h].step \in {"take", "delete"} THEN doing[h].known ELSE {}
      /\ locked' = IF locked = h THEN None ELSE locked
      /\ UNCHANGED <<searched, stored, prompts, dir, documents, readable, dirty, overtaken>>
  BY <1>1 DEF Kill, Acts, index
<1>3. /\ {doing[h].todo[i] : i \in DOMAIN doing[h].todo} = Range(doing[h].todo)
      /\ Range(doing[h].todo) \subseteq Events
  BY <1>1, Operands, RangeOfTodo
<1>4. excused' = excused \cup writer[h].adds \cup Range(doing[h].todo)
  BY <1>2, <1>3
<1>5. Types'
  <2>1. WriterOK(Closed, Idle.step, dir')
    BY <1>1, <1>2, Resting DEF WriterOK, Types
  <2>2. faults' \in 0 .. MaxFaults
    BY <1>1, <1>2 DEF Types, SearchConstants
  <2>3. (excused \cup overtaken)' \subseteq Events /\ raced' \subseteq Sessions
    BY <1>1, <1>2, <1>3, <1>4, Operands DEF Types
  <2>4. locked' \in Handles \cup {None}
    BY <1>1, <1>2 DEF Types
  <2> QED
    BY <1>1, <1>2, <2>1, <2>2, <2>3, <2>4, Resting, TypesStep DEF Types
<1>6. Budget'
  BY <1>1, <1>2, Resting, BudgetStep
<1>7. StoredOK'
  <2>1. Carries(doing[h]) \subseteq Range(doing[h].todo)
    <3>1. CASE doing[h].step \in {"look", "index"}
      <4>1. doing[h].todo # <<>>
        BY <1>1, <3>1, Operands DEF WorkOK, Appending
      <4>2. Head(doing[h].todo) \in Range(doing[h].todo)
        BY <1>1, <4>1, Operands, HeadTail
      <4> QED
        BY <3>1, <4>2 DEF Carries
    <3>2. CASE doing[h].step \notin {"look", "index"}
      BY <3>2 DEF Carries
    <3> QED
      BY <3>1, <3>2
  <2> QED
    BY <1>1, <1>2, <1>4, <2>1, Resting, StoredKeep
<1>8. DocsOK'
  <2>1. raced \subseteq raced' /\ (doing[h].step \in {"take", "delete"} => doing[h].known \subseteq raced')
    BY <1>2
  <2> QED
    BY <1>1, <1>2, <2>1, Resting, DocsQuiet
<1> QED
  BY <1>1, <1>2, <1>5, <1>6, <1>7, <1>8, PromptsKeep DEF SearchInv

-----------------------------------------------------------------------------
(* Prune. *)

\* The rows go; what other handles have in hand for these sessions is noted.
LEMMA PruneRowsInv ==
  ASSUME SearchConstants, SearchInv, NEW h \in Handles, NEW old \in SUBSET Sessions, PruneRows(h, old)
  PROVE  SearchInv'
<1> DEFINE w == [Idle EXCEPT !.step = "take", !.known = old]
<1>1. Types /\ Budget /\ StoredOK /\ DocsOK /\ PromptsOK
  BY DEF SearchInv
<1>2. /\ doing[h] = Idle /\ Acts(h, w, writer[h]) /\ searched' = searched \ old
      /\ stored' = {e \in stored : e.in \notin old}
      /\ prompts' = [s \in Sessions |-> IF s \in old THEN None ELSE prompts[s]]
      /\ raced' = raced \cup {s \in old : \E p \in Handles :
           \/ \E e \in InHand(p) : e.in = s
           \/ doing[p].step \in {"events", "drop", "open", "rebuild"}}
      /\ UNCHANGED <<locked, dir, documents, readable, dirty, faults, excused, overtaken>>
  BY <1>1 DEF PruneRows, Acts, index, Types
<1>3. WorkOK(w) /\ w.step = "take" /\ w.mine = {} /\ w.known = old
  <2>1. <<>> \in Seq(Events)
    BY EmptySeq
  <2> QED
    BY <2>1 DEF WorkOK, Idle, Work, Steps, Appending
<1> HIDE DEF w
<1>4. Types'
  <2>1. WriterOK(writer[h], w.step, dir')
    BY <1>1, <1>2, <1>3, Operands DEF WriterOK
  <2>2. searched' \subseteq Sessions /\ stored' \subseteq Events /\ raced' \subseteq Sessions
    BY <1>1, <1>2 DEF Types
  <2>3. prompts' \in [Sessions -> Events \cup {None}]
    BY <1>1, <1>2 DEF Types
  <2> QED
    BY <1>1, <1>2, <1>3, <2>1, <2>2, <2>3, TypesStep DEF Types
<1>5. Budget'
  BY <1>1, <1>2, <1>3, BudgetStep
<1>6. StoredOK'
  <2>1. Carries(doing[h]) = {}
    BY <1>2 DEF Idle, Carries
  <2> QED
    BY <1>1, <1>2, <1>3, <2>1, StoredKeep
<1>7. DocsOK'
  <2>1. /\ doing'[h] = w /\ writer'[h] = writer[h]
        /\ \A p \in Handles \ {h} : doing'[p] = doing[p] /\ writer'[p] = writer[p]
    BY <1>1, <1>2, ActsAt
  <2>2. \A s \in old : Going(s)'
    BY <1>3, <2>1 DEF Going
  <2>3. \A s : Live(s) => Live(s)' \/ s \in old
    BY <1>2 DEF Live
  <2>4. \A s : Going(s) => Going(s)'
    <3>1. doing[h].step = "idle"
      BY <1>2, Resting
    <3> QED
      BY <2>1, <3>1 DEF Going
  <2>5. \A e : Fit(e) => Fit(e)'
    BY <2>2, <2>3, <2>4 DEF Fit
  <2>6. ASSUME NEW p \in Handles PROVE HandOK(p)'
    <3>1. CASE p = h
      BY <1>3, <2>1, <3>1 DEF HandOK
    <3>2. CASE p # h
      <4>1. doing'[p] = doing[p] /\ writer'[p] = writer[p] /\ HandOK(p)
        BY <1>1, <2>1, <3>2 DEF DocsOK
      <4>2. CASE doing[p].step \in {"events", "drop", "open", "rebuild"}
        <5>1. old \subseteq raced'
          BY <1>2, <4>2
        <5>2. \A s : Live(s) => Live(s)'
          BY <2>3, <5>1 DEF Live
        <5> QED
          BY <4>1, <4>2, <5>2 DEF HandOK
      <4>3. CASE doing[p].step = "index"
        <5>1. Head1(p) \in InHand(p)
          BY <4>3 DEF InHand
        <5>2. Head1(p).in \in old => Head1(p).in \in raced'
          BY <1>2, <5>1
        <5>3. Live(Head1(p).in)'
          <6>1. Live(Head1(p).in)
            BY <4>1, <4>3 DEF HandOK
          <6>2. PICK s : s = Head1(p).in
            OBVIOUS
          <6>3. s \in searched' \cup raced'
            BY <1>2, <5>2, <6>1, <6>2 DEF Live
          <6>4. Head1(p)' = Head1(p)
            BY <4>1 DEF Head1
          <6> QED
            BY <6>2, <6>3, <6>4 DEF Live
        <5> QED
          BY <4>1, <4>3, <5>3 DEF HandOK
      <4>4. CASE doing[p].step \notin {"index", "events", "drop", "open", "rebuild"}
        BY <4>1, <4>4 DEF HandOK
      <4> QED
        BY <4>2, <4>3, <4>4
    <3> QED
      BY <3>1, <3>2
  <2>7. \A p \in Handles : writer'[p] = writer[p]
    BY <2>1
  <2> QED
    BY <1>1, <1>2, <2>5, <2>6, <2>7 DEF DocsOK
<1>8. PromptsOK'
  <2>1. ASSUME NEW s \in Sessions
        PROVE  IF Prompted(stored', s) = {} THEN prompts'[s] = None
               ELSE Earliest(prompts'[s], Prompted(stored', s))
    <3>1. CASE s \in old
      BY <1>2, <3>1 DEF Prompted
    <3>2. CASE s \notin old
      <4>1. Prompted(stored', s) = Prompted(stored, s) /\ prompts'[s] = prompts[s]
        BY <1>2, <3>2 DEF Prompted
      <4> QED
        BY <1>1, <4>1 DEF PromptsOK
    <3> QED
      BY <3>1, <3>2
  <2> QED
    BY <2>1 DEF PromptsOK
<1> QED
  BY <1>4, <1>5, <1>6, <1>7, <1>8 DEF SearchInv

\* The documents of the pruned sessions go: no writer of the index in place
\* holds one more, for the lock is free.
LEMMA DeleteSessionsInv ==
  ASSUME SearchConstants, SearchInv, NEW h \in Handles, DeleteSessions(h)
  PROVE  SearchInv'
<1>1. Types /\ Budget /\ StoredOK /\ DocsOK /\ PromptsOK
  BY DEF SearchInv
<1>2. /\ doing[h].step = "delete" /\ LockIsFree /\ Acts(h, Idle, writer[h])
      /\ documents' = {e \in documents : e.in \notin doing[h].known}
      /\ overtaken' = overtaken \cup Alive({e \in documents : e.in \in doing[h].known})
      /\ UNCHANGED <<searched, stored, prompts, locked, dir, readable, dirty, faults, excused, raced>>
  BY <1>1 DEF DeleteSessions, Acts, store, Types
<1>3. Types'
  <2>1. WriterOK(writer[h], Idle.step, dir')
    BY <1>1, <1>2, Resting, Operands DEF WriterOK
  <2>2. (excused \cup overtaken)' \subseteq Events /\ documents' \subseteq Events
    BY <1>1, <1>2 DEF Types, Alive
  <2> QED
    BY <1>1, <1>2, <2>1, <2>2, Resting, TypesStep DEF Types
<1>4. Budget'
  BY <1>1, <1>2, Resting, BudgetStep
<1>5. StoredOK'
  <2>1. Carries(doing[h]) = {}
    BY <1>2 DEF Carries
  <2>2. \A p \in Handles : doing'[p].mine \subseteq doing[p].mine
    BY <1>1, <1>2, Resting, ActsAt
  <2>3. \A e \in excused \cup overtaken \cup documents : Held(e) => Accounted(e)'
    <3>1. \A e : Held(e) => e \in stored \cup UNION {doing[p].mine : p \in Handles}
      BY DEF Held
    <3>2. \A e \in excused \cup overtaken \cup documents : Held(e) => e \in excused' \cup overtaken' \cup documents'
      BY <1>2, <3>1 DEF Alive
    <3> QED
      BY <3>2 DEF Accounted
  <2>4. \A e \in writer[h].adds \cup InHand(h) \cup InRebuild(h) : Accounted(e)'
    <3>1. InHand(h) = {} /\ InRebuild(h) = {}
      BY <1>2 DEF InHand, InRebuild
    <3>2. writer'[h] = writer[h]
      BY <1>1, <1>2, ActsAt
    <3> QED
      BY <3>1, <3>2 DEF Accounted
  <2> QED
    BY <1>1, <1>2, <2>3, <2>4, Resting, StoredStep
<1>6. DocsOK'
  <2>1. /\ doing'[h] = Idle /\ writer'[h] = writer[h]
        /\ \A p \in Handles \ {h} : doing'[p] = doing[p] /\ writer'[p] = writer[p]
    BY <1>1, <1>2, ActsAt
  <2>2. \A s : Live(s) <=> Live(s)'
    BY <1>2 DEF Live
  <2>3. \A s : Going(s) /\ s \notin doing[h].known => Going(s)'
    BY <2>1 DEF Going
  <2>4. \A e \in documents' : Fit(e)'
    <3>1. \A e \in documents' : Fit(e) /\ e.in \notin doing[h].known
      BY <1>1, <1>2 DEF DocsOK
    <3>2. \A e : Fit(e) /\ e.in \notin doing[h].known => Fit(e)'
      BY <2>2, <2>3 DEF Fit
    <3> QED
      BY <3>1, <3>2
  <2>5. ASSUME NEW p \in Handles, writer'[p].dir = dir' PROVE writer'[p].adds = {}
    <3>1. writer'[p] = writer[p] /\ writer[p].dir = dir
      BY <1>2, <2>1, <2>5
    <3>2. ~writer[p].open
      BY <1>2, <3>1 DEF LockIsFree
    <3> QED
      BY <1>1, <3>1, <3>2, Operands DEF WriterOK
  <2>6. ASSUME NEW p \in Handles PROVE HandOK(p)'
    <3>1. CASE p = h
      BY <2>1, <3>1, Resting DEF HandOK
    <3>2. CASE p # h
      <4>1. doing'[p] = doing[p] /\ writer'[p] = writer[p] /\ HandOK(p)
        BY <1>1, <2>1, <3>2 DEF DocsOK
      <4> QED
        BY <2>2, <4>1 DEF HandOK, Head1
    <3> QED
      BY <3>1, <3>2
  <2> QED
    BY <2>4, <2>5, <2>6 DEF DocsOK
<1> QED
  BY <1>1, <1>2, <1>3, <1>4, <1>5, <1>6, PromptsKeep DEF SearchInv

\* A failure leaves them, and is noted.
LEMMA FailDeleteInv ==
  ASSUME SearchConstants, SearchInv, NEW h \in Handles, FailDelete(h)
  PROVE  SearchInv'
<1>1. Types /\ Budget /\ StoredOK /\ DocsOK /\ PromptsOK
  BY DEF SearchInv
<1>2. /\ doing[h].step = "delete" /\ Acts(h, Idle, writer[h])
      /\ faults < MaxFaults /\ faults' = faults + 1 /\ dirty' = TRUE
      /\ raced' = raced \cup doing[h].known
      /\ UNCHANGED <<searched, stored, prompts, locked, dir, documents, readable, excused, overtaken>>
  BY <1>1 DEF FailDelete, Acts, store, Types
<1>3. Types'
  <2>1. WriterOK(writer[h], Idle.step, dir')
    BY <1>1, <1>2, Resting, Operands DEF WriterOK
  <2>2. faults' \in 0 .. MaxFaults
    BY <1>1, <1>2 DEF Types, SearchConstants
  <2>3. raced' \subseteq Sessions
    BY <1>1, <1>2, Operands DEF Types
  <2> QED
    BY <1>1, <1>2, <2>1, <2>2, <2>3, Resting, TypesStep DEF Types
<1>4. Budget'
  BY <1>1, <1>2, Resting, BudgetStep
<1>5. StoredOK'
  <2>1. Carries(doing[h]) = {}
    BY <1>2 DEF Carries
  <2> QED
    BY <1>1, <1>2, <2>1, Resting, StoredKeep
<1>6. DocsOK'
  <2>1. raced \subseteq raced' /\ doing[h].known \subseteq raced'
    BY <1>2
  <2> QED
    BY <1>1, <1>2, <2>1, Resting, DocsQuiet
<1> QED
  BY <1>1, <1>2, <1>3, <1>4, <1>5, <1>6, PromptsKeep DEF SearchInv

-----------------------------------------------------------------------------
(* The rebuild of the index. *)

\* A rebuild begins within the bound.
LEMMA ReindexInv ==
  ASSUME SearchConstants, SearchInv, NEW h \in Handles, Reindex(h)
  PROVE  SearchInv'
<1> DEFINE w == [Idle EXCEPT !.step = "events", !.known = searched]
           B == {p \in Handles : doing[p].step \in {"events", "drop"}}
           C == {p \in Handles : doing'[p].step \in {"events", "drop"}}
<1>1. Types /\ Budget /\ StoredOK /\ DocsOK /\ PromptsOK
  BY DEF SearchInv
<1>2. /\ doing[h] = Idle /\ ~writer[h].open /\ Acts(h, w, writer[h])
      /\ dir + Cardinality(B) <= MaxReindexes
      /\ UNCHANGED <<searched, stored, prompts, locked, dir, documents, readable, dirty, faults, excused,
                     overtaken, raced>>
  BY <1>1 DEF Reindex, Acts, store, index, history, Types
<1>3. WorkOK(w) /\ w.step = "events" /\ w.mine = {} /\ w.known = searched
  <2>1. <<>> \in Seq(Events)
    BY EmptySeq
  <2> QED
    BY <1>1, <2>1 DEF WorkOK, Idle, Work, Steps, Appending, Types
<1> HIDE DEF w
<1>4. Types'
  <2>1. WriterOK(writer[h], w.step, dir')
    BY <1>1, <1>2, Operands DEF WriterOK
  <2> QED
    BY <1>1, <1>2, <1>3, <2>1, TypesStep DEF Types
<1>5. Budget'
  <2>1. C \subseteq B \cup {h}
    BY <1>1, <1>2, ActsAt
  <2>2. IsFiniteSet(B)
    BY FS_Subset DEF SearchConstants
  <2> HIDE DEF B, C
  <2>3. IsFiniteSet(B \cup {h}) /\ Cardinality(B \cup {h}) \in {Cardinality(B), Cardinality(B) + 1}
    BY <2>2, FS_AddElement
  <2>4. Cardinality(C) <= Cardinality(B \cup {h}) /\ Cardinality(C) \in Nat /\ Cardinality(B) \in Nat
    BY <2>1, <2>2, <2>3, FS_Subset, FS_CardinalityType
  <2>5. dir' + Cardinality(C) <= MaxReindexes + 1
    BY <1>1, <1>2, <2>3, <2>4 DEF Types, SearchConstants
  <2> QED
    BY <2>5 DEF Budget, C
<1>6. StoredOK'
  <2>1. Carries(doing[h]) = {}
    BY <1>2 DEF Idle, Carries
  <2> QED
    BY <1>1, <1>2, <1>3, <2>1, StoredKeep
<1>7. DocsOK'
  <2>1. \A s : Live(s) => Live(s)'
    BY <1>2 DEF Live
  <2>2. HandOK(h)'
    BY <1>1, <1>2, <1>3, ActsAt DEF HandOK, Live
  <2>3. /\ \A e \in documents' : Fit(e)
        /\ writer[h].dir = dir' => \A e \in writer[h].adds : Fit(e)
    BY <1>1, <1>2 DEF DocsOK
  <2>4. doing[h].step = "idle"
    BY <1>2, Resting
  <2> QED
    BY <1>1, <1>2, <2>1, <2>2, <2>3, <2>4, DocsStep
<1> QED
  BY <1>1, <1>2, <1>4, <1>5, <1>6, <1>7, PromptsKeep DEF SearchInv

\* A finite set as a list.
LEMMA SetAsSeq ==
  ASSUME NEW S \in SUBSET Events, IsFiniteSet(S)
  PROVE  SetToSeq(S) \in Seq(Events) /\ Range(SetToSeq(S)) \subseteq S
<1>1. Cardinality(S) \in Nat
  BY FS_CardinalityType
<1>2. \E f \in [1 .. Cardinality(S) -> S] : IsInjective(f)
  <2>1. ExistsBijection(1 .. Cardinality(S), S)
    BY FS_NatBijection, FS_CountingElements, FS_CardinalityType
  <2>2. PICK f : f \in Bijection(1 .. Cardinality(S), S)
    BY <2>1 DEF ExistsBijection
  <2> QED
    BY <2>2 DEF Bijection, Injection
<1>3. SetToSeq(S) \in [1 .. Cardinality(S) -> S]
  BY <1>2 DEF SetToSeq
<1> QED
  BY <1>1, <1>3 DEF Range

\* The events of the sessions that were there are read.
LEMMA ReadEventsInv ==
  ASSUME SearchConstants, SearchInv, NEW h \in Handles, ReadEvents(h)
  PROVE  SearchInv'
<1> DEFINE S == {e \in stored : e.in \in doing[h].known /\ IsIndexed(e)}
           w == [doing[h] EXCEPT !.step = "drop", !.todo = SetToSeq(S)]
<1>1. Types /\ Budget /\ StoredOK /\ DocsOK /\ PromptsOK
  BY DEF SearchInv
<1>2. /\ doing[h].step = "events" /\ Acts(h, w, writer[h])
      /\ UNCHANGED <<searched, stored, prompts, locked, dir, documents, readable, dirty, faults, excused,
                     overtaken, raced>>
  BY <1>1 DEF ReadEvents, Acts, store, index, history, Types
<1>3. SetToSeq(S) \in Seq(Events) /\ Range(SetToSeq(S)) \subseteq S
  <2>1. S \in SUBSET Events /\ IsFiniteSet(S)
    <3>1. S \subseteq Events
      BY <1>1 DEF Types
    <3> QED
      BY <3>1, FS_Subset DEF SearchConstants
  <2> HIDE DEF S
  <2> QED
    BY <2>1, SetAsSeq
<1>4. WorkOK(doing[h]) /\ doing[h] \in Work
  BY <1>1, Operands DEF WorkOK
<1>5. WorkOK(w) /\ w.step = "drop" /\ w.mine = doing[h].mine /\ w.todo = SetToSeq(S)
  <2> HIDE DEF S
  <2> QED
    BY <1>2, <1>3, <1>4 DEF WorkOK, Work, Steps, Appending
<1>6. \A e \in Range(w.todo) : e.in \in doing[h].known
  BY <1>3, <1>5
<1> HIDE DEF w, S
<1>7. Types'
  <2>1. WriterOK(writer[h], w.step, dir')
    BY <1>1, <1>2, <1>5, Operands DEF WriterOK
  <2> QED
    BY <1>1, <1>2, <1>5, <2>1, TypesStep DEF Types
<1>8. Budget'
  BY <1>1, <1>2, <1>5, BudgetStep
<1>9. StoredOK'
  <2>1. Carries(doing[h]) = {}
    BY <1>2 DEF Carries
  <2> QED
    BY <1>1, <1>2, <1>5, <2>1, StoredKeep
<1>10. DocsOK'
  <2>1. \A s : Live(s) => Live(s)'
    BY <1>2 DEF Live
  <2>2. HandOK(h)'
    <3>1. \A s \in doing[h].known : Live(s)
      BY <1>1, <1>2 DEF DocsOK, HandOK
    <3>2. \A e \in Range(w.todo) : Live(e.in)'
      BY <1>6, <2>1, <3>1
    <3>3. doing'[h] = w
      BY <1>1, <1>2, ActsAt
    <3> QED
      BY <1>5, <3>2, <3>3 DEF HandOK
  <2>3. /\ \A e \in documents' : Fit(e)
        /\ writer[h].dir = dir' => \A e \in writer[h].adds : Fit(e)
    BY <1>1, <1>2 DEF DocsOK
  <2> QED
    BY <1>1, <1>2, <2>1, <2>2, <2>3, DocsStep
<1> QED
  BY <1>1, <1>2, <1>7, <1>8, <1>9, <1>10, PromptsKeep DEF SearchInv

\* The directory is replaced: every writer is then one of a directory that is
\* no more.
LEMMA DropIndexInv ==
  ASSUME SearchConstants, SearchInv, NEW h \in Handles, DropIndex(h)
  PROVE  SearchInv'
<1> DEFINE w == [doing[h] EXCEPT !.step = "open"]
           lost == UNION ({documents} \cup {writer[p].adds \cup InHand(p) : p \in Handles})
           B == {p \in Handles : doing[p].step \in {"events", "drop"}}
           C == {p \in Handles : doing'[p].step \in {"events", "drop"}}
<1>1. Types /\ Budget /\ StoredOK /\ DocsOK /\ PromptsOK
  BY DEF SearchInv
<1>2. /\ doing[h].step = "drop" /\ Acts(h, w, writer[h])
      /\ dir' = dir + 1 /\ documents' = {} /\ readable' = TRUE
      /\ excused' = excused \cup (lost \ Range(doing[h].todo))
      /\ UNCHANGED <<searched, stored, prompts, locked, dirty, faults, overtaken, raced>>
  <2>1. doing' = [doing EXCEPT ![h] = w]
    BY <1>1 DEF DropIndex, Step, Types
  <2>2. writer' = [writer EXCEPT ![h] = writer[h]]
    BY <1>1 DEF DropIndex, Types
  <2>3. excused' = excused \cup (lost \ Range(doing[h].todo))
    BY DEF DropIndex
  <2> HIDE DEF w, lost
  <2> QED
    BY <2>1, <2>2, <2>3 DEF DropIndex, Acts, store
<1>3. WorkOK(doing[h]) /\ doing[h] \in Work
  BY <1>1, Operands DEF WorkOK
<1>4. WorkOK(w) /\ w.step = "open" /\ w.mine = doing[h].mine /\ w.todo = doing[h].todo
  BY <1>2, <1>3 DEF WorkOK, Work, Steps, Appending
<1>5. Carries(w) = Range(doing[h].todo)
  BY <1>4 DEF Carries
<1> HIDE DEF w
<1>6. documents \subseteq lost
  OBVIOUS
<1>7. lost \subseteq Events
  <2>1. ASSUME NEW p \in Handles PROVE writer[p].adds \cup InHand(p) \subseteq Events
    <3>1. InHand(p) \subseteq Events
      <4>1. CASE doing[p].step \in {"look", "index"}
        <5>1. doing[p].todo # <<>>
          BY <1>1, <4>1, Operands DEF WorkOK, Appending
        <5>2. Head1(p) \in Events
          BY <1>1, <5>1, Operands, HeadTail DEF Head1
        <5> QED
          BY <5>2 DEF InHand
      <4>2. CASE doing[p].step \notin {"look", "index"}
        BY <4>2 DEF InHand
      <4> QED
        BY <4>1, <4>2
    <3> QED
      BY <1>1, <3>1, Operands
  <2> QED
    BY <1>1, <2>1 DEF Types
<1> HIDE DEF lost
<1>8. Types'
  <2>1. WriterOK(writer[h], w.step, dir')
    <3>1. dir \in Nat /\ writer[h].dir \in Nat /\ writer[h].dir <= dir
      BY <1>1, Operands DEF Types
    <3>2. writer[h].dir <= dir'
      BY <1>2, <3>1
    <3> QED
      BY <1>1, <1>2, <3>2, Operands DEF WriterOK
  <2>2. dir' \in Nat \ {0} /\ dir <= dir'
    BY <1>1, <1>2 DEF Types
  <2>3. (excused \cup overtaken)' \subseteq Events
    BY <1>1, <1>2, <1>7 DEF Types
  <2> QED
    BY <1>1, <1>2, <1>4, <2>1, <2>2, <2>3, TypesStep DEF Types
<1>9. Budget'
  <2>1. C = B \ {h} /\ h \in B
    BY <1>1, <1>2, <1>4, ActsAt
  <2>2. IsFiniteSet(B)
    BY FS_Subset DEF SearchConstants
  <2>3. dir + Cardinality(B) <= MaxReindexes + 1
    BY <1>1 DEF Budget
  <2> HIDE DEF B, C
  <2>4. Cardinality(C) = Cardinality(B) - 1 /\ Cardinality(B) \in Nat
    BY <2>1, <2>2, FS_RemoveElement, FS_CardinalityType
  <2>5. dir' + Cardinality(C) <= MaxReindexes + 1
    BY <1>1, <1>2, <2>3, <2>4 DEF Types, SearchConstants
  <2> QED
    BY <2>5 DEF Budget, C
<1>10. StoredOK'
  <2>1. Carries(doing[h]) = {} /\ writer[h].adds = {}
    <3>1. Carries(doing[h]) = {}
      BY <1>2 DEF Carries
    <3>2. writer[h].adds = {}
      BY <1>1, <1>2, Operands DEF WriterOK
    <3> QED
      BY <3>1, <3>2
  <2>2. excused \cup overtaken \cup documents \subseteq excused' \cup overtaken' \cup documents' \cup Carries(w)
    BY <1>2, <1>5, <1>6
  <2> QED
    BY <1>1, <1>2, <1>4, <2>1, <2>2, StoredKeep
<1>11. DocsOK'
  <2>1. \A s : Live(s) => Live(s)'
    BY <1>2 DEF Live
  <2>2. HandOK(h)'
    <3>1. \A e \in Range(doing[h].todo) : Live(e.in)
      BY <1>1, <1>2 DEF DocsOK, HandOK
    <3>2. \A e \in Range(w.todo) : Live(e.in)'
      BY <1>4, <2>1, <3>1
    <3>3. doing'[h] = w
      BY <1>1, <1>2, ActsAt
    <3> QED
      BY <1>4, <3>2, <3>3 DEF HandOK
  <2>3. writer[h].dir # dir'
    <3>1. dir \in Nat /\ writer[h].dir \in Nat /\ writer[h].dir <= dir
      BY <1>1, Operands DEF Types
    <3> QED
      BY <1>2, <3>1
  <2> QED
    BY <1>1, <1>2, <2>1, <2>2, <2>3, DocsStep
<1> QED
  BY <1>1, <1>2, <1>8, <1>9, <1>10, <1>11, PromptsKeep DEF SearchInv

\* The last commit of the rebuild.
LEMMA EndRebuildInv ==
  ASSUME SearchConstants, SearchInv, NEW h \in Handles, EndRebuild(h)
  PROVE  SearchInv'
<1>1. Types /\ Budget /\ StoredOK /\ DocsOK /\ PromptsOK
  BY DEF SearchInv
<1>2. /\ doing[h].step = "rebuild" /\ doing[h].todo = <<>> /\ Acts(h, Idle, Closed)
      /\ Commits(writer[h])
      /\ UNCHANGED <<searched, stored, prompts, locked, dir, dirty, faults, raced>>
  BY <1>1 DEF EndRebuild, Acts, store
<1>7. /\ documents' \subseteq Events /\ readable' \in BOOLEAN /\ (excused \cup overtaken)' \subseteq Events
      /\ \A e \in excused \cup overtaken \cup documents \cup writer[h].adds : e \in excused' \cup overtaken' \cup documents'
      /\ \A e \in documents' : e \in documents \/ (e \in writer[h].adds /\ writer[h].dir = dir)
  <2>1. writer[h].adds \in SUBSET Events
    BY <1>1, Operands
  <2> QED
    BY <1>1, <1>2, <2>1, CommitsEffect
<1>3. Types'
  <2>1. WriterOK(Closed, Idle.step, dir')
    BY <1>1, <1>2, Resting DEF WriterOK, Types
  <2> QED
    BY <1>1, <1>2, <1>7, <2>1, Resting, TypesStep DEF Types
<1>4. Budget'
  BY <1>1, <1>2, Resting, BudgetStep
<1>5. StoredOK'
  <2>1. Carries(doing[h]) = {}
    BY <1>1, <1>2, Operands, RangeOfTodo DEF Carries
  <2>2. excused \cup overtaken \cup documents \cup writer[h].adds \subseteq excused' \cup overtaken' \cup documents'
    BY <1>7
  <2> QED
    BY <1>1, <1>2, <2>1, <2>2, Resting, StoredKeep
<1>6. DocsOK'
  <2>1. \A s : Live(s) => Live(s)'
    BY <1>2 DEF Live
  <2>2. HandOK(h)'
    BY <1>1, <1>2, Resting, ActsAt DEF HandOK
  <2>3. \A e \in documents' : Fit(e)
    BY <1>1, <1>2, <1>7 DEF DocsOK, HandOK, Fit
  <2> QED
    BY <1>1, <1>2, <2>1, <2>2, <2>3, Resting, DocsStep
<1> QED
  BY <1>1, <1>2, <1>3, <1>4, <1>5, <1>6, PromptsKeep DEF SearchInv

-----------------------------------------------------------------------------
(* Every state. *)

\* The empty store.
LEMMA InitInv == ASSUME SearchConstants, Init PROVE SearchInv
<1>1. Types
  <2>1. writer \in [Handles -> Writer] /\ doing \in [Handles -> Work]
    BY Resting DEF Init, WorkOK
  <2>2. \A h \in Handles : WorkOK(doing[h]) /\ WriterOK(writer[h], doing[h].step, dir)
    BY Resting DEF Init, WriterOK
  <2>3. faults \in 0 .. MaxFaults /\ dir \in Nat \ {0}
    BY DEF Init, SearchConstants
  <2>4. prompts \in [Sessions -> Events \cup {None}] /\ locked \in Handles \cup {None}
    BY DEF Init
  <2>5. readable \in BOOLEAN /\ dirty \in BOOLEAN
    BY DEF Init
  <2>6. searched = {} /\ stored = {} /\ documents = {} /\ excused = {} /\ overtaken = {} /\ raced = {}
    BY DEF Init
  <2> QED
    BY <2>1, <2>2, <2>3, <2>4, <2>5, <2>6 DEF Types
<1>2. Budget
  <2> DEFINE B == {p \in Handles : doing[p].step \in {"events", "drop"}}
  <2>1. B = {}
    BY Resting DEF Init
  <2> HIDE DEF B
  <2>2. Cardinality(B) = 0 /\ dir = 1
    BY <2>1, FS_EmptySet DEF Init
  <2>3. dir + Cardinality(B) <= MaxReindexes + 1
    BY <2>2 DEF SearchConstants
  <2> QED
    BY <2>3 DEF Budget, B
<1>3. StoredOK
  BY Resting DEF Init, StoredOK
<1>4. DocsOK
  BY Resting DEF Init, DocsOK, HandOK
<1>5. PromptsOK
  BY DEF Init, PromptsOK, Prompted
<1> QED
  BY <1>1, <1>2, <1>3, <1>4, <1>5 DEF SearchInv

\* Where nothing happens.
LEMMA StutterInv == ASSUME SearchInv, UNCHANGED vars PROVE SearchInv'
<1>1. Types' /\ Budget' /\ PromptsOK'
  BY DEF SearchInv, vars, store, index, history, Types, Budget, PromptsOK
<1>2. StoredOK'
  BY DEF SearchInv, vars, store, index, history, StoredOK, Accounted, InHand, InRebuild, Head1
<1>3. DocsOK'
  BY DEF SearchInv, vars, store, index, history, DocsOK, Fit, HandOK, Live, Going, Head1
<1> QED
  BY <1>1, <1>2, <1>3 DEF SearchInv

\* Every step of every handle.
LEMMA NextInv == ASSUME SearchConstants, SearchInv, [Next]_vars PROVE SearchInv'
<1>1. CASE UNCHANGED vars
  BY <1>1, StutterInv
<1>2. ASSUME NEW h \in Handles, NEW e \in Events, Ingest(h, e) PROVE SearchInv'
  BY <1>2, IngestInv
<1>3. ASSUME NEW h \in Handles, NEW batch \in Batches, Scan(h, batch) PROVE SearchInv'
  BY <1>3, ScanInv
<1>4. ASSUME NEW h \in Handles, NEW old \in SUBSET Sessions, PruneRows(h, old) PROVE SearchInv'
  BY <1>4, PruneRowsInv
<1>5. ASSUME NEW h \in Handles, NEW late \in BOOLEAN, Add(h, late) PROVE SearchInv'
  BY <1>5, AddInv
<1>6. ASSUME NEW h \in Handles, Insert(h) \/ Busy(h) \/ Commit(h) \/ RollBack(h) PROVE SearchInv'
  BY <1>6, InsertInv, BusyInv, CommitInv, RollBackInv
<1>7. ASSUME NEW h \in Handles, LookUp(h) \/ OpenWriter(h) \/ FailIndex(h) PROVE SearchInv'
  BY <1>7, LookUpInv, OpenWriterInv, FailIndexInv
<1>8. ASSUME NEW h \in Handles, Flush(h) \/ Drop(h) \/ Kill(h) PROVE SearchInv'
  BY <1>8, FlushInv, DropInv, KillInv
<1>9. ASSUME NEW h \in Handles, TakeWriter(h) \/ DeleteSessions(h) \/ FailDelete(h) PROVE SearchInv'
  BY <1>9, TakeWriterInv, DeleteSessionsInv, FailDeleteInv
<1>10. ASSUME NEW h \in Handles, Reindex(h) \/ ReadEvents(h) \/ DropIndex(h) \/ EndRebuild(h)
       PROVE  SearchInv'
  BY <1>10, ReindexInv, ReadEventsInv, DropIndexInv, EndRebuildInv
<1> QED
  BY <1>1, <1>2, <1>3, <1>4, <1>5, <1>6, <1>7, <1>8, <1>9, <1>10 DEF Next

\* The invariant holds in every state.
LEMMA SearchInvariant == ASSUME SearchConstants PROVE Spec => []SearchInv
<1>1. Init => SearchInv
  BY InitInv
<1>2. SearchInv /\ [Next]_vars => SearchInv'
  BY NextInv
<1> QED
  BY <1>1, <1>2, PTL DEF Spec

\* The types of the tables, the index and the handles, with no more
\* directories made than rebuilds allowed.
THEOREM SearchTypes == ASSUME SearchConstants PROVE Spec => []TypeOK
<1>1. SearchInv => TypeOK
  <2> SUFFICES ASSUME SearchInv PROVE TypeOK
    OBVIOUS
  <2>1. Types /\ Budget
    BY DEF SearchInv
  <2>2. dir \in 1 .. MaxReindexes + 1
    <3> DEFINE B == {p \in Handles : doing[p].step \in {"events", "drop"}}
    <3>1. Cardinality(B) \in Nat
      <4>1. IsFiniteSet(B)
        BY FS_Subset DEF SearchConstants
      <4> QED
        BY <4>1, FS_CardinalityType
    <3>2. dir + Cardinality(B) <= MaxReindexes + 1
      BY <2>1 DEF Budget
    <3> HIDE DEF B
    <3> QED
      BY <2>1, <3>1, <3>2 DEF Types, SearchConstants
  <2>3. \A h \in Handles : writer[h].dir \in 0 .. dir /\ writer[h].adds \subseteq Events
    BY <2>1, Operands DEF Types
  <2>4. \A h \in Handles : doing[h].step \in Steps /\ doing[h].known \subseteq Sessions
    BY <2>1, Operands
  <2> QED
    BY <2>1, <2>2, <2>3, <2>4 DEF Types, TypeOK
<1> QED
  BY <1>1, SearchInvariant, PTL

\* When no handle writes, a search finds every stored event unless a fault, a
\* rebuild or the prune of an earlier session of its id lost its document, and
\* nothing but of sessions that are there or whose prune met a handle with
\* their events in hand or was cut short (PendingWriter, reindex_workspace,
\* prune_sessions_started_before).
THEOREM QuietSearchIsRight == ASSUME SearchConstants PROVE Spec => []QuietIndexIsRight
<1>1. SearchInv => QuietIndexIsRight
  <2> SUFFICES ASSUME SearchInv, Quiet, readable
               PROVE  /\ \A e \in stored : e.in \in searched /\ IsIndexed(e) =>
                           e \in excused \cup overtaken \/ \A word \in e.text : e \in Hits(For(e, word))
                      /\ \A e \in documents : e.in \in searched \cup raced
    BY DEF QuietIndexIsRight
  <2>1. Types /\ StoredOK /\ DocsOK
    BY DEF SearchInv
  <2>2. \A h \in Handles : /\ doing[h].step = "idle" /\ writer[h].adds = {}
                           /\ InHand(h) = {} /\ InRebuild(h) = {}
    <3>0. DOMAIN doing = Handles
      BY <2>1 DEF Types
    <3>1. \A h \in Handles : doing[h].step = "idle"
      BY <3>0, Resting DEF Quiet
    <3>2. \A h \in Handles : writer[h].adds = {}
      BY <2>1, <3>0, Operands DEF Quiet, WriterOK
    <3> QED
      BY <3>1, <3>2 DEF InHand, InRebuild
  <2>3. ASSUME NEW e \in stored, IsIndexed(e), e \notin excused \cup overtaken, NEW word \in e.text
        PROVE  e \in Hits(For(e, word))
    <3>1. e \in documents
      BY <2>1, <2>2, <2>3 DEF StoredOK, Accounted
    <3> DEFINE q == For(e, word)
    <3>2. q.kind = e.kind /\ q.words = <<word>> /\ q.agent = e.agent /\ q.since = e.seq
      BY DEF For
    <3>3. e.kind # NotSet
      BY <2>3 DEF IsIndexed, SearchConstants
    <3>4. ToolHits(q) = {}
      BY <3>2, <3>3 DEF ToolHits
    <3>5. Matches(q, e)
      <4>1. Last(<<word>>) = word
        BY DEF Last
      <4>2. e.seq \in Nat
        BY <2>1 DEF Types, SearchConstants
      <4>3. e.seq <= e.seq
        BY <4>2
      <4> HIDE DEF q
      <4> QED
        BY <2>3, <3>2, <4>1, <4>3 DEF Matches, Passes
    <3> HIDE DEF q
    <3>6. e \in Hits(q)
      BY <3>1, <3>4, <3>5 DEF Hits, IndexHits
    <3> QED
      BY <3>6 DEF q
  <2>4. \A e \in documents : e.in \in searched \cup raced
    BY <2>1, <2>2 DEF DocsOK, Fit, Going, Live
  <2> QED
    BY <2>3, <2>4
<1> QED
  BY <1>1, SearchInvariant, PTL

\* A session is listed under its earliest prompt, in whatever order its events
\* are stored (session_search_projection.rs).
THEOREM FirstPromptIsListed == ASSUME SearchConstants PROVE Spec => []ListedUnderFirstPrompt
<1>1. SearchInv => ListedUnderFirstPrompt
  BY DEF SearchInv, Types, PromptsOK, ListedUnderFirstPrompt, Prompted, Earliest
<1> QED
  BY <1>1, SearchInvariant, PTL

\* So whenever no handle writes a search is right but for those losses, and
\* lists each session as it began.
THEOREM SearchStaysRight == ASSUME SearchConstants PROVE Spec => []SearchIsRight
  BY QuietSearchIsRight, FirstPromptIsListed, PTL DEF SearchIsRight
=============================================================================
