------------------------ MODULE TranscriptScan_proofs ------------------------
(***************************************************************************)
(* No line of a covered transcript falls out of the window unstored, for   *)
(* any number of scanners and transcripts, any window, overlap and budget, *)
(* and whatever aborts.  The inductive invariant says where such a line is *)
(* while a scan is under way: listed, read, or stored; and that what is    *)
(* read, like what is stored, has no hole below it, which is why a scanner *)
(* may leave out all lines up to the last seq.                             *)
(***************************************************************************)
EXTENDS TranscriptScan, FiniteSetTheorems, WellFoundedInduction, TLAPS

Stored(s) == Readable(s) \subseteq DOMAIN log[s]

\* All times lie in the past.
TimesOK ==
  /\ \A s \in Sessions : mtime[s] <= clock
  /\ \A p \in Scanners : now[p] <= clock /\ since[p] <= clock
  /\ lastScan = None \/ lastScan <= clock

\* A record of a transcript as a scanner read it.
RecordOK(r) ==
  /\ r \in Found
  /\ born[r.session] # None /\ r.started = born[r.session]
  /\ \A j \in r.lines : j < lines[r.session]
  /\ \A j \in r.lines, i \in Readable(r.session) : i <= j => i \in r.lines

RecordsOK ==
  \A p \in Scanners :
    /\ \A s \in todo[p] : born[s] # None
    /\ pc[p] \in {"store", "last", "batch", "mark"} => todo[p] = {}
    /\ pc[p] = "mark" => found[p] = {}
    /\ \A r \in found[p] : RecordOK(r)
    /\ pc[p] \in {"last", "batch"} => RecordOK(cur[p])

\* Without hooks the log of a kept transcript has no hole up to its last line,
\* and the row is the one the scanners write.
LogOK ==
  \A s \in Sessions :
    /\ born[s] = None => lines[s] = 0
    /\ \A q \in DOMAIN log[s] : q < MaxLines + hooks[s]
    /\ hooks[s] = 0 => row[s] \in {None, born[s]} /\ \A q \in DOMAIN log[s] : q < lines[s]
    /\ Kept(s) => \A q \in DOMAIN log[s], i \in Readable(s) : i <= q => i \in DOMAIN log[s]

\* Nor has it one up to what a scanner takes for its last seq.
LastSeqOK ==
  \A p \in Scanners :
    pc[p] = "batch" /\ lastSeq[p] # None /\ Kept(cur[p].session)
      => /\ lastSeq[p] < lines[cur[p].session]
         /\ \A i \in Readable(cur[p].session) : i <= lastSeq[p] => i \in DOMAIN log[cur[p].session]

\* Where a scan under way has the lines of s.
InHands(p, s) ==
  \/ s \in todo[p]
  \/ \E r \in found[p] : r.session = s /\ Readable(s) \subseteq r.lines
  \/ pc[p] \in {"last", "batch"} /\ cur[p].session = s /\ Readable(s) \subseteq cur[p].lines

HandsOK ==
  \A p \in Scanners, s \in Sessions :
    Covered(s) =>
      /\ pc[p] = "list" /\ mtime[s] < since[p] => Stored(s)
      /\ pc[p] \in {"read", "store", "last", "batch"} /\ mtime[s] < now[p] => InHands(p, s) \/ Stored(s)
      /\ pc[p] = "mark" /\ mtime[s] < now[p] => Stored(s)

IInv ==
  /\ TypeOK /\ TimesOK /\ RecordsOK /\ LogOK /\ LastSeqOK /\ HandsOK /\ NoRecentLineSkipped
-----------------------------------------------------------------------------
(* Helpers. *)

\* A nonempty set of naturals with a bound has its maximum in it.
LEMMA MaxOfBounded ==
  ASSUME NEW K \in Nat, NEW D \in SUBSET Nat, D # {}, \A q \in D : q <= K
  PROVE  Max(D) \in D /\ \A q \in D : q <= Max(D)
<1> DEFINE below == {n \in Nat : \E q \in D : n = K - q}
<1>0. \A q \in D : q \in Nat /\ K - q \in Nat
  OBVIOUS
<1>1. below \subseteq Nat /\ below # {}
  BY <1>0
<1>2. PICK d \in below : \A e \in below : ~(<<e, d>> \in OpToRel(<, Nat))
  <2> HIDE DEF below
  <2> QED BY <1>1, NatLessThanWellFounded, WFMin
<1>3. \A e \in below : ~(e < d)
  <2> SUFFICES ASSUME NEW e \in below, e < d PROVE FALSE
    OBVIOUS
  <2>1. e \in Nat /\ d \in Nat
    BY <1>1
  <2>2. <<e, d>> \in OpToRel(<, Nat)
    BY <2>1 DEF OpToRel
  <2> QED BY <2>2, <1>2
<1>4. PICK m \in D : d = K - m
  BY <1>2
<1>5. \A q \in D : m >= q
  <2> TAKE q \in D
  <2>1. K - q \in below
    BY <1>0
  <2>2. ~(K - q < K - m)
    BY <2>1, <1>3, <1>4
  <2> QED BY <2>2, <1>0
<1>6. Max(D) \in D /\ \A q \in D : Max(D) >= q
  BY <1>5, Zenon DEF Max
<1> QED BY <1>6

\* What MAX(seq) of a session is.
LEMMA LastSeqIs ==
  ASSUME TypeOK, LogOK, NEW s \in Sessions
  PROVE  /\ LastSeq(s) \in Nat \cup {None} /\ NextSeq(s) \in Nat
         /\ LastSeq(s) # None => LastSeq(s) \in DOMAIN log[s]
         /\ NextSeq(s) <= MaxLines + hooks[s]
<1>1. /\ DOMAIN log[s] \subseteq Nat /\ hooks[s] \in Nat /\ MaxLines \in Nat /\ None \notin Nat
      /\ \A q \in DOMAIN log[s] : q < MaxLines + hooks[s]
  BY ScanAssumption DEF TypeOK, LogOK
<1>2. CASE DOMAIN log[s] = {}
  BY <1>1, <1>2 DEF LastSeq, NextSeq
<1>3. CASE DOMAIN log[s] # {}
  <2>1. Max(DOMAIN log[s]) \in DOMAIN log[s]
    <3> DEFINE D == DOMAIN log[s]
               K == MaxLines + hooks[s]
    <3>1. K \in Nat /\ D \in SUBSET Nat /\ D # {} /\ \A q \in D : q <= K
      BY <1>1, <1>3
    <3> HIDE DEF D, K
    <3>2. Max(D) \in D
      BY <3>1, MaxOfBounded
    <3> QED BY <3>2 DEF D
  <2> QED BY <1>1, <1>3, <2>1 DEF LastSeq, NextSeq
<1> QED BY <1>2, <1>3

\* The lines that can be read are a range of naturals.
LEMMA ReadableIs ==
  ASSUME TypeOK, NEW s \in Sessions
  PROVE  /\ Readable(s) \subseteq Lines
         /\ \A i \in Readable(s) : i < lines[s]
<1>1. lines[s] \in Nat /\ lines[s] <= MaxLines /\ MaxLines \in Nat /\ MaxRead \in Nat
  BY ScanAssumption DEF TypeOK, Lines
<1>2. SaturatingSub(lines[s] + IF partial[s] THEN 1 ELSE 0, MaxRead) \in Nat
  BY <1>1 DEF SaturatingSub
<1> QED BY <1>1, <1>2 DEF Readable, Lines

\* The invariant holds before any scan.
LEMMA InitInv == Init => IInv
<1> SUFFICES ASSUME Init PROVE IInv
  OBVIOUS
<1> USE ScanAssumption
<1>1. TypeOK
  BY DEF Init, TypeOK, Empty, Lines, Time
<1>2. TimesOK
  BY DEF Init, TimesOK
<1>3. RecordsOK
  BY DEF Init, RecordsOK
<1>4. LogOK
  BY DEF Init, LogOK, Empty
<1>5. LastSeqOK /\ HandsOK /\ NoRecentLineSkipped
  BY DEF Init, LastSeqOK, HandsOK, NoRecentLineSkipped
<1> QED BY <1>1, <1>2, <1>3, <1>4, <1>5 DEF IInv

-----------------------------------------------------------------------------
(* Types. *)

LEMMA AppendType ==
  ASSUME NEW l, DOMAIN l \subseteq Nat, l \in [DOMAIN l -> {"hook", "line"}],
         NEW S \in SUBSET Nat, NEW o \in {"hook", "line"}
  PROVE  /\ DOMAIN Append(l, S, o) = DOMAIN l \cup S
         /\ DOMAIN Append(l, S, o) \subseteq Nat
         /\ Append(l, S, o) \in [DOMAIN Append(l, S, o) -> {"hook", "line"}]
BY DEF Append

LEMMA AgentTypes ==
  ASSUME TypeOK, LogOK,
         NEW s \in Sessions, NEW b \in BOOLEAN, WriteLine(s, b) \/ Hook(s, b)
  PROVE  TypeOK'
<1> USE ScanAssumption
<1>1. CASE WriteLine(s, b)
  <2>1. UNCHANGED <<clock, hooks, db, local, aborts>>
    BY <1>1 DEF WriteLine
  <2>2. clock \in Time /\ lines[s] \in Lines /\ lines[s] < MaxLines
    BY <1>1 DEF WriteLine, TypeOK
  <2>3. lines' \in [Sessions -> Lines] /\ partial' \in [Sessions -> BOOLEAN]
    BY <1>1, <2>2 DEF WriteLine, TypeOK, Lines
  <2>4. mtime' \in [Sessions -> Time] /\ born' \in [Sessions -> Time \cup {None}]
    BY <1>1, <2>2 DEF WriteLine, TypeOK
  <2> QED BY <2>1, <2>3, <2>4 DEF TypeOK, db, local
<1>2. CASE Hook(s, b)
  <2>1. UNCHANGED <<world, lastScan, lastPrune, local, aborts>>
    BY <1>2 DEF Hook
  <2>2. hooks' \in [Sessions -> 0 .. MaxHooks] /\ row' \in [Sessions -> Time \cup {None}]
    BY <1>2 DEF Hook, TypeOK
  <2>3. NextSeq(s) \in Nat
    BY LastSeqIs
  <2>4. /\ DOMAIN log'[s] \subseteq Nat /\ log'[s] \in [DOMAIN log'[s] -> {"hook", "line"}]
        /\ log' = [log EXCEPT ![s] = Append(@, {NextSeq(s)}, "hook")]
    <3>1. DOMAIN log[s] \subseteq Nat /\ log[s] \in [DOMAIN log[s] -> {"hook", "line"}]
      BY DEF TypeOK
    <3>2. log'[s] = Append(log[s], {NextSeq(s)}, "hook")
      BY <1>2 DEF Hook, TypeOK
    <3>3. log' = [log EXCEPT ![s] = Append(@, {NextSeq(s)}, "hook")]
      BY <1>2 DEF Hook
    <3> DEFINE S == {NextSeq(s)}
               l == log[s]
    <3>4. S \in SUBSET Nat /\ DOMAIN l \subseteq Nat /\ l \in [DOMAIN l -> {"hook", "line"}]
      BY <2>3, <3>1
    <3>5. log'[s] = Append(l, S, "hook")
      BY <3>2
    <3> HIDE DEF S, l
    <3>6. /\ DOMAIN Append(l, S, "hook") \subseteq Nat
          /\ Append(l, S, "hook") \in [DOMAIN Append(l, S, "hook") -> {"hook", "line"}]
      BY <3>4, AppendType
    <3> QED BY <3>3, <3>5, <3>6
  <2>5. /\ log' = [t \in Sessions |-> log'[t]]
        /\ \A t \in Sessions :
             DOMAIN log'[t] \subseteq Nat /\ log'[t] \in [DOMAIN log'[t] -> {"hook", "line"}]
    BY <2>4 DEF TypeOK
  <2> QED BY <2>1, <2>2, <2>5 DEF TypeOK, world, local
<1> QED BY <1>1, <1>2

LEMMA SinceType ==
  ASSUME TypeOK, TimesOK, NEW all \in BOOLEAN
  PROVE  Since(all) \in Time /\ Since(all) <= clock
BY ScanAssumption DEF TypeOK, TimesOK, Since, SaturatingSub, Time

LEMMA ForgetTypes ==
  ASSUME TypeOK, NEW p \in Scanners, Forget(p)
  PROVE  /\ pc' \in [Scanners -> {"idle", "list", "read", "store", "last", "batch", "mark"}]
         /\ now' \in [Scanners -> Time] /\ full' \in [Scanners -> BOOLEAN]
         /\ since' \in [Scanners -> Time] /\ todo' \in [Scanners -> SUBSET Sessions]
         /\ found' \in [Scanners -> SUBSET Found] /\ cur' \in [Scanners -> Found \cup {None}]
         /\ lastSeq' \in [Scanners -> Nat \cup {None}]
         /\ pc'[p] = "idle"
<1>1. 0 \in Time
  BY ScanAssumption DEF Time
<1> QED BY <1>1 DEF TypeOK, Forget, Goto

LEMMA ScanTypes ==
  ASSUME TypeOK, TimesOK, RecordsOK, LogOK, NEW p \in Scanners,
         ScanStep(p) \/ (\E all \in BOOLEAN : Begin(p, all)) \/ Abort(p)
  PROVE  TypeOK'
<1>1. ASSUME NEW all \in BOOLEAN, Begin(p, all) PROVE TypeOK'
  <2>1. Since(all) \in Time
    BY SinceType
  <2> QED BY <1>1, <2>1 DEF Begin, Goto, TypeOK, world, db
<1>2. ASSUME NEW chosen \in SUBSET Sessions, List(p, chosen) PROVE TypeOK'
  <2>1. 0 \in Time
    BY ScanAssumption DEF Time
  <2> QED BY <1>2, <2>1 DEF List, Goto, TypeOK, world, db
<1>3. ASSUME NEW s \in Sessions, Read(p, s) PROVE TypeOK'
  <2>1. Readable(s) \subseteq Lines
    BY ReadableIs
  <2>2. born[s] \in Time
    BY <1>3 DEF Read, RecordsOK, TypeOK
  <2>3. [session |-> s, lines |-> Readable(s), started |-> born[s]] \in Found
    BY <2>1, <2>2 DEF Found
  <2>4. found' \in [Scanners -> SUBSET Found] /\ todo' \in [Scanners -> SUBSET Sessions]
    BY <1>3, <2>3 DEF Read, TypeOK
  <2> QED BY <1>3, <2>4 DEF Read, Goto, TypeOK, world, db
<1>4. ASSUME NEW r \in found[p], Upsert(p, r) PROVE TypeOK'
  <2>1. r \in Found
    BY DEF TypeOK
  <2>2. r.session \in Sessions /\ r.started \in Time
    BY <2>1 DEF Found
  <2>3. row' \in [Sessions -> Time \cup {None}]
    BY <1>4, <2>2 DEF Upsert, TypeOK
  <2>4. found' \in [Scanners -> SUBSET Found] /\ cur' \in [Scanners -> Found \cup {None}]
    BY <1>4, <2>1 DEF Upsert, TypeOK
  <2>5. pc' \in [Scanners -> {"idle", "list", "read", "store", "last", "batch", "mark"}]
    BY <1>4 DEF Upsert, Goto, TypeOK
  <2>6. UNCHANGED <<world, hooks, log, lastScan, lastPrune, now, full, since, todo, lastSeq, aborts>>
    BY <1>4 DEF Upsert
  <2> QED BY <2>3, <2>4, <2>5, <2>6 DEF TypeOK, world
<1>5. ASSUME ReadLast(p) PROVE TypeOK'
  <2>1. cur[p].session \in Sessions
    BY <1>5 DEF ReadLast, RecordsOK, RecordOK, Found
  <2>2. LastSeq(cur[p].session) \in Nat \cup {None}
    BY <2>1, LastSeqIs
  <2> QED BY <1>5, <2>2 DEF ReadLast, Goto, TypeOK, world, db
<1>6. ASSUME Batch(p) PROVE TypeOK'
  <2>1. UNCHANGED <<world, hooks, row, lastScan, lastPrune, aborts>>
    BY <1>6 DEF Batch
  <2>2. CASE BatchFails(p)
    <3>1. Forget(p) /\ log' = log
      BY <1>6, <2>2 DEF Batch
    <3> QED BY <2>1, <3>1, ForgetTypes DEF TypeOK, world
  <2>3. CASE ~BatchFails(p)
    <3> DEFINE s == cur[p].session
    <3>1. cur[p] \in Found
      BY <1>6 DEF Batch, RecordsOK, RecordOK
    <3>2. s \in Sessions /\ Unseen(p) \in SUBSET Nat
      BY <3>1, ScanAssumption DEF Found, Unseen, Lines
    <3>3. log' = [log EXCEPT ![s] = Append(@, Unseen(p), "line")]
      BY <1>6, <2>3 DEF Batch
    <3>4. DOMAIN log[s] \subseteq Nat /\ log[s] \in [DOMAIN log[s] -> {"hook", "line"}]
      BY <3>2 DEF TypeOK
    <3>5. log'[s] = Append(log[s], Unseen(p), "line")
      BY <3>2, <3>3 DEF TypeOK
    <3>6. DOMAIN log'[s] \subseteq Nat /\ log'[s] \in [DOMAIN log'[s] -> {"hook", "line"}]
      <4> DEFINE S == Unseen(p)
                 l == log[s]
      <4>1. S \in SUBSET Nat /\ DOMAIN l \subseteq Nat /\ l \in [DOMAIN l -> {"hook", "line"}]
        BY <3>2, <3>4
      <4>2. log'[s] = Append(l, S, "line")
        BY <3>5
      <4> HIDE DEF S, l, s
      <4>3. /\ DOMAIN Append(l, S, "line") \subseteq Nat
            /\ Append(l, S, "line") \in [DOMAIN Append(l, S, "line") -> {"hook", "line"}]
        BY <4>1, AppendType
      <4> QED BY <4>2, <4>3
    <3>7. /\ log' = [t \in Sessions |-> log'[t]]
          /\ \A t \in Sessions :
               DOMAIN log'[t] \subseteq Nat /\ log'[t] \in [DOMAIN log'[t] -> {"hook", "line"}]
      BY <3>3, <3>6 DEF TypeOK
    <3>8. /\ pc' \in [Scanners -> {"idle", "list", "read", "store", "last", "batch", "mark"}]
          /\ cur' \in [Scanners -> Found \cup {None}] /\ lastSeq' \in [Scanners -> Nat \cup {None}]
          /\ UNCHANGED <<now, full, since, todo, found>>
      BY <1>6, <2>3 DEF Batch, Goto, TypeOK
    <3> QED BY <2>1, <3>7, <3>8 DEF TypeOK, world
  <2> QED BY <2>2, <2>3
<1>7. ASSUME Prune(p) PROVE TypeOK'
  <2>1. UNCHANGED <<world, hooks, lastScan, now, full, since, todo, found, cur, lastSeq, aborts>>
    BY <1>7 DEF Prune
  <2>2. pc' \in [Scanners -> {"idle", "list", "read", "store", "last", "batch", "mark"}]
    BY <1>7 DEF Prune, Goto, TypeOK
  <2>3. CASE PruneDue
    <3>1. /\ log' = [s \in Sessions |-> IF s \in Old THEN Empty ELSE log[s]]
          /\ row' = [s \in Sessions |-> IF s \in Old THEN None ELSE row[s]]
          /\ lastPrune' = clock
      BY <1>7, <2>3 DEF Prune
    <3>2. DOMAIN Empty \subseteq Nat /\ Empty \in [DOMAIN Empty -> {"hook", "line"}]
      BY DEF Empty
    <3>3. /\ log' = [s \in Sessions |-> log'[s]]
          /\ \A s \in Sessions :
               DOMAIN log'[s] \subseteq Nat /\ log'[s] \in [DOMAIN log'[s] -> {"hook", "line"}]
      BY <3>1, <3>2 DEF TypeOK
    <3>4. row' \in [Sessions -> Time \cup {None}] /\ lastPrune' \in Time \cup {None}
      BY <3>1 DEF TypeOK
    <3> QED BY <2>1, <2>2, <3>3, <3>4 DEF TypeOK, world
  <2>4. CASE ~PruneDue
    <3>1. UNCHANGED <<log, row, lastPrune>>
      BY <1>7, <2>4 DEF Prune
    <3> QED BY <2>1, <2>2, <3>1 DEF TypeOK, world
  <2> QED BY <2>3, <2>4
<1>8. ASSUME Mark(p) PROVE TypeOK'
  <2>1. /\ Forget(p) /\ UNCHANGED <<world, hooks, log, row, lastPrune, aborts>>
        /\ lastScan' \in Time \cup {None}
    BY <1>8 DEF Mark, TypeOK
  <2> QED BY <2>1, ForgetTypes DEF TypeOK, world
<1>9. ASSUME Abort(p) PROVE TypeOK'
  <2>1. Forget(p) /\ UNCHANGED <<world, hooks, db>> /\ aborts' \in 0 .. MaxAborts
    BY <1>9, ScanAssumption DEF Abort, TypeOK
  <2> QED BY <2>1, ForgetTypes DEF TypeOK, world, db
<1> QED BY <1>1, <1>2, <1>3, <1>4, <1>5, <1>6, <1>7, <1>8, <1>9 DEF ScanStep

LEMMA TypeStep == IInv /\ [Next]_vars => TypeOK'
<1> SUFFICES ASSUME IInv, [Next]_vars PROVE TypeOK'
  OBVIOUS
<1>1. TypeOK /\ TimesOK /\ RecordsOK /\ LogOK
  BY DEF IInv
<1>2. CASE Tick
  BY <1>1, <1>2, ScanAssumption DEF Tick, TypeOK, Time, db, local
<1>3. ASSUME NEW s \in Sessions, NEW b \in BOOLEAN, WriteLine(s, b) \/ Hook(s, b) PROVE TypeOK'
  BY <1>1, <1>3, AgentTypes
<1>4. ASSUME NEW p \in Scanners, ScanStep(p) \/ (\E all \in BOOLEAN : Begin(p, all)) \/ Abort(p)
      PROVE  TypeOK'
  BY <1>1, <1>4, ScanTypes
<1>5. CASE UNCHANGED vars
  BY <1>1, <1>5 DEF TypeOK, vars, world, db, local
<1> QED BY <1>2, <1>3, <1>4, <1>5 DEF Next

-----------------------------------------------------------------------------
(* What a step does to one session, whoever takes it. *)

SameTranscript(s) ==
  lines'[s] = lines[s] /\ partial'[s] = partial[s] /\ mtime'[s] = mtime[s] /\ born'[s] = born[s]

\* A transcript only grows, hooks stay, and a write is as late as can be.
LEMMA WorldStep ==
  ASSUME TypeOK, TimesOK, TypeOK', [Next]_vars, NEW s \in Sessions
  PROVE  /\ clock <= clock' /\ (hooks'[s] = 0 => hooks[s] = 0)
         /\ lines[s] <= lines'[s] /\ mtime[s] <= mtime'[s]
         /\ born[s] # None => born'[s] = born[s]
         /\ \A i \in Readable(s)' : i < lines[s] => i \in Readable(s)
         /\ SameTranscript(s) \/ (mtime'[s] = clock /\ clock' = clock)
<1> USE ScanAssumption
<1>0. /\ clock \in Nat /\ lines[s] \in Nat /\ mtime[s] \in Nat /\ hooks[s] \in Nat
      /\ partial[s] \in BOOLEAN /\ mtime[s] <= clock
  BY DEF TypeOK, TimesOK, Time, Lines
<1>1. CASE UNCHANGED <<lines, partial, mtime, born>> /\ clock' \in {clock, clock + 1}
           /\ (hooks'[s] = 0 => hooks[s] = 0)
  <2>1. Readable(s)' = Readable(s)
    BY <1>1 DEF Readable
  <2> QED BY <1>0, <1>1, <2>1 DEF SameTranscript
<1>2. CASE Tick
  BY <1>1, <1>2 DEF Tick
<1>3. ASSUME NEW t \in Sessions, NEW whole \in BOOLEAN, WriteLine(t, whole)
      PROVE  /\ clock' = clock /\ hooks' = hooks
             /\ lines[s] <= lines'[s] /\ mtime[s] <= mtime'[s]
             /\ born[s] # None => born'[s] = born[s]
             /\ \A i \in Readable(s)' : i < lines[s] => i \in Readable(s)
             /\ SameTranscript(s) \/ mtime'[s] = clock
  <2>1. clock' = clock /\ hooks' = hooks
    BY <1>3 DEF WriteLine
  <2>2. CASE t # s
    <3>1. SameTranscript(s)
      BY <1>3, <2>2 DEF WriteLine, SameTranscript, TypeOK
    <3>2. Readable(s)' = Readable(s)
      BY <3>1 DEF SameTranscript, Readable
    <3> QED BY <1>0, <2>1, <3>1, <3>2 DEF SameTranscript
  <2>3. CASE t = s
    <3>1. mtime'[s] = clock /\ (born[s] # None => born'[s] = born[s])
      BY <1>3, <2>3 DEF WriteLine, TypeOK
    <3>2. /\ lines'[s] = IF whole THEN lines[s] + 1 ELSE lines[s]
          /\ partial'[s] = ~whole /\ (whole \/ ~partial[s])
      BY <1>3, <2>3 DEF WriteLine, TypeOK
    <3>3. lines[s] + (IF partial[s] THEN 1 ELSE 0) <= lines'[s] + (IF partial'[s] THEN 1 ELSE 0)
      BY <1>0, <3>2
    <3>4. \A i \in Readable(s)' : i < lines[s] => i \in Readable(s)
      <4> DEFINE a == lines[s] + (IF partial[s] THEN 1 ELSE 0)
                 b == lines'[s] + (IF partial'[s] THEN 1 ELSE 0)
      <4>1. a \in Nat /\ b \in Nat /\ a <= b /\ lines'[s] \in Nat
        BY <1>0, <3>2, <3>3
      <4>2. Readable(s) = SaturatingSub(a, MaxRead) .. lines[s] - 1
        BY DEF Readable
      <4>3. Readable(s)' = SaturatingSub(b, MaxRead) .. lines'[s] - 1
        BY DEF Readable
      <4> HIDE DEF a, b
      <4>4. SaturatingSub(a, MaxRead) <= SaturatingSub(b, MaxRead)
            /\ SaturatingSub(a, MaxRead) \in Nat /\ SaturatingSub(b, MaxRead) \in Nat
        BY <4>1 DEF SaturatingSub
      <4> QED BY <1>0, <4>1, <4>2, <4>3, <4>4
    <3> QED BY <1>0, <2>1, <3>1, <3>2, <3>4
  <2> QED BY <2>2, <2>3
<1>4. ASSUME NEW t \in Sessions, NEW start \in BOOLEAN, Hook(t, start)
      PROVE  UNCHANGED world /\ (hooks'[s] = 0 => hooks[s] = 0)
  <2>1. UNCHANGED world /\ hooks' = [hooks EXCEPT ![t] = @ + 1]
    BY <1>4 DEF Hook
  <2>2. hooks'[s] = hooks[s] \/ hooks'[s] = hooks[s] + 1
    BY <2>1 DEF TypeOK
  <2> QED BY <1>0, <2>1, <2>2
<1>5. ASSUME NEW p \in Scanners, ScanStep(p) \/ (\E all \in BOOLEAN : Begin(p, all)) \/ Abort(p)
      PROVE  UNCHANGED <<world, hooks>>
  BY <1>5 DEF ScanStep, Begin, List, Read, Upsert, ReadLast, Batch, Prune, Mark, Abort
<1>6. CASE UNCHANGED vars
  BY <1>1, <1>6 DEF vars, world
<1> QED BY <1>0, <1>1, <1>2, <1>3, <1>4, <1>5, <1>6 DEF Next, world

\* Kept and Covered are never gained, but by a write.
LEMMA KeptBack ==
  ASSUME TypeOK, TimesOK, TypeOK', [Next]_vars, NEW s \in Sessions, Kept(s)'
  PROVE  /\ born[s] # None => Kept(s)
         /\ hooks[s] = 0
<1> USE ScanAssumption
<1>1. /\ clock <= clock' /\ (hooks'[s] = 0 => hooks[s] = 0) /\ (born[s] # None => born'[s] = born[s])
  BY WorldStep
<1>2. hooks'[s] = 0 /\ (HotTime = 0 \/ born'[s] >= SaturatingSub(clock', HotTime))
  BY DEF Kept
<1>3. ASSUME born[s] # None, HotTime # 0 PROVE born[s] >= SaturatingSub(clock, HotTime)
  <2>1. born[s] \in Nat /\ born'[s] = born[s] /\ clock \in Nat /\ clock' \in Nat
    BY <1>1, <1>3 DEF TypeOK, Time
  <2> QED BY <1>1, <1>2, <1>3, <2>1 DEF SaturatingSub
<1> QED BY <1>1, <1>2, <1>3 DEF Kept

LEMMA CoveredBack ==
  ASSUME TypeOK, TimesOK, TypeOK', [Next]_vars, NEW s \in Sessions, SameTranscript(s), Covered(s)'
  PROVE  Covered(s) /\ Readable(s)' = Readable(s)
<1> USE ScanAssumption
<1>1. Readable(s)' = Readable(s)
  BY DEF SameTranscript, Readable
<1>2. Kept(s)
  BY KeptBack DEF Covered, Kept, SameTranscript
<1>3. mtime[s] >= SaturatingSub(clock, Lookback)
  <2>1. clock <= clock' /\ clock \in Nat /\ clock' \in Nat /\ mtime[s] \in Nat
    BY WorldStep DEF TypeOK, Time
  <2>2. mtime[s] >= SaturatingSub(clock', Lookback)
    BY DEF Covered, SameTranscript
  <2> QED BY <2>1, <2>2 DEF SaturatingSub
<1>4. Cardinality(Newer(s)) <= MaxRecent
  <2>1. \A t \in Sessions : mtime[t] <= mtime'[t] /\ (born[t] # None => born'[t] = born[t])
    BY WorldStep
  <2>2. \A t \in Sessions : mtime[t] \in Nat /\ mtime'[t] \in Nat
    BY DEF TypeOK, Time
  <2>3. Newer(s) \subseteq Newer(s)'
    BY <2>1, <2>2 DEF Newer, SameTranscript
  <2>4. IsFiniteSet(Newer(s)')
    <3>1. Newer(s)' \subseteq Sessions
      BY DEF Newer
    <3> QED BY <3>1, FS_Subset
  <2>5. /\ Cardinality(Newer(s)) <= Cardinality(Newer(s)')
        /\ Cardinality(Newer(s)) \in Nat /\ Cardinality(Newer(s)') \in Nat
    BY <2>3, <2>4, FS_Subset, FS_CardinalityType
  <2>6. Cardinality(Newer(s)') <= MaxRecent
    BY DEF Covered
  <2> QED BY <2>5, <2>6
<1> QED BY <1>1, <1>2, <1>3, <1>4 DEF Covered

\* A record stays right while its transcript grows.
LEMMA RecordStays ==
  ASSUME TypeOK, TimesOK, TypeOK', [Next]_vars, NEW r, RecordOK(r)
  PROVE  RecordOK(r)'
<1> DEFINE s == r.session
<1>1. s \in Sessions /\ r.lines \subseteq Nat
  BY ScanAssumption DEF RecordOK, Found, Lines
<1>2. /\ lines[s] <= lines'[s] /\ (born[s] # None => born'[s] = born[s])
      /\ \A i \in Readable(s)' : i < lines[s] => i \in Readable(s)
  BY <1>1, WorldStep
<1>3. lines[s] \in Nat /\ lines'[s] \in Nat /\ Readable(s)' \subseteq Nat
  <2>1. lines[s] \in Nat /\ lines'[s] \in Nat
    BY <1>1, ScanAssumption DEF TypeOK, Lines
  <2>2. SaturatingSub(lines'[s] + IF partial'[s] THEN 1 ELSE 0, MaxRead) \in Nat
    BY <2>1, ScanAssumption DEF SaturatingSub
  <2> QED BY <2>1, <2>2 DEF Readable
<1>4. \A j \in r.lines : j < lines'[s]
  BY <1>1, <1>2, <1>3 DEF RecordOK
<1>5. \A j \in r.lines, i \in Readable(s)' : i <= j => i \in r.lines
  <2> SUFFICES ASSUME NEW j \in r.lines, NEW i \in Readable(s)', i <= j PROVE i \in r.lines
    OBVIOUS
  <2>1. j < lines[s]
    BY DEF RecordOK
  <2>2. i < lines[s]
    BY <1>1, <1>3, <2>1
  <2> QED BY <1>2, <2>2 DEF RecordOK
<1> QED BY <1>2, <1>4, <1>5 DEF RecordOK

\* A step takes nothing from the log of a session it leaves kept.
LEMMA LogGrows ==
  ASSUME IInv, TypeOK', [Next]_vars, NEW s \in Sessions, Kept(s)', born[s] # None
  PROVE  DOMAIN log[s] \subseteq DOMAIN log'[s]
<1> USE ScanAssumption
<1>0. TypeOK /\ TimesOK /\ LogOK
  BY DEF IInv
<1>1. Kept(s)
  BY <1>0, KeptBack
<1>2. ASSUME NEW t \in Sessions, NEW start \in BOOLEAN, Hook(t, start)
      PROVE  DOMAIN log[s] \subseteq DOMAIN log'[s]
  BY <1>0, <1>2 DEF Hook, Append, TypeOK
<1>3. ASSUME NEW p \in Scanners, Batch(p) PROVE DOMAIN log[s] \subseteq DOMAIN log'[s]
  <2>1. CASE BatchFails(p)
    BY <1>3, <2>1 DEF Batch
  <2>2. CASE ~BatchFails(p)
    <3>1. log' = [log EXCEPT ![cur[p].session] = Append(@, Unseen(p), "line")]
      BY <1>3, <2>2 DEF Batch
    <3>2. log'[s] = log[s] \/ log'[s] = Append(log[s], Unseen(p), "line")
      BY <1>0, <3>1 DEF TypeOK
    <3> QED BY <3>2 DEF Append
  <2> QED BY <2>1, <2>2
<1>4. ASSUME NEW p \in Scanners, Prune(p) PROVE DOMAIN log[s] \subseteq DOMAIN log'[s]
  <2>1. CASE ~PruneDue
    BY <1>4, <2>1 DEF Prune
  <2>2. CASE PruneDue
    <3>1. row[s] = None \/ row[s] = born[s]
      BY <1>0, <1>1 DEF LogOK, Kept
    <3>2. born[s] \in Nat /\ clock \in Nat /\ SaturatingSub(clock, HotTime) \in Nat
      BY <1>0, <1>1 DEF TypeOK, Time, Kept, SaturatingSub
    <3>3. s \notin Old
      BY <1>1, <2>2, <3>1, <3>2 DEF Old, Kept, PruneDue
    <3> QED BY <1>4, <2>2, <3>3 DEF Prune
  <2> QED BY <2>1, <2>2
<1>5. CASE UNCHANGED log
  BY <1>5
<1>6. ASSUME NEW p \in Scanners, ScanStep(p), ~Batch(p), ~Prune(p) PROVE UNCHANGED log
  BY <1>6 DEF ScanStep, List, Read, Upsert, ReadLast, Mark, db
<1>7. ASSUME NEW p \in Scanners, (\E all \in BOOLEAN : Begin(p, all)) \/ Abort(p) PROVE UNCHANGED log
  BY <1>7 DEF Begin, Abort, db
<1>8. ASSUME NEW t \in Sessions, NEW whole \in BOOLEAN, WriteLine(t, whole) PROVE UNCHANGED log
  BY <1>8 DEF WriteLine, db
<1>9. CASE Tick \/ UNCHANGED vars
  BY <1>9 DEF Tick, vars, db
<1> QED BY <1>2, <1>3, <1>4, <1>5, <1>6, <1>7, <1>8, <1>9 DEF Next

-----------------------------------------------------------------------------
(* The parts of the invariant, one after the other. *)

LEMMA TimesStep == IInv /\ TypeOK' /\ [Next]_vars => TimesOK'
<1> SUFFICES ASSUME IInv, TypeOK', [Next]_vars PROVE TimesOK'
  OBVIOUS
<1> USE ScanAssumption
<1>0. TypeOK /\ TimesOK
  BY DEF IInv
<1>1. /\ clock \in Nat /\ clock' \in Nat
      /\ \A s \in Sessions : mtime[s] \in Nat /\ mtime'[s] \in Nat
      /\ \A p \in Scanners : now[p] \in Nat /\ since[p] \in Nat /\ now'[p] \in Nat /\ since'[p] \in Nat
      /\ lastScan \in Nat \cup {None}
  BY <1>0 DEF TypeOK, Time
<1>2. \A s \in Sessions : mtime'[s] <= clock'
  <2> TAKE s \in Sessions
  <2>1. clock <= clock' /\ (mtime'[s] = mtime[s] \/ (mtime'[s] = clock /\ clock' = clock))
    BY <1>0, WorldStep DEF SameTranscript
  <2> QED BY <1>0, <1>1, <2>1 DEF TimesOK
<1>3. /\ \A p \in Scanners : now'[p] <= clock' /\ since'[p] <= clock'
      /\ lastScan' = None \/ lastScan' <= clock'
  <2>1. CASE UNCHANGED <<now, since, lastScan>> /\ clock' \in {clock, clock + 1}
    BY <1>0, <1>1, <2>1 DEF TimesOK
  <2>2. ASSUME NEW p \in Scanners, NEW all \in BOOLEAN, Begin(p, all)
        PROVE  /\ \A q \in Scanners : now'[q] <= clock' /\ since'[q] <= clock'
               /\ lastScan' = None \/ lastScan' <= clock'
    <3>1. Since(all) <= clock
      BY <1>0, SinceType
    <3>2. /\ now' = [now EXCEPT ![p] = clock] /\ since' = [since EXCEPT ![p] = Since(all)]
          /\ clock' = clock /\ lastScan' = lastScan
      BY <2>2 DEF Begin, world, db
    <3> QED BY <1>0, <1>1, <3>1, <3>2 DEF TimesOK, TypeOK
  <2>3. ASSUME NEW p \in Scanners, NEW chosen \in SUBSET Sessions, List(p, chosen)
        PROVE  /\ \A q \in Scanners : now'[q] <= clock' /\ since'[q] <= clock'
               /\ lastScan' = None \/ lastScan' <= clock'
    <3>1. since' = [since EXCEPT ![p] = 0] /\ UNCHANGED <<now, clock, lastScan>>
      BY <2>3 DEF List, world, db
    <3> QED BY <1>0, <1>1, <3>1 DEF TimesOK, TypeOK
  <2>4. ASSUME NEW p \in Scanners, Forget(p), clock' = clock, lastScan' \in {lastScan, now[p]}
        PROVE  /\ \A q \in Scanners : now'[q] <= clock' /\ since'[q] <= clock'
               /\ lastScan' = None \/ lastScan' <= clock'
    <3>1. since' = [since EXCEPT ![p] = 0] /\ now' = [now EXCEPT ![p] = 0]
      BY <2>4 DEF Forget
    <3> QED BY <1>0, <1>1, <2>4, <3>1 DEF TimesOK, TypeOK
  <2>5. ASSUME NEW p \in Scanners, Mark(p) \/ Abort(p) \/ (Batch(p) /\ BatchFails(p))
        PROVE  Forget(p) /\ clock' = clock /\ lastScan' \in {lastScan, now[p]}
    BY <2>5 DEF Mark, Abort, Batch, world, db
  <2>6. ASSUME NEW p \in Scanners,
               (\E s \in Sessions : Read(p, s)) \/ (\E r \in found[p] : Upsert(p, r)) \/ ReadLast(p)
                 \/ Prune(p) \/ (Batch(p) /\ ~BatchFails(p))
        PROVE  UNCHANGED <<now, since, lastScan, clock>>
    BY <2>6 DEF Read, Upsert, ReadLast, Prune, Batch, world, db
  <2>7. ASSUME NEW s \in Sessions, NEW b \in BOOLEAN, WriteLine(s, b) \/ Hook(s, b)
        PROVE  UNCHANGED <<now, since, lastScan, clock>>
    BY <2>7 DEF WriteLine, Hook, world, db, local
  <2>8. CASE Tick \/ UNCHANGED vars
    BY <2>1, <2>8 DEF Tick, vars, world, db, local
  <2> QED BY <2>1, <2>2, <2>3, <2>4, <2>5, <2>6, <2>7, <2>8 DEF Next, ScanStep
<1> QED BY <1>2, <1>3 DEF TimesOK

\* What one scanner has on its hands, unchanged by a step that is not its own.
LocalSame(p) ==
  /\ pc'[p] = pc[p] /\ now'[p] = now[p] /\ since'[p] = since[p] /\ todo'[p] = todo[p]
  /\ found'[p] = found[p] /\ cur'[p] = cur[p] /\ lastSeq'[p] = lastSeq[p]

\* A step is one of the agents, or of one scanner.
LEMMA WhoSteps ==
  ASSUME TypeOK, [Next]_vars
  PROVE  \/ \A p \in Scanners : LocalSame(p)
         \/ \E p \in Scanners :
              /\ ScanStep(p) \/ (\E all \in BOOLEAN : Begin(p, all)) \/ Abort(p)
              /\ \A q \in Scanners \ {p} : LocalSame(q)
<1>1. CASE UNCHANGED local
  BY <1>1 DEF local, LocalSame
<1>2. ASSUME NEW p \in Scanners, ScanStep(p) \/ (\E all \in BOOLEAN : Begin(p, all)) \/ Abort(p)
      PROVE  \A q \in Scanners \ {p} : LocalSame(q)
  <2>1. ASSUME Forget(p) PROVE \A q \in Scanners \ {p} : LocalSame(q)
    BY <2>1 DEF Forget, Goto, TypeOK, LocalSame
  <2>2. CASE (\E all \in BOOLEAN : Begin(p, all)) \/ (\E chosen \in SUBSET Sessions : List(p, chosen))
             \/ (\E s \in Sessions : Read(p, s))
    BY <2>2 DEF Begin, List, Read, Goto, TypeOK, LocalSame
  <2>3. CASE (\E r \in found[p] : Upsert(p, r)) \/ ReadLast(p) \/ Prune(p)
    BY <2>3 DEF Upsert, ReadLast, Prune, Goto, TypeOK, LocalSame
  <2>4. CASE Batch(p)
    <3>1. CASE BatchFails(p)
      BY <2>1, <2>4, <3>1 DEF Batch
    <3>2. CASE ~BatchFails(p)
      BY <2>4, <3>2 DEF Batch, Goto, TypeOK, LocalSame
    <3> QED BY <3>1, <3>2
  <2>5. CASE Mark(p) \/ Abort(p)
    BY <2>1, <2>5 DEF Mark, Abort
  <2> QED BY <1>2, <2>2, <2>3, <2>4, <2>5 DEF ScanStep
<1>3. ASSUME NEW s \in Sessions, NEW b \in BOOLEAN, WriteLine(s, b) \/ Hook(s, b) PROVE UNCHANGED local
  BY <1>3 DEF WriteLine, Hook
<1>4. CASE Tick \/ UNCHANGED vars
  BY <1>1, <1>4 DEF Tick, vars
<1> QED BY <1>1, <1>2, <1>3, <1>4 DEF Next

LEMMA RecordsStep == IInv /\ TypeOK' /\ [Next]_vars => RecordsOK'
<1> SUFFICES ASSUME IInv, TypeOK', [Next]_vars PROVE RecordsOK'
  OBVIOUS
<1>0. TypeOK /\ TimesOK /\ RecordsOK
  BY DEF IInv
<1>1. \A r : RecordOK(r) => RecordOK(r)'
  BY <1>0, RecordStays
<1>2. \A s \in Sessions : born[s] # None => born'[s] # None
  BY <1>0, WorldStep
<1> DEFINE Fine(p) == /\ \A s \in todo'[p] : born'[s] # None
                      /\ pc'[p] \in {"store", "last", "batch", "mark"} => todo'[p] = {}
                      /\ pc'[p] = "mark" => found'[p] = {}
                      /\ \A r \in found'[p] : RecordOK(r)'
                      /\ pc'[p] \in {"last", "batch"} => RecordOK(cur[p])'
<1>3. ASSUME NEW p \in Scanners, LocalSame(p) PROVE Fine(p)
  <2>1. todo[p] \subseteq Sessions
    BY <1>0 DEF TypeOK
  <2>2. ASSUME pc[p] \in {"last", "batch"} PROVE RecordOK(cur[p])'
    <3>1. PICK r : r = cur[p]
      OBVIOUS
    <3>2. RecordOK(r)
      BY <1>0, <2>2, <3>1 DEF RecordsOK
    <3>3. RecordOK(r)' /\ r = cur'[p]
      BY <1>1, <1>3, <3>1, <3>2 DEF LocalSame
    <3> QED BY <3>3 DEF RecordOK
  <2> QED BY <1>0, <1>1, <1>2, <1>3, <2>1, <2>2 DEF RecordsOK, LocalSame
<1>4. ASSUME NEW p \in Scanners, ScanStep(p) \/ (\E all \in BOOLEAN : Begin(p, all)) \/ Abort(p) PROVE Fine(p)
  <2>1. CASE \E all \in BOOLEAN : Begin(p, all)
    <3>1. pc'[p] = "list" /\ todo' = todo /\ found' = found
      BY <1>0, <2>1 DEF Begin, Goto, TypeOK
    <3> QED BY <1>0, <1>1, <1>2, <3>1 DEF RecordsOK, TypeOK
  <2>2. ASSUME NEW chosen \in SUBSET Sessions, List(p, chosen) PROVE Fine(p)
    <3>1. /\ todo'[p] = chosen /\ pc'[p] = (IF chosen = {} THEN "store" ELSE "read") /\ found' = found
          /\ \A s \in chosen : born[s] # None
      BY <1>0, <2>2 DEF List, Goto, TypeOK, IsNewest
    <3> QED BY <1>0, <1>1, <1>2, <3>1 DEF RecordsOK
  <2>3. ASSUME NEW s \in Sessions, Read(p, s) PROVE Fine(p)
    <3> DEFINE r == [session |-> s, lines |-> Readable(s), started |-> born[s]]
    <3>1. /\ todo'[p] = todo[p] \ {s} /\ found'[p] = found[p] \cup {r}
          /\ pc'[p] = (IF todo[p] = {s} THEN "store" ELSE "read") /\ s \in todo[p]
      BY <1>0, <2>3 DEF Read, Goto, TypeOK
    <3>2. RecordOK(r)
      <4>1. Readable(s) \subseteq Lines /\ \A i \in Readable(s) : i < lines[s]
        BY <1>0, ReadableIs
      <4>2. born[s] # None /\ born[s] \in Time
        BY <1>0, <3>1 DEF RecordsOK, TypeOK
      <4> QED BY <4>1, <4>2 DEF RecordOK, Found
    <3> HIDE DEF r
    <3>3. todo[p] \subseteq Sessions
      BY <1>0 DEF TypeOK
    <3> QED BY <1>0, <1>1, <1>2, <3>1, <3>2, <3>3 DEF RecordsOK
  <2>4. ASSUME NEW r \in found[p], Upsert(p, r) PROVE Fine(p)
    <3>1. /\ found'[p] = found[p] \ {r} /\ cur'[p] = r /\ pc'[p] = "last"
          /\ todo' = todo /\ pc[p] = "store"
      BY <1>0, <2>4 DEF Upsert, Goto, TypeOK
    <3>2. RecordOK(r)'
      BY <1>0, <1>1 DEF RecordsOK
    <3>3. RecordOK(cur[p])'
      BY <3>1, <3>2 DEF RecordOK
    <3> QED BY <1>0, <1>1, <3>1, <3>3 DEF RecordsOK
  <2>5. CASE ReadLast(p)
    <3>1. /\ UNCHANGED <<world, todo, found, cur>> /\ pc'[p] = "batch" /\ pc[p] = "last"
      BY <1>0, <2>5 DEF ReadLast, Goto, TypeOK
    <3>2. RecordOK(cur[p])
      BY <1>0, <3>1 DEF RecordsOK
    <3>3. RecordOK(cur[p])'
      BY <3>1, <3>2 DEF RecordOK, world, Readable
    <3> QED BY <1>0, <1>1, <3>1, <3>3 DEF RecordsOK
  <2>6. CASE Batch(p) /\ ~BatchFails(p)
    <3>1. UNCHANGED <<todo, found>> /\ pc'[p] = "store" /\ pc[p] = "batch"
      BY <1>0, <2>6 DEF Batch, Goto, TypeOK
    <3> QED BY <1>0, <1>1, <3>1 DEF RecordsOK
  <2>7. CASE Prune(p)
    <3>1. UNCHANGED <<todo, found>> /\ pc'[p] = "mark" /\ pc[p] = "store" /\ found[p] = {}
      BY <1>0, <2>7 DEF Prune, Goto, TypeOK
    <3> QED BY <1>0, <1>1, <3>1 DEF RecordsOK
  <2>8. CASE Mark(p) \/ Abort(p) \/ (Batch(p) /\ BatchFails(p))
    <3>1. Forget(p)
      BY <2>8 DEF Mark, Abort, Batch
    <3>2. todo'[p] = {} /\ found'[p] = {} /\ pc'[p] = "idle"
      BY <1>0, <3>1 DEF Forget, Goto, TypeOK
    <3> QED BY <3>2
  <2> QED BY <1>4, <2>1, <2>2, <2>3, <2>4, <2>5, <2>6, <2>7, <2>8 DEF ScanStep
<1>5. \A p \in Scanners : Fine(p)
  BY <1>0, <1>3, <1>4, WhoSteps
<1> QED BY <1>5 DEF RecordsOK

\* Where the events of a step come from.
Stores(p, s) == pc[p] = "batch" /\ cur[p].session = s /\ UNCHANGED <<world, hooks, row>>

LEMMA LogSource ==
  ASSUME IInv, TypeOK', [Next]_vars, NEW s \in Sessions
  PROVE  \/ DOMAIN log'[s] = DOMAIN log[s] \/ DOMAIN log'[s] = {}
         \/ DOMAIN log'[s] = DOMAIN log[s] \cup {NextSeq(s)} /\ hooks'[s] = hooks[s] + 1
         \/ \E p \in Scanners : Stores(p, s) /\ DOMAIN log'[s] = DOMAIN log[s] \cup Unseen(p)
<1>0. TypeOK /\ RecordsOK
  BY DEF IInv
<1>1. CASE log' = log
  BY <1>1
<1>2. ASSUME NEW t \in Sessions, NEW start \in BOOLEAN, Hook(t, start), log'[s] # log[s]
      PROVE  DOMAIN log'[s] = DOMAIN log[s] \cup {NextSeq(s)} /\ hooks'[s] = hooks[s] + 1
  <2>1. t = s
    BY <1>0, <1>2 DEF Hook, TypeOK
  <2>2. log'[s] = Append(log[s], {NextSeq(s)}, "hook") /\ hooks'[s] = hooks[s] + 1
    BY <1>0, <1>2, <2>1 DEF Hook, TypeOK
  <2> QED BY <2>2 DEF Append
<1>3. ASSUME NEW p \in Scanners, Batch(p), log'[s] # log[s]
      PROVE  Stores(p, s) /\ DOMAIN log'[s] = DOMAIN log[s] \cup Unseen(p)
  <2>1. ~BatchFails(p) /\ pc[p] = "batch" /\ UNCHANGED <<world, hooks, row>>
    BY <1>3 DEF Batch
  <2>2. log' = [log EXCEPT ![cur[p].session] = Append(@, Unseen(p), "line")]
    BY <1>3, <2>1 DEF Batch
  <2>3. cur[p].session = s
    BY <1>0, <1>3, <2>2 DEF TypeOK
  <2>4. log'[s] = Append(log[s], Unseen(p), "line")
    BY <1>0, <2>2, <2>3 DEF TypeOK
  <2> QED BY <2>1, <2>3, <2>4 DEF Append, Stores
<1>4. ASSUME NEW p \in Scanners, Prune(p), log'[s] # log[s] PROVE DOMAIN log'[s] = {}
  BY <1>4 DEF Prune, Empty
<1>6. ASSUME NEW p \in Scanners, ScanStep(p), ~Batch(p), ~Prune(p) PROVE UNCHANGED log
  BY <1>6 DEF ScanStep, List, Read, Upsert, ReadLast, Mark, db
<1>7. ASSUME NEW p \in Scanners, (\E all \in BOOLEAN : Begin(p, all)) \/ Abort(p) PROVE UNCHANGED log
  BY <1>7 DEF Begin, Abort, db
<1>8. ASSUME NEW t \in Sessions, NEW whole \in BOOLEAN, WriteLine(t, whole) PROVE UNCHANGED log
  BY <1>8 DEF WriteLine, db
<1>9. CASE Tick \/ UNCHANGED vars
  BY <1>1, <1>9 DEF Tick, vars, db
<1> QED BY <1>1, <1>2, <1>3, <1>4, <1>6, <1>7, <1>8, <1>9 DEF Next

LEMMA LogStep == IInv /\ TypeOK' /\ [Next]_vars => LogOK'
<1> SUFFICES ASSUME IInv, TypeOK', [Next]_vars, NEW s \in Sessions
             PROVE  /\ born'[s] = None => lines'[s] = 0
                    /\ \A q \in DOMAIN log'[s] : q < MaxLines + hooks'[s]
                    /\ hooks'[s] = 0 => /\ row'[s] \in {None, born'[s]}
                                        /\ \A q \in DOMAIN log'[s] : q < lines'[s]
                    /\ Kept(s)' => \A q \in DOMAIN log'[s], i \in Readable(s)' :
                                     i <= q => i \in DOMAIN log'[s]
  BY DEF LogOK
<1> USE ScanAssumption
<1>0. TypeOK /\ TimesOK /\ RecordsOK /\ LogOK /\ LastSeqOK
  BY DEF IInv
<1>1. /\ hooks[s] \in Nat /\ hooks'[s] \in Nat /\ lines[s] \in Nat /\ lines'[s] \in Nat
      /\ DOMAIN log[s] \subseteq Nat /\ DOMAIN log'[s] \subseteq Nat /\ lines[s] <= MaxLines
      /\ lines[s] <= lines'[s] /\ (hooks'[s] = 0 => hooks[s] = 0)
      /\ \A q \in DOMAIN log[s] : q < MaxLines + hooks[s]
      /\ hooks[s] = 0 => \A q \in DOMAIN log[s] : q < lines[s]
  BY <1>0, WorldStep DEF TypeOK, Lines, LogOK
<1>2. hooks[s] <= hooks'[s]
  <2>1. ASSUME NEW t \in Sessions, NEW start \in BOOLEAN, Hook(t, start) PROVE hooks[s] <= hooks'[s]
    <3>1. hooks'[s] = hooks[s] \/ hooks'[s] = hooks[s] + 1
      BY <1>0, <2>1 DEF Hook, TypeOK
    <3> QED BY <1>1, <3>1
  <2>2. ASSUME NEW p \in Scanners, ScanStep(p) \/ (\E all \in BOOLEAN : Begin(p, all)) \/ Abort(p)
        PROVE  UNCHANGED hooks
    BY <2>2 DEF ScanStep, Begin, List, Read, Upsert, ReadLast, Batch, Prune, Mark, Abort
  <2>3. ASSUME NEW t \in Sessions, NEW whole \in BOOLEAN, WriteLine(t, whole) PROVE UNCHANGED hooks
    BY <2>3 DEF WriteLine
  <2>4. CASE Tick \/ UNCHANGED vars
    BY <1>1, <2>4 DEF Tick, vars
  <2> QED BY <1>1, <2>1, <2>2, <2>3, <2>4 DEF Next
<1>3. \A q \in DOMAIN log'[s] : q \in DOMAIN log[s] => q < MaxLines + hooks'[s]
  BY <1>1, <1>2
<1>4. ASSUME NEW p \in Scanners, Stores(p, s)
      PROVE  /\ RecordOK(cur[p]) /\ Unseen(p) \subseteq cur[p].lines /\ cur[p].lines \subseteq Nat
             /\ UNCHANGED <<world, hooks, row>>
             /\ \A q \in Unseen(p) : q < lines[s]
  <2>1. RecordOK(cur[p])
    BY <1>0, <1>4 DEF RecordsOK, Stores
  <2> QED BY <1>4, <2>1 DEF RecordOK, Stores, Unseen, Found, Lines
<1>5. \A q \in DOMAIN log'[s] : q < MaxLines + hooks'[s]
  <2>1. CASE DOMAIN log'[s] = DOMAIN log[s] \/ DOMAIN log'[s] = {}
    BY <1>3, <2>1
  <2>2. CASE DOMAIN log'[s] = DOMAIN log[s] \cup {NextSeq(s)} /\ hooks'[s] = hooks[s] + 1
    <3>1. NextSeq(s) <= MaxLines + hooks[s] /\ NextSeq(s) \in Nat
      BY <1>0, LastSeqIs
    <3>2. NextSeq(s) < MaxLines + hooks'[s]
      BY <1>1, <2>2, <3>1
    <3> QED BY <1>3, <2>2, <3>2
  <2>3. ASSUME NEW p \in Scanners, Stores(p, s), DOMAIN log'[s] = DOMAIN log[s] \cup Unseen(p)
        PROVE  \A q \in DOMAIN log'[s] : q < MaxLines + hooks'[s]
    <3>1. \A q \in Unseen(p) : q \in Nat /\ q < lines[s]
      BY <1>4, <2>3
    <3> QED BY <1>1, <1>3, <2>3, <3>1
  <2> QED BY <2>1, <2>2, <2>3, LogSource
<1>6. ASSUME hooks'[s] = 0 PROVE \A q \in DOMAIN log'[s] : q < lines'[s]
  <2>1. \A q \in DOMAIN log[s] : q < lines'[s]
    BY <1>1, <1>6
  <2>2. ~(hooks'[s] = hooks[s] + 1)
    BY <1>1, <1>6
  <2>3. ASSUME NEW p \in Scanners, Stores(p, s), DOMAIN log'[s] = DOMAIN log[s] \cup Unseen(p)
        PROVE  \A q \in DOMAIN log'[s] : q < lines'[s]
    <3>1. \A q \in Unseen(p) : q \in Nat /\ q < lines[s]
      BY <1>4, <2>3
    <3> QED BY <1>1, <2>1, <2>3, <3>1
  <2> QED BY <2>1, <2>2, <2>3, LogSource
<1>7. ASSUME hooks'[s] = 0 PROVE row'[s] \in {None, born'[s]}
  <2>1. row[s] \in {None, born[s]} /\ (born[s] # None => born'[s] = born[s])
    BY <1>0, <1>1, <1>7, WorldStep DEF LogOK
  <2>2. row'[s] \in {None, row[s]} => row'[s] \in {None, born'[s]}
    BY <2>1
  <2>3. ASSUME NEW p \in Scanners, NEW r \in found[p], Upsert(p, r) PROVE row'[s] \in {None, born'[s]}
    <3>1. row' = [row EXCEPT ![r.session] = r.started] /\ born' = born
      BY <2>3 DEF Upsert, world
    <3>2. r.started = born[r.session]
      BY <1>0 DEF RecordsOK, RecordOK
    <3> QED BY <1>0, <2>1, <3>1, <3>2 DEF TypeOK
  <2>4. ASSUME NEW p \in Scanners, Prune(p) PROVE row'[s] \in {None, row[s]}
    BY <2>4 DEF Prune
  <2>5. ASSUME NEW p \in Scanners, ScanStep(p), ~Prune(p), ~\E r \in found[p] : Upsert(p, r)
        PROVE  UNCHANGED row
    BY <2>5 DEF ScanStep, List, Read, ReadLast, Batch, Mark, db
  <2>6. ASSUME NEW p \in Scanners, (\E all \in BOOLEAN : Begin(p, all)) \/ Abort(p) PROVE UNCHANGED row
    BY <2>6 DEF Begin, Abort, db
  <2>7. ASSUME NEW t \in Sessions, NEW b \in BOOLEAN, Hook(t, b) PROVE row'[s] = row[s]
    <3>1. CASE t = s
      <4>1. hooks'[s] = hooks[s] + 1
        BY <1>0, <2>7, <3>1 DEF Hook, TypeOK
      <4> QED BY <1>1, <1>7, <4>1
    <3>2. CASE t # s
      BY <1>0, <2>7, <3>2 DEF Hook, TypeOK
    <3> QED BY <3>1, <3>2
  <2>8. ASSUME NEW t \in Sessions, NEW whole \in BOOLEAN, WriteLine(t, whole) PROVE UNCHANGED row
    BY <2>8 DEF WriteLine, db
  <2>9. CASE Tick \/ UNCHANGED vars
    BY <2>2, <2>9 DEF Tick, vars, db
  <2> QED BY <2>2, <2>3, <2>4, <2>5, <2>6, <2>7, <2>8, <2>9 DEF Next
<1>8. ASSUME Kept(s)', NEW q \in DOMAIN log'[s], NEW i \in Readable(s)', i <= q
      PROVE  i \in DOMAIN log'[s]
  <2>0. hooks[s] = 0 /\ hooks'[s] = 0
    BY <1>0, <1>8, KeptBack DEF Kept
  <2>1. CASE born[s] = None
    <3>1. lines[s] = 0 /\ DOMAIN log[s] = {}
      BY <1>0, <1>1, <2>0, <2>1 DEF LogOK
    <3>2. \A p \in Scanners : ~Stores(p, s)
      BY <1>4, <2>1 DEF RecordOK, Stores
    <3>3. DOMAIN log'[s] = {}
      BY <1>1, <2>0, <3>1, <3>2, LogSource
    <3> QED BY <1>8, <3>3
  <2>2. CASE born[s] # None
    <3>1. Kept(s)
      BY <1>0, <1>8, <2>2, KeptBack
    <3>2. \A x \in DOMAIN log[s], k \in Readable(s) : k <= x => k \in DOMAIN log[s]
      BY <1>0, <3>1 DEF LogOK
    <3>3. i \in Nat
      <4>1. SaturatingSub(lines'[s] + IF partial'[s] THEN 1 ELSE 0, MaxRead) \in Nat
        BY <1>1 DEF SaturatingSub
      <4> QED BY <1>1, <1>8, <4>1 DEF Readable
    <3>4. ASSUME q < lines[s] PROVE i \in Readable(s)
      BY <1>0, <1>1, <1>8, <3>3, <3>4, WorldStep
    <3>5. DOMAIN log[s] \subseteq DOMAIN log'[s]
      BY <1>0, <1>8, <2>2, LogGrows
    <3>6. CASE q \in DOMAIN log[s]
      BY <1>1, <1>8, <2>0, <3>2, <3>4, <3>5, <3>6
    <3>7. ASSUME NEW p \in Scanners, Stores(p, s), DOMAIN log'[s] = DOMAIN log[s] \cup Unseen(p),
                 q \in Unseen(p)
          PROVE  i \in DOMAIN log'[s]
      <4>1. RecordOK(cur[p]) /\ q \in cur[p].lines /\ q < lines[s] /\ cur[p].session = s /\ pc[p] = "batch"
        BY <1>4, <3>7 DEF Stores
      <4>2. i \in Readable(s)
        BY <3>4, <4>1
      <4>3. i \in cur[p].lines
        BY <1>8, <4>1, <4>2 DEF RecordOK
      <4>4. CASE i \in Unseen(p)
        BY <3>7, <4>4
      <4>5. CASE i \notin Unseen(p)
        <5>1. lastSeq[p] # None /\ ~(i > lastSeq[p]) /\ lastSeq[p] \in Nat
          BY <1>0, <4>3, <4>5 DEF Unseen, TypeOK
        <5>2. i \in DOMAIN log[s]
          BY <1>0, <3>1, <3>3, <4>1, <4>2, <5>1 DEF LastSeqOK
        <5> QED BY <3>5, <5>2
      <4> QED BY <4>4, <4>5
    <3>8. \/ q \in DOMAIN log[s]
          \/ \E p \in Scanners : /\ Stores(p, s) /\ DOMAIN log'[s] = DOMAIN log[s] \cup Unseen(p)
                                 /\ q \in Unseen(p)
      BY <1>1, <1>8, <2>0, LogSource
    <3> QED BY <3>6, <3>7, <3>8
  <2> QED BY <2>1, <2>2
<1>9. born'[s] = None => lines'[s] = 0
  <2>1. ASSUME NEW t \in Sessions, NEW whole \in BOOLEAN, WriteLine(t, whole)
        PROVE  born'[s] = None => UNCHANGED <<born[s], lines[s]>>
    <3>1. clock # None
      BY <1>0 DEF TypeOK, Time
    <3> QED BY <1>0, <2>1, <3>1 DEF WriteLine, TypeOK
  <2>2. ASSUME NEW p \in Scanners, ScanStep(p) \/ (\E all \in BOOLEAN : Begin(p, all)) \/ Abort(p)
        PROVE  UNCHANGED world
    BY <2>2 DEF ScanStep, Begin, List, Read, Upsert, ReadLast, Batch, Prune, Mark, Abort
  <2>3. ASSUME NEW t \in Sessions, NEW b \in BOOLEAN, Hook(t, b) PROVE UNCHANGED world
    BY <2>3 DEF Hook
  <2>4. CASE Tick \/ UNCHANGED vars
    BY <1>0, <2>4 DEF Tick, vars, world, LogOK
  <2> QED BY <1>0, <2>1, <2>2, <2>3, <2>4 DEF Next, world, LogOK
<1> QED BY <1>5, <1>6, <1>7, <1>8, <1>9

LEMMA LastSeqStep == IInv /\ TypeOK' /\ RecordsOK' /\ [Next]_vars => LastSeqOK'
<1> SUFFICES ASSUME IInv, TypeOK', RecordsOK', [Next]_vars, NEW p \in Scanners,
                    pc'[p] = "batch", lastSeq'[p] # None, Kept(cur[p].session)'
             PROVE  /\ lastSeq'[p] < lines'[cur'[p].session]
                    /\ \A i \in Readable(cur[p].session)' :
                          i <= lastSeq'[p] => i \in DOMAIN log'[cur'[p].session]
  BY DEF LastSeqOK
<1> USE ScanAssumption
<1>0. TypeOK /\ TimesOK /\ RecordsOK /\ LogOK /\ LastSeqOK
  BY DEF IInv
<1>1. CASE LocalSame(p)
  <2>1. pc[p] = "batch" /\ cur'[p] = cur[p] /\ lastSeq'[p] = lastSeq[p] /\ lastSeq[p] \in Nat
    BY <1>0, <1>1 DEF LocalSame, TypeOK
  <2>2. PICK s \in Sessions : s = cur[p].session /\ born[s] # None
    BY <1>0, <2>1 DEF RecordsOK, RecordOK, Found
  <2>3. Kept(s)' /\ Readable(cur[p].session)' = Readable(s)'
    BY <2>1, <2>2 DEF Kept, Readable
  <2>4. Kept(s)
    BY <1>0, <2>2, <2>3, KeptBack
  <2>5. lastSeq[p] < lines[s] /\ \A i \in Readable(s) : i <= lastSeq[p] => i \in DOMAIN log[s]
    BY <1>0, <2>1, <2>2, <2>4 DEF LastSeqOK
  <2>6. /\ lines[s] \in Nat /\ lines'[s] \in Nat /\ lines[s] <= lines'[s]
        /\ \A i \in Readable(s)' : i < lines[s] => i \in Readable(s)
    BY <1>0, WorldStep DEF TypeOK, Lines
  <2>7. DOMAIN log[s] \subseteq DOMAIN log'[s]
    BY <1>0, <2>2, <2>3, LogGrows
  <2>8. \A i \in Readable(s)' : i \in Nat
    <3>1. SaturatingSub(lines'[s] + IF partial'[s] THEN 1 ELSE 0, MaxRead) \in Nat
      BY <2>6 DEF SaturatingSub
    <3> QED BY <2>6, <3>1 DEF Readable
  <2>9. \A i \in Readable(s)' : i <= lastSeq[p] => i \in DOMAIN log'[s]
    BY <2>1, <2>5, <2>6, <2>7, <2>8
  <2> QED BY <2>1, <2>2, <2>3, <2>5, <2>6, <2>9
<1>2. CASE ReadLast(p)
  <2> DEFINE s == cur[p].session
  <2>1. /\ pc[p] = "last" /\ lastSeq'[p] = LastSeq(s) /\ UNCHANGED <<world, hooks, log, cur>>
    BY <1>0, <1>2 DEF ReadLast, TypeOK, db
  <2>2. s \in Sessions
    BY <1>0, <2>1 DEF RecordsOK, RecordOK, Found
  <2>3. Kept(s) /\ Readable(cur[p].session)' = Readable(s)
    BY <2>1 DEF Kept, world, Readable
  <2>4. LastSeq(s) \in DOMAIN log[s]
    BY <1>0, <2>1, <2>2, LastSeqIs
  <2>5. LastSeq(s) < lines[s] /\ \A i \in Readable(s) : i <= LastSeq(s) => i \in DOMAIN log[s]
    BY <1>0, <2>2, <2>3, <2>4 DEF LogOK, Kept
  <2> QED BY <2>1, <2>3, <2>5 DEF world
<1>3. CASE (ScanStep(p) /\ ~ReadLast(p)) \/ (\E all \in BOOLEAN : Begin(p, all)) \/ Abort(p)
  <2>1. pc'[p] # "batch"
    BY <1>0, <1>3 DEF ScanStep, Begin, List, Read, Upsert, Batch, Prune, Mark, Abort, Forget, Goto, TypeOK
  <2> QED BY <2>1
<1> QED BY <1>0, <1>1, <1>2, <1>3, WhoSteps

\* The newest transcripts have every covered one that changed since p's window.
LEMMA ListFinds ==
  ASSUME TypeOK, NEW p \in Scanners, NEW chosen \in SUBSET Sessions,
         NEW s \in Sessions, Covered(s), mtime[s] >= since[p],
         IsNewest(chosen, {t \in Sessions : born[t] # None /\ mtime[t] >= since[p]})
  PROVE  s \in chosen
<1> USE ScanAssumption
<1> DEFINE S == {t \in Sessions : born[t] # None /\ mtime[t] >= since[p]}
<1>1. IsFiniteSet(S) /\ Cardinality(S) \in Nat /\ s \in S /\ S \subseteq Sessions
  <2>1. S \subseteq Sessions /\ s \in S
    BY DEF Covered, Kept
  <2> QED BY <2>1, FS_Subset, FS_CardinalityType
<1>2. /\ chosen \subseteq S
      /\ Cardinality(chosen) = IF Cardinality(S) < MaxRecent THEN Cardinality(S) ELSE MaxRecent
      /\ \A t \in chosen, u \in S \ chosen : mtime[u] <= mtime[t]
  BY DEF IsNewest
<1> HIDE DEF S
<1>3. SUFFICES ASSUME s \notin chosen PROVE FALSE
  OBVIOUS
<1>4. IsFiniteSet(chosen) /\ Cardinality(chosen) \in Nat
  BY <1>1, <1>2, FS_Subset, FS_CardinalityType
<1>5. Cardinality(chosen) = MaxRecent
  <2>1. Cardinality(chosen) # Cardinality(S)
    BY <1>1, <1>2, <1>3, FS_Subset
  <2> QED BY <1>2, <2>1
<1>6. chosen \cup {s} \subseteq Newer(s)
  <2>1. \A t \in Sessions : mtime[t] \in Nat
    BY DEF TypeOK, Time
  <2>2. \A t \in chosen : t \in Sessions /\ born[t] # None /\ mtime[t] >= mtime[s]
    BY <1>1, <1>2, <1>3, <2>1 DEF S
  <2> QED BY <2>1, <2>2 DEF Newer, Covered, Kept
<1>7. Cardinality(chosen \cup {s}) = MaxRecent + 1
  BY <1>3, <1>4, <1>5, FS_AddElement
<1>8. IsFiniteSet(Newer(s)) /\ Cardinality(Newer(s)) \in Nat
  <2>1. Newer(s) \subseteq Sessions
    BY DEF Newer
  <2> QED BY <2>1, FS_Subset, FS_CardinalityType
<1>9. MaxRecent + 1 <= Cardinality(Newer(s))
  BY <1>6, <1>7, <1>8, FS_Subset
<1> QED BY <1>8, <1>9 DEF Covered

LEMMA HandsStep == IInv /\ TypeOK' /\ TimesOK' /\ [Next]_vars => HandsOK'
<1> DEFINE Clauses(p, s) ==
      /\ pc[p] = "list" /\ mtime[s] < since[p] => Stored(s)
      /\ pc[p] \in {"read", "store", "last", "batch"} /\ mtime[s] < now[p] => InHands(p, s) \/ Stored(s)
      /\ pc[p] = "mark" /\ mtime[s] < now[p] => Stored(s)
<1> SUFFICES ASSUME IInv, TypeOK', TimesOK', [Next]_vars,
                    NEW p \in Scanners, NEW s \in Sessions, Covered(s)'
             PROVE  Clauses(p, s)'
  BY DEF HandsOK
<1> USE ScanAssumption
<1>0. TypeOK /\ TimesOK /\ RecordsOK /\ LogOK /\ LastSeqOK /\ HandsOK /\ NoRecentLineSkipped
  BY DEF IInv
<1>1. CASE ~SameTranscript(s)
  <2>1. mtime'[s] = clock' /\ now'[p] <= clock' /\ since'[p] <= clock'
    BY <1>0, <1>1, WorldStep DEF TimesOK
  <2>2. mtime'[s] \in Nat /\ now'[p] \in Nat /\ since'[p] \in Nat
    BY DEF TypeOK, Time
  <2> QED BY <2>1, <2>2
<1>2. CASE SameTranscript(s)
  <2>1. Covered(s) /\ Readable(s)' = Readable(s) /\ Kept(s) /\ Kept(s)'
    BY <1>0, <1>2, CoveredBack DEF Covered
  <2>2. DOMAIN log[s] \subseteq DOMAIN log'[s]
    BY <1>0, <2>1, LogGrows DEF Kept
  <2>3. Stored(s) => Stored(s)'
    BY <2>1, <2>2 DEF Stored
  <2>4. mtime'[s] = mtime[s] /\ Clauses(p, s)
    BY <1>0, <1>2, <2>1 DEF HandsOK, SameTranscript
  <2>5. mtime[s] \in Nat /\ since[p] \in Nat /\ now[p] \in Nat /\ clock \in Nat /\ now[p] <= clock
    BY <1>0 DEF TypeOK, Time, TimesOK
  <2>6. CASE LocalSame(p)
    <3>1. InHands(p, s) => InHands(p, s)'
      BY <2>1, <2>6 DEF InHands, LocalSame
    <3> QED BY <2>3, <2>4, <2>6, <3>1 DEF LocalSame
  <2>7. ASSUME NEW all \in BOOLEAN, Begin(p, all) PROVE Clauses(p, s)'
    <3>1. pc'[p] = "list" /\ since'[p] = Since(all)
      BY <1>0, <2>7 DEF Begin, Goto, TypeOK
    <3>2. mtime[s] < Since(all) => Stored(s)
      <4>1. CASE all
        BY <2>5, <4>1 DEF Since
      <4>2. CASE ~all /\ lastScan = None
        BY <2>1, <2>5, <4>2 DEF Since, Covered, SaturatingSub
      <4>3. CASE ~all /\ lastScan # None
        <5>1. SaturatingSub(lastScan, Overlap) \in Nat /\ Since(all) = SaturatingSub(lastScan, Overlap)
          BY <1>0, <4>3 DEF Since, SaturatingSub, TypeOK, Time
        <5>2. mtime[s] >= SaturatingSub(lastScan, Overlap) \/ Stored(s)
          BY <1>0, <2>1, <4>3 DEF NoRecentLineSkipped, Stored
        <5> QED BY <2>5, <5>1, <5>2
      <4> QED BY <4>1, <4>2, <4>3
    <3> QED BY <2>3, <2>4, <3>1, <3>2
  <2>8. ASSUME NEW chosen \in SUBSET Sessions, List(p, chosen) PROVE Clauses(p, s)'
    <3>1. /\ todo'[p] = chosen /\ pc'[p] \in {"store", "read"} /\ pc[p] = "list"
          /\ IsNewest(chosen, {t \in Sessions : born[t] # None /\ mtime[t] >= since[p]})
      BY <1>0, <2>8 DEF List, Goto, TypeOK
    <3>2. s \in chosen \/ Stored(s)
      BY <1>0, <2>1, <2>4, <2>5, <3>1, ListFinds
    <3>3. s \in chosen => InHands(p, s)'
      BY <3>1 DEF InHands
    <3> QED BY <2>3, <3>1, <3>2, <3>3
  <2>9. ASSUME NEW t \in Sessions, Read(p, t) PROVE Clauses(p, s)'
    <3> DEFINE r == [session |-> t, lines |-> Readable(t), started |-> born[t]]
    <3>1. /\ pc[p] = "read" /\ pc'[p] \in {"store", "read"} /\ now' = now
          /\ todo'[p] = todo[p] \ {t} /\ found'[p] = found[p] \cup {r}
      BY <1>0, <2>9 DEF Read, Goto, TypeOK
    <3>2. r.session = t /\ r.lines = Readable(t)
      OBVIOUS
    <3> HIDE DEF r
    <3>3. InHands(p, s) => InHands(p, s)'
      <4>1. CASE s \in todo[p] /\ s # t
        BY <3>1, <4>1 DEF InHands
      <4>2. CASE s = t
        <5>1. r \in found'[p] /\ r.session = s /\ Readable(s)' \subseteq r.lines
          BY <2>1, <3>1, <3>2, <4>2
        <5> QED BY <5>1 DEF InHands
      <4>3. ASSUME NEW x \in found[p], x.session = s, Readable(s) \subseteq x.lines PROVE InHands(p, s)'
        BY <2>1, <3>1, <4>3 DEF InHands
      <4> QED BY <3>1, <4>1, <4>2, <4>3 DEF InHands
    <3> QED BY <2>3, <2>4, <3>1, <3>3
  <2>10. ASSUME NEW r \in found[p], Upsert(p, r) PROVE Clauses(p, s)'
    <3>1. /\ pc[p] = "store" /\ pc'[p] = "last" /\ now' = now /\ todo' = todo
          /\ found'[p] = found[p] \ {r} /\ cur'[p] = r
      BY <1>0, <2>10 DEF Upsert, Goto, TypeOK
    <3>2. InHands(p, s) => InHands(p, s)'
      <4>1. ASSUME NEW x \in found[p], x.session = s, Readable(s) \subseteq x.lines PROVE InHands(p, s)'
        BY <2>1, <3>1, <4>1 DEF InHands
      <4> QED BY <3>1, <4>1 DEF InHands
    <3> QED BY <2>3, <2>4, <3>1, <3>2
  <2>11. CASE ReadLast(p)
    <3>1. pc[p] = "last" /\ pc'[p] = "batch" /\ UNCHANGED <<now, todo, found, cur>>
      BY <1>0, <2>11 DEF ReadLast, Goto, TypeOK
    <3>2. InHands(p, s) => InHands(p, s)'
      BY <2>1, <3>1 DEF InHands
    <3> QED BY <2>3, <2>4, <3>1, <3>2
  <2>12. CASE Batch(p) /\ ~BatchFails(p)
    <3>1. /\ pc[p] = "batch" /\ pc'[p] = "store" /\ UNCHANGED <<now, todo, found>>
          /\ log' = [log EXCEPT ![cur[p].session] = Append(@, Unseen(p), "line")]
      BY <1>0, <2>12 DEF Batch, Goto, TypeOK
    <3>2. ASSUME cur[p].session = s, Readable(s) \subseteq cur[p].lines PROVE Stored(s)'
      <4>1. DOMAIN log'[s] = DOMAIN log[s] \cup Unseen(p)
        BY <1>0, <3>1, <3>2 DEF TypeOK, Append
      <4>2. \A i \in Readable(s) : i \in Unseen(p) \/ i \in DOMAIN log[s]
        <5> TAKE i \in Readable(s)
        <5>1. CASE lastSeq[p] = None
          BY <3>2, <5>1 DEF Unseen
        <5>2. CASE lastSeq[p] # None
          <6>1. lastSeq[p] \in Nat /\ i \in Nat
            BY <1>0, <5>2, ReadableIs DEF TypeOK, Lines
          <6>2. i <= lastSeq[p] => i \in DOMAIN log[s]
            BY <1>0, <2>1, <3>1, <3>2, <5>2 DEF LastSeqOK
          <6> QED BY <3>2, <6>1, <6>2 DEF Unseen
        <5> QED BY <5>1, <5>2
      <4> QED BY <2>1, <4>1, <4>2 DEF Stored
    <3>3. InHands(p, s) => InHands(p, s)' \/ Stored(s)'
      BY <2>1, <3>1, <3>2 DEF InHands
    <3> QED BY <2>3, <2>4, <3>1, <3>3
  <2>13. CASE Prune(p)
    <3>1. pc[p] = "store" /\ pc'[p] = "mark" /\ found[p] = {} /\ now' = now
      BY <1>0, <2>13 DEF Prune, Goto, TypeOK
    <3>2. ~InHands(p, s)
      BY <1>0, <3>1 DEF InHands, RecordsOK
    <3> QED BY <2>3, <2>4, <3>1, <3>2
  <2>14. CASE Mark(p) \/ Abort(p) \/ (Batch(p) /\ BatchFails(p))
    <3>1. Forget(p)
      BY <2>14 DEF Mark, Abort, Batch
    <3>2. pc'[p] = "idle"
      BY <1>0, <3>1 DEF Forget, Goto, TypeOK
    <3> QED BY <3>2
  <2>15. \/ LocalSame(p)
         \/ ScanStep(p) \/ (\E all \in BOOLEAN : Begin(p, all)) \/ Abort(p)
    BY <1>0, WhoSteps
  <2> HIDE DEF Clauses
  <2> QED BY <2>6, <2>7, <2>8, <2>9, <2>10, <2>11, <2>12, <2>13, <2>14, <2>15 DEF ScanStep
<1> QED BY <1>1, <1>2

LEMMA NoSkipStep == IInv /\ TypeOK' /\ TimesOK' /\ [Next]_vars => NoRecentLineSkipped'
<1> SUFFICES ASSUME IInv, TypeOK', TimesOK', [Next]_vars
             PROVE  NoRecentLineSkipped'
  OBVIOUS
<1> SUFFICES ASSUME NEW s \in Sessions, Covered(s)',
                    lastScan' # None, mtime'[s] < SaturatingSub(lastScan', Overlap)
             PROVE  Stored(s)'
  <2>1. ASSUME lastScan' # None PROVE SaturatingSub(lastScan', Overlap) \in Nat
    BY <2>1, ScanAssumption DEF TypeOK, Time, SaturatingSub
  <2>2. \A t \in Sessions : mtime'[t] \in Nat
    BY ScanAssumption DEF TypeOK, Time
  <2>3. ASSUME NEW t \in Sessions, lastScan' # None, ~(mtime'[t] >= SaturatingSub(lastScan', Overlap))
        PROVE  mtime'[t] < SaturatingSub(lastScan', Overlap)
    BY <2>1, <2>2, <2>3
  <2> QED BY <2>3 DEF NoRecentLineSkipped, Stored
<1> USE ScanAssumption
<1>0. TypeOK /\ TimesOK /\ LogOK /\ HandsOK /\ NoRecentLineSkipped
  BY DEF IInv
<1>1. lastScan' \in Nat /\ lastScan' <= clock' /\ mtime'[s] \in Nat /\ clock' \in Nat
  BY DEF TypeOK, Time, TimesOK
<1>2. SameTranscript(s)
  BY <1>0, <1>1, WorldStep DEF SaturatingSub
<1>3. Covered(s) /\ Readable(s)' = Readable(s) /\ Kept(s)' /\ born[s] # None
  BY <1>0, <1>2, CoveredBack DEF Covered, Kept
<1>4. Stored(s) => Stored(s)'
  BY <1>0, <1>3, LogGrows DEF Stored
<1>5. CASE lastScan' = lastScan
  BY <1>0, <1>1, <1>2, <1>3, <1>4, <1>5 DEF NoRecentLineSkipped, SameTranscript, Stored, SaturatingSub
<1>6. ASSUME NEW p \in Scanners, Mark(p), lastScan' # lastScan PROVE Stored(s)'
  <2>1. pc[p] = "mark" /\ lastScan' = now[p]
    BY <1>6 DEF Mark
  <2>2. mtime[s] < now[p]
    BY <1>1, <1>2, <2>1 DEF SameTranscript, SaturatingSub
  <2> QED BY <1>0, <1>3, <1>4, <2>1, <2>2 DEF HandsOK
<1>7. ASSUME NEW p \in Scanners,
             (ScanStep(p) /\ ~Mark(p)) \/ (\E all \in BOOLEAN : Begin(p, all)) \/ Abort(p)
      PROVE  UNCHANGED lastScan
  BY <1>7 DEF ScanStep, Begin, List, Read, Upsert, ReadLast, Batch, Prune, Abort, db
<1>8. ASSUME NEW t \in Sessions, NEW b \in BOOLEAN, WriteLine(t, b) \/ Hook(t, b) PROVE UNCHANGED lastScan
  BY <1>8 DEF WriteLine, Hook, db
<1>9. CASE Tick \/ UNCHANGED vars
  BY <1>5, <1>9 DEF Tick, vars, db
<1> QED BY <1>5, <1>6, <1>7, <1>8, <1>9 DEF Next

-----------------------------------------------------------------------------
(* The theorems. *)

\* The inductive invariant of scans: where the lines of a transcript are, and
\* that neither the log nor what a scanner holds has a hole below them.
THEOREM ScanInvariant == Spec => []IInv
<1>1. Init => IInv
  BY InitInv
<1>2. IInv /\ [Next]_vars => IInv'
  BY TypeStep, TimesStep, RecordsStep, LogStep, LastSeqStep, HandsStep, NoSkipStep DEF IInv
<1> QED BY <1>1, <1>2, PTL DEF Spec

\* Tables, transcripts and scanners keep their types; no time, no line number
\* and no window wraps below 0.
THEOREM TypeCorrect == Spec => []TypeOK
<1>1. IInv => TypeOK
  BY DEF IInv
<1> QED BY <1>1, ScanInvariant, PTL

\* No line of a covered transcript leaves the window before it is stored,
\* for any number of scanners and transcripts and any budgets and windows.
THEOREM NothingSkipped == Spec => []NoRecentLineSkipped
<1>1. IInv => NoRecentLineSkipped
  BY DEF IInv
<1> QED BY <1>1, ScanInvariant, PTL

-----------------------------------------------------------------------------

\* A stored event is not written again.
Keeps(s) == \A q \in DOMAIN log[s] : q \in DOMAIN log'[s] /\ log'[s][q] = log[s][q]

\* Appending leaves what is there.
LEMMA AppendKeeps ==
  ASSUME TypeOK, NEW t \in Sessions, NEW S, NEW o, log' = [log EXCEPT ![t] = Append(log[t], S, o)],
         NEW s \in Sessions
  PROVE  Keeps(s)
<1>1. log'[s] = IF s = t THEN Append(log[t], S, o) ELSE log[s]
  BY DEF TypeOK
<1>2. /\ DOMAIN log[t] \subseteq DOMAIN Append(log[t], S, o)
      /\ \A q \in DOMAIN log[t] : Append(log[t], S, o)[q] = log[t][q]
  BY DEF Append
<1> QED
  BY <1>1, <1>2 DEF Keeps

\* No step takes an event away or rewrites one, but a prune of an old session.
LEMMA KeepsStep ==
  ASSUME IInv, [Next]_vars, NEW s \in Sessions
  PROVE  Keeps(s) \/ (s \in Old /\ log'[s] = Empty)
<1>1. TypeOK /\ RecordsOK
  BY DEF IInv
<1>2. CASE UNCHANGED log
  BY <1>2 DEF Keeps
<1>3. ASSUME NEW t \in Sessions, NEW start \in BOOLEAN, Hook(t, start) PROVE Keeps(s)
  BY <1>1, <1>3, AppendKeeps DEF Hook
<1>4. ASSUME NEW p \in Scanners, Batch(p) PROVE Keeps(s)
  <2>1. CASE BatchFails(p)
    BY <1>4, <2>1 DEF Batch, Keeps
  <2>2. CASE ~BatchFails(p)
    <3>1. cur[p].session \in Sessions
      BY <1>1, <1>4 DEF Batch, RecordsOK, RecordOK, Found
    <3>2. log' = [log EXCEPT ![cur[p].session] = Append(log[cur[p].session], Unseen(p), "line")]
      BY <1>4, <2>2 DEF Batch
    <3> QED
      BY <1>1, <3>1, <3>2, AppendKeeps
  <2> QED
    BY <2>1, <2>2
<1>5. ASSUME NEW p \in Scanners, Prune(p) PROVE Keeps(s) \/ (s \in Old /\ log'[s] = Empty)
  BY <1>2, <1>5 DEF Prune, Keeps
<1>6. ASSUME NEW p \in Scanners, ScanStep(p) PROVE Keeps(s) \/ (s \in Old /\ log'[s] = Empty)
  <2>1. ASSUME NEW chosen \in SUBSET Sessions, List(p, chosen) PROVE UNCHANGED log
    BY <2>1 DEF List, db
  <2>2. ASSUME NEW t \in Sessions, Read(p, t) PROVE UNCHANGED log
    BY <2>2 DEF Read, db
  <2>3. ASSUME NEW r \in found[p], Upsert(p, r) PROVE UNCHANGED log
    BY <2>3 DEF Upsert
  <2>4. ReadLast(p) => UNCHANGED log
    BY DEF ReadLast, db
  <2>5. Mark(p) => UNCHANGED log
    BY DEF Mark
  <2> QED
    BY <1>2, <1>4, <1>5, <1>6, <2>1, <2>2, <2>3, <2>4, <2>5 DEF ScanStep
<1>7. ASSUME NEW p \in Scanners, NEW all \in BOOLEAN, Begin(p, all) PROVE UNCHANGED log
  BY <1>7 DEF Begin, db
<1>8. ASSUME NEW p \in Scanners, Abort(p) PROVE UNCHANGED log
  BY <1>8 DEF Abort, db
<1>9. Tick => UNCHANGED log
  BY DEF Tick, db
<1>10. ASSUME NEW t \in Sessions, NEW whole \in BOOLEAN, WriteLine(t, whole) PROVE UNCHANGED log
  BY <1>10 DEF WriteLine, db
<1>11. UNCHANGED vars => UNCHANGED log
  BY DEF vars, db
<1> QED
  BY <1>2, <1>3, <1>6, <1>7, <1>8, <1>9, <1>10, <1>11 DEF Next

\* The log is append-only, whatever scanners race with hooks and with each other
\* and whatever old tails they read: an insert that finds the seq taken changes
\* nothing, and only a prune deletes, only in sessions past their time
\* (event_batch.rs, prune_sessions_started_before).
THEOREM LogIsAppendOnly == Spec => AppendOnly
<1>1. IInv /\ [Next]_vars =>
        [\A s \in Sessions :
           \/ \A q \in DOMAIN log[s] : q \in DOMAIN log'[s] /\ log'[s][q] = log[s][q]
           \/ s \in Old /\ log'[s] = Empty]_vars
  BY KeepsStep DEF Keeps
<1> QED
  BY <1>1, ScanInvariant, PTL DEF Spec, AppendOnly
=============================================================================
