--------------------------- MODULE TranscriptScan ---------------------------
(***************************************************************************)
(* Transcript scanning (shell/cli.rs, collect/tail, daemon/scanner_task.rs *)
(* and store/sqlite/event_batch.rs).  Agents append lines to transcripts;  *)
(* scanners (the daemon's loop, `--refresh` of other commands, `kaizen     *)
(* load`) read the recently changed ones and store the lines they have not *)
(* seen.  The seq of a line's event is its line number.  Hooks append to   *)
(* the same sessions at the next free seq, and a prune removes sessions    *)
(* that are too old.                                                       *)
(*                                                                         *)
(* Budgets of bytes are budgets of lines here and every line carries an    *)
(* event.  A hook is one step and a batch writes nothing but events: their *)
(* statements, and the projector, are EventStore's part.  Sources differ   *)
(* in the order of their transcripts, which is left open.                  *)
(***************************************************************************)
EXTENDS Integers, FiniteSets, FiniteSetsExt

CONSTANTS None,
          Scanners,       \* processes, or the daemon's task, that scan
          Sessions,       \* sessions, each with one transcript
          MaxRead,        \* MAX_TRANSCRIPT_READ_BYTES, in lines
          MaxRecent,      \* MAX_RECENT_TRANSCRIPTS
          Lookback,       \* INITIAL_SCAN_LOOKBACK_MS
          Overlap,        \* SCAN_OVERLAP_MS
          HotTime,        \* retention.hot_days
          PruneInterval,  \* AUTO_PRUNE_INTERVAL_MS
          Synced,         \* is sync configured, with a team salt?
          MaxLines,       \* bound: lines of a transcript
          MaxHooks,       \* bound: events hooks append to a session
          MaxAborts,      \* bound: scans that end in the middle
          MaxClock        \* bound: time

ASSUME ScanAssumption ==
  /\ IsFiniteSet(Sessions)
  /\ None \notin Nat
  /\ MaxRead \in Nat \ {0} /\ MaxRecent \in Nat
  /\ Lookback \in Nat /\ Overlap \in Nat /\ HotTime \in Nat /\ PruneInterval \in Nat
  /\ Synced \in BOOLEAN
  /\ MaxLines \in Nat /\ MaxHooks \in Nat /\ MaxAborts \in Nat /\ MaxClock \in Nat

VARIABLES
  clock,
  lines,      \* lines[s]: complete lines of the transcript
  partial,    \* partial[s]: does it end in a line half written?
  mtime,      \* mtime[s]: when it changed last
  born,       \* born[s]: when its first line was written, or None
  hooks,      \* hooks[s]: events its hooks appended
  log,        \* log[s]: the stored events, from seq to where they come from
  row,        \* row[s]: started_at_ms of the sessions row, or None
  lastScan,   \* sync_state: last_agent_scan_ms
  lastPrune,  \* sync_state: last_auto_prune_ms
  pc,
  now,        \* now[p]: when the scan began
  full,       \* full[p]: is it that of `kaizen load`?
  since,      \* since[p]: the oldest change it looks for
  todo,       \* todo[p]: transcripts listed and not yet read
  found,      \* found[p]: transcripts read and not yet stored
  cur,        \* cur[p]: the transcript it stores
  lastSeq,    \* lastSeq[p]: last seq of that session, as read
  aborts

world == <<clock, lines, partial, mtime, born>>
db    == <<log, row, lastScan, lastPrune>>
local == <<pc, now, full, since, todo, found, cur, lastSeq>>
vars  == <<world, hooks, db, local, aborts>>

\* mutant: a subtraction that goes below 0
SaturatingSub_Wraps(a, b) == a - b

SaturatingSub(a, b) == IF a < b THEN 0 ELSE a - b

LastSeq(s) == IF DOMAIN log[s] = {} THEN None ELSE Max(DOMAIN log[s])

NextSeq(s) == IF DOMAIN log[s] = {} THEN 0 ELSE LastSeq(s) + 1

Empty == [q \in {} |-> "line"]

\* mutant: a later event takes the place of the stored one
Append_Overwrites(events, seqs, origin) ==
  [q \in DOMAIN events \cup seqs |-> IF q \in seqs THEN origin ELSE events[q]]

\* INSERT ... ON CONFLICT DO NOTHING of events that all come from one origin
Append(events, seqs, origin) ==
  [q \in DOMAIN events \cup seqs |-> IF q \in DOMAIN events THEN events[q] ELSE origin]

-----------------------------------------------------------------------------
Init ==
  /\ clock     = 0
  /\ lines     = [s \in Sessions |-> 0]
  /\ partial   = [s \in Sessions |-> FALSE]
  /\ mtime     = [s \in Sessions |-> 0]
  /\ born      = [s \in Sessions |-> None]
  /\ hooks     = [s \in Sessions |-> 0]
  /\ log       = [s \in Sessions |-> Empty]
  /\ row       = [s \in Sessions |-> None]
  /\ lastScan  = None
  /\ lastPrune = None
  /\ pc        = [p \in Scanners |-> "idle"]
  /\ now       = [p \in Scanners |-> 0]
  /\ full      = [p \in Scanners |-> FALSE]
  /\ since     = [p \in Scanners |-> 0]
  /\ todo      = [p \in Scanners |-> {}]
  /\ found     = [p \in Scanners |-> {}]
  /\ cur       = [p \in Scanners |-> None]
  /\ lastSeq   = [p \in Scanners |-> None]
  /\ aborts    = 0

-----------------------------------------------------------------------------
(* The agents and their hooks. *)

Tick ==
  /\ clock < MaxClock
  /\ clock' = clock + 1
  /\ UNCHANGED <<lines, partial, mtime, born, hooks, db, local, aborts>>

\* An agent writes a line, at once or in two parts.
WriteLine(s, whole) ==
  /\ lines[s] < MaxLines
  /\ whole \/ ~partial[s]
  /\ lines'   = IF whole THEN [lines EXCEPT ![s] = @ + 1] ELSE lines
  /\ partial' = [partial EXCEPT ![s] = ~whole]
  /\ mtime'   = [mtime EXCEPT ![s] = clock]
  /\ born'    = [born EXCEPT ![s] = IF @ = None THEN clock ELSE @]
  /\ UNCHANGED <<clock, hooks, db, local, aborts>>

\* A hook of the session: a SessionStart writes a row, others only if there
\* is none.
Hook(s, start) ==
  /\ hooks[s] < MaxHooks
  /\ hooks' = [hooks EXCEPT ![s] = @ + 1]
  /\ row'   = [row EXCEPT ![s] = IF start \/ @ = None THEN clock ELSE @]
  /\ log'   = [log EXCEPT ![s] = Append(@, {NextSeq(s)}, "hook")]
  /\ UNCHANGED <<world, lastScan, lastPrune, local, aborts>>

-----------------------------------------------------------------------------
(* A scan. *)

Goto(p, label) == pc' = [pc EXCEPT ![p] = label]

\* The locals of a scan that ended, cleared to keep the states few
Forget(p) ==
  /\ Goto(p, "idle")
  /\ now'     = [now EXCEPT ![p] = 0]
  /\ full'    = [full EXCEPT ![p] = FALSE]
  /\ since'   = [since EXCEPT ![p] = 0]
  /\ todo'    = [todo EXCEPT ![p] = {}]
  /\ found'   = [found EXCEPT ![p] = {}]
  /\ cur'     = [cur EXCEPT ![p] = None]
  /\ lastSeq' = [lastSeq EXCEPT ![p] = None]

\* scan_since_ms, and no window at all for `kaizen load`
Since(all) ==
  IF all THEN 0
  ELSE IF lastScan = None THEN SaturatingSub(clock, Lookback)
  ELSE SaturatingSub(lastScan, Overlap)

\* maybe_scan_all_agents, of which all callers here ask for a refresh, or load_one
Begin(p, all) ==
  /\ pc[p] = "idle"
  /\ now'   = [now EXCEPT ![p] = clock]
  /\ full'  = [full EXCEPT ![p] = all]
  /\ since' = [since EXCEPT ![p] = Since(all)]
  /\ Goto(p, "list")
  /\ UNCHANGED <<world, hooks, db, todo, found, cur, lastSeq, aborts>>

\* mutant: sorted the wrong way round
IsNewest_OldestFirst(chosen, S) ==
  /\ chosen \subseteq S
  /\ Cardinality(chosen) = IF Cardinality(S) < MaxRecent THEN Cardinality(S) ELSE MaxRecent
  /\ \A s \in chosen, t \in S \ chosen : mtime[s] <= mtime[t]

\* the MaxRecent newest among the transcripts in S, ties broken any way
IsNewest(chosen, S) ==
  /\ chosen \subseteq S
  /\ Cardinality(chosen) = IF Cardinality(S) < MaxRecent THEN Cardinality(S) ELSE MaxRecent
  /\ \A s \in chosen, t \in S \ chosen : mtime[t] <= mtime[s]

\* newest_by_path_since (and the window is not needed any more)
List(p, chosen) ==
  /\ pc[p] = "list"
  /\ IsNewest(chosen, {s \in Sessions : born[s] # None /\ mtime[s] >= since[p]})
  /\ todo'  = [todo EXCEPT ![p] = chosen]
  /\ since' = [since EXCEPT ![p] = 0]
  /\ Goto(p, IF chosen = {} THEN "store" ELSE "read")
  /\ UNCHANGED <<world, hooks, db, now, full, found, cur, lastSeq, aborts>>

\* read_recent_jsonl: the complete lines, numbered from 0, in the tail of the
\* file that is read; a line half written does not parse.
Readable(s) ==
  LET total == lines[s] + IF partial[s] THEN 1 ELSE 0
  IN  SaturatingSub(total, MaxRead) .. lines[s] - 1

\* scan_claude_session_file and its like
Read(p, s) ==
  /\ pc[p] = "read"
  /\ s \in todo[p]
  /\ todo'  = [todo EXCEPT ![p] = @ \ {s}]
  /\ found' = [found EXCEPT ![p] =
                 @ \cup {[session |-> s, lines |-> Readable(s), started |-> born[s]]}]
  /\ Goto(p, IF todo[p] = {s} THEN "store" ELSE "read")
  /\ UNCHANGED <<world, hooks, db, now, full, since, cur, lastSeq, aborts>>

\* persist_session_batch_mode, one session after the other: write its row,
\* whatever hooks made of it, ...
Upsert(p, r) ==
  /\ pc[p] = "store"
  /\ r \in found[p]
  /\ row'   = [row EXCEPT ![r.session] = r.started]
  /\ found' = [found EXCEPT ![p] = @ \ {r}]
  /\ cur'   = [cur EXCEPT ![p] = r]
  /\ Goto(p, "last")
  /\ UNCHANGED <<world, hooks, log, lastScan, lastPrune, now, full, since, todo, lastSeq, aborts>>

\* ... read how far the log is, ...
ReadLast(p) ==
  /\ pc[p] = "last"
  /\ lastSeq' = [lastSeq EXCEPT ![p] = LastSeq(cur[p].session)]
  /\ Goto(p, "batch")
  /\ UNCHANGED <<world, hooks, db, now, full, since, todo, found, cur, aborts>>

\* mutant: no event yet is taken for an event at seq 0
Unseen_FromOne(p) == {i \in cur[p].lines : i > IF lastSeq[p] = None THEN 0 ELSE lastSeq[p]}

Unseen(p) == {i \in cur[p].lines : lastSeq[p] = None \/ i > lastSeq[p]}

\* append_event_inner enqueues, after each insert, the spans of the session if
\* it has a row: replace_outbox_rows begins a transaction, which fails inside
\* that of a batch.
BatchFails(p) ==
  /\ Synced
  /\ row[cur[p].session] # None
  /\ ~(Unseen(p) \subseteq DOMAIN log[cur[p].session])

\* ... and insert the lines above, in one transaction.  A batch that fails takes
\* the scan with it.
Batch(p) ==
  /\ pc[p] = "batch"
  /\ IF BatchFails(p)
       THEN /\ Forget(p)
            /\ UNCHANGED log
       ELSE /\ log' = [log EXCEPT ![cur[p].session] = Append(@, Unseen(p), "line")]
            /\ cur' = [cur EXCEPT ![p] = None]
            /\ lastSeq' = [lastSeq EXCEPT ![p] = None]
            /\ Goto(p, "store")
            /\ UNCHANGED <<now, full, since, todo, found>>
  /\ UNCHANGED <<world, hooks, row, lastScan, lastPrune, aborts>>

\* maybe_auto_prune_after_scan, of which the daemon's second call right after
\* the scan finds nothing due
PruneDue == HotTime # 0 /\ (lastPrune = None \/ SaturatingSub(clock, lastPrune) >= PruneInterval)

\* prune_sessions_started_before
Old == {s \in Sessions : row[s] # None /\ row[s] < SaturatingSub(clock, HotTime)}

Prune(p) ==
  /\ pc[p] = "store"
  /\ found[p] = {}
  /\ IF PruneDue
       THEN /\ log' = [s \in Sessions |-> IF s \in Old THEN Empty ELSE log[s]]
            /\ row' = [s \in Sessions |-> IF s \in Old THEN None ELSE row[s]]
            /\ lastPrune' = clock
       ELSE UNCHANGED <<log, row, lastPrune>>
  /\ Goto(p, "mark")
  /\ UNCHANGED <<world, hooks, lastScan, now, full, since, todo, found, cur, lastSeq, aborts>>

\* mutant: the scan counts as done as of its end
Mark_AsOfNow(p) ==
  /\ pc[p] = "mark"
  /\ lastScan' = IF full[p] THEN lastScan ELSE clock
  /\ Forget(p)
  /\ UNCHANGED <<world, hooks, log, row, lastPrune, aborts>>

\* The scan was done as of its beginning; `kaizen load` does not say so.
Mark(p) ==
  /\ pc[p] = "mark"
  /\ lastScan' = IF full[p] THEN lastScan ELSE now[p]
  /\ Forget(p)
  /\ UNCHANGED <<world, hooks, log, row, lastPrune, aborts>>

\* A file that cannot be read, a database that is busy, or a kill ends a scan.
Abort(p) ==
  /\ pc[p] # "idle"
  /\ aborts < MaxAborts
  /\ aborts' = aborts + 1
  /\ Forget(p)
  /\ UNCHANGED <<world, hooks, db>>

-----------------------------------------------------------------------------
ScanStep(p) ==
  \/ \E chosen \in SUBSET Sessions : List(p, chosen)
  \/ \E s \in Sessions : Read(p, s)
  \/ \E r \in found[p] : Upsert(p, r)
  \/ ReadLast(p)
  \/ Batch(p)
  \/ Prune(p)
  \/ Mark(p)

Next ==
  \/ Tick
  \/ \E s \in Sessions, whole \in BOOLEAN : WriteLine(s, whole)
  \/ \E s \in Sessions, start \in BOOLEAN : Hook(s, start)
  \/ \E p \in Scanners, all \in BOOLEAN : Begin(p, all)
  \/ \E p \in Scanners : ScanStep(p)
  \/ \E p \in Scanners : Abort(p)

Spec == Init /\ [][Next]_vars

\* The daemon scans again and again, whatever came of the last scan, and no
\* step of a scan waits for another process (a busy database ends it).
FairSpec ==
  Spec /\ \A p \in Scanners : WF_vars(Begin(p, FALSE)) /\ WF_vars(ScanStep(p))

-----------------------------------------------------------------------------
Lines == 0 .. MaxLines
Time  == 0 .. MaxClock

Found == [session : Sessions, lines : SUBSET Lines, started : Time]

\* Types: in particular no time and no line number wraps below 0.
TypeOK ==
  /\ clock \in Time
  /\ lines \in [Sessions -> Lines]
  /\ partial \in [Sessions -> BOOLEAN]
  /\ mtime \in [Sessions -> Time]
  /\ born \in [Sessions -> Time \cup {None}]
  /\ hooks \in [Sessions -> 0 .. MaxHooks]
  /\ log = [s \in Sessions |-> log[s]]
  /\ \A s \in Sessions : DOMAIN log[s] \subseteq Nat /\ log[s] \in [DOMAIN log[s] -> {"hook", "line"}]
  /\ row \in [Sessions -> Time \cup {None}]
  /\ lastScan \in Time \cup {None}
  /\ lastPrune \in Time \cup {None}
  /\ pc \in [Scanners -> {"idle", "list", "read", "store", "last", "batch", "mark"}]
  /\ now \in [Scanners -> Time]
  /\ full \in [Scanners -> BOOLEAN]
  /\ since \in [Scanners -> Time]
  /\ todo \in [Scanners -> SUBSET Sessions]
  /\ found \in [Scanners -> SUBSET Found]
  /\ cur \in [Scanners -> Found \cup {None}]
  /\ lastSeq \in [Scanners -> Nat \cup {None}]
  /\ aborts \in 0 .. MaxAborts

\* No hook shares the seqs of s, and it is too young for a prune.
Kept(s) ==
  /\ hooks[s] = 0
  /\ born[s] # None
  /\ HotTime = 0 \/ born[s] >= SaturatingSub(clock, HotTime)

Newer(s) == {t \in Sessions : born[t] # None /\ mtime[t] >= mtime[s]}

\* The transcripts that scans owe to the log: kept, changed within the first
\* window, and among the newest.
Covered(s) ==
  /\ Kept(s)
  /\ mtime[s] >= SaturatingSub(clock, Lookback)
  /\ Cardinality(Newer(s)) <= MaxRecent

\* A scan that ends moves the window on; whatever falls out of it must be in
\* the log, however many scanners race, abort, or read while an agent writes.
\* So every line of a covered transcript is stored or still in the window.
NoRecentLineSkipped ==
  \A s \in Sessions :
    Covered(s) =>
      \/ lastScan = None
      \/ mtime[s] >= SaturatingSub(lastScan, Overlap)
      \/ Readable(s) \subseteq DOMAIN log[s]

\* The log is append-only: a scanner that read an old tail or an old last seq
\* does not rewrite what hooks or other scanners stored; only a prune removes
\* events, and only those of sessions past their time.
AppendOnly ==
  [][\A s \in Sessions :
       \/ \A q \in DOMAIN log[s] : q \in DOMAIN log'[s] /\ log'[s][q] = log[s][q]
       \/ s \in Old /\ log'[s] = Empty]_vars

\* Every line of a covered transcript gets into the log, unless it loses its
\* place: transcripts are step 1 of the ingest.
LinesGetStored ==
  \A s \in Sessions, i \in Lines :
    (Covered(s) /\ i \in Readable(s)) ~>
      (i \in DOMAIN log[s] \/ ~Covered(s) \/ i \notin Readable(s))
=============================================================================
