----------------------------- MODULE EventStore -----------------------------
(***************************************************************************)
(* Several store handles (hook processes, the daemon's cached stores, the  *)
(* proxy) append events to one project database.  Each handle keeps its    *)
(* own incremental projector; the database is shared.  Every SQL statement *)
(* commits by itself, so other handles run, and a process may die, between *)
(* any two statements of an append (store/sqlite/event_write.rs).          *)
(*                                                                         *)
(* A handle ingests one hook at a time: it picks the next seq, writes the  *)
(* session status, and appends one event, or two when a Stop finds that    *)
(* the prompt files changed.                                               *)
(***************************************************************************)
EXTENDS SpanProjector, SequencesExt

CONSTANTS Procs,          \* store handles
          Sessions,       \* session ids
          Inputs,         \* bound: the hooks the agents fire, each once, before they get a seq
          TTL,            \* DEFAULT_ORPHAN_TTL_MS
          HydrateMax,     \* PROJECTOR_HYDRATE_EVENTS
          PromptChanges,  \* may a Stop find changed prompt files?
          MaxCrashes      \* bound: processes killed in the middle of an append

ASSUME StoreAssumption ==
  /\ Sessions # {}
  /\ Inputs \subseteq Event
  /\ TTL \in Nat
  /\ HydrateMax \in Nat \ {0}
  /\ PromptChanges \subseteq BOOLEAN
  /\ MaxCrashes \in Nat

VARIABLES
  events,   \* events[s]: the events table, in the order of seq
  rows,     \* rows[s]: the tool_spans table, a function from span id to row
  touched,  \* touched[s]: the derived rows (files_touched and its siblings)
  status,   \* status[s]: the status column of the sessions row
  prints,   \* sessions whose row has a prompt fingerprint
  mem,      \* mem[p][s]: the projector of handle p
  pc,       \* pc[p]: the statement handle p runs next
  sid,      \* sid[p]: the session it ingests for
  job,      \* job[p]: the events it still has to append, current one first
  base,     \* base[p]: last_before, read before the insert
  todo,     \* todo[p]: events read from the table and not yet applied
  out,      \* out[p]: deltas not yet persisted
  after,    \* after[p]: where it goes on once they are
  fired,    \* hooks fired so far
  crashes,  \* number of crashes so far
  torn      \* sessions with an append that a crash cut short after its insert

db    == <<events, rows, touched, status, prints>>
local == <<mem, pc, sid, job, base, todo, out, after>>
vars  == <<db, local, fired, crashes, torn>>

Statuses == {"absent", "Running", "Waiting", "Done"}

Steps == {"idle", "status", "load", "list", "hydrate", "insert", "write",
          "expire", "flush", "clear", "listall", "replay", "done"}

-----------------------------------------------------------------------------
(* The events table. *)

LastSeq(s) == IF events[s] = <<>> THEN None ELSE Last(events[s]).seq

NextSeq(s) == IF events[s] = <<>> THEN 0 ELSE Last(events[s]).seq + 1

\* the latest n events of a log, oldest first
Latest(log, n) == IF Len(log) <= n THEN log ELSE SubSeq(log, Len(log) - n + 1, Len(log))

\* a log with one more event, in the order of the seqs
Inserted(log, e) ==
  LET k == Max({0} \cup {i \in DOMAIN log : log[i].seq < e.seq})
  IN  SubSeq(log, 1, k) \o <<e>> \o SubSeq(log, k + 1, Len(log))

\* hook_to_status for the hooks that update the status of an existing row
StatusOf ==
  [call |-> "Waiting", result |-> "Running", stop |-> "Done", permission |-> "Waiting",
   prompt |-> "Running"]

PromptChanged(e) ==
  [kind |-> "note", seq |-> e.seq + 1, ts |-> e.ts, tool |-> None, id |-> None,
   cost |-> None, path |-> None]

-----------------------------------------------------------------------------
(* Helpers of the actions. *)

Cur(p) == Head(job[p])
Mine(p) == mem[p][sid[p]]

Goto(p, label) == pc' = [pc EXCEPT ![p] = label]

SetProjector(p, s, pr) == mem' = [mem EXCEPT ![p][s] = pr]

Tagged(s, deltas) == [i \in DOMAIN deltas |-> [session |-> s, delta |-> deltas[i]]]

\* Persist deltas one statement at a time, then go on at label.
Emit(p, deltas, label) ==
  /\ out'   = [out EXCEPT ![p] = Tagged(sid[p], deltas)]
  /\ after' = [after EXCEPT ![p] = label]
  /\ Goto(p, IF deltas = <<>> THEN label ELSE "write")

\* The current append is over: take the next event of the job, if any.  Only
\* the event a Stop appends first is followed by another one.
Finish(p) ==
  /\ job'  = [job EXCEPT ![p] = Tail(@)]
  /\ base' = [base EXCEPT ![p] = None]
  /\ Goto(p, IF Len(job[p]) = 1 THEN "idle" ELSE "status")

\* Upsert of one span row, or INSERT OR IGNORE of one derived row.
Persist(s, delta) ==
  /\ rows' = IF delta.type # "span" THEN rows
             ELSE [rows EXCEPT ![s] = [x \in DOMAIN rows[s] \cup {delta.id} |->
                                         IF x = delta.id THEN delta.row ELSE rows[s][x]]]
  /\ touched' = IF delta.type # "path" THEN touched
                ELSE [touched EXCEPT ![s] = @ \cup {delta.path}]

-----------------------------------------------------------------------------
Init ==
  /\ events  = [s \in Sessions |-> <<>>]
  /\ rows    = [s \in Sessions |-> [x \in {} |-> None]]
  /\ touched = [s \in Sessions |-> {}]
  /\ status  = [s \in Sessions |-> "absent"]
  /\ prints  = {}
  /\ mem     = [p \in Procs |-> [s \in Sessions |-> Empty]]
  /\ pc      = [p \in Procs |-> "idle"]
  /\ sid     = [p \in Procs |-> CHOOSE s \in Sessions : TRUE]
  /\ job     = [p \in Procs |-> <<>>]
  /\ base    = [p \in Procs |-> None]
  /\ todo    = [p \in Procs |-> <<>>]
  /\ out     = [p \in Procs |-> <<>>]
  /\ after   = [p \in Procs |-> "idle"]
  /\ fired   = {}
  /\ crashes = 0
  /\ torn    = {}

\* An agent runs a tool only after the hook before it returned, so the hook
\* after a tool finds the hook before it ingested (or its process dead).
OpenedBy == [result |-> "call", post |-> "pre"]

ToolHookOrder(in) ==
  in.kind \in DOMAIN OpenedBy =>
    LET Opens(e) == e.kind = OpenedBy[in.kind] /\ e.id = in.id
    IN  /\ \A c \in Inputs : Opens(c) => c \in fired
        /\ \A p \in Procs : pc[p] # "idle" => ~Opens(Cur(p))

\* ingest_hook_with_store up to the first append: read the next seq, then
\* upsert the session row (SessionStart) or make sure there is one, and, for a
\* Stop, compare the prompt files with the stored fingerprint.
Begin(p, s, in, changed) ==
  LET e == [in EXCEPT !.seq = NextSeq(s)]
  IN  /\ pc[p] = "idle"
      /\ in \in Inputs \ fired
      /\ ToolHookOrder(in)
      /\ changed => in.kind = "stop" /\ s \in prints
      /\ sid' = [sid EXCEPT ![p] = s]
      /\ job' = [job EXCEPT ![p] = IF changed THEN <<PromptChanged(e), e>> ELSE <<e>>]
      /\ status' = [status EXCEPT ![s] = IF in.kind = "start" \/ @ = "absent"
                                         THEN "Running" ELSE @]
      /\ prints' = IF in.kind = "start" THEN prints \cup {s} ELSE prints
      /\ Goto(p, IF in.kind \in DOMAIN StatusOf /\ ~changed THEN "status" ELSE "load")
      /\ fired' = fired \cup {in}
      /\ UNCHANGED <<events, rows, touched, mem, base, todo, out, after, crashes, torn>>

\* update_session_status
SetStatus(p) ==
  /\ pc[p] = "status"
  /\ status' = [status EXCEPT ![sid[p]] = StatusOf[Cur(p).kind]]
  /\ Goto(p, "load")
  /\ UNCHANGED <<events, rows, touched, prints, mem, sid, job, base, todo, out, after, fired,
                 crashes, torn>>

\* sync_projector_session: is the projector not exactly at the last seq?
Stale_OnlyAtFirst(p) == Mine(p).last = None /\ LastSeq(sid[p]) # None

Stale(p) == Mine(p).last # LastSeq(sid[p])

\* Read last_before; a projector that is not exactly there is reset.
Load(p) ==
  /\ pc[p] = "load"
  /\ base' = [base EXCEPT ![p] = LastSeq(sid[p])]
  /\ IF Stale(p)
     THEN Goto(p, "list") /\ SetProjector(p, sid[p], Empty)
     ELSE Goto(p, "insert") /\ UNCHANGED mem
  /\ UNCHANGED <<db, sid, job, todo, out, after, fired, crashes, torn>>

\* list_latest_events_for_session
ListLatest(p) ==
  /\ pc[p] = "list"
  /\ todo' = [todo EXCEPT ![p] = Latest(events[sid[p]], HydrateMax)]
  /\ Goto(p, IF todo'[p] = <<>> THEN "insert" ELSE "hydrate")
  /\ UNCHANGED <<db, mem, sid, job, base, out, after, fired, crashes, torn>>

\* hydrate_projector_session applies each event and drops its deltas.
Hydrate(p) ==
  /\ pc[p] = "hydrate"
  /\ SetProjector(p, sid[p], Apply(Mine(p), Head(todo[p])).proj)
  /\ todo' = [todo EXCEPT ![p] = Tail(@)]
  /\ Goto(p, IF Len(todo[p]) = 1 THEN "insert" ELSE "hydrate")
  /\ UNCHANGED <<db, sid, job, base, out, after, fired, crashes, torn>>

\* INSERT ... ON CONFLICT DO NOTHING, and, in memory, the projection of the
\* event.  A conflict ends the append silently; an event that is not newer
\* than last_before makes the handle rebuild the session.
Insert(p) ==
  LET s    == sid[p]
      e    == Cur(p)
      late == base[p] # None /\ e.seq <= base[p]
      res  == Apply(Mine(p), e)
  IN  /\ pc[p] = "insert"
      /\ IF \E i \in DOMAIN events[s] : events[s][i].seq = e.seq
         THEN Finish(p) /\ UNCHANGED <<events, mem, out, after>>
         ELSE /\ events' = [events EXCEPT ![s] = Inserted(@, e)]
              /\ base' = [base EXCEPT ![p] = None]
              /\ IF late THEN Goto(p, "clear") /\ UNCHANGED <<mem, out, after>>
                         ELSE SetProjector(p, s, res.proj) /\ Emit(p, res.deltas, "expire")
              /\ UNCHANGED job
      /\ UNCHANGED <<rows, touched, status, prints, sid, todo, fired, crashes, torn>>

\* apply_projector_events: one statement per delta
Write(p) ==
  /\ pc[p] = "write"
  /\ Persist(Head(out[p]).session, Head(out[p]).delta)
  /\ out' = [out EXCEPT ![p] = Tail(@)]
  /\ Goto(p, IF Len(out[p]) = 1 THEN after[p] ELSE "write")
  /\ UNCHANGED <<events, status, prints, mem, sid, job, base, todo, after, fired, crashes, torn>>

ExpireOne_DropsRow(p, s, x) ==
  LET res == Close(mem[p][s], x)
  IN  /\ pc[p] = "expire"
      /\ x \in Expired(mem[p][s], Cur(p).ts, TTL)
      /\ SetProjector(p, s, res.proj)
      /\ UNCHANGED <<db, pc, sid, job, base, todo, out, after, fired, crashes, torn>>

\* flush_expired closes the expired spans of every session, in the order a
\* HashMap yields them.  Only this handle sees its projector, so closing a
\* span and writing its row are one step here.
ExpireOne(p, s, x) ==
  LET res == Close(mem[p][s], x)
  IN  /\ pc[p] = "expire"
      /\ x \in Expired(mem[p][s], Cur(p).ts, TTL)
      /\ SetProjector(p, s, res.proj)
      /\ Persist(s, Head(res.deltas))
      /\ UNCHANGED <<events, status, prints, pc, sid, job, base, todo, out, after, fired,
                     crashes, torn>>

ExpireDone(p) ==
  /\ pc[p] = "expire"
  /\ \A s \in Sessions : Expired(mem[p][s], Cur(p).ts, TTL) = {}
  /\ IF Cur(p).kind = "stop" THEN Goto(p, "flush") /\ UNCHANGED <<job, base>> ELSE Finish(p)
  /\ UNCHANGED <<db, mem, sid, todo, out, after, fired, crashes, torn>>

\* flush_session: after a Stop, and at the end of a replay of a Done session
Flush(p) ==
  LET res == FlushSession(Mine(p))
  IN  /\ pc[p] = "flush"
      /\ SetProjector(p, sid[p], res.proj)
      /\ Emit(p, res.deltas, "done")
      /\ UNCHANGED <<db, sid, job, base, todo, fired, crashes, torn>>

Done(p) ==
  /\ pc[p] = "done"
  /\ Finish(p)
  /\ UNCHANGED <<db, mem, sid, todo, out, after, fired, crashes, torn>>

\* replay_projector_session: an event below last_before rebuilds the session.
ClearRows(p) ==
  /\ pc[p] = "clear"
  /\ rows' = [rows EXCEPT ![sid[p]] = [x \in {} |-> None]]
  /\ SetProjector(p, sid[p], Empty)
  /\ Goto(p, "listall")
  /\ UNCHANGED <<events, touched, status, prints, sid, job, base, todo, out, after, fired, crashes, torn>>

ListAll_FromTheLateEvent(p) ==
  /\ pc[p] = "listall"
  /\ todo' = [todo EXCEPT ![p] = SelectSeq(events[sid[p]], LAMBDA e : e.seq >= Cur(p).seq)]
  /\ Goto(p, "replay")
  /\ UNCHANGED <<db, mem, sid, job, base, out, after, fired, crashes, torn>>

ListAll(p) ==
  /\ pc[p] = "listall"
  /\ todo' = [todo EXCEPT ![p] = events[sid[p]]]
  /\ Goto(p, "replay")
  /\ UNCHANGED <<db, mem, sid, job, base, out, after, fired, crashes, torn>>

ReplayOne(p) ==
  LET res == Apply(Mine(p), Head(todo[p]))
  IN  /\ pc[p] = "replay"
      /\ todo[p] # <<>>
      /\ SetProjector(p, sid[p], res.proj)
      /\ todo' = [todo EXCEPT ![p] = Tail(@)]
      /\ Emit(p, res.deltas, "replay")
      /\ UNCHANGED <<db, sid, job, base, fired, crashes, torn>>

ReplayDone(p) ==
  /\ pc[p] = "replay"
  /\ todo[p] = <<>>
  /\ IF status[sid[p]] = "Done" THEN Goto(p, "flush") /\ UNCHANGED <<job, base>> ELSE Finish(p)
  /\ UNCHANGED <<db, mem, sid, todo, out, after, fired, crashes, torn>>

\* A handle is dropped between two hooks: a hook process exits after every
\* one, the daemon evicts and reopens stores.
Restart(p) ==
  /\ pc[p] = "idle"
  /\ mem' = [mem EXCEPT ![p] = [s \in Sessions |-> Empty]]
  /\ UNCHANGED <<db, pc, sid, job, base, todo, out, after, fired, crashes, torn>>

\* The process dies in the middle of an ingest.
Crash(p) ==
  /\ pc[p] # "idle"
  /\ crashes < MaxCrashes
  /\ crashes' = crashes + 1
  /\ torn' = IF pc[p] \in {"status", "load", "list", "hydrate", "insert"} THEN torn
             ELSE torn \cup {sid[p]}
  /\ mem'  = [mem EXCEPT ![p] = [s \in Sessions |-> Empty]]
  /\ job'  = [job EXCEPT ![p] = <<>>]
  /\ base' = [base EXCEPT ![p] = None]
  /\ todo' = [todo EXCEPT ![p] = <<>>]
  /\ out'  = [out EXCEPT ![p] = <<>>]
  /\ Goto(p, "idle")
  /\ UNCHANGED <<db, sid, after, fired>>

Step(p) ==
  \/ \E s \in Sessions, in \in Inputs, changed \in PromptChanges : Begin(p, s, in, changed)
  \/ SetStatus(p)
  \/ Load(p)
  \/ ListLatest(p)
  \/ Hydrate(p)
  \/ Insert(p)
  \/ Write(p)
  \/ \E s \in Sessions : \E x \in DOMAIN mem[p][s].span : ExpireOne(p, s, x)
  \/ ExpireDone(p)
  \/ Flush(p)
  \/ Done(p)
  \/ ClearRows(p)
  \/ ListAll(p)
  \/ ReplayOne(p)
  \/ ReplayDone(p)
  \/ Restart(p)
  \/ Crash(p)

Next == \E p \in Procs : Step(p)

Spec == Init /\ [][Next]_vars
-----------------------------------------------------------------------------
(* Properties. *)

TypeOK ==
  /\ events \in [Sessions -> Seq(Event)]
  /\ rows = [s \in Sessions |-> rows[s]]
  /\ \A s \in Sessions : /\ DOMAIN rows[s] \subseteq SpanIds
                         /\ \A x \in DOMAIN rows[s] : rows[s][x] \in Row
  /\ touched \in [Sessions -> SUBSET Paths]
  /\ status \in [Sessions -> Statuses]
  /\ prints \subseteq Sessions
  /\ mem = [p \in Procs |-> [s \in Sessions |-> mem[p][s]]]
  /\ \A p \in Procs, s \in Sessions : TypeOKProjector(mem[p][s])
  /\ pc \in [Procs -> Steps]
  /\ sid \in [Procs -> Sessions]
  /\ job \in [Procs -> Seq(Event)]
  /\ base \in [Procs -> Option(Nat)]
  /\ todo \in [Procs -> Seq(Event)]
  /\ out \in [Procs -> Seq([session : Sessions, delta : Delta])]
  /\ after \in [Procs -> Steps]
  /\ fired \subseteq Inputs
  /\ crashes \in 0 .. MaxCrashes
  /\ torn \subseteq Sessions

\* A handle works on one or two events exactly while it is not idle, the
\* second one being the Stop that found changed prompts; it never waits for an
\* event or a delta that is not there.
ControlOK ==
  \A p \in Procs :
    /\ pc[p] = "idle" <=> job[p] = <<>>
    /\ Len(job[p]) <= 2
    /\ Len(job[p]) = 2 => job[p][2].kind = "stop"
    /\ pc[p] = "status" => Cur(p).kind \in DOMAIN StatusOf
    /\ pc[p] = "hydrate" => todo[p] # <<>>
    /\ pc[p] = "write" => out[p] # <<>> /\ after[p] \in {"expire", "done", "replay"}

\* In every handle, at every point of an append, hydration, expiry, flush or
\* replay, the open spans of a session form one chain that the stack lists
\* exactly, and none of them has ended (store/projector, projector_hierarchy).
ProjectorsWellFormed ==
  \A p \in Procs, s \in Sessions : WellFormed(mem[p][s])

\* What the proofs of the two run on.
IInv == TypeOK /\ ControlOK /\ ProjectorsWellFormed

-----------------------------------------------------------------------------
(* The log and the rows derived from it. *)

Busy(s) == \E p \in Procs : pc[p] # "idle" /\ sid[p] = s

\* No append is under way, and no crash cut one short after its insert.
Settled(s) == ~Busy(s) /\ s \notin torn

\* the projectors that a replay of a log yields, event by event
Projection(log) ==
  LET at[n \in 0 .. Len(log)] == IF n = 0 THEN Empty ELSE Apply(at[n - 1], log[n]).proj
  IN  at

Replayed(s) == Projection(events[s])[Len(events[s])]

\* Every file, skill or rule named by a stored event has its derived row: the
\* dedup cache of one handle never hides a value that another handle has not
\* persisted (derived.rs, apply_projector_events).
DerivedRowsComplete ==
  \A s \in Sessions : Settled(s) =>
    \A n \in DOMAIN events[s] : events[s][n].path \in touched[s] \cup {None}

\* Every stored tool call whose result is stored after it has its row, whatever
\* handles appended the two and whatever was expired, flushed, rebuilt or
\* reopened in between (sync_projector_session, apply_tool_result).
ClosedCallsHaveRows ==
  \A s \in Sessions : Settled(s) =>
    \A m, n \in DOMAIN events[s] :
      /\ m < n
      /\ events[s][m].kind = "call" /\ events[s][n].kind = "result"
      /\ events[s][m].id # None /\ events[s][m].id = events[s][n].id
      => events[s][m].id \in DOMAIN rows[s]

\* A handle that is up to date by its last seq, and so will append without
\* reading the log again, holds no span open that the log has closed.
UpToDateMemoryIsRight ==
  \A p \in Procs, s \in Sessions :
    Settled(s) /\ mem[p][s].last # None /\ mem[p][s].last = LastSeq(s)
      => DOMAIN mem[p][s].span \subseteq DOMAIN Replayed(s).span

\* A stored Stop leaves no span without a row: what the log up to it holds open
\* was orphaned, expired or closed, by the handle that appended the Stop or by
\* another one (flush_session).
StoppedSpansHaveRows ==
  \A s \in Sessions : Settled(s) =>
    \A n \in DOMAIN events[s] : events[s][n].kind = "stop" =>
      DOMAIN Projection(events[s])[n - 1].span
        \subseteq DOMAIN rows[s]

\* The parent a row names has a row, or is still open.
RowParentsAreReal ==
  \A s \in Sessions : Settled(s) =>
    \A x \in DOMAIN rows[s] :
      rows[s][x].parent \in {None} \cup DOMAIN rows[s] \cup DOMAIN Replayed(s).span

\* the spans a replay of a log closes
ClosedSpans(log) ==
  LET Ids(deltas) == {d.id : d \in {deltas[i] : i \in {j \in DOMAIN deltas :
                                                       deltas[j].type = "span"}}}
      Next1(acc, e) == LET res == Apply(acc.proj, e)
                       IN  [proj |-> res.proj, closed |-> acc.closed \cup Ids(res.deltas)]
  IN  FoldLeft(Next1, [proj |-> Empty, closed |-> {}], log).closed

\* When a handle has replayed a session, and no other one is busy, every span
\* the log closes has its row, those included that other handles appended while
\* the rows were cleared (replay_projector_session).
RebuildRestoresRows ==
  [][\A p \in Procs :
       /\ pc[p] = "replay" /\ pc'[p] \notin {"replay", "write"}
       /\ \A q \in Procs \ {p} : pc[q] = "idle"
       => ClosedSpans(events[sid[p]]) \subseteq DOMAIN rows[sid[p]]]_vars
=============================================================================
