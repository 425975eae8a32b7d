-------------------------------- MODULE Search --------------------------------
(***************************************************************************)
(* The full-text index beside the store (search/, event_write.rs,          *)
(* maintenance.rs).  Each handle of the store that indexes an event opens  *)
(* a writer, which holds a file lock on the index until the handle is      *)
(* dropped or prunes, and whose documents are searchable from its next     *)
(* commit.  The daemon's worker keeps its handles (daemon/worker.rs).      *)
(***************************************************************************)
EXTENDS Naturals, Sequences, FiniteSets, SequencesExt, FiniteSetsExt, SearchIndex

CONSTANTS
  Handles,      \* handles of one store, each used by one thread
  Kept,         \* those the daemon's worker keeps in its cache
  Sessions,
  Events,       \* [in, seq, agent, kind, tool, text, prompt]
  Batches,      \* sequences of new events of a session that a scan appends
  BatchDocs,    \* documents after which a writer commits by itself
  MaxReindexes, \* bound: rebuilds of the index
  MaxFaults,    \* bound: kills and failures of the index
  None

VARIABLES
  locked,  \* the handle whose transaction holds the store's write lock
  dir,     \* the search directories made so far: the last one is in place
  dirty,   \* search_dirty_ms is set
  faults

store == <<searched, stored, prompts, locked>>
index == <<dir, documents, readable, dirty>>
history == <<excused, overtaken, raced>>
vars == <<store, index, writer, doing, faults, history>>

Closed == [open |-> FALSE, dir |-> 0, adds |-> {}]

Init ==
  /\ searched = {} /\ stored = {} /\ locked = None
  /\ prompts = [s \in Sessions |-> None]
  /\ dir = 1 /\ documents = {} /\ readable = TRUE /\ dirty = FALSE
  /\ writer = [h \in Handles |-> Closed]
  /\ doing = [h \in Handles |-> Idle]
  /\ faults = 0 /\ excused = {} /\ overtaken = {} /\ raced = {}

-----------------------------------------------------------------------------
(* The store. *)

CanWrite(h) == locked \in {None, h}

Head1(h) == Head(doing[h].todo)

Step(h, step) == doing' = [doing EXCEPT ![h].step = step]

\* On to the next event of the append, or to its end.
NextEvent(h, mine) ==
  LET todo == Tail(doing[h].todo)
      step == IF todo # <<>> THEN "insert" ELSE IF doing[h].batch THEN "commit" ELSE "idle"
      on   == [doing[h] EXCEPT !.todo = todo, !.mine = mine, !.step = step]
  IN doing' = [doing EXCEPT ![h] = IF step = "idle" THEN Idle ELSE on]

\* A hook: its session's row is there or made, then its event is appended.
Ingest(h, e) ==
  /\ doing[h] = Idle /\ CanWrite(h)
  /\ searched' = searched \cup {e.in}
  /\ doing' = [doing EXCEPT ![h] = [Idle EXCEPT !.step = "insert", !.todo = <<e>>]]
  /\ UNCHANGED <<stored, prompts, locked, index, writer, faults, history>>

\* A scan: the session's row, then one transaction for its new events.
Scan(h, batch) ==
  /\ doing[h] = Idle /\ locked = None
  /\ \A i \in DOMAIN batch : batch[i] \notin stored
  /\ searched' = searched \cup {batch[1].in}
  /\ locked' = h
  /\ doing' = [doing EXCEPT ![h] = [Idle EXCEPT !.step = "insert", !.todo = batch, !.batch = TRUE]]
  /\ UNCHANGED <<stored, prompts, index, writer, faults, history>>

\* The earliest prompt of the session is the one it is found by.
Projected(prompted, es) ==
  [s \in Sessions |->
     LET found == {e \in es : e.in = s /\ e.prompt}
                    \cup IF prompted[s] = None THEN {} ELSE {prompted[s]}
     IN IF found = {} THEN None ELSE CHOOSE e \in found : \A f \in found : e.seq <= f.seq]

Insert(h) ==
  /\ doing[h].step = "insert" /\ CanWrite(h)
  /\ IF Head1(h) \in stored \cup doing[h].mine
     THEN NextEvent(h, doing[h].mine) /\ UNCHANGED <<stored, prompts>>
     ELSE IF doing[h].batch
     THEN /\ doing' = [doing EXCEPT ![h].step = "look", ![h].mine = @ \cup {Head1(h)}]
          /\ UNCHANGED <<stored, prompts>>
     ELSE /\ stored' = stored \cup {Head1(h)}
          /\ prompts' = Projected(prompts, {Head1(h)})
          /\ Step(h, "look")
  /\ UNCHANGED <<searched, locked, index, writer, faults, history>>

\* SQLITE_BUSY: after five seconds the hook fails, nothing is stored.
Busy(h) ==
  /\ doing[h].step = "insert" /\ ~CanWrite(h)
  /\ doing' = [doing EXCEPT ![h] = Idle]
  /\ UNCHANGED <<store, index, writer, faults, history>>

Commit(h) ==
  /\ doing[h].step = "commit"
  /\ stored' = stored \cup doing[h].mine
  /\ prompts' = Projected(prompts, doing[h].mine)
  /\ locked' = None
  /\ doing' = [doing EXCEPT ![h] = Idle]
  /\ UNCHANGED <<searched, index, writer, faults, history>>

\* A statement of the batch fails: its events are gone, their documents not.
RollBack(h) ==
  /\ doing[h].batch /\ doing[h].step \in {"insert", "commit"}
  /\ faults < MaxFaults /\ faults' = faults + 1
  /\ locked' = None
  /\ doing' = [doing EXCEPT ![h] = Idle]
  /\ UNCHANGED <<searched, stored, prompts, index, writer, history>>

-----------------------------------------------------------------------------
(* The writer. *)

LockIsFree == \A h \in Handles : ~(writer[h].open /\ writer[h].dir = dir)

\* The commit of documents, with the list of files as the writer knows it.  A
\* writer whose directory was removed either fails or leaves the new one with a
\* list of files that are not there.
Commits(w) ==
  IF w.adds = {} THEN UNCHANGED <<documents, readable, excused, overtaken>>
  ELSE IF w.dir = dir
  THEN /\ documents' = documents \cup w.adds /\ readable' \in {readable, TRUE}
       /\ excused' = excused \ w.adds /\ overtaken' = overtaken \ w.adds
  ELSE /\ readable' \in {readable, FALSE} /\ excused' = excused \cup w.adds
       /\ UNCHANGED <<documents, overtaken>>

\* try_append_search_event looks the session up: a pruned one has no document.
LookUp(h) ==
  /\ doing[h].step = "look"
  /\ IF Head1(h).in \in searched /\ IsIndexed(Head1(h))
     THEN Step(h, "index") ELSE NextEvent(h, doing[h].mine)
  /\ overtaken' = IF Head1(h).in \in searched THEN overtaken ELSE overtaken \cup {Head1(h)}
  /\ UNCHANGED <<store, index, writer, faults, excused, raced>>

\* PendingWriter::open waits for the lock as long as it takes.
OpenWriter(h) ==
  /\ doing[h].step \in {"index", "open"} /\ ~writer[h].open /\ LockIsFree
  /\ writer' = [writer EXCEPT ![h] = [Closed EXCEPT !.open = TRUE, !.dir = dir]]
  /\ IF doing[h].step = "open" THEN Step(h, "rebuild") ELSE UNCHANGED doing
  /\ UNCHANGED <<store, index, faults, history>>

\* A failure to open or to add is logged: the event stays without a document.
FailIndex(h) ==
  /\ doing[h].step = "index" /\ (writer[h].open \/ LockIsFree)
  /\ faults < MaxFaults /\ faults' = faults + 1
  /\ dirty' = TRUE /\ excused' = excused \cup {Head1(h)}
  /\ NextEvent(h, doing[h].mine)
  /\ UNCHANGED <<store, dir, documents, readable, writer, overtaken, raced>>

\* add: commits at BatchDocs documents, or when the oldest is a minute old.
Add(h, late) ==
  LET w == [writer[h] EXCEPT !.adds = @ \cup {Head1(h)}] IN
  /\ doing[h].step \in {"index", "rebuild"} /\ writer[h].open /\ doing[h].todo # <<>>
  /\ late => writer[h].adds # {}
  /\ IF late \/ Cardinality(w.adds) >= BatchDocs
     THEN Commits(w) /\ writer' = [writer EXCEPT ![h].adds = {}]
     ELSE writer' = [writer EXCEPT ![h] = w] /\ UNCHANGED <<documents, readable, excused, overtaken>>
  /\ IF doing[h].step = "index" THEN NextEvent(h, doing[h].mine)
     ELSE doing' = [doing EXCEPT ![h].todo = Tail(@)]
  /\ UNCHANGED <<store, dir, dirty, faults, raced>>

\* flush_search, at the end of a Stop hook.
Flush(h) ==
  /\ doing[h] = Idle /\ writer[h].adds # {}
  /\ Commits(writer[h])
  /\ writer' = [writer EXCEPT ![h].adds = {}]
  /\ UNCHANGED <<store, dir, dirty, doing, faults, raced>>

Drop_NoCommit(h) ==
  /\ doing[h] = Idle /\ writer[h].open /\ h \notin Kept
  /\ writer' = [writer EXCEPT ![h] = Closed]
  /\ UNCHANGED <<store, index, doing, faults, history>>

\* The handle goes: Drop of Store commits, the lock goes with the file.
Drop(h) ==
  /\ doing[h] = Idle /\ writer[h].open /\ h \notin Kept
  /\ Commits(writer[h])
  /\ writer' = [writer EXCEPT ![h] = Closed]
  /\ UNCHANGED <<store, dir, dirty, doing, faults, raced>>

\* The process dies: what was not committed is lost, in the index for good.
Kill(h) ==
  /\ doing[h] # Idle \/ writer[h].open
  /\ faults < MaxFaults /\ faults' = faults + 1
  /\ excused' = excused \cup writer[h].adds \cup {doing[h].todo[i] : i \in DOMAIN doing[h].todo}
  /\ writer' = [writer EXCEPT ![h] = Closed]
  /\ doing' = [doing EXCEPT ![h] = Idle]
  /\ raced' = raced \cup IF doing[h].step \in {"take", "delete"} THEN doing[h].known ELSE {}
  /\ locked' = IF locked = h THEN None ELSE locked
  /\ UNCHANGED <<searched, stored, prompts, index, overtaken>>
-----------------------------------------------------------------------------
(* Prune and rebuild. *)

InHand(h) == IF doing[h].step \in {"look", "index"} THEN {Head1(h)} ELSE {}

\* The rows go first, in one transaction.
PruneRows(h, old) ==
  /\ doing[h] = Idle /\ locked = None
  /\ old # {} /\ old \subseteq searched
  /\ searched' = searched \ old
  /\ stored' = {e \in stored : e.in \notin old}
  /\ prompts' = [s \in Sessions |-> IF s \in old THEN None ELSE prompts[s]]
  /\ doing' = [doing EXCEPT ![h] = [Idle EXCEPT !.step = "take", !.known = old]]
  /\ raced' = raced \cup {s \in old : \E p \in Handles :
       \/ \E e \in InHand(p) : e.in = s
       \/ doing[p].step \in {"events", "drop", "open", "rebuild"}}
  /\ UNCHANGED <<locked, index, writer, faults, excused, overtaken>>

\* Its own writer is in the way of the one that deletes.
TakeWriter(h) ==
  /\ doing[h].step = "take"
  /\ Commits(writer[h])
  /\ writer' = [writer EXCEPT ![h] = Closed]
  /\ Step(h, "delete")
  /\ UNCHANGED <<store, dir, dirty, faults, raced>>

\* Those of a session that came again after the rows were pruned.
Alive(S) == S \cap (stored \cup UNION {doing[p].mine : p \in Handles})

DeleteSessions_NoLock(h) ==
  /\ doing[h].step = "delete"
  /\ documents' = {e \in documents : e.in \notin doing[h].known}
  /\ doing' = [doing EXCEPT ![h] = Idle]
  /\ overtaken' = overtaken \cup Alive({e \in documents : e.in \in doing[h].known})
  /\ UNCHANGED <<store, dir, readable, dirty, writer, faults, excused, raced>>

\* search::delete_sessions: a writer of its own, which waits for the lock, and
\* deletes by the ids of the sessions, whoever made them again meanwhile.
DeleteSessions(h) ==
  /\ doing[h].step = "delete" /\ LockIsFree
  /\ documents' = {e \in documents : e.in \notin doing[h].known}
  /\ doing' = [doing EXCEPT ![h] = Idle]
  /\ overtaken' = overtaken \cup Alive({e \in documents : e.in \in doing[h].known})
  /\ UNCHANGED <<store, dir, readable, dirty, writer, faults, excused, raced>>

FailDelete(h) ==
  /\ doing[h].step = "delete" /\ faults < MaxFaults /\ faults' = faults + 1
  /\ dirty' = TRUE /\ raced' = raced \cup doing[h].known
  /\ doing' = [doing EXCEPT ![h] = Idle]
  /\ UNCHANGED <<store, dir, documents, readable, writer, excused, overtaken>>

\* cmd_search_reindex reads the sessions, then their events.
Reindex(h) ==
  /\ doing[h] = Idle /\ ~writer[h].open /\ h \notin Kept
  /\ dir + Cardinality({p \in Handles : doing[p].step \in {"events", "drop"}}) <= MaxReindexes
  /\ doing' = [doing EXCEPT ![h] = [Idle EXCEPT !.step = "events", !.known = searched]]
  /\ UNCHANGED <<store, index, writer, faults, history>>

ReadEvents(h) ==
  /\ doing[h].step = "events"
  /\ doing' = [doing EXCEPT ![h].step = "drop",
       ![h].todo = SetToSeq({e \in stored : e.in \in doing[h].known /\ IsIndexed(e)})]
  /\ UNCHANGED <<store, index, writer, faults, history>>

\* The directory is removed, whoever writes to it, with the lock's file.
DropIndex(h) ==
  /\ doing[h].step = "drop"
  /\ dir' = dir + 1 /\ documents' = {} /\ readable' = TRUE
  /\ excused' = excused \cup
       ((UNION ({documents} \cup {writer[p].adds \cup InHand(p) : p \in Handles})) \ Range(doing[h].todo))
  /\ Step(h, "open")
  /\ UNCHANGED <<store, dirty, writer, faults, overtaken, raced>>

\* The last commit, lost if another rebuild removed this one's directory; the
\* writer goes.
EndRebuild(h) ==
  /\ doing[h].step = "rebuild" /\ doing[h].todo = <<>>
  /\ Commits(writer[h])
  /\ writer' = [writer EXCEPT ![h] = Closed]
  /\ doing' = [doing EXCEPT ![h] = Idle]
  /\ UNCHANGED <<store, dir, dirty, faults, raced>>

-----------------------------------------------------------------------------

Next ==
  \/ \E h \in Handles, e \in Events : Ingest(h, e)
  \/ \E h \in Handles, batch \in Batches : Scan(h, batch)
  \/ \E h \in Handles, old \in SUBSET Sessions : PruneRows(h, old)
  \/ \E h \in Handles, late \in BOOLEAN : Add(h, late)
  \/ \E h \in Handles :
       \/ Insert(h) \/ Busy(h) \/ Commit(h) \/ RollBack(h)
       \/ LookUp(h) \/ OpenWriter(h) \/ FailIndex(h)
       \/ Flush(h) \/ Drop(h) \/ Kill(h)
       \/ TakeWriter(h) \/ DeleteSessions(h) \/ FailDelete(h)
       \/ Reindex(h) \/ ReadEvents(h) \/ DropIndex(h) \/ EndRebuild(h)

Spec == Init /\ [][Next]_vars

\* A thread that can go on does, and a command ends by dropping its handle.
GoesOn(h) ==
  \/ Insert(h) \/ Busy(h) \/ Commit(h) \/ LookUp(h) \/ OpenWriter(h) \/ Add(h, FALSE)
  \/ Drop(h) \/ TakeWriter(h) \/ DeleteSessions(h)

FairSpec == Spec /\ \A h \in Handles : WF_vars(GoesOn(h))

-----------------------------------------------------------------------------
(* Properties. *)

Steps ==
  {"idle", "insert", "look", "index", "commit", "take", "delete",
   "events", "drop", "open", "rebuild"}

TypeOK ==
  /\ searched \subseteq Sessions /\ stored \subseteq Events
  /\ prompts \in [Sessions -> Events \cup {None}]
  /\ locked \in Handles \cup {None}
  /\ dir \in 1 .. MaxReindexes + 1 /\ documents \subseteq Events
  /\ readable \in BOOLEAN /\ dirty \in BOOLEAN
  /\ \A h \in Handles : writer[h].dir \in 0 .. dir /\ writer[h].adds \subseteq Events
  /\ \A h \in Handles : doing[h].step \in Steps /\ doing[h].known \subseteq Sessions
  /\ faults \in 0 .. MaxFaults
  /\ excused \cup overtaken \subseteq Events /\ raced \subseteq Sessions

\* A scan that began ends: the views of SQLite stay live before the commit of
\* the index (append_scanned_event_batch, append_search_event).
ScansEnd == \A h \in Handles : doing[h].batch ~> ~doing[h].batch
=============================================================================
