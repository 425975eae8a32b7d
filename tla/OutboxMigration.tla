--------------------------- MODULE OutboxMigration ---------------------------
(***************************************************************************)
(* The one-time import of the outbox an older version kept in a redb file  *)
(* into the sync_outbox table (store/sqlite/outbox_migration.rs).  Every   *)
(* read-write open of the store runs it, so several processes race through *)
(* its steps, and each may be killed between any two of them.              *)
(***************************************************************************)
EXTENDS OutboxImport, SequencesExt

CONSTANTS
  Openers,    \* processes that open the store for reading and writing
  Rows,       \* [owner, kind] and a payload that tells rows apart
  MaxLegacy,  \* bound: rows in the redb file
  MaxQueue,   \* bound: rows in the table at the start
  MaxAppends, \* bound: rows enqueued after the import
  MaxKills    \* bound: processes killed

VARIABLES
  source,    \* what is at outbox.redb: "locked" while an old version runs
  target,    \* outbox.redb.migrated-v1 exists
  pc,        \* pc[o]: what opener o does next
  read,      \* read[o]: the rows it has read from the file
  kills

vars == <<legacy, source, target, queue, marker, pc, read, kills, before, appended>>

Item == [row : Rows, sent : BOOLEAN]

Init ==
  /\ legacy \in BoundedSeq(Rows, MaxLegacy)
  /\ queue \in BoundedSeq(Item, MaxQueue)
  /\ source \in {"present", "locked"}
  /\ target \in BOOLEAN
  /\ marker = NoMarker
  /\ pc = [o \in Openers |-> "closed"]
  /\ read = [o \in Openers |-> <<>>]
  /\ kills = 0
  /\ before = queue
  /\ appended = <<>>

-----------------------------------------------------------------------------
(* Opening the store. *)

Goto(o, to) == pc' = [pc EXCEPT ![o] = to]

\* No file, or no more: the store opens.
SourceMissing(o) ==
  /\ pc[o] = "closed" /\ source = "archived"
  /\ Goto(o, "open")
  /\ UNCHANGED <<legacy, source, target, queue, marker, read, kills, before, appended>>

SourceFound(o) ==
  /\ pc[o] = "closed" /\ source # "archived"
  /\ Goto(o, "found")
  /\ UNCHANGED <<legacy, source, target, queue, marker, read, kills, before, appended>>

\* The rows are read under a shared lock, kept until the import is committed.
ReadLegacy(o) ==
  /\ pc[o] = "found" /\ source = "present"
  /\ read' = [read EXCEPT ![o] = legacy]
  /\ Goto(o, "import")
  /\ UNCHANGED <<legacy, source, target, queue, marker, kills, before, appended>>

\* The file is locked or gone by now: the open fails, nothing is changed.
OpenFails(o) ==
  /\ pc[o] = "found" /\ source # "present"
  /\ Goto(o, "closed")
  /\ UNCHANGED <<legacy, source, target, queue, marker, read, kills, before, appended>>

MarkerMatches_Never(rows) == FALSE
MarkerMatches(rows) == marker = Digest(rows)

\* migrate_rows, one transaction.
MigrateRows(o) ==
  /\ pc[o] = "import"
  /\ IF MarkerMatches(read[o])
       THEN UNCHANGED <<queue, marker>>
       ELSE /\ marker' = Digest(read[o])
            /\ IF read[o] = <<>>
                 THEN UNCHANGED queue
                 ELSE ReplacePending(Reconcile(read[o], queue))
  /\ Goto(o, "rename")
  /\ UNCHANGED <<legacy, source, target, read, kills, before, appended>>

\* rename_source checks the target and renames.  It fails when the target
\* exists, or another opener has renamed the file in between.
Rename(o) ==
  /\ pc[o] = "rename"
  /\ IF target \/ source = "archived"
       THEN Goto(o, "closed") /\ UNCHANGED <<source, target>>
       ELSE Goto(o, "open") /\ source' = "archived" /\ target' = TRUE
  /\ read' = [read EXCEPT ![o] = <<>>]
  /\ UNCHANGED <<legacy, queue, marker, kills, before, appended>>

-----------------------------------------------------------------------------
(* The open store, and what happens around it. *)

Enqueue(o, row) ==
  /\ pc[o] = "open" /\ Len(appended) < MaxAppends
  /\ queue' = Append(queue, [row |-> row, sent |-> FALSE])
  /\ appended' = Append(appended, row)
  /\ UNCHANGED <<legacy, source, target, marker, pc, read, kills, before>>

Flush(o) ==
  /\ pc[o] = "open"
  /\ \E i \in DOMAIN queue :
       /\ ~queue[i].sent
       /\ queue' = [queue EXCEPT ![i].sent = TRUE]
  /\ UNCHANGED <<legacy, source, target, marker, pc, read, kills, before, appended>>

Kill(o) ==
  /\ pc[o] # "closed" /\ kills < MaxKills
  /\ Goto(o, "closed")
  /\ read' = [read EXCEPT ![o] = <<>>]
  /\ kills' = kills + 1
  /\ UNCHANGED <<legacy, source, target, queue, marker, before, appended>>

\* The old version ends; somebody removes what is in the way of the rename.
Unlock ==
  /\ source = "locked" /\ source' = "present"
  /\ UNCHANGED <<legacy, target, queue, marker, pc, read, kills, before, appended>>

ClearTarget ==
  /\ target /\ source # "archived" /\ target' = FALSE
  /\ UNCHANGED <<legacy, source, queue, marker, pc, read, kills, before, appended>>

Next ==
  \/ \E o \in Openers :
       \/ SourceMissing(o) \/ SourceFound(o) \/ ReadLegacy(o) \/ OpenFails(o)
       \/ MigrateRows(o) \/ Rename(o) \/ Flush(o) \/ Kill(o)
       \/ \E row \in Rows : Enqueue(o, row)
  \/ Unlock \/ ClearTarget

Spec == Init /\ [][Next]_vars

-----------------------------------------------------------------------------

TypeOK ==
  /\ legacy \in Seq(Rows) /\ queue \in Seq(Item)
  /\ source \in {"present", "locked", "archived"} /\ target \in BOOLEAN
  /\ marker \in {NoMarker, Digest(legacy)}
  /\ \A o \in Openers :
       /\ pc[o] \in {"closed", "found", "import", "rename", "open"}
       /\ read[o] \in {<<>>, legacy}
  /\ kills \in 0..MaxKills

=============================================================================
