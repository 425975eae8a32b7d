----------------------------- MODULE OutboxImport -----------------------------
(***************************************************************************)
(* What the import of the old outbox does with the rows of the two queues  *)
(* (reconcile and what it calls in store/sqlite/outbox_migration.rs), and  *)
(* what must be in the table afterwards.  OutboxMigration has the steps.   *)
(***************************************************************************)
EXTENDS Naturals, Sequences, FiniteSets

VARIABLES
  legacy,    \* rows of the redb file, in the order of their ids
  queue,     \* the sync_outbox table, in the order of its ids
  marker,    \* the digest of the rows imported, <<>> when there is none
  before,    \* history: the table at the start
  appended   \* history: rows enqueued since the import

ReplacementKinds == {"tool_spans", "repo_snapshots", "workspace_facts"}

IsReplacement(row) == row.kind \in ReplacementKinds

\* The digest hashes every row with its id: two files with different rows
\* have different digests.
Digest(rows) == <<rows>>

NoMarker == <<>>

-----------------------------------------------------------------------------
(* Choosing from a queue. *)

RowsOf(items) == [i \in DOMAIN items |-> items[i].row]

Count(rows, row) == Cardinality({i \in DOMAIN rows : rows[i] = row})

UpTo(places, i) == {j \in places : j <= i}

Nth(places, n) == CHOOSE i \in places : Cardinality(UpTo(places, i)) = n

\* The items of a queue at some places, in their order.
At(items, places) == [n \in 1..Cardinality(places) |-> items[Nth(places, n)]]

Pending(items) == {i \in DOMAIN items : ~items[i].sent}

Sent(items) == DOMAIN items \ Pending(items)

-----------------------------------------------------------------------------
(* Reconciling the two queues. *)

\* The file has newer rows of a kind that is replaced by owner.
Replaced(rows, row) ==
  \E i \in DOMAIN rows : /\ IsReplacement(rows[i])
                         /\ rows[i].owner = row.owner /\ rows[i].kind = row.kind

Alike(items, i) == {j \in Pending(items) : items[j].row = items[i].row}

\* A pending row stays unless it is replaced or the file holds a match for
\* it; each row of the file matches one.
KeepSqlite(rows, items, i) ==
  /\ ~Replaced(rows, items[i].row)
  /\ Cardinality(UpTo(Alike(items, i), i)) > Count(rows, items[i].row)

Unmatched(rows, items) == {i \in Pending(items) : KeepSqlite(rows, items, i)}

Reconcile(rows, items) == rows \o RowsOf(At(items, Unmatched(rows, items)))

\* Delete what is pending and insert the rows.
ReplacePending(rows) ==
  queue' = At(queue, Sent(queue))
             \o [i \in DOMAIN rows |-> [row |-> rows[i], sent |-> FALSE]]

-----------------------------------------------------------------------------

Larger(a, b) == IF a > b THEN a ELSE b

\* The rows that occur anywhere.
Occurring == UNION {{rows[i] : i \in DOMAIN rows} :
                      rows \in {legacy, RowsOf(before), RowsOf(queue), appended}}

(***************************************************************************)
(* However many processes open the store, are killed between the commit of *)
(* the import and the rename, or send rows before a slow opener gets to    *)
(* import its copy: a row is queued as often as the fuller of the two      *)
(* queues had it, rows of a replaced kind come from the file alone, and no *)
(* row is lost or imported twice (migrate, migrate_rows).                  *)
(***************************************************************************)
NothingLostOrImportedTwice ==
  IF marker = NoMarker THEN queue = before
  ELSE \A row \in Occurring :
         Count(RowsOf(queue), row) =
           Count(RowsOf(At(before, Sent(before))), row) + Count(appended, row)
             + IF Replaced(legacy, row) THEN Count(legacy, row)
               ELSE Larger(Count(legacy, row),
                           Count(RowsOf(At(before, Pending(before))), row))

(***************************************************************************)
(* The rows of the file are sent before the rows of the table that were    *)
(* pending next to them, and those before what is enqueued later: the      *)
(* order of each source is kept (reconcile,                                *)
(* migration_orders_legacy_before_reconciled_sqlite_rows).                 *)
(***************************************************************************)
LegacyComesFirst ==
  marker # NoMarker /\ legacy # <<>> =>
    LET now  == RowsOf(queue)
        skip == Cardinality(Sent(before))
        end  == Len(now) - Len(appended)
    IN  /\ SubSeq(now, skip + 1, skip + Len(legacy)) = legacy
        /\ SubSeq(now, end + 1, Len(now)) = appended
        /\ \E keep \in [1..(end - skip - Len(legacy)) -> Pending(before)] :
             /\ \A i, j \in DOMAIN keep : i < j => keep[i] < keep[j]
             /\ \A i \in DOMAIN keep :
                  before[keep[i]].row = now[skip + Len(legacy) + i]

(***************************************************************************)
(* OutboxMigration: the import loses nothing, repeats nothing, and keeps   *)
(* the order.                                                              *)
(***************************************************************************)
ImportIsExact == NothingLostOrImportedTwice /\ LegacyComesFirst

=============================================================================
