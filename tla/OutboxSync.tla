----------------------------- MODULE OutboxSync -----------------------------
(***************************************************************************)
(* The sync outbox (store/sqlite/sync.rs) and the flush engine that        *)
(* delivers its rows (sync/engine.rs).  Ingest processes append and replace *)
(* rows while any number of `kaizen sync run` processes flush them.  Every *)
(* transaction on the outbox is one step; between two of them the other    *)
(* processes run, requests fail, and a flusher may die.                    *)
(*                                                                         *)
(* Rows of kind "tool_spans" stand for every kind whose pending rows are   *)
(* replaced by owner (repo_snapshots and workspace_facts too), and each    *)
(* payload enqueued is a number of its own.                                *)
(***************************************************************************)
EXTENDS Integers, Sequences, FiniteSets

CONSTANTS Flushers,      \* processes that run `kaizen sync run`
          Owners,        \* the session_id column
          BatchMax,      \* events_per_batch_max
          MaxFailures,   \* server errors one request is retried for (12)
          FailOpen,      \* telemetry.fail_open
          MaxReplace,    \* bound: rows one replace_outbox_rows inserts
          MaxPayloads,   \* bound: payloads ever enqueued
          MaxCrashes     \* bound: flushers killed

ASSUME OutboxAssumption ==
  /\ BatchMax \in Nat \ {0}
  /\ MaxFailures \in Nat
  /\ FailOpen \in BOOLEAN
  /\ MaxReplace \in Nat /\ MaxPayloads \in Nat /\ MaxCrashes \in Nat

VARIABLES
  outbox,    \* the sync_outbox table, a function from id to row
  lastId,    \* the largest id ever given out (AUTOINCREMENT)
  made,      \* payloads enqueued so far, each one a number
  received,  \* payloads the server has stored
  exported,  \* payloads every configured exporter has taken
  pc,        \* pc[f]: what flusher f does next
  work,      \* work[f]: batches it still has to post, the current one first
  failures,  \* failures[f]: server_failures of the current request
  broken,    \* sync_state has a last_error
  crashes    \* flushers killed so far

queue == <<outbox, lastId, made>>
flush == <<pc, work, failures>>
vars  == <<queue, received, exported, flush, broken, crashes>>

Kinds == {"events", "tool_spans", "session_feedback"}

\* The ingest contract has no route for feedback: post_with_fanout takes such
\* a batch for accepted without a request.
Posted(kind) == kind # "session_feedback"

Row == [owner : Owners, kind : Kinds, payload : Nat, sent : BOOLEAN]

\* A batch is a set of rows as read: what the flusher remembers of them.
Item == [id : Nat, kind : Kinds, payload : Nat]

Payloads(batch) == {item.payload : item \in batch}

PendingIds == {id \in DOMAIN outbox : ~outbox[id].sent}

-----------------------------------------------------------------------------
Init ==
  /\ outbox   = [id \in {} |-> {}]
  /\ lastId   = 0
  /\ made     = 0
  /\ received = {}
  /\ exported = {}
  /\ pc       = [f \in Flushers |-> "idle"]
  /\ work     = [f \in Flushers |-> <<>>]
  /\ failures = [f \in Flushers |-> 0]
  /\ broken   = FALSE
  /\ crashes  = 0

-----------------------------------------------------------------------------
(* Enqueueing. *)

FirstId_WithoutAutoincrement(kept) ==
  1 + CHOOSE m \in kept \cup {0} : \A id \in kept : id <= m

\* AUTOINCREMENT: no id is ever given out twice, whatever rows are left.
FirstId(kept) == lastId + 1

\* Delete the rows with an id outside kept and insert n new ones.
Insert(kept, owner, kind, n) ==
  LET first == FirstId(kept)
      new   == first .. first + n - 1
  IN  /\ made + n <= MaxPayloads
      /\ outbox' = [id \in kept \cup new |->
                      IF id \in new
                      THEN [owner |-> owner, kind |-> kind, payload |-> made + id - first + 1,
                            sent |-> FALSE]
                      ELSE outbox[id]]
      /\ lastId' = IF n = 0 THEN lastId ELSE first + n - 1
      /\ made' = made + n
      /\ UNCHANGED <<received, exported, flush, broken, crashes>>

\* append_outbox_row, and the same statement in upsert_feedback
AppendRow(owner, kind) ==
  /\ kind \in {"events", "session_feedback"}
  /\ Insert(DOMAIN outbox, owner, kind, 1)

\* replace_outbox_rows: drop the owner's pending rows of the kind, insert n.
Replace(owner, n) ==
  Insert({id \in DOMAIN outbox : ~(/\ outbox[id].owner = owner
                                   /\ outbox[id].kind = "tool_spans"
                                   /\ ~outbox[id].sent)}, owner, "tool_spans", n)

\* prune_sessions_started_before: retention drops the rows of an old session.
Prune(owner) ==
  /\ outbox' = [id \in {i \in DOMAIN outbox : outbox[i].owner # owner} |-> outbox[id]]
  /\ UNCHANGED <<lastId, made, received, exported, flush, broken, crashes>>

-----------------------------------------------------------------------------
(* Flushing. *)

Goto(f, label) == pc' = [pc EXCEPT ![f] = label]

\* post_batch_resilient starts anew, without failures, on the next batch.
NextBatch(f, batches) ==
  /\ work' = [work EXCEPT ![f] = batches]
  /\ failures' = [failures EXCEPT ![f] = 0]
  /\ Goto(f, IF batches = <<>> THEN "idle" ELSE "post")

\* The flush returns an error; the loop of `sync run` starts a new one later.
GiveUp(f) == NextBatch(f, <<>>)

Items(ids) == {[id |-> id, kind |-> outbox[id].kind, payload |-> outbox[id].payload] : id \in ids}

\* The rows a batch may hold: the oldest pending ones, of one kind, and, the
\* bound on bytes being anywhere, any number of them up to BatchMax.
IsBatch(ids) ==
  /\ ids # {}
  /\ Cardinality(ids) <= BatchMax
  /\ \A id \in ids, other \in PendingIds : other < id => other \in ids
  /\ \A id, other \in ids : outbox[id].kind = outbox[other].kind

\* flush_outbox_once reads the pending rows and packs a batch.
Begin(f, ids) ==
  /\ pc[f] = "idle"
  /\ IsBatch(ids)
  /\ NextBatch(f, <<Items(ids)>>)
  /\ UNCHANGED <<queue, received, exported, broken, crashes>>

Batch(f) == Head(work[f])

\* The exporters take the batch next to every request, whatever its outcome.
FanOut(f, taken) ==
  exported' = IF taken THEN exported \cup Payloads(Batch(f)) ELSE exported

\* One attempt: the request, and the exporters at the same time.
Attempt(f, taken) ==
  /\ FanOut(f, taken)
  /\ UNCHANGED <<queue, crashes>>

Accepted_IgnoresFanOut(f, taken) ==
  /\ Attempt(f, taken)
  /\ received' = received \cup Payloads({item \in Batch(f) : Posted(item.kind)})
  /\ Goto(f, "mark") /\ UNCHANGED <<work, failures>>
  /\ UNCHANGED broken

\* 202, or 409 after a request that an intermediary sent twice.  Exporters
\* that must not fail and did keep the batch in the outbox.
Accepted(f, taken) ==
  /\ Attempt(f, taken)
  /\ received' = received \cup Payloads({item \in Batch(f) : Posted(item.kind)})
  /\ IF taken \/ FailOpen THEN Goto(f, "mark") /\ UNCHANGED <<work, failures>>
                          ELSE GiveUp(f)
  /\ UNCHANGED broken

\* left holds the first half of the batch, rounded down
IsLeftHalf(left, batch) ==
  /\ left \subseteq batch
  /\ Cardinality(left) = Cardinality(batch) \div 2
  /\ \A l \in left, r \in batch \ left : l.id < r.id

TooLarge_RightFirst(f, taken, left) ==
  /\ Attempt(f, taken)
  /\ \A item \in Batch(f) : Posted(item.kind)
  /\ Cardinality(Batch(f)) > 1
  /\ IsLeftHalf(left, Batch(f))
  /\ NextBatch(f, <<Batch(f) \ left, left>> \o Tail(work[f]))
  /\ UNCHANGED <<received, broken>>

\* 413: both halves are posted on their own, the first one first.
TooLarge(f, taken, left) ==
  /\ Attempt(f, taken)
  /\ \A item \in Batch(f) : Posted(item.kind)
  /\ Cardinality(Batch(f)) > 1
  /\ IsLeftHalf(left, Batch(f))
  /\ NextBatch(f, <<left, Batch(f) \ left>> \o Tail(work[f]))
  /\ UNCHANGED <<received, broken>>

\* 429: sleep and try again, for as long as the server says so.
RateLimited(f, taken) ==
  /\ Attempt(f, taken)
  /\ \A item \in Batch(f) : Posted(item.kind)
  /\ UNCHANGED <<received, flush, broken>>

ServerError_OneTooMany(f, taken, stored) ==
  /\ Attempt(f, taken)
  /\ \A item \in Batch(f) : Posted(item.kind)
  /\ received' = IF stored THEN received \cup Payloads(Batch(f)) ELSE received
  /\ IF failures[f] <= MaxFailures
     THEN failures' = [failures EXCEPT ![f] = @ + 1] /\ UNCHANGED <<pc, work, broken>>
     ELSE GiveUp(f) /\ broken' = TRUE

\* 5xx, which may come after the server stored the batch: a bounded number of
\* retries, then the error is recorded.
ServerError(f, taken, stored) ==
  /\ Attempt(f, taken)
  /\ \A item \in Batch(f) : Posted(item.kind)
  /\ received' = IF stored THEN received \cup Payloads(Batch(f)) ELSE received
  /\ IF failures[f] < MaxFailures
     THEN failures' = [failures EXCEPT ![f] = @ + 1] /\ UNCHANGED <<pc, work, broken>>
     ELSE GiveUp(f) /\ broken' = TRUE

\* 401, another 4xx, or 413 for a single row: the error is recorded.
Refused(f, taken) ==
  /\ Attempt(f, taken)
  /\ \A item \in Batch(f) : Posted(item.kind)
  /\ GiveUp(f) /\ broken' = TRUE
  /\ UNCHANGED received

\* No response.  The server may have stored the batch; nothing is recorded.
NoResponse(f, taken, stored) ==
  /\ Attempt(f, taken)
  /\ \A item \in Batch(f) : Posted(item.kind)
  /\ received' = IF stored THEN received \cup Payloads(Batch(f)) ELSE received
  /\ GiveUp(f) /\ UNCHANGED broken

Post(f) ==
  /\ pc[f] = "post"
  /\ \E taken \in BOOLEAN :
      \/ Accepted(f, taken)
      \/ \E left \in SUBSET Batch(f) : TooLarge(f, taken, left)
      \/ RateLimited(f, taken)
      \/ \E stored \in BOOLEAN : ServerError(f, taken, stored)
      \/ Refused(f, taken)
      \/ \E stored \in BOOLEAN : NoResponse(f, taken, stored)

\* mark_outbox_sent marks the ids that are still there.
Mark(f) ==
  /\ pc[f] = "mark"
  /\ outbox' = [id \in DOMAIN outbox |->
                  IF \E item \in Batch(f) : item.id = id
                  THEN [outbox[id] EXCEPT !.sent = TRUE] ELSE outbox[id]]
  /\ Goto(f, "ok")
  /\ UNCHANGED <<lastId, made, received, exported, work, failures, broken, crashes>>

StateOk_StopsThere(f) ==
  /\ pc[f] = "ok"
  /\ broken' = FALSE
  /\ Goto(f, "post") /\ UNCHANGED <<work, failures>>
  /\ UNCHANGED <<queue, received, exported, crashes>>

\* set_sync_state_ok; then the other half of a split batch, or a new batch.
StateOk(f) ==
  /\ pc[f] = "ok"
  /\ broken' = FALSE
  /\ NextBatch(f, Tail(work[f]))
  /\ UNCHANGED <<queue, received, exported, crashes>>

\* A flusher is killed, or a statement of it fails.
Crash(f) ==
  /\ pc[f] # "idle"
  /\ crashes < MaxCrashes
  /\ crashes' = crashes + 1
  /\ GiveUp(f)
  /\ UNCHANGED <<queue, received, exported, broken>>

Enqueue ==
  \E owner \in Owners :
    \/ \E kind \in Kinds : AppendRow(owner, kind)
    \/ \E n \in 0 .. MaxReplace : Replace(owner, n)
    \/ Prune(owner)

Flush(f) ==
  \/ \E ids \in SUBSET PendingIds : Begin(f, ids)
  \/ Post(f)
  \/ Mark(f)
  \/ StateOk(f)
  \/ Crash(f)

Next == Enqueue \/ \E f \in Flushers : Flush(f)

Spec == Init /\ [][Next]_vars

\* The loop of `sync run` goes on for ever, and a server that is asked again
\* and again accepts again and again, with its exporters.
Fairness ==
  \A f \in Flushers :
    /\ WF_vars(\E ids \in SUBSET PendingIds : Begin(f, ids))
    /\ SF_vars(pc[f] = "post" /\ Accepted(f, TRUE))
    /\ WF_vars(Mark(f))
    /\ WF_vars(StateOk(f))

FairSpec == Spec /\ Fairness
-----------------------------------------------------------------------------
(* Properties. *)

Labels == {"idle", "post", "mark", "ok"}

TypeOK ==
  /\ outbox = [id \in DOMAIN outbox |-> outbox[id]]
  /\ DOMAIN outbox \subseteq 1 .. lastId
  /\ \A id \in DOMAIN outbox : outbox[id] \in Row
  /\ lastId \in Nat
  /\ made \in 0 .. MaxPayloads
  /\ received \subseteq 1 .. made
  /\ exported \subseteq 1 .. made
  /\ pc \in [Flushers -> Labels]
  /\ work \in [Flushers -> Seq(SUBSET Item)]
  /\ failures \in [Flushers -> 0 .. MaxFailures]
  /\ broken \in BOOLEAN
  /\ crashes \in 0 .. MaxCrashes

\* The rows reach the server in the order of the outbox: of two rows that are
\* both still there, the later one is not delivered before the earlier one,
\* whatever was split, retried or replaced, and however many flushers run
\* (list_outbox_pending, pack_batch_payloads, the recursion on 413).
DeliveredInOrder ==
  \A i, j \in DOMAIN outbox :
    i < j /\ Posted(outbox[i].kind) /\ outbox[j].payload \in received
      => outbox[i].payload \in received

\* With fail_open = false a row is cleared only when the exporters have it.
ClearedRowsWereExported ==
  ~FailOpen => \A id \in DOMAIN outbox : outbox[id].sent => outbox[id].payload \in exported

\* What waits for delivery to the server.
Queued == {outbox[id].payload : id \in {i \in PendingIds : Posted(outbox[i].kind)}}

\* The payloads whose rows were replaced or pruned.
Withdrawn == 1 .. made \ {outbox[id].payload : id \in DOMAIN outbox}

Delivery == INSTANCE AtLeastOnce WITH
              Payload <- 1 .. MaxPayloads, queued <- Queued, withdrawn <- Withdrawn

\* The outbox keeps its promise: only what the server has, or what is replaced
\* or pruned, leaves the queue, though rows are replaced while they are being
\* posted, requests end without an answer, and flushers race or die.
KeepsPromise == Delivery!Spec

\* Every row is delivered, replaced or pruned in the end.
QueueDrains ==
  \A n \in 1 .. MaxPayloads : n \in Queued ~> n \notin Queued
=============================================================================
