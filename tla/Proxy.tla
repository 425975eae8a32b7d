--------------------------------- MODULE Proxy ---------------------------------
(***************************************************************************)
(* The LLM proxy (proxy/): requests of several clients that are forwarded  *)
(* at a time, what they cost, and the event and trace span that each call  *)
(* leaves in the store, where hooks append to the same sessions.           *)
(***************************************************************************)
EXTENDS Naturals, Sequences, FiniteSets, FiniteSetsExt, SequencesExt, TLC, ProxyCost, ProxyLog

CONSTANTS
  Clients,      \* connections to the proxy, and hooks
  Named,        \* sessions that x-kaizen-session and hooks name
  Uuids,        \* ids the proxy makes itself
  Requests,     \* [json, model, messages, fits]
  Bodies,       \* what an upstream may answer, in a body that fits or does not
  FindUsageInBody(_),  \* the usage found in a body: that of ProxyUsage
  Policy,       \* [keep, count]: keep is "all", "last" or "tokens"
  MaxCalls, MaxFaults  \* bounds

VARIABLES
  sessions,  \* id -> agent of its row
  work,      \* what each client waits for
  calls, faults

vars == <<sessions, proxyEvents, llmSpans, work, calls, faults, recordedCalls, overlapped>>
store == <<sessions, proxyEvents, llmSpans>>
history == <<calls, faults, recordedCalls, overlapped>>

Idle == [step |-> "idle", n |-> 0, call |-> None, id |-> None, model |-> None, messages |-> <<>>, seq |-> 0]

Init ==
  /\ sessions = <<>> /\ proxyEvents = <<>> /\ llmSpans = <<>>
  /\ work = [c \in Clients |-> Idle]
  /\ calls = 0 /\ faults = 0
  /\ recordedCalls = {} /\ overlapped = {}

-----------------------------------------------------------------------------
(* What is sent. *)

EstTokensForMessages(messages) == (FoldLeft(LAMBDA n, size : n + size, 2, messages)) \div 4

\* The messages are dropped from the oldest on.
ApplyContextPolicy(messages) ==
  LET n == Len(messages)
      Rest(k) == SubSeq(messages, k + 1, n)
  IN CASE Policy.keep = "last" /\ Policy.count \in 1..n -> Rest(n - Policy.count)
       [] Policy.keep = "tokens" /\ Policy.count = 0 -> <<>>
       [] Policy.keep = "tokens" /\ Policy.count > 0 ->
            Rest(Min({k \in 0..n : k = n \/ EstTokensForMessages(Rest(k)) <= Policy.count}))
       [] OTHER -> messages

ProcessRequest(r) == IF r.json THEN ApplyContextPolicy(r.messages) ELSE r.messages

-----------------------------------------------------------------------------
(* A request on its way. *)

\* One id for each request that names no session.
SessionIds(named) ==
  IF named # None THEN {named}
  ELSE Uuids \ (DOMAIN sessions \cup {work[c].id : c \in Clients})

Receive(c) ==
  /\ work[c] = Idle /\ calls < MaxCalls
  /\ \E r \in Requests, named \in Named \cup {None} : \E id \in SessionIds(named) :
       /\ r.fits  \* a body over max_request_bytes is refused with 502
       /\ work' = [work EXCEPT ![c] =
            [Idle EXCEPT !.step = "send", !.n = calls + 1, !.id = id,
                         !.model = IF r.json THEN r.model ELSE None,
                         !.messages = ProcessRequest(r)]]
       /\ calls' = calls + 1
  /\ UNCHANGED <<store, faults, recordedCalls, overlapped>>

Call(c, u, failed, status) ==
  [n |-> work[c].n, failed |-> failed, status |-> status, usage |-> u,
   cost |-> ProxyEventCost(work[c].model, u, failed)]

Recorded(c, call) == work' = [work EXCEPT ![c].step = "session", ![c].call = call]

\* No connection, or none that answers in time: the status is 0.
SendFails(c) ==
  /\ work[c].step = "send" /\ faults < MaxFaults
  /\ faults' = faults + 1
  /\ Recorded(c, Call(c, NoUsage, TRUE, 0))
  /\ UNCHANGED <<store, calls, recordedCalls, overlapped>>

\* The answer breaks off.
BodyFails(c) ==
  /\ work[c].step = "send" /\ faults < MaxFaults
  /\ faults' = faults + 1
  /\ \E status \in {200, 429} : Recorded(c, Call(c, NoUsage, TRUE, status))
  /\ UNCHANGED <<store, calls, recordedCalls, overlapped>>

\* A body over max_response_bytes is thrown away with its usage.
Answered(c) ==
  /\ work[c].step = "send"
  /\ \E b \in Bodies, status \in {200, 429} :
       IF ~b.fits
       THEN Recorded(c, Call(c, NoUsage, TRUE, status))
       ELSE Recorded(c, Call(c, FindUsageInBody(b), status # 200, status))
  /\ UNCHANGED <<store, history>>

\* The client goes away while the proxy waits: its handler is dropped.
Disconnect(c) ==
  /\ work[c].step = "send"
  /\ work' = [work EXCEPT ![c] = Idle]
  /\ UNCHANGED <<store, history>>

-----------------------------------------------------------------------------
(* Its record: a blocking task, which goes on when the client leaves. *)

LookForSession(c) ==
  /\ work[c].step = "session"
  /\ work' = [work EXCEPT ![c].step = IF work[c].id \in DOMAIN sessions THEN "seq" ELSE "upsert"]
  /\ UNCHANGED <<store, history>>

\* The whole row is written, also over one that came in between.
UpsertSession(c) ==
  /\ work[c].step = "upsert"
  /\ sessions' = (work[c].id :> "claude") @@ sessions
  /\ work' = [work EXCEPT ![c].step = "seq"]
  /\ UNCHANGED <<proxyEvents, llmSpans, history>>

ReadSeq(c) ==
  /\ work[c].step = "seq"
  /\ work' = [work EXCEPT ![c].step = "append", ![c].seq = NextEventSeq(work[c].id)]
  /\ UNCHANGED <<store, history>>

Appending(id) == {c \in Clients : work[c].step = "append" /\ work[c].id = id}

\* An event whose seq is taken is dropped, and nobody is told.
AppendEvent(c) ==
  LET id == work[c].id
      call == work[c].call
      together == Appending(id)
  IN /\ work[c].step = "append"
     /\ proxyEvents' = InsertedOrIgnored(proxyEvents, <<id, work[c].seq>>, call)
     /\ overlapped' = IF Cardinality(together) > 1
                      THEN overlapped \cup {work[d].n : d \in together}
                      ELSE overlapped
     /\ work' = IF call.status = None
                THEN [work EXCEPT ![c] = Idle]
                ELSE [work EXCEPT ![c].step = "span"]
     /\ UNCHANGED <<sessions, llmSpans, calls, faults, recordedCalls>>

SpanId_PerSession(id, seq) == <<id, 0>>

SpanId(id, seq) == <<id, seq>>

UpsertTraceSpan(c) ==
  /\ work[c].step = "span"
  /\ llmSpans' = Upserted(llmSpans, SpanId(work[c].id, work[c].seq), work[c].call)
  /\ recordedCalls' = recordedCalls
       \cup {[call |-> work[c].call, id |-> work[c].id, seq |-> work[c].seq]}
  /\ work' = [work EXCEPT ![c] = Idle]
  /\ UNCHANGED <<sessions, proxyEvents, calls, faults, overlapped>>

\* A statement fails: a warning, and the client has its answer as before.
RecordFails(c) ==
  /\ work[c].step \in {"session", "upsert", "seq", "append", "span"} /\ faults < MaxFaults
  /\ faults' = faults + 1
  /\ work' = [work EXCEPT ![c] = Idle]
  /\ UNCHANGED <<store, calls, recordedCalls, overlapped>>

\* A hook of a session that the proxy may see too.
Hook(c) ==
  /\ work[c] = Idle /\ calls < MaxCalls
  /\ \E id \in Named :
       /\ sessions' = sessions @@ (id :> "hooked")
       /\ work' = [work EXCEPT ![c] =
            [Idle EXCEPT !.step = "seq", !.n = calls + 1, !.id = id,
                         !.call = [n |-> calls + 1, failed |-> FALSE, status |-> None,
                                   usage |-> NoUsage, cost |-> None]]]
  /\ calls' = calls + 1
  /\ UNCHANGED <<proxyEvents, llmSpans, faults, recordedCalls, overlapped>>

Next ==
  \E c \in Clients :
     \/ Receive(c) \/ SendFails(c) \/ BodyFails(c) \/ Answered(c) \/ Disconnect(c)
     \/ LookForSession(c) \/ UpsertSession(c) \/ ReadSeq(c) \/ AppendEvent(c) \/ UpsertTraceSpan(c)
     \/ RecordFails(c) \/ Hook(c)

Spec == Init /\ [][Next]_vars

-----------------------------------------------------------------------------
Steps == {"idle", "send", "session", "upsert", "seq", "append", "span"}

(* Ids, seqs and steps are of the kinds the code has.                      *)
TypeOK ==
  LET ids == Named \cup Uuids
  IN /\ DOMAIN sessions \subseteq ids
     /\ DOMAIN proxyEvents \subseteq ids \X Nat /\ DOMAIN llmSpans \subseteq ids \X Nat
     /\ \A c \in Clients : work[c].step \in Steps /\ work[c].id \in ids \cup {None}
     /\ calls \in 0..MaxCalls /\ faults \in 0..MaxFaults
================================================================================
