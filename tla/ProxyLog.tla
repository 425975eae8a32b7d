-------------------------------- MODULE ProxyLog --------------------------------
(***************************************************************************)
(* What the calls of the LLM proxy leave in the store, and what must be in *)
(* it once a call is recorded.  Proxy has the steps.                       *)
(***************************************************************************)
EXTENDS Naturals, FiniteSets, FiniteSetsExt

VARIABLES
  proxyEvents,    \* <<id, seq>> -> the call it tells of
  llmSpans,       \* span id -> the call it tells of
  recordedCalls,  \* history: [call, id, seq] of the calls recorded to the end
  overlapped      \* history: calls that shared their session with another append

\* MAX(seq) + 1 of the session.
NextEventSeq(id) ==
  LET seqs == {e[2] : e \in {e \in DOMAIN proxyEvents : e[1] = id}}
  IN IF seqs = {} THEN 0 ELSE Max(seqs) + 1

\* A row whose key is taken is dropped, or written over.
InsertedOrIgnored(table, key, row) ==
  [k \in DOMAIN table \cup {key} |-> IF k \in DOMAIN table THEN table[k] ELSE row]

Upserted(table, key, row) ==
  [k \in DOMAIN table \cup {key} |-> IF k = key THEN row ELSE table[k]]

(* A call that was recorded to its end, and that no other append of its    *)
(* session overlapped, has its event and its span, with what it used and   *)
(* what that costs: every model call is logged (docs/llm-proxy.md:3-5).    *)
CallsAreLogged ==
  \A l \in recordedCalls :
    l.call.n \notin overlapped =>
      /\ <<l.id, l.seq>> \in DOMAIN proxyEvents /\ proxyEvents[<<l.id, l.seq>>] = l.call
      /\ <<l.id, l.seq>> \in DOMAIN llmSpans /\ llmSpans[<<l.id, l.seq>>] = l.call
=================================================================================
