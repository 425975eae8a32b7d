----------------------------- MODULE Supervisor -----------------------------
(***************************************************************************)
(* What a daemon keeps running for its workspaces (daemon/supervisor.rs,   *)
(* daemon/proxy_task.rs, daemon/scanner_task.rs): LLM proxies, scanner     *)
(* loops and the capture status of each.  Requests are tasks; each lock of *)
(* the supervisor's state is one step, and between two of them every await *)
(* lets other tasks run.                                                   *)
(***************************************************************************)
EXTENDS Integers, Sequences, FiniteSets

CONSTANTS
  Tasks,       \* request handlers, each for one request
  Workspaces,
  Configured,  \* the provider of the proxy section of the configuration
  MaxPorts,    \* bound: ephemeral ports
  MaxFailures, \* bound: proxies that die or fail to start, scans that fail
  None

VARIABLES
  captures,    \* captures[w]: its capture status, or None
  table,       \* table[<<w, p>>]: the proxy remembered, or None
  reserved,    \* workspaces in state.scanners
  loops,       \* loops[w]: scanner loops spawned, with what each is at
  running,     \* running[port]: the key of the proxy that listens there
  scanning,    \* the task or loop that holds the scan lock
  pc, req,     \* pc[t], req[t]: what task t does next, and its request
  todo,        \* todo[t]: providers it still has to ensure a proxy for
  got,         \* got[t]: the endpoints it has, those of its own status if deep
  started,     \* started[t]: the proxy it has started and not yet remembered, or None
  spawns,      \* spawns[t]: it has reserved the scanner
  outcome,     \* outcome[x]: result of the last scan of task or loop x
  failures

tasks == <<pc, req, todo, got, started, spawns>>
scans == <<reserved, loops, scanning, outcome>>
vars  == <<captures, table, running, scans, tasks, failures>>

Providers == {"anthropic", "openai"}
Keys  == Workspaces \X Providers

\* The port of the configuration, which the proxies of all workspaces with
\* the configured provider prefer, and those the system hands out.
Preferred == 0
Ports == 0..MaxPorts

Endpoint == [provider : Providers, port : Ports]
Handle   == [port : Ports, finished : BOOLEAN]

\* Tasks and loops are known by their names; None is no key and no handle.
ASSUME SupervisorAssumption ==
  /\ MaxPorts \in Nat /\ MaxFailures \in Nat
  /\ Tasks \cap Workspaces = {} /\ None \notin Keys \cup Handle

\* The capture status: the transcript scanner's health, and the proxies.
Capture == [health : {"pending", "ready", "error"}, proxies : SUBSET Endpoint]

Both == <<"anthropic", "openai">>

\* The providers a request needs: `observe` those of its agent, or both
\* (providers_for_agent).
Needs(kind) ==
  CASE kind = "capture" -> {<<>>}
    [] kind = "deep"    -> {Both}
    [] kind = "proxy"   -> {<<p>> : p \in Providers}
    [] kind = "session" -> {<<p>> : p \in Providers} \cup {Both}

Requests == [kind : {"capture", "deep", "proxy", "session"}, ws : Workspaces]

NoRequest == [kind |-> None, ws |-> None]

Init ==
  /\ captures = [w \in Workspaces |-> None]
  /\ table = [k \in Keys |-> None]
  /\ running = [p \in Ports |-> None]
  /\ reserved = {} /\ scanning = None
  /\ loops = [w \in Workspaces |-> <<>>]
  /\ outcome = [x \in Tasks \cup Workspaces |-> None]
  /\ pc = [t \in Tasks |-> "idle"]
  /\ req = [t \in Tasks |-> NoRequest]
  /\ todo = [t \in Tasks |-> <<>>]
  /\ got = [t \in Tasks |-> {}]
  /\ started = [t \in Tasks |-> None]
  /\ spawns = [t \in Tasks |-> FALSE]
  /\ failures = 0

Goto(t, to) == pc' = [pc EXCEPT ![t] = to]

\* Where a task goes when it has all its proxies.
AfterProxies(t) == IF req[t].kind = "deep" THEN "remember_capture" ELSE "done"

Begin(t) ==
  /\ pc[t] = "idle"
  /\ \E r \in Requests : \E providers \in Needs(r.kind) :
       /\ req' = [req EXCEPT ![t] = r]
       /\ todo' = [todo EXCEPT ![t] = providers]
       /\ Goto(t, IF r.kind \in {"proxy", "deep"} THEN "existing_proxy"
                  ELSE "remember_capture")
  /\ UNCHANGED <<captures, table, running, scans, got, started, spawns, failures>>

-----------------------------------------------------------------------------
(***************************************************************************)
(* ensure_proxy.                                                           *)
(***************************************************************************)

Key(t) == <<req[t].ws, Head(todo[t])>>

Alive(k) == table[k] # None /\ ~table[k].finished

EndpointOf(k) == [provider |-> k[2], port |-> table[k].port]

\* The endpoint is known: on to the next provider.
Have(t, endpoint) ==
  /\ got' = [got EXCEPT ![t] = @ \cup {endpoint}]
  /\ todo' = [todo EXCEPT ![t] = Tail(@)]
  /\ Goto(t, IF Len(todo[t]) = 1 THEN AfterProxies(t) ELSE "existing_proxy")

ExistingProxy(t) ==
  /\ pc[t] = "existing_proxy"
  /\ IF Alive(Key(t))
       THEN Have(t, EndpointOf(Key(t))) /\ UNCHANGED table
       ELSE /\ table' = [table EXCEPT ![Key(t)] = None]
            /\ Goto(t, "start_proxy")
            /\ UNCHANGED <<got, todo>>
  /\ UNCHANGED <<captures, running, scans, req, started, spawns, failures>>

\* The ports that start_proxy may bind: the preferred one if it is free.
Bindable(p) ==
  IF p = Configured /\ running[Preferred] = None THEN {Preferred}
  ELSE {q \in Ports \ {Preferred} : running[q] = None}

StartProxy(t) ==
  /\ pc[t] = "start_proxy"
  /\ \E q \in Bindable(Head(todo[t])) :
       /\ running' = [running EXCEPT ![q] = Key(t)]
       /\ started' = [started EXCEPT ![t] = [port |-> q, finished |-> FALSE]]
  /\ Goto(t, "remember_proxy")
  /\ UNCHANGED <<captures, table, scans, req, todo, got, spawns, failures>>

\* No configuration or no port: a deep capture goes on without this proxy,
\* any other request ends with the error.
StartFails(t) ==
  /\ pc[t] = "start_proxy" /\ failures < MaxFailures
  /\ failures' = failures + 1
  /\ IF req[t].kind = "deep"
       THEN /\ todo' = [todo EXCEPT ![t] = Tail(@)]
            /\ Goto(t, IF Len(todo[t]) = 1 THEN AfterProxies(t) ELSE "existing_proxy")
       ELSE Goto(t, "done") /\ UNCHANGED todo
  /\ UNCHANGED <<captures, table, running, scans, req, got, started, spawns>>

\* The capture lists one endpoint for each provider.
WithProxy_Adds(c, e) == [c EXCEPT !.proxies = @ \cup {e}]

WithProxy(c, e) ==
  [c EXCEPT !.proxies = {x \in @ : x.provider # e.provider} \cup {e}]

RememberProxy(t) ==
  LET w == req[t].ws
      e == [provider |-> Head(todo[t]), port |-> started[t].port]
  IN  /\ pc[t] = "remember_proxy"
      /\ table' = [table EXCEPT ![Key(t)] = started[t]]
      /\ captures' = IF captures[w] = None THEN captures
                     ELSE [captures EXCEPT ![w] = WithProxy(@, e)]
      /\ started' = [started EXCEPT ![t] = None]
      /\ Have(t, e)
      /\ UNCHANGED <<running, scans, req, spawns, failures>>

\* A proxy's task ends with an error; its handle, if anyone has it, is finished.
Finished(h, q) ==
  IF h = [port |-> q, finished |-> FALSE] THEN [port |-> q, finished |-> TRUE] ELSE h

ProxyDies(q) ==
  /\ running[q] # None /\ failures < MaxFailures
  /\ running' = [running EXCEPT ![q] = None]
  /\ table' = [k \in Keys |-> Finished(table[k], q)]
  /\ started' = [t \in Tasks |-> Finished(started[t], q)]
  /\ failures' = failures + 1
  /\ UNCHANGED <<captures, scans, pc, req, todo, got, spawns>>

-----------------------------------------------------------------------------
(***************************************************************************)
(* ensure_capture.                                                         *)
(***************************************************************************)

ProxiesOf(w) == {k \in Keys : k[1] = w /\ table[k] # None}

\* Proxies that other requests have started meanwhile are merged in.
Merged_Not(w, proxies) == proxies

Merged(w, proxies) ==
  proxies \cup {EndpointOf(k) : k \in {j \in ProxiesOf(w) :
                                        \A x \in proxies : x.provider # j[2]}}

RememberCapture(t) ==
  LET w == req[t].ws
      proxies == IF req[t].kind = "deep" THEN got[t] ELSE {}
  IN  /\ pc[t] = "remember_capture"
      /\ captures' = [captures EXCEPT ![w] =
                        [health |-> "pending", proxies |-> Merged(w, proxies)]]
      /\ Goto(t, "reserve")
      /\ UNCHANGED <<table, running, scans, req, todo, got, started, spawns, failures>>

ReserveScanner_Always(t) ==
  /\ pc[t] = "reserve"
  /\ spawns' = [spawns EXCEPT ![t] = TRUE]
  /\ reserved' = reserved \cup {req[t].ws}
  /\ Goto(t, "scan")
  /\ UNCHANGED <<captures, table, running, loops, scanning, outcome, req, todo, got,
                 started, failures>>

ReserveScanner(t) ==
  /\ pc[t] = "reserve"
  /\ spawns' = [spawns EXCEPT ![t] = req[t].ws \notin reserved]
  /\ reserved' = reserved \cup {req[t].ws}
  /\ Goto(t, "scan")
  /\ UNCHANGED <<captures, table, running, loops, scanning, outcome, req, todo, got,
                 started, failures>>

\* scan_workspace holds one lock for all workspaces.
ScanBegins(x) == scanning = None /\ scanning' = x

ScanEnds(x) ==
  /\ scanning = x /\ scanning' = None
  /\ \E ok \in BOOLEAN :
       /\ ok \/ failures < MaxFailures
       /\ outcome' = [outcome EXCEPT ![x] = IF ok THEN "ready" ELSE "error"]
       /\ failures' = IF ok THEN failures ELSE failures + 1

\* record_scan_result: the health of the workspace's capture, if it has one.
Recorded(x, w) ==
  /\ captures' = IF captures[w] = None THEN captures
                 ELSE [captures EXCEPT ![w].health = outcome[x]]
  /\ outcome' = [outcome EXCEPT ![x] = None]

TaskScanBegins(t) ==
  /\ pc[t] = "scan" /\ ScanBegins(t)
  /\ Goto(t, "scanning")
  /\ UNCHANGED <<captures, table, running, reserved, loops, outcome, req, todo, got,
                 started, spawns, failures>>

TaskScanEnds(t) ==
  /\ pc[t] = "scanning" /\ ScanEnds(t)
  /\ Goto(t, "record")
  /\ UNCHANGED <<captures, table, running, reserved, loops, req, todo, got,
                 started, spawns>>

RecordAndSpawn_WhenReserved(t) ==
  LET w == req[t].ws IN
  /\ pc[t] = "record"
  /\ IF spawns[t] THEN Recorded(t, w) ELSE UNCHANGED <<captures, outcome>>
  /\ loops' = IF spawns[t] THEN [loops EXCEPT ![w] = Append(@, "sleep")] ELSE loops
  /\ Goto(t, IF todo[t] # <<>> THEN "existing_proxy" ELSE "done")
  /\ UNCHANGED <<table, running, reserved, scanning, req, todo, got, started, spawns,
                 failures>>

RecordAndSpawn(t) ==
  LET w == req[t].ws IN
  /\ pc[t] = "record"
  /\ Recorded(t, w)
  /\ loops' = IF spawns[t] THEN [loops EXCEPT ![w] = Append(@, "sleep")] ELSE loops
  /\ Goto(t, IF todo[t] # <<>> THEN "existing_proxy" ELSE "done")
  /\ UNCHANGED <<table, running, reserved, scanning, req, todo, got, started, spawns,
                 failures>>

\* scanner_loop.
LoopStep(w) ==
  /\ \E i \in DOMAIN loops[w] :
       LET Go(from, to) == /\ loops[w][i] = from
                           /\ loops' = [loops EXCEPT ![w][i] = to]
       IN  \/ Go("sleep", "scanning") /\ ScanBegins(w)
              /\ UNCHANGED <<captures, outcome, failures>>
           \/ Go("scanning", "record") /\ ScanEnds(w) /\ UNCHANGED captures
           \/ Go("record", "sleep") /\ Recorded(w, w)
              /\ UNCHANGED <<scanning, failures>>
  /\ UNCHANGED <<table, running, reserved, tasks>>

-----------------------------------------------------------------------------

TaskStep(t) ==
  \/ ExistingProxy(t) \/ StartProxy(t) \/ StartFails(t) \/ RememberProxy(t)
  \/ RememberCapture(t) \/ ReserveScanner(t)
  \/ TaskScanBegins(t) \/ TaskScanEnds(t) \/ RecordAndSpawn(t)

Next ==
  \/ \E t \in Tasks : Begin(t) \/ TaskStep(t)
  \/ \E w \in Workspaces : LoopStep(w)
  \/ \E q \in Ports : ProxyDies(q)

Spec == Init /\ [][Next]_vars

-----------------------------------------------------------------------------

TypeOK ==
  /\ captures \in [Workspaces -> Capture \cup {None}]
  /\ table \in [Keys -> Handle \cup {None}]
  /\ running \in [Ports -> Keys \cup {None}]
  /\ reserved \subseteq Workspaces
  /\ loops \in [Workspaces -> Seq({"sleep", "scanning", "record"})]
  /\ scanning \in Tasks \cup Workspaces \cup {None}
  /\ outcome \in [Tasks \cup Workspaces -> {"ready", "error", None}]
  /\ pc \in [Tasks -> {"idle", "existing_proxy", "start_proxy", "remember_proxy",
                        "remember_capture", "reserve", "scan", "scanning", "record", "done"}]
  /\ req \in [Tasks -> Requests \cup {NoRequest}]
  /\ todo \in [Tasks -> Seq(Providers)]
  /\ got \in [Tasks -> SUBSET Endpoint]
  /\ started \in [Tasks -> Handle \cup {None}]
  /\ spawns \in [Tasks -> BOOLEAN]
  /\ failures \in 0..MaxFailures

(***************************************************************************)
(* Every proxy in the table is reported in the capture of its workspace,   *)
(* and no provider is reported twice: remember_proxy and remember_capture  *)
(* agree in whichever order two requests interleave.                       *)
(***************************************************************************)
EachOnce(endpoints) == \A x, y \in endpoints : x.provider = y.provider => x = y

TableProxiesAreReported ==
  \A w \in Workspaces : captures[w] # None =>
    /\ \A k \in ProxiesOf(w) : \E x \in captures[w].proxies : x.provider = k[2]
    /\ EachOnce(captures[w].proxies)

(***************************************************************************)
(* "initial scan pending" is shown only while a request is on its way to   *)
(* record a scan, and a workspace has at most one scanner loop             *)
(* (ensure_scanner; docs/daemon.md: "starts a workspace scanner loop and   *)
(* records capture health").                                               *)
(***************************************************************************)
CapturesGetHealth ==
  \A w \in Workspaces :
    /\ Len(loops[w]) <= 1
    /\ captures[w] # None /\ captures[w].health = "pending" =>
         \E t \in Tasks : req[t].ws = w /\ pc[t] \in {"reserve", "scan", "scanning", "record"}

(***************************************************************************)
(* A proxy that existing_proxy would hand out listens on its port, for that *)
(* workspace and provider, though it may die at any time, also between its  *)
(* start and remember_proxy, and its port may be taken by another.          *)
(***************************************************************************)
KnownProxiesListen == \A k \in Keys : Alive(k) => running[table[k].port] = k

(***************************************************************************)
(* The table agrees with what runs and with what is reported: the two      *)
(* properties above, which must hold together for a status to be true.     *)
(***************************************************************************)
TableIsRight == KnownProxiesListen /\ TableProxiesAreReported
=============================================================================
