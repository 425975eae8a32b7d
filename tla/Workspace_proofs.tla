--------------------------- MODULE Workspace_proofs ---------------------------
(* Theorems about parts of a workspace that keep to themselves: Supervisor,  *)
(* for any number of tasks, workspaces, ports and failures; Experiments, for *)
(* any commands, sessions and times; Proxy, for any finite number of clients *)
(* and any requests, answers, prices and failures; Remote, for any commands, *)
(* exported events, windows and page limits; and Tui, for any finite set of  *)
(* sessions, any heights and any numbers of keys, changes and failures.      *)
EXTENDS Supervisor, ExperimentTags, ProxyLog, RemoteCache, TuiScreen, FiniteSetTheorems,
        SequenceTheorems, WellFoundedInduction, TLAPS

(***************************************************************************)
(* Supervisor.                                                             *)
(***************************************************************************)

\* The control state of a task: it has what its next step takes for granted.
ControlOK(t) ==
  /\ pc[t] = "idle" => got[t] = {}
  /\ pc[t] # "idle" => req[t] \in Requests
  /\ pc[t] \in {"existing_proxy", "start_proxy", "remember_proxy"} => todo[t] # <<>>
  /\ pc[t] = "remember_proxy" => started[t] \in Handle
  /\ pc[t] = "record" => outcome[t] \in {"ready", "error"}

\* The endpoints a task has and the providers it still needs are all of
\* different providers.
ProvidersOK(t) ==
  /\ \A i, j \in DOMAIN todo[t] : todo[t][i] = todo[t][j] => i = j
  /\ \A e \in got[t], i \in DOMAIN todo[t] : e.provider # todo[t][i]
  /\ EachOnce(got[t])

\* The proxy that a task has started runs, unless its handle says otherwise.
StartedOK(t) ==
  pc[t] = "remember_proxy" /\ ~started[t].finished => running[started[t].port] = Key(t)

WillSpawn(t) == spawns[t] /\ pc[t] \in {"scan", "scanning", "record"}

\* A workspace has a loop, or a task that will spawn it, or neither; and it is
\* reserved from then on.
LoopOK(w) ==
  /\ Len(loops[w]) <= 1
  /\ loops[w] # <<>> =>
       /\ w \in reserved
       /\ loops[w][1] = "record" => outcome[w] \in {"ready", "error"}
       /\ \A t \in Tasks : WillSpawn(t) => req[t].ws # w

SpawnOK(t) ==
  WillSpawn(t) =>
    /\ req[t].ws \in reserved
    /\ \A u \in Tasks : WillSpawn(u) /\ req[u].ws = req[t].ws => u = t

TasksOK == \A t \in Tasks : ControlOK(t) /\ ProvidersOK(t) /\ StartedOK(t)
LoopsOK == (\A w \in Workspaces : LoopOK(w)) /\ (\A t \in Tasks : SpawnOK(t))

IInv ==
  /\ TypeOK /\ TasksOK /\ LoopsOK
  /\ TableProxiesAreReported /\ CapturesGetHealth /\ KnownProxiesListen

USE SupervisorAssumption

-----------------------------------------------------------------------------
LEMMA InitIInv == Init => IInv
<1> SUFFICES ASSUME Init PROVE IInv
  OBVIOUS
<1>1. TypeOK
  BY DEF Init, TypeOK, Ports, Preferred
<1>2. TasksOK
  BY DEF Init, TasksOK, ControlOK, ProvidersOK, StartedOK, EachOnce
<1>3. LoopsOK
  BY DEF Init, LoopsOK, LoopOK, SpawnOK, WillSpawn
<1>4. TableProxiesAreReported /\ CapturesGetHealth /\ KnownProxiesListen
  BY DEF Init, TableProxiesAreReported, CapturesGetHealth, KnownProxiesListen, Alive
<1> QED
  BY <1>1, <1>2, <1>3, <1>4 DEF IInv

-----------------------------------------------------------------------------
LEMMA BeginKeeps ==
  ASSUME IInv, NEW t \in Tasks, Begin(t)
  PROVE  IInv'
<1> USE DEF IInv
<1>1. PICK r \in Requests : \E providers \in Needs(r.kind) :
        /\ req' = [req EXCEPT ![t] = r]
        /\ todo' = [todo EXCEPT ![t] = providers]
        /\ pc' = [pc EXCEPT ![t] = IF r.kind \in {"proxy", "deep"} THEN "existing_proxy"
                                   ELSE "remember_capture"]
  BY DEF Begin, Goto
<1>2. PICK providers \in Needs(r.kind) :
        /\ req' = [req EXCEPT ![t] = r]
        /\ todo' = [todo EXCEPT ![t] = providers]
        /\ pc' = [pc EXCEPT ![t] = IF r.kind \in {"proxy", "deep"} THEN "existing_proxy"
                                   ELSE "remember_capture"]
  BY <1>1
<1>3. /\ pc[t] = "idle"
      /\ UNCHANGED <<captures, table, running, reserved, loops, scanning, outcome, got,
                     started, spawns, failures>>
  BY DEF Begin, scans
<1>4. /\ providers \in Seq(Providers)
      /\ \A i, j \in DOMAIN providers : providers[i] = providers[j] => i = j
      /\ r.kind \in {"proxy", "deep"} => providers # <<>>
  <2>1. r.kind \in {"capture", "deep", "proxy", "session"}
    BY DEF Requests
  <2>2. \/ providers = <<>> /\ r.kind = "capture"
        \/ \E p \in Providers : providers = <<p>>
        \/ providers = Both
    BY <2>1 DEF Needs
  <2>3. CASE providers = <<>> /\ r.kind = "capture"
    BY <2>3
  <2>4. CASE \E p \in Providers : providers = <<p>>
    BY <2>4
  <2>5. CASE providers = Both
    BY <2>5 DEF Both, Providers
  <2> QED
    BY <2>2, <2>3, <2>4, <2>5
<1>5. TypeOK'
  BY <1>2, <1>3, <1>4 DEF TypeOK
<1>6. TasksOK'
  BY <1>2, <1>3, <1>4
  DEF TypeOK, TasksOK, ControlOK, ProvidersOK, StartedOK, EachOnce, Key
<1>7. LoopsOK'
  BY <1>2, <1>3 DEF TypeOK, LoopsOK, LoopOK, SpawnOK, WillSpawn
<1>8. TableProxiesAreReported'
  BY <1>3 DEF TableProxiesAreReported, ProxiesOf
<1>9. CapturesGetHealth'
  BY <1>2, <1>3 DEF TypeOK, CapturesGetHealth
<1>10. KnownProxiesListen'
  BY <1>3 DEF KnownProxiesListen, Alive
<1> QED
  BY <1>5, <1>6, <1>7, <1>8, <1>9, <1>10

-----------------------------------------------------------------------------
\* What a task that needs a proxy has at hand.
LEMMA AtProxy ==
  ASSUME IInv, NEW t \in Tasks,
         pc[t] \in {"existing_proxy", "start_proxy", "remember_proxy"}
  PROVE  /\ Head(todo[t]) \in Providers /\ Tail(todo[t]) \in Seq(Providers)
         /\ req[t].ws \in Workspaces /\ Key(t) \in Keys
         /\ Len(todo[t]) # 1 => Tail(todo[t]) # <<>>
         /\ \A i, j \in DOMAIN Tail(todo[t]) : Tail(todo[t])[i] = Tail(todo[t])[j] => i = j
         /\ \A i \in DOMAIN Tail(todo[t]) : Tail(todo[t])[i] # Head(todo[t])
         /\ \A e \in got[t], i \in DOMAIN Tail(todo[t]) : e.provider # Tail(todo[t])[i]
         /\ \A e \in got[t] : e.provider # Head(todo[t])
<1>1. /\ todo[t] # <<>> /\ todo[t] \in Seq(Providers) /\ req[t] \in Requests
      /\ ProvidersOK(t)
  BY DEF IInv, TypeOK, TasksOK, ControlOK
<1>2. /\ Head(todo[t]) \in Providers /\ Tail(todo[t]) \in Seq(Providers)
      /\ Len(Tail(todo[t])) = Len(todo[t]) - 1
  BY <1>1
<1>3. req[t].ws \in Workspaces /\ Key(t) \in Keys
  BY <1>1, <1>2 DEF Requests, Key, Keys
<1>4. /\ DOMAIN Tail(todo[t]) = 1 .. Len(todo[t]) - 1
      /\ \A i \in DOMAIN Tail(todo[t]) : Tail(todo[t])[i] = todo[t][i + 1]
      /\ \A i \in DOMAIN Tail(todo[t]) : i + 1 \in DOMAIN todo[t] /\ i + 1 # 1
      /\ 1 \in DOMAIN todo[t] /\ Head(todo[t]) = todo[t][1]
  BY <1>1
<1>5. /\ \A i, j \in DOMAIN Tail(todo[t]) : Tail(todo[t])[i] = Tail(todo[t])[j] => i = j
      /\ \A i \in DOMAIN Tail(todo[t]) : Tail(todo[t])[i] # Head(todo[t])
      /\ \A e \in got[t], i \in DOMAIN Tail(todo[t]) : e.provider # Tail(todo[t])[i]
      /\ \A e \in got[t] : e.provider # Head(todo[t])
  BY <1>1, <1>4 DEF ProvidersOK
<1>6. Len(todo[t]) # 1 => Tail(todo[t]) # <<>>
  <2> SUFFICES ASSUME Len(todo[t]) # 1 PROVE Tail(todo[t]) # <<>>
    OBVIOUS
  <2>1. Len(todo[t]) \in Nat /\ Len(todo[t]) # 0
    BY <1>1
  <2>2. 1 \in 1 .. Len(todo[t]) - 1
    <3> DEFINE n == Len(todo[t])
    <3> HIDE DEF n
    <3> n \in Nat /\ n # 0 /\ n # 1
      BY <2>1 DEF n
    <3> 1 \in 1 .. n - 1
      OBVIOUS
    <3> QED
      BY DEF n
  <2>3. 1 \in DOMAIN Tail(todo[t])
    BY <1>4, <2>2, Zenon
  <2> QED
    BY <2>3
<1> QED
  BY <1>2, <1>3, <1>5, <1>6

\* Where a task goes after a proxy.
Onward(t) == IF Len(todo[t]) = 1 THEN AfterProxies(t) ELSE "existing_proxy"

LEMMA OnwardIs ==
  ASSUME NEW t
  PROVE  Onward(t) \in {"remember_capture", "done", "existing_proxy"}
BY DEF Onward, AfterProxies

LEMMA ExistingProxyKeeps ==
  ASSUME IInv, NEW t \in Tasks, ExistingProxy(t)
  PROVE  IInv'
<1> DEFINE k == Key(t)
<1>1. /\ pc[t] = "existing_proxy"
      /\ UNCHANGED <<captures, running, reserved, loops, scanning, outcome, req, started,
                     spawns, failures>>
  BY DEF ExistingProxy, scans
<1>2. /\ Head(todo[t]) \in Providers /\ Tail(todo[t]) \in Seq(Providers)
      /\ req[t].ws \in Workspaces /\ k \in Keys /\ k[2] = Head(todo[t])
      /\ Len(todo[t]) # 1 => Tail(todo[t]) # <<>>
      /\ \A i, j \in DOMAIN Tail(todo[t]) : Tail(todo[t])[i] = Tail(todo[t])[j] => i = j
      /\ \A i \in DOMAIN Tail(todo[t]) : Tail(todo[t])[i] # k[2]
      /\ \A e \in got[t], i \in DOMAIN Tail(todo[t]) : e.provider # Tail(todo[t])[i]
      /\ \A e \in got[t] : e.provider # k[2]
  BY <1>1, AtProxy DEF Key
<1>3. CASE Alive(k)
  <2> DEFINE e == EndpointOf(k)
  <2>1. /\ got' = [got EXCEPT ![t] = @ \cup {e}]
        /\ todo' = [todo EXCEPT ![t] = Tail(@)]
        /\ pc' = [pc EXCEPT ![t] = Onward(t)]
        /\ UNCHANGED table
    BY <1>3 DEF ExistingProxy, Have, Goto, Onward
  <2>2. e \in Endpoint /\ e.provider = k[2]
    BY <1>2, <1>3 DEF IInv, TypeOK, Alive, EndpointOf, Endpoint, Handle, Keys
  <2>3. Onward(t) \in {"remember_capture", "done", "existing_proxy"}
    BY OnwardIs
  <2>4. Onward(t) = "existing_proxy" => Len(todo[t]) # 1
    BY DEF Onward, AfterProxies
  <2> HIDE DEF e
  <2>5. TypeOK'
    BY <1>1, <1>2, <2>1, <2>2, <2>3 DEF IInv, TypeOK
  <2>6. TasksOK'
    <3> SUFFICES ASSUME NEW u \in Tasks PROVE (ControlOK(u) /\ ProvidersOK(u) /\ StartedOK(u))'
      BY DEF TasksOK
    <3> ControlOK(u) /\ ProvidersOK(u) /\ StartedOK(u)
      BY DEF IInv, TasksOK
    <3> TypeOK
      BY DEF IInv
    <3>1. CASE u = t
      <4>1. ControlOK(t)'
        BY <1>1, <1>2, <2>1, <2>3, <2>4, <3>1 DEF TypeOK, ControlOK
      <4>2. got'[t] = got[t] \cup {e} /\ todo'[t] = Tail(todo[t])
        BY <2>1 DEF TypeOK
      <4>3. ProvidersOK(t)'
        BY <1>2, <2>2, <3>1, <4>2 DEF ProvidersOK, EachOnce
      <4>4. StartedOK(t)'
        BY <2>1, <2>3 DEF TypeOK, StartedOK
      <4> QED
        BY <3>1, <4>1, <4>3, <4>4
    <3>2. CASE u # t
      BY <1>1, <2>1, <3>2 DEF TypeOK, ControlOK, ProvidersOK, StartedOK, EachOnce, Key
    <3> QED
      BY <3>1, <3>2
  <2>7. LoopsOK'
    BY <1>1, <2>1, <2>3 DEF IInv, TypeOK, LoopsOK, LoopOK, SpawnOK, WillSpawn
  <2>8. TableProxiesAreReported'
    BY <1>1, <2>1 DEF IInv, TableProxiesAreReported, ProxiesOf
  <2>9. CapturesGetHealth'
    BY <1>1, <2>1, <2>3 DEF IInv, TypeOK, CapturesGetHealth
  <2>10. KnownProxiesListen'
    BY <1>1, <2>1 DEF IInv, KnownProxiesListen, Alive
  <2> QED
    BY <2>5, <2>6, <2>7, <2>8, <2>9, <2>10 DEF IInv
<1>4. CASE ~Alive(k)
  <2>1. /\ table' = [table EXCEPT ![k] = None]
        /\ pc' = [pc EXCEPT ![t] = "start_proxy"]
        /\ UNCHANGED <<got, todo>>
    BY <1>4 DEF ExistingProxy, Goto
  <2> HIDE DEF k
  <2>2. TypeOK'
    BY <1>1, <1>2, <2>1 DEF IInv, TypeOK
  <2>3. TasksOK'
    BY <1>1, <2>1
    DEF IInv, TypeOK, TasksOK, ControlOK, ProvidersOK, StartedOK, EachOnce, Key
  <2>4. LoopsOK'
    BY <1>1, <2>1 DEF IInv, TypeOK, LoopsOK, LoopOK, SpawnOK, WillSpawn
  <2>5. TableProxiesAreReported'
    BY <1>1, <1>2, <2>1 DEF IInv, TypeOK, TableProxiesAreReported, ProxiesOf
  <2>6. CapturesGetHealth'
    BY <1>1, <2>1 DEF IInv, TypeOK, CapturesGetHealth
  <2>7. KnownProxiesListen'
    BY <1>1, <1>2, <2>1 DEF IInv, TypeOK, KnownProxiesListen, Alive
  <2> QED
    BY <2>2, <2>3, <2>4, <2>5, <2>6, <2>7 DEF IInv
<1> QED
  BY <1>3, <1>4

LEMMA StartProxyKeeps ==
  ASSUME IInv, NEW t \in Tasks, StartProxy(t)
  PROVE  IInv'
<1> DEFINE k == Key(t)
<1>1. PICK q \in Bindable(Head(todo[t])) :
        /\ running' = [running EXCEPT ![q] = k]
        /\ started' = [started EXCEPT ![t] = [port |-> q, finished |-> FALSE]]
  BY DEF StartProxy
<1>2. /\ pc[t] = "start_proxy" /\ pc' = [pc EXCEPT ![t] = "remember_proxy"]
      /\ UNCHANGED <<captures, table, reserved, loops, scanning, outcome, req, todo, got,
                     spawns, failures>>
  BY DEF StartProxy, Goto, scans
<1>3. q \in Ports /\ running[q] = None /\ k \in Keys
  BY <1>2, AtProxy DEF Bindable, Ports, Preferred
<1>4. Key(t)' = k
  BY <1>2 DEF Key
<1> HIDE DEF k
<1>5. TypeOK'
  BY <1>1, <1>2, <1>3 DEF IInv, TypeOK, Handle
<1>6. TasksOK'
  <2> SUFFICES ASSUME NEW u \in Tasks PROVE (ControlOK(u) /\ ProvidersOK(u) /\ StartedOK(u))'
    BY DEF TasksOK
  <2> /\ ControlOK(u) /\ ProvidersOK(u) /\ StartedOK(u) /\ TypeOK
      /\ pc[u] = "remember_proxy" => Key(u) \in Keys
    BY AtProxy DEF IInv, TasksOK
  <2>1. ControlOK(u)' /\ ProvidersOK(u)'
    BY <1>1, <1>2, <1>3 DEF TypeOK, ControlOK, ProvidersOK, EachOnce, Handle
  <2>2. StartedOK(u)'
    <3>1. CASE u = t
      BY <1>1, <1>2, <1>3, <1>4, <3>1 DEF TypeOK, StartedOK
    <3>2. CASE u # t
      BY <1>1, <1>2, <1>3, <3>2 DEF TypeOK, ControlOK, StartedOK, Key, Handle
    <3> QED
      BY <3>1, <3>2
  <2> QED
    BY <2>1, <2>2
<1>7. LoopsOK'
  BY <1>2 DEF IInv, TypeOK, LoopsOK, LoopOK, SpawnOK, WillSpawn
<1>8. TableProxiesAreReported'
  BY <1>2 DEF IInv, TableProxiesAreReported, ProxiesOf
<1>9. CapturesGetHealth'
  BY <1>2 DEF IInv, TypeOK, CapturesGetHealth
<1>10. KnownProxiesListen'
  BY <1>1, <1>2, <1>3 DEF IInv, TypeOK, KnownProxiesListen, Alive, Handle
<1> QED
  BY <1>5, <1>6, <1>7, <1>8, <1>9, <1>10 DEF IInv

LEMMA StartFailsKeeps ==
  ASSUME IInv, NEW t \in Tasks, StartFails(t)
  PROVE  IInv'
<1>1. /\ pc[t] = "start_proxy" /\ failures < MaxFailures /\ failures' = failures + 1
      /\ UNCHANGED <<captures, table, running, reserved, loops, scanning, outcome, req, got,
                     started, spawns>>
  BY DEF StartFails, scans
<1>2. PICK next \in {"remember_capture", "done", "existing_proxy"} :
        /\ pc' = [pc EXCEPT ![t] = next]
        /\ \/ todo' = todo /\ next = "done"
           \/ /\ todo' = [todo EXCEPT ![t] = Tail(@)]
              /\ next = "existing_proxy" => Len(todo[t]) # 1
  BY <1>1 DEF StartFails, Goto, AfterProxies
<1>3. /\ Tail(todo[t]) \in Seq(Providers)
      /\ Len(todo[t]) # 1 => Tail(todo[t]) # <<>>
      /\ \A i, j \in DOMAIN Tail(todo[t]) : Tail(todo[t])[i] = Tail(todo[t])[j] => i = j
      /\ \A e \in got[t], i \in DOMAIN Tail(todo[t]) : e.provider # Tail(todo[t])[i]
  BY <1>1, AtProxy
<1>4. TypeOK'
  <2>1. todo' \in [Tasks -> Seq(Providers)]
    BY <1>2, <1>3 DEF IInv, TypeOK
  <2>2. failures' \in 0 .. MaxFailures
    BY <1>1 DEF IInv, TypeOK
  <2> QED
    BY <1>1, <1>2, <2>1, <2>2 DEF IInv, TypeOK
<1>5. TasksOK'
  <2> SUFFICES ASSUME NEW u \in Tasks PROVE (ControlOK(u) /\ ProvidersOK(u) /\ StartedOK(u))'
    BY DEF TasksOK
  <2> ControlOK(u) /\ ProvidersOK(u) /\ StartedOK(u) /\ TypeOK
    BY DEF IInv, TasksOK
  <2>1. ControlOK(u)'
    BY <1>1, <1>2, <1>3 DEF TypeOK, ControlOK
  <2>2. ProvidersOK(u)'
    <3>1. got'[u] = got[u] /\ (todo'[u] = todo[u] \/ (u = t /\ todo'[u] = Tail(todo[t])))
      BY <1>1, <1>2 DEF TypeOK
    <3> QED
      BY <1>3, <3>1 DEF ProvidersOK
  <2>3. StartedOK(u)'
    BY <1>1, <1>2 DEF TypeOK, StartedOK, Key
  <2> QED
    BY <2>1, <2>2, <2>3
<1>6. LoopsOK'
  BY <1>1, <1>2 DEF IInv, TypeOK, LoopsOK, LoopOK, SpawnOK, WillSpawn
<1>7. TableProxiesAreReported'
  BY <1>1 DEF IInv, TableProxiesAreReported, ProxiesOf
<1>8. CapturesGetHealth'
  BY <1>1, <1>2 DEF IInv, TypeOK, CapturesGetHealth
<1>9. KnownProxiesListen'
  BY <1>1 DEF IInv, KnownProxiesListen, Alive
<1> QED
  BY <1>4, <1>5, <1>6, <1>7, <1>8, <1>9 DEF IInv

LEMMA RememberProxyKeeps ==
  ASSUME IInv, NEW t \in Tasks, RememberProxy(t)
  PROVE  IInv'
<1> DEFINE w == req[t].ws
           k == Key(t)
           e == [provider |-> Head(todo[t]), port |-> started[t].port]
<1>1. /\ pc[t] = "remember_proxy"
      /\ table' = [table EXCEPT ![k] = started[t]]
      /\ captures' = IF captures[w] = None THEN captures
                     ELSE [captures EXCEPT ![w] = WithProxy(@, e)]
      /\ started' = [started EXCEPT ![t] = None]
      /\ got' = [got EXCEPT ![t] = @ \cup {e}]
      /\ todo' = [todo EXCEPT ![t] = Tail(@)]
      /\ pc' = [pc EXCEPT ![t] = Onward(t)]
      /\ UNCHANGED <<running, reserved, loops, scanning, outcome, req, spawns, failures>>
  BY DEF RememberProxy, Have, Goto, Onward, scans
<1>2. /\ Head(todo[t]) \in Providers /\ Tail(todo[t]) \in Seq(Providers)
      /\ w \in Workspaces /\ k \in Keys /\ k = <<w, Head(todo[t])>>
      /\ Len(todo[t]) # 1 => Tail(todo[t]) # <<>>
      /\ \A i, j \in DOMAIN Tail(todo[t]) : Tail(todo[t])[i] = Tail(todo[t])[j] => i = j
      /\ \A i \in DOMAIN Tail(todo[t]) : Tail(todo[t])[i] # Head(todo[t])
      /\ \A x \in got[t], i \in DOMAIN Tail(todo[t]) : x.provider # Tail(todo[t])[i]
      /\ \A x \in got[t] : x.provider # Head(todo[t])
  BY <1>1, AtProxy DEF Key
<1>3. started[t] \in Handle /\ TypeOK
  BY <1>1 DEF IInv, TasksOK, ControlOK
<1>4. e \in Endpoint /\ e.provider = Head(todo[t])
  BY <1>2, <1>3 DEF Endpoint, Handle
<1>5. Onward(t) \in {"remember_capture", "done", "existing_proxy"}
  BY OnwardIs
<1>6. Onward(t) = "existing_proxy" => Len(todo[t]) # 1
  BY DEF Onward, AfterProxies
<1>7. ~started[t].finished => running[started[t].port] = k
  BY <1>1 DEF IInv, TasksOK, StartedOK
<1> HIDE DEF e, k, w
<1>8. captures[w] # None =>
        /\ captures[w] \in Capture /\ WithProxy(captures[w], e) \in Capture
        /\ WithProxy(captures[w], e).health = captures[w].health
        /\ WithProxy(captures[w], e).proxies =
             {x \in captures[w].proxies : x.provider # e.provider} \cup {e}
  <2> DEFINE c == captures[w]
             shown == {x \in c.proxies : x.provider # e.provider} \cup {e}
  <2> SUFFICES ASSUME c # None
               PROVE  /\ c \in Capture /\ WithProxy(c, e) \in Capture
                      /\ WithProxy(c, e).health = c.health /\ WithProxy(c, e).proxies = shown
    OBVIOUS
  <2>1. c \in Capture
    BY <1>2, <1>3 DEF TypeOK
  <2>2. shown \in SUBSET Endpoint
    BY <1>4, <2>1 DEF Capture
  <2>3. WithProxy(c, e) = [c EXCEPT !.proxies = shown]
    BY DEF WithProxy
  <2> HIDE DEF c, shown
  <2> QED
    BY <2>1, <2>2, <2>3 DEF Capture
<1>9. TypeOK'
  <2>1. captures' \in [Workspaces -> Capture \cup {None}]
    BY <1>1, <1>2, <1>3, <1>8 DEF TypeOK
  <2>2. /\ table' \in [Keys -> Handle \cup {None}]
        /\ got' \in [Tasks -> SUBSET Endpoint]
        /\ todo' \in [Tasks -> Seq(Providers)]
    BY <1>1, <1>2, <1>3, <1>4 DEF TypeOK
  <2> QED
    BY <1>1, <1>3, <1>5, <2>1, <2>2 DEF TypeOK
<1>10. TasksOK'
  <2> SUFFICES ASSUME NEW u \in Tasks PROVE (ControlOK(u) /\ ProvidersOK(u) /\ StartedOK(u))'
    BY DEF TasksOK
  <2> ControlOK(u) /\ ProvidersOK(u) /\ StartedOK(u) /\ TypeOK
    BY <1>3 DEF IInv, TasksOK
  <2>1. CASE u = t
    <3>1. ControlOK(t)'
      BY <1>1, <1>2, <1>5, <1>6, <2>1 DEF TypeOK, ControlOK
    <3>2. got'[t] = got[t] \cup {e} /\ todo'[t] = Tail(todo[t])
      BY <1>1 DEF TypeOK
    <3>3. ProvidersOK(t)'
      BY <1>2, <1>4, <2>1, <3>2 DEF ProvidersOK, EachOnce
    <3>4. StartedOK(t)'
      BY <1>1, <1>5 DEF TypeOK, StartedOK
    <3> QED
      BY <2>1, <3>1, <3>3, <3>4
  <2>2. CASE u # t
    BY <1>1, <2>2 DEF TypeOK, ControlOK, ProvidersOK, StartedOK, EachOnce, Key
  <2> QED
    BY <2>1, <2>2
<1>11. LoopsOK'
  BY <1>1, <1>5 DEF IInv, TypeOK, LoopsOK, LoopOK, SpawnOK, WillSpawn
<1>12. TableProxiesAreReported'
  <2> SUFFICES ASSUME NEW v \in Workspaces, captures'[v] # None
               PROVE  /\ \A j \in ProxiesOf(v)' : \E x \in captures'[v].proxies : x.provider = j[2]
                      /\ EachOnce(captures'[v].proxies)
    BY DEF TableProxiesAreReported, EachOnce
  <2>1. CASE v = w
    <3>1. captures[w] # None /\ captures'[v] = WithProxy(captures[w], e)
      BY <1>1, <1>2, <1>3, <2>1 DEF TypeOK
    <3>2. /\ EachOnce(captures[w].proxies)
          /\ \A j \in ProxiesOf(w) : \E x \in captures[w].proxies : x.provider = j[2]
      BY <1>2, <3>1 DEF IInv, TableProxiesAreReported
    <3>3. EachOnce(captures'[v].proxies)
      BY <1>8, <3>1, <3>2 DEF EachOnce
    <3>4. ASSUME NEW j \in ProxiesOf(v)'
          PROVE  \E x \in captures'[v].proxies : x.provider = j[2]
      <4>1. CASE j[2] = e.provider
        BY <1>8, <3>1, <4>1
      <4>2. CASE j[2] # e.provider
        <5>1. j # k
          BY <1>2, <1>4, <4>2
        <5>2. j \in ProxiesOf(w)
          BY <1>1, <1>2, <1>3, <2>1, <5>1 DEF TypeOK, ProxiesOf
        <5> QED
          BY <1>8, <3>1, <3>2, <4>2, <5>2
      <4> QED
        BY <4>1, <4>2
    <3> QED
      BY <3>3, <3>4
  <2>2. CASE v # w
    <3>1. captures'[v] = captures[v]
      BY <1>1, <1>3, <2>2 DEF TypeOK
    <3>2. ProxiesOf(v)' = ProxiesOf(v)
      BY <1>1, <1>2, <1>3, <2>2 DEF TypeOK, ProxiesOf
    <3> QED
      BY <3>1, <3>2 DEF IInv, TableProxiesAreReported
  <2> QED
    BY <2>1, <2>2
<1>13. CapturesGetHealth'
  <2> SUFFICES ASSUME NEW v \in Workspaces
               PROVE  /\ Len(loops'[v]) <= 1
                      /\ captures'[v] # None /\ captures'[v].health = "pending" =>
                           \E u \in Tasks : /\ req'[u].ws = v
                                            /\ pc'[u] \in {"reserve", "scan", "scanning", "record"}
    BY DEF CapturesGetHealth
  <2>1. Len(loops'[v]) <= 1
    BY <1>1 DEF IInv, CapturesGetHealth
  <2>2. captures'[v] # None => captures[v] # None /\ captures'[v].health = captures[v].health
    BY <1>1, <1>2, <1>3, <1>8 DEF TypeOK
  <2>3. ASSUME captures'[v] # None, captures'[v].health = "pending"
        PROVE  \E u \in Tasks : /\ req'[u].ws = v
                                /\ pc'[u] \in {"reserve", "scan", "scanning", "record"}
    <3>1. PICK u \in Tasks : /\ req[u].ws = v
                             /\ pc[u] \in {"reserve", "scan", "scanning", "record"}
      BY <2>2, <2>3 DEF IInv, CapturesGetHealth
    <3>2. pc'[u] = pc[u] /\ req'[u] = req[u]
      BY <1>1, <1>3, <3>1 DEF TypeOK
    <3> QED
      BY <3>1, <3>2
  <2> QED
    BY <2>1, <2>3
<1>14. KnownProxiesListen'
  BY <1>1, <1>2, <1>3, <1>7 DEF IInv, TypeOK, KnownProxiesListen, Alive
<1> QED
  BY <1>9, <1>10, <1>11, <1>12, <1>13, <1>14 DEF IInv

LEMMA ProxyDiesKeeps ==
  ASSUME IInv, NEW q \in Ports, ProxyDies(q)
  PROVE  IInv'
<1>1. /\ running[q] # None /\ failures < MaxFailures
      /\ running' = [running EXCEPT ![q] = None]
      /\ table' = [k \in Keys |-> Finished(table[k], q)]
      /\ started' = [t \in Tasks |-> Finished(started[t], q)]
      /\ failures' = failures + 1
      /\ UNCHANGED <<captures, reserved, loops, scanning, outcome, pc, req, todo, got, spawns>>
  BY DEF ProxyDies, scans
<1>2. ASSUME NEW h \in Handle
      PROVE  /\ Finished(h, q) \in Handle /\ Finished(h, q).port = h.port
             /\ ~Finished(h, q).finished => ~h.finished /\ h.port # q
  BY DEF Finished, Handle
<1>3. Finished(None, q) \in Handle \cup {None}
  BY DEF Finished, Handle
<1>4. TypeOK'
  <2>1. /\ table' \in [Keys -> Handle \cup {None}]
        /\ started' \in [Tasks -> Handle \cup {None}]
    BY <1>1, <1>2, <1>3 DEF IInv, TypeOK
  <2> QED
    BY <1>1, <2>1 DEF IInv, TypeOK
<1>5. TasksOK'
  <2> SUFFICES ASSUME NEW u \in Tasks PROVE (ControlOK(u) /\ ProvidersOK(u) /\ StartedOK(u))'
    BY DEF TasksOK
  <2> ControlOK(u) /\ ProvidersOK(u) /\ StartedOK(u) /\ TypeOK
    BY DEF IInv, TasksOK
  <2>1. ControlOK(u)' /\ ProvidersOK(u)'
    BY <1>1, <1>2 DEF ControlOK, ProvidersOK, EachOnce
  <2>2. StartedOK(u)'
    <3> SUFFICES ASSUME pc[u] = "remember_proxy", ~started'[u].finished
                 PROVE  running'[started'[u].port] = Key(u)
      BY <1>1 DEF StartedOK, Key
    <3>1. started[u] \in Handle /\ started'[u] = Finished(started[u], q)
      BY <1>1 DEF ControlOK
    <3>2. /\ started'[u].port = started[u].port /\ started[u].port # q
          /\ running[started[u].port] = Key(u) /\ started[u].port \in Ports
      BY <1>2, <3>1 DEF StartedOK, Handle
    <3> QED
      BY <1>1, <3>2 DEF TypeOK
  <2> QED
    BY <2>1, <2>2
<1>6. LoopsOK'
  BY <1>1 DEF IInv, LoopsOK, LoopOK, SpawnOK, WillSpawn
<1>7. TableProxiesAreReported'
  <2>1. ASSUME NEW k \in Keys, table'[k] # None
        PROVE  table[k] # None
    <3>1. [port |-> q, finished |-> FALSE] \in Handle
      BY DEF Handle
    <3>2. Finished(None, q) = None
      BY <3>1 DEF Finished
    <3> QED
      BY <1>1, <2>1, <3>2
  <2> QED
    BY <1>1, <2>1 DEF IInv, TableProxiesAreReported, ProxiesOf
<1>8. CapturesGetHealth'
  BY <1>1 DEF IInv, CapturesGetHealth
<1>9. KnownProxiesListen'
  <2> SUFFICES ASSUME NEW k \in Keys, Alive(k)' PROVE running'[table'[k].port] = k
    BY DEF KnownProxiesListen
  <2>1. table'[k] = Finished(table[k], q) /\ table'[k] # None /\ ~table'[k].finished
    BY <1>1 DEF Alive
  <2>2. table[k] \in Handle
    BY <2>1 DEF IInv, TypeOK, Finished
  <2>3. /\ table'[k].port = table[k].port /\ table[k].port # q /\ ~table[k].finished
        /\ table[k].port \in Ports
    BY <1>2, <2>1, <2>2 DEF Handle
  <2>4. table[k] # None
    BY <2>1, <2>2 DEF Finished
  <2> QED
    BY <1>1, <2>3, <2>4 DEF IInv, TypeOK, KnownProxiesListen, Alive
<1> QED
  BY <1>4, <1>5, <1>6, <1>7, <1>8, <1>9 DEF IInv

-----------------------------------------------------------------------------
LEMMA RememberCaptureKeeps ==
  ASSUME IInv, NEW t \in Tasks, RememberCapture(t)
  PROVE  IInv'
<1> DEFINE w == req[t].ws
           proxies == IF req[t].kind = "deep" THEN got[t] ELSE {}
           others == {k \in ProxiesOf(w) : \A x \in proxies : x.provider # k[2]}
           c == [health |-> "pending", proxies |-> Merged(w, proxies)]
<1>1. /\ pc[t] = "remember_capture"
      /\ captures' = [captures EXCEPT ![w] = c]
      /\ pc' = [pc EXCEPT ![t] = "reserve"]
      /\ UNCHANGED <<table, running, reserved, loops, scanning, outcome, req, todo, got,
                     started, spawns, failures>>
  BY DEF RememberCapture, Goto, scans
<1>2. TypeOK /\ w \in Workspaces
  BY <1>1 DEF IInv, TypeOK, TasksOK, ControlOK, Requests
<1>3. proxies \in SUBSET Endpoint /\ EachOnce(proxies)
  BY <1>2 DEF IInv, TypeOK, TasksOK, ProvidersOK, EachOnce
<1>4. Merged(w, proxies) = proxies \cup {EndpointOf(k) : k \in others}
  BY DEF Merged
<1>5. ASSUME NEW k \in ProxiesOf(w)
      PROVE  k \in Keys /\ k[1] = w /\ EndpointOf(k) \in Endpoint /\ EndpointOf(k).provider = k[2]
  BY <1>2 DEF TypeOK, ProxiesOf, EndpointOf, Endpoint, Handle, Keys
<1>6. ASSUME NEW j \in ProxiesOf(w), NEW k \in ProxiesOf(w), j[2] = k[2]
      PROVE  j = k
  BY <1>5, <1>6 DEF Keys
<1>7. /\ Merged(w, proxies) \in SUBSET Endpoint
      /\ EachOnce(Merged(w, proxies))
      /\ \A k \in ProxiesOf(w) : \E x \in Merged(w, proxies) : x.provider = k[2]
  <2> HIDE DEF proxies, w
  <2>1. Merged(w, proxies) \in SUBSET Endpoint
    BY <1>3, <1>4, <1>5
  <2>2. EachOnce(Merged(w, proxies))
    <3> SUFFICES ASSUME NEW x \in Merged(w, proxies), NEW y \in Merged(w, proxies),
                        x.provider = y.provider
                 PROVE  x = y
      BY DEF EachOnce
    <3>1. CASE x \in proxies /\ y \in proxies
      BY <1>3, <3>1 DEF EachOnce
    <3>2. CASE \E k \in others : x = EndpointOf(k)
      BY <1>4, <1>5, <1>6, <3>2
    <3>3. CASE \E k \in others : y = EndpointOf(k)
      BY <1>4, <1>5, <1>6, <3>3
    <3> QED
      BY <1>4, <3>1, <3>2, <3>3
  <2>3. ASSUME NEW k \in ProxiesOf(w)
        PROVE  \E x \in Merged(w, proxies) : x.provider = k[2]
    <3>1. CASE k \in others
      BY <1>4, <1>5, <3>1
    <3>2. CASE k \notin others
      BY <1>4, <3>2
    <3> QED
      BY <3>1, <3>2
  <2> QED
    BY <2>1, <2>2, <2>3
<1> HIDE DEF proxies, w
<1>8. c \in Capture /\ c.health = "pending" /\ c.proxies = Merged(w, proxies)
  BY <1>7 DEF Capture
<1> HIDE DEF c
<1>9. TypeOK'
  BY <1>1, <1>2, <1>8 DEF TypeOK
<1>10. TasksOK'
  BY <1>1, <1>2
  DEF IInv, TypeOK, TasksOK, ControlOK, ProvidersOK, StartedOK, EachOnce, Key
<1>11. LoopsOK'
  BY <1>1, <1>2 DEF IInv, TypeOK, LoopsOK, LoopOK, SpawnOK, WillSpawn
<1>12. TableProxiesAreReported'
  <2>1. \A v \in Workspaces : ProxiesOf(v)' = ProxiesOf(v)
    BY <1>1 DEF ProxiesOf
  <2> QED
    BY <1>1, <1>2, <1>7, <1>8, <2>1 DEF IInv, TypeOK, TableProxiesAreReported
<1>13. CapturesGetHealth'
  <2>1. pc'[t] = "reserve" /\ req'[t].ws = w
    BY <1>1, <1>2 DEF TypeOK, w
  <2>2. \A v \in Workspaces \ {w} : captures'[v] = captures[v]
    BY <1>1, <1>2 DEF TypeOK
  <2>3. \A u \in Tasks : pc'[u] = pc[u] \/ u = t
    BY <1>1, <1>2 DEF TypeOK
  <2>4. loops' = loops /\ req' = req
    BY <1>1
  <2> QED
    BY <1>1, <2>1, <2>2, <2>3, <2>4 DEF IInv, CapturesGetHealth
<1>14. KnownProxiesListen'
  BY <1>1 DEF IInv, KnownProxiesListen, Alive
<1> QED
  BY <1>9, <1>10, <1>11, <1>12, <1>13, <1>14 DEF IInv

\* The steps of a scan leave proxies alone.
LEMMA SameProxies ==
  ASSUME IInv, UNCHANGED <<table, running>>,
         \A w \in Workspaces :
           captures'[w] # None =>
             captures[w] # None /\ captures'[w].proxies = captures[w].proxies
  PROVE  TableProxiesAreReported' /\ KnownProxiesListen'
<1>1. \A w \in Workspaces : ProxiesOf(w)' = ProxiesOf(w)
  BY DEF ProxiesOf
<1>2. TableProxiesAreReported'
  BY <1>1 DEF IInv, TableProxiesAreReported
<1>3. KnownProxiesListen'
  BY DEF IInv, KnownProxiesListen, Alive
<1> QED
  BY <1>2, <1>3

LEMMA ReserveScannerKeeps ==
  ASSUME IInv, NEW t \in Tasks, ReserveScanner(t)
  PROVE  IInv'
<1>1. /\ pc[t] = "reserve" /\ pc' = [pc EXCEPT ![t] = "scan"]
      /\ spawns' = [spawns EXCEPT ![t] = req[t].ws \notin reserved]
      /\ reserved' = reserved \cup {req[t].ws}
      /\ UNCHANGED <<captures, table, running, loops, scanning, outcome, req, todo, got,
                     started, failures>>
  BY DEF ReserveScanner, Goto
<1>2. TypeOK /\ req[t].ws \in Workspaces
  BY <1>1 DEF IInv, TypeOK, TasksOK, ControlOK, Requests
<1>3. TypeOK'
  BY <1>1, <1>2 DEF TypeOK
<1>4. TasksOK'
  BY <1>1, <1>2
  DEF IInv, TypeOK, TasksOK, ControlOK, ProvidersOK, StartedOK, EachOnce, Key
<1>5. /\ WillSpawn(t)' <=> req[t].ws \notin reserved
      /\ \A u \in Tasks \ {t} : WillSpawn(u)' <=> WillSpawn(u)
  BY <1>1, <1>2 DEF TypeOK, WillSpawn
<1>6. LoopsOK'
  BY <1>1, <1>5 DEF IInv, LoopsOK, LoopOK, SpawnOK
<1>7. CapturesGetHealth'
  BY <1>1, <1>2 DEF IInv, TypeOK, CapturesGetHealth
<1>8. TableProxiesAreReported' /\ KnownProxiesListen'
  BY <1>1, SameProxies
<1> QED
  BY <1>3, <1>4, <1>6, <1>7, <1>8 DEF IInv

LEMMA TaskScanBeginsKeeps ==
  ASSUME IInv, NEW t \in Tasks, TaskScanBegins(t)
  PROVE  IInv'
<1>1. /\ pc[t] = "scan" /\ pc' = [pc EXCEPT ![t] = "scanning"] /\ scanning' = t
      /\ UNCHANGED <<captures, table, running, reserved, loops, outcome, req, todo, got,
                     started, spawns, failures>>
  BY DEF TaskScanBegins, ScanBegins, Goto
<1>2. TypeOK'
  BY <1>1 DEF IInv, TypeOK
<1>3. TasksOK'
  BY <1>1 DEF IInv, TypeOK, TasksOK, ControlOK, ProvidersOK, StartedOK, EachOnce, Key
<1>4. LoopsOK'
  BY <1>1 DEF IInv, TypeOK, LoopsOK, LoopOK, SpawnOK, WillSpawn
<1>5. CapturesGetHealth'
  BY <1>1 DEF IInv, TypeOK, CapturesGetHealth
<1>6. TableProxiesAreReported' /\ KnownProxiesListen'
  BY <1>1, SameProxies
<1> QED
  BY <1>2, <1>3, <1>4, <1>5, <1>6 DEF IInv

\* A scan ends with a result; it is for whoever held the lock.
LEMMA ScanEndsWith ==
  ASSUME IInv, NEW x \in Tasks \cup Workspaces, ScanEnds(x)
  PROVE  /\ scanning' = None /\ failures' \in 0 .. MaxFailures
         /\ \E health \in {"ready", "error"} : outcome' = [outcome EXCEPT ![x] = health]
<1>1. scanning' = None
  BY DEF ScanEnds
<1>2. PICK ok \in BOOLEAN :
        /\ ok \/ failures < MaxFailures
        /\ outcome' = [outcome EXCEPT ![x] = IF ok THEN "ready" ELSE "error"]
        /\ failures' = IF ok THEN failures ELSE failures + 1
  BY DEF ScanEnds
<1>3. failures' \in 0 .. MaxFailures
  BY <1>2 DEF IInv, TypeOK
<1> QED
  BY <1>1, <1>2, <1>3

LEMMA TaskScanEndsKeeps ==
  ASSUME IInv, NEW t \in Tasks, TaskScanEnds(t)
  PROVE  IInv'
<1>1. /\ pc[t] = "scanning" /\ pc' = [pc EXCEPT ![t] = "record"]
      /\ UNCHANGED <<captures, table, running, reserved, loops, req, todo, got, started, spawns>>
  BY DEF TaskScanEnds, Goto
<1>2. /\ scanning' = None /\ failures' \in 0 .. MaxFailures
      /\ \E health \in {"ready", "error"} : outcome' = [outcome EXCEPT ![t] = health]
  BY ScanEndsWith DEF TaskScanEnds
<1>3. PICK health \in {"ready", "error"} : outcome' = [outcome EXCEPT ![t] = health]
  BY <1>2
<1>4. TypeOK'
  BY <1>1, <1>2, <1>3 DEF IInv, TypeOK
<1>5. TasksOK'
  BY <1>1, <1>3 DEF IInv, TypeOK, TasksOK, ControlOK, ProvidersOK, StartedOK, EachOnce, Key
<1>6. \A w \in Workspaces : outcome'[w] = outcome[w]
  BY <1>3 DEF IInv, TypeOK
<1>7. LoopsOK'
  BY <1>1, <1>6 DEF IInv, TypeOK, LoopsOK, LoopOK, SpawnOK, WillSpawn
<1>8. CapturesGetHealth'
  BY <1>1 DEF IInv, TypeOK, CapturesGetHealth
<1>9. TableProxiesAreReported' /\ KnownProxiesListen'
  BY <1>1, SameProxies
<1> QED
  BY <1>4, <1>5, <1>7, <1>8, <1>9 DEF IInv

\* What record_scan_result does to the captures.
LEMMA RecordedIs ==
  ASSUME IInv, NEW x \in Tasks \cup Workspaces, NEW w \in Workspaces,
         outcome[x] \in {"ready", "error"}, Recorded(x, w)
  PROVE  /\ captures' \in [Workspaces -> Capture \cup {None}]
         /\ \A v \in Workspaces :
              /\ captures'[v] # None =>
                   captures[v] # None /\ captures'[v].proxies = captures[v].proxies
              /\ v # w => captures'[v] = captures[v]
         /\ captures'[w] # None => captures'[w].health # "pending"
         /\ outcome' = [outcome EXCEPT ![x] = None]
<1> DEFINE c == [captures[w] EXCEPT !.health = outcome[x]]
<1>1. /\ captures' = IF captures[w] = None THEN captures ELSE [captures EXCEPT ![w] = c]
      /\ outcome' = [outcome EXCEPT ![x] = None]
  BY DEF Recorded
<1>2. captures[w] # None =>
        c \in Capture /\ c.proxies = captures[w].proxies /\ c.health # "pending"
  <2>1. captures[w] # None => captures[w] \in Capture
    BY DEF IInv, TypeOK
  <2> QED
    BY <2>1 DEF Capture
<1> HIDE DEF c
<1> QED
  BY <1>1, <1>2 DEF IInv, TypeOK

LEMMA RecordAndSpawnKeeps ==
  ASSUME IInv, NEW t \in Tasks, RecordAndSpawn(t)
  PROVE  IInv'
<1> DEFINE w == req[t].ws
<1>1. /\ pc[t] = "record" /\ Recorded(t, w)
      /\ loops' = IF spawns[t] THEN [loops EXCEPT ![w] = Append(@, "sleep")] ELSE loops
      /\ UNCHANGED <<table, running, reserved, scanning, req, todo, got, started, spawns,
                     failures>>
  BY DEF RecordAndSpawn
<1>2. PICK next \in {"existing_proxy", "done"} :
        /\ pc' = [pc EXCEPT ![t] = next]
        /\ next = "existing_proxy" => todo[t] # <<>>
  BY DEF RecordAndSpawn, Goto
<1>3. TypeOK /\ w \in Workspaces /\ outcome[t] \in {"ready", "error"}
  BY <1>1 DEF IInv, TypeOK, TasksOK, ControlOK, Requests
<1>4. /\ captures' \in [Workspaces -> Capture \cup {None}]
      /\ \A v \in Workspaces :
           /\ captures'[v] # None =>
                captures[v] # None /\ captures'[v].proxies = captures[v].proxies
           /\ v # w => captures'[v] = captures[v]
      /\ captures'[w] # None => captures'[w].health # "pending"
      /\ outcome' = [outcome EXCEPT ![t] = None]
  BY <1>1, <1>3, RecordedIs
<1>5. spawns[t] => loops[w] = <<>> /\ w \in reserved
  BY <1>1, <1>3 DEF IInv, LoopsOK, LoopOK, SpawnOK, WillSpawn
<1>6. spawns[t] => Append(loops[w], "sleep") = <<"sleep">>
  <2>1. Append(<<>>, "sleep") = <<"sleep">>
    OBVIOUS
  <2> QED
    BY ONLY <1>5, <2>1, Zenon
<1>7. \A v \in Workspaces :
        loops'[v] = IF spawns[t] /\ v = w THEN <<"sleep">> ELSE loops[v]
  BY <1>1, <1>3, <1>6 DEF TypeOK
<1> HIDE DEF w
<1>8. TypeOK'
  <2>1. loops' \in [Workspaces -> Seq({"sleep", "scanning", "record"})]
    <3>1. DOMAIN loops' = Workspaces /\ loops' = [v \in Workspaces |-> loops'[v]]
      BY <1>1, <1>3 DEF TypeOK
    <3>2. <<"sleep">> \in Seq({"sleep", "scanning", "record"})
      OBVIOUS
    <3>3. \A v \in Workspaces : loops'[v] \in Seq({"sleep", "scanning", "record"})
      BY <1>3, <1>7, <3>2 DEF TypeOK
    <3> QED
      BY <3>1, <3>3
  <2> QED
    BY <1>1, <1>2, <1>3, <1>4, <2>1 DEF TypeOK
<1>9. TasksOK'
  <2> SUFFICES ASSUME NEW u \in Tasks PROVE (ControlOK(u) /\ ProvidersOK(u) /\ StartedOK(u))'
    BY DEF TasksOK
  <2> ControlOK(u) /\ ProvidersOK(u) /\ StartedOK(u)
    BY DEF IInv, TasksOK
  <2>1. u # t => pc'[u] = pc[u] /\ outcome'[u] = outcome[u]
    BY <1>2, <1>3, <1>4 DEF TypeOK
  <2>2. u = t => pc'[u] \in {"existing_proxy", "done"}
    BY <1>2, <1>3 DEF TypeOK
  <2>3. u = t /\ pc'[u] = "existing_proxy" => todo[u] # <<>>
    BY <1>2, <1>3 DEF TypeOK
  <2>4. ControlOK(u)'
    BY <1>1, <2>1, <2>2, <2>3 DEF ControlOK
  <2>5. ProvidersOK(u)'
    BY <1>1 DEF ProvidersOK, EachOnce
  <2>6. StartedOK(u)'
    BY <1>1, <2>1, <2>2 DEF StartedOK, Key
  <2> QED
    BY <2>4, <2>5, <2>6
<1>10. /\ ~WillSpawn(t)'
       /\ \A u \in Tasks \ {t} : WillSpawn(u)' <=> WillSpawn(u)
       /\ spawns[t] => WillSpawn(t)
  BY <1>1, <1>2, <1>3 DEF TypeOK, WillSpawn
<1>11. \A v \in Workspaces : outcome'[v] = outcome[v]
  BY <1>3, <1>4 DEF TypeOK
<1>12. LoopsOK'
  <2>1. ASSUME NEW v \in Workspaces PROVE LoopOK(v)'
    <3>1. CASE spawns[t] /\ v = w
      <4>1. loops'[v] = <<"sleep">> /\ v \in reserved'
        BY <1>1, <1>5, <1>7, <3>1
      <4>2. Len(<<"sleep">>) <= 1 /\ <<"sleep">>[1] = "sleep"
        OBVIOUS
      <4>3. \A u \in Tasks : WillSpawn(u)' => req'[u].ws # v
        BY <1>1, <1>10, <3>1 DEF IInv, LoopsOK, SpawnOK, w
      <4> QED
        BY <4>1, <4>2, <4>3 DEF LoopOK
    <3>2. CASE ~(spawns[t] /\ v = w)
      BY <1>1, <1>7, <1>10, <1>11, <3>2 DEF IInv, LoopsOK, LoopOK
    <3> QED
      BY <3>1, <3>2
  <2>2. ASSUME NEW u \in Tasks PROVE SpawnOK(u)'
    BY <1>1, <1>10 DEF IInv, LoopsOK, SpawnOK
  <2> QED
    BY <2>1, <2>2 DEF LoopsOK
<1>13. CapturesGetHealth'
  <2> SUFFICES ASSUME NEW v \in Workspaces
               PROVE  /\ Len(loops'[v]) <= 1
                      /\ captures'[v] # None /\ captures'[v].health = "pending" =>
                           \E u \in Tasks : /\ req'[u].ws = v
                                            /\ pc'[u] \in {"reserve", "scan", "scanning", "record"}
    BY DEF CapturesGetHealth
  <2>1. Len(loops'[v]) <= 1
    BY <1>12 DEF LoopsOK, LoopOK
  <2>2. ASSUME captures'[v] # None, captures'[v].health = "pending"
        PROVE  \E u \in Tasks : /\ req'[u].ws = v
                                /\ pc'[u] \in {"reserve", "scan", "scanning", "record"}
    <3>1. v # w /\ captures'[v] = captures[v]
      BY <1>4, <2>2
    <3>2. PICK u \in Tasks : /\ req[u].ws = v
                             /\ pc[u] \in {"reserve", "scan", "scanning", "record"}
      BY <2>2, <3>1 DEF IInv, CapturesGetHealth
    <3>3. u # t
      BY <3>1, <3>2 DEF w
    <3> QED
      BY <1>1, <1>2, <1>3, <3>2, <3>3 DEF TypeOK
  <2> QED
    BY <2>1, <2>2
<1>14. TableProxiesAreReported' /\ KnownProxiesListen'
  BY <1>1, <1>4, SameProxies
<1> QED
  BY <1>8, <1>9, <1>12, <1>13, <1>14 DEF IInv

LEMMA LoopStepKeeps ==
  ASSUME IInv, NEW w \in Workspaces, LoopStep(w)
  PROVE  IInv'
<1>1. PICK i \in DOMAIN loops[w] :
        \/ /\ loops[w][i] = "sleep" /\ loops' = [loops EXCEPT ![w][i] = "scanning"]
           /\ ScanBegins(w) /\ UNCHANGED <<captures, outcome, failures>>
        \/ /\ loops[w][i] = "scanning" /\ loops' = [loops EXCEPT ![w][i] = "record"]
           /\ ScanEnds(w) /\ UNCHANGED captures
        \/ /\ loops[w][i] = "record" /\ loops' = [loops EXCEPT ![w][i] = "sleep"]
           /\ Recorded(w, w) /\ UNCHANGED <<scanning, failures>>
  BY DEF LoopStep
<1>2. UNCHANGED <<table, running, reserved, pc, req, todo, got, started, spawns>>
  BY DEF LoopStep, tasks
<1>3. TypeOK
  BY DEF IInv
<1>4. i = 1 /\ Len(loops[w]) = 1
  <2>1. loops[w] \in Seq({"sleep", "scanning", "record"}) /\ Len(loops[w]) <= 1
    BY <1>3 DEF IInv, TypeOK, LoopsOK, LoopOK
  <2>2. Len(loops[w]) \in Nat /\ DOMAIN loops[w] = 1 .. Len(loops[w])
    BY <2>1
  <2>3. i \in 1 .. Len(loops[w])
    BY <1>1, <2>2
  <2> DEFINE n == Len(loops[w])
  <2> HIDE DEF n
  <2> n \in Nat /\ n <= 1 /\ i \in 1 .. n
    BY <2>1, <2>2, <2>3 DEF n
  <2> i = 1 /\ n = 1
    OBVIOUS
  <2> QED
    BY DEF n
<1>5. loops[w] # <<>> /\ w \in reserved
  <2>1. loops[w] # <<>>
    BY <1>4
  <2> QED
    BY <2>1 DEF IInv, LoopsOK, LoopOK
<1>6. ASSUME NEW to \in {"sleep", "scanning", "record"},
             loops' = [loops EXCEPT ![w][i] = to]
      PROVE  /\ loops' \in [Workspaces -> Seq({"sleep", "scanning", "record"})]
             /\ Len(loops'[w]) = 1 /\ loops'[w][1] = to
             /\ \A v \in Workspaces \ {w} : loops'[v] = loops[v]
  <2> DEFINE s == [loops[w] EXCEPT ![i] = to]
  <2>1. loops' = [loops EXCEPT ![w] = s] /\ loops[w] \in Seq({"sleep", "scanning", "record"})
    BY <1>3, <1>6 DEF TypeOK
  <2>2. s \in Seq({"sleep", "scanning", "record"}) /\ Len(s) = 1 /\ s[1] = to
    BY <1>4, <2>1
  <2> HIDE DEF s
  <2>3. loops' \in [Workspaces -> Seq({"sleep", "scanning", "record"})]
    BY <1>3, <2>1, <2>2 DEF TypeOK
  <2>4. loops'[w] = s /\ \A v \in Workspaces \ {w} : loops'[v] = loops[v]
    BY <1>3, <2>1 DEF TypeOK
  <2> QED
    BY <2>2, <2>3, <2>4
<1>7. /\ loops' \in [Workspaces -> Seq({"sleep", "scanning", "record"})]
      /\ Len(loops'[w]) = 1
      /\ \A v \in Workspaces \ {w} : loops'[v] = loops[v]
  BY <1>1, <1>6
<1>8. loops'[w][1] = "record" => ScanEnds(w)
  BY <1>1, <1>6
<1>9. /\ captures' \in [Workspaces -> Capture \cup {None}]
      /\ \A v \in Workspaces :
           /\ captures'[v] # None =>
                captures[v] # None /\ captures'[v].proxies = captures[v].proxies
           /\ captures'[v] # None /\ captures'[v].health = "pending" =>
                captures[v].health = "pending"
  <2>1. CASE captures' = captures
    BY <1>3, <2>1 DEF TypeOK
  <2>2. CASE loops[w][i] = "record" /\ Recorded(w, w)
    <3>1. outcome[w] \in {"ready", "error"}
      BY <1>4, <1>5, <2>2 DEF IInv, LoopsOK, LoopOK
    <3> QED
      BY <2>2, <3>1, RecordedIs
  <2> QED
    BY <1>1, <2>1, <2>2
<1>10. /\ scanning' \in Tasks \cup Workspaces \cup {None} /\ failures' \in 0 .. MaxFailures
       /\ \E health \in {"ready", "error", None} :
            outcome' = outcome \/ outcome' = [outcome EXCEPT ![w] = health]
       /\ ScanEnds(w) => outcome'[w] \in {"ready", "error"}
  <2>1. ScanEnds(w) =>
          /\ scanning' = None /\ failures' \in 0 .. MaxFailures
          /\ \E health \in {"ready", "error"} : outcome' = [outcome EXCEPT ![w] = health]
    BY ScanEndsWith
  <2>2. ScanEnds(w) => outcome'[w] \in {"ready", "error"}
    BY <1>3, <2>1 DEF TypeOK
  <2>3. ScanBegins(w) => scanning' = w
    BY DEF ScanBegins
  <2>4. Recorded(w, w) => outcome' = [outcome EXCEPT ![w] = None]
    BY DEF Recorded
  <2> QED
    BY <1>1, <1>3, <2>1, <2>2, <2>3, <2>4 DEF TypeOK
<1>11. /\ outcome' \in [Tasks \cup Workspaces -> {"ready", "error", None}]
       /\ \A x \in (Tasks \cup Workspaces) \ {w} : outcome'[x] = outcome[x]
  BY <1>3, <1>10 DEF TypeOK
<1>12. TypeOK'
  BY <1>2, <1>3, <1>7, <1>9, <1>10, <1>11 DEF TypeOK
<1>13. TasksOK'
  <2>1. \A t \in Tasks : outcome'[t] = outcome[t]
    BY <1>11
  <2>2. ASSUME NEW t \in Tasks PROVE ControlOK(t)' /\ ProvidersOK(t)' /\ StartedOK(t)'
    <3>1. ControlOK(t) /\ ProvidersOK(t) /\ StartedOK(t)
      BY DEF IInv, TasksOK
    <3>2. ControlOK(t)'
      BY <1>2, <2>1, <3>1 DEF ControlOK
    <3>3. ProvidersOK(t)'
      BY <1>2, <3>1 DEF ProvidersOK, EachOnce
    <3>4. StartedOK(t)'
      BY <1>2, <3>1 DEF StartedOK, Key
    <3> QED
      BY <3>2, <3>3, <3>4
  <2> QED
    BY <2>2 DEF TasksOK
<1>14. LoopsOK'
  <2>1. \A t \in Tasks : WillSpawn(t)' <=> WillSpawn(t)
    BY <1>2 DEF WillSpawn
  <2>2. ASSUME NEW v \in Workspaces PROVE LoopOK(v)'
    <3>1. CASE v = w
      <4>1. /\ Len(loops'[w]) <= 1 /\ w \in reserved'
            /\ loops'[w][1] = "record" => outcome'[w] \in {"ready", "error"}
        BY <1>2, <1>5, <1>7, <1>8, <1>10
      <4>2. \A t \in Tasks : WillSpawn(t)' => req'[t].ws # w
        BY <1>2, <1>5, <2>1 DEF IInv, LoopsOK, LoopOK
      <4> QED
        BY <3>1, <4>1, <4>2 DEF LoopOK
    <3>2. CASE v # w
      BY <1>2, <1>7, <1>11, <2>1, <3>2 DEF IInv, LoopsOK, LoopOK
    <3> QED
      BY <3>1, <3>2
  <2>3. \A t \in Tasks : SpawnOK(t)'
    BY <1>2, <2>1 DEF IInv, LoopsOK, SpawnOK
  <2> QED
    BY <2>2, <2>3 DEF LoopsOK
<1>15. CapturesGetHealth'
  BY <1>2, <1>9, <1>14 DEF IInv, CapturesGetHealth, LoopsOK, LoopOK
<1>16. TableProxiesAreReported' /\ KnownProxiesListen'
  BY <1>2, <1>9, SameProxies
<1> QED
  BY <1>12, <1>13, <1>14, <1>15, <1>16 DEF IInv

-----------------------------------------------------------------------------
LEMMA NextKeeps == IInv /\ [Next]_vars => IInv'
<1> SUFFICES ASSUME IInv, [Next]_vars PROVE IInv'
  OBVIOUS
<1>1. CASE UNCHANGED vars
  BY <1>1
  DEF vars, tasks, scans, IInv, TypeOK, TasksOK, ControlOK, ProvidersOK, StartedOK, EachOnce,
      Key, LoopsOK, LoopOK, SpawnOK, WillSpawn, TableProxiesAreReported, ProxiesOf,
      CapturesGetHealth, KnownProxiesListen, Alive
<1>2. ASSUME NEW t \in Tasks, Begin(t) \/ TaskStep(t)
      PROVE  IInv'
  BY <1>2, BeginKeeps, ExistingProxyKeeps, StartProxyKeeps, StartFailsKeeps,
     RememberProxyKeeps, RememberCaptureKeeps, ReserveScannerKeeps, TaskScanBeginsKeeps,
     TaskScanEndsKeeps, RecordAndSpawnKeeps
  DEF TaskStep
<1>3. ASSUME NEW w \in Workspaces, LoopStep(w)
      PROVE  IInv'
  BY <1>3, LoopStepKeeps
<1>4. ASSUME NEW q \in Ports, ProxyDies(q)
      PROVE  IInv'
  BY <1>4, ProxyDiesKeeps
<1> QED
  BY <1>1, <1>2, <1>3, <1>4 DEF Next

\* The inductive invariant of the supervisor (daemon/supervisor.rs): what a task
\* takes for granted at each step, at most one scanner loop or one task that will
\* spawn it for each workspace, and handles that tell which proxies run.
THEOREM SupervisorInvariant == Spec => []IInv
<1>1. IInv /\ [Next]_vars => IInv'
  BY NextKeeps
<1> QED
  BY <1>1, InitIInv, PTL DEF Spec

\* The state of the supervisor and of every request keeps its types.
THEOREM TypeCorrect == Spec => []TypeOK
<1>1. IInv => TypeOK
  BY DEF IInv
<1> QED
  BY <1>1, SupervisorInvariant, PTL

\* Whatever requests interleave, a proxy that the daemon keeps is in the capture
\* status of its workspace, no provider is there twice, and what existing_proxy
\* hands out listens, whenever proxies die and whoever takes their ports
\* (remember_proxy, remember_capture, existing_proxy).
THEOREM TableStaysRight == Spec => []TableIsRight
<1>1. IInv => TableIsRight
  BY DEF IInv, TableIsRight
<1> QED
  BY <1>1, SupervisorInvariant, PTL

\* A capture is pending only while a request is on its way to record a scan, and
\* a workspace has one scanner loop at most (ensure_scanner, record_scan_result).
THEOREM PendingScansAreOnTheirWay == Spec => []CapturesGetHealth
<1>1. IInv => CapturesGetHealth
  BY DEF IInv
<1> QED
  BY <1>1, SupervisorInvariant, PTL

(***************************************************************************)
(* Experiments.                                                            *)
(***************************************************************************)
HIDE SupervisorAssumption

CONSTANTS Commands, Sessions, Kinds, MinSample, Duration, MaxTime

VARIABLES clock, exp, recorded, step, report

Exp == INSTANCE Experiments

\* A first tag is what is told, and a later one changes nothing that was told;
\* no other step writes a tag or tells of one.
LEMMA TagsNext == ReportedTagsStay /\ [Exp!Next]_Exp!vars => ReportedTagsStay'
<1> SUFFICES ASSUME ReportedTagsStay, [Exp!Next]_Exp!vars PROVE ReportedTagsStay'
  OBVIOUS
<1>1. CASE \E c \in Commands : Exp!TagInserts(c)
  <2>1. PICK c \in Commands : Exp!TagInserts(c)
    BY <1>1
  <2> QED BY <2>1 DEF Exp!TagInserts, Exp!Tagged, ReportedTagsStay
<1>2. CASE \E c \in Commands, s \in Sessions, v \in Exp!Variants : Exp!TagSelects(c, s, v)
  BY <1>2 DEF Exp!TagSelects, ReportedTagsStay
<1>3. CASE UNCHANGED <<tags, told>>
  BY <1>3 DEF ReportedTagsStay
<1> QED
  BY <1>1, <1>2, <1>3
  DEF Exp!Next, Exp!vars, Exp!New, Exp!SetStateLoads, Exp!SetStateSaves, Exp!ReportReadsTags,
      Exp!ReportReadsValues, Exp!CheckState, Exp!Record, Exp!Tick

\* However commands interleave, with whatever lies between the SELECT and the
\* INSERT of a tag, the variant that somebody was told stays that of its
\* session (experiment/store/tags.rs).
THEOREM TagsStayAsTold == Exp!Spec => []ReportedTagsStay
<1>1. Exp!Init => ReportedTagsStay
  BY DEF Exp!Init, ReportedTagsStay
<1> QED BY <1>1, TagsNext, PTL DEF Exp!Spec

(***************************************************************************)
(* Proxy.                                                                  *)
(***************************************************************************)
CONSTANTS Clients, Named, Uuids, LlmRequests, Bodies, UsageInBody(_), Policy, Prices,
          Mtok, U32, MaxCalls, MaxFaults
VARIABLES sessions, work, calls, faults

Llm == INSTANCE Proxy WITH Requests <- LlmRequests, FindUsageInBody <- UsageInBody

\* The steps after the seq was read, and those after the answer.
Appends == {"append", "span"}
Records == {"session", "upsert", "seq"} \cup Appends

\* A forward is a record; once answered its call is known by the number of the
\* request.
ForwardOK(w) ==
  /\ DOMAIN w = DOMAIN Llm!Idle
  /\ w.seq \in Nat
  /\ w.step \in Records => w.call.n = w.n

\* A row is at a session and a seq, and the seqs have a bound.
EventsOK ==
  /\ \A e \in DOMAIN proxyEvents : e = <<e[1], e[2]>> /\ e[2] \in Nat
  /\ \E last \in Nat : \A e \in DOMAIN proxyEvents : e[2] <= last

\* Where the event of a task goes.
Place(w) == <<w.id, w.seq>>

\* Unless another append came between, the seq that a task has read is free.
SeqIsFree(w) ==
  w.step = "append" /\ w.n \notin overlapped =>
    \A e \in DOMAIN proxyEvents : e[1] = w.id => e[2] < w.seq

\* The event that a span is made for is there, that of its call unless another
\* append came between.
EventIsThere(w) ==
  w.step = "span" =>
    /\ Place(w) \in DOMAIN proxyEvents
    /\ w.n \notin overlapped => proxyEvents[Place(w)] = w.call

\* Two tasks at one place have overlapped.
Apart(v, w) ==
  v.step = "span" /\ w.step \in Appends /\ Place(v) = Place(w) =>
    v.n \in overlapped /\ w.n \in overlapped

\* What is logged has its rows, and nobody is at its place again.
LogOK(l) ==
  /\ <<l.id, l.seq>> \in DOMAIN proxyEvents
  /\ l.call.n \notin overlapped =>
       /\ proxyEvents[<<l.id, l.seq>>] = l.call
       /\ <<l.id, l.seq>> \in DOMAIN llmSpans /\ llmSpans[<<l.id, l.seq>>] = l.call
       /\ \A c \in Clients : work[c].step \in Appends => Place(work[c]) # <<l.id, l.seq>>

\* Of a call that nobody overlapped: its seq is free until its event is there,
\* nobody else is at its place, and so its rows stay once they are written.
ProxyInv ==
  /\ DOMAIN work = Clients
  /\ EventsOK
  /\ \A c \in Clients : ForwardOK(work[c]) /\ SeqIsFree(work[c]) /\ EventIsThere(work[c])
  /\ \A c, d \in Clients : c # d => Apart(work[c], work[d])
  /\ \A l \in recordedCalls : LogOK(l)

\* A nonempty set of naturals with a bound has its maximum in it.
LEMMA MaxOfBounded ==
  ASSUME NEW K \in Nat, NEW D \in SUBSET Nat, D # {}, \A q \in D : q <= K
  PROVE  Max(D) \in D /\ \A q \in D : q <= Max(D)
<1> DEFINE below == {n \in Nat : \E q \in D : n = K - q}
<1>0. \A q \in D : q \in Nat /\ K - q \in Nat
  OBVIOUS
<1>1. below \subseteq Nat /\ below # {}
  BY <1>0
<1>2. PICK d \in below : \A e \in below : ~(<<e, d>> \in OpToRel(<, Nat))
  <2> HIDE DEF below
  <2> QED BY <1>1, NatLessThanWellFounded, WFMin
<1>3. \A e \in below : ~(e < d)
  <2> SUFFICES ASSUME NEW e \in below, e < d PROVE FALSE
    OBVIOUS
  <2>1. e \in Nat /\ d \in Nat
    BY <1>1
  <2>2. <<e, d>> \in OpToRel(<, Nat)
    BY <2>1 DEF OpToRel
  <2> QED BY <2>2, <1>2
<1>4. PICK m \in D : d = K - m
  BY <1>2
<1>5. \A q \in D : m >= q
  <2> TAKE q \in D
  <2>1. K - q \in below
    BY <1>0
  <2>2. ~(K - q < K - m)
    BY <2>1, <1>3, <1>4
  <2> QED BY <2>2, <1>0
<1>6. Max(D) \in D /\ \A q \in D : Max(D) >= q
  BY <1>5, Zenon DEF Max
<1> QED BY <1>6

\* The next seq of a session is above those it has.
LEMMA NextSeqIsFree ==
  ASSUME EventsOK, NEW id
  PROVE  /\ NextEventSeq(id) \in Nat
         /\ \A e \in DOMAIN proxyEvents : e[1] = id => e[2] < NextEventSeq(id)
<1> DEFINE D == {e[2] : e \in {e \in DOMAIN proxyEvents : e[1] = id}}
<1>1. PICK last \in Nat : \A e \in DOMAIN proxyEvents : e[2] <= last
  BY DEF EventsOK
<1>2. D \in SUBSET Nat /\ \A q \in D : q <= last
  BY <1>1 DEF EventsOK
<1>3. NextEventSeq(id) = IF D = {} THEN 0 ELSE Max(D) + 1
  BY DEF NextEventSeq
<1>4. \A e \in DOMAIN proxyEvents : e[1] = id => e[2] \in D
  OBVIOUS
<1> HIDE DEF D
<1>5. CASE D = {}
  BY <1>3, <1>4, <1>5
<1>6. CASE D # {}
  <2>1. last \in Nat /\ D \in SUBSET Nat /\ D # {} /\ \A q \in D : q <= last
    BY <1>2, <1>6
  <2>2. Max(D) \in D /\ \A q \in D : q <= Max(D)
    BY <2>1, MaxOfBounded
  <2>3. NextEventSeq(id) = Max(D) + 1 /\ Max(D) \in Nat
    BY <2>1, <2>2, <1>3
  <2>4. ASSUME NEW e \in DOMAIN proxyEvents, e[1] = id PROVE e[2] < NextEventSeq(id)
    <3>1. e[2] \in D
      BY <2>4, <1>4
    <3>2. e[2] <= Max(D)
      BY <3>1, <2>2
    <3>3. e[2] \in Nat
      BY <3>1, <2>1
    <3> QED BY <3>2, <3>3, <2>3
  <2> QED BY <2>3, <2>4
<1> QED BY <1>5, <1>6

\* The next seq is one operator, whichever module it comes by.
LEMMA SameSeq == \A id : Llm!NextEventSeq(id) = NextEventSeq(id)
  BY DEF Llm!NextEventSeq, NextEventSeq, Llm!Max, Max

\* Cardinality is one operator, whichever module it comes by.
LEMMA SameSize == \A S : Llm!Cardinality(S) = Cardinality(S)
  BY DEF Llm!Cardinality, Cardinality

\* Two tasks that append at a time are two.
LEMMA TwoAreMore ==
  ASSUME IsFiniteSet(Clients), NEW id, NEW c \in Llm!Appending(id), NEW d \in Llm!Appending(id), c # d
  PROVE  Cardinality(Llm!Appending(id)) > 1
<1>1. IsFiniteSet(Llm!Appending(id))
  <2>1. Llm!Appending(id) \subseteq Clients
    BY DEF Llm!Appending
  <2> QED BY <2>1, FS_Subset
<1>2. IsFiniteSet({c}) /\ Cardinality({c}) = 1
  BY FS_Singleton
<1>3. IsFiniteSet({c} \cup {d}) /\ Cardinality({c} \cup {d}) = 2
  BY <1>2, FS_AddElement
<1>4. Cardinality({c} \cup {d}) <= Cardinality(Llm!Appending(id))
  <2>1. {c} \cup {d} \subseteq Llm!Appending(id)
    OBVIOUS
  <2> QED BY <2>1, <1>1, FS_Subset
<1>5. Cardinality(Llm!Appending(id)) \in Nat
  BY <1>1, FS_CardinalityType
<1> QED BY <1>3, <1>4, <1>5

\* What the log is made of.
LogVars == <<proxyEvents, llmSpans, recordedCalls, overlapped>>

\* A task that goes to a step before its append, or ends, disturbs nothing.
LEMMA GoesOn ==
  ASSUME ProxyInv, NEW c \in Clients, NEW w, ForwardOK(w), w.step \notin Appends,
         work' = [work EXCEPT ![c] = w], UNCHANGED LogVars
  PROVE  ProxyInv'
<1>1. /\ DOMAIN work' = Clients /\ work'[c] = w
      /\ \A d \in Clients : d # c => work'[d] = work[d]
  BY DEF ProxyInv
<1>2. EventsOK'
  BY DEF ProxyInv, EventsOK, LogVars
<1>3. \A d \in Clients : ForwardOK(work[d])' /\ SeqIsFree(work[d])' /\ EventIsThere(work[d])'
  <2> SUFFICES ASSUME NEW d \in Clients
               PROVE  ForwardOK(work'[d]) /\ SeqIsFree(work[d])' /\ EventIsThere(work[d])'
    BY DEF ForwardOK
  <2>1. CASE d = c
    BY <2>1, <1>1 DEF SeqIsFree, EventIsThere, Appends
  <2>2. CASE d # c
    BY <2>2, <1>1 DEF ProxyInv, SeqIsFree, EventIsThere, LogVars, Place
  <2> QED BY <2>1, <2>2
<1>4. \A d, e \in Clients : d # e => Apart(work[d], work[e])'
  BY <1>1 DEF ProxyInv, Apart, Appends, LogVars, Place
<1>5. \A l \in recordedCalls' : LogOK(l)'
  BY <1>1 DEF ProxyInv, LogOK, LogVars, Place
<1> QED BY <1>1, <1>2, <1>3, <1>4, <1>5 DEF ProxyInv

\* A task that reads the next seq has a free one, and a place of its own.
LEMMA Reads ==
  ASSUME ProxyInv, NEW c \in Clients, Llm!ReadSeq(c)
  PROVE  ProxyInv'
<1> DEFINE next == NextEventSeq(work[c].id)
<1>1. /\ next \in Nat
      /\ \A e \in DOMAIN proxyEvents : e[1] = work[c].id => e[2] < next
  BY NextSeqIsFree DEF ProxyInv
<1>2. /\ work[c].step = "seq"
      /\ work' = [work EXCEPT ![c].step = "append", ![c].seq = next]
      /\ UNCHANGED LogVars
  BY SameSeq DEF Llm!ReadSeq, Llm!store, Llm!history, LogVars
<1> HIDE DEF next
<1>3. /\ DOMAIN work' = Clients
      /\ \A d \in Clients : d # c => work'[d] = work[d]
  BY <1>2 DEF ProxyInv
<1>4. ForwardOK(work[c]) /\ DOMAIN work[c] = {"step", "n", "call", "id", "model", "messages", "seq"}
  BY DEF ProxyInv, ForwardOK, Llm!Idle
<1>5. /\ work'[c].step = "append" /\ work'[c].seq = next /\ work'[c].id = work[c].id
      /\ work'[c].n = work[c].n /\ work'[c].call = work[c].call
      /\ DOMAIN work'[c] = DOMAIN work[c]
  BY <1>2, <1>4 DEF ProxyInv
<1>6. EventsOK'
  BY <1>2 DEF ProxyInv, EventsOK, LogVars
<1>7. \A e \in DOMAIN proxyEvents : e # Place(work'[c])
  BY <1>1, <1>5 DEF ProxyInv, EventsOK, Place
<1>8. \A d \in Clients : ForwardOK(work'[d]) /\ SeqIsFree(work[d])' /\ EventIsThere(work[d])'
  <2> SUFFICES ASSUME NEW d \in Clients
               PROVE  ForwardOK(work'[d]) /\ SeqIsFree(work[d])' /\ EventIsThere(work[d])'
    OBVIOUS
  <2>1. CASE d = c
    <3>1. ForwardOK(work'[c])
      BY <1>1, <1>4, <1>5, <1>2 DEF ForwardOK, Records, Appends
    <3>2. SeqIsFree(work[c])' /\ EventIsThere(work[c])'
      BY <1>1, <1>2, <1>5 DEF SeqIsFree, EventIsThere, LogVars
    <3> QED BY <2>1, <3>1, <3>2
  <2>2. CASE d # c
    BY <2>2, <1>2, <1>3 DEF ProxyInv, SeqIsFree, EventIsThere, LogVars, Place
  <2> QED BY <2>1, <2>2
<1>9. \A d, e \in Clients : d # e => Apart(work[d], work[e])'
  <2> SUFFICES ASSUME NEW d \in Clients, NEW e \in Clients, d # e PROVE Apart(work[d], work[e])'
    OBVIOUS
  <2>1. CASE d = c
    BY <2>1, <1>5 DEF Apart
  <2>2. CASE e = c
    <3>1. work[d].step = "span" => Place(work[d]) \in DOMAIN proxyEvents
      BY DEF ProxyInv, EventIsThere
    <3> QED BY <3>1, <2>2, <1>3, <1>7 DEF Apart, Place
  <2>3. CASE d # c /\ e # c
    BY <2>3, <1>2, <1>3 DEF ProxyInv, Apart, LogVars, Place
  <2> QED BY <2>1, <2>2, <2>3
<1>10. \A l \in recordedCalls' : LogOK(l)'
  <2> SUFFICES ASSUME NEW l \in recordedCalls PROVE LogOK(l)'
    BY <1>2 DEF LogVars
  <2>1. LogOK(l)
    BY DEF ProxyInv
  <2>2. Place(work'[c]) # <<l.id, l.seq>>
    BY <2>1, <1>7 DEF LogOK
  <2> QED BY <2>1, <2>2, <1>2, <1>3 DEF LogOK, LogVars, Place
<1> QED BY <1>3, <1>6, <1>8, <1>9, <1>10 DEF ProxyInv, ForwardOK

\* An append at a free place puts its event there; where the place is taken, or
\* another task is about to append, the calls have overlapped.
LEMMA Appended ==
  ASSUME ProxyInv, IsFiniteSet(Clients), NEW c \in Clients, Llm!AppendEvent(c)
  PROVE  ProxyInv'
<1> DEFINE key == Place(work[c])
<1>1. /\ work[c].step = "append"
      /\ proxyEvents' = Llm!InsertedOrIgnored(proxyEvents, key, work[c].call)
      /\ \/ overlapped' = overlapped
         \/ overlapped' = overlapped \cup {work[d].n : d \in Llm!Appending(work[c].id)}
      /\ Cardinality(Llm!Appending(work[c].id)) > 1 =>
           overlapped' = overlapped \cup {work[d].n : d \in Llm!Appending(work[c].id)}
      /\ \/ work' = [work EXCEPT ![c] = Llm!Idle]
         \/ work' = [work EXCEPT ![c].step = "span"]
      /\ UNCHANGED <<llmSpans, recordedCalls>>
  <2>1. /\ work[c].step = "append"
        /\ proxyEvents' = Llm!InsertedOrIgnored(proxyEvents, <<work[c].id, work[c].seq>>, work[c].call)
        /\ overlapped' = IF Cardinality(Llm!Appending(work[c].id)) > 1
                         THEN overlapped \cup {work[d].n : d \in Llm!Appending(work[c].id)}
                         ELSE overlapped
        /\ work' = IF work[c].call.status = None
                   THEN [work EXCEPT ![c] = Llm!Idle]
                   ELSE [work EXCEPT ![c].step = "span"]
        /\ llmSpans' = llmSpans /\ recordedCalls' = recordedCalls
    <3>1. work[c].step = "append"
      BY Zenon DEF Llm!AppendEvent
    <3>2. proxyEvents' = Llm!InsertedOrIgnored(proxyEvents, <<work[c].id, work[c].seq>>, work[c].call)
      BY Zenon DEF Llm!AppendEvent
    <3>3. overlapped' = IF Cardinality(Llm!Appending(work[c].id)) > 1
                         THEN overlapped \cup {work[d].n : d \in Llm!Appending(work[c].id)}
                         ELSE overlapped
      <4>1. overlapped' = IF Llm!Cardinality(Llm!Appending(work[c].id)) > 1
                          THEN overlapped \cup {work[d].n : d \in Llm!Appending(work[c].id)}
                          ELSE overlapped
        BY DEF Llm!AppendEvent
      <4> QED BY <4>1, SameSize
    <3>4. work' = IF work[c].call.status = None
                   THEN [work EXCEPT ![c] = Llm!Idle]
                   ELSE [work EXCEPT ![c].step = "span"]
      BY Zenon DEF Llm!AppendEvent
    <3>5. llmSpans' = llmSpans /\ recordedCalls' = recordedCalls
      BY Zenon DEF Llm!AppendEvent
    <3> QED BY <3>1, <3>2, <3>3, <3>4, <3>5
  <2> QED BY <2>1, Zenon DEF Place
<1>2. /\ DOMAIN proxyEvents' = DOMAIN proxyEvents \cup {key}
      /\ \A e \in DOMAIN proxyEvents : proxyEvents'[e] = proxyEvents[e]
      /\ key \notin DOMAIN proxyEvents => proxyEvents'[key] = work[c].call
  BY <1>1 DEF Llm!InsertedOrIgnored
<1>3. overlapped \subseteq overlapped'
  BY <1>1
<1>4. ASSUME NEW d \in Clients, d # c, work[d].step = "append", work[d].id = work[c].id
      PROVE  work[c].n \in overlapped' /\ work[d].n \in overlapped'
  <2>1. c \in Llm!Appending(work[c].id) /\ d \in Llm!Appending(work[c].id)
    BY <1>1, <1>4 DEF Llm!Appending
  <2>2. Cardinality(Llm!Appending(work[c].id)) > 1
    BY <2>1, <1>4, TwoAreMore
  <2> QED BY <2>1, <2>2, <1>1
<1>5. /\ DOMAIN work' = Clients
      /\ \A d \in Clients : d # c => work'[d] = work[d]
  BY <1>1 DEF ProxyInv
<1>6. ForwardOK(work[c]) /\ DOMAIN work[c] = {"step", "n", "call", "id", "model", "messages", "seq"}
  BY DEF ProxyInv, ForwardOK, Llm!Idle
<1>7. \/ work'[c] = Llm!Idle
      \/ /\ work'[c].step = "span" /\ work'[c].seq = work[c].seq /\ work'[c].id = work[c].id
         /\ work'[c].n = work[c].n /\ work'[c].call = work[c].call
         /\ DOMAIN work'[c] = DOMAIN work[c]
  BY <1>1, <1>6 DEF ProxyInv
<1>8. work'[c].step \in Appends =>
        /\ work'[c].step = "span" /\ Place(work'[c]) = key /\ work'[c].n = work[c].n
        /\ work'[c].call = work[c].call
  BY <1>7 DEF Place, Appends, Llm!Idle
<1>9. work[c].n \notin overlapped' => key \notin DOMAIN proxyEvents
  BY <1>1, <1>3, <1>6 DEF ProxyInv, SeqIsFree, Place, ForwardOK
<1>10. EventsOK'
  <2>1. PICK last \in Nat : \A e \in DOMAIN proxyEvents : e[2] <= last
    BY DEF ProxyInv, EventsOK
  <2>2. work[c].seq \in Nat /\ key[2] = work[c].seq /\ key = <<key[1], key[2]>>
    BY <1>6 DEF ForwardOK, Place
  <2>3. \A e \in DOMAIN proxyEvents' : e = <<e[1], e[2]>> /\ e[2] \in Nat
    BY <2>2, <1>2 DEF ProxyInv, EventsOK
  <2>4. \A e \in DOMAIN proxyEvents' : e[2] <= last + work[c].seq
    BY <2>1, <2>2, <1>2 DEF ProxyInv, EventsOK
  <2>5. last + work[c].seq \in Nat
    BY <2>2
  <2> QED BY <2>3, <2>4, <2>5 DEF EventsOK
<1> HIDE DEF key
<1>11. \A d \in Clients : ForwardOK(work'[d]) /\ SeqIsFree(work[d])' /\ EventIsThere(work[d])'
  <2> SUFFICES ASSUME NEW d \in Clients
               PROVE  ForwardOK(work'[d]) /\ SeqIsFree(work[d])' /\ EventIsThere(work[d])'
    OBVIOUS
  <2>1. CASE d = c
    <3>1. ForwardOK(work'[c])
      BY <1>1, <1>6, <1>7 DEF ForwardOK, Records, Appends, Llm!Idle
    <3>2. SeqIsFree(work[c])'
      BY <1>8 DEF SeqIsFree, Appends
    <3>3. EventIsThere(work[c])'
      BY <1>2, <1>8, <1>9 DEF EventIsThere, Appends
    <3> QED BY <2>1, <3>1, <3>2, <3>3
  <2>2. CASE d # c
    <3>1. ForwardOK(work'[d])
      BY <2>2, <1>5 DEF ProxyInv
    <3>2. SeqIsFree(work[d])'
      <4>1. work[d].step = "append" /\ work[d].n \notin overlapped' => work[d].id # work[c].id
        BY <2>2, <1>4
      <4>2. key[1] = work[c].id
        BY DEF key, Place
      <4> QED BY <4>1, <4>2, <2>2, <1>2, <1>3, <1>5 DEF ProxyInv, SeqIsFree
    <3>3. EventIsThere(work[d])'
      BY <2>2, <1>2, <1>3, <1>5 DEF ProxyInv, EventIsThere, Place
    <3> QED BY <3>1, <3>2, <3>3
  <2> QED BY <2>1, <2>2
<1>12. \A d, e \in Clients : d # e => Apart(work[d], work[e])'
  <2> SUFFICES ASSUME NEW d \in Clients, NEW e \in Clients, d # e PROVE Apart(work[d], work[e])'
    OBVIOUS
  <2>1. CASE d = c
    <3>1. work[e].step = "append" /\ Place(work[e]) = key =>
            work[c].n \in overlapped' /\ work[e].n \in overlapped'
      BY <2>1, <1>4 DEF Place, key
    <3>2. work[e].step = "span" /\ Place(work[e]) = key =>
            work[c].n \in overlapped' /\ work[e].n \in overlapped'
      BY <2>1, <1>1, <1>3 DEF ProxyInv, Apart, Appends, key
    <3> QED BY <2>1, <3>1, <3>2, <1>5, <1>8 DEF Apart, Appends, Place
  <2>2. CASE e = c
    <3>1. work[d].step = "span" /\ Place(work[d]) = key =>
            work[c].n \in overlapped' /\ work[d].n \in overlapped'
      BY <2>2, <1>1, <1>3 DEF ProxyInv, Apart, Appends, key
    <3> QED BY <2>2, <3>1, <1>5, <1>8 DEF Apart, Appends, Place
  <2>3. CASE d # c /\ e # c
    BY <2>3, <1>3, <1>5 DEF ProxyInv, Apart, Place
  <2> QED BY <2>1, <2>2, <2>3
<1>13. \A l \in recordedCalls' : LogOK(l)'
  <2> SUFFICES ASSUME NEW l \in recordedCalls PROVE LogOK(l)'
    BY <1>1
  <2>1. LogOK(l)
    BY DEF ProxyInv
  <2>2. l.call.n \notin overlapped' /\ work'[c].step \in Appends => Place(work'[c]) # <<l.id, l.seq>>
    BY <2>1, <1>1, <1>3, <1>8 DEF LogOK, Appends, key
  <2> QED BY <2>1, <2>2, <1>1, <1>2, <1>3, <1>5 DEF LogOK, Place
<1> QED BY <1>5, <1>10, <1>11, <1>12, <1>13 DEF ProxyInv, ForwardOK

\* A span is written at the place of its task, which is nobody else's, and its
\* call is recorded.
LEMMA Logs ==
  ASSUME ProxyInv, NEW c \in Clients, Llm!UpsertTraceSpan(c)
  PROVE  ProxyInv'
<1> DEFINE key == Place(work[c])
           new == [call |-> work[c].call, id |-> work[c].id, seq |-> work[c].seq]
<1>1. /\ work[c].step = "span"
      /\ llmSpans' = Llm!Upserted(llmSpans, key, work[c].call)
      /\ recordedCalls' = recordedCalls \cup {new}
      /\ work' = [work EXCEPT ![c] = Llm!Idle]
      /\ UNCHANGED <<proxyEvents, overlapped>>
  BY DEF Llm!UpsertTraceSpan, Llm!SpanId, Place
<1>2. /\ DOMAIN llmSpans' = DOMAIN llmSpans \cup {key} /\ llmSpans'[key] = work[c].call
      /\ \A k \in DOMAIN llmSpans : k # key => llmSpans'[k] = llmSpans[k]
  BY <1>1 DEF Llm!Upserted
<1>3. new.call = work[c].call /\ <<new.id, new.seq>> = key
  BY DEF Place
<1>4. /\ DOMAIN work' = Clients /\ work'[c] = Llm!Idle
      /\ \A d \in Clients : d # c => work'[d] = work[d]
  BY <1>1 DEF ProxyInv
<1>5. Llm!Idle.step \notin Records /\ Llm!Idle.step = "idle" /\ Llm!Idle.seq \in Nat
  BY DEF Llm!Idle, Records, Appends
<1>6. work[c].call.n = work[c].n
  BY <1>1 DEF ProxyInv, ForwardOK, Records, Appends
<1> HIDE DEF key, new
<1>7. EventsOK'
  BY <1>1 DEF ProxyInv, EventsOK
<1>8. \A d \in Clients : ForwardOK(work'[d]) /\ SeqIsFree(work[d])' /\ EventIsThere(work[d])'
  <2> SUFFICES ASSUME NEW d \in Clients
               PROVE  ForwardOK(work'[d]) /\ SeqIsFree(work[d])' /\ EventIsThere(work[d])'
    OBVIOUS
  <2>1. CASE d = c
    BY <2>1, <1>4, <1>5 DEF ForwardOK, SeqIsFree, EventIsThere
  <2>2. CASE d # c
    BY <2>2, <1>1, <1>4 DEF ProxyInv, SeqIsFree, EventIsThere, Place
  <2> QED BY <2>1, <2>2
<1>9. \A d, e \in Clients : d # e => Apart(work[d], work[e])'
  BY <1>1, <1>4, <1>5 DEF ProxyInv, Apart, Appends, Place
<1>10. \A l \in recordedCalls' : LogOK(l)'
  <2>1. ASSUME NEW l \in recordedCalls PROVE LogOK(l)'
    <3>1. LogOK(l)
      BY DEF ProxyInv
    <3>2. l.call.n \notin overlapped => <<l.id, l.seq>> # key
      BY <3>1, <1>1 DEF LogOK, Appends, key
    <3> QED BY <3>1, <3>2, <1>1, <1>2, <1>4, <1>5 DEF LogOK, Appends, Place
  <2>2. ASSUME NEW l, l = new PROVE LogOK(l)'
    <3>1. key \in DOMAIN proxyEvents /\ (work[c].n \notin overlapped => proxyEvents[key] = work[c].call)
      BY <1>1 DEF ProxyInv, EventIsThere, key
    <3>2. work[c].n \notin overlapped =>
            \A d \in Clients : d # c /\ work[d].step \in Appends => Place(work[d]) # key
      <4> SUFFICES ASSUME NEW d \in Clients, d # c, work[d].step \in Appends, Place(work[d]) = key
                   PROVE  work[c].n \in overlapped
        OBVIOUS
      <4>1. Apart(work[c], work[d])
        BY DEF ProxyInv
      <4> QED BY <4>1, <1>1 DEF Apart, key
    <3>3. \A d \in Clients : work'[d].step \in Appends => d # c /\ work'[d] = work[d]
      BY <1>4, <1>5 DEF Appends
    <3>4. work[c].n \notin overlapped =>
            \A d \in Clients : work'[d].step \in Appends => Place(work'[d]) # key
      BY <3>2, <3>3 DEF Place
    <3>5. new.call.n = work[c].n
      BY <1>3, <1>6
    <3>6. <<new.id, new.seq>> \in DOMAIN proxyEvents'
      BY <3>1, <1>1, <1>3
    <3>7. <<new.id, new.seq>> \in DOMAIN llmSpans' /\ llmSpans'[<<new.id, new.seq>>] = new.call
      BY <1>2, <1>3
    <3>8. work[c].n \notin overlapped => proxyEvents'[<<new.id, new.seq>>] = new.call
      BY <3>1, <1>1, <1>3
    <3>9. overlapped' = overlapped
      BY <1>1
    <3>10. work[c].n \notin overlapped =>
             \A d \in Clients : work'[d].step \in Appends => Place(work'[d]) # <<new.id, new.seq>>
      BY <3>4, <1>3
    <3>11. LogOK(l)'
      <4>1. <<l.id, l.seq>> \in DOMAIN proxyEvents'
        BY <3>6, <2>2
      <4>2. l.call.n \notin overlapped' => proxyEvents'[<<l.id, l.seq>>] = l.call
        BY <3>5, <3>8, <3>9, <2>2
      <4>3. <<l.id, l.seq>> \in DOMAIN llmSpans' /\ llmSpans'[<<l.id, l.seq>>] = l.call
        BY <3>7, <2>2
      <4>4. l.call.n \notin overlapped' =>
              \A d \in Clients : work'[d].step \in Appends => Place(work'[d]) # <<l.id, l.seq>>
        BY <3>5, <3>9, <3>10, <2>2
      <4> QED BY <4>1, <4>2, <4>3, <4>4 DEF LogOK, Place
    <3> QED BY <3>11
  <2> QED BY <2>1, <2>2, <1>1
<1> QED BY <1>4, <1>7, <1>8, <1>9, <1>10 DEF ProxyInv, ForwardOK

\* Nothing is logged at first.
LEMMA ProxyInit == Llm!Init => ProxyInv
  BY DEF Llm!Init, Llm!Idle, ProxyInv, EventsOK, ForwardOK, SeqIsFree, EventIsThere, Apart,
         Records, Appends

\* A request, an answer, a failure or a hook touches no row; the others are above.
LEMMA ProxyStep ==
  ASSUME ProxyInv, IsFiniteSet(Clients), [Llm!Next]_Llm!vars
  PROVE  ProxyInv'
<1>1. CASE UNCHANGED Llm!vars
  BY <1>1 DEF Llm!vars, ProxyInv, EventsOK, ForwardOK, SeqIsFree, EventIsThere, Apart, LogOK, Place
<1>2. CASE Llm!Next
  <2>1. PICK c \in Clients :
          \/ Llm!Receive(c) \/ Llm!SendFails(c) \/ Llm!BodyFails(c) \/ Llm!Answered(c)
          \/ Llm!Disconnect(c) \/ Llm!LookForSession(c) \/ Llm!UpsertSession(c)
          \/ Llm!ReadSeq(c) \/ Llm!AppendEvent(c) \/ Llm!UpsertTraceSpan(c)
          \/ Llm!RecordFails(c) \/ Llm!Hook(c)
    BY <1>2 DEF Llm!Next
  <2> DEFINE w == work'[c]
  <2>2. ASSUME work' = [work EXCEPT ![c] = work'[c]], ForwardOK(work'[c]), work'[c].step \notin Appends,
               UNCHANGED LogVars
        PROVE  ProxyInv'
    <3>1. PICK v : v = work'[c]
      OBVIOUS
    <3>2. /\ ForwardOK(v) /\ v.step \notin Appends
          /\ work' = [work EXCEPT ![c] = v]
      BY <3>1, <2>2 DEF ForwardOK
    <3> QED BY <3>2, <2>2, GoesOn
  <2>3. /\ DOMAIN work = Clients /\ ForwardOK(work[c])
        /\ DOMAIN work[c] = {"step", "n", "call", "id", "model", "messages", "seq"}
    BY DEF ProxyInv, ForwardOK, Llm!Idle
  <2>4. ASSUME work' = [work EXCEPT ![c] = Llm!Idle], UNCHANGED LogVars PROVE ProxyInv'
    <3>1. ForwardOK(Llm!Idle) /\ Llm!Idle.step \notin Appends
      BY DEF Llm!Idle, ForwardOK, Records, Appends
    <3> QED BY <2>4, <3>1, GoesOn
  <2>5. CASE Llm!Receive(c)
    <3>1. PICK r \in LlmRequests, named \in Named \cup {None} : \E id \in Llm!SessionIds(named) :
            work' = [work EXCEPT ![c] =
              [Llm!Idle EXCEPT !.step = "send", !.n = calls + 1, !.id = id,
                               !.model = IF r.json THEN r.model ELSE None,
                               !.messages = Llm!ProcessRequest(r)]]
      BY <2>5 DEF Llm!Receive
    <3>2. PICK id : work' = [work EXCEPT ![c] =
              [Llm!Idle EXCEPT !.step = "send", !.n = calls + 1, !.id = id,
                               !.model = IF r.json THEN r.model ELSE None,
                               !.messages = Llm!ProcessRequest(r)]]
      BY <3>1
    <3> DEFINE v == [Llm!Idle EXCEPT !.step = "send", !.n = calls + 1, !.id = id,
                               !.model = IF r.json THEN r.model ELSE None,
                               !.messages = Llm!ProcessRequest(r)]
    <3>3. DOMAIN v = DOMAIN Llm!Idle /\ v.step = "send" /\ v.seq = 0
      BY DEF Llm!Idle
    <3>4. UNCHANGED LogVars
      BY <2>5 DEF Llm!Receive, Llm!store, LogVars
    <3> HIDE DEF v
    <3>5. ForwardOK(v) /\ v.step \notin Appends
      BY <3>3 DEF ForwardOK, Records, Appends
    <3>6. work' = [work EXCEPT ![c] = v]
      BY <3>2 DEF v
    <3> QED BY <3>4, <3>5, <3>6, GoesOn
  <2>6. ASSUME NEW call, call.n = work[c].n, Llm!Recorded(c, call), UNCHANGED LogVars
        PROVE  ProxyInv'
    <3>1. work' = [work EXCEPT ![c].step = "session", ![c].call = call]
      BY <2>6 DEF Llm!Recorded
    <3>2. /\ work'[c].step = "session" /\ work'[c].call = call /\ work'[c].n = work[c].n
          /\ work'[c].seq = work[c].seq /\ DOMAIN work'[c] = DOMAIN work[c]
          /\ work' = [work EXCEPT ![c] = work'[c]]
      BY <3>1, <2>3
    <3>3. ForwardOK(work'[c]) /\ work'[c].step \notin Appends
      BY <3>2, <2>3, <2>6 DEF ForwardOK, Records, Appends
    <3> QED BY <3>2, <3>3, <2>2, <2>6
  <2>7. CASE Llm!SendFails(c) \/ Llm!BodyFails(c) \/ Llm!Answered(c)
    <3>1. \E u, failed, status : Llm!Recorded(c, Llm!Call(c, u, failed, status))
      <4>1. CASE Llm!SendFails(c)
        <5>1. Llm!Recorded(c, Llm!Call(c, Llm!NoUsage, TRUE, 0))
          BY <4>1 DEF Llm!SendFails
        <5> QED BY <5>1
      <4>2. CASE Llm!BodyFails(c)
        <5>1. PICK status \in {200, 429} : Llm!Recorded(c, Llm!Call(c, Llm!NoUsage, TRUE, status))
          BY <4>2 DEF Llm!BodyFails
        <5> QED BY <5>1
      <4>3. CASE Llm!Answered(c)
        <5>1. PICK b \in Bodies, status \in {200, 429} :
                IF ~b.fits
                THEN Llm!Recorded(c, Llm!Call(c, Llm!NoUsage, TRUE, status))
                ELSE Llm!Recorded(c, Llm!Call(c, UsageInBody(b), status # 200, status))
          BY <4>3 DEF Llm!Answered
        <5>2. CASE ~b.fits
          BY <5>1, <5>2
        <5>3. CASE b.fits
          BY <5>1, <5>3
        <5> QED BY <5>2, <5>3
      <4> QED BY <2>7, <4>1, <4>2, <4>3
    <3>2. PICK u, failed, status : Llm!Recorded(c, Llm!Call(c, u, failed, status))
      BY <3>1
    <3>3. Llm!Call(c, u, failed, status).n = work[c].n
      BY DEF Llm!Call
    <3>4. UNCHANGED LogVars
      BY <2>7 DEF Llm!SendFails, Llm!BodyFails, Llm!Answered, Llm!store, Llm!history, LogVars
    <3> QED BY <3>2, <3>3, <3>4, <2>6
  <2>8. CASE Llm!Disconnect(c) \/ Llm!RecordFails(c)
    BY <2>8, <2>4 DEF Llm!Disconnect, Llm!RecordFails, Llm!store, Llm!history, LogVars
  <2>9. ASSUME NEW next \in Records \ Appends, work[c].step \in Records, UNCHANGED LogVars,
               work' = [work EXCEPT ![c].step = next]
        PROVE  ProxyInv'
    <3>1. /\ work'[c].step = next /\ work'[c].call = work[c].call /\ work'[c].n = work[c].n
          /\ work'[c].seq = work[c].seq /\ DOMAIN work'[c] = DOMAIN work[c]
          /\ work' = [work EXCEPT ![c] = work'[c]]
      BY <2>9, <2>3
    <3>2. ForwardOK(work'[c]) /\ work'[c].step \notin Appends
      BY <3>1, <2>3, <2>9 DEF ForwardOK
    <3> QED BY <3>1, <3>2, <2>2, <2>9
  <2>10. CASE Llm!LookForSession(c) \/ Llm!UpsertSession(c)
    <3>1. /\ work[c].step \in Records /\ UNCHANGED LogVars
          /\ \/ work' = [work EXCEPT ![c].step = "seq"]
             \/ work' = [work EXCEPT ![c].step = "upsert"]
      BY <2>10 DEF Llm!LookForSession, Llm!UpsertSession, Llm!store, Llm!history, LogVars, Records
    <3>2. "seq" \in Records \ Appends /\ "upsert" \in Records \ Appends
      BY DEF Records, Appends
    <3> QED BY <3>1, <3>2, <2>9
  <2>11. CASE Llm!ReadSeq(c)
    BY <2>11, Reads
  <2>12. CASE Llm!AppendEvent(c)
    BY <2>12, Appended
  <2>13. CASE Llm!UpsertTraceSpan(c)
    BY <2>13, Logs
  <2>14. CASE Llm!Hook(c)
    <3>1. PICK id \in Named :
            work' = [work EXCEPT ![c] =
              [Llm!Idle EXCEPT !.step = "seq", !.n = calls + 1, !.id = id,
                           !.call = [n |-> calls + 1, failed |-> FALSE, status |-> None,
                                     usage |-> Llm!NoUsage, cost |-> None]]]
      BY <2>14 DEF Llm!Hook
    <3> DEFINE v == [Llm!Idle EXCEPT !.step = "seq", !.n = calls + 1, !.id = id,
                           !.call = [n |-> calls + 1, failed |-> FALSE, status |-> None,
                                     usage |-> Llm!NoUsage, cost |-> None]]
    <3>2. DOMAIN v = DOMAIN Llm!Idle /\ v.step = "seq" /\ v.seq = 0 /\ v.n = calls + 1 /\ v.call.n = v.n
      BY DEF Llm!Idle
    <3>3. UNCHANGED LogVars
      BY <2>14 DEF Llm!Hook, LogVars
    <3> HIDE DEF v
    <3>4. ForwardOK(v) /\ v.step \notin Appends
      BY <3>2 DEF ForwardOK, Appends
    <3>5. work' = [work EXCEPT ![c] = v]
      BY <3>1 DEF v
    <3> QED BY <3>3, <3>4, <3>5, GoesOn
  <2> QED BY <2>1, <2>5, <2>7, <2>8, <2>10, <2>11, <2>12, <2>13, <2>14
<1> QED BY <1>1, <1>2

\* A call that was recorded, and that no other append of its session overlapped,
\* has its event and its span for ever, whatever the other clients and the hooks
\* do and wherever they fail (proxy/record.rs, store/sqlite/event_write.rs).
THEOREM CallsStayLogged == ASSUME IsFiniteSet(Clients) PROVE Llm!Spec => []CallsAreLogged
<1>1. ProxyInv => CallsAreLogged
  BY DEF ProxyInv, LogOK, CallsAreLogged
<1> QED BY <1>1, ProxyInit, ProxyStep, PTL DEF Llm!Spec

(***************************************************************************)
(* Elements in a row: Remote and Tui read what they have in an order.      *)
(***************************************************************************)
\* A finite set with a strict order has its elements in a row, each before the next.
LEMMA InOrder ==
  ASSUME NEW S, IsFiniteSet(S), NEW R,
         \A e, f, g \in S : <<e, f>> \in R /\ <<f, g>> \in R => <<e, g>> \in R,
         \A e \in S : <<e, e>> \notin R,
         \A e, f \in S : e # f => <<e, f>> \in R \/ <<f, e>> \in R
  PROVE  \E s \in [1 .. Cardinality(S) -> S] :
           \A i, j \in 1 .. Cardinality(S) : i < j => <<s[i], s[j]>> \in R
<1> DEFINE n == Cardinality(S)
           Before(e) == {f \in S : <<f, e>> \in R}
           rank == [e \in S |-> Cardinality(Before(e)) + 1]
<1>1. n \in Nat
  BY FS_CardinalityType
<1>2. \A e \in S : IsFiniteSet(Before(e)) /\ Cardinality(Before(e)) \in Nat
  <2> TAKE e \in S
  <2>1. Before(e) \in SUBSET S
    OBVIOUS
  <2>2. IsFiniteSet(Before(e))
    BY <2>1, FS_Subset
  <2> HIDE DEF Before
  <2> QED BY <2>2, FS_CardinalityType
<1>3. \A e \in S : rank[e] \in 1 .. n
  <2> TAKE e \in S
  <2>1. Before(e) \in SUBSET (S \ {e})
    OBVIOUS
  <2>2. IsFiniteSet(S \ {e}) /\ Cardinality(S \ {e}) = n - 1
    BY FS_RemoveElement
  <2>3. Cardinality(Before(e)) <= n - 1
    <3> HIDE DEF Before
    <3> QED BY <2>1, <2>2, FS_Subset
  <2>4. rank[e] = Cardinality(Before(e)) + 1
    OBVIOUS
  <2> HIDE DEF Before, rank
  <2> QED BY <2>3, <2>4, <1>1, <1>2
<1>4. ASSUME NEW e \in S, NEW f \in S, <<e, f>> \in R PROVE rank[e] < rank[f]
  <2>1. Before(e) \cup {e} \in SUBSET Before(f)
    BY <1>4
  <2>2. e \notin Before(e)
    OBVIOUS
  <2>3. rank[e] = Cardinality(Before(e)) + 1 /\ rank[f] = Cardinality(Before(f)) + 1
    OBVIOUS
  <2> HIDE DEF Before, rank
  <2>4. Cardinality(Before(e) \cup {e}) = Cardinality(Before(e)) + 1
    BY <1>2, <2>2, FS_AddElement
  <2>5. Cardinality(Before(e) \cup {e}) <= Cardinality(Before(f))
    BY <1>2, <2>1, FS_Subset
  <2> QED BY <1>2, <2>3, <2>4, <2>5
<1>5. rank \in [S -> 1 .. n]
  BY <1>3
<1> HIDE DEF rank, Before
<1>6. \A e, f \in S : rank[e] = rank[f] => e = f
  <2> SUFFICES ASSUME NEW e \in S, NEW f \in S, rank[e] = rank[f], e # f PROVE FALSE
    OBVIOUS
  <2>1. rank[e] \in Nat /\ rank[f] \in Nat
    BY <1>3
  <2>2. rank[e] < rank[f] \/ rank[f] < rank[e]
    BY <1>4
  <2> QED BY <2>1, <2>2
<1>7. rank \in Surjection(S, 1 .. n)
  <2>1. rank \in Injection(S, 1 .. n)
    BY <1>5, <1>6 DEF Injection, IsInjective
  <2>2. IsFiniteSet(1 .. n) /\ Cardinality(1 .. n) = n
    BY <1>1, FS_Interval
  <2>3. Cardinality(S) = Cardinality(1 .. n) <=> rank \in Surjection(S, 1 .. n)
    BY <2>1, <2>2, FS_Injection
  <2> QED BY <2>2, <2>3
<1>8. \A i \in 1 .. n : \E e \in S : rank[e] = i
  BY <1>7 DEF Surjection
<1> DEFINE s == [i \in 1 .. n |-> CHOOSE e \in S : rank[e] = i]
<1>9. \A i \in 1 .. n : s[i] \in S /\ rank[s[i]] = i
  BY <1>8
<1>10. s \in [1 .. n -> S]
  BY <1>9
<1>11. \A i, j \in 1 .. n : i < j => <<s[i], s[j]>> \in R
  <2> SUFFICES ASSUME NEW i \in 1 .. n, NEW j \in 1 .. n, i < j PROVE <<s[i], s[j]>> \in R
    OBVIOUS
  <2>1. s[i] \in S /\ s[j] \in S /\ rank[s[i]] = i /\ rank[s[j]] = j
    BY <1>9
  <2> HIDE DEF s
  <2>2. s[i] # s[j]
    BY <2>1, <1>1
  <2>3. <<s[j], s[i]>> \notin R
    <3> SUFFICES ASSUME <<s[j], s[i]>> \in R PROVE FALSE
      OBVIOUS
    <3>1. rank[s[j]] < rank[s[i]]
      BY <2>1, <1>4
    <3> QED BY <3>1, <2>1, <1>1
  <2> QED BY <2>1, <2>2, <2>3
<1> HIDE DEF s
<1> QED BY <1>10, <1>11

\* As many elements as there are, each another, are all of them.
LEMMA RowHasAll ==
  ASSUME NEW S, IsFiniteSet(S), NEW s \in [1 .. Cardinality(S) -> S],
         \A i, j \in 1 .. Cardinality(S) : i < j => s[i] # s[j]
  PROVE  \A e \in S : \E i \in 1 .. Cardinality(S) : s[i] = e
<1> DEFINE n == Cardinality(S)
<1>1. n \in Nat
  BY FS_CardinalityType
<1>2. \A i, j \in 1 .. n : s[i] = s[j] => i = j
  <2> SUFFICES ASSUME NEW i \in 1 .. n, NEW j \in 1 .. n, s[i] = s[j], i # j PROVE FALSE
    OBVIOUS
  <2>1. i < j \/ j < i
    BY <1>1
  <2> QED BY <2>1
<1>3. s \in Injection(1 .. n, S)
  BY <1>2 DEF Injection, IsInjective
<1>4. Cardinality(1 .. n) = n
  BY <1>1, FS_Interval
<1>5. s \in Surjection(1 .. n, S)
  BY <1>3, <1>4, FS_Injection
<1> QED BY <1>5 DEF Surjection

(***************************************************************************)
(* Remote.                                                                 *)
(***************************************************************************)
CONSTANTS Readers, Exports, Local, Team, Ttl, TopTools, TopTokens, TopInsights

VARIABLES readers, printed, pullFaults

Shared == INSTANCE Remote WITH Commands <- Readers, Events <- Exports, work <- readers,
  shown <- printed, faults <- pullFaults

\* An event is known by its session and its seq.
ExportsAreKnown ==
  /\ \A e \in Exports : e.ts \in Nat /\ e.in \in Nat /\ e.seq \in Nat
  /\ \A e, f \in Exports : e.in = f.in /\ e.seq = f.seq => e = f

\* Of a pull that goes well, what is not in the cache yet is still in the page.
PageOK(w) ==
  w.step = "import" /\ w.whole /\ Authority = "datadog" /\ Cardinality(DOMAIN provider) <= PageLimit =>
    \A e \in DOMAIN provider :
      provider[e] < w.at /\ InWindow(e) /\ e.parses =>
        \/ <<e.in, e.seq>> \in DOMAIN remoteEvents
        \/ \E i \in 1 .. Len(w.page) : w.page[i] = e

ReaderOK(w) ==
  /\ DOMAIN w = DOMAIN Shared!Idle
  /\ w.at \in 0 .. teamNow
  /\ w.page \in Seq(Exports)
  /\ PageOK(w)

\* What arrives has a time of arrival, and what is fresh a time of its pull.
ProviderOK ==
  /\ teamNow \in Nat
  /\ IsFiniteSet(DOMAIN provider) /\ DOMAIN provider \subseteq Exports
  /\ \A e \in DOMAIN provider : provider[e] \in 0 .. teamNow

RemoteInv ==
  /\ ProviderOK
  /\ DOMAIN readers = Readers
  /\ \A c \in Readers : ReaderOK(readers[c])
  /\ whole => pullState \in 0 .. teamNow
  /\ FreshCacheIsComplete

\* Cardinality is one operator, whichever module it comes by.
LEMMA SameCount == \A S : Shared!Cardinality(S) = Cardinality(S)
  BY DEF Shared!Cardinality, Cardinality

\* The sorted page has the events of a finite set, each of them once.
LEMMA SortedHasAll ==
  ASSUME ExportsAreKnown, NEW S \in SUBSET Exports, IsFiniteSet(S)
  PROVE  /\ Shared!Sorted(S) \in [1 .. Cardinality(S) -> S]
         /\ \A e \in S : \E i \in 1 .. Cardinality(S) : Shared!Sorted(S)[i] = e
<1> DEFINE R == {p \in S \X S : Shared!Earlier(p[1], p[2])}
           n == Cardinality(S)
<1>1. \A e, f \in S : <<e, f>> \in R <=> Shared!Earlier(e, f)
  OBVIOUS
<1>2. \A e, f, g \in S : <<e, f>> \in R /\ <<f, g>> \in R => <<e, g>> \in R
  <2> SUFFICES ASSUME NEW e \in S, NEW f \in S, NEW g \in S, Shared!Earlier(e, f), Shared!Earlier(f, g)
               PROVE  Shared!Earlier(e, g)
    BY <1>1
  <2>1. /\ e.ts \in Nat /\ e.in \in Nat /\ e.seq \in Nat
        /\ f.ts \in Nat /\ f.in \in Nat /\ f.seq \in Nat
        /\ g.ts \in Nat /\ g.in \in Nat /\ g.seq \in Nat
    BY DEF ExportsAreKnown
  <2> QED BY <2>1 DEF Shared!Earlier
<1>3. \A e \in S : <<e, e>> \notin R
  <2> SUFFICES ASSUME NEW e \in S, Shared!Earlier(e, e) PROVE FALSE
    BY <1>1
  <2>1. e.ts \in Nat /\ e.in \in Nat /\ e.seq \in Nat
    BY DEF ExportsAreKnown
  <2> QED BY <2>1 DEF Shared!Earlier
<1>4. \A e, f \in S : e # f => <<e, f>> \in R \/ <<f, e>> \in R
  <2> SUFFICES ASSUME NEW e \in S, NEW f \in S, e # f
               PROVE  Shared!Earlier(e, f) \/ Shared!Earlier(f, e)
    BY <1>1
  <2>1. /\ e.ts \in Nat /\ e.in \in Nat /\ e.seq \in Nat
        /\ f.ts \in Nat /\ f.in \in Nat /\ f.seq \in Nat
        /\ e.in # f.in \/ e.seq # f.seq
    BY DEF ExportsAreKnown
  <2> QED BY <2>1 DEF Shared!Earlier
<1> HIDE DEF R
<1>5. \E s \in [1 .. n -> S] : \A i, j \in 1 .. n : i < j => <<s[i], s[j]>> \in R
  BY <1>2, <1>3, <1>4, InOrder
<1> DEFINE InRow(s) == \A i, j \in 1 .. n : i < j => Shared!Earlier(s[i], s[j])
<1>6. \E s \in [1 .. n -> S] : InRow(s)
  BY <1>5, <1>1
<1>7. Shared!Sorted(S) = CHOOSE s \in [1 .. n -> S] : InRow(s)
  BY SameCount DEF Shared!Sorted
<1>8. Shared!Sorted(S) \in [1 .. n -> S] /\ InRow(Shared!Sorted(S))
  <2> HIDE DEF InRow
  <2> QED BY <1>6, <1>7
<1>9. ASSUME NEW i \in 1 .. n, NEW j \in 1 .. n, i < j
      PROVE  Shared!Sorted(S)[i] # Shared!Sorted(S)[j]
  <2>1. Shared!Sorted(S)[i] \in S
    BY <1>8
  <2> QED BY <2>1, <1>1, <1>3, <1>8, <1>9
<1>10. \A e \in S : \E i \in 1 .. n : Shared!Sorted(S)[i] = e
  BY <1>8, <1>9, RowHasAll
<1> QED BY <1>8, <1>10

\* When one page holds what the provider has, all of the window is in it.
LEMMA PageHasAll ==
  ASSUME ExportsAreKnown, ProviderOK
  PROVE  /\ Shared!PullPage \in Seq(Exports)
         /\ Authority = "datadog" /\ Cardinality(DOMAIN provider) <= PageLimit =>
              \A e \in DOMAIN provider :
                InWindow(e) => \E i \in 1 .. Len(Shared!PullPage) : Shared!PullPage[i] = e
<1> DEFINE found == {e \in DOMAIN provider : InWindow(e)}
           n == Cardinality(found)
           sorted == Shared!Sorted(found)
           least == Shared!Min({PageLimit, Len(sorted)})
<1>1. found \in SUBSET DOMAIN provider /\ found \in SUBSET Exports
  BY DEF ProviderOK
<1>2. IsFiniteSet(found) /\ n \in Nat /\ n <= Cardinality(DOMAIN provider)
  <2> HIDE DEF found
  <2> QED BY <1>1, FS_Subset, FS_CardinalityType DEF ProviderOK
<1>3. Shared!PullPage = IF Authority = "datadog" THEN SubSeq(sorted, 1, least) ELSE <<>>
  BY DEF Shared!PullPage, Shared!InWindow, InWindow
<1>4. sorted \in [1 .. n -> found] /\ \A e \in found : \E i \in 1 .. n : sorted[i] = e
  <2> HIDE DEF found
  <2> QED BY <1>1, <1>2, SortedHasAll
<1>5. sorted \in Seq(Exports) /\ Len(sorted) = n
  <2> HIDE DEF found, sorted
  <2> QED BY <1>1, <1>2, <1>4
<1>6. least \in {PageLimit, n} /\ least <= PageLimit /\ least <= n
  <2>1. least = CHOOSE x \in {PageLimit, n} : \A y \in {PageLimit, n} : x <= y
    BY <1>5 DEF Shared!Min
  <2>2. \E x \in {PageLimit, n} : \A y \in {PageLimit, n} : x <= y
    <3> HIDE DEF n
    <3> QED BY <1>2, RemoteAssumption
  <2> HIDE DEF least, n
  <2> QED BY <2>1, <2>2, RemoteAssumption
<1> HIDE DEF found, n, sorted, least
<1>7. Shared!PullPage \in Seq(Exports)
  BY <1>2, <1>3, <1>5, <1>6, RemoteAssumption
<1>8. ASSUME Authority = "datadog", Cardinality(DOMAIN provider) <= PageLimit,
             NEW e \in DOMAIN provider, InWindow(e)
      PROVE  \E i \in 1 .. Len(Shared!PullPage) : Shared!PullPage[i] = e
  <2>1. least = n
    <3>1. Cardinality(DOMAIN provider) \in Nat
      BY FS_CardinalityType DEF ProviderOK
    <3> QED BY <3>1, <1>2, <1>6, <1>8, RemoteAssumption
  <2>2. Shared!PullPage = SubSeq(sorted, 1, n)
    BY <1>3, <1>8, <2>1
  <2>3. PICK i \in 1 .. n : sorted[i] = e
    BY <1>4, <1>8 DEF found
  <2>4. Len(SubSeq(sorted, 1, n)) = n /\ SubSeq(sorted, 1, n)[i] = sorted[i]
    BY <1>2, <1>5
  <2> QED BY <2>2, <2>3, <2>4
<1> QED BY <1>7, <1>8

\* In the beginning the provider is empty, and nothing is fresh.
LEMMA RemoteInit == Shared!Init => RemoteInv
<1> SUFFICES ASSUME Shared!Init PROVE RemoteInv
  OBVIOUS
<1> USE DEF Shared!Init
<1>1. DOMAIN provider = {}
  OBVIOUS
<1>2. ProviderOK
  BY <1>1, FS_EmptySet DEF ProviderOK
<1>3. ASSUME NEW c \in Readers PROVE ReaderOK(readers[c])
  <2>1. readers[c] = Shared!Idle /\ teamNow = 0
    OBVIOUS
  <2>2. Shared!Idle.at = 0 /\ Shared!Idle.page = <<>> /\ Shared!Idle.step = "idle"
    BY DEF Shared!Idle
  <2>3. <<>> \in Seq(Exports) /\ 0 \in 0 .. 0
    OBVIOUS
  <2> HIDE DEF Shared!Init
  <2> QED BY <2>1, <2>2, <2>3 DEF ReaderOK, PageOK
<1>4. FreshCacheIsComplete
  BY DEF FreshCacheIsComplete
<1> QED BY <1>2, <1>3, <1>4 DEF RemoteInv

\* A command takes a step that leaves the provider and the cache alone.
LEMMA ReaderGoesOn ==
  ASSUME RemoteInv, NEW c \in Readers, NEW w, ReaderOK(w),
         readers' = [readers EXCEPT ![c] = w],
         UNCHANGED <<teamNow, provider, remoteEvents, pullState, whole>>
  PROVE  RemoteInv'
<1>1. ProviderOK'
  BY DEF RemoteInv, ProviderOK
<1>2. \A v : ReaderOK(v) => ReaderOK(v)'
  BY DEF ReaderOK, PageOK, InWindow
<1>3. ASSUME NEW d \in Readers PROVE ReaderOK(readers[d])'
  <2>1. readers'[d] = IF d = c THEN w ELSE readers[d]
    BY DEF RemoteInv
  <2>2. ReaderOK(readers'[d])
    BY <2>1 DEF RemoteInv
  <2> QED BY <1>2, <2>2 DEF ReaderOK, PageOK, InWindow
<1>4. FreshCacheIsComplete'
  BY DEF RemoteInv, FreshCacheIsComplete, InWindow
<1>5. DOMAIN readers' = Readers /\ (whole => pullState \in 0 .. teamNow)'
  BY DEF RemoteInv
<1> QED BY <1>1, <1>3, <1>4, <1>5 DEF RemoteInv

\* What arrives while the clock is at or after the pull is none of its page.
LEMMA ExportKeeps ==
  ASSUME RemoteInv, NEW e \in Exports, Shared!Export(e)
  PROVE  RemoteInv'
<1> USE DEF Shared!Export, Shared!stored
<1>1. DOMAIN provider' = DOMAIN provider \cup {e} /\ e \notin DOMAIN provider
  OBVIOUS
<1>2. \A f \in DOMAIN provider' : provider'[f] = IF f = e THEN teamNow ELSE provider[f]
  OBVIOUS
<1>3. ProviderOK'
  <2>1. IsFiniteSet(DOMAIN provider)
    BY DEF RemoteInv, ProviderOK
  <2>2. IsFiniteSet(DOMAIN provider')
    BY <1>1, <2>1, FS_AddElement
  <2> QED BY <1>1, <1>2, <2>2 DEF RemoteInv, ProviderOK
<1>4. Cardinality(DOMAIN provider') <= PageLimit => Cardinality(DOMAIN provider) <= PageLimit
  <2>1. IsFiniteSet(DOMAIN provider)
    BY DEF RemoteInv, ProviderOK
  <2>2. Cardinality(DOMAIN provider') = Cardinality(DOMAIN provider) + 1
    BY <1>1, <2>1, FS_AddElement
  <2> QED BY <2>1, <2>2, FS_CardinalityType, RemoteAssumption
<1>5. ASSUME NEW c \in Readers PROVE ReaderOK(readers[c])'
  <2>1. ReaderOK(readers[c]) /\ teamNow \in Nat
    BY DEF RemoteInv, ProviderOK
  <2>2. PageOK(readers[c])'
    BY <1>1, <1>2, <1>4, <2>1, RemoteAssumption DEF ReaderOK, PageOK, InWindow
  <2> QED BY <2>1, <2>2 DEF ReaderOK
<1>6. FreshCacheIsComplete'
  <2>1. whole => pullState \in 0 .. teamNow /\ FreshCacheIsComplete /\ teamNow \in Nat
    BY DEF RemoteInv, ProviderOK
  <2> QED BY <1>1, <1>2, <1>4, <2>1, RemoteAssumption DEF FreshCacheIsComplete, InWindow
<1> QED BY <1>3, <1>5, <1>6 DEF RemoteInv

\* Time only takes events out of the window.
LEMMA TickKeeps ==
  ASSUME ExportsAreKnown, RemoteInv, Shared!Tick
  PROVE  RemoteInv'
<1> USE DEF Shared!Tick, Shared!stored
<1>1. teamNow \in Nat /\ teamNow' = teamNow + 1
  BY DEF RemoteInv, ProviderOK
<1>2. \A e \in Exports : InWindow(e)' => InWindow(e)
  BY <1>1, RemoteAssumption DEF InWindow, ExportsAreKnown
<1>3. ProviderOK'
  BY <1>1 DEF RemoteInv, ProviderOK
<1>4. ASSUME NEW c \in Readers PROVE ReaderOK(readers[c])'
  <2>1. ReaderOK(readers[c]) /\ DOMAIN provider \subseteq Exports
    BY DEF RemoteInv, ProviderOK
  <2>2. PageOK(readers[c])'
    BY <1>2, <2>1 DEF ReaderOK, PageOK
  <2> QED BY <1>1, <2>1, <2>2 DEF ReaderOK
<1>5. FreshCacheIsComplete'
  <2>1. FreshCacheIsComplete /\ DOMAIN provider \subseteq Exports
    BY DEF RemoteInv, ProviderOK
  <2> QED BY <1>2, <2>1 DEF FreshCacheIsComplete
<1> QED BY <1>1, <1>3, <1>4, <1>5 DEF RemoteInv

\* A command begins, and pulls nothing or is about to.
LEMMA StartKeeps ==
  ASSUME RemoteInv, NEW c \in Readers, Shared!Start(c)
  PROVE  RemoteInv'
<1>1. PICK next \in {"report", "pull"}, source \in {"local", "provider", "mixed"} :
        readers' = [readers EXCEPT ![c] = [Shared!Idle EXCEPT !.step = next, !.source = source,
                                                              !.at = teamNow]]
  BY DEF Shared!Start
<1>2. ReaderOK([Shared!Idle EXCEPT !.step = next, !.source = source, !.at = teamNow])
  BY DEF RemoteInv, ProviderOK, ReaderOK, PageOK, Shared!Idle
<1> QED BY <1>1, <1>2, ReaderGoesOn DEF Shared!Start, Shared!stored

\* The page of a pull holds what the provider had at its start, or is not whole.
LEMMA PullKeeps ==
  ASSUME ExportsAreKnown, RemoteInv, NEW c \in Readers, Shared!Pull(c)
  PROVE  RemoteInv'
<1> DEFINE page == IF Team THEN Shared!PullPage ELSE <<>>
           w == [readers[c] EXCEPT !.step = "import", !.whole = Team, !.page = page]
<1>1. readers' = [readers EXCEPT ![c] = w]
  BY DEF Shared!Pull, RemoteInv
<1>2. ReaderOK(readers[c])
  BY DEF RemoteInv
<1>3. ProviderOK
  BY DEF RemoteInv
<1>4. DOMAIN w = DOMAIN Shared!Idle /\ w.at = readers[c].at /\ w.page = page /\ w.whole = Team
  BY <1>2 DEF ReaderOK, Shared!Idle
<1>5. page \in Seq(Exports)
  BY <1>3, PageHasAll
<1>6. PageOK(w)
  <2> HIDE DEF w
  <2> SUFFICES ASSUME Team, Authority = "datadog", Cardinality(DOMAIN provider) <= PageLimit
               PROVE  \A e \in DOMAIN provider :
                        InWindow(e) => \E i \in 1 .. Len(page) : page[i] = e
    BY <1>4 DEF PageOK
  <2> QED BY <1>3, PageHasAll
<1>7. ReaderOK(w)
  <2> HIDE DEF w, page
  <2> QED BY <1>2, <1>4, <1>5, <1>6 DEF ReaderOK
<1> HIDE DEF w
<1> QED BY <1>1, <1>7, ReaderGoesOn DEF Shared!Pull, Shared!stored

\* A pull that fails ends its command.
LEMMA PullFailsKeeps ==
  ASSUME RemoteInv, NEW c \in Readers, Shared!PullFails(c)
  PROVE  RemoteInv'
<1>1. ReaderOK(Shared!Idle)
  BY DEF RemoteInv, ProviderOK, ReaderOK, PageOK, Shared!Idle
<1> QED BY <1>1, ReaderGoesOn DEF Shared!PullFails, Shared!stored

\* An item leaves the page for the cache, unless it does not parse.
LEMMA ImportKeeps ==
  ASSUME RemoteInv, NEW c \in Readers, Shared!Import(c)
  PROVE  RemoteInv'
<1> DEFINE page == readers[c].page
           first == Head(page)
<1> USE DEF Shared!Import
<1>1. \A d \in Readers : ReaderOK(readers[d])
  BY DEF RemoteInv
<1>2. page \in Seq(Exports) /\ page # <<>> /\ readers[c].step = "import"
  BY <1>1 DEF ReaderOK
<1>3. /\ DOMAIN remoteEvents \subseteq DOMAIN remoteEvents'
      /\ first.parses => <<first.in, first.seq>> \in DOMAIN remoteEvents'
  OBVIOUS
<1>4. /\ readers' = [readers EXCEPT ![c].page = Tail(page)]
      /\ DOMAIN readers' = Readers
      /\ \A d \in Readers \ {c} : readers'[d] = readers[d]
  BY DEF RemoteInv
<1>5. /\ DOMAIN readers'[c] = DOMAIN Shared!Idle /\ readers'[c].at = readers[c].at
      /\ readers'[c].page = Tail(page)
      /\ readers'[c].whole = readers[c].whole /\ readers'[c].step = "import"
  BY <1>1, <1>2, <1>4 DEF RemoteInv, ReaderOK, Shared!Idle
<1>6. UNCHANGED <<teamNow, provider, pullState, whole>>
  OBVIOUS
<1>7. \A i \in 1 .. Len(page) :
        page[i] = first \/ \E j \in 1 .. Len(Tail(page)) : Tail(page)[j] = page[i]
  <2> SUFFICES ASSUME NEW p \in Seq(Exports), p # <<>>, NEW i \in 1 .. Len(p)
               PROVE  p[i] = Head(p) \/ \E j \in 1 .. Len(Tail(p)) : Tail(p)[j] = p[i]
    BY <1>2
  <2>1. CASE i = 1
    BY <2>1
  <2>2. CASE i # 1
    <3>1. i - 1 \in 1 .. Len(Tail(p)) /\ Tail(p)[i - 1] = p[i]
      BY <2>2
    <3> QED BY <3>1
  <2> QED BY <2>1, <2>2
<1>8. Tail(page) \in Seq(Exports)
  BY <1>2
<1> HIDE DEF Shared!Import, page, first
<1>9. PageOK(readers[c])'
  <2> SUFFICES ASSUME readers[c].whole, Authority = "datadog",
                      Cardinality(DOMAIN provider) <= PageLimit,
                      NEW e \in DOMAIN provider, provider[e] < readers[c].at, InWindow(e), e.parses
               PROVE  \/ <<e.in, e.seq>> \in DOMAIN remoteEvents'
                      \/ \E i \in 1 .. Len(Tail(page)) : Tail(page)[i] = e
    BY <1>5, <1>6 DEF PageOK, InWindow
  <2>1. CASE <<e.in, e.seq>> \in DOMAIN remoteEvents
    BY <2>1, <1>3
  <2>2. CASE \E i \in 1 .. Len(page) : page[i] = e
    BY <2>2, <1>3, <1>7
  <2> QED BY <2>1, <2>2, <1>1, <1>2 DEF ReaderOK, PageOK, page
<1>10. ASSUME NEW d \in Readers PROVE ReaderOK(readers[d])'
  <2>1. CASE d = c
    BY <2>1, <1>1, <1>5, <1>6, <1>8, <1>9 DEF ReaderOK
  <2>2. CASE d # c
    <3>1. readers'[d] = readers[d] /\ ReaderOK(readers[d])
      BY <2>2, <1>1, <1>4
    <3> QED BY <3>1, <1>3, <1>6 DEF ReaderOK, PageOK, InWindow
  <2> QED BY <2>1, <2>2
<1>11. FreshCacheIsComplete'
  BY <1>3, <1>6 DEF RemoteInv, FreshCacheIsComplete, InWindow
<1>12. ProviderOK' /\ (whole => pullState \in 0 .. teamNow)'
  BY <1>6 DEF RemoteInv, ProviderOK
<1> QED BY <1>4, <1>10, <1>11, <1>12 DEF RemoteInv

\* What an import leaves out makes it one that is not whole.
LEMMA ImportFailsKeeps ==
  ASSUME RemoteInv, NEW c \in Readers, Shared!ImportFails(c)
  PROVE  RemoteInv'
<1> DEFINE w == [readers[c] EXCEPT !.page = <<>>, !.whole = FALSE]
<1>1. readers' = [readers EXCEPT ![c] = w]
  BY DEF Shared!ImportFails, RemoteInv
<1>2. ReaderOK(w)
  BY DEF RemoteInv, ReaderOK, PageOK, Shared!Idle
<1> HIDE DEF w
<1> QED BY <1>1, <1>2, ReaderGoesOn DEF Shared!ImportFails, Shared!stored

\* When the page is empty what it held is in the cache, which is fresh as of
\* the start of the pull.
LEMMA SetPullStateKeeps ==
  ASSUME RemoteInv, NEW c \in Readers, Shared!SetPullState(c)
  PROVE  RemoteInv'
<1> USE DEF Shared!SetPullState
<1>1. \A d \in Readers : ReaderOK(readers[d])
  BY DEF RemoteInv
<1>2. UNCHANGED <<teamNow, provider, remoteEvents>>
  OBVIOUS
<1>3. pullState' = readers[c].at /\ whole' = readers[c].whole
  OBVIOUS
<1>4. DOMAIN readers' = Readers /\ readers' = [readers EXCEPT ![c].step = "report"]
  BY DEF RemoteInv
<1>5. FreshCacheIsComplete'
  <2>1. readers[c].page = <<>> /\ readers[c].step = "import" /\ PageOK(readers[c])
    BY <1>1 DEF ReaderOK
  <2> QED BY <2>1, <1>2, <1>3 DEF FreshCacheIsComplete, PageOK, InWindow
<1>6. ASSUME NEW d \in Readers PROVE ReaderOK(readers[d])'
  <2>1. CASE d = c
    <3>1. /\ DOMAIN readers'[c] = DOMAIN Shared!Idle /\ readers'[c].at = readers[c].at
          /\ readers'[c].page = readers[c].page /\ readers'[c].step = "report"
      BY <1>1, <1>4 DEF RemoteInv, ReaderOK, Shared!Idle
    <3> QED BY <2>1, <3>1, <1>1, <1>2 DEF ReaderOK, PageOK
  <2>2. CASE d # c
    <3>1. readers'[d] = readers[d] /\ ReaderOK(readers[d])
      BY <2>2, <1>1, <1>4 DEF RemoteInv
    <3> QED BY <3>1, <1>2 DEF ReaderOK, PageOK, InWindow
  <2> QED BY <2>1, <2>2
<1>7. ProviderOK' /\ (whole => pullState \in 0 .. teamNow)'
  BY <1>1, <1>2, <1>3 DEF RemoteInv, ProviderOK, ReaderOK
<1> QED BY <1>4, <1>5, <1>6, <1>7 DEF RemoteInv

\* A command prints, and ends.
LEMMA ReportKeeps ==
  ASSUME RemoteInv, NEW c \in Readers, Shared!Report(c)
  PROVE  RemoteInv'
<1>1. ReaderOK(Shared!Idle)
  BY DEF RemoteInv, ProviderOK, ReaderOK, PageOK, Shared!Idle
<1> QED BY <1>1, ReaderGoesOn DEF Shared!Report, Shared!stored

\* Every step keeps the invariant.
LEMMA RemoteNext ==
  ASSUME ExportsAreKnown, RemoteInv, [Shared!Next]_Shared!vars
  PROVE  RemoteInv'
<1>1. CASE UNCHANGED Shared!vars
  BY <1>1 DEF Shared!vars, RemoteInv, ProviderOK, ReaderOK, PageOK, FreshCacheIsComplete, InWindow
<1>2. CASE Shared!Tick
  BY <1>2, TickKeeps
<1>3. CASE \E e \in Exports : Shared!Export(e)
  BY <1>3, ExportKeeps
<1>4. CASE \E c \in Readers :
        \/ Shared!Start(c) \/ Shared!Pull(c) \/ Shared!PullFails(c) \/ Shared!Import(c)
        \/ Shared!ImportFails(c) \/ Shared!SetPullState(c) \/ Shared!Report(c)
  BY <1>4, StartKeeps, PullKeeps, PullFailsKeeps, ImportKeeps, ImportFailsKeeps,
     SetPullStateKeeps, ReportKeeps
<1> QED BY <1>1, <1>2, <1>3, <1>4 DEF Shared!Next

\* Whatever arrives at the provider, and whoever pulls and fails, meanwhile: the
\* cache that counts as fresh has what the provider had when its pull began, if
\* one page holds it and all of that was imported (pull_provider_if_needed,
\* import_pull_page), for any commands, events, windows and page limits.
THEOREM FreshCacheStaysComplete ==
  ExportsAreKnown => (Shared!Spec => []FreshCacheIsComplete)
<1> SUFFICES ASSUME ExportsAreKnown PROVE Shared!Spec => []FreshCacheIsComplete
  OBVIOUS
<1>1. RemoteInv => FreshCacheIsComplete
  BY DEF RemoteInv
<1>2. RemoteInv /\ [Shared!Next]_Shared!vars => RemoteInv'
  BY RemoteNext
<1> QED BY <1>1, <1>2, RemoteInit, PTL DEF Shared!Spec

(***************************************************************************)
(* Tui.                                                                    *)
(***************************************************************************)
CONSTANTS Ids, FilteredIds, TermHeights, PageFloor, Prefetch, MaxPages, MaxChanges, MaxKeys

VARIABLES listed, logged, rated, storeReader, height, wal, schedule, changes, keys, failedReads

Screen == INSTANCE Tui WITH Sessions <- Ids, Filtered <- FilteredIds, Heights <- TermHeights,
  table <- listed, events <- logged, reader <- storeReader, refresh <- schedule,
  failures <- failedReads

\* Finitely many sessions, none of which is no session, and lengths that are numbers.
ScreenParameters ==
  /\ Ids \subseteq Nat /\ IsFiniteSet(Ids) /\ NoSession \notin Ids
  /\ TermHeights \subseteq Nat /\ PageFloor \in Nat /\ Prefetch \in Nat

StoreRequests ==
  [type : {"sessions"}, token : Nat, at : Nat, limit : Nat, filter : BOOLEAN] \cup
  [type : {"events"}, token : Nat, sid : Ids, at : Nat, limit : Nat] \cup
  [type : {"detail"}, token : Nat, sid : Ids] \cup
  [type : {"feedback"}, token : Nat, ids : SUBSET Ids]

StoreResponses ==
  [type : {"sessions"}, token : Nat, at : Nat, ok : BOOLEAN, rows : Seq(Ids), total : Nat] \cup
  [type : {"events"}, token : Nat, sid : Ids, at : Nat, ok : BOOLEAN, rows : Seq(Ids \X Nat)] \cup
  [type : {"detail"}, token : Nat, sid : Ids, ok : BOOLEAN] \cup
  [type : {"feedback"}, token : Nat, ok : BOOLEAN, scores : SUBSET Ids]

\* The rows of a page of events are those of its session from its place on.
RowsAreOf(r) ==
  r.type = "events" => \A k \in 1 .. Len(r.rows) : r.rows[k] = <<r.sid, r.at + (k - 1)>>

ViewInv(v) ==
  /\ DOMAIN v = DOMAIN Screen!NewView
  /\ v.cursor \in Nat /\ v.total \in Nat /\ v.page \in Nat /\ v.generation \in Nat
  /\ DOMAIN v.window \subseteq Nat

Typed(a) ==
  /\ DOMAIN a = DOMAIN Screen!NewApp
  /\ ViewInv(a.sessions) /\ ViewInv(a.events)
  /\ \A i \in DOMAIN a.sessions.window : a.sessions.window[i] \in Ids
  /\ a.last \in Ids \cup {NoSession}
  /\ a.height \in Nat /\ a.feedback_token \in Nat /\ a.detail_token \in Nat
  /\ a.filter \in BOOLEAN /\ a.buffer \in BOOLEAN
  /\ a.store_tx \in Seq(StoreRequests)

Messages(a, rs) == ToSet(a.store_tx) \cup ToSet(rs)

\* What is under way is no newer than what is shown, and what is as new is of
\* the same session.
IsKnown(m, a) ==
  /\ m.token \in Nat
  /\ m.type = "events" =>
       /\ m.token <= a.events.generation
       /\ m.token = a.events.generation => m.sid = a.events.sid
  /\ m.type = "detail" =>
       /\ m.token <= a.detail_token
       /\ m.token = a.detail_token /\ a.detail.state = "loading" => m.sid = a.last

\* Events and detail are of the session that was selected last.
IsShown(a) ==
  /\ a.events.sid = a.last
  /\ \A i \in DOMAIN a.events.window : a.events.window[i] = <<a.last, i>>
  /\ a.detail.state = "loading" =>
       a.detail = [state |-> "loading", token |-> a.detail_token, sid |-> a.last]
  /\ a.detail.state = "ready" => a.detail.sid = a.last

Awaited(v, type, M) ==
  \A i \in v.in_flight : \E m \in M : m.type = type /\ m.token = v.generation /\ m.at = i

DetailAwaited(a, M) ==
  a.detail.state = "loading" => \E m \in M : m.type = "detail" /\ m.token = a.detail_token

WaitsFor(a, rs) ==
  /\ Awaited(a.sessions, "sessions", Messages(a, rs))
  /\ Awaited(a.events, "events", Messages(a, rs))
  /\ DetailAwaited(a, Messages(a, rs))

AppInv(a, rs) ==
  /\ Typed(a) /\ IsShown(a) /\ WaitsFor(a, rs)
  /\ \A m \in Messages(a, rs) : IsKnown(m, a)

\* Cardinality is one operator, whichever module it comes by.
LEMMA SameSizes == \A S : Screen!Cardinality(S) = Cardinality(S)
  BY DEF Screen!Cardinality, Cardinality

LEMMA SameSets == \A s : Screen!ToSet(s) = ToSet(s)
  BY DEF Screen!ToSet, ToSet

LEMMA SameSelected == \A a : Screen!SelectedId(a) = SelectedId(a)
  BY DEF Screen!SelectedId, SelectedId

\* Numbers in their order are a sequence that has each of them.
LEMMA AscendingHasAll ==
  ASSUME NEW S \in SUBSET Nat, IsFiniteSet(S)
  PROVE  /\ Screen!Ascending(S) \in Seq(S) /\ Len(Screen!Ascending(S)) = Cardinality(S)
         /\ DOMAIN Screen!Ascending(S) = 1 .. Cardinality(S)
         /\ \A e \in S : \E i \in DOMAIN Screen!Ascending(S) : Screen!Ascending(S)[i] = e
<1> DEFINE R == {p \in S \X S : p[1] < p[2]}
           n == Cardinality(S)
           InRow(s) == \A i, j \in 1 .. n : i < j => s[i] < s[j]
<1>1. \A e, f \in S : <<e, f>> \in R <=> e < f
  OBVIOUS
<1>2. \A e, f, g \in S : <<e, f>> \in R /\ <<f, g>> \in R => <<e, g>> \in R
  BY <1>1
<1>3. \A e \in S : <<e, e>> \notin R
  BY <1>1
<1>4. \A e, f \in S : e # f => <<e, f>> \in R \/ <<f, e>> \in R
  BY <1>1
<1> HIDE DEF R
<1>5. \E s \in [1 .. n -> S] : \A i, j \in 1 .. n : i < j => <<s[i], s[j]>> \in R
  BY <1>2, <1>3, <1>4, InOrder
<1>6. \E s \in [1 .. n -> S] : InRow(s)
  BY <1>5, <1>1
<1>7. Screen!Ascending(S) = CHOOSE s \in [1 .. n -> S] : InRow(s)
  BY SameSizes DEF Screen!Ascending
<1>8. Screen!Ascending(S) \in [1 .. n -> S] /\ InRow(Screen!Ascending(S))
  <2> HIDE DEF InRow
  <2> QED BY <1>6, <1>7
<1>9. n \in Nat
  BY FS_CardinalityType
<1>10. \A i, j \in 1 .. n : i < j => Screen!Ascending(S)[i] # Screen!Ascending(S)[j]
  <2> TAKE i, j \in 1 .. n
  <2>1. Screen!Ascending(S)[i] \in Nat /\ Screen!Ascending(S)[j] \in Nat
    BY <1>8
  <2> QED BY <2>1, <1>8
<1>11. \A e \in S : \E i \in 1 .. n : Screen!Ascending(S)[i] = e
  BY <1>8, <1>10, RowHasAll
<1> HIDE DEF n
<1> QED BY <1>8, <1>9, <1>11 DEF n

\* A view misses finitely many pages.
LEMMA MissingIsFinite ==
  ASSUME NEW v, NEW start, NEW end \in Nat
  PROVE  /\ Screen!MissingPages(v, start, end) \in SUBSET Nat
         /\ IsFiniteSet(Screen!MissingPages(v, start, end))
<1>1. Screen!Sub(end, 1) \in Nat
  BY DEF Screen!Sub
<1>2. Screen!MissingPages(v, start, end) \in SUBSET (0 .. Screen!Sub(end, 1))
  BY DEF Screen!MissingPages
<1>3. IsFiniteSet(0 .. Screen!Sub(end, 1))
  BY <1>1, FS_Interval
<1> QED BY <1>1, <1>2, <1>3, FS_Subset

\* More messages sent are more messages under way.
LEMMA MoreSent ==
  ASSUME NEW s \in Seq(StoreRequests), NEW t \in Seq(StoreRequests)
  PROVE  s \o t \in Seq(StoreRequests) /\ ToSet(s \o t) = ToSet(s) \cup ToSet(t)
<1>1. s \o t \in Seq(StoreRequests) /\ Len(s \o t) = Len(s) + Len(t)
  OBVIOUS
<1>2. \A i \in 1 .. Len(s) : (s \o t)[i] = s[i]
  OBVIOUS
<1>3. \A i \in 1 .. Len(t) : (s \o t)[Len(s) + i] = t[i]
  OBVIOUS
<1>4. \A i \in 1 .. Len(s \o t) : i \in 1 .. Len(s) \/ i - Len(s) \in 1 .. Len(t)
  <2>1. Len(s) \in Nat /\ Len(t) \in Nat
    OBVIOUS
  <2> QED BY <1>1, <2>1
<1>5. ToSet(s \o t) \subseteq ToSet(s) \cup ToSet(t)
  <2> SUFFICES ASSUME NEW i \in 1 .. Len(s \o t) PROVE (s \o t)[i] \in ToSet(s) \cup ToSet(t)
    BY <1>1 DEF ToSet
  <2>1. CASE i \in 1 .. Len(s)
    BY <2>1, <1>2 DEF ToSet
  <2>2. CASE i - Len(s) \in 1 .. Len(t)
    <3>1. (s \o t)[i] = t[i - Len(s)]
      BY <2>2, <1>3
    <3> QED BY <3>1, <2>2 DEF ToSet
  <2> QED BY <2>1, <2>2, <1>4
<1>6. ToSet(s) \subseteq ToSet(s \o t) /\ ToSet(t) \subseteq ToSet(s \o t)
  <2>0. Len(s) \in Nat /\ Len(t) \in Nat
    OBVIOUS
  <2> DEFINE m == Len(s)
             n == Len(t)
  <2>1. m \in Nat /\ n \in Nat /\ Len(s \o t) = m + n
    BY <1>1, <2>0
  <2> HIDE DEF m, n
  <2>2. \A i \in 1 .. n : m + i \in 1 .. m + n
    BY <2>1
  <2>3. \A i \in 1 .. m : i \in 1 .. m + n
    BY <2>1
  <2>4. DOMAIN (s \o t) = 1 .. m + n
    BY <1>1, <2>1
  <2>5. \A i \in 1 .. m : s[i] \in ToSet(s \o t)
    BY <1>2, <2>3, <2>4 DEF ToSet, m
  <2>6. \A i \in 1 .. n : t[i] \in ToSet(s \o t)
    <3> TAKE i \in 1 .. n
    <3>1. (s \o t)[m + i] = t[i]
      BY <1>3 DEF m, n
    <3>2. m + i \in DOMAIN (s \o t)
      BY <2>2, <2>4
    <3> DEFINE u == s \o t
    <3>3. \A j \in DOMAIN u : u[j] \in ToSet(u)
      BY DEF ToSet
    <3>4. u[m + i] = t[i] /\ m + i \in DOMAIN u
      BY <3>1, <3>2
    <3>6. u = s \o t
      OBVIOUS
    <3> HIDE DEF u
    <3>5. t[i] \in ToSet(u)
      BY <3>3, <3>4
    <3> QED BY <3>5, <3>6, Zenon
  <2>7. ToSet(s) = {s[i] : i \in 1 .. m} /\ ToSet(t) = {t[i] : i \in 1 .. n}
    BY DEF ToSet, m, n
  <2> QED BY <2>5, <2>6, <2>7
<1> QED BY <1>1, <1>5, <1>6

\* Asking for pages of sessions changes nothing else, and each page asked for
\* has its request.
LEMMA SessionPagesAsked ==
  ASSUME ScreenParameters, NEW a, NEW rs, AppInv(a, rs)
  PROVE  /\ AppInv(Screen!RequestSessionPages(a), rs)
         /\ Screen!RequestSessionPages(a).last = a.last
         /\ SelectedId(Screen!RequestSessionPages(a)) = SelectedId(a)
<1> DEFINE missing == Screen!NeededPageOffsets(a.sessions, a.height)
           asked == Screen!Ascending(missing)
           ask(at) == [type |-> "sessions", token |-> a.sessions.generation, at |-> at,
                       limit |-> a.sessions.page, filter |-> a.filter]
           ms == [i \in DOMAIN asked |-> ask(asked[i])]
           b == Screen!RequestSessionPages(a)
<1>0. Typed(a) /\ ViewInv(a.sessions)
  BY DEF AppInv, Typed
<1>1. missing \in SUBSET Nat /\ IsFiniteSet(missing)
  <2>1. a.height \in Nat /\ a.sessions.cursor \in Nat /\ a.sessions.total \in Nat
        /\ a.sessions.page \in Nat /\ Prefetch \in Nat
    BY <1>0 DEF Typed, ViewInv, ScreenParameters
  <2>2. Screen!ViewportStart(a.sessions, a.height) \in Nat
    BY <2>1 DEF Screen!ViewportStart, Screen!Sub
  <2>3. Screen!Least(Screen!ViewportStart(a.sessions, a.height) + a.height + Prefetch,
                     Screen!Most(a.sessions.total, a.sessions.page)) \in Nat
    BY <2>1, <2>2 DEF Screen!Least, Screen!Most
  <2>4. CASE a.sessions.total = 0 /\ a.sessions.loaded
    BY <2>4, FS_EmptySet DEF Screen!NeededPageOffsets
  <2>5. CASE ~(a.sessions.total = 0 /\ a.sessions.loaded)
    BY <2>3, <2>5, MissingIsFinite DEF Screen!NeededPageOffsets
  <2> QED BY <2>4, <2>5
<1>2. asked \in Seq(missing) /\ \A at \in missing : \E i \in DOMAIN asked : asked[i] = at
  <2> HIDE DEF missing
  <2> QED BY <1>1, AscendingHasAll
<1>3. b = [[a EXCEPT !.sessions.in_flight = @ \cup missing] EXCEPT !.store_tx = @ \o ms]
  BY DEF Screen!RequestSessionPages, Screen!Send
<1> HIDE DEF missing, asked, b
<1>4. ms \in Seq(StoreRequests)
  <2>1. \A at \in missing : ask(at) \in StoreRequests
    <3> TAKE at \in missing
    <3>1. at \in Nat /\ a.sessions.generation \in Nat /\ a.sessions.page \in Nat /\ a.filter \in BOOLEAN
      BY <1>0, <1>1 DEF Typed, ViewInv
    <3> QED BY <3>1 DEF StoreRequests
  <2> HIDE DEF ask
  <2> QED BY <1>2, <2>1
<1>5. \A at \in missing : ask(at) \in ToSet(ms)
  <2> HIDE DEF ask
  <2> QED BY <1>2 DEF ToSet
<1>6. \A m \in ToSet(ms) : m.type = "sessions" /\ m.token = a.sessions.generation
  BY DEF ToSet
<1>7. /\ DOMAIN b = DOMAIN a
      /\ b.sessions = [a.sessions EXCEPT !.in_flight = @ \cup missing]
      /\ b.store_tx = a.store_tx \o ms
      /\ b.events = a.events /\ b.detail = a.detail /\ b.last = a.last /\ b.height = a.height
      /\ b.feedback_token = a.feedback_token /\ b.detail_token = a.detail_token
      /\ b.filter = a.filter /\ b.buffer = a.buffer
  <2> HIDE DEF ms
  <2> QED BY <1>0, <1>3 DEF Typed, Screen!NewApp
<1>8. /\ DOMAIN b.sessions = DOMAIN a.sessions
      /\ b.sessions.in_flight = a.sessions.in_flight \cup missing
      /\ b.sessions.cursor = a.sessions.cursor /\ b.sessions.window = a.sessions.window
      /\ b.sessions.total = a.sessions.total /\ b.sessions.page = a.sessions.page
      /\ b.sessions.generation = a.sessions.generation
  BY <1>0, <1>7 DEF ViewInv, Screen!NewView
<1> HIDE DEF ms
<1>9. b.store_tx \in Seq(StoreRequests) /\ ToSet(b.store_tx) = ToSet(a.store_tx) \cup ToSet(ms)
  BY <1>0, <1>4, <1>7, MoreSent DEF Typed
<1>10. Messages(b, rs) = Messages(a, rs) \cup ToSet(ms)
  BY <1>9 DEF Messages
<1>11. Typed(b)
  BY <1>0, <1>7, <1>8, <1>9 DEF Typed, ViewInv
<1>12. IsShown(b)
  BY <1>7 DEF AppInv, IsShown
<1>13. \A m \in Messages(b, rs) : IsKnown(m, b)
  <2>1. a.sessions.generation \in Nat
    BY <1>0 DEF ViewInv
  <2> QED BY <2>1, <1>6, <1>7, <1>10 DEF AppInv, IsKnown
<1>14. WaitsFor(b, rs)
  <2>1. \A at \in missing : \E m \in Messages(b, rs) :
           m.type = "sessions" /\ m.token = a.sessions.generation /\ m.at = at
    <3> TAKE at \in missing
    <3>1. ask(at) \in Messages(b, rs)
      BY <1>5, <1>10
    <3> QED BY <3>1
  <2> QED BY <2>1, <1>7, <1>8, <1>10 DEF AppInv, WaitsFor, Awaited, DetailAwaited
<1> QED BY <1>7, <1>8, <1>11, <1>12, <1>13, <1>14 DEF AppInv, SelectedId, b

\* The same of pages of events, of the session that is shown.
LEMMA EventPagesAsked ==
  ASSUME ScreenParameters, NEW a, NEW rs, AppInv(a, rs)
  PROVE  /\ AppInv(Screen!RequestEventPages(a), rs)
         /\ Screen!RequestEventPages(a).last = a.last
         /\ Screen!RequestEventPages(a).sessions = a.sessions
<1> DEFINE missing == Screen!NeededAfterSeq(a.events, a.height)
           asked == Screen!Ascending(missing)
           ask(seq) == [type |-> "events", token |-> a.events.generation, sid |-> a.events.sid,
                        at |-> seq, limit |-> a.events.page]
           ms == [i \in DOMAIN asked |-> ask(asked[i])]
           b == Screen!RequestEventPages(a)
<1>0. Typed(a) /\ ViewInv(a.events)
  BY DEF AppInv, Typed
<1>1. missing \in SUBSET Nat /\ IsFiniteSet(missing)
  <2>1. a.height \in Nat /\ a.events.cursor \in Nat /\ Prefetch \in Nat
    BY <1>0 DEF Typed, ViewInv, ScreenParameters
  <2> DEFINE start == Screen!ViewportStart(a.events, a.height)
             end == start + a.height + Prefetch
  <2>2. start \in Nat
    BY <2>1 DEF Screen!ViewportStart, Screen!Sub
  <2>3. end \in Nat
    BY <2>1, <2>2
  <2> HIDE DEF start
  <2>4. Screen!MissingPages(a.events, start, end) \in SUBSET Nat
        /\ IsFiniteSet(Screen!MissingPages(a.events, start, end))
    BY <2>3, MissingIsFinite
  <2>5. missing \in SUBSET Screen!MissingPages(a.events, start, end)
    BY DEF Screen!NeededAfterSeq, start
  <2> HIDE DEF missing
  <2> QED BY <2>4, <2>5, FS_Subset
<1>2. asked \in Seq(missing) /\ \A at \in missing : \E i \in DOMAIN asked : asked[i] = at
  <2> HIDE DEF missing
  <2> QED BY <1>1, AscendingHasAll
<1>3. b = [[a EXCEPT !.events.in_flight = @ \cup missing] EXCEPT !.store_tx = @ \o ms]
  BY DEF Screen!RequestEventPages, Screen!Send
<1>s. \A at \in missing : a.events.sid \in Ids
  <2> SUFFICES ASSUME a.events.sid \notin Ids PROVE missing = {}
    OBVIOUS
  <2>1. a.events.sid = NoSession
    BY <1>0 DEF AppInv, IsShown, Typed
  <2> QED BY <2>1 DEF Screen!NeededAfterSeq
<1> HIDE DEF missing, asked, b
<1>4. ms \in Seq(StoreRequests)
  <2>1. \A at \in missing : ask(at) \in StoreRequests
    <3> TAKE at \in missing
    <3>1. at \in Nat /\ a.events.generation \in Nat /\ a.events.page \in Nat
      BY <1>0, <1>1 DEF Typed, ViewInv
    <3> QED BY <3>1, <1>s DEF StoreRequests
  <2> HIDE DEF ask
  <2> QED BY <1>2, <2>1
<1>5. \A at \in missing : ask(at) \in ToSet(ms)
  <2> HIDE DEF ask
  <2> QED BY <1>2 DEF ToSet
<1>6. \A m \in ToSet(ms) : m.type = "events" /\ m.token = a.events.generation /\ m.sid = a.events.sid
  BY DEF ToSet
<1>7. /\ DOMAIN b = DOMAIN a
      /\ b.events = [a.events EXCEPT !.in_flight = @ \cup missing]
      /\ b.store_tx = a.store_tx \o ms
      /\ b.sessions = a.sessions /\ b.detail = a.detail /\ b.last = a.last /\ b.height = a.height
      /\ b.feedback_token = a.feedback_token /\ b.detail_token = a.detail_token
      /\ b.filter = a.filter /\ b.buffer = a.buffer
  <2> HIDE DEF ms
  <2> QED BY <1>0, <1>3 DEF Typed, Screen!NewApp
<1>8. /\ DOMAIN b.events = DOMAIN a.events
      /\ b.events.in_flight = a.events.in_flight \cup missing
      /\ b.events.cursor = a.events.cursor /\ b.events.window = a.events.window
      /\ b.events.total = a.events.total /\ b.events.page = a.events.page
      /\ b.events.generation = a.events.generation /\ b.events.sid = a.events.sid
  BY <1>0, <1>7 DEF ViewInv, Screen!NewView
<1> HIDE DEF ms
<1>9. b.store_tx \in Seq(StoreRequests) /\ ToSet(b.store_tx) = ToSet(a.store_tx) \cup ToSet(ms)
  BY <1>0, <1>4, <1>7, MoreSent DEF Typed
<1>10. Messages(b, rs) = Messages(a, rs) \cup ToSet(ms)
  BY <1>9 DEF Messages
<1>11. Typed(b)
  BY <1>0, <1>7, <1>8, <1>9 DEF Typed, ViewInv
<1>12. IsShown(b)
  BY <1>7, <1>8 DEF AppInv, IsShown
<1>13. \A m \in Messages(b, rs) : IsKnown(m, b)
  <2>1. a.events.generation \in Nat
    BY <1>0 DEF ViewInv
  <2>2. \A m \in Messages(a, rs) : IsKnown(m, b)
    BY <1>7, <1>8 DEF AppInv, IsKnown
  <2>3. \A m \in ToSet(ms) : IsKnown(m, b)
    BY <1>6, <1>8, <2>1 DEF IsKnown
  <2> QED BY <2>2, <2>3, <1>10
<1>14. WaitsFor(b, rs)
  <2>1. \A at \in missing : \E m \in Messages(b, rs) :
           m.type = "events" /\ m.token = a.events.generation /\ m.at = at
    <3> TAKE at \in missing
    <3>1. ask(at) \in Messages(b, rs)
      BY <1>5, <1>10
    <3> QED BY <3>1
  <2> QED BY <2>1, <1>7, <1>8, <1>10 DEF AppInv, WaitsFor, Awaited, DetailAwaited
<1> QED BY <1>7, <1>11, <1>12, <1>13, <1>14 DEF AppInv, b

\* One more message is sent.
LEMMA OneMoreSent ==
  ASSUME NEW s \in Seq(StoreRequests), NEW m \in StoreRequests
  PROVE  s \o <<m>> \in Seq(StoreRequests) /\ ToSet(s \o <<m>>) = ToSet(s) \cup {m}
<1>1. <<m>> \in Seq(StoreRequests) /\ ToSet(<<m>>) = {m}
  BY DEF ToSet
<1> QED BY <1>1, MoreSent

\* Asking for feedback changes nothing else.
LEMMA FeedbackAsked ==
  ASSUME ScreenParameters, NEW a, NEW rs, AppInv(a, rs)
  PROVE  /\ AppInv(Screen!RequestFeedbackForViewport(a), rs)
         /\ Screen!RequestFeedbackForViewport(a).last = a.last
         /\ Screen!RequestFeedbackForViewport(a).sessions = a.sessions
<1> DEFINE m == [type |-> "feedback", token |-> a.feedback_token + 1, ids |-> Screen!FeedbackIds(a)]
           b == Screen!RequestFeedbackForViewport(a)
<1>0. Typed(a)
  BY DEF AppInv
<1>1. CASE Screen!FeedbackIds(a) = {}
  BY <1>1 DEF Screen!RequestFeedbackForViewport
<1>2. CASE Screen!FeedbackIds(a) # {}
  <2>1. Screen!FeedbackIds(a) \in SUBSET Ids
    BY <1>0 DEF Screen!FeedbackIds, Typed
  <2>2. m \in StoreRequests
    <3>1. a.feedback_token + 1 \in Nat
      BY <1>0 DEF Typed
    <3> QED BY <2>1, <3>1 DEF StoreRequests
  <2>3. b = [[a EXCEPT !.feedback_token = @ + 1] EXCEPT !.store_tx = @ \o <<m>>]
    BY <1>2 DEF Screen!RequestFeedbackForViewport, Screen!Send
  <2>4. m.type = "feedback" /\ m.token \in Nat
    BY <1>0 DEF Typed
  <2> HIDE DEF m, b
  <2>5. /\ DOMAIN b = DOMAIN a
        /\ b.store_tx = a.store_tx \o <<m>> /\ b.feedback_token = a.feedback_token + 1
        /\ b.events = a.events
        /\ b.sessions = a.sessions /\ b.detail = a.detail /\ b.last = a.last /\ b.height = a.height
        /\ b.detail_token = a.detail_token
        /\ b.filter = a.filter /\ b.buffer = a.buffer
    BY <1>0, <2>3 DEF Typed, Screen!NewApp
  <2>6. b.store_tx \in Seq(StoreRequests) /\ ToSet(b.store_tx) = ToSet(a.store_tx) \cup {m}
    BY <1>0, <2>2, <2>5, OneMoreSent DEF Typed
  <2>7. Messages(b, rs) = Messages(a, rs) \cup {m}
    BY <2>6 DEF Messages
  <2>8. Typed(b)
    <3>1. a.feedback_token + 1 \in Nat
      BY <1>0 DEF Typed
    <3> QED BY <1>0, <2>5, <2>6, <3>1 DEF Typed
  <2>9. IsShown(b)
    BY <2>5 DEF AppInv, IsShown
  <2>10. \A n \in Messages(b, rs) : IsKnown(n, b)
    BY <2>4, <2>5, <2>7 DEF AppInv, IsKnown
  <2>11. WaitsFor(b, rs)
    BY <2>5, <2>7 DEF AppInv, WaitsFor, Awaited, DetailAwaited
  <2> QED BY <2>5, <2>8, <2>9, <2>10, <2>11 DEF AppInv, b
<1> QED BY <1>1, <1>2

\* The detail of a session is asked for, and what was shown of another is gone.
LEMMA DetailAsked ==
  ASSUME ScreenParameters, NEW a, NEW rs, AppInv(a, rs), NEW id \in Ids
  PROVE  /\ AppInv(Screen!StartDetailRequest(a, id), rs)
         /\ Screen!StartDetailRequest(a, id).last = id
         /\ Screen!StartDetailRequest(a, id).sessions = a.sessions
<1> DEFINE m == [type |-> "detail", token |-> a.detail_token + 1, sid |-> id]
           w == IF a.events.sid = id THEN a.events
                ELSE [Screen!Reset(a.events) EXCEPT !.sid = id]
           d == [state |-> "loading", token |-> a.detail_token + 1, sid |-> id]
           b == Screen!StartDetailRequest(a, id)
<1>0. /\ Typed(a) /\ ViewInv(a.events) /\ IsShown(a)
      /\ a.detail_token \in Nat /\ a.events.generation \in Nat
  BY DEF AppInv, Typed, ViewInv
<1>1. b = [[a EXCEPT !.events = w, !.detail_token = @ + 1, !.detail = d, !.last = id]
             EXCEPT !.store_tx = @ \o <<m>>]
  BY DEF Screen!StartDetailRequest, Screen!Send
<1>2. m \in StoreRequests
  BY <1>0 DEF StoreRequests
<1>3. m.type = "detail" /\ m.token = a.detail_token + 1 /\ m.sid = id
  OBVIOUS
<1>4. d.state = "loading" /\ d = [state |-> "loading", token |-> a.detail_token + 1, sid |-> id]
  OBVIOUS
<1>5. /\ ViewInv(w) /\ w.sid = id
      /\ \A i \in DOMAIN w.window : w.window[i] = <<id, i>>
      /\ w = a.events \/ (w.in_flight = {} /\ w.generation = a.events.generation + 1)
  <2>1. CASE a.events.sid = id
    BY <2>1, <1>0 DEF IsShown
  <2>2. CASE a.events.sid # id
    <3>1. w = [[Screen!NewView EXCEPT !.page = a.events.page,
                                      !.generation = a.events.generation + 1] EXCEPT !.sid = id]
      BY <2>2 DEF Screen!Reset
    <3>2. /\ DOMAIN w = DOMAIN Screen!NewView
          /\ w.cursor = 0 /\ w.total = 0 /\ w.page = a.events.page
          /\ w.generation = a.events.generation + 1
          /\ w.sid = id /\ w.window = <<>> /\ w.in_flight = {}
      BY <3>1 DEF Screen!NewView
    <3>3. DOMAIN w.window = {}
      BY <3>2
    <3> HIDE DEF w
    <3> QED BY <3>2, <3>3, <1>0 DEF ViewInv
  <2> QED BY <2>1, <2>2
<1> HIDE DEF m, w, d, b
<1>6. /\ DOMAIN b = DOMAIN a
      /\ b.store_tx = a.store_tx \o <<m>> /\ b.detail_token = a.detail_token + 1
      /\ b.events = w /\ b.detail = d /\ b.last = id
      /\ b.sessions = a.sessions /\ b.height = a.height
      /\ b.feedback_token = a.feedback_token
      /\ b.filter = a.filter /\ b.buffer = a.buffer
  BY <1>0, <1>1 DEF Typed, Screen!NewApp
<1>7. b.store_tx \in Seq(StoreRequests) /\ ToSet(b.store_tx) = ToSet(a.store_tx) \cup {m}
  BY <1>0, <1>2, <1>6, OneMoreSent DEF Typed
<1>8. Messages(b, rs) = Messages(a, rs) \cup {m}
  BY <1>7 DEF Messages
<1>9. Typed(b)
  BY <1>0, <1>5, <1>6, <1>7 DEF Typed
<1>10. IsShown(b)
  BY <1>4, <1>5, <1>6 DEF IsShown
<1>11. \A n \in Messages(b, rs) : IsKnown(n, b)
  <2>1. m.token \in Nat /\ m.token <= b.detail_token /\ m.sid = b.last /\ m.type # "events"
    BY <1>0, <1>3, <1>6
  <2>2. IsKnown(m, b)
    BY <2>1 DEF IsKnown
  <2>3. ASSUME NEW n \in Messages(a, rs) PROVE IsKnown(n, b)
    <3>1. IsKnown(n, a)
      BY DEF AppInv
    <3>2. n.type = "events" => /\ n.token <= b.events.generation
                               /\ n.token = b.events.generation => n.sid = b.events.sid
      BY <3>1, <1>0, <1>5, <1>6 DEF IsKnown
    <3>3. n.type = "detail" => n.token < b.detail_token
      BY <3>1, <1>0, <1>6 DEF IsKnown
    <3> QED BY <3>1, <3>2, <3>3, <1>0, <1>6 DEF IsKnown
  <2> QED BY <2>2, <2>3, <1>8
<1>12. WaitsFor(b, rs)
  <2>1. DetailAwaited(b, Messages(b, rs))
    BY <1>3, <1>6, <1>8 DEF DetailAwaited
  <2> QED BY <2>1, <1>5, <1>6, <1>8 DEF AppInv, WaitsFor, Awaited
<1> QED BY <1>6, <1>9, <1>10, <1>11, <1>12 DEF AppInv, b

\* With nothing selected nothing is shown.
LEMMA SelectionCleared ==
  ASSUME ScreenParameters, NEW a, NEW rs, AppInv(a, rs)
  PROVE  /\ AppInv(Screen!ClearSelection(a), rs)
         /\ Screen!ClearSelection(a).last = NoSession
         /\ Screen!ClearSelection(a).sessions = a.sessions
<1> DEFINE w == Screen!Reset(a.events)
           b == Screen!ClearSelection(a)
<1>0. Typed(a) /\ ViewInv(a.events) /\ IsShown(a) /\ a.events.generation \in Nat
  BY DEF AppInv, Typed, ViewInv
<1>1. b = [a EXCEPT !.detail = [state |-> "idle"], !.events = w, !.last = NoSession]
  BY DEF Screen!ClearSelection
<1>2. w = [Screen!NewView EXCEPT !.page = a.events.page, !.generation = a.events.generation + 1]
  BY DEF Screen!Reset
<1>3. /\ DOMAIN w = DOMAIN Screen!NewView
      /\ w.cursor = 0 /\ w.total = 0 /\ w.page = a.events.page
      /\ w.generation = a.events.generation + 1
      /\ w.sid = NoSession /\ w.window = <<>> /\ w.in_flight = {}
  BY <1>2 DEF Screen!NewView
<1>4. DOMAIN w.window = {}
  BY <1>3
<1> HIDE DEF w, b
<1>5. ViewInv(w)
  BY <1>0, <1>3, <1>4 DEF ViewInv
<1>6. /\ DOMAIN b = DOMAIN a
      /\ b.store_tx = a.store_tx /\ b.detail_token = a.detail_token
      /\ b.events = w /\ b.detail = [state |-> "idle"] /\ b.last = NoSession
      /\ b.sessions = a.sessions /\ b.height = a.height
      /\ b.feedback_token = a.feedback_token
      /\ b.filter = a.filter /\ b.buffer = a.buffer
  BY <1>0, <1>1 DEF Typed, Screen!NewApp
<1>7. b.detail.state = "idle"
  BY <1>6
<1>8. Messages(b, rs) = Messages(a, rs)
  BY <1>6 DEF Messages
<1>9. Typed(b)
  BY <1>0, <1>5, <1>6 DEF Typed
<1>10. IsShown(b)
  BY <1>3, <1>4, <1>6, <1>7 DEF IsShown
<1>11. \A n \in Messages(b, rs) : IsKnown(n, b)
  <2> TAKE n \in Messages(b, rs)
  <2>1. IsKnown(n, a)
    BY <1>8 DEF AppInv
  <2>2. n.type = "events" => n.token < b.events.generation
    BY <2>1, <1>0, <1>3, <1>6 DEF IsKnown
  <2> QED BY <2>1, <2>2, <1>0, <1>3, <1>6, <1>7 DEF IsKnown
<1>12. WaitsFor(b, rs)
  BY <1>3, <1>6, <1>7, <1>8 DEF AppInv, WaitsFor, Awaited, DetailAwaited
<1> QED BY <1>6, <1>9, <1>10, <1>11, <1>12 DEF AppInv, b

\* The session under the cursor, if there is one, is then the one that is shown.
LEMMA SelectedAsked ==
  ASSUME ScreenParameters, NEW a, NEW rs, AppInv(a, rs)
  PROVE  /\ AppInv(Screen!RequestSelectedDetail(a), rs)
         /\ Screen!RequestSelectedDetail(a).last = SelectedId(a)
         /\ Screen!RequestSelectedDetail(a).sessions = a.sessions
         /\ SelectedId(Screen!RequestSelectedDetail(a)) = SelectedId(a)
<1> DEFINE b == Screen!RequestSelectedDetail(a)
           id == SelectedId(a)
<1>0. id \in Ids \cup {NoSession}
  BY DEF AppInv, Typed, SelectedId
<1>1. Screen!SelectedId(a) = id
  BY SameSelected
<1>2. \A x : x.sessions = a.sessions => SelectedId(x) = id
  BY DEF SelectedId
<1>3. b = IF id = NoSession THEN Screen!ClearSelection(a)
          ELSE IF id = a.last THEN Screen!RequestEventPages(a)
          ELSE Screen!RequestEventPages(Screen!StartDetailRequest(a, id))
  BY <1>1 DEF Screen!RequestSelectedDetail
<1> HIDE DEF id, b
<1>4. CASE id = NoSession
  <2>1. b = Screen!ClearSelection(a)
    BY <1>3, <1>4
  <2>2. AppInv(b, rs) /\ b.last = id /\ b.sessions = a.sessions
    BY <2>1, <1>4, SelectionCleared
  <2> QED BY <2>2, <1>2 DEF b, id
<1>5. CASE id # NoSession /\ id = a.last
  <2>1. b = Screen!RequestEventPages(a)
    BY <1>3, <1>5
  <2>2. AppInv(b, rs) /\ b.last = id /\ b.sessions = a.sessions
    BY <2>1, <1>5, EventPagesAsked
  <2> QED BY <2>2, <1>2 DEF b, id
<1>6. CASE id # NoSession /\ id # a.last
  <2> DEFINE c == Screen!StartDetailRequest(a, id)
  <2>1. id \in Ids
    BY <1>0, <1>6
  <2>2. AppInv(c, rs) /\ c.last = id /\ c.sessions = a.sessions
    BY <2>1, DetailAsked
  <2>3. b = Screen!RequestEventPages(c)
    BY <1>3, <1>6
  <2> HIDE DEF c
  <2>4. AppInv(b, rs) /\ b.last = id /\ b.sessions = a.sessions
    BY <2>2, <2>3, EventPagesAsked
  <2> QED BY <2>4, <1>2 DEF b, id
<1> QED BY <1>4, <1>5, <1>6

\* The invariant of the UI between two of its steps.
Fed(a, rs) == AppInv(a, rs) /\ a.last = SelectedId(a)

\* What a step that sends nothing has to keep.
LEMMA Rebuilt ==
  ASSUME NEW a, NEW b, NEW rs,
         Typed(a), IsShown(a), \A m \in Messages(a, rs) : IsKnown(m, a),
         DOMAIN b = DOMAIN a, b.store_tx = a.store_tx, b.last = a.last,
         b.detail_token = a.detail_token, b.feedback_token = a.feedback_token,
         b.height \in Nat, b.filter \in BOOLEAN, b.buffer \in BOOLEAN,
         ViewInv(b.sessions), \A i \in DOMAIN b.sessions.window : b.sessions.window[i] \in Ids,
         Awaited(b.sessions, "sessions", Messages(a, rs)),
         ViewInv(b.events), b.events.generation = a.events.generation,
         b.events.sid = a.events.sid,
         \A i \in DOMAIN b.events.window : b.events.window[i] = <<a.last, i>>,
         Awaited(b.events, "events", Messages(a, rs)),
         \/ b.detail = a.detail
         \/ b.detail.state = "ready" /\ b.detail.sid = a.last
         \/ b.detail.state = "error",
         DetailAwaited(b, Messages(a, rs))
  PROVE  AppInv(b, rs)
<1>1. Messages(b, rs) = Messages(a, rs)
  BY DEF Messages
<1>2. Typed(b)
  BY DEF Typed
<1>3. IsShown(b)
  BY DEF IsShown
<1>4. \A m \in Messages(b, rs) : IsKnown(m, b)
  <2> TAKE m \in Messages(b, rs)
  <2>1. IsKnown(m, a)
    BY <1>1
  <2> QED BY <2>1 DEF IsKnown
<1>5. WaitsFor(b, rs)
  BY <1>1 DEF WaitsFor
<1> QED BY <1>2, <1>3, <1>4, <1>5 DEF AppInv

\* A key moves a cursor and leaves the rest of the view.
LEMMA ViewMoved ==
  ASSUME NEW v, ViewInv(v), NEW size \in Nat, NEW key \in {"down", "up", "first", "last"}
  PROVE  /\ ViewInv(Screen!Moved(v, key, size))
         /\ Screen!Moved(v, key, size).window = v.window
         /\ Screen!Moved(v, key, size).in_flight = v.in_flight
         /\ Screen!Moved(v, key, size).generation = v.generation
         /\ Screen!Moved(v, key, size).sid = v.sid
<1>1. \E c \in Nat : Screen!Moved(v, key, size) = [v EXCEPT !.cursor = c]
  <2>0. v.cursor \in Nat
    BY DEF ViewInv
  <2>1. \A x, y \in Nat : Screen!Least(x, Screen!Sub(y, 1)) \in Nat /\ Screen!Sub(x, 1) \in Nat
    BY DEF Screen!Least, Screen!Sub
  <2>2. \A x \in Nat : \E c \in Nat : Screen!MoveTo(v, x, size) = [v EXCEPT !.cursor = c]
    BY <2>1 DEF Screen!MoveTo
  <2>3. CASE key = "down"
    <3>1. Screen!Moved(v, key, size) = Screen!MoveTo(v, v.cursor + 1, size)
      BY <2>3 DEF Screen!Moved
    <3>2. v.cursor + 1 \in Nat
      BY <2>0
    <3> QED BY <3>1, <3>2, <2>2
  <2>4. CASE key = "up"
    <3>1. Screen!Moved(v, key, size) = Screen!MoveTo(v, Screen!Sub(v.cursor, 1), size)
      BY <2>4 DEF Screen!Moved
    <3>2. Screen!Sub(v.cursor, 1) \in Nat
      BY <2>0, <2>1
    <3> QED BY <3>1, <3>2, <2>2
  <2>5. CASE key = "first"
    BY <2>5 DEF Screen!Moved
  <2>6. CASE key = "last"
    <3>1. Screen!Moved(v, key, size) = Screen!MoveTo(v, size, size)
      BY <2>6 DEF Screen!Moved
    <3> QED BY <3>1, <2>2
  <2> QED BY <2>3, <2>4, <2>5, <2>6
<1>2. PICK c \in Nat : Screen!Moved(v, key, size) = [v EXCEPT !.cursor = c]
  BY <1>1
<1> DEFINE w == Screen!Moved(v, key, size)
<1>3. /\ DOMAIN w = DOMAIN v /\ w.cursor = c /\ w.window = v.window /\ w.in_flight = v.in_flight
      /\ w.generation = v.generation /\ w.sid = v.sid /\ w.total = v.total /\ w.page = v.page
  BY <1>2 DEF ViewInv, Screen!NewView
<1> QED BY <1>3 DEF ViewInv

\* A full refresh forgets what is shown and asks again.
LEMMA FullyRefreshed ==
  ASSUME ScreenParameters, NEW a, NEW rs, AppInv(a, rs)
  PROVE  Fed(Screen!RefreshFull(a), rs)
<1> DEFINE c == Screen!ClearSelection(a)
           w == Screen!Reset(c.sessions)
           d == [c EXCEPT !.sessions = w]
<1>1. AppInv(c, rs) /\ c.last = NoSession
  BY SelectionCleared
<1>2. Screen!RefreshFull(a) = Screen!RequestSessionPages(d)
  BY DEF Screen!RefreshFull
<1> HIDE DEF c
<1>3. w = [Screen!NewView EXCEPT !.page = c.sessions.page, !.generation = c.sessions.generation + 1]
  BY DEF Screen!Reset
<1>4. /\ DOMAIN w = DOMAIN Screen!NewView
      /\ w.cursor = 0 /\ w.total = 0 /\ w.page = c.sessions.page
      /\ w.generation = c.sessions.generation + 1
      /\ w.window = <<>> /\ w.in_flight = {}
  BY <1>3 DEF Screen!NewView
<1>5. DOMAIN w.window = {}
  BY <1>4
<1> HIDE DEF w
<1>6. ViewInv(w)
  <2>1. c.sessions.page \in Nat /\ c.sessions.generation \in Nat
    BY <1>1 DEF AppInv, Typed, ViewInv
  <2>2. w.page \in Nat /\ w.generation \in Nat
    BY <2>1, <1>4
  <2> QED BY <2>2, <1>4, <1>5 DEF ViewInv
<1>7. Awaited(w, "sessions", Messages(c, rs))
  BY <1>4 DEF Awaited
<1>8. /\ DOMAIN d = DOMAIN c /\ d.sessions = w
      /\ d.store_tx = c.store_tx /\ d.last = c.last
      /\ d.detail_token = c.detail_token /\ d.feedback_token = c.feedback_token
      /\ d.height = c.height /\ d.filter = c.filter /\ d.buffer = c.buffer
      /\ d.events = c.events /\ d.detail = c.detail
  BY <1>1 DEF AppInv, Typed, Screen!NewApp
<1> HIDE DEF d
<1>9. Typed(c) /\ IsShown(c) /\ WaitsFor(c, rs) /\ \A m \in Messages(c, rs) : IsKnown(m, c)
  BY <1>1 DEF AppInv
<1>10. DetailAwaited(d, Messages(c, rs)) /\ Awaited(d.events, "events", Messages(c, rs))
  BY <1>8, <1>9 DEF WaitsFor, DetailAwaited
<1>11. /\ d.height \in Nat /\ d.filter \in BOOLEAN /\ d.buffer \in BOOLEAN /\ ViewInv(d.events)
       /\ \A i \in DOMAIN d.events.window : d.events.window[i] = <<c.last, i>>
  BY <1>8, <1>9 DEF Typed, IsShown
<1>12. AppInv(d, rs)
  BY <1>5, <1>6, <1>7, <1>8, <1>9, <1>10, <1>11, Rebuilt
<1>13. SelectedId(d) = NoSession
  BY <1>5, <1>8 DEF SelectedId
<1> QED BY <1>1, <1>2, <1>8, <1>12, <1>13, SessionPagesAsked DEF Fed

\* What is selected depends on the sessions that are shown, and on nothing else.
LEMMA SelectedBySessions == \A a, b : a.sessions = b.sessions => SelectedId(a) = SelectedId(b)
  BY DEF SelectedId

\* A refresh asks for what is missing and shows what is selected.
LEMMA Refreshed ==
  ASSUME ScreenParameters, NEW a, NEW rs, AppInv(a, rs)
  PROVE  Fed(Screen!Refresh(a), rs)
<1> DEFINE b == Screen!RequestSessionPages(a)
           c == Screen!RequestSelectedDetail(b)
           d == Screen!RequestEventPages(c)
<1>1. Screen!Refresh(a) = d
  BY DEF Screen!Refresh
<1>2. AppInv(b, rs)
  BY SessionPagesAsked
<1> HIDE DEF b
<1>3. AppInv(c, rs) /\ c.last = SelectedId(b) /\ c.sessions = b.sessions
  BY <1>2, SelectedAsked
<1> HIDE DEF c
<1>4. AppInv(d, rs) /\ d.last = c.last /\ d.sessions = c.sessions
  BY <1>3, EventPagesAsked
<1> HIDE DEF d
<1>5. SelectedId(d) = SelectedId(b)
  BY <1>3, <1>4, SelectedBySessions
<1> QED BY <1>1, <1>3, <1>4, <1>5 DEF Fed

\* Feedback and then detail are asked for, and what the cursor is on is shown.
LEMMA FeedbackAndDetailAsked ==
  ASSUME ScreenParameters, NEW a, NEW rs, AppInv(a, rs)
  PROVE  Fed(Screen!RequestSelectedDetail(Screen!RequestFeedbackForViewport(a)), rs)
<1> DEFINE b == Screen!RequestFeedbackForViewport(a)
           c == Screen!RequestSelectedDetail(b)
<1>1. AppInv(b, rs)
  BY FeedbackAsked
<1> HIDE DEF b
<1>2. AppInv(c, rs) /\ c.last = SelectedId(b) /\ SelectedId(c) = SelectedId(b)
  BY <1>1, SelectedAsked
<1> HIDE DEF c
<1>3. Fed(c, rs)
  BY <1>2 DEF Fed
<1> QED BY <1>3 DEF b, c

\* A cursor that moved is followed, its feedback and its detail asked for.
LEMMA CursorFollowed ==
  ASSUME ScreenParameters, NEW a, NEW rs, AppInv(a, rs)
  PROVE  Fed(Screen!AfterSessionCursorMove(a), rs)
<1>1. AppInv(Screen!RequestSessionPages(a), rs)
  BY SessionPagesAsked
<1> QED BY <1>1, FeedbackAndDetailAsked DEF Screen!AfterSessionCursorMove

\* What only the flags of the UI are changed of is fed as before.
LEMMA FlagsChanged ==
  ASSUME NEW a, NEW b, NEW rs, Fed(a, rs),
         DOMAIN b = DOMAIN a, b.store_tx = a.store_tx, b.last = a.last,
         b.detail_token = a.detail_token, b.feedback_token = a.feedback_token,
         b.height = a.height, b.filter \in BOOLEAN, b.buffer \in BOOLEAN,
         b.sessions = a.sessions, b.events = a.events, b.detail = a.detail
  PROVE  Fed(b, rs)
<1>1. Typed(a) /\ IsShown(a) /\ WaitsFor(a, rs) /\ \A m \in Messages(a, rs) : IsKnown(m, a)
  BY DEF Fed, AppInv
<1>2. Messages(b, rs) = Messages(a, rs)
  BY DEF Messages
<1>3. Typed(b)
  BY <1>1 DEF Typed
<1>4. IsShown(b)
  BY <1>1 DEF IsShown
<1>5. \A m \in Messages(b, rs) : IsKnown(m, b)
  BY <1>1, <1>2 DEF IsKnown
<1>6. WaitsFor(b, rs)
  BY <1>1, <1>2 DEF WaitsFor, DetailAwaited
<1>7. SelectedId(b) = SelectedId(a)
  BY SelectedBySessions
<1> QED BY <1>3, <1>4, <1>5, <1>6, <1>7 DEF Fed, AppInv

\* A key that moves moves the cursor of the pane that has the focus.
LEMMA CursorMoved ==
  ASSUME ScreenParameters, NEW a, NEW rs, Fed(a, rs), NEW key \in {"down", "up", "first", "last"}
  PROVE  Fed(Screen!MoveCursor(a, key), rs)
<1>1. /\ Typed(a) /\ IsShown(a) /\ WaitsFor(a, rs) /\ a.last = SelectedId(a)
      /\ \A m \in Messages(a, rs) : IsKnown(m, a)
  BY DEF Fed, AppInv
<1>2. ViewInv(a.sessions) /\ ViewInv(a.events)
  BY <1>1 DEF Typed
<1>3. CASE Screen!Focused(a)
  <2> DEFINE w == Screen!Moved(a.sessions, key, a.sessions.total)
             b == [a EXCEPT !.sessions = w]
  <2>1. a.sessions.total \in Nat
    BY <1>2 DEF ViewInv
  <2>2. ViewInv(w) /\ w.window = a.sessions.window /\ w.in_flight = a.sessions.in_flight
        /\ w.generation = a.sessions.generation
    BY <1>2, <2>1, ViewMoved
  <2>3. Screen!MoveCursor(a, key) = Screen!AfterSessionCursorMove(b)
    BY <1>3 DEF Screen!MoveCursor
  <2> HIDE DEF w
  <2>4. /\ DOMAIN b = DOMAIN a /\ b.sessions = w
        /\ b.store_tx = a.store_tx /\ b.last = a.last
        /\ b.detail_token = a.detail_token /\ b.feedback_token = a.feedback_token
        /\ b.height = a.height /\ b.filter = a.filter /\ b.buffer = a.buffer
        /\ b.events = a.events /\ b.detail = a.detail
    BY <1>1 DEF Typed, Screen!NewApp
  <2> HIDE DEF b
  <2>5. /\ Awaited(b.sessions, "sessions", Messages(a, rs))
        /\ Awaited(b.events, "events", Messages(a, rs))
        /\ DetailAwaited(b, Messages(a, rs))
    BY <1>1, <2>2, <2>4 DEF WaitsFor, Awaited, DetailAwaited
  <2>6. /\ b.height \in Nat /\ b.filter \in BOOLEAN /\ b.buffer \in BOOLEAN
        /\ \A i \in DOMAIN b.sessions.window : b.sessions.window[i] \in Ids
        /\ \A i \in DOMAIN b.events.window : b.events.window[i] = <<a.last, i>>
    BY <1>1, <2>2, <2>4 DEF Typed, IsShown
  <2>7. ViewInv(b.sessions) /\ ViewInv(b.events)
    BY <1>2, <2>2, <2>4
  <2>8. AppInv(b, rs)
    BY <1>1, <2>4, <2>5, <2>6, <2>7, Rebuilt
  <2> QED BY <2>3, <2>8, CursorFollowed
<1>4. CASE ~Screen!Focused(a)
  <2> DEFINE size == Screen!VisibleEvents(a.events)
             w == Screen!Moved(a.events, key, size)
             b == [a EXCEPT !.events = w]
  <2>1. size \in Nat
    BY <1>2 DEF ViewInv, Screen!VisibleEvents
  <2>3. Screen!MoveCursor(a, key) = Screen!RequestEventPages(b)
    BY <1>4 DEF Screen!MoveCursor
  <2> HIDE DEF size
  <2>2. ViewInv(w) /\ w.window = a.events.window /\ w.in_flight = a.events.in_flight
        /\ w.generation = a.events.generation /\ w.sid = a.events.sid
    BY <1>2, <2>1, ViewMoved
  <2> HIDE DEF w
  <2>4. /\ DOMAIN b = DOMAIN a /\ b.events = w
        /\ b.store_tx = a.store_tx /\ b.last = a.last
        /\ b.detail_token = a.detail_token /\ b.feedback_token = a.feedback_token
        /\ b.height = a.height /\ b.filter = a.filter /\ b.buffer = a.buffer
        /\ b.sessions = a.sessions /\ b.detail = a.detail
    BY <1>1 DEF Typed, Screen!NewApp
  <2> HIDE DEF b
  <2>5. /\ Awaited(b.sessions, "sessions", Messages(a, rs))
        /\ Awaited(b.events, "events", Messages(a, rs))
        /\ DetailAwaited(b, Messages(a, rs))
    BY <1>1, <2>2, <2>4 DEF WaitsFor, Awaited, DetailAwaited
  <2>6. /\ b.height \in Nat /\ b.filter \in BOOLEAN /\ b.buffer \in BOOLEAN
        /\ \A i \in DOMAIN b.sessions.window : b.sessions.window[i] \in Ids
        /\ \A i \in DOMAIN b.events.window : b.events.window[i] = <<a.last, i>>
    BY <1>1, <2>2, <2>4 DEF Typed, IsShown
  <2>7. ViewInv(b.sessions) /\ ViewInv(b.events)
    BY <1>2, <2>2, <2>4
  <2>8. AppInv(b, rs)
    BY <1>1, <2>2, <2>4, <2>5, <2>6, <2>7, Rebuilt
  <2>9. /\ AppInv(Screen!RequestEventPages(b), rs)
        /\ Screen!RequestEventPages(b).last = b.last
        /\ Screen!RequestEventPages(b).sessions = b.sessions
    BY <2>8, EventPagesAsked
  <2>10. SelectedId(Screen!RequestEventPages(b)) = SelectedId(a)
    BY <2>4, <2>9, SelectedBySessions
  <2> QED BY <1>1, <2>3, <2>4, <2>9, <2>10 DEF Fed
<1> QED BY <1>3, <1>4

\* A key in the main view.
LEMMA NormalKeyHandled ==
  ASSUME ScreenParameters, NEW a, NEW rs, Fed(a, rs),
         NEW key \in {"filter", "help", "metrics", "pane", "quit", "close", "refresh",
                      "down", "up", "first", "last", "enter"}
  PROVE  Fed(Screen!NormalKey(a, key), rs)
<1>1. Typed(a) /\ AppInv(a, rs)
  BY DEF Fed, AppInv
<1>2. CASE key = "filter"
  <2> DEFINE b == [a EXCEPT !.filter_mode = TRUE, !.buffer = a.filter]
  <2>1. Screen!NormalKey(a, key) = b
    BY <1>2 DEF Screen!NormalKey
  <2>2. /\ DOMAIN b = DOMAIN a /\ b.store_tx = a.store_tx /\ b.last = a.last
        /\ b.detail_token = a.detail_token /\ b.feedback_token = a.feedback_token
        /\ b.height = a.height /\ b.filter \in BOOLEAN /\ b.buffer \in BOOLEAN
        /\ b.sessions = a.sessions /\ b.events = a.events /\ b.detail = a.detail
    BY <1>1 DEF Typed, Screen!NewApp
  <2> HIDE DEF b
  <2> QED BY <2>1, <2>2, FlagsChanged
<1>3. CASE key \in {"help", "metrics", "pane", "quit", "close", "enter"}
  <2> DEFINE b == Screen!NormalKey(a, key)
  <2>1. /\ DOMAIN b = DOMAIN a /\ b.store_tx = a.store_tx /\ b.last = a.last
        /\ b.detail_token = a.detail_token /\ b.feedback_token = a.feedback_token
        /\ b.height = a.height /\ b.filter = a.filter /\ b.buffer = a.buffer
        /\ b.sessions = a.sessions /\ b.events = a.events /\ b.detail = a.detail
    BY <1>1, <1>3 DEF Typed, Screen!NewApp, Screen!NormalKey
  <2>2. b.filter \in BOOLEAN /\ b.buffer \in BOOLEAN
    BY <1>1, <2>1 DEF Typed
  <2> HIDE DEF b
  <2>3. Fed(b, rs)
    BY <2>1, <2>2, FlagsChanged
  <2> QED BY <2>3 DEF b
<1>4. CASE key = "refresh"
  <2>1. Screen!NormalKey(a, key) = Screen!RefreshFull(a)
    BY <1>4 DEF Screen!NormalKey
  <2> QED BY <1>1, <2>1, FullyRefreshed
<1>5. CASE key \in {"down", "up", "first", "last"}
  <2>1. Screen!NormalKey(a, key) = Screen!MoveCursor(a, key)
    BY <1>5 DEF Screen!NormalKey
  <2> QED BY <1>5, <2>1, CursorMoved
<1> QED BY <1>2, <1>3, <1>4, <1>5

\* A key while the filter is typed.
LEMMA FilterKeyHandled ==
  ASSUME ScreenParameters, NEW a, NEW rs, Fed(a, rs),
         NEW key \in {"enter", "close", "type", "erase"}
  PROVE  Fed(Screen!FilterKey(a, key), rs)
<1>1. Typed(a)
  BY DEF Fed, AppInv
<1>2. CASE key = "enter"
  <2> DEFINE b == [a EXCEPT !.filter = a.buffer, !.filter_mode = FALSE]
  <2>1. Screen!FilterKey(a, key) = Screen!RefreshFull(b)
    BY <1>2 DEF Screen!FilterKey
  <2>2. /\ DOMAIN b = DOMAIN a /\ b.store_tx = a.store_tx /\ b.last = a.last
        /\ b.detail_token = a.detail_token /\ b.feedback_token = a.feedback_token
        /\ b.height = a.height /\ b.filter \in BOOLEAN /\ b.buffer \in BOOLEAN
        /\ b.sessions = a.sessions /\ b.events = a.events /\ b.detail = a.detail
    BY <1>1 DEF Typed, Screen!NewApp
  <2> HIDE DEF b
  <2>3. Fed(b, rs)
    BY <2>2, FlagsChanged
  <2> QED BY <2>1, <2>3, FullyRefreshed DEF Fed
<1>3. CASE key \in {"close", "type", "erase"}
  <2> DEFINE b == Screen!FilterKey(a, key)
  <2>1. /\ DOMAIN b = DOMAIN a /\ b.store_tx = a.store_tx /\ b.last = a.last
        /\ b.detail_token = a.detail_token /\ b.feedback_token = a.feedback_token
        /\ b.height = a.height /\ b.filter = a.filter /\ b.buffer \in BOOLEAN
        /\ b.sessions = a.sessions /\ b.events = a.events /\ b.detail = a.detail
    BY <1>1, <1>3 DEF Typed, Screen!NewApp, Screen!FilterKey
  <2>2. b.filter \in BOOLEAN
    BY <1>1, <2>1 DEF Typed
  <2> HIDE DEF b
  <2>3. Fed(b, rs)
    BY <2>1, <2>2, FlagsChanged
  <2> QED BY <2>3 DEF b
<1> QED BY <1>2, <1>3

\* A row of a window that rows were written to is one of those or one it had.
LEMMA RowsWritten ==
  ASSUME NEW window, DOMAIN window \subseteq Nat, NEW at \in Nat, NEW T, NEW rows \in Seq(T)
  PROVE  /\ DOMAIN Screen!WithRows(window, at, rows) \subseteq Nat
         /\ \A i \in DOMAIN Screen!WithRows(window, at, rows) :
              \/ i \in DOMAIN window /\ Screen!WithRows(window, at, rows)[i] = window[i]
              \/ /\ i - at + 1 \in 1 .. Len(rows)
                 /\ Screen!WithRows(window, at, rows)[i] = rows[i - at + 1]
<1> DEFINE n == Len(rows)
           D == DOMAIN window \cup at .. (at + n - 1)
           w == Screen!WithRows(window, at, rows)
<1>1. n \in Nat
  OBVIOUS
<1>2. w = [i \in D |-> IF i < at \/ i >= at + n THEN window[i] ELSE rows[i - at + 1]]
  BY DEF Screen!WithRows
<1> HIDE DEF n, w
<1>3. D \subseteq Nat
  BY <1>1
<1>4. DOMAIN w = D
  BY <1>2
<1>5. ASSUME NEW i \in D
      PROVE  \/ i \in DOMAIN window /\ w[i] = window[i]
             \/ i - at + 1 \in 1 .. n /\ w[i] = rows[i - at + 1]
  <2>1. i \in Nat
    BY <1>3
  <2>2. CASE i < at \/ i >= at + n
    <3>1. i \in DOMAIN window
      BY <1>1, <2>1, <2>2
    <3>2. w[i] = window[i]
      BY <1>2, <2>2
    <3> QED BY <3>1, <3>2
  <2>3. CASE ~(i < at \/ i >= at + n)
    <3>1. i - at + 1 \in 1 .. n
      BY <1>1, <2>1, <2>3
    <3>2. w[i] = rows[i - at + 1]
      BY <1>2, <2>3
    <3> QED BY <3>1, <3>2
  <2> QED BY <2>2, <2>3
<1> QED BY <1>3, <1>4, <1>5 DEF n, w

\* A view that far pages are evicted from has fewer rows and is the same otherwise.
LEMMA FarEvicted ==
  ASSUME NEW v, ViewInv(v)
  PROVE  LET w == Screen!EvictFarPages(v) IN
           /\ ViewInv(w) /\ w.generation = v.generation /\ w.sid = v.sid
           /\ w.in_flight = v.in_flight
           /\ \A i \in DOMAIN w.window : i \in DOMAIN v.window /\ w.window[i] = v.window[i]
<1> DEFINE w == Screen!EvictFarPages(v)
           current == v.cursor - (v.cursor % v.page)
           near == {i \in DOMAIN v.window : Screen!Near(i, current, v.page * MaxPages)}
           kept == Screen!Keep(v.window, near)
<1>1. w = [v EXCEPT !.window = kept]
  BY DEF Screen!EvictFarPages
<1>2. DOMAIN kept \subseteq DOMAIN v.window /\ \A i \in DOMAIN kept : kept[i] = v.window[i]
  <2> HIDE DEF near
  <2> QED BY DEF Screen!Keep
<1> HIDE DEF w, kept
<1>3. /\ DOMAIN w = DOMAIN v /\ w.cursor = v.cursor /\ w.window = kept
      /\ w.in_flight = v.in_flight /\ w.total = v.total /\ w.page = v.page
      /\ w.generation = v.generation /\ w.sid = v.sid
  BY <1>1 DEF ViewInv, Screen!NewView
<1>4. ViewInv(w)
  BY <1>2, <1>3 DEF ViewInv
<1> QED BY <1>2, <1>3, <1>4 DEF w

\* A page of sessions adds sessions, and is in flight no longer.
LEMMA SessionPageFinished ==
  ASSUME NEW v, ViewInv(v), \A i \in DOMAIN v.window : v.window[i] \in Ids,
         NEW at \in Nat, NEW rows \in Seq(Ids), NEW total \in Nat
  PROVE  LET w == Screen!FinishSessionPage(v, at, rows, total) IN
           /\ ViewInv(w) /\ w.generation = v.generation
           /\ w.in_flight = v.in_flight \ {at}
           /\ \A i \in DOMAIN w.window : w.window[i] \in Ids
<1> DEFINE written == Screen!WithRows(v.window, at, rows)
           to == Screen!Least(v.cursor, Screen!Sub(total, 1))
           x == [v EXCEPT !.in_flight = @ \ {at}, !.total = total, !.loaded = TRUE,
                          !.cursor = to, !.window = written]
           w == Screen!FinishSessionPage(v, at, rows, total)
<1>1. w = Screen!EvictFarPages(x)
  BY DEF Screen!FinishSessionPage
<1>2. to \in Nat
  BY DEF ViewInv, Screen!Least, Screen!Sub
<1>3. DOMAIN written \subseteq Nat /\ \A i \in DOMAIN written : written[i] \in Ids
  <2>1. DOMAIN v.window \subseteq Nat
    BY DEF ViewInv
  <2>2. DOMAIN written \subseteq Nat
        /\ \A i \in DOMAIN written :
             \/ i \in DOMAIN v.window /\ written[i] = v.window[i]
             \/ i - at + 1 \in 1 .. Len(rows) /\ written[i] = rows[i - at + 1]
    BY <2>1, RowsWritten
  <2> HIDE DEF written
  <2>3. \A k \in 1 .. Len(rows) : rows[k] \in Ids
    OBVIOUS
  <2> QED BY <2>2, <2>3
<1> HIDE DEF written, to
<1>4. /\ DOMAIN x = DOMAIN v /\ x.cursor = to /\ x.window = written
      /\ x.in_flight = v.in_flight \ {at} /\ x.total = total /\ x.page = v.page
      /\ x.generation = v.generation
  BY DEF ViewInv, Screen!NewView
<1> HIDE DEF x, w
<1>5. ViewInv(x)
  BY <1>2, <1>3, <1>4 DEF ViewInv
<1>6. /\ ViewInv(w) /\ w.generation = x.generation /\ w.in_flight = x.in_flight
      /\ \A i \in DOMAIN w.window : i \in DOMAIN x.window /\ w.window[i] = x.window[i]
  BY <1>1, <1>5, FarEvicted
<1> QED BY <1>3, <1>4, <1>6 DEF w

\* Events shown are those of the session shown, each at its place; so are rows read.
OwnEvents(v) == \A i \in DOMAIN v.window : v.window[i] = <<v.sid, i>>

RowsFrom(rows, id, at) ==
  rows \in Seq(Ids \X Nat) /\ \A k \in 1 .. Len(rows) : rows[k] = <<id, at + (k - 1)>>

\* The same of a page of events, whose rows are at their places.
LEMMA EventPageFinished ==
  ASSUME NEW v, ViewInv(v), OwnEvents(v), NEW at \in Nat, NEW rows, RowsFrom(rows, v.sid, at)
  PROVE  LET w == Screen!FinishEventPage(v, at, rows) IN
           /\ ViewInv(w) /\ w.generation = v.generation /\ w.sid = v.sid
           /\ w.in_flight = v.in_flight \ {at}
           /\ OwnEvents(w)
<1> DEFINE written == Screen!WithRows(v.window, at, rows)
           n == Len(rows)
           more == n = v.page
           total == IF rows = <<>> THEN v.total ELSE Screen!Most(v.total, at + n)
           x == [v EXCEPT !.in_flight = @ \ {at}, !.loaded = TRUE, !.more = more,
                          !.total = total, !.window = written]
           to == Screen!Least(x.cursor, Screen!Sub(Screen!VisibleEvents(x), 1))
           y == [x EXCEPT !.cursor = to]
           w == Screen!FinishEventPage(v, at, rows)
<1>0. /\ rows \in Seq(Ids \X Nat)
      /\ \A k \in 1 .. Len(rows) : rows[k] = <<v.sid, at + (k - 1)>>
      /\ \A i \in DOMAIN v.window : v.window[i] = <<v.sid, i>>
  BY DEF OwnEvents, RowsFrom
<1>1. w = Screen!EvictFarPages(y)
  BY DEF Screen!FinishEventPage
<1>2. n \in Nat /\ total \in Nat
  BY <1>0 DEF ViewInv, Screen!Most
<1>3. DOMAIN written \subseteq Nat /\ \A i \in DOMAIN written : written[i] = <<v.sid, i>>
  <2>1. DOMAIN v.window \subseteq Nat
    BY DEF ViewInv
  <2>2. DOMAIN written \subseteq Nat
        /\ \A i \in DOMAIN written :
             \/ i \in DOMAIN v.window /\ written[i] = v.window[i]
             \/ i - at + 1 \in 1 .. n /\ written[i] = rows[i - at + 1]
    BY <1>0, <2>1, RowsWritten
  <2> HIDE DEF written
  <2>3. \A k \in 1 .. n : rows[k] = <<v.sid, at + (k - 1)>>
    BY <1>0
  <2>4. ASSUME NEW i \in DOMAIN written PROVE written[i] = <<v.sid, i>>
    <3>1. CASE i \in DOMAIN v.window /\ written[i] = v.window[i]
      BY <1>0, <3>1
    <3>2. CASE i - at + 1 \in 1 .. n /\ written[i] = rows[i - at + 1]
      <4>1. i \in Nat
        BY <2>2
      <4>2. at + ((i - at + 1) - 1) = i
        BY <4>1
      <4>3. written[i] = <<v.sid, at + ((i - at + 1) - 1)>>
        BY <2>3, <3>2
      <4> QED BY <4>2, <4>3
    <3> QED BY <2>2, <3>1, <3>2
  <2> QED BY <2>2, <2>4
<1> HIDE DEF written, total, more, n
<1>4. /\ DOMAIN x = DOMAIN v /\ x.cursor = v.cursor /\ x.window = written
      /\ x.in_flight = v.in_flight \ {at} /\ x.total = total /\ x.page = v.page
      /\ x.generation = v.generation /\ x.sid = v.sid
  BY DEF ViewInv, Screen!NewView
<1> HIDE DEF x
<1>5. to \in Nat
  <2>1. Screen!VisibleEvents(x) \in Nat
    BY <1>2, <1>4 DEF Screen!VisibleEvents
  <2>2. x.cursor \in Nat
    BY <1>4 DEF ViewInv
  <2> QED BY <2>1, <2>2 DEF Screen!Least, Screen!Sub
<1> HIDE DEF to
<1>6. /\ DOMAIN y = DOMAIN x /\ y.cursor = to /\ y.window = x.window
      /\ y.in_flight = x.in_flight /\ y.total = x.total /\ y.page = x.page
      /\ y.generation = x.generation /\ y.sid = x.sid
  BY <1>4 DEF ViewInv, Screen!NewView
<1> HIDE DEF y, w
<1>7. ViewInv(y)
  BY <1>2, <1>3, <1>4, <1>5, <1>6 DEF ViewInv
<1>8. /\ ViewInv(w) /\ w.generation = y.generation /\ w.in_flight = y.in_flight /\ w.sid = y.sid
      /\ \A i \in DOMAIN w.window : i \in DOMAIN y.window /\ w.window[i] = y.window[i]
  BY <1>1, <1>7, FarEvicted
<1>9. w.sid = v.sid /\ \A i \in DOMAIN w.window : w.window[i] = <<v.sid, i>>
  BY <1>3, <1>4, <1>6, <1>8
<1>10. OwnEvents(w)
  BY <1>9 DEF OwnEvents
<1> QED BY <1>4, <1>6, <1>8, <1>10 DEF w

\* A page that the response taken does not answer is awaited still.
LEMMA StillAwaited ==
  ASSUME NEW v, NEW w, NEW type, NEW N, NEW r, Awaited(v, type, N \cup {r}),
         w.generation = v.generation, w.in_flight \subseteq v.in_flight,
         r.type # type \/ r.token # v.generation \/ r.at \notin w.in_flight
  PROVE  Awaited(w, type, N)
<1> SUFFICES ASSUME NEW i \in w.in_flight
             PROVE  \E m \in N : m.type = type /\ m.token = w.generation /\ m.at = i
  BY DEF Awaited
<1>1. PICK m \in N \cup {r} : m.type = type /\ m.token = v.generation /\ m.at = i
  BY DEF Awaited
<1>2. m # r
  BY <1>1
<1> QED BY <1>1, <1>2

\* A response that nothing waits for is dropped, and nothing else changes.
LEMMA ResponseDropped ==
  ASSUME NEW a, NEW rs, NEW ts, NEW r, Fed(a, rs), Messages(a, rs) = Messages(a, ts) \cup {r},
         r.type = "sessions" => r.token # a.sessions.generation,
         r.type = "events" => r.token # a.events.generation,
         r.type = "detail" => a.detail.state # "loading" \/ r.token # a.detail_token
  PROVE  Fed(a, ts)
<1>1. WaitsFor(a, rs)
  BY DEF Fed, AppInv
<1>2. /\ Awaited(a.sessions, "sessions", Messages(a, ts) \cup {r})
      /\ Awaited(a.events, "events", Messages(a, ts) \cup {r})
      /\ DetailAwaited(a, Messages(a, ts) \cup {r})
  BY <1>1 DEF WaitsFor
<1>3. Awaited(a.sessions, "sessions", Messages(a, ts))
  BY <1>2, StillAwaited
<1>4. Awaited(a.events, "events", Messages(a, ts))
  BY <1>2, StillAwaited
<1>5. DetailAwaited(a, Messages(a, ts))
  BY <1>2 DEF DetailAwaited
<1> QED BY <1>3, <1>4, <1>5 DEF Fed, AppInv, WaitsFor

\* What a step of the UI has of the state it starts from.
LEMMA FedParts ==
  ASSUME NEW a, NEW rs, Fed(a, rs)
  PROVE  /\ Typed(a) /\ IsShown(a) /\ WaitsFor(a, rs) /\ a.last = SelectedId(a)
         /\ ViewInv(a.sessions) /\ ViewInv(a.events)
         /\ \A i \in DOMAIN a.sessions.window : a.sessions.window[i] \in Ids
         /\ \A i \in DOMAIN a.events.window : a.events.window[i] = <<a.last, i>>
         /\ a.height \in Nat /\ a.filter \in BOOLEAN /\ a.buffer \in BOOLEAN
         /\ \A m \in Messages(a, rs) : IsKnown(m, a)
  BY DEF Fed, AppInv, Typed, IsShown

\* A page of sessions ends its request, and what it puts under the cursor is shown.
LEMMA SessionPageApplied ==
  ASSUME ScreenParameters, NEW a, NEW rs, NEW ts, NEW r \in StoreResponses, Fed(a, rs),
         Messages(a, rs) = Messages(a, ts) \cup {r}, r.type = "sessions"
  PROVE  Fed(Screen!ApplySessionPage(a, r), ts)
<1>1. r.token \in Nat /\ r.at \in Nat /\ r.ok \in BOOLEAN /\ r.rows \in Seq(Ids) /\ r.total \in Nat
  BY DEF StoreResponses
<1>2. CASE r.token # a.sessions.generation
  <2>1. Screen!ApplySessionPage(a, r) = a
    BY <1>2 DEF Screen!ApplySessionPage
  <2> QED BY <1>2, <2>1, ResponseDropped
<1>3. ASSUME r.token = a.sessions.generation, NEW w, NEW b,
             ViewInv(w), w.generation = a.sessions.generation,
             w.in_flight = a.sessions.in_flight \ {r.at},
             \A i \in DOMAIN w.window : w.window[i] \in Ids,
             b = [a EXCEPT !.sessions = w, !.error = b.error]
      PROVE  AppInv(b, ts) /\ b.last = a.last /\ b.sessions = w
  <2>1. /\ Typed(a) /\ IsShown(a) /\ WaitsFor(a, rs)
        /\ ViewInv(a.sessions) /\ ViewInv(a.events)
        /\ \A i \in DOMAIN a.events.window : a.events.window[i] = <<a.last, i>>
        /\ a.height \in Nat /\ a.filter \in BOOLEAN /\ a.buffer \in BOOLEAN
        /\ \A m \in Messages(a, rs) : IsKnown(m, a)
    BY FedParts
  <2>2. /\ DOMAIN b = DOMAIN a /\ b.sessions = w
        /\ b.store_tx = a.store_tx /\ b.last = a.last
        /\ b.detail_token = a.detail_token /\ b.feedback_token = a.feedback_token
        /\ b.height = a.height /\ b.filter = a.filter /\ b.buffer = a.buffer
        /\ b.events = a.events /\ b.detail = a.detail
    BY <1>3, <2>1 DEF Typed, Screen!NewApp
  <2>3. /\ Awaited(a.sessions, "sessions", Messages(a, ts) \cup {r})
        /\ Awaited(a.events, "events", Messages(a, ts) \cup {r})
        /\ DetailAwaited(a, Messages(a, ts) \cup {r})
    BY <2>1 DEF WaitsFor
  <2>4. Awaited(w, "sessions", Messages(a, ts))
    BY <1>3, <2>3, StillAwaited
  <2>5. Awaited(a.events, "events", Messages(a, ts))
    BY <2>3, StillAwaited
  <2>6. DetailAwaited(b, Messages(a, ts))
    BY <2>2, <2>3 DEF DetailAwaited
  <2>7. \A m \in Messages(a, ts) : IsKnown(m, a)
    BY <2>1
  <2> QED BY <1>3, <2>1, <2>2, <2>4, <2>5, <2>6, <2>7, Rebuilt
<1>4. CASE r.token = a.sessions.generation /\ r.ok
  <2> DEFINE w == Screen!FinishSessionPage(a.sessions, r.at, r.rows, r.total)
             b == [a EXCEPT !.sessions = w, !.error = FALSE]
  <2>1. Screen!ApplySessionPage(a, r) =
          Screen!RequestSelectedDetail(Screen!RequestFeedbackForViewport(b))
    BY <1>4 DEF Screen!ApplySessionPage
  <2>2. /\ ViewInv(w) /\ w.generation = a.sessions.generation
        /\ w.in_flight = a.sessions.in_flight \ {r.at}
        /\ \A i \in DOMAIN w.window : w.window[i] \in Ids
    <3>1. ViewInv(a.sessions) /\ \A i \in DOMAIN a.sessions.window : a.sessions.window[i] \in Ids
      BY FedParts
    <3> QED BY <1>1, <3>1, SessionPageFinished
  <2> HIDE DEF w
  <2>3. b = [a EXCEPT !.sessions = w, !.error = b.error]
    <3>1. b.error = FALSE
      BY FedParts DEF Typed, Screen!NewApp
    <3> QED BY <3>1
  <2> HIDE DEF b
  <2>4. AppInv(b, ts)
    BY <1>3, <1>4, <2>2, <2>3
  <2> QED BY <2>1, <2>4, FeedbackAndDetailAsked
<1>5. CASE r.token = a.sessions.generation /\ ~r.ok
  <2> DEFINE w == [a.sessions EXCEPT !.in_flight = @ \ {r.at}]
             b == [a EXCEPT !.sessions = w, !.error = TRUE]
  <2>1. Screen!ApplySessionPage(a, r) = b
    BY <1>5 DEF Screen!ApplySessionPage, Screen!FinishError
  <2>2. /\ DOMAIN w = DOMAIN a.sessions /\ w.window = a.sessions.window /\ w.cursor = a.sessions.cursor
        /\ w.generation = a.sessions.generation /\ w.total = a.sessions.total
        /\ w.page = a.sessions.page /\ w.in_flight = a.sessions.in_flight \ {r.at}
    BY FedParts DEF ViewInv, Screen!NewView
  <2> HIDE DEF w
  <2>3. ViewInv(w) /\ \A i \in DOMAIN w.window : w.window[i] \in Ids
    BY <2>2, FedParts DEF ViewInv
  <2>4. b = [a EXCEPT !.sessions = w, !.error = b.error]
    <3>1. b.error = TRUE
      BY FedParts DEF Typed, Screen!NewApp
    <3> QED BY <3>1
  <2> HIDE DEF b
  <2>5. AppInv(b, ts) /\ b.last = a.last /\ b.sessions = w
    BY <1>3, <1>5, <2>2, <2>3, <2>4
  <2>6. SelectedId(b) = SelectedId(a)
    BY <2>2, <2>5 DEF SelectedId
  <2> QED BY <2>1, <2>5, <2>6, FedParts DEF Fed
<1> QED BY <1>2, <1>4, <1>5

\* A page of events ends its request, and its rows are of the session shown.
LEMMA EventPageApplied ==
  ASSUME ScreenParameters, NEW a, NEW rs, NEW ts, NEW r \in StoreResponses, Fed(a, rs),
         Messages(a, rs) = Messages(a, ts) \cup {r}, r.type = "events", RowsAreOf(r)
  PROVE  Fed(Screen!ApplyEventPage(a, r), ts)
<1> DEFINE b == Screen!ApplyEventPage(a, r)
<1>1. /\ r.token \in Nat /\ r.at \in Nat /\ r.ok \in BOOLEAN /\ r.rows \in Seq(Ids \X Nat)
  BY DEF StoreResponses
<1>2. /\ Typed(a) /\ IsShown(a) /\ WaitsFor(a, rs) /\ a.last = SelectedId(a)
      /\ ViewInv(a.sessions) /\ ViewInv(a.events)
      /\ \A i \in DOMAIN a.sessions.window : a.sessions.window[i] \in Ids
      /\ \A i \in DOMAIN a.events.window : a.events.window[i] = <<a.last, i>>
      /\ a.height \in Nat /\ a.filter \in BOOLEAN /\ a.buffer \in BOOLEAN
      /\ \A m \in Messages(a, rs) : IsKnown(m, a)
  BY FedParts
<1>3. IsKnown(r, a) /\ a.events.sid = a.last
  BY <1>2 DEF IsShown
<1>4. CASE r.token # a.events.generation
  <2>1. b = a
    BY <1>4 DEF Screen!ApplyEventPage
  <2> QED BY <1>4, <2>1, ResponseDropped
<1>5. CASE r.token = a.events.generation
  <2> DEFINE w == IF r.ok THEN Screen!FinishEventPage(a.events, r.at, r.rows)
                  ELSE [a.events EXCEPT !.in_flight = @ \ {r.at}]
  <2>1. r.sid = a.last
    BY <1>3, <1>5 DEF IsKnown
  <2>2. b = [a EXCEPT !.events = w] \/ b = [a EXCEPT !.events = w, !.error = TRUE]
    <3>1. r.sid = a.events.sid
      BY <1>3, <2>1
    <3>2. CASE r.ok
      BY <1>5, <3>1, <3>2 DEF Screen!ApplyEventPage
    <3>3. CASE ~r.ok
      BY <1>5, <3>1, <3>3 DEF Screen!ApplyEventPage, Screen!FinishError
    <3> QED BY <3>2, <3>3
  <2>3. /\ ViewInv(w) /\ w.generation = a.events.generation /\ w.sid = a.events.sid
        /\ w.in_flight = a.events.in_flight \ {r.at}
        /\ \A i \in DOMAIN w.window : w.window[i] = <<a.last, i>>
    <3>1. CASE r.ok
      <4>1. RowsFrom(r.rows, a.events.sid, r.at)
        BY <1>1, <1>3, <2>1 DEF RowsAreOf, RowsFrom
      <4>2. OwnEvents(a.events)
        BY <1>2, <1>3 DEF OwnEvents
      <4>3. w = Screen!FinishEventPage(a.events, r.at, r.rows)
        BY <3>1
      <4> HIDE DEF w
      <4>4. /\ ViewInv(w) /\ w.generation = a.events.generation /\ w.sid = a.events.sid
            /\ w.in_flight = a.events.in_flight \ {r.at} /\ OwnEvents(w)
        BY <1>1, <1>2, <4>1, <4>2, <4>3, EventPageFinished
      <4> QED BY <1>3, <4>4 DEF OwnEvents
    <3>2. CASE ~r.ok
      <4>1. /\ DOMAIN w = DOMAIN a.events /\ w.window = a.events.window
            /\ w.cursor = a.events.cursor /\ w.sid = a.events.sid
            /\ w.generation = a.events.generation /\ w.total = a.events.total
            /\ w.page = a.events.page /\ w.in_flight = a.events.in_flight \ {r.at}
        BY <1>2, <3>2 DEF ViewInv, Screen!NewView
      <4> HIDE DEF w
      <4> QED BY <1>2, <4>1 DEF ViewInv
    <3> QED BY <3>1, <3>2
  <2> HIDE DEF w, b
  <2>4. /\ DOMAIN b = DOMAIN a /\ b.events = w
        /\ b.store_tx = a.store_tx /\ b.last = a.last
        /\ b.detail_token = a.detail_token /\ b.feedback_token = a.feedback_token
        /\ b.height = a.height /\ b.filter = a.filter /\ b.buffer = a.buffer
        /\ b.sessions = a.sessions /\ b.detail = a.detail
    BY <1>2, <2>2 DEF Typed, Screen!NewApp
  <2>5. /\ Awaited(a.sessions, "sessions", Messages(a, ts) \cup {r})
        /\ Awaited(a.events, "events", Messages(a, ts) \cup {r})
        /\ DetailAwaited(a, Messages(a, ts) \cup {r})
    BY <1>2 DEF WaitsFor
  <2>6. Awaited(w, "events", Messages(a, ts))
    BY <2>3, <2>5, StillAwaited
  <2>7. Awaited(a.sessions, "sessions", Messages(a, ts))
    BY <2>5, StillAwaited
  <2>8. DetailAwaited(b, Messages(a, ts))
    BY <2>4, <2>5 DEF DetailAwaited
  <2>9. \A m \in Messages(a, ts) : IsKnown(m, a)
    BY <1>2
  <2>10. AppInv(b, ts)
    BY <1>2, <2>3, <2>4, <2>6, <2>7, <2>8, <2>9, Rebuilt
  <2>11. SelectedId(b) = SelectedId(a)
    BY <2>4, SelectedBySessions
  <2> QED BY <1>2, <2>4, <2>10, <2>11 DEF Fed, b
<1> QED BY <1>4, <1>5

\* A detail that is awaited is of the session shown; another is dropped.
LEMMA DetailApplied ==
  ASSUME ScreenParameters, NEW a, NEW rs, NEW ts, NEW r \in StoreResponses, Fed(a, rs),
         Messages(a, rs) = Messages(a, ts) \cup {r}, r.type = "detail"
  PROVE  Fed(Screen!ApplyDetail(a, r), ts)
<1> DEFINE b == Screen!ApplyDetail(a, r)
           loading == [state |-> "loading", token |-> r.token, sid |-> r.sid]
<1>1. /\ Typed(a) /\ IsShown(a) /\ WaitsFor(a, rs) /\ a.last = SelectedId(a)
      /\ ViewInv(a.sessions) /\ ViewInv(a.events)
      /\ \A i \in DOMAIN a.sessions.window : a.sessions.window[i] \in Ids
      /\ \A i \in DOMAIN a.events.window : a.events.window[i] = <<a.last, i>>
      /\ a.height \in Nat /\ a.filter \in BOOLEAN /\ a.buffer \in BOOLEAN
      /\ \A m \in Messages(a, rs) : IsKnown(m, a)
  BY FedParts
<1>2. IsKnown(r, a)
  BY <1>1
<1>3. CASE a.detail # loading
  <2>1. b = a
    BY <1>3 DEF Screen!ApplyDetail
  <2>2. a.detail.state # "loading" \/ r.token # a.detail_token
    BY <1>1, <1>2, <1>3 DEF IsShown, IsKnown
  <2> QED BY <2>1, <2>2, ResponseDropped
<1>4. CASE a.detail = loading
  <2> DEFINE d == IF r.ok THEN [state |-> "ready", sid |-> r.sid] ELSE [state |-> "error"]
  <2>1. b = [a EXCEPT !.detail = d]
    BY <1>4 DEF Screen!ApplyDetail
  <2>2. a.detail.state = "loading" /\ a.detail.sid = r.sid
    BY <1>4
  <2>3. r.sid = a.last
    BY <1>1, <2>2 DEF IsShown
  <2>4. (d.state = "ready" /\ d.sid = a.last) \/ d.state = "error"
    BY <2>3
  <2> HIDE DEF d, b
  <2>5. /\ DOMAIN b = DOMAIN a /\ b.detail = d
        /\ b.store_tx = a.store_tx /\ b.last = a.last
        /\ b.detail_token = a.detail_token /\ b.feedback_token = a.feedback_token
        /\ b.height = a.height /\ b.filter = a.filter /\ b.buffer = a.buffer
        /\ b.sessions = a.sessions /\ b.events = a.events
    BY <1>1, <2>1 DEF Typed, Screen!NewApp
  <2>6. /\ Awaited(a.sessions, "sessions", Messages(a, ts) \cup {r})
        /\ Awaited(a.events, "events", Messages(a, ts) \cup {r})
    BY <1>1 DEF WaitsFor
  <2>7. Awaited(a.events, "events", Messages(a, ts))
    BY <2>6, StillAwaited
  <2>8. Awaited(a.sessions, "sessions", Messages(a, ts))
    BY <2>6, StillAwaited
  <2>9. DetailAwaited(b, Messages(a, ts))
    BY <2>4, <2>5 DEF DetailAwaited
  <2>10. \A m \in Messages(a, ts) : IsKnown(m, a)
    BY <1>1
  <2>11. AppInv(b, ts)
    BY <1>1, <2>4, <2>5, <2>7, <2>8, <2>9, <2>10, Rebuilt
  <2>12. SelectedId(b) = SelectedId(a)
    BY <2>5, SelectedBySessions
  <2> QED BY <1>1, <2>5, <2>11, <2>12 DEF Fed, b
<1> QED BY <1>3, <1>4

\* Nothing waits for a feedback.
LEMMA FeedbackApplied ==
  ASSUME ScreenParameters, NEW a, NEW rs, NEW ts, NEW r \in StoreResponses, Fed(a, rs),
         Messages(a, rs) = Messages(a, ts) \cup {r}, r.type = "feedback"
  PROVE  Fed(Screen!ApplyFeedback(a, r), ts)
<1> DEFINE b == Screen!ApplyFeedback(a, r)
<1>1. Fed(a, ts)
  BY ResponseDropped
<1>2. Typed(a) /\ a.filter \in BOOLEAN /\ a.buffer \in BOOLEAN
  BY FedParts
<1>3. /\ DOMAIN b = DOMAIN a /\ b.detail = a.detail
      /\ b.store_tx = a.store_tx /\ b.last = a.last
      /\ b.detail_token = a.detail_token /\ b.feedback_token = a.feedback_token
      /\ b.height = a.height /\ b.filter = a.filter /\ b.buffer = a.buffer
      /\ b.sessions = a.sessions /\ b.events = a.events
  BY <1>2 DEF Screen!ApplyFeedback, Typed, Screen!NewApp
<1> HIDE DEF b
<1>4. Fed(b, ts)
  BY <1>1, <1>2, <1>3, FlagsChanged
<1> QED BY <1>4 DEF b

\* A draw tells the views their height and asks for what is in sight.
LEMMA Resized ==
  ASSUME ScreenParameters, NEW a, NEW rs, Fed(a, rs), NEW h \in Nat
  PROVE  LET sized == [a EXCEPT !.height = h, !.draw = FALSE,
                                !.sessions.page = Screen!PageSize(h),
                                !.events.page = Screen!PageSize(h)]
         IN  Fed(Screen!RequestEventPages(Screen!RequestSessionPages(sized)), rs)
<1> DEFINE p == Screen!PageSize(h)
           b == [a EXCEPT !.height = h, !.draw = FALSE, !.sessions.page = p, !.events.page = p]
           c == Screen!RequestSessionPages(b)
           d == Screen!RequestEventPages(c)
<1>1. /\ Typed(a) /\ IsShown(a) /\ WaitsFor(a, rs) /\ a.last = SelectedId(a)
      /\ ViewInv(a.sessions) /\ ViewInv(a.events)
      /\ \A i \in DOMAIN a.sessions.window : a.sessions.window[i] \in Ids
      /\ \A i \in DOMAIN a.events.window : a.events.window[i] = <<a.last, i>>
      /\ a.height \in Nat /\ a.filter \in BOOLEAN /\ a.buffer \in BOOLEAN
      /\ \A m \in Messages(a, rs) : IsKnown(m, a)
  BY FedParts
<1>2. p \in Nat
  BY DEF Screen!PageSize, Screen!Most, ScreenParameters
<1> HIDE DEF p
<1>3. /\ DOMAIN b = DOMAIN a /\ b.detail = a.detail
      /\ b.store_tx = a.store_tx /\ b.last = a.last
      /\ b.detail_token = a.detail_token /\ b.feedback_token = a.feedback_token
      /\ b.height = h /\ b.filter = a.filter /\ b.buffer = a.buffer
      /\ b.sessions = [a.sessions EXCEPT !.page = p] /\ b.events = [a.events EXCEPT !.page = p]
  BY <1>1 DEF Typed, Screen!NewApp
<1> HIDE DEF b
<1>4. ASSUME NEW v, ViewInv(v), NEW w, w = [v EXCEPT !.page = p]
      PROVE  /\ ViewInv(w) /\ w.window = v.window /\ w.in_flight = v.in_flight
             /\ w.generation = v.generation /\ w.sid = v.sid /\ w.cursor = v.cursor
  <2>1. /\ DOMAIN w = DOMAIN v /\ w.window = v.window /\ w.in_flight = v.in_flight /\ w.page = p
        /\ w.generation = v.generation /\ w.sid = v.sid /\ w.cursor = v.cursor /\ w.total = v.total
    BY <1>4 DEF ViewInv, Screen!NewView
  <2> QED BY <1>2, <1>4, <2>1 DEF ViewInv
<1>5. /\ ViewInv(b.sessions) /\ b.sessions.window = a.sessions.window
      /\ b.sessions.in_flight = a.sessions.in_flight
      /\ b.sessions.generation = a.sessions.generation /\ b.sessions.cursor = a.sessions.cursor
  BY <1>1, <1>3, <1>4
<1>6. /\ ViewInv(b.events) /\ b.events.window = a.events.window
      /\ b.events.in_flight = a.events.in_flight
      /\ b.events.generation = a.events.generation /\ b.events.sid = a.events.sid
  BY <1>1, <1>3, <1>4
<1>7. /\ Awaited(b.sessions, "sessions", Messages(a, rs))
      /\ Awaited(b.events, "events", Messages(a, rs))
      /\ DetailAwaited(b, Messages(a, rs))
  BY <1>1, <1>3, <1>5, <1>6 DEF WaitsFor, Awaited, DetailAwaited
<1>8. AppInv(b, rs)
  BY <1>1, <1>3, <1>5, <1>6, <1>7, Rebuilt
<1>9. SelectedId(b) = a.last
  BY <1>1, <1>5 DEF SelectedId
<1>10. AppInv(c, rs) /\ c.last = a.last /\ SelectedId(c) = a.last
  BY <1>3, <1>8, <1>9, SessionPagesAsked
<1> HIDE DEF c
<1>11. AppInv(d, rs) /\ d.last = c.last /\ d.sessions = c.sessions
  BY <1>10, EventPagesAsked
<1> HIDE DEF d
<1>12. Fed(d, rs)
  BY <1>10, <1>11, SelectedBySessions DEF Fed
<1> QED BY <1>12 DEF d, c, b, p

\* A queue is its first and the rest.
LEMMA FirstAndRest ==
  ASSUME NEW T, NEW s \in Seq(T), s # <<>>
  PROVE  /\ Head(s) \in T /\ Tail(s) \in Seq(T)
         /\ ToSet(s) = ToSet(Tail(s)) \cup {Head(s)}
<1> DEFINE n == Len(s)
           h == Head(s)
           t == Tail(s)
<1>1. n \in Nat /\ n # 0 /\ DOMAIN s = 1 .. n /\ \A i \in 1 .. n : s[i] \in T
  OBVIOUS
<1>2. h = s[1] /\ t \in Seq(T) /\ Len(t) = n - 1 /\ \A i \in 1 .. n - 1 : t[i] = s[i + 1]
  OBVIOUS
<1>3. DOMAIN t = 1 .. n - 1
  BY <1>2
<1> HIDE DEF n, h, t
<1>4. ToSet(s) = {s[i] : i \in 1 .. n} /\ ToSet(t) = {t[i] : i \in 1 .. n - 1}
  BY <1>1, <1>3 DEF ToSet
<1>5. ASSUME NEW i \in 1 .. n PROVE s[i] \in ToSet(t) \cup {h}
  <2>1. CASE i = 1
    BY <2>1, <1>2
  <2>2. CASE i # 1
    <3>1. i - 1 \in 1 .. n - 1 /\ (i - 1) + 1 = i
      BY <2>2, <1>1
    <3>2. s[i] = t[i - 1]
      BY <3>1, <1>2
    <3> QED BY <3>1, <3>2, <1>4
  <2> QED BY <2>1, <2>2
<1>6. ASSUME NEW i \in 1 .. n - 1 PROVE t[i] \in ToSet(s)
  <2>1. i + 1 \in 1 .. n /\ t[i] = s[i + 1]
    BY <1>1, <1>2
  <2> QED BY <2>1, <1>4
<1>7. h \in ToSet(s) /\ h \in T
  BY <1>1, <1>2, <1>4
<1> QED BY <1>2, <1>4, <1>5, <1>6, <1>7 DEF h, t

\* A queue that something joined has what it had, and that.
LEMMA JoinedQueue ==
  ASSUME NEW T, NEW s \in Seq(T), NEW x \in T
  PROVE  Append(s, x) \in Seq(T) /\ ToSet(Append(s, x)) = ToSet(s) \cup {x}
<1> DEFINE n == Len(s)
           t == Append(s, x)
<1>1. n \in Nat /\ DOMAIN s = 1 .. n
  OBVIOUS
<1>2. t \in Seq(T) /\ Len(t) = n + 1 /\ t[n + 1] = x /\ \A i \in 1 .. n : t[i] = s[i]
  OBVIOUS
<1>3. DOMAIN t = 1 .. n + 1
  BY <1>2
<1> HIDE DEF n, t
<1>4. ToSet(s) = {s[i] : i \in 1 .. n} /\ ToSet(t) = {t[i] : i \in 1 .. n + 1}
  BY <1>1, <1>3 DEF ToSet
<1>5. \A i \in 1 .. n + 1 : i = n + 1 \/ i \in 1 .. n
  BY <1>1
<1>6. n + 1 \in 1 .. n + 1 /\ \A i \in 1 .. n : i \in 1 .. n + 1
  BY <1>1
<1> QED BY <1>2, <1>4, <1>5, <1>6 DEF t

\* An answer takes the place of its request.
LEMMA RequestAnswered ==
  ASSUME NEW a, NEW rs \in Seq(StoreResponses), Fed(a, rs), a.store_tx # <<>>,
         NEW r \in StoreResponses, r.type = Head(a.store_tx).type, r.token = Head(a.store_tx).token,
         r.type \in {"sessions", "events"} => r.at = Head(a.store_tx).at,
         r.type \in {"events", "detail"} => r.sid = Head(a.store_tx).sid
  PROVE  Fed([a EXCEPT !.store_tx = Tail(@)], Append(rs, r))
<1> DEFINE q == Head(a.store_tx)
           b == [a EXCEPT !.store_tx = Tail(@)]
           M == ToSet(Tail(a.store_tx)) \cup ToSet(rs)
<1>1. /\ Typed(a) /\ IsShown(a) /\ WaitsFor(a, rs) /\ a.last = SelectedId(a)
      /\ \A m \in Messages(a, rs) : IsKnown(m, a)
  BY FedParts
<1>2. a.store_tx \in Seq(StoreRequests)
  BY <1>1 DEF Typed
<1>3. /\ Tail(a.store_tx) \in Seq(StoreRequests)
      /\ ToSet(a.store_tx) = ToSet(Tail(a.store_tx)) \cup {q}
  BY <1>2, FirstAndRest
<1>4. ToSet(Append(rs, r)) = ToSet(rs) \cup {r}
  BY JoinedQueue
<1>5. /\ DOMAIN b = DOMAIN a /\ b.detail = a.detail
      /\ b.store_tx = Tail(a.store_tx) /\ b.last = a.last
      /\ b.detail_token = a.detail_token /\ b.feedback_token = a.feedback_token
      /\ b.height = a.height /\ b.filter = a.filter /\ b.buffer = a.buffer
      /\ b.sessions = a.sessions /\ b.events = a.events
  BY <1>1 DEF Typed, Screen!NewApp
<1>6. Messages(a, rs) = M \cup {q} /\ Messages(b, Append(rs, r)) = M \cup {r}
  BY <1>3, <1>4, <1>5 DEF Messages
<1>7. /\ r.type = q.type /\ r.token = q.token
      /\ r.type \in {"sessions", "events"} => r.at = q.at
      /\ r.type \in {"events", "detail"} => r.sid = q.sid
  OBVIOUS
<1> HIDE DEF q, b, M
<1>8. Typed(b)
  BY <1>1, <1>3, <1>5 DEF Typed
<1>9. IsShown(b)
  BY <1>1, <1>5 DEF IsShown
<1>10. \A m \in M \cup {r} : IsKnown(m, b)
  <2>1. \A m \in M : IsKnown(m, b)
    BY <1>1, <1>5, <1>6 DEF IsKnown
  <2>2. IsKnown(q, a)
    BY <1>1, <1>6
  <2>3. IsKnown(r, b)
    BY <2>2, <1>5, <1>7 DEF IsKnown
  <2> QED BY <2>1, <2>3
<1>11. ASSUME NEW v, NEW type \in {"sessions", "events"}, Awaited(v, type, M \cup {q})
       PROVE  Awaited(v, type, M \cup {r})
  <2> SUFFICES ASSUME NEW i \in v.in_flight
               PROVE  \E m \in M \cup {r} : m.type = type /\ m.token = v.generation /\ m.at = i
    BY DEF Awaited
  <2>1. PICK m \in M \cup {q} : m.type = type /\ m.token = v.generation /\ m.at = i
    BY <1>11 DEF Awaited
  <2>2. CASE m \in M
    BY <2>1, <2>2
  <2>3. CASE m = q
    BY <2>1, <2>3, <1>7
  <2> QED BY <2>2, <2>3
<1>12. DetailAwaited(b, M \cup {r})
  <2>1. DetailAwaited(a, M \cup {q})
    BY <1>1, <1>6 DEF WaitsFor
  <2> QED BY <2>1, <1>5, <1>7 DEF DetailAwaited
<1>13. WaitsFor(b, Append(rs, r))
  <2>1. Awaited(a.sessions, "sessions", M \cup {q}) /\ Awaited(a.events, "events", M \cup {q})
    BY <1>1, <1>6 DEF WaitsFor
  <2>2. Awaited(a.sessions, "sessions", M \cup {r}) /\ Awaited(a.events, "events", M \cup {r})
    BY <2>1, <1>11
  <2> QED BY <2>2, <1>5, <1>6, <1>12 DEF WaitsFor
<1>14. SelectedId(b) = SelectedId(a)
  BY <1>5, SelectedBySessions
<1> QED BY <1>1, <1>5, <1>6, <1>8, <1>9, <1>10, <1>13, <1>14 DEF Fed, AppInv, b

\* A reply is of its request.
LEMMA RepliesAreRight ==
  ASSUME NEW q \in StoreRequests, NEW ok \in BOOLEAN, NEW rows, NEW total,
         q.type = "sessions" => rows \in Seq(Ids) /\ total \in Nat,
         q.type = "events" =>
           /\ rows \in Seq(Ids \X Nat)
           /\ \A k \in 1 .. Len(rows) : rows[k] = <<q.sid, q.at + (k - 1)>>,
         q.type = "feedback" => ~ok \/ rows \in SUBSET Ids
  PROVE  LET r == Screen!Reply(q, ok, rows, total) IN
           /\ r \in StoreResponses /\ RowsAreOf(r)
           /\ r.type = q.type /\ r.token = q.token
           /\ r.type \in {"sessions", "events"} => r.at = q.at
           /\ r.type \in {"events", "detail"} => r.sid = q.sid
<1>1. q.type \in {"sessions", "events", "detail", "feedback"} /\ q.token \in Nat
  BY DEF StoreRequests
<1>2. CASE q.type = "sessions"
  <2>1. q.at \in Nat
    BY <1>2 DEF StoreRequests
  <2>2. Screen!Reply(q, ok, rows, total) =
          [type |-> "sessions", token |-> q.token, at |-> q.at, ok |-> ok,
           rows |-> rows, total |-> total]
    BY <1>2 DEF Screen!Reply
  <2> QED BY <1>1, <1>2, <2>1, <2>2 DEF StoreResponses, RowsAreOf
<1>3. CASE q.type = "events"
  <2>1. q.at \in Nat /\ q.sid \in Ids
    BY <1>3 DEF StoreRequests
  <2>2. Screen!Reply(q, ok, rows, total) =
          [type |-> "events", token |-> q.token, sid |-> q.sid, at |-> q.at,
           ok |-> ok, rows |-> rows]
    BY <1>3 DEF Screen!Reply
  <2> QED BY <1>1, <1>3, <2>1, <2>2 DEF StoreResponses, RowsAreOf
<1>4. CASE q.type = "detail"
  <2>1. q.sid \in Ids
    BY <1>4 DEF StoreRequests
  <2>2. Screen!Reply(q, ok, rows, total) =
          [type |-> "detail", token |-> q.token, sid |-> q.sid, ok |-> ok]
    BY <1>4 DEF Screen!Reply
  <2> QED BY <1>1, <1>4, <2>1, <2>2 DEF StoreResponses, RowsAreOf
<1>5. CASE q.type = "feedback"
  <2>1. Screen!Reply(q, ok, rows, total) =
          [type |-> "feedback", token |-> q.token, ok |-> ok, scores |-> IF ok THEN rows ELSE {}]
    BY <1>5 DEF Screen!Reply
  <2>2. (IF ok THEN rows ELSE {}) \in SUBSET Ids
    BY <1>5
  <2> QED BY <1>1, <1>5, <2>1, <2>2 DEF StoreResponses, RowsAreOf
<1> QED BY <1>1, <1>2, <1>3, <1>4, <1>5

\* The rows of the table are sessions.
LEMMA RowsAreSessions ==
  ASSUME NEW S, listed \in Seq(Ids)
  PROVE  Screen!Rows(S) \in Seq(Ids)
<1> DEFINE P == {i \in DOMAIN listed : listed[i] \in S}
           at == Screen!Ascending(P)
<1>1. Len(listed) \in Nat /\ DOMAIN listed = 1 .. Len(listed)
      /\ \A i \in 1 .. Len(listed) : listed[i] \in Ids
  OBVIOUS
<1>2. P \in SUBSET (1 .. Len(listed))
  BY <1>1
<1>3. IsFiniteSet(1 .. Len(listed))
  BY <1>1, FS_Interval
<1>4. Screen!Rows(S) = [k \in DOMAIN at |-> listed[at[k]]]
  BY DEF Screen!Rows
<1> HIDE DEF P
<1>5. P \in SUBSET Nat /\ IsFiniteSet(P)
  <2>1. P \in SUBSET Nat
    BY <1>2
  <2>2. IsFiniteSet(P)
    BY <1>2, <1>3, FS_Subset
  <2> QED BY <2>1, <2>2
<1>6. at \in Seq(P) /\ Len(at) = Cardinality(P) /\ DOMAIN at = 1 .. Cardinality(P)
  BY <1>5, AscendingHasAll
<1>7. Cardinality(P) \in Nat
  BY <1>5, FS_CardinalityType
<1> DEFINE n == Cardinality(P)
<1> HIDE DEF at
<1>8. \A k \in 1 .. n : at[k] \in P
  <2>1. Len(at) = n
    BY <1>6
  <2>2. at \in Seq(P)
    BY <1>6
  <2> HIDE DEF n
  <2>3. \A k \in 1 .. Len(at) : at[k] \in P
    BY <2>2
  <2> QED BY <2>1, <2>3
<1> HIDE DEF n
<1>9. \A k \in 1 .. n : listed[at[k]] \in Ids
  BY <1>1, <1>2, <1>8
<1>10. Screen!Rows(S) = [k \in 1 .. n |-> listed[at[k]]]
  BY <1>4, <1>6 DEF n
<1> QED BY <1>7, <1>9, <1>10 DEF n

\* A page is a part of the rows, from its place on.
LEMMA PageOfRows ==
  ASSUME NEW T, NEW rows \in Seq(T), NEW offset \in Nat, NEW limit \in Nat
  PROVE  /\ Screen!Page(rows, offset, limit) \in Seq(T)
         /\ \A k \in 1 .. Len(Screen!Page(rows, offset, limit)) :
              /\ offset + k \in 1 .. Len(rows)
              /\ Screen!Page(rows, offset, limit)[k] = rows[offset + k]
<1> DEFINE n == Len(rows)
           to == Screen!Least(offset + limit, n)
           m == offset + 1
           p == Screen!Page(rows, offset, limit)
<1>1. n \in Nat /\ \A i \in 1 .. n : rows[i] \in T
  OBVIOUS
<1>2. p = SubSeq(rows, m, to)
  BY DEF Screen!Page
<1> HIDE DEF n, p
<1>3. to \in Nat /\ to <= n
  BY <1>1 DEF Screen!Least
<1> HIDE DEF to
<1>4. \A i \in m .. to : rows[i] \in T
  BY <1>1, <1>3
<1>5. m \in Int /\ to \in Int
  BY <1>3
<1> HIDE DEF m
<1>6. /\ p \in Seq(T)
      /\ Len(p) = IF m <= to THEN to - m + 1 ELSE 0
      /\ \A i \in 1 .. to - m + 1 : p[i] = rows[m + i - 1]
  BY <1>2, <1>4, <1>5, SubSeqProperties
<1>7. ASSUME NEW k \in 1 .. Len(p)
      PROVE  offset + k \in 1 .. n /\ p[k] = rows[offset + k]
  <2>1. k \in 1 .. to - m + 1
    BY <1>5, <1>6
  <2>2. m + k - 1 = offset + k /\ offset + k \in 1 .. n
    BY <1>1, <1>3, <2>1 DEF m
  <2> QED BY <1>6, <2>1, <2>2
<1> QED BY <1>6, <1>7 DEF n, p

\* The answer of the store to a request is what was asked for.
LEMMA AnswersAreRight ==
  ASSUME listed \in Seq(Ids), logged \in [Ids -> Nat], NEW q \in StoreRequests
  PROVE  /\ q.type = "sessions" => Screen!Answer(q) \in Seq(Ids)
         /\ q.type = "events" =>
              /\ Screen!Answer(q) \in Seq(Ids \X Nat)
              /\ \A k \in 1 .. Len(Screen!Answer(q)) :
                   Screen!Answer(q)[k] = <<q.sid, q.at + (k - 1)>>
         /\ q.type = "feedback" => Screen!Answer(q) \in SUBSET Ids
<1>1. CASE q.type = "sessions"
  <2> DEFINE S == IF q.filter THEN FilteredIds ELSE Ids
  <2>1. q.at \in Nat /\ q.limit \in Nat
    BY <1>1 DEF StoreRequests
  <2>2. Screen!Answer(q) = Screen!Page(Screen!Rows(S), q.at, q.limit)
    BY <1>1 DEF Screen!Answer
  <2> HIDE DEF S
  <2>3. Screen!Rows(S) \in Seq(Ids)
    BY RowsAreSessions
  <2>4. Screen!Answer(q) \in Seq(Ids)
    BY <2>1, <2>2, <2>3, PageOfRows
  <2> QED BY <1>1, <2>4
<1>2. CASE q.type = "events"
  <2> DEFINE rows == [i \in 1 .. logged[q.sid] |-> <<q.sid, i - 1>>]
             p == Screen!Answer(q)
  <2>1. q.at \in Nat /\ q.limit \in Nat /\ q.sid \in Ids
    BY <1>2 DEF StoreRequests
  <2>2. p = Screen!Page(rows, q.at, q.limit)
    BY <1>2 DEF Screen!Answer
  <2>3. logged[q.sid] \in Nat
    BY <2>1
  <2>4. rows \in Seq(Ids \X Nat) /\ Len(rows) = logged[q.sid]
    <3> DEFINE n == logged[q.sid]
    <3>1. n \in Nat /\ rows = [i \in 1 .. n |-> <<q.sid, i - 1>>]
      BY <2>3
    <3>2. \A i \in 1 .. n : <<q.sid, i - 1>> \in Ids \X Nat
      BY <2>1, <3>1
    <3> HIDE DEF n, rows
    <3>3. rows \in [1 .. n -> Ids \X Nat]
      BY <3>1, <3>2
    <3>4. rows \in Seq(Ids \X Nat) /\ Len(rows) = n
      BY <3>1, <3>3
    <3> QED BY <3>4 DEF n
  <2>5. \A i \in 1 .. Len(rows) : rows[i] = <<q.sid, i - 1>>
    BY <2>4
  <2> HIDE DEF rows, p
  <2>6. p \in Seq(Ids \X Nat)
        /\ \A k \in 1 .. Len(p) : q.at + k \in 1 .. Len(rows) /\ p[k] = rows[q.at + k]
    <3> DEFINE T == Ids \X Nat
    <3>1. rows \in Seq(T)
      BY <2>4
    <3> HIDE DEF T
    <3>2. p \in Seq(T)
          /\ \A k \in 1 .. Len(p) : q.at + k \in 1 .. Len(rows) /\ p[k] = rows[q.at + k]
      BY <2>1, <2>2, <3>1, PageOfRows
    <3> QED BY <3>2 DEF T
  <2>7. ASSUME NEW k \in 1 .. Len(p) PROVE p[k] = <<q.sid, q.at + (k - 1)>>
    <3>1. p[k] = <<q.sid, (q.at + k) - 1>>
      BY <2>5, <2>6
    <3>2. (q.at + k) - 1 = q.at + (k - 1)
      BY <2>1
    <3> QED BY <3>1, <3>2
  <2>8. /\ Screen!Answer(q) \in Seq(Ids \X Nat)
        /\ \A k \in 1 .. Len(Screen!Answer(q)) :
             Screen!Answer(q)[k] = <<q.sid, q.at + (k - 1)>>
    BY <2>6, <2>7 DEF p
  <2> QED BY <1>2, <2>8
<1>3. CASE q.type = "feedback"
  <2>1. q.ids \in SUBSET Ids
    BY <1>3 DEF StoreRequests
  <2>2. Screen!Answer(q) = q.ids \cap rated
    BY <1>3 DEF Screen!Answer
  <2>3. Screen!Answer(q) \in SUBSET Ids
    BY <2>1, <2>2
  <2> QED BY <1>3, <2>3
<1>4. CASE q.type \notin {"sessions", "events", "feedback"}
  BY <1>4
<1> QED BY <1>1, <1>2, <1>3, <1>4

\* A UI that is to be drawn is fed as before.
LEMMA DrawnIsFed ==
  ASSUME NEW a, NEW rs, Fed(a, rs)
  PROVE  Fed(Screen!Drawn(a), rs)
<1> DEFINE b == Screen!Drawn(a)
<1>1. Typed(a) /\ a.filter \in BOOLEAN /\ a.buffer \in BOOLEAN
  BY FedParts
<1>2. /\ DOMAIN b = DOMAIN a /\ b.detail = a.detail
      /\ b.store_tx = a.store_tx /\ b.last = a.last
      /\ b.detail_token = a.detail_token /\ b.feedback_token = a.feedback_token
      /\ b.height = a.height /\ b.filter = a.filter /\ b.buffer = a.buffer
      /\ b.sessions = a.sessions /\ b.events = a.events
  BY <1>1 DEF Screen!Drawn, Typed, Screen!NewApp
<1> HIDE DEF b
<1>3. Fed(b, rs)
  BY <1>1, <1>2, FlagsChanged
<1> QED BY <1>3 DEF b

\* The store, the answers on their way to a UI that is fed, and the report worker.
ReaderInv ==
  /\ listed \in Seq(Ids) /\ logged \in [Ids -> Nat] /\ height \in Nat
  /\ storeReader \in [open : BOOLEAN, total : Nat \cup {None}]

AnswersInv ==
  /\ responses \in Seq(StoreResponses)
  /\ \A r \in ToSet(responses) : RowsAreOf(r)
  /\ Fed(app, responses)

ReportInv ==
  /\ reportTask \in [dirty : BOOLEAN, permit : BOOLEAN, news : BOOLEAN, signals : Nat,
                     at : {"waiting", "slot", "computing", "aborted"}]
  /\ NewsWakesTheWorker

ScreenInv == ReaderInv /\ AnswersInv /\ ReportInv

\* The UI asks for sessions before it draws, and has nothing to show.
LEMMA ScreenStarts == ASSUME ScreenParameters PROVE Screen!Init => ScreenInv
<1> SUFFICES ASSUME Screen!Init PROVE ScreenInv
  OBVIOUS
<1> DEFINE a == Screen!NewApp
           v == Screen!NewView
<1>1. /\ listed \in {Screen!Ascending(S) : S \in SUBSET Ids}
      /\ logged \in [Ids -> 0 .. 1] /\ height \in TermHeights
      /\ storeReader \in [open : BOOLEAN, total : {None}]
      /\ app = Screen!RequestSessionPages(a) /\ responses = <<>>
      /\ reportTask = [dirty |-> TRUE, permit |-> TRUE, at |-> "waiting", news |-> TRUE, signals |-> 0]
  BY DEF Screen!Init
<1>2. listed \in Seq(Ids)
  <2>1. PICK S \in SUBSET Ids : listed = Screen!Ascending(S)
    BY <1>1
  <2>2. S \in SUBSET Nat /\ IsFiniteSet(S)
    BY FS_Subset DEF ScreenParameters
  <2>3. listed \in Seq(S)
    BY <2>1, <2>2, AscendingHasAll
  <2> QED BY <2>3
<1>3. logged \in [Ids -> Nat]
  BY <1>1
<1>4. height \in Nat /\ storeReader \in [open : BOOLEAN, total : Nat \cup {None}]
  BY <1>1 DEF ScreenParameters
<1>5. ReaderInv
  BY <1>2, <1>3, <1>4 DEF ReaderInv
<1>6. /\ a.sessions = v /\ a.events = v /\ a.detail = [state |-> "idle"] /\ a.last = NoSession
      /\ a.feedback_token = 0 /\ a.detail_token = 0 /\ a.filter = FALSE /\ a.buffer = FALSE
      /\ a.store_tx = <<>>
  BY DEF Screen!NewApp
<1>7. /\ v.page = PageFloor /\ v.cursor = 0 /\ v.window = <<>> /\ v.total = 0
      /\ v.sid = NoSession /\ v.generation = 0 /\ v.in_flight = {}
  BY DEF Screen!NewView
<1>8. DOMAIN v.window = {}
  BY <1>7
<1>9. a.height \in Nat
  <2>1. (CHOOSE h \in TermHeights : TRUE) \in Nat
    BY <1>1 DEF ScreenParameters
  <2> QED BY <2>1 DEF Screen!NewApp
<1> HIDE DEF a
<1>10. ViewInv(v)
  BY <1>7, <1>8 DEF ViewInv, ScreenParameters
<1> HIDE DEF v
<1>11. Typed(a)
  <2>1. DOMAIN a = DOMAIN Screen!NewApp
    BY DEF a
  <2>2. a.store_tx \in Seq(StoreRequests)
    BY <1>6
  <2>3. ViewInv(a.sessions) /\ ViewInv(a.events) /\ DOMAIN a.sessions.window = {}
    BY <1>6, <1>8, <1>10
  <2>4. a.filter \in BOOLEAN /\ a.buffer \in BOOLEAN
    BY <1>6
  <2>5. a.feedback_token \in Nat /\ a.detail_token \in Nat /\ a.last \in Ids \cup {NoSession}
    BY <1>6
  <2> QED BY <1>9, <2>1, <2>2, <2>3, <2>4, <2>5 DEF Typed
<1>12. a.detail.state = "idle"
  BY <1>6
<1>13. IsShown(a)
  BY <1>6, <1>7, <1>8, <1>12 DEF IsShown
<1>14. Messages(a, <<>>) = {}
  BY <1>6 DEF Messages, ToSet
<1>15. WaitsFor(a, <<>>)
  BY <1>6, <1>7, <1>12 DEF WaitsFor, Awaited, DetailAwaited
<1>16. AppInv(a, <<>>)
  BY <1>11, <1>13, <1>14, <1>15 DEF AppInv
<1>17. SelectedId(a) = a.last
  BY <1>6, <1>8 DEF SelectedId
<1>18. Fed(app, responses)
  BY <1>1, <1>16, <1>17, SessionPagesAsked DEF Fed
<1>19. AnswersInv
  BY <1>1, <1>18 DEF AnswersInv, ToSet
<1>20. ReportInv
  BY <1>1 DEF ReportInv, NewsWakesTheWorker
<1> QED BY <1>5, <1>19, <1>20 DEF ScreenInv

\* What marks the report dirty wakes the worker.
LEMMA ReportMarked ==
  ASSUME ReportInv, reportTask' = Screen!MarkReportDirty(reportTask)
  PROVE  ReportInv'
  BY DEF ReportInv, NewsWakesTheWorker, Screen!MarkReportDirty

\* A refresh shows what is selected and asks for a report.
LEMMA RefreshedNow ==
  ASSUME ScreenParameters, AnswersInv, ReportInv, Screen!RefreshNow, responses' = responses
  PROVE  AnswersInv' /\ ReportInv'
<1>1. Fed(Screen!Refresh(app), responses)
  BY Refreshed DEF AnswersInv, Fed
<1>2. Fed(app', responses')
  BY <1>1, DrawnIsFed DEF Screen!RefreshNow
<1> QED BY <1>2, ReportMarked DEF AnswersInv, Screen!RefreshNow

\* What the UI does with the answer that came first.
LEMMA AnswerApplied ==
  ASSUME ScreenParameters, AnswersInv, Screen!ApplyStoreResponse
  PROVE  AnswersInv'
<1> DEFINE r == Head(responses)
           ts == Tail(responses)
           b == CASE r.type = "sessions" -> Screen!ApplySessionPage(app, r)
                  [] r.type = "events"   -> Screen!ApplyEventPage(app, r)
                  [] r.type = "detail"   -> Screen!ApplyDetail(app, r)
                  [] OTHER               -> Screen!ApplyFeedback(app, r)
<1>1. /\ responses # <<>> /\ app' = Screen!Drawn(b) /\ responses' = ts
      /\ responses \in Seq(StoreResponses) /\ Fed(app, responses)
      /\ \A x \in ToSet(responses) : RowsAreOf(x)
  BY DEF Screen!ApplyStoreResponse, AnswersInv
<1>2. r \in StoreResponses /\ ts \in Seq(StoreResponses) /\ ToSet(responses) = ToSet(ts) \cup {r}
  BY <1>1, FirstAndRest
<1>3. RowsAreOf(r) /\ \A x \in ToSet(ts) : RowsAreOf(x)
  BY <1>1, <1>2
<1>4. Messages(app, responses) = Messages(app, ts) \cup {r}
  BY <1>2 DEF Messages
<1>5. r.type \in {"sessions", "events", "detail", "feedback"}
  BY <1>2 DEF StoreResponses
<1> HIDE DEF r, ts
<1>6. Fed(b, ts)
  <2>1. CASE r.type = "sessions"
    <3>1. Fed(Screen!ApplySessionPage(app, r), ts)
      BY <1>1, <1>2, <1>4, <2>1, SessionPageApplied
    <3> QED BY <2>1, <3>1
  <2>2. CASE r.type = "events"
    <3>1. Fed(Screen!ApplyEventPage(app, r), ts)
      BY <1>1, <1>2, <1>3, <1>4, <2>2, EventPageApplied
    <3> QED BY <2>2, <3>1
  <2>3. CASE r.type = "detail"
    <3>1. Fed(Screen!ApplyDetail(app, r), ts)
      BY <1>1, <1>2, <1>4, <2>3, DetailApplied
    <3> QED BY <2>3, <3>1
  <2>4. CASE r.type = "feedback"
    <3>1. Fed(Screen!ApplyFeedback(app, r), ts)
      BY <1>1, <1>2, <1>4, <2>4, FeedbackApplied
    <3> QED BY <2>4, <3>1
  <2> QED BY <1>5, <2>1, <2>2, <2>3, <2>4
<1> HIDE DEF b
<1>7. Fed(app', responses')
  BY <1>1, <1>6, DrawnIsFed
<1> QED BY <1>1, <1>2, <1>3, <1>7 DEF AnswersInv

\* A key is handled by the mode it is pressed in.
LEMMA KeyHandled ==
  ASSUME ScreenParameters, AnswersInv, ReportInv, NEW key \in Screen!KeysFor(app),
         Screen!HandleKey(key)
  PROVE  AnswersInv' /\ ReportInv'
<1> DEFINE b == IF app.filter_mode THEN Screen!FilterKey(app, key) ELSE Screen!NormalKey(app, key)
<1>1. /\ app' = Screen!Drawn(b) /\ responses' = responses
      /\ reportTask' = Screen!MarkReportDirty(reportTask) \/ reportTask' = reportTask
      /\ Fed(app, responses)
  BY DEF Screen!HandleKey, AnswersInv
<1>2. Fed(b, responses)
  <2>1. CASE app.filter_mode
    <3>1. key \in {"enter", "close", "type", "erase"}
      BY <2>1 DEF Screen!KeysFor
    <3>2. Fed(Screen!FilterKey(app, key), responses)
      BY <1>1, <3>1, FilterKeyHandled
    <3> QED BY <2>1, <3>2
  <2>2. CASE ~app.filter_mode
    <3>1. key \in {"filter", "help", "metrics", "pane", "quit", "close", "refresh",
                   "down", "up", "first", "last", "enter"}
      BY <2>2 DEF Screen!KeysFor
    <3>2. Fed(Screen!NormalKey(app, key), responses)
      BY <1>1, <3>1, NormalKeyHandled
    <3> QED BY <2>2, <3>2
  <2> QED BY <2>1, <2>2
<1> HIDE DEF b
<1>3. AnswersInv'
  BY <1>1, <1>2, DrawnIsFed DEF AnswersInv
<1>4. ReportInv'
  BY <1>1, ReportMarked DEF ReportInv, NewsWakesTheWorker
<1> QED BY <1>3, <1>4

\* A response takes the place of the request it answers.
LEMMA Responded ==
  ASSUME ReaderInv, AnswersInv, app.store_tx # <<>>, NEW ok \in BOOLEAN, NEW rows, NEW total,
         Screen!Respond(Screen!Reply(Head(app.store_tx), ok, rows, total)),
         Head(app.store_tx).type = "sessions" => rows \in Seq(Ids) /\ total \in Nat,
         Head(app.store_tx).type = "events" =>
           /\ rows \in Seq(Ids \X Nat)
           /\ \A k \in 1 .. Len(rows) :
                rows[k] = <<Head(app.store_tx).sid, Head(app.store_tx).at + (k - 1)>>,
         Head(app.store_tx).type = "feedback" => ~ok \/ rows \in SUBSET Ids
  PROVE  ReaderInv' /\ AnswersInv' /\ reportTask' = reportTask
<1> DEFINE q == Head(app.store_tx)
           r == Screen!Reply(q, ok, rows, total)
<1>1. /\ responses' = Append(responses, r)
      /\ app' = [app EXCEPT !.store_tx = Tail(@)]
      /\ storeReader' = [storeReader EXCEPT !.total = None]
      /\ listed' = listed /\ logged' = logged /\ height' = height /\ reportTask' = reportTask
  BY DEF Screen!Respond, Screen!store
<1>2. Fed(app, responses) /\ responses \in Seq(StoreResponses) /\ \A x \in ToSet(responses) : RowsAreOf(x)
  BY DEF AnswersInv
<1>3. q \in StoreRequests
  <2>1. app.store_tx \in Seq(StoreRequests)
    BY <1>2, FedParts DEF Typed
  <2> QED BY <2>1, FirstAndRest
<1> HIDE DEF r
<1>4. /\ r \in StoreResponses /\ RowsAreOf(r)
      /\ r.type = q.type /\ r.token = q.token
      /\ r.type \in {"sessions", "events"} => r.at = q.at
      /\ r.type \in {"events", "detail"} => r.sid = q.sid
  <2>1. /\ q.type = "sessions" => rows \in Seq(Ids) /\ total \in Nat
        /\ q.type = "events" =>
             /\ rows \in Seq(Ids \X Nat)
             /\ \A k \in 1 .. Len(rows) : rows[k] = <<q.sid, q.at + (k - 1)>>
        /\ q.type = "feedback" => ~ok \/ rows \in SUBSET Ids
    OBVIOUS
  <2> HIDE DEF q
  <2> QED BY <1>3, <2>1, RepliesAreRight DEF r
<1>5. Fed(app', responses')
  BY <1>1, <1>2, <1>4, RequestAnswered
<1>6. responses' \in Seq(StoreResponses) /\ ToSet(responses') = ToSet(responses) \cup {r}
  BY <1>1, <1>2, <1>4, JoinedQueue
<1>7. AnswersInv'
  BY <1>2, <1>4, <1>5, <1>6 DEF AnswersInv
<1>8. ReaderInv'
  BY <1>1 DEF ReaderInv
<1> QED BY <1>1, <1>7, <1>8

\* Each step of the UI, of the store worker, of the report worker and of the
\* others keeps the screen fed.
LEMMA ScreenKept == ASSUME ScreenParameters, ScreenInv, [Screen!Next]_(Screen!vars) PROVE ScreenInv'
<1>0. ReaderInv /\ AnswersInv /\ ReportInv
  BY DEF ScreenInv
<1>1. Fed(app, responses)
  BY <1>0 DEF AnswersInv
<1>r. ASSUME UNCHANGED <<listed, logged, storeReader, height>> PROVE ReaderInv'
  BY <1>0, <1>r DEF ReaderInv
<1>a. ASSUME UNCHANGED <<app, responses>> PROVE AnswersInv'
  BY <1>0, <1>a DEF AnswersInv
<1>p. ASSUME UNCHANGED reportTask PROVE ReportInv'
  BY <1>0, <1>p DEF ReportInv, NewsWakesTheWorker
<1>2. CASE Screen!DrawIfNeeded
  <2>1. UNCHANGED <<listed, logged, storeReader, height, responses, reportTask>>
    BY <1>2 DEF Screen!DrawIfNeeded, Screen!store
  <2>2. height \in Nat
    BY <1>0 DEF ReaderInv
  <2>3. Fed(app', responses)
    BY <1>1, <1>2, <2>2, Resized DEF Screen!DrawIfNeeded
  <2>4. AnswersInv'
    BY <1>0, <2>1, <2>3 DEF AnswersInv
  <2> QED BY <1>r, <1>p, <2>1, <2>4 DEF ScreenInv
<1>3. CASE Screen!ApplyStoreResponse
  <2>1. UNCHANGED <<listed, logged, storeReader, height, reportTask>>
    BY <1>3 DEF Screen!ApplyStoreResponse, Screen!store
  <2>2. AnswersInv'
    BY <1>0, <1>3, AnswerApplied
  <2> QED BY <1>r, <1>p, <2>1, <2>2 DEF ScreenInv
<1>4. CASE Screen!OnDeadline
  <2>1. UNCHANGED <<listed, logged, storeReader, height, responses>>
    BY <1>4 DEF Screen!OnDeadline, Screen!store
  <2>2. Screen!RefreshNow \/ UNCHANGED <<app, reportTask>>
    BY <1>4 DEF Screen!OnDeadline
  <2>3. AnswersInv' /\ ReportInv'
    BY <1>0, <1>a, <1>p, <2>1, <2>2, RefreshedNow
  <2> QED BY <1>r, <2>1, <2>3 DEF ScreenInv
<1>5. CASE Screen!OnWal
  <2>1. UNCHANGED <<listed, logged, storeReader, height, responses>>
    BY <1>5 DEF Screen!OnWal, Screen!store
  <2>2. Screen!RefreshNow \/ UNCHANGED <<app, reportTask>>
    BY <1>5 DEF Screen!OnWal
  <2>3. AnswersInv' /\ ReportInv'
    BY <1>0, <1>a, <1>p, <2>1, <2>2, RefreshedNow
  <2> QED BY <1>r, <2>1, <2>3 DEF ScreenInv
<1>6. CASE Screen!OnReport
  <2>1. /\ UNCHANGED <<listed, logged, storeReader, height, responses>>
        /\ app' = Screen!Drawn(app) /\ reportTask.signals > 0
        /\ reportTask' = [reportTask EXCEPT !.signals = @ - 1]
    BY <1>6 DEF Screen!OnReport, Screen!store
  <2>2. AnswersInv'
    BY <1>0, <1>1, <2>1, DrawnIsFed DEF AnswersInv
  <2>3. ReportInv'
    BY <1>0, <2>1 DEF ReportInv, NewsWakesTheWorker
  <2> QED BY <1>r, <2>1, <2>2, <2>3 DEF ScreenInv
<1>7. CASE \E key \in Screen!KeysFor(app) : Screen!HandleKey(key)
  <2>1. PICK key \in Screen!KeysFor(app) : Screen!HandleKey(key)
    BY <1>7
  <2>2. UNCHANGED <<listed, logged, storeReader, height>>
    BY <2>1 DEF Screen!HandleKey, Screen!store
  <2>3. AnswersInv' /\ ReportInv'
    BY <1>0, <2>1, KeyHandled
  <2> QED BY <1>r, <2>2, <2>3 DEF ScreenInv
<1>8. CASE Screen!Quit
  <2>1. /\ UNCHANGED <<listed, logged, storeReader, height, responses>>
        /\ app' = [app EXCEPT !.running = FALSE]
        /\ reportTask' = [reportTask EXCEPT !.at = "aborted"]
    BY <1>8 DEF Screen!Quit, Screen!store
  <2>2. Typed(app) /\ app.filter \in BOOLEAN /\ app.buffer \in BOOLEAN
    BY <1>1, FedParts
  <2>3. /\ DOMAIN app' = DOMAIN app /\ app'.detail = app.detail
        /\ app'.store_tx = app.store_tx /\ app'.last = app.last
        /\ app'.detail_token = app.detail_token /\ app'.feedback_token = app.feedback_token
        /\ app'.height = app.height /\ app'.filter = app.filter /\ app'.buffer = app.buffer
        /\ app'.sessions = app.sessions /\ app'.events = app.events
    BY <2>1, <2>2 DEF Typed, Screen!NewApp
  <2>4. Fed(app', responses)
    BY <1>1, <2>2, <2>3, FlagsChanged
  <2>5. AnswersInv'
    BY <1>0, <2>1, <2>4 DEF AnswersInv
  <2>6. ReportInv'
    BY <1>0, <2>1 DEF ReportInv, NewsWakesTheWorker
  <2> QED BY <1>r, <2>1, <2>5, <2>6 DEF ScreenInv
<1>9. CASE Screen!Tick \/ Screen!WalChanged \/ \E s \in Ids : Screen!NewScore(s)
  <2>1. UNCHANGED <<listed, logged, storeReader, height, app, responses, reportTask>>
    BY <1>9 DEF Screen!Tick, Screen!WalChanged, Screen!NewScore, Screen!Changed, Screen!store
  <2> QED BY <1>r, <1>a, <1>p, <2>1 DEF ScreenInv
<1>10. CASE Screen!CountSessions
  <2> DEFINE rows == Screen!Rows(IF Head(app.store_tx).filter THEN FilteredIds ELSE Ids)
  <2>1. /\ UNCHANGED <<listed, logged, height, app, responses, reportTask>>
        /\ storeReader' = [storeReader EXCEPT !.total = Len(rows)]
    BY <1>10 DEF Screen!CountSessions, Screen!store
  <2>2. rows \in Seq(Ids)
    BY <1>0, RowsAreSessions DEF ReaderInv
  <2> HIDE DEF rows
  <2>3. Len(rows) \in Nat
    BY <2>2
  <2>4. ReaderInv'
    BY <1>0, <2>1, <2>3 DEF ReaderInv
  <2> QED BY <1>a, <1>p, <2>1, <2>4 DEF ScreenInv
<1>11. CASE Screen!HandleRequest
  <2> DEFINE q == Head(app.store_tx)
  <2>1. /\ app.store_tx # <<>> /\ q.type = "sessions" => storeReader.total # None
        /\ Screen!Respond(Screen!Reply(q, TRUE, Screen!Answer(q), storeReader.total))
    BY <1>11 DEF Screen!HandleRequest
  <2>2. app.store_tx \in Seq(StoreRequests)
    BY <1>1, FedParts DEF Typed
  <2>3. q \in StoreRequests
    BY <1>11, <2>2, FirstAndRest DEF Screen!HandleRequest
  <2>4. /\ q.type = "sessions" => Screen!Answer(q) \in Seq(Ids)
        /\ q.type = "events" =>
             /\ Screen!Answer(q) \in Seq(Ids \X Nat)
             /\ \A k \in 1 .. Len(Screen!Answer(q)) :
                  Screen!Answer(q)[k] = <<q.sid, q.at + (k - 1)>>
        /\ q.type = "feedback" => Screen!Answer(q) \in SUBSET Ids
    <3> HIDE DEF q
    <3> QED BY <1>0, <2>3, AnswersAreRight DEF ReaderInv
  <2>5. q.type = "sessions" => storeReader.total \in Nat
    BY <1>0, <1>11 DEF ReaderInv, Screen!HandleRequest
  <2>6. Screen!Respond(Screen!Reply(q, TRUE, Screen!Answer(q), storeReader.total)) /\ app.store_tx # <<>>
    BY <1>11 DEF Screen!HandleRequest
  <2>7. ReaderInv' /\ AnswersInv' /\ reportTask' = reportTask
    BY <1>0, <2>4, <2>5, <2>6, Responded
  <2> QED BY <1>p, <2>7 DEF ScreenInv
<1>12. CASE Screen!HandleError
  <2> DEFINE q == Head(app.store_tx)
  <2>1. Screen!Respond(Screen!Reply(q, FALSE, <<>>, 0)) /\ app.store_tx # <<>>
    BY <1>12 DEF Screen!HandleError
  <2>2. /\ <<>> \in Seq(Ids) /\ 0 \in Nat /\ <<>> \in Seq(Ids \X Nat) /\ 1 .. Len(<<>>) = {}
    OBVIOUS
  <2>3. ReaderInv' /\ AnswersInv' /\ reportTask' = reportTask
    BY <1>0, <2>1, <2>2, Responded
  <2> QED BY <1>p, <2>3 DEF ScreenInv
<1>13. CASE Screen!Notified \/ Screen!StartReport \/ Screen!EndReport
  <2>1. UNCHANGED <<listed, logged, storeReader, height, app, responses>>
    BY <1>13 DEF Screen!Notified, Screen!StartReport, Screen!EndReport, Screen!Working, Screen!store
  <2>2. ReportInv'
    <3>1. CASE Screen!Notified
      BY <1>0, <3>1 DEF Screen!Notified, Screen!Working, ReportInv, NewsWakesTheWorker
    <3>2. CASE Screen!StartReport
      BY <1>0, <3>2 DEF Screen!StartReport, Screen!Working, ReportInv, NewsWakesTheWorker
    <3>3. CASE Screen!EndReport
      <4>1. /\ reportTask.at = "computing"
            /\ \/ reportTask' = [reportTask EXCEPT !.at = "waiting", !.signals = @ + 1]
               \/ reportTask' = [reportTask EXCEPT !.at = "waiting"]
        BY <3>3 DEF Screen!EndReport, Screen!Working
      <4>2. CASE reportTask' = [reportTask EXCEPT !.at = "waiting", !.signals = @ + 1]
        <5>1. /\ reportTask \in [dirty : BOOLEAN, permit : BOOLEAN, news : BOOLEAN, signals : Nat,
                                at : {"waiting", "slot", "computing", "aborted"}]
              /\ reportTask.news => reportTask.dirty /\ reportTask.permit
          BY <1>0, <4>1 DEF ReportInv, NewsWakesTheWorker
        <5>2. reportTask.signals + 1 \in Nat
          BY <5>1
        <5>3. /\ reportTask' \in [dirty : BOOLEAN, permit : BOOLEAN, news : BOOLEAN, signals : Nat,
                                 at : {"waiting", "slot", "computing", "aborted"}]
              /\ reportTask'.news = reportTask.news /\ reportTask'.dirty = reportTask.dirty
              /\ reportTask'.permit = reportTask.permit
          BY <4>2, <5>1, <5>2
        <5> QED BY <5>1, <5>3 DEF ReportInv, NewsWakesTheWorker
      <4>3. CASE reportTask' = [reportTask EXCEPT !.at = "waiting"]
        BY <1>0, <4>1, <4>3 DEF ReportInv, NewsWakesTheWorker
      <4> QED BY <4>1, <4>2, <4>3
    <3> QED BY <1>13, <3>1, <3>2, <3>3
  <2> QED BY <1>r, <1>a, <2>1, <2>2 DEF ScreenInv
<1>14. CASE \E s \in Ids : Screen!NewSession(s)
  <2>1. PICK s \in Ids : Screen!NewSession(s)
    BY <1>14
  <2>2. /\ UNCHANGED <<logged, storeReader, height, app, responses, reportTask>>
        /\ listed' = <<s>> \o listed \/ listed' = Append(listed, s)
    BY <2>1 DEF Screen!NewSession, Screen!Changed
  <2>3. listed' \in Seq(Ids)
    <3>1. listed \in Seq(Ids) /\ <<s>> \in Seq(Ids)
      BY <1>0 DEF ReaderInv
    <3>2. <<s>> \o listed \in Seq(Ids) /\ Append(listed, s) \in Seq(Ids)
      BY <3>1
    <3> QED BY <2>2, <3>2
  <2>4. ReaderInv'
    BY <1>0, <2>2, <2>3 DEF ReaderInv
  <2> QED BY <1>a, <1>p, <2>2, <2>4 DEF ScreenInv
<1>15. CASE \E s \in Ids : Screen!NewEvent(s)
  <2>1. PICK s \in Ids : Screen!NewEvent(s)
    BY <1>15
  <2>2. /\ UNCHANGED <<listed, storeReader, height, app, responses, reportTask>>
        /\ logged' = [logged EXCEPT ![s] = @ + 1]
    BY <2>1 DEF Screen!NewEvent, Screen!Changed
  <2>3. ReaderInv'
    BY <1>0, <2>2 DEF ReaderInv
  <2> QED BY <1>a, <1>p, <2>2, <2>3 DEF ScreenInv
<1>16. CASE \E h \in TermHeights : Screen!Resize(h)
  <2>1. PICK h \in TermHeights : Screen!Resize(h)
    BY <1>16
  <2>2. UNCHANGED <<listed, logged, storeReader, app, responses, reportTask>> /\ height' = h
    BY <2>1 DEF Screen!Resize, Screen!store
  <2>3. ReaderInv'
    BY <1>0, <2>2 DEF ReaderInv, ScreenParameters
  <2> QED BY <1>a, <1>p, <2>2, <2>3 DEF ScreenInv
<1>17. CASE UNCHANGED Screen!vars
  <2>1. UNCHANGED <<listed, logged, storeReader, height, app, responses, reportTask>>
    BY <1>17 DEF Screen!vars, Screen!store
  <2> QED BY <1>r, <1>a, <1>p, <2>1 DEF ScreenInv
<1> QED BY <1>2, <1>3, <1>4, <1>5, <1>6, <1>7, <1>8, <1>9, <1>10, <1>11, <1>12, <1>13, <1>14,
          <1>15, <1>16, <1>17 DEF Screen!Next

\* What the invariant says of the screen.
LEMMA FedIsFed == ScreenInv => ScreenIsFed
<1> SUFFICES ASSUME ScreenInv PROVE ScreenIsFed
  OBVIOUS
<1>1. Fed(app, responses) /\ NewsWakesTheWorker
  BY DEF ScreenInv, AnswersInv, ReportInv
<1>2. IsShown(app) /\ WaitsFor(app, responses) /\ app.last = SelectedId(app)
  BY <1>1, FedParts
<1>3. SelectedIsShown
  BY <1>2 DEF SelectedIsShown, IsShown
<1>4. Underway = Messages(app, responses)
  BY DEF Underway, Messages
<1>5. app.detail.state = "loading" => app.detail.token = app.detail_token
  BY <1>2 DEF IsShown
<1>6. PagesAreUnderway
  BY <1>2, <1>4, <1>5 DEF PagesAreUnderway, WaitsFor, Awaited, DetailAwaited
<1> QED BY <1>1, <1>3, <1>6 DEF ScreenIsFed

\* Whatever order keys, answers, refreshes and changes of the store take, the
\* screen shows the session under the cursor, waits only for answers that are
\* under way, and loses no request for a report (ui/tui/app, ui/tui/background.rs).
THEOREM ScreenStaysFed == ScreenParameters => (Screen!Spec => []ScreenIsFed)
<1> SUFFICES ASSUME ScreenParameters PROVE Screen!Spec => []ScreenIsFed
  OBVIOUS
<1>1. Screen!Init => ScreenInv
  BY ScreenStarts
<1>2. ScreenInv /\ [Screen!Next]_(Screen!vars) => ScreenInv'
  BY ScreenKept
<1>3. ScreenInv => ScreenIsFed
  BY FedIsFed
<1> QED BY <1>1, <1>2, <1>3, PTL DEF Screen!Spec
===============================================================================
