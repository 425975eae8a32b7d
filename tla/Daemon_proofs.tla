---------------------------- MODULE Daemon_proofs ----------------------------
(***************************************************************************)
(* For any number of daemons and commands: one daemon runs and is the one  *)
(* behind the socket, the queue depth counts what it counts, an answer is  *)
(* true, a restart replaces its daemon, and every workspace registered is  *)
(* captured.  The inductive invariant says in addition which daemon a      *)
(* request is with at each stage (the one that listens), which stages a    *)
(* command has behind it, and where a workspace is while a daemon starts:  *)
(* still to be restored, captured, or owed by a `kaizen init` under way.   *)
(***************************************************************************)
EXTENDS Daemon, FiniteSetTheorems, TLAPS

States == {"absent", "spawned", "gone"} \cup Running
Stages == {"idle", "ensure", "probe", "await", "check", "send", "reply", "stopping", "done",
           "failed"}

\* The requests that are jobs.
InHand == {c \in Clients : call[c].at \in {"sending", "queued", "working"}}

\* A request that can still be answered is with the daemon that listens, and
\* one that is a job is no capture.
CallsOK ==
  \A c \in Clients :
    /\ call[c].at \in Pending => call[c].to \in Daemons /\ proc[call[c].to] \in Listening
    /\ call[c].at \in {"sending", "queued", "working"} => op[c] # "init"

JobsOK ==
  /\ IsFiniteSet(InHand) /\ depth = Cardinality(InHand)
  /\ working # None => call[working].at = "working"

\* A command has no request before it sends one, and none but a restart goes
\* on to start a daemon after it.
ClientsOK ==
  \A c \in Clients :
    /\ pc[c] = "idle" => op[c] = None
    /\ pc[c] \in {"idle", "ensure", "check", "send"} => call[c].at = "none"
    /\ pc[c] \in {"probe", "await"} =>
         call[c].at = "none" \/ (op[c] = "restart" /\ call[c].at = "written")
    /\ pc[c] = "stopping" => op[c] = "restart" /\ call[c].at = "written"
    /\ pc[c] = "done" /\ op[c] \notin {"start", "restart"} =>
         call[c].at = "written" /\ call[c].ok

StoredOK ==
  \A c \in Clients :
    /\ stored[c] = 1 => /\ op[c] = "ingest" /\ call[c].to # None
                        /\ call[c].at \in {"replied", "written", "dropped", "eof"}
    /\ op[c] = "ingest" /\ call[c].at \in {"replied", "written", "dropped"} /\ call[c].ok
         => stored[c] = 1

\* The daemon that a restart found still runs, until it is known to be gone.
RestartsOK ==
  \A c \in Clients :
    /\ pc[c] \in {"idle", "ensure", "check"} => old[c] = None
    /\ old[c] # None => proc[old[c]] \in {"serving", "exiting", "gone"}
    /\ op[c] = "restart" /\ old[c] # None /\ pc[c] \in {"probe", "await", "done"} =>
         proc[old[c]] = "gone"
    /\ op[c] = "restart" /\ old[c] # None /\ pc[c] = "done" => pid[c] # old[c]
    /\ IsStop(c) /\ call[c].at = "written" =>
         call[c].to \in Daemons /\ proc[call[c].to] \in {"exiting", "gone"}

\* An init under way, or failed, that is to capture w.
Owed(w) == \E c \in Clients : op[c] = "init" /\ ws[c] = w /\ pc[c] # "done"

Known == toRestore \cup captured

CapturesOK ==
  /\ \A c \in Clients : op[c] = "init" => ws[c] \in registry
  /\ \A d \in Daemons :
       /\ proc[d] \in Listening => toRestore = {}
       /\ proc[d] \in {"restoring"} \cup Listening =>
            /\ \A w \in registry : w \in Known \/ Owed(w)
            /\ \A c \in Clients :
                 op[c] = "init" /\ call[c].at \in {"replied", "written", "dropped"} =>
                   ws[c] \in Known

IInv ==
  /\ TypeOK /\ LiveDaemonIsReachable /\ CallsOK /\ JobsOK /\ ClientsOK
  /\ StoredOK /\ RestartsOK /\ CapturesOK
-----------------------------------------------------------------------------
(* Helpers. *)

\* Daemons are told from None and from what a status request returns else.
LEMMA DaemonsAre ==
  /\ None \notin Daemons /\ None \notin Clients /\ None \notin Workspaces
  /\ None \notin {"start", "restart", "stop", "ingest", "init"}
  /\ Stopped \notin Daemons /\ TimedOut \notin Daemons /\ Stopped # TimedOut
  /\ QueueMax \in Nat /\ MaxCrashes \in Nat
BY DaemonAssumption DEF Daemons, Stopped, TimedOut, Ops

\* What a request for the status returns is true at that moment.
LEMMA StatusIs ==
  ASSUME TypeOK, NEW status \in Status
  PROVE  /\ status \in Daemons => socket = status /\ proc[status] \in {"serving", "exiting"}
         /\ status = Stopped => ~Connectable
         /\ status \in Daemons \cup {Stopped, TimedOut}
BY DaemonsAre DEF Status, Serving, Connectable, TypeOK, Listening

\* The jobs stay as they are when the requests, the worker and the count do.
LEMMA JobsStay ==
  ASSUME JobsOK, call' = call, UNCHANGED <<depth, working>>
  PROVE  JobsOK'
BY DEF JobsOK, InHand

\* The jobs are the same when no request becomes one or ceases to be one.
LEMMA SameJobs ==
  ASSUME \A x \in Clients : call'[x].at \in {"sending", "queued", "working"}
                              <=> call[x].at \in {"sending", "queued", "working"}
  PROVE  InHand' = InHand
BY DEF InHand

\* A workspace is owed as long as its init is not done.
LEMMA OwedStays ==
  ASSUME UNCHANGED <<op, ws>>,
         \A x \in Clients : op[x] = "init" /\ pc'[x] = "done" => pc[x] = "done"
  PROVE  \A w : Owed(w) => Owed(w)'
BY DEF Owed


\* The invariant holds at first.
LEMMA InitInv == Init => IInv
<1> SUFFICES ASSUME Init PROVE IInv
  OBVIOUS
<1> USE DEF Init
<1>1. TypeOK
  BY DaemonAssumption, DaemonsAre DEF TypeOK, Running, Listening, NoCall, Call, Pending
<1>2. LiveDaemonIsReachable
  BY DEF LiveDaemonIsReachable, Running, Listening
<1>3. CallsOK /\ ClientsOK /\ StoredOK /\ RestartsOK
  BY DEF CallsOK, ClientsOK, StoredOK, RestartsOK, NoCall, Pending, IsStop
<1>4. JobsOK
  <2>1. InHand = {}
    BY DEF InHand, NoCall
  <2> QED BY <2>1, FS_EmptySet DEF JobsOK
<1>5. CapturesOK
  <2>1. toRestore = {} /\ \A c \in Clients : op[c] # "init"
    BY DaemonsAre
  <2>2. CASE proc = [d \in Daemons |-> "absent"]
    <3>1. \A d \in Daemons : proc[d] = "absent"
      BY <2>2
    <3> QED BY <2>1, <3>1 DEF CapturesOK, Listening
  <2>3. CASE captured = Registered
    <3>1. Known = registry
      BY <2>1, <2>3 DEF Known
    <3> QED BY <2>1, <3>1 DEF CapturesOK
  <2> QED BY <2>2, <2>3
<1> QED BY <1>1, <1>2, <1>3, <1>4, <1>5 DEF IInv

\* The first steps of a daemon: only the holder of the lock runs.
LEMMA TakeLockInv ==
  ASSUME IInv, NEW d \in Daemons, TakeLock(d)
  PROVE  IInv'
<1>1. /\ proc[d] = "spawned" /\ lock = None /\ lock' = d
      /\ proc' \in [Daemons -> States]
      /\ proc'[d] = "locked" /\ \A e \in Daemons \ {d} : proc'[e] = proc[e]
  BY DEF IInv, TypeOK, TakeLock, Move, States, Running
<1>2. UNCHANGED <<socket, registry, toRestore, captured, queue, working, depth, stored, pc,
                  op, ws, child, old, pid, call, crashes>>
  BY DEF TakeLock, memory, clients
<1>3. \A e \in Daemons : proc[e] \notin Running
  BY <1>1, DaemonsAre DEF IInv, LiveDaemonIsReachable
<1>4. TypeOK'
  BY <1>1, <1>2, <1>3, DaemonsAre DEF IInv, TypeOK, Call, Pending, States, Stages
<1>5. LiveDaemonIsReachable'
  BY <1>1, <1>2, <1>3 DEF LiveDaemonIsReachable, Running, Listening
<1>6. CallsOK'
  BY <1>1, <1>2, <1>3 DEF IInv, CallsOK, Running, Listening
<1>7. JobsOK'
  BY <1>2, JobsStay DEF IInv
<1>8. ClientsOK'
  BY <1>1, <1>2, <1>3 DEF IInv, ClientsOK
<1>9. StoredOK'
  BY <1>1, <1>2, <1>3 DEF IInv, StoredOK
<1>10. RestartsOK'
  BY <1>1, <1>2, <1>3 DEF IInv, TypeOK, RestartsOK, IsStop
<1>11. CapturesOK'
  BY <1>1, <1>2, <1>3 DEF IInv, CapturesOK, Running, Listening
<1> QED BY <1>4, <1>5, <1>6, <1>7, <1>8, <1>9, <1>10, <1>11 DEF IInv

LEMMA CleanInv ==
  ASSUME IInv, NEW d \in Daemons, Clean(d)
  PROVE  IInv'
<1>1. /\ proc[d] = "locked" /\ lock = d
      /\ proc' \in [Daemons -> States]
      /\ proc'[d] = "restoring" /\ \A e \in Daemons \ {d} : proc'[e] = proc[e]
  BY DEF IInv, TypeOK, LiveDaemonIsReachable, Clean, Move, States, Running
<1>2. /\ socket' = None /\ toRestore' = registry
      /\ UNCHANGED <<lock, registry, captured, queue, working, depth, stored, pc,
                     op, ws, child, old, pid, call, crashes>>
  BY DEF Clean, clients
<1>3. \A e \in Daemons \ {d} : proc'[e] \notin Running
  BY <1>1 DEF IInv, LiveDaemonIsReachable
<1>4. TypeOK'
  BY <1>1, <1>2, <1>3, DaemonsAre DEF IInv, TypeOK, Call, Pending, States, Stages
<1>5. LiveDaemonIsReachable'
  BY <1>1, <1>2, <1>3 DEF LiveDaemonIsReachable, Running, Listening
<1>6. CallsOK'
  BY <1>1, <1>2 DEF IInv, CallsOK, Listening
<1>7. JobsOK'
  BY <1>2, JobsStay DEF IInv
<1>8. ClientsOK'
  BY <1>1, <1>2, <1>3 DEF IInv, ClientsOK
<1>9. StoredOK'
  BY <1>1, <1>2, <1>3 DEF IInv, StoredOK
<1>10. RestartsOK'
  BY <1>1, <1>2, <1>3 DEF IInv, TypeOK, RestartsOK, IsStop
<1>11. CapturesOK'
  BY <1>1, <1>2, <1>3 DEF IInv, CapturesOK, Known, Owed, Running, Listening
<1> QED BY <1>4, <1>5, <1>6, <1>7, <1>8, <1>9, <1>10, <1>11 DEF IInv

LEMMA RestoreInv ==
  ASSUME IInv, NEW d \in Daemons, NEW w \in Workspaces, Restore(d, w)
  PROVE  IInv'
<1>1. /\ proc[d] = "restoring" /\ w \in toRestore
      /\ captured' = captured \cup {w} /\ toRestore' = toRestore \ {w}
      /\ UNCHANGED <<proc, lock, socket, registry, queue, working, depth, stored, pc,
                     op, ws, child, old, pid, call, crashes>>
  BY DEF Restore, files, clients
<1>2. Known' = Known
  BY <1>1 DEF Known
<1>3. \A e \in Daemons : proc[e] \notin Listening
  BY <1>1 DEF IInv, LiveDaemonIsReachable, Running, Listening
<1>4. TypeOK'
  BY <1>1, DaemonsAre DEF IInv, TypeOK, Call, Pending, States, Stages
<1>5. LiveDaemonIsReachable'
  BY <1>1 DEF IInv, LiveDaemonIsReachable
<1>6. CallsOK'
  BY <1>1 DEF IInv, CallsOK, Pending
<1>7. JobsOK'
  BY <1>1, JobsStay DEF IInv
<1>8. ClientsOK'
  BY <1>1 DEF IInv, ClientsOK
<1>9. StoredOK'
  BY <1>1 DEF IInv, StoredOK
<1>10. RestartsOK'
  BY <1>1 DEF IInv, TypeOK, RestartsOK, IsStop
<1>11. CapturesOK'
  BY <1>1, <1>2, <1>3 DEF IInv, CapturesOK, Owed
<1> QED BY <1>4, <1>5, <1>6, <1>7, <1>8, <1>9, <1>10, <1>11 DEF IInv

LEMMA BoundInv ==
  ASSUME IInv, NEW d \in Daemons, Bind(d), socket = None
  PROVE  IInv'
<1>1. /\ proc[d] = "restoring" /\ lock = d /\ toRestore = {} /\ socket' = d
      /\ proc' \in [Daemons -> States]
      /\ proc'[d] = "bound" /\ \A e \in Daemons \ {d} : proc'[e] = proc[e]
  BY DEF IInv, TypeOK, LiveDaemonIsReachable, Bind, Restored, Move, States, Running, Listening
<1>2. UNCHANGED <<lock, registry, toRestore, captured, queue, working, depth, stored, pc,
                  op, ws, child, old, pid, call, crashes>>
  BY DEF Bind, memory, clients
<1>3. \A e \in Daemons \ {d} : proc[e] \notin Running
  BY <1>1 DEF IInv, LiveDaemonIsReachable
<1>4. TypeOK'
  BY <1>1, <1>2, <1>3, DaemonsAre DEF IInv, TypeOK, Call, Pending, States, Stages
<1>5. LiveDaemonIsReachable'
  BY <1>1, <1>2, <1>3 DEF LiveDaemonIsReachable, Running, Listening
<1>6. CallsOK'
  BY <1>1, <1>2 DEF IInv, CallsOK, Listening
<1>7. JobsOK'
  BY <1>2, JobsStay DEF IInv
<1>8. ClientsOK'
  BY <1>1, <1>2, <1>3 DEF IInv, ClientsOK
<1>9. StoredOK'
  BY <1>1, <1>2, <1>3 DEF IInv, StoredOK
<1>10. RestartsOK'
  BY <1>1, <1>2, DaemonsAre DEF IInv, TypeOK, RestartsOK, IsStop
<1>11. CapturesOK'
  BY <1>1, <1>2, <1>3 DEF IInv, CapturesOK, Known, Owed, Running, Listening
<1> QED BY <1>4, <1>5, <1>6, <1>7, <1>8, <1>9, <1>10, <1>11 DEF IInv

LEMMA ServeInv ==
  ASSUME IInv, NEW d \in Daemons, Serve(d)
  PROVE  IInv'
<1>1. /\ proc[d] = "bound"
      /\ proc' \in [Daemons -> States]
      /\ proc'[d] = "serving" /\ \A e \in Daemons \ {d} : proc'[e] = proc[e]
  BY DEF IInv, TypeOK, Serve, Move, States, Running, Listening
<1>2. UNCHANGED <<lock, socket, registry, toRestore, captured, queue, working, depth,
                  stored, pc, op, ws, child, old, pid, call, crashes>>
  BY DEF Serve, files, memory, clients
<1>3. TypeOK'
  BY <1>1, <1>2, DaemonsAre DEF IInv, TypeOK, Call, Pending, States, Stages
<1>4. LiveDaemonIsReachable'
  BY <1>1, <1>2 DEF IInv, LiveDaemonIsReachable, Running, Listening
<1>5. CallsOK'
  BY <1>1, <1>2 DEF IInv, CallsOK, Listening
<1>6. JobsOK'
  BY <1>2, JobsStay DEF IInv
<1>7. ClientsOK'
  BY <1>1, <1>2 DEF IInv, ClientsOK
<1>8. StoredOK'
  BY <1>1, <1>2 DEF IInv, StoredOK
<1>9. RestartsOK'
  BY <1>1, <1>2, DaemonsAre DEF IInv, TypeOK, RestartsOK, IsStop
<1>10. CapturesOK'
  BY <1>1, <1>2 DEF IInv, CapturesOK, Known, Owed, Listening
<1> QED BY <1>3, <1>4, <1>5, <1>6, <1>7, <1>8, <1>9, <1>10 DEF IInv

\* A process ends: with it all that only the holder of the lock has.
LEMMA DieInv ==
  ASSUME IInv, NEW d \in Daemons, Die(d), proc[d] \in {"spawned"} \cup Running,
         crashes' \in 0..MaxCrashes
  PROVE  IInv'
<1>1. /\ proc' \in [Daemons -> States]
      /\ proc'[d] = "gone" /\ \A e \in Daemons \ {d} : proc'[e] = proc[e]
      /\ UNCHANGED <<socket, registry, stored, pc, op, ws, child, old, pid>>
  BY DEF IInv, TypeOK, Die, clients, States
<1>2. /\ call' \in [Clients -> Call]
      /\ \A x \in Clients :
           /\ call'[x].to = call[x].to /\ call'[x].ok = call[x].ok
           /\ call'[x].at = IF call[x].to = d /\ call[x].at \in Pending THEN "eof" ELSE call[x].at
  BY DEF IInv, TypeOK, Die, Call
<1>3. \A x \in Clients : call[x].at \in Pending => call[x].to = lock
  BY DEF IInv, CallsOK, LiveDaemonIsReachable, Running
<1>4. lock # d => proc[d] = "spawned"
  BY DEF IInv, LiveDaemonIsReachable
<1>5. IF lock = d
        THEN /\ lock' = None /\ toRestore' = {} /\ captured' = {}
             /\ queue' = <<>> /\ working' = None /\ depth' = 0
        ELSE UNCHANGED <<lock, toRestore, captured, queue, working, depth>>
  BY DEF Die, memory
<1>6. TypeOK'
  <2>1. CASE lock = d
    BY <1>1, <1>2, <1>5, <2>1, DaemonsAre DEF IInv, TypeOK, States
  <2>2. CASE lock # d
    BY <1>1, <1>2, <1>5, <2>2, DaemonsAre DEF IInv, TypeOK, States
  <2> QED BY <2>1, <2>2
<1>7. LiveDaemonIsReachable'
  BY <1>1, <1>4, <1>5 DEF IInv, LiveDaemonIsReachable, Running, Listening
<1>8. CallsOK'
  BY <1>1, <1>2 DEF IInv, CallsOK, Pending, Listening
<1>9. JobsOK'
  <2>1. CASE lock = d
    <3>1. InHand' = {}
      BY <1>2, <1>3, <2>1 DEF InHand, Pending
    <3> QED BY <3>1, <2>1, <1>5, FS_EmptySet DEF JobsOK
  <2>2. CASE lock # d
    <3>1. \A x \in Clients : call'[x].at = call[x].at
      BY <1>2, <1>3, <2>2
    <3>2. InHand' = InHand
      BY <3>1 DEF InHand
    <3> QED BY <3>1, <3>2, <2>2, <1>5, DaemonsAre DEF IInv, TypeOK, JobsOK
  <2> QED BY <2>1, <2>2
<1>10. ClientsOK'
  BY <1>1, <1>2 DEF IInv, ClientsOK, Pending
<1>11. StoredOK'
  BY <1>1, <1>2 DEF IInv, StoredOK, Pending
<1>12. RestartsOK'
  BY <1>1, <1>2, DaemonsAre DEF IInv, TypeOK, RestartsOK, IsStop, Pending
<1>13. CapturesOK'
  <2>1. CASE lock = d
    <3>1. \A e \in Daemons : proc'[e] \notin {"restoring"} \cup Listening
      BY <1>1, <2>1 DEF IInv, LiveDaemonIsReachable, Running, Listening
    <3> QED BY <3>1, <1>1 DEF IInv, CapturesOK
  <2>2. CASE lock # d
    BY <2>2, <1>1, <1>2, <1>5 DEF IInv, CapturesOK, Known, Owed, Listening
  <2> QED BY <2>1, <2>2
<1> QED BY <1>6, <1>7, <1>8, <1>9, <1>10, <1>11, <1>12, <1>13 DEF IInv

\* Requests in the daemon.
LEMMA HandleCaptureInv ==
  ASSUME IInv, NEW c \in Clients, HandleCapture(c)
  PROVE  IInv'
<1>1. /\ op[c] = "init" /\ call[c].at = "sent"
      /\ call[c].to \in Daemons /\ proc[call[c].to] \in Listening
      /\ captured' = captured \cup {ws[c]} /\ ws[c] \in Workspaces
      /\ UNCHANGED <<proc, lock, socket, registry, toRestore, queue, working, depth, stored, pc,
                     op, ws, child, old, pid, crashes>>
  BY DaemonsAre DEF IInv, TypeOK, CallsOK, CapturesOK, HandleCapture, Pending, files, clients
<1>2. /\ call' \in [Clients -> Call] /\ \A x \in Clients \ {c} : call'[x] = call[x]
      /\ call'[c].at = "replied" /\ call'[c].ok = TRUE
      /\ call'[c].to = call[c].to /\ call'[c].open = call[c].open
  BY DEF IInv, TypeOK, HandleCapture, Call, Pending
<1>3. TypeOK'
  BY <1>1, <1>2, DaemonsAre DEF IInv, TypeOK, Call, Pending, States, Stages
<1>4. LiveDaemonIsReachable'
  BY <1>1, <1>2 DEF IInv, LiveDaemonIsReachable
<1>5. CallsOK'
  BY <1>1, <1>2 DEF IInv, CallsOK, Pending
<1>6. JobsOK'
  <2>1. \A x \in Clients : call'[x].at \in {"sending", "queued", "working"}
                          <=> call[x].at \in {"sending", "queued", "working"}
    BY <1>1, <1>2
  <2>2. InHand' = InHand
    BY <2>1, SameJobs
  <2> QED BY <1>1, <1>2, <2>2, DaemonsAre DEF IInv, TypeOK, JobsOK
<1>7. ClientsOK'
  BY <1>1, <1>2 DEF IInv, ClientsOK
<1>8. StoredOK'
  BY <1>1, <1>2 DEF IInv, StoredOK
<1>9. RestartsOK'
  BY <1>1, <1>2 DEF IInv, TypeOK, RestartsOK, IsStop
<1>10. CapturesOK'
  BY <1>1, <1>2 DEF IInv, CapturesOK, Known, Owed
<1> QED BY <1>3, <1>4, <1>5, <1>6, <1>7, <1>8, <1>9, <1>10 DEF IInv

LEMMA RunJobInv ==
  ASSUME IInv, NEW c \in Clients, RunJob(c)
  PROVE  IInv'
<1>1. /\ op[c] # "init" /\ call[c].at = "sent" /\ depth' = depth + 1
      /\ UNCHANGED <<proc, lock, socket, registry, toRestore, captured, queue, working,
                     stored, pc,
                     op, ws, child, old, pid, crashes>>
  BY DEF RunJob, At, files, clients
<1>2. /\ call' \in [Clients -> Call] /\ \A x \in Clients \ {c} : call'[x] = call[x]
      /\ call'[c].at = "sending" /\ call'[c].ok = call[c].ok
      /\ call'[c].to = call[c].to /\ call'[c].open = call[c].open
  BY DEF IInv, TypeOK, RunJob, At, Call, Pending
<1>3. TypeOK'
  BY <1>1, <1>2, DaemonsAre DEF IInv, TypeOK, Call, Pending, States, Stages
<1>4. LiveDaemonIsReachable'
  BY <1>1, <1>2 DEF IInv, LiveDaemonIsReachable
<1>5. CallsOK'
  BY <1>1, <1>2 DEF IInv, CallsOK, Pending
<1>6. JobsOK'
  <2>1. InHand' = InHand \cup {c} /\ c \notin InHand
    BY <1>1, <1>2 DEF InHand
  <2>2. IsFiniteSet(InHand)
    BY DEF IInv, JobsOK
  <2>3. /\ IsFiniteSet(InHand \cup {c})
        /\ Cardinality(InHand \cup {c}) =
             IF c \in InHand THEN Cardinality(InHand) ELSE Cardinality(InHand) + 1
    BY <2>2, FS_AddElement, Zenon
  <2>4. Cardinality(InHand') = Cardinality(InHand) + 1 /\ IsFiniteSet(InHand')
    BY <2>1, <2>3
  <2> QED BY <1>1, <1>2, <2>4, DaemonsAre DEF IInv, TypeOK, JobsOK
<1>7. ClientsOK'
  BY <1>1, <1>2 DEF IInv, ClientsOK
<1>8. StoredOK'
  BY <1>1, <1>2 DEF IInv, StoredOK
<1>9. RestartsOK'
  BY <1>1, <1>2 DEF IInv, TypeOK, RestartsOK, IsStop
<1>10. CapturesOK'
  BY <1>1, <1>2 DEF IInv, CapturesOK, Known, Owed
<1> QED BY <1>3, <1>4, <1>5, <1>6, <1>7, <1>8, <1>9, <1>10 DEF IInv

LEMMA SendJobInv ==
  ASSUME IInv, NEW c \in Clients, SendJob(c)
  PROVE  IInv'
<1>1. /\ call[c].at = "sending" /\ queue' = Append(queue, c)
      /\ UNCHANGED <<proc, lock, socket, registry, toRestore, captured, depth, working,
                     stored, pc,
                     op, ws, child, old, pid, crashes>>
  BY DEF SendJob, At, files, clients
<1>2. /\ call' \in [Clients -> Call] /\ \A x \in Clients \ {c} : call'[x] = call[x]
      /\ call'[c].at = "queued" /\ call'[c].ok = call[c].ok
      /\ call'[c].to = call[c].to /\ call'[c].open = call[c].open
  BY DEF IInv, TypeOK, SendJob, At, Call, Pending
<1>3. TypeOK'
  BY <1>1, <1>2, DaemonsAre DEF IInv, TypeOK, Call, Pending, States, Stages
<1>4. LiveDaemonIsReachable'
  BY <1>1, <1>2 DEF IInv, LiveDaemonIsReachable
<1>5. CallsOK'
  BY <1>1, <1>2 DEF IInv, CallsOK, Pending
<1>6. JobsOK'
  <2>1. \A x \in Clients : call'[x].at \in {"sending", "queued", "working"}
                          <=> call[x].at \in {"sending", "queued", "working"}
    BY <1>1, <1>2
  <2>2. InHand' = InHand
    BY <2>1, SameJobs
  <2> QED BY <1>1, <1>2, <2>2, DaemonsAre DEF IInv, TypeOK, JobsOK
<1>7. ClientsOK'
  BY <1>1, <1>2 DEF IInv, ClientsOK
<1>8. StoredOK'
  BY <1>1, <1>2 DEF IInv, StoredOK
<1>9. RestartsOK'
  BY <1>1, <1>2 DEF IInv, TypeOK, RestartsOK, IsStop
<1>10. CapturesOK'
  BY <1>1, <1>2 DEF IInv, CapturesOK, Known, Owed
<1> QED BY <1>3, <1>4, <1>5, <1>6, <1>7, <1>8, <1>9, <1>10 DEF IInv

LEMMA TakeJobInv ==
  ASSUME IInv, TakeJob
  PROVE  IInv'
<1> DEFINE c == Head(queue)
<1>1. c \in Clients /\ queue' \in Seq(Clients)
  BY DEF IInv, TypeOK, TakeJob
<1>2. /\ call[c].at = "queued" /\ working' = c
      /\ UNCHANGED <<proc, lock, socket, registry, toRestore, captured, depth, stored, pc,
                     op, ws, child, old, pid, crashes>>
  BY DEF TakeJob, At, files, clients
<1>3. /\ call' \in [Clients -> Call] /\ \A x \in Clients \ {c} : call'[x] = call[x]
      /\ call'[c].at = "working" /\ call'[c].ok = call[c].ok
      /\ call'[c].to = call[c].to /\ call'[c].open = call[c].open
  BY <1>1 DEF IInv, TypeOK, TakeJob, At, Call, Pending
<1> HIDE DEF c
<1>4. TypeOK'
  BY <1>1, <1>2, <1>3, DaemonsAre DEF IInv, TypeOK, Call, Pending, States, Stages
<1>5. LiveDaemonIsReachable'
  BY <1>1, <1>2, <1>3 DEF IInv, LiveDaemonIsReachable
<1>6. CallsOK'
  BY <1>1, <1>2, <1>3 DEF IInv, CallsOK, Pending
<1>7. JobsOK'
  <2>1. \A x \in Clients : call'[x].at \in {"sending", "queued", "working"}
                          <=> call[x].at \in {"sending", "queued", "working"}
    BY <1>1, <1>2, <1>3
  <2>2. InHand' = InHand
    BY <2>1, SameJobs
  <2> QED BY <1>1, <1>2, <1>3, <2>2, DaemonsAre DEF IInv, TypeOK, JobsOK
<1>8. ClientsOK'
  BY <1>1, <1>2, <1>3 DEF IInv, ClientsOK
<1>9. StoredOK'
  BY <1>1, <1>2, <1>3 DEF IInv, StoredOK
<1>10. RestartsOK'
  BY <1>1, <1>2, <1>3 DEF IInv, TypeOK, RestartsOK, IsStop
<1>11. CapturesOK'
  BY <1>1, <1>2, <1>3 DEF IInv, CapturesOK, Known, Owed
<1> QED BY <1>4, <1>5, <1>6, <1>7, <1>8, <1>9, <1>10, <1>11 DEF IInv

LEMMA WorkJobInv ==
  ASSUME IInv, WorkJob
  PROVE  IInv'
<1> DEFINE c == working
<1>1. PICK ok \in BOOLEAN :
        /\ op[c] = "ingest" \/ ok
        /\ call' = [call EXCEPT ![c].at = "replied", ![c].ok = ok]
        /\ stored' = [stored EXCEPT ![c] = @ + (IF ok /\ op[c] = "ingest" THEN 1 ELSE 0)]
  BY DEF WorkJob
<1>2. /\ c \in Clients /\ call[c].at = "working"
      /\ working' = None /\ depth' = depth - 1
      /\ UNCHANGED <<proc, lock, socket, registry, toRestore, captured, queue, pc,
                     op, ws, child, old, pid, crashes>>
  BY DaemonsAre DEF IInv, TypeOK, JobsOK, WorkJob, files, clients
<1>3. /\ call' \in [Clients -> Call] /\ \A x \in Clients \ {c} : call'[x] = call[x]
      /\ call'[c].at = "replied" /\ call'[c].ok = ok
      /\ call'[c].to = call[c].to /\ call'[c].open = call[c].open
  BY <1>1, <1>2 DEF IInv, TypeOK, Call, Pending
<1>4. /\ stored[c] = 0 /\ stored' \in [Clients -> 0..1]
      /\ \A x \in Clients \ {c} : stored'[x] = stored[x]
      /\ stored'[c] = IF ok /\ op[c] = "ingest" THEN 1 ELSE 0
  BY <1>1, <1>2 DEF IInv, TypeOK, StoredOK
<1>5. op[c] # "init" /\ call[c].to \in Daemons /\ None \notin Daemons
  BY <1>2, DaemonsAre DEF IInv, CallsOK, Pending
<1>6. depth' \in Nat
  <2>1. IsFiniteSet(InHand) /\ c \in InHand /\ depth = Cardinality(InHand)
    BY <1>2 DEF IInv, JobsOK, InHand
  <2>2. Cardinality(InHand \ {c}) = depth - 1 /\ Cardinality(InHand \ {c}) \in Nat
    BY <2>1, FS_RemoveElement, FS_CardinalityType
  <2> QED BY <2>2, <1>2
<1> HIDE DEF c
<1>7. TypeOK'
  BY <1>2, <1>3, <1>4, <1>5, <1>6, DaemonsAre DEF IInv, TypeOK, Call, Pending, States, Stages
<1>8. LiveDaemonIsReachable'
  BY <1>2, <1>3, <1>4, <1>5, <1>6 DEF IInv, LiveDaemonIsReachable
<1>9. CallsOK'
  BY <1>2, <1>3, <1>4, <1>5, <1>6 DEF IInv, CallsOK, Pending
<1>10. JobsOK'
  <2>1. InHand' = InHand \ {c} /\ c \in InHand
    BY <1>2, <1>3 DEF InHand
  <2>2. IsFiniteSet(InHand') /\ Cardinality(InHand') = Cardinality(InHand) - 1
    BY <2>1, FS_RemoveElement DEF IInv, JobsOK
  <2> QED BY <1>2, <2>2 DEF IInv, JobsOK
<1>11. ClientsOK'
  BY <1>2, <1>3, <1>4, <1>5, <1>6 DEF IInv, ClientsOK
<1>12. StoredOK'
  BY <1>2, <1>3, <1>4, <1>5, <1>6 DEF IInv, StoredOK
<1>13. RestartsOK'
  BY <1>2, <1>3, <1>4, <1>5, <1>6 DEF IInv, TypeOK, RestartsOK, IsStop
<1>14. CapturesOK'
  BY <1>2, <1>3, <1>4, <1>5, <1>6 DEF IInv, CapturesOK, Known, Owed
<1> QED BY <1>7, <1>8, <1>9, <1>10, <1>11, <1>12, <1>13, <1>14 DEF IInv

LEMMA WriteReplyInv ==
  ASSUME IInv, NEW c \in Clients, WriteReply(c)
  PROVE  IInv'
<1> DEFINE at == IF call[c].open THEN "written" ELSE "dropped"
<1>1. /\ call[c].at = "replied" /\ call[c].to \in Daemons /\ proc[call[c].to] \in Listening
      /\ UNCHANGED <<lock, socket, registry, toRestore, captured, queue, working, depth,
                     stored, pc, op, ws, child, old, pid, crashes>>
  BY DEF IInv, CallsOK, WriteReply, Pending, files, memory, clients
<1>2. /\ call' \in [Clients -> Call] /\ \A x \in Clients \ {c} : call'[x] = call[x]
      /\ call'[c].at = at /\ call'[c].ok = call[c].ok
      /\ call'[c].to = call[c].to /\ call'[c].open = call[c].open
  BY DEF IInv, TypeOK, WriteReply, Call, Pending
<1>3. /\ proc' \in [Daemons -> States]
      /\ \A d \in Daemons \ {call[c].to} : proc'[d] = proc[d]
      /\ proc'[call[c].to] = IF call[c].open /\ IsStop(c) THEN "exiting" ELSE proc[call[c].to]
  BY <1>1 DEF IInv, TypeOK, WriteReply, States, Running, Listening
<1>4. TypeOK'
  BY <1>1, <1>2, <1>3, DaemonsAre DEF IInv, TypeOK, Call, Pending, States, Stages
<1>5. LiveDaemonIsReachable'
  BY <1>1, <1>3 DEF IInv, LiveDaemonIsReachable, Running, Listening
<1>6. CallsOK'
  BY <1>1, <1>2, <1>3 DEF IInv, CallsOK, Pending, Listening
<1>7. JobsOK'
  <2>1. \A x \in Clients : call'[x].at \in {"sending", "queued", "working"}
                          <=> call[x].at \in {"sending", "queued", "working"}
    BY <1>1, <1>2, <1>3
  <2>2. InHand' = InHand
    BY <2>1, SameJobs
  <2> QED BY <1>1, <1>2, <1>3, <2>2, DaemonsAre DEF IInv, TypeOK, JobsOK
<1>8. ClientsOK'
  BY <1>1, <1>2, <1>3 DEF IInv, ClientsOK
<1>9. StoredOK'
  BY <1>1, <1>2, <1>3 DEF IInv, StoredOK
<1>10. RestartsOK'
  BY <1>1, <1>2, <1>3 DEF IInv, TypeOK, RestartsOK, IsStop, Listening
<1>11. CapturesOK'
  BY <1>1, <1>2, <1>3 DEF IInv, CapturesOK, Known, Owed, Listening
<1> QED BY <1>4, <1>5, <1>6, <1>7, <1>8, <1>9, <1>10, <1>11 DEF IInv

\* Commands and hooks.
LEMMA BeginInv ==
  ASSUME IInv, NEW c \in Clients, Begin(c)
  PROVE  IInv'
<1>1. PICK o \in Ops, w \in Workspaces \cup {None} :
        /\ o = "init" => w \in Workspaces
        /\ op' = [op EXCEPT ![c] = o] /\ ws' = [ws EXCEPT ![c] = w]
        /\ registry' = IF o = "init" THEN registry \cup {w} ELSE registry
        /\ pc' = [pc EXCEPT ![c] = CASE o = "start" -> "probe" [] o = "restart" -> "check"
                                       [] o = "stop" -> "send" [] OTHER -> "ensure"]
  BY DEF Begin, Goto
<1>2. /\ pc[c] = "idle" /\ op[c] = None /\ call[c].at = "none" /\ old[c] = None /\ stored[c] # 1
      /\ UNCHANGED <<proc, lock, socket, toRestore, captured, queue, working, depth, stored,
                     child, old, pid, call, crashes>>
  BY DEF IInv, ClientsOK, StoredOK, RestartsOK, Begin, memory
<1>3. /\ op' \in [Clients -> Ops \cup {None}] /\ ws' \in [Clients -> Workspaces \cup {None}]
      /\ pc' \in [Clients -> Stages] /\ registry' \in SUBSET Workspaces
      /\ \A x \in Clients \ {c} : op'[x] = op[x] /\ ws'[x] = ws[x] /\ pc'[x] = pc[x]
      /\ op'[c] = o /\ ws'[c] = w /\ pc'[c] \in {"probe", "check", "send", "ensure"}
  BY <1>1 DEF IInv, TypeOK, Stages
<1>4. registry \subseteq registry' /\ registry' \subseteq registry \cup {w}
      /\ (o = "init" => w \in registry') /\ (o # "init" => registry' = registry)
  BY <1>1
<1>5. TypeOK'
  BY <1>2, <1>3, <1>4, DaemonsAre DEF IInv, TypeOK, Call, Pending, States, Stages
<1>6. LiveDaemonIsReachable'
  BY <1>2, <1>3, <1>4 DEF IInv, LiveDaemonIsReachable
<1>7. CallsOK'
  BY <1>2, <1>3, <1>4 DEF IInv, CallsOK, Pending
<1>8. JobsOK'
  BY <1>2, JobsStay DEF IInv
<1>9. ClientsOK'
  BY <1>2, <1>3, <1>4 DEF IInv, ClientsOK
<1>10. StoredOK'
  BY <1>2, <1>3, <1>4 DEF IInv, StoredOK
<1>11. RestartsOK'
  BY <1>2, <1>3, <1>4 DEF IInv, TypeOK, RestartsOK, IsStop
<1>12. CapturesOK'
  <2>1. \A x \in Clients : op'[x] = "init" => ws'[x] \in registry'
    BY <1>3, <1>4 DEF IInv, CapturesOK
  <2>2. \A v \in registry : Owed(v) => Owed(v)'
    <3> SUFFICES ASSUME NEW v \in registry, Owed(v) PROVE Owed(v)'
      OBVIOUS
    <3>1. PICK x \in Clients : op[x] = "init" /\ ws[x] = v /\ pc[x] # "done"
      BY DEF Owed
    <3>2. x # c
      BY <3>1, <1>2, DaemonsAre
    <3> QED BY <1>3, <3>1, <3>2 DEF Owed
  <2>3. o = "init" => Owed(w)'
    BY <1>3 DEF Owed
  <2> QED BY <1>2, <1>3, <1>4, <2>1, <2>2, <2>3 DEF IInv, CapturesOK, Known
<1> QED BY <1>5, <1>6, <1>7, <1>8, <1>9, <1>10, <1>11, <1>12 DEF IInv

LEMMA EnsureRunningInv ==
  ASSUME IInv, NEW c \in Clients, EnsureRunning(c)
  PROVE  IInv'
<1>1. /\ pc[c] = "ensure" /\ pc' \in [Clients -> Stages]
      /\ pc'[c] \in {"probe", "send"} /\ \A x \in Clients \ {c} : pc'[x] = pc[x]
  BY DEF IInv, TypeOK, EnsureRunning, Client, Goto, Stages
<1>2. UNCHANGED <<proc, lock, socket, registry, toRestore, captured, queue, working,
                  depth, stored, op, ws, child, old, pid, call, crashes>>
  BY DEF EnsureRunning, Client, files, memory
<1>3. TypeOK'
  BY <1>1, <1>2, DaemonsAre DEF IInv, TypeOK, Call, Pending, States, Stages
<1>4. LiveDaemonIsReachable'
  BY <1>1, <1>2 DEF IInv, LiveDaemonIsReachable
<1>5. CallsOK'
  BY <1>1, <1>2 DEF IInv, CallsOK, Pending
<1>6. JobsOK'
  BY <1>2, JobsStay DEF IInv
<1>7. ClientsOK'
  BY <1>1, <1>2 DEF IInv, ClientsOK
<1>8. StoredOK'
  BY <1>1, <1>2 DEF IInv, StoredOK
<1>9. RestartsOK'
  BY <1>1, <1>2 DEF IInv, RestartsOK, IsStop
<1>10. CapturesOK'
  BY <1>1, <1>2 DEF IInv, CapturesOK, Known, Owed
<1> QED BY <1>3, <1>4, <1>5, <1>6, <1>7, <1>8, <1>9, <1>10 DEF IInv

LEMMA StartBackgroundInv ==
  ASSUME IInv, NEW c \in Clients, StartBackground(c)
  PROVE  IInv'
<1>1. PICK status \in Status :
        \/ status = TimedOut /\ Fail(c) /\ UNCHANGED <<proc, child, pid>>
        \/ status \in Daemons /\ Ready(c, status) /\ UNCHANGED <<proc, child>>
        \/ /\ \E d \in Daemons : Move(d, "absent", "spawned") /\ child' = [child EXCEPT ![c] = d]
           /\ Goto(c, "await") /\ UNCHANGED pid
  BY DEF StartBackground
<1>2. status \in Daemons => socket = status /\ proc[status] \in {"serving", "exiting"}
  BY StatusIs DEF IInv
<1>3. /\ pc[c] = "probe"
      /\ UNCHANGED <<lock, socket, registry, toRestore, captured, queue, working, depth,
                     stored, op, ws, old, call, crashes>>
  BY DEF StartBackground, Client, files, memory
<1>4. /\ pc' \in [Clients -> Stages] /\ \A x \in Clients \ {c} : pc'[x] = pc[x]
      /\ pc'[c] \in {"failed", "done", "send", "await"}
      /\ pc'[c] = "done" => /\ op[c] \in {"start", "restart"} /\ pid'[c] = socket
                            /\ socket \in Daemons /\ proc[socket] \in {"serving", "exiting"}
      /\ pc'[c] = "send" => op[c] # "restart"
      /\ pid' \in [Clients -> Daemons \cup {None}] /\ \A x \in Clients \ {c} : pid'[x] = pid[x]
  <2>1. CASE status = TimedOut /\ Fail(c) /\ UNCHANGED <<proc, child, pid>>
    BY <2>1 DEF IInv, TypeOK, Stages, Fail, Goto
  <2>2. CASE status \in Daemons /\ Ready(c, status) /\ UNCHANGED <<proc, child>>
    BY <1>2, <2>2 DEF IInv, TypeOK, Stages, Ready, Goto
  <2>3. CASE Goto(c, "await") /\ UNCHANGED pid
    BY <2>3 DEF IInv, TypeOK, Stages, Goto
  <2> QED BY <1>1, <2>1, <2>2, <2>3
<1>5. /\ proc' \in [Daemons -> States] /\ child' \in [Clients -> Daemons \cup {None}]
      /\ \A d \in Daemons : proc'[d] = proc[d] \/ (proc[d] = "absent" /\ proc'[d] = "spawned")
  BY <1>1 DEF IInv, TypeOK, States, Move
<1>6. TypeOK'
  BY <1>3, <1>4, <1>5, DaemonsAre DEF IInv, TypeOK, Call, Pending, States, Stages
<1>7. LiveDaemonIsReachable'
  BY <1>3, <1>5 DEF IInv, LiveDaemonIsReachable, Running, Listening
<1>8. CallsOK'
  BY <1>3, <1>5 DEF IInv, CallsOK, Listening
<1>9. JobsOK'
  BY <1>3, JobsStay DEF IInv
<1>10. ClientsOK'
  BY <1>3, <1>4, <1>5 DEF IInv, ClientsOK
<1>11. StoredOK'
  BY <1>3, <1>4, <1>5 DEF IInv, StoredOK
<1>12. RestartsOK'
  BY <1>3, <1>4, <1>5, DaemonsAre DEF IInv, TypeOK, ClientsOK, RestartsOK, IsStop
<1>13. CapturesOK'
  BY <1>3, <1>4, <1>5, OwedStays DEF IInv, CapturesOK, Known, Listening
<1> QED BY <1>6, <1>7, <1>8, <1>9, <1>10, <1>11, <1>12, <1>13 DEF IInv

LEMMA PollStartInv ==
  ASSUME IInv, NEW c \in Clients, PollStart(c)
  PROVE  IInv'
<1>1. \/ Fail(c) /\ UNCHANGED pid
      \/ \E status \in Status : status \in Daemons /\ Ready(c, status)
  BY StatusIs DEF IInv, PollStart
<1>2. \A status \in Status :
        status \in Daemons => socket = status /\ proc[status] \in {"serving", "exiting"}
  BY StatusIs DEF IInv
<1>3. /\ pc[c] = "await"
      /\ UNCHANGED <<proc, lock, socket, registry, toRestore, captured, queue, working,
                     depth, stored, op, ws, child, old, call, crashes>>
  BY DEF PollStart, Client, files, memory
<1>4. /\ pc' \in [Clients -> Stages] /\ \A x \in Clients \ {c} : pc'[x] = pc[x]
      /\ pc'[c] \in {"failed", "done", "send"}
      /\ pc'[c] = "done" => /\ op[c] \in {"start", "restart"} /\ pid'[c] = socket
                            /\ socket \in Daemons /\ proc[socket] \in {"serving", "exiting"}
      /\ pc'[c] = "send" => op[c] # "restart"
      /\ pid' \in [Clients -> Daemons \cup {None}] /\ \A x \in Clients \ {c} : pid'[x] = pid[x]
  BY <1>1, <1>2 DEF IInv, TypeOK, Stages, Fail, Ready, Goto
<1>5. TypeOK'
  BY <1>3, <1>4, DaemonsAre DEF IInv, TypeOK, Call, Pending, States, Stages
<1>6. LiveDaemonIsReachable'
  BY <1>3, <1>4 DEF IInv, LiveDaemonIsReachable
<1>7. CallsOK'
  BY <1>3, <1>4 DEF IInv, CallsOK, Pending
<1>8. JobsOK'
  BY <1>3, JobsStay DEF IInv
<1>9. ClientsOK'
  BY <1>3, <1>4 DEF IInv, ClientsOK
<1>10. StoredOK'
  BY <1>3, <1>4 DEF IInv, StoredOK
<1>11. RestartsOK'
  BY <1>3, <1>4, DaemonsAre DEF IInv, TypeOK, ClientsOK, RestartsOK, IsStop
<1>12. CapturesOK'
  BY <1>3, <1>4, OwedStays DEF IInv, CapturesOK, Known
<1> QED BY <1>5, <1>6, <1>7, <1>8, <1>9, <1>10, <1>11, <1>12 DEF IInv

LEMMA CheckRunningInv ==
  ASSUME IInv, NEW c \in Clients, CheckRunning(c)
  PROVE  IInv'
<1>1. /\ pc[c] = "check" /\ pc' \in [Clients -> Stages]
      /\ pc'[c] \in {"probe", "failed", "send"} /\ \A x \in Clients \ {c} : pc'[x] = pc[x]
  BY DEF IInv, TypeOK, CheckRunning, Client, Goto, Stages
<1>2. /\ old[c] = None
      /\ UNCHANGED <<proc, lock, socket, registry, toRestore, captured, queue, working,
                     depth, stored, op, ws, child, pid, call, crashes>>
  BY <1>1 DEF IInv, RestartsOK, CheckRunning, Client, files, memory
<1>3. PICK status \in Status :
        /\ pc'[c] = "probe" => status = Stopped
        /\ old' = IF status \in Daemons THEN [old EXCEPT ![c] = status] ELSE old
  BY <1>1 DEF IInv, TypeOK, CheckRunning, Goto
<1>4. /\ old' \in [Clients -> Daemons \cup {None}] /\ \A x \in Clients \ {c} : old'[x] = old[x]
      /\ old'[c] # None => proc[old'[c]] \in {"serving", "exiting"}
      /\ pc'[c] = "probe" => old'[c] = None
  BY <1>2, <1>3, StatusIs, DaemonsAre DEF IInv, TypeOK
<1>5. TypeOK'
  BY <1>1, <1>2, <1>4, DaemonsAre DEF IInv, TypeOK, Call, Pending, States, Stages
<1>6. LiveDaemonIsReachable'
  BY <1>1, <1>2, <1>4 DEF IInv, LiveDaemonIsReachable
<1>7. CallsOK'
  BY <1>1, <1>2, <1>4 DEF IInv, CallsOK, Pending
<1>8. JobsOK'
  BY <1>2, JobsStay DEF IInv
<1>9. ClientsOK'
  BY <1>1, <1>2, <1>4 DEF IInv, ClientsOK
<1>10. StoredOK'
  BY <1>1, <1>2, <1>4 DEF IInv, StoredOK
<1>11. RestartsOK'
  BY <1>1, <1>2, <1>4 DEF IInv, TypeOK, RestartsOK, IsStop
<1>12. CapturesOK'
  BY <1>1, <1>2, <1>4 DEF IInv, CapturesOK, Known, Owed
<1> QED BY <1>5, <1>6, <1>7, <1>8, <1>9, <1>10, <1>11, <1>12 DEF IInv

LEMMA SendInv ==
  ASSUME IInv, NEW c \in Clients, Send(c)
  PROVE  IInv'
<1>1. /\ pc[c] = "send" /\ call[c].at = "none" /\ stored[c] # 1
      /\ UNCHANGED <<proc, lock, socket, registry, toRestore, captured, queue, working,
                     depth, stored, op, ws, child, old, pid, crashes>>
  BY DEF IInv, ClientsOK, StoredOK, Send, Client, files, memory
<1>2. /\ pc' \in [Clients -> Stages]
      /\ pc'[c] \in {"reply", "failed"} /\ \A x \in Clients \ {c} : pc'[x] = pc[x]
  BY DEF IInv, TypeOK, Send, Goto, Fail, Stages
<1>3. /\ call' \in [Clients -> Call] /\ \A x \in Clients \ {c} : call'[x] = call[x]
      /\ \/ call'[c] = call[c]
         \/ /\ call'[c].at = "sent" /\ call'[c].to = socket
            /\ socket \in Daemons /\ proc[socket] \in Listening
  <2>1. CASE Connectable
    <3>1. socket \in Daemons /\ proc[socket] \in Listening
      BY <2>1 DEF IInv, TypeOK, Connectable
    <3>2. call' = [call EXCEPT ![c] = [to |-> socket, at |-> "sent", open |-> TRUE, ok |-> FALSE]]
      BY <2>1 DEF Send
    <3> QED BY <3>1, <3>2 DEF IInv, TypeOK, Call, Pending
  <2>2. CASE ~Connectable
    BY <2>2 DEF IInv, TypeOK, Send
  <2> QED BY <2>1, <2>2
<1>4. TypeOK'
  BY <1>1, <1>2, <1>3, DaemonsAre DEF IInv, TypeOK, Call, Pending, States, Stages
<1>5. LiveDaemonIsReachable'
  BY <1>1, <1>2, <1>3 DEF IInv, LiveDaemonIsReachable
<1>6. CallsOK'
  BY <1>1, <1>2, <1>3 DEF IInv, CallsOK, Pending
<1>7. JobsOK'
  <2>1. \A x \in Clients : call'[x].at \in {"sending", "queued", "working"}
                          <=> call[x].at \in {"sending", "queued", "working"}
    BY <1>1, <1>2, <1>3
  <2>2. InHand' = InHand
    BY <2>1, SameJobs
  <2> QED BY <1>1, <1>2, <1>3, <2>2, DaemonsAre DEF IInv, TypeOK, JobsOK
<1>8. ClientsOK'
  BY <1>1, <1>2, <1>3 DEF IInv, ClientsOK
<1>9. StoredOK'
  BY <1>1, <1>2, <1>3 DEF IInv, StoredOK
<1>10. RestartsOK'
  BY <1>1, <1>2, <1>3 DEF IInv, TypeOK, RestartsOK, IsStop
<1>11. CapturesOK'
  BY <1>1, <1>2, <1>3 DEF IInv, CapturesOK, Known, Owed
<1> QED BY <1>4, <1>5, <1>6, <1>7, <1>8, <1>9, <1>10, <1>11 DEF IInv

LEMMA ReadReplyInv ==
  ASSUME IInv, NEW c \in Clients, ReadReply(c)
  PROVE  IInv'
<1>1. /\ pc[c] = "reply" /\ pc' \in [Clients -> Stages]
      /\ pc'[c] \in {"failed", "stopping", "done"} /\ \A x \in Clients \ {c} : pc'[x] = pc[x]
      /\ pc'[c] = "stopping" => op[c] = "restart" /\ call[c].at = "written"
      /\ pc'[c] = "done" => op[c] # "restart" /\ call[c].at = "written" /\ call[c].ok
  BY DEF IInv, TypeOK, ReadReply, Client, Goto, Fail, Stages
<1>2. UNCHANGED <<proc, lock, socket, registry, toRestore, captured, queue, working,
                  depth, stored, op, ws, child, old, pid, call, crashes>>
  BY DEF ReadReply, Client, files, memory
<1>3. TypeOK'
  BY <1>1, <1>2, DaemonsAre DEF IInv, TypeOK, Call, Pending, States, Stages
<1>4. LiveDaemonIsReachable'
  BY <1>1, <1>2 DEF IInv, LiveDaemonIsReachable
<1>5. CallsOK'
  BY <1>1, <1>2 DEF IInv, CallsOK, Pending
<1>6. JobsOK'
  BY <1>2, JobsStay DEF IInv
<1>7. ClientsOK'
  BY <1>1, <1>2 DEF IInv, ClientsOK
<1>8. StoredOK'
  BY <1>1, <1>2 DEF IInv, StoredOK
<1>9. RestartsOK'
  BY <1>1, <1>2 DEF IInv, RestartsOK, IsStop
<1>10. CapturesOK'
  <2>1. \A w \in registry : Owed(w) => Owed(w)' \/ (op[c] = "init" /\ ws[c] = w /\ pc'[c] = "done")
    BY <1>1, <1>2 DEF Owed
  <2> QED BY <1>1, <1>2, <2>1 DEF IInv, CapturesOK, Known
<1> QED BY <1>3, <1>4, <1>5, <1>6, <1>7, <1>8, <1>9, <1>10 DEF IInv

LEMMA WaitStoppedInv ==
  ASSUME IInv, NEW c \in Clients, WaitStopped(c)
  PROVE  IInv'
<1>1. /\ pc[c] = "stopping" /\ pc' \in [Clients -> Stages]
      /\ pc'[c] \in {"probe", "failed"} /\ \A x \in Clients \ {c} : pc'[x] = pc[x]
      /\ pc'[c] = "probe" => ~Connectable
  BY StatusIs DEF IInv, TypeOK, WaitStopped, Client, Goto, Fail, Stages
<1>2. UNCHANGED <<proc, lock, socket, registry, toRestore, captured, queue, working,
                  depth, stored, op, ws, child, old, pid, call, crashes>>
  BY DEF WaitStopped, Client, files, memory
<1>3. pc'[c] = "probe" /\ old[c] # None => proc[old[c]] = "gone"
  <2> SUFFICES ASSUME ~Connectable, old[c] # None, proc[old[c]] # "gone" PROVE FALSE
    BY <1>1
  <2>1. old[c] \in Daemons /\ proc[old[c]] \in Listening
    BY DEF IInv, TypeOK, RestartsOK, Listening
  <2>2. socket = old[c]
    BY <2>1 DEF IInv, LiveDaemonIsReachable
  <2> QED BY <2>1, <2>2, DaemonsAre DEF Connectable
<1>4. TypeOK'
  BY <1>1, <1>2, <1>3, DaemonsAre DEF IInv, TypeOK, Call, Pending, States, Stages
<1>5. LiveDaemonIsReachable'
  BY <1>1, <1>2, <1>3 DEF IInv, LiveDaemonIsReachable
<1>6. CallsOK'
  BY <1>1, <1>2, <1>3 DEF IInv, CallsOK, Pending
<1>7. JobsOK'
  BY <1>2, JobsStay DEF IInv
<1>8. ClientsOK'
  BY <1>1, <1>2, <1>3 DEF IInv, ClientsOK
<1>9. StoredOK'
  BY <1>1, <1>2, <1>3 DEF IInv, StoredOK
<1>10. RestartsOK'
  BY <1>1, <1>2, <1>3 DEF IInv, RestartsOK, IsStop
<1>11. CapturesOK'
  BY <1>1, <1>2, <1>3 DEF IInv, CapturesOK, Known, Owed
<1> QED BY <1>4, <1>5, <1>6, <1>7, <1>8, <1>9, <1>10, <1>11 DEF IInv

LEMMA GiveUpInv ==
  ASSUME IInv, NEW c \in Clients, GiveUp(c)
  PROVE  IInv'
<1>1. /\ pc[c] \in {"reply", "await", "stopping"}
      /\ UNCHANGED <<proc, lock, socket, registry, toRestore, captured, queue, working,
                     depth, stored, op, ws, child, old, pid, crashes>>
  BY DEF GiveUp, StopTimeout, StartDeadline, StopDeadline, Client, files, memory
<1>2. /\ pc' \in [Clients -> Stages]
      /\ pc'[c] = "failed" /\ \A x \in Clients \ {c} : pc'[x] = pc[x]
  BY DEF IInv, TypeOK, GiveUp, StopTimeout, StartDeadline, StopDeadline, Goto, Fail, Stages
<1>3. /\ call' \in [Clients -> Call]
      /\ \A x \in Clients : /\ call'[x].at = call[x].at /\ call'[x].to = call[x].to
                            /\ call'[x].ok = call[x].ok
  <2>1. CASE StopTimeout(c)
    BY <2>1 DEF IInv, TypeOK, StopTimeout, Call, Pending
  <2>2. CASE StartDeadline(c) \/ StopDeadline(c)
    BY <2>2 DEF IInv, TypeOK, StartDeadline, StopDeadline
  <2> QED BY <2>1, <2>2 DEF GiveUp
<1>4. TypeOK'
  BY <1>1, <1>2, <1>3, DaemonsAre DEF IInv, TypeOK, Call, Pending, States, Stages
<1>5. LiveDaemonIsReachable'
  BY <1>1, <1>2, <1>3 DEF IInv, LiveDaemonIsReachable
<1>6. CallsOK'
  BY <1>1, <1>2, <1>3 DEF IInv, CallsOK, Pending
<1>7. JobsOK'
  <2>1. \A x \in Clients : call'[x].at \in {"sending", "queued", "working"}
                          <=> call[x].at \in {"sending", "queued", "working"}
    BY <1>1, <1>2, <1>3
  <2>2. InHand' = InHand
    BY <2>1, SameJobs
  <2> QED BY <1>1, <1>2, <1>3, <2>2, DaemonsAre DEF IInv, TypeOK, JobsOK
<1>8. ClientsOK'
  BY <1>1, <1>2, <1>3 DEF IInv, ClientsOK
<1>9. StoredOK'
  BY <1>1, <1>2, <1>3 DEF IInv, StoredOK
<1>10. RestartsOK'
  BY <1>1, <1>2, <1>3 DEF IInv, TypeOK, RestartsOK, IsStop
<1>11. CapturesOK'
  BY <1>1, <1>2, <1>3 DEF IInv, CapturesOK, Known, Owed
<1> QED BY <1>4, <1>5, <1>6, <1>7, <1>8, <1>9, <1>10, <1>11 DEF IInv

LEMMA UnchangedInv ==
  ASSUME IInv, UNCHANGED vars
  PROVE  IInv'
<1>1. UNCHANGED <<proc, lock, socket, registry, toRestore, captured, queue, working,
                  depth, stored, pc, op, ws, child, old, pid, call, crashes>>
  BY DEF vars, files, memory, clients
<1>2. TypeOK'
  BY <1>1, DaemonsAre DEF IInv, TypeOK, Call, Pending, States, Stages
<1>3. LiveDaemonIsReachable'
  BY <1>1 DEF IInv, LiveDaemonIsReachable
<1>4. CallsOK'
  BY <1>1 DEF IInv, CallsOK, Pending
<1>5. JobsOK'
  BY <1>1, JobsStay DEF IInv
<1>6. ClientsOK'
  BY <1>1 DEF IInv, ClientsOK
<1>7. StoredOK'
  BY <1>1 DEF IInv, StoredOK
<1>8. RestartsOK'
  BY <1>1 DEF IInv, RestartsOK, IsStop
<1>9. CapturesOK'
  BY <1>1 DEF IInv, CapturesOK, Known, Owed
<1> QED BY <1>2, <1>3, <1>4, <1>5, <1>6, <1>7, <1>8, <1>9 DEF IInv

-----------------------------------------------------------------------------
(* The theorems. *)

\* Every step keeps the invariant.
LEMMA NextInv == IInv /\ [Next]_vars => IInv'
<1> SUFFICES ASSUME IInv, [Next]_vars PROVE IInv'
  OBVIOUS
<1>1. crashes \in 0..MaxCrashes /\ MaxCrashes \in Nat
  BY DaemonsAre DEF IInv, TypeOK
<1>2. ASSUME NEW d \in Daemons, DaemonStep(d) PROVE IInv'
  <2>1. CASE TakeLock(d)
    BY <2>1, TakeLockInv
  <2>2. CASE LockTaken(d)
    BY <1>1, <2>2, DieInv DEF LockTaken
  <2>3. CASE Clean(d)
    BY <2>3, CleanInv
  <2>4. CASE \E w \in Workspaces : Restore(d, w)
    BY <2>4, RestoreInv
  <2>5. CASE Bind(d)
    <3>1. CASE socket = None
      BY <2>5, <3>1, BoundInv
    <3>2. CASE socket # None
      <4>1. Die(d) /\ proc[d] = "restoring" /\ UNCHANGED crashes
        BY <2>5, <3>2 DEF Bind
      <4> QED BY <1>1, <4>1, DieInv DEF Running
    <3> QED BY <3>1, <3>2
  <2>6. CASE Serve(d)
    BY <2>6, ServeInv
  <2>7. CASE Exit(d)
    BY <1>1, <2>7, DieInv DEF Exit, Running, Listening
  <2> QED BY <1>2, <2>1, <2>2, <2>3, <2>4, <2>5, <2>6, <2>7 DEF DaemonStep
<1>3. ASSUME NEW d \in Daemons, Crash(d) PROVE IInv'
  <2>1. Die(d) /\ proc[d] \in Running
    BY <1>3 DEF Crash
  <2>2. crashes' \in 0..MaxCrashes
    BY <1>1, <1>3 DEF Crash
  <2> QED BY <2>1, <2>2, DieInv
<1>4. ASSUME NEW c \in Clients, HandlerStep(c) PROVE IInv'
  BY <1>4, HandleCaptureInv, RunJobInv, SendJobInv, WriteReplyInv DEF HandlerStep
<1>5. ASSUME NEW c \in Clients, ClientStep(c) PROVE IInv'
  BY <1>5, EnsureRunningInv, StartBackgroundInv, PollStartInv, CheckRunningInv, SendInv,
     ReadReplyInv, WaitStoppedInv DEF ClientStep
<1>6. ASSUME WorkerStep PROVE IInv'
  BY <1>6, TakeJobInv, WorkJobInv DEF WorkerStep
<1>7. ASSUME Next PROVE IInv'
  BY <1>2, <1>3, <1>4, <1>5, <1>6, <1>7, BeginInv, GiveUpInv DEF Next
<1> QED BY <1>7, UnchangedInv

LEMMA Invariant == Spec => []IInv
BY InitInv, NextInv, PTL DEF Spec

\* Every variable of the daemon and of its commands has its type.
THEOREM TypeCorrect == Spec => []TypeOK
<1>1. IInv => TypeOK
  BY DEF IInv
<1> QED BY <1>1, Invariant, PTL

\* A daemon that runs has the lock, and one that listens is the one behind
\* the socket (daemon/server.rs): the locked pid file makes this so, however
\* many commands start daemons and however often one is killed.
THEOREM Reachable == Spec => []LiveDaemonIsReachable
<1>1. IInv => LiveDaemonIsReachable
  BY DEF IInv
<1> QED BY <1>1, Invariant, PTL

\* queue_depth counts the jobs that are not done (daemon/worker.rs).
THEOREM DepthRight == Spec => []DepthIsRight
<1>1. IInv => DepthIsRight
  BY DEF IInv, JobsOK, InHand, DepthIsRight
<1> QED BY <1>1, Invariant, PTL

\* A hook that is told so was ingested, and none is twice (daemon/client.rs,
\* daemon/worker.rs).
THEOREM RepliesAreTrue == Spec => []RepliedHooksAreStored
<1>1. IInv => RepliedHooksAreStored
  BY DEF IInv, ClientsOK, StoredOK, RepliedHooksAreStored
<1> QED BY <1>1, Invariant, PTL

\* A daemon that accepts requests captures what is registered, or an init
\* still has to ask it to (daemon/startup.rs, shell/init.rs).
THEOREM CapturesAreKept == Spec => []RegisteredAreCaptured
<1>1. IInv => RegisteredAreCaptured
  BY DEF IInv, CapturesOK, Known, Owed, Listening, RegisteredAreCaptured
<1> QED BY <1>1, Invariant, PTL

\* A restart that succeeds has replaced the daemon it found, and a stop has
\* stopped the one it asked (daemon/lifecycle.rs).
THEOREM RestartsReplace == Spec => []RestartReplaces
<1>1. IInv => RestartReplaces
  BY DEF IInv, RestartsOK, ClientsOK, IsStop, RestartReplaces
<1> QED BY <1>1, Invariant, PTL

=============================================================================
