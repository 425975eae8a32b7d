------------------------------- MODULE Daemon -------------------------------
(***************************************************************************)
(* The daemon (daemon/server.rs, daemon/worker.rs), the commands that start, *)
(* stop and restart it (daemon/lifecycle.rs, daemon/background.rs), and the *)
(* requests that hooks and `kaizen init` send it (daemon/client.rs).  Any  *)
(* number of commands and daemon processes race for one pid file and one   *)
(* socket; a daemon may be killed at any time.                             *)
(*                                                                         *)
(* A status request is one step: the answer is that of the moment.  What   *)
(* the capture of a workspace consists of is in module Supervisor.         *)
(***************************************************************************)
EXTENDS Integers, Sequences, FiniteSets

CONSTANTS
  MaxDaemons,   \* bound: daemon processes ever spawned
  Clients,      \* command and hook processes, each for one command
  Workspaces,
  Registered,   \* workspaces in the machine registry at first
  QueueMax,     \* capacity of the job channel (128)
  MaxCrashes,   \* bound: daemons killed or failing to start
  None

Ops == {"start", "restart", "stop", "ingest", "init"}

ASSUME DaemonAssumption ==
  /\ None \notin Nat \cup Clients \cup Workspaces \cup Ops
  /\ MaxDaemons \in Nat
  /\ Registered \subseteq Workspaces
  /\ QueueMax \in Nat \ {0} /\ MaxCrashes \in Nat

VARIABLES
  proc,      \* proc[d]: how far daemon d has come
  lock,      \* the daemon that holds the lock on daemon.pid
  socket,    \* the daemon that bound daemon.sock; it may be dead
  registry,  \* workspaces in the machine registry
  toRestore, \* workspaces the starting daemon still has to restore
  captured,  \* workspaces with a capture, in the lock holder's memory
  queue,     \* the job channel, by the client that waits
  working,   \* the job the worker thread is at
  depth,     \* queue_depth
  stored,    \* stored[c]: how often the hook of client c was ingested
  pc,        \* pc[c]: what client c does next
  op,        \* op[c]: its command
  ws,        \* ws[c]: its workspace
  child,     \* child[c]: the daemon it spawned
  old,       \* old[c]: the daemon that a restart is to replace
  pid,       \* pid[c]: the daemon a start or restart reports
  call,      \* call[c]: its request
  crashes

files   == <<lock, socket, registry>>
memory  == <<toRestore, captured, queue, working, depth>>
clients == <<op, ws, child, old, pid>>
vars == <<proc, files, memory, stored, pc, clients, call, crashes>>

\* Processes by the order in which they are spawned.
Daemons == 1..MaxDaemons

Listening == {"bound", "serving", "exiting"}
Running   == {"locked", "restoring"} \cup Listening

NoCall == [to |-> None, at |-> "none", open |-> FALSE, ok |-> FALSE]

\* Stages of a request; in these the daemon has still to answer.
Pending == {"sent", "sending", "queued", "working", "replied"}
Call == [to : Daemons \cup {None}, open : BOOLEAN, ok : BOOLEAN,
         at : Pending \cup {"none", "written", "dropped", "eof"}]

Init ==
  /\ \/ /\ proc = [d \in Daemons |-> "absent"]
        /\ lock = None /\ socket = None /\ captured = {}
     \/ /\ 1 \in Daemons
        /\ proc = [d \in Daemons |-> IF d = 1 THEN "serving" ELSE "absent"]
        /\ lock = 1 /\ socket = 1 /\ captured = Registered
  /\ registry = Registered /\ toRestore = {}
  /\ queue = <<>> /\ working = None /\ depth = 0
  /\ stored = [c \in Clients |-> 0]
  /\ pc = [c \in Clients |-> "idle"]
  /\ op = [c \in Clients |-> None]
  /\ ws = [c \in Clients |-> None]
  /\ child = [c \in Clients |-> None]
  /\ old = [c \in Clients |-> None]
  /\ pid = [c \in Clients |-> None]
  /\ call = [c \in Clients |-> NoCall]
  /\ crashes = 0

-----------------------------------------------------------------------------
(***************************************************************************)
(* The daemon process.                                                     *)
(***************************************************************************)

Move(d, from, to) == proc[d] = from /\ proc' = [proc EXCEPT ![d] = to]

\* The process of d ends: its lock is released, its memory and every request
\* it has not answered are gone, the socket file stays.
Die(d) ==
  /\ proc' = [proc EXCEPT ![d] = "gone"]
  /\ call' = [c \in Clients |-> IF call[c].to = d /\ call[c].at \in Pending
                                THEN [call[c] EXCEPT !.at = "eof"] ELSE call[c]]
  /\ IF lock = d
       THEN /\ lock' = None /\ toRestore' = {} /\ captured' = {}
            /\ queue' = <<>> /\ working' = None /\ depth' = 0
       ELSE UNCHANGED <<lock, memory>>
  /\ UNCHANGED <<socket, registry, stored, pc, clients>>

TakeLock_Always(d) ==
  /\ Move(d, "spawned", "locked")
  /\ lock' = d
  /\ UNCHANGED <<socket, registry, memory, stored, pc, clients, call, crashes>>

TakeLock(d) ==
  /\ lock = None
  /\ Move(d, "spawned", "locked")
  /\ lock' = d
  /\ UNCHANGED <<socket, registry, memory, stored, pc, clients, call, crashes>>

\* Another daemon holds the lock: "daemon already running".
LockTaken(d) ==
  /\ lock # None /\ proc[d] = "spawned"
  /\ Die(d)
  /\ UNCHANGED crashes

\* remove_stale_socket, then the registry is listed.
Clean(d) ==
  /\ Move(d, "locked", "restoring")
  /\ socket' = None
  /\ toRestore' = registry
  /\ UNCHANGED <<lock, registry, captured, queue, working, depth, stored, pc,
                 clients, call, crashes>>

Restore(d, w) ==
  /\ proc[d] = "restoring" /\ w \in toRestore
  /\ captured' = captured \cup {w}
  /\ toRestore' = toRestore \ {w}
  /\ UNCHANGED <<proc, files, queue, working, depth, stored, pc, clients, call,
                 crashes>>

Restored_StopsEarly == Cardinality(toRestore) <= 1

\* restore_registered has returned.
Restored == toRestore = {}

\* Binding fails, and the daemon with it, when the socket file exists.
Bind(d) ==
  /\ Restored
  /\ proc[d] = "restoring"
  /\ IF socket = None
       THEN /\ Move(d, "restoring", "bound")
            /\ socket' = d
            /\ UNCHANGED <<lock, registry, memory, stored, pc, clients, call>>
       ELSE Die(d)
  /\ UNCHANGED crashes

\* The web server and the worker run; the daemon begins to accept.
Serve(d) ==
  /\ Move(d, "bound", "serving")
  /\ UNCHANGED <<files, memory, stored, pc, clients, call, crashes>>

Exit(d) ==
  /\ proc[d] = "exiting"
  /\ Die(d)
  /\ UNCHANGED crashes

\* A daemon is killed, or a step of its start fails.
Crash(d) ==
  /\ proc[d] \in Running /\ crashes < MaxCrashes
  /\ crashes' = crashes + 1
  /\ Die(d)

-----------------------------------------------------------------------------
(***************************************************************************)
(* Requests in the daemon.                                                 *)
(***************************************************************************)

At(c, from, to) ==
  call[c].at = from /\ call' = [call EXCEPT ![c].at = to]

Serving(d) == d # None /\ proc[d] \in {"serving", "exiting"}

\* A handler task captures a workspace itself; the rest are jobs, counted
\* before they are sent to the channel.
HandleCapture(c) ==
  /\ op[c] = "init" /\ Serving(call[c].to) /\ call[c].at = "sent"
  /\ call' = [call EXCEPT ![c].at = "replied", ![c].ok = TRUE]
  /\ captured' = captured \cup {ws[c]}
  /\ UNCHANGED <<proc, files, toRestore, queue, working, depth, stored, pc,
                 clients, crashes>>

RunJob_CountsLate(c) ==
  /\ op[c] # "init" /\ Serving(call[c].to)
  /\ At(c, "sent", "sending")
  /\ UNCHANGED <<proc, files, memory, stored, pc, clients, crashes>>

RunJob(c) ==
  /\ op[c] # "init" /\ Serving(call[c].to)
  /\ At(c, "sent", "sending")
  /\ depth' = depth + 1
  /\ UNCHANGED <<proc, files, toRestore, captured, queue, working, stored, pc,
                 clients, crashes>>

\* The channel is full: the task waits in send.
SendJob(c) ==
  /\ Len(queue) < QueueMax
  /\ At(c, "sending", "queued")
  /\ queue' = Append(queue, c)
  /\ UNCHANGED <<proc, files, toRestore, captured, working, depth, stored, pc,
                 clients, crashes>>

TakeJob ==
  /\ working = None /\ queue # <<>>
  /\ working' = Head(queue) /\ queue' = Tail(queue)
  /\ At(Head(queue), "queued", "working")
  /\ UNCHANGED <<proc, files, toRestore, captured, depth, stored, pc, clients,
                 crashes>>

\* A job fails when its store cannot be opened or written.
WorkJob_AcksFailures ==
  /\ working # None
  /\ working' = None /\ depth' = depth - 1
  /\ \E ok \in {TRUE} \cup (IF op[working] = "stop" THEN {} ELSE {FALSE}) :
       /\ call' = [call EXCEPT ![working].at = "replied", ![working].ok = TRUE]
       /\ stored' = [stored EXCEPT ![working] =
                       @ + (IF ok /\ op[working] = "ingest" THEN 1 ELSE 0)]
  /\ UNCHANGED <<proc, files, toRestore, captured, queue, pc, clients, crashes>>

WorkJob ==
  /\ working # None
  /\ working' = None /\ depth' = depth - 1
  /\ \E ok \in IF op[working] = "ingest" THEN BOOLEAN ELSE {TRUE} :
       /\ call' = [call EXCEPT ![working].at = "replied", ![working].ok = ok]
       /\ stored' = [stored EXCEPT ![working] =
                       @ + (IF ok /\ op[working] = "ingest" THEN 1 ELSE 0)]
  /\ UNCHANGED <<proc, files, toRestore, captured, queue, pc, clients, crashes>>

IsStop(c) == op[c] \in {"stop", "restart"}

\* The write fails when the client has given up; a stop then stops nothing.
WriteReply_StopsNever(c) ==
  /\ call[c].at = "replied"
  /\ call' = [call EXCEPT ![c].at = IF call[c].open THEN "written" ELSE "dropped"]
  /\ UNCHANGED <<proc, files, memory, stored, pc, clients, crashes>>

WriteReply(c) ==
  /\ call[c].at = "replied"
  /\ call' = [call EXCEPT ![c].at = IF call[c].open THEN "written" ELSE "dropped"]
  /\ proc' = IF call[c].open /\ IsStop(c)
               THEN [proc EXCEPT ![call[c].to] = "exiting"] ELSE proc
  /\ UNCHANGED <<files, memory, stored, pc, clients, crashes>>

-----------------------------------------------------------------------------
(***************************************************************************)
(* Commands and hooks.                                                     *)
(***************************************************************************)

Connectable == socket # None /\ proc[socket] \in Listening

(***************************************************************************)
(* What a status request may return.  A daemon that listens and does not   *)
(* accept yet lets it time out, and so may a busy one; a refused connection *)
(* or one cut off counts as stopped.                                         *)
(***************************************************************************)
Stopped  == 0
TimedOut == -1

Status ==
  IF ~Connectable THEN {Stopped}
  ELSE {TimedOut} \cup (IF Serving(socket) THEN {socket} ELSE {})

Client(c, from) == pc[c] = from /\ UNCHANGED <<files, memory, stored, op, ws, crashes>>

Goto(c, to) == pc' = [pc EXCEPT ![c] = to]

Fail(c) == Goto(c, "failed")

\* A command begins; `kaizen init` has its workspace registered by then.
Begin(c) ==
  /\ pc[c] = "idle"
  /\ \E o \in Ops : \E w \in IF o = "init" THEN Workspaces ELSE {None} :
       /\ op' = [op EXCEPT ![c] = o] /\ ws' = [ws EXCEPT ![c] = w]
       /\ registry' = IF o = "init" THEN registry \cup {w} ELSE registry
       /\ Goto(c, CASE o = "start" -> "probe" [] o = "restart" -> "check"
                    [] o = "stop" -> "send" [] OTHER -> "ensure")
  /\ UNCHANGED <<proc, lock, socket, memory, stored, child, old, pid, call, crashes>>

\* ensure_running: any failure of the status request leads to a start.
EnsureRunning(c) ==
  /\ Client(c, "ensure")
  /\ \E status \in Status :
       Goto(c, IF status \in {Stopped, TimedOut} THEN "probe" ELSE "send")
  /\ UNCHANGED <<proc, child, old, pid, call>>

\* A daemon answers: `start` and `restart` report it, requests go on.
Ready(c, d) ==
  /\ pid' = [pid EXCEPT ![c] = d]
  /\ Goto(c, IF op[c] \in {"start", "restart"} THEN "done" ELSE "send")

StartBackground(c) ==
  /\ Client(c, "probe")
  /\ \E status \in Status :
       \/ status = TimedOut /\ Fail(c) /\ UNCHANGED <<proc, child, pid>>
       \/ status \in Daemons /\ Ready(c, status) /\ UNCHANGED <<proc, child>>
       \/ /\ status = Stopped
          /\ \E d \in Daemons : /\ \A e \in 1..(d - 1) : proc[e] # "absent"
                                /\ Move(d, "absent", "spawned")
                                /\ child' = [child EXCEPT ![c] = d]
          /\ Goto(c, "await") /\ UNCHANGED pid
  /\ UNCHANGED <<old, call>>

PollStart_OnlyAsks(c) ==
  /\ Client(c, "await")
  /\ \E status \in Status \ {Stopped} :
       IF status = TimedOut THEN Fail(c) /\ UNCHANGED pid ELSE Ready(c, status)
  /\ UNCHANGED <<proc, child, old, call>>

\* poll_start: the child is looked at first, whoever else may answer.
PollStart(c) ==
  /\ Client(c, "await")
  /\ \/ proc[child[c]] = "gone" /\ Fail(c) /\ UNCHANGED pid
     \/ /\ proc[child[c]] # "gone"
        /\ \E status \in Status \ {Stopped} :
             IF status = TimedOut THEN Fail(c) /\ UNCHANGED pid ELSE Ready(c, status)
  /\ UNCHANGED <<proc, child, old, call>>

\* restart_background: is there a daemon to stop?
CheckRunning(c) ==
  /\ Client(c, "check")
  /\ \E status \in Status :
       /\ Goto(c, CASE status = Stopped -> "probe" [] status = TimedOut -> "failed"
                    [] OTHER -> "send")
       /\ old' = IF status \in Daemons THEN [old EXCEPT ![c] = status] ELSE old
  /\ UNCHANGED <<proc, child, pid, call>>

Send(c) ==
  /\ Client(c, "send")
  /\ IF Connectable
       THEN /\ call' = [call EXCEPT ![c] =
                          [to |-> socket, at |-> "sent", open |-> TRUE, ok |-> FALSE]]
            /\ Goto(c, "reply")
       ELSE Fail(c) /\ UNCHANGED call
  /\ UNCHANGED <<proc, child, old, pid>>

ReadReply(c) ==
  /\ Client(c, "reply")
  /\ \/ call[c].at = "eof" /\ Fail(c)
     \/ call[c].at = "written"
        /\ Goto(c, CASE ~call[c].ok -> "failed" [] op[c] = "restart" -> "stopping"
                     [] OTHER -> "done")
  /\ UNCHANGED <<proc, child, old, pid, call>>

\* wait_until_stopped.
WaitStopped_AckIsEnough(c) ==
  /\ Client(c, "stopping")
  /\ Goto(c, "probe")
  /\ UNCHANGED <<proc, child, old, pid, call>>

WaitStopped(c) ==
  /\ Client(c, "stopping")
  /\ \/ Stopped \in Status /\ Goto(c, "probe")
     \/ TimedOut \in Status /\ Fail(c)
  /\ UNCHANGED <<proc, child, old, pid, call>>

\* Status and stop requests end after half a second, the wait for a start
\* after thirty seconds, that for a stop after two.
StopTimeout(c) ==
  /\ Client(c, "reply")
  /\ IsStop(c)
  /\ call' = [call EXCEPT ![c].open = FALSE]
  /\ Fail(c)
  /\ UNCHANGED <<proc, child, old, pid>>

StartDeadline(c) ==
  /\ Client(c, "await")
  /\ Fail(c)
  /\ UNCHANGED <<proc, child, old, pid, call>>

StopDeadline(c) ==
  /\ Client(c, "stopping")
  /\ Fail(c)
  /\ UNCHANGED <<proc, child, old, pid, call>>

-----------------------------------------------------------------------------

DaemonStep(d) ==
  \/ TakeLock(d) \/ LockTaken(d) \/ Clean(d)
  \/ \E w \in Workspaces : Restore(d, w)
  \/ Bind(d) \/ Serve(d) \/ Exit(d)

HandlerStep(c) == HandleCapture(c) \/ RunJob(c) \/ SendJob(c) \/ WriteReply(c)

WorkerStep == TakeJob \/ WorkJob

ClientStep(c) ==
  \/ EnsureRunning(c) \/ StartBackground(c) \/ PollStart(c) \/ CheckRunning(c)
  \/ Send(c) \/ ReadReply(c) \/ WaitStopped(c)

GiveUp(c) == StopTimeout(c) \/ StartDeadline(c) \/ StopDeadline(c)

Next ==
  \/ \E d \in Daemons : DaemonStep(d) \/ Crash(d)
  \/ \E c \in Clients : Begin(c) \/ HandlerStep(c) \/ ClientStep(c) \/ GiveUp(c)
  \/ WorkerStep

Spec == Init /\ [][Next]_vars

(***************************************************************************)
(* The tasks and the worker of a live daemon run, and so do commands.  Of  *)
(* the deadlines only that of wait_until_stopped is needed: a second daemon *)
(* may answer there.                                                       *)
(***************************************************************************)
FairSpec ==
  /\ Spec
  /\ \A d \in Daemons : WF_vars(DaemonStep(d))
  /\ \A c \in Clients : WF_vars(HandlerStep(c)) /\ WF_vars(ClientStep(c))
  /\ \A c \in Clients : WF_vars(StopDeadline(c))
  /\ WF_vars(WorkerStep)

-----------------------------------------------------------------------------

TypeOK ==
  /\ proc \in [Daemons -> {"absent", "spawned", "gone"} \cup Running]
  /\ lock \in Daemons \cup {None} /\ socket \in Daemons \cup {None}
  /\ registry \subseteq Workspaces
  /\ toRestore \subseteq Workspaces /\ captured \subseteq Workspaces
  /\ queue \in Seq(Clients) /\ working \in Clients \cup {None} /\ depth \in Nat
  /\ stored \in [Clients -> 0..1]
  /\ pc \in [Clients -> {"idle", "ensure", "probe", "await", "check", "send",
                         "reply", "stopping", "done", "failed"}]
  /\ op \in [Clients -> Ops \cup {None}] /\ ws \in [Clients -> Workspaces \cup {None}]
  /\ child \in [Clients -> Daemons \cup {None}]
  /\ old \in [Clients -> Daemons \cup {None}]
  /\ pid \in [Clients -> Daemons \cup {None}]
  /\ call \in [Clients -> Call]
  /\ crashes \in 0..MaxCrashes

(***************************************************************************)
(* A daemon that runs holds the lock, so there is one, and nobody removes  *)
(* or replaces the socket it listens on (the order of lock_pid,            *)
(* remove_stale_socket and bind_listener).                                 *)
(***************************************************************************)
LiveDaemonIsReachable ==
  \A d \in Daemons :
    /\ proc[d] \in Running => lock = d
    /\ proc[d] \in Listening => socket = d

(***************************************************************************)
(* queue_depth counts the requests that wait for the channel, in it or with *)
(* the worker: it is bumped before a send that may block, and never wraps. *)
(***************************************************************************)
DepthIsRight ==
  depth = Cardinality({c \in Clients : call[c].at \in {"sending", "queued", "working"}})

(***************************************************************************)
(* A hook that is told "ingested" was ingested, once, and a hook that was  *)
(* ingested though its process failed had sent it (worker.rs, IngestHook). *)
(***************************************************************************)
RepliedHooksAreStored ==
  \A c \in Clients :
    /\ pc[c] = "done" /\ op[c] = "ingest" => stored[c] = 1
    /\ stored[c] = 1 => op[c] = "ingest" /\ call[c].to # None

(***************************************************************************)
(* A daemon that accepts requests captures every registered workspace,     *)
(* except one whose `kaizen init` is under way or has failed to reach it   *)
(* (startup.rs; docs/daemon.md: "restores basic capture for every existing *)
(* registered workspace").                                                 *)
(***************************************************************************)
RegisteredAreCaptured ==
  \A w \in registry :
    (\E d \in Daemons : proc[d] \in {"bound", "serving"}) =>
      \/ w \in captured
      \/ \E c \in Clients : op[c] = "init" /\ ws[c] = w /\ pc[c] # "done"

(***************************************************************************)
(* A restart that succeeds reports a daemon that was not running when it   *)
(* looked first, and that one is gone; a stop that succeeds has stopped    *)
(* its daemon (restart_background, handle_client).                         *)
(***************************************************************************)
RestartReplaces ==
  \A c \in Clients :
    pc[c] = "done" =>
      /\ op[c] = "restart" /\ old[c] # None => proc[old[c]] = "gone" /\ pid[c] # old[c]
      /\ op[c] = "stop" => proc[call[c].to] \in {"exiting", "gone"}

(***************************************************************************)
(* Every command ends: none waits for ever on a daemon that died, on a     *)
(* full channel or on a start that lost the race.                          *)
(***************************************************************************)
CommandsEnd ==
  \A c \in Clients : pc[c] # "idle" ~> pc[c] \in {"done", "failed"}

=============================================================================
