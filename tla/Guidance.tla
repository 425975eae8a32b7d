-------------------------------- MODULE Guidance --------------------------------
(***************************************************************************)
(* What kaizen makes of the skills and rules of a workspace: the index of  *)
(* the events that name them, the judgements of sessions (evals, feedback, *)
(* measured outcomes), the usage report, the score with its train and      *)
(* validation split, and the candidates that guidance propose stores.      *)
(* Costs are 1 an event, an eval is 0 or 1, scores are whole points.       *)
(***************************************************************************)
EXTENDS Naturals, Sequences, FiniteSets, FiniteSetsExt, SequencesExt, TLC

CONSTANTS
  Commands,       \* processes that run kaizen commands
  Sessions,
  Artifacts,      \* skills and rules, by their slug
  Traces,         \* bound: what the sessions may hold at first
  Runs,           \* bound: how the test and lint commands of a workspace may end
  Answers,        \* bound: what a model may propose
  Lookback,       \* the window of a command, in steps of the clock
  MinSessions,    \* sessions that make an artifact current
  RejectedLimit,  \* rejections that a proposal looks at
  BatchSize,      \* sessions that one eval run takes
  MinCost,        \* what a session must have cost for an eval run to take it
  MaxTime, MaxWrites, MaxCandidates,  \* bounds
  None

VARIABLES
  now,
  sessions,    \* id -> start and events, each with its time, tool and what it names
  used,        \* skills_used and rules_used
  disk,        \* what lies in .cursor/skills and .cursor/rules
  evals, bad,  \* judgements of a model, sessions with bad feedback
  outcomes,    \* id -> counts of failures
  candidates,
  writes,      \* of sessions, artifacts and judgements
  work         \* what each command does

vars == <<now, sessions, used, disk, evals, bad, outcomes, candidates, writes, work>>
stored == <<now, sessions, used, disk>>
judged == <<evals, bad, outcomes>>

Ceiling == 1  \* event times below it are positions, not times

Sub(a, b) == IF a > b THEN a - b ELSE 0

(***************************************************************************)
(* Windows.                                                                *)
(***************************************************************************)
Window == [from |-> Sub(now, Lookback), to |-> now]

Within(t, w) == w.from <= t /\ t <= w.to

EventsInWindow(s, w) ==
  {i \in DOMAIN sessions[s].events :
     LET at == sessions[s].events[i].at IN
     Within(at, w) \/ (at < Ceiling /\ Within(sessions[s].started, w))}

ActiveInWindow(w) == {s \in DOMAIN sessions : EventsInWindow(s, w) # {}}

UsedInWindow_EverUsed(w) == {u \in used : u[1] \in DOMAIN sessions}

UsedInWindow(w) == {u \in used : u[1] \in ActiveInWindow(w)}

SessionCosts(w) == [s \in ActiveInWindow(w) |-> Cardinality(EventsInWindow(s, w))]

SessionsUsing(uses, a) == {u[1] : u \in {u \in uses : u[2] = a}}

\* Calls of one tool twice in a row, in the order of their times.
ToolLoops(s, w) ==
  LET es == sessions[s].events
      calls == {i \in EventsInWindow(s, w) : es[i].tool # None}
      order == SetToSortSeq(calls, LAMBDA i, j : es[i].at < es[j].at \/ (es[i].at = es[j].at /\ i < j))
  IN Cardinality({k \in 2..Len(order) : es[order[k]].tool = es[order[k - 1]].tool})

(***************************************************************************)
(* The score of an artifact from what its sessions came to.                *)
(***************************************************************************)
EvalPenalty(ids, i) ==
  LET mine == ids \cap DOMAIN i.evals
      low == {s \in mine : i.evals[s] = 0}
  IN IF mine = {} THEN 12 ELSE (35 * Cardinality(low)) \div Cardinality(mine)

Score(ids, i) ==
  LET faults == Cardinality(ids \cap i.bad) + Cardinality(ids \cap i.failed)
      loops == FoldSet(LAMBDA s, n : n + i.loops[s], 0, ids \cap DOMAIN i.loops)
  IN IF ids = {} THEN 0
     ELSE Sub(100, EvalPenalty(ids, i) + 6 * Min({10, faults}) + Min({20, loops}))

Slice(ids, i) == [sessions |-> Cardinality(ids), score |-> Score(ids, i)]

ValidationStart(w) == w.from + ((w.to - w.from) * 7) \div 10

StartOf(s, i) == IF s \in DOMAIN i.started THEN i.started[s] ELSE 0

TrainIds_Late(ids, i, start) == {s \in ids : StartOf(s, i) <= start}

TrainIds(ids, i, start) == {s \in ids : StartOf(s, i) < start}

State(n) ==
  CASE n = 0           -> "stale"
    [] n >= MinSessions -> "current"
    [] OTHER           -> "insufficient"

ValidationGate(train, validation) ==
  CASE train.sessions + validation.sessions = 0 -> "no_data"
    [] train.sessions = 0 \/ validation.sessions < Max({1, MinSessions \div 3}) -> "needs_more_validation"
    [] validation.score + 10 < train.score -> "regression"
    [] OTHER -> "stable"

ScoreRow(a, i, w) ==
  LET ids == SessionsUsing(i.used, a)
      early == TrainIds(ids, i, ValidationStart(w))
      train == Slice(early, i)
      validation == Slice(ids \ early, i)
  IN [artifact |-> a, state |-> State(Cardinality(ids)), total |-> Slice(ids, i), train |-> train,
      validation |-> validation, gate |-> ValidationGate(train, validation)]

(***************************************************************************)
(* What a workspace's test and lint commands came to.                      *)
(***************************************************************************)
\* The output is read once the command has ended: one that fills the pipe hangs.
ShellOutput(run) ==
  LET timed_out == ~run.ends \/ ~run.fits IN
  [timed_out |-> timed_out, failed |-> timed_out \/ run.fails, summary |-> run.summary, errors |-> run.errors]

RunOutcomeMeasure(test, lint) ==
  LET t == ShellOutput(test)
      l == ShellOutput(lint)
      linted == lint # None
  IN [failed |-> t.summary,
      lint |-> IF linted THEN l.errors ELSE None,
      error |-> t.timed_out \/ (t.failed /\ t.summary = None) \/ (linted /\ l.failed)]

OutcomeFailed(o) == o.failed \notin {None, 0} \/ o.lint \notin {None, 0}

(***************************************************************************)
(* The workspace at work.                                                  *)
(***************************************************************************)
Idle == [at |-> "idle", raced |-> FALSE]

Busy(p, at) == work[p].at = at

Do(p, w) == work' = [work EXCEPT ![p] = w]

\* One more write, which commands under way see or not.
Write ==
  /\ writes < MaxWrites /\ writes' = writes + 1
  /\ work' = [p \in Commands |-> [work[p] EXCEPT !.raced = work[p].at # "idle"]]

Init ==
  /\ now = 1
  /\ sessions \in Traces
  /\ used = UNION {{s} \X UNION {e.names : e \in ToSet(sessions[s].events)} : s \in DOMAIN sessions}
  /\ disk \in {Artifacts, {}}
  /\ evals = <<>> /\ bad = {} /\ outcomes = <<>> /\ candidates = <<>> /\ writes = 0
  /\ work = [p \in Commands |-> Idle]

Tick == now < MaxTime /\ now' = now + 1 /\ UNCHANGED <<sessions, used, disk, judged, candidates, work, writes>>

\* A scanner without times stores the position of an event as its time.
AppendEvent(s, at, tool, names) ==
  LET e == [at |-> at, tool |-> tool, names |-> names]
      old == IF s \in DOMAIN sessions THEN sessions[s] ELSE [started |-> now, events |-> <<>>]
  IN /\ sessions' = (s :> [old EXCEPT !.events = Append(@, e)]) @@ sessions
     /\ used' = used \cup ({s} \X names)
     /\ Write
     /\ UNCHANGED <<now, disk, judged, candidates>>

ChangeDisk(a) ==
  /\ disk' = IF a \in disk THEN disk \ {a} ELSE disk \cup {a}
  /\ Write
  /\ UNCHANGED <<now, sessions, used, judged, candidates>>

Annotate(s) ==
  /\ bad' = bad \cup {[session |-> s, at |-> now]}
  /\ Write
  /\ UNCHANGED <<stored, evals, outcomes, candidates>>

MeasureOutcomes(s, test, lint) ==
  /\ s \in DOMAIN sessions
  /\ outcomes' = (s :> RunOutcomeMeasure(test, lint)) @@ outcomes
  /\ Write
  /\ UNCHANGED <<stored, evals, bad, candidates>>

\* kaizen eval run: the newest sessions that cost enough and have no eval, whatever
\* their workspace.
ListSessionsForEval(p) ==
  LET fresh == {s \in DOMAIN sessions \ DOMAIN evals :
                  sessions[s].started >= Window.from /\ Len(sessions[s].events) >= MinCost}
      order == SetToSortSeq(fresh, LAMBDA s, t : sessions[s].started > sessions[t].started)
  IN /\ Busy(p, "idle") /\ fresh # {}
     /\ Do(p, [at |-> "evals", raced |-> FALSE, todo |-> SubSeq(order, 1, Min({BatchSize, Len(order)}))])
     /\ UNCHANGED <<stored, judged, candidates, writes>>

EvalOne(p, score) ==
  LET todo == work[p].todo IN
  /\ Busy(p, "evals")
  /\ writes' = writes + (IF score = None THEN 0 ELSE 1) /\ writes' <= MaxWrites
  /\ evals' = IF score = None THEN evals ELSE (Head(todo) :> [score |-> score, at |-> now]) @@ evals
  /\ Do(p, IF Len(todo) = 1 THEN Idle ELSE [work[p] EXCEPT !.todo = Tail(@)])
  /\ UNCHANGED <<stored, bad, outcomes, candidates>>

(***************************************************************************)
(* kaizen guidance.                                                        *)
(***************************************************************************)
ReadActive(p) ==
  /\ Busy(p, "idle")
  /\ Do(p, [at |-> "active", raced |-> FALSE, window |-> Window, disk |-> disk,
            active |-> ActiveInWindow(Window), costs |-> SessionCosts(Window)])
  /\ UNCHANGED <<stored, judged, candidates, writes>>

PerfRow(a, ids, w) ==
  [artifact |-> a, sessions |-> Cardinality(ids), on_disk |-> a \in w.disk,
   cost |-> FoldSet(LAMBDA s, n : n + w.costs[s], 0, ids \cap DOMAIN w.costs)]

GuidanceReport(p) ==
  LET w == work[p]
      uses == UsedInWindow(w.window)
  IN /\ Busy(p, "active")
     /\ Do(p, [at |-> "report", raced |-> w.raced, window |-> w.window, active |-> Cardinality(w.active),
               rows |-> {PerfRow(a, SessionsUsing(uses, a), w) : a \in w.disk \cup {u[2] : u \in uses}}])
     /\ UNCHANGED <<stored, judged, candidates, writes>>

\* kaizen guidance score, or propose for an artifact.
ReadProfile(p, for) ==
  LET w == Window IN
  /\ Busy(p, "idle")
  /\ Do(p, [at |-> "profile", raced |-> FALSE, window |-> w, for |-> for,
            started |-> [s \in ActiveInWindow(w) |-> sessions[s].started],
            loops |-> [s \in ActiveInWindow(w) |-> ToolLoops(s, w)]])
  /\ UNCHANGED <<stored, judged, candidates, writes>>

ScoreInputs(w) ==
  LET before(at) == w.window.from <= at /\ at < w.window.to IN
  [started |-> w.started, loops |-> w.loops, used |-> UsedInWindow(w.window),
   evals |-> [s \in {s \in DOMAIN evals : before(evals[s].at)} |-> evals[s].score],
   bad |-> {r.session : r \in {r \in bad : before(r.at)}},
   failed |-> {s \in DOMAIN outcomes : Within(sessions[s].started, w.window) /\ OutcomeFailed(outcomes[s])}]

BuildScore(p) ==
  LET w == work[p]
      i == ScoreInputs(w)
      rows == {ScoreRow(a, i, w.window) : a \in disk}
      mine == {r \in rows : r.artifact = w.for}
      next == IF w.for = None THEN "score" ELSE "proposing"
  IN /\ Busy(p, "profile")
     /\ Do(p, IF w.for # None /\ mine = {} THEN Idle
             ELSE [at |-> next, raced |-> w.raced, window |-> w.window, rows |-> IF w.for = None THEN rows ELSE mine])
     /\ UNCHANGED <<stored, judged, candidates, writes>>

RejectedCandidates_Any(a) ==
  LET all == SelectSeq(candidates, LAMBDA c : c.status = "rejected")
  IN SubSeq(all, 1 + Sub(Len(all), RejectedLimit), Len(all))

RejectedCandidates(a) ==
  LET all == SelectSeq(candidates, LAMBDA c : c.artifact = a /\ c.status = "rejected")
  IN SubSeq(all, 1 + Sub(Len(all), RejectedLimit), Len(all))

ReadRejected(p) ==
  /\ Busy(p, "proposing")
  /\ \E row \in work[p].rows :
       Do(p, [at |-> "rejected", raced |-> work[p].raced, row |-> row, rejected |-> RejectedCandidates(row.artifact)])
  /\ UNCHANGED <<stored, judged, candidates, writes>>

IntendedAction(row) == IF row.state = "stale" THEN "delete" ELSE "review_only"

Deterministic(row, rejected) ==
  IF \E k \in DOMAIN rejected : rejected[k].action = IntendedAction(row) THEN "review_only"
  ELSE IntendedAction(row)

\* With --llm a model answers instead, whatever was rejected.
Propose(p) ==
  LET w == work[p] IN
  /\ Busy(p, "rejected") /\ Len(candidates) < MaxCandidates
  /\ \E action \in {Deterministic(w.row, w.rejected)} \cup Answers :
       candidates' = Append(candidates, [artifact |-> w.row.artifact, action |-> action, status |-> "proposed"])
  /\ Do(p, Idle)
  /\ UNCHANGED <<stored, judged, writes>>

SetStatus(k, status) ==
  /\ candidates[k].status # status
  /\ candidates' = [candidates EXCEPT ![k].status = status]
  /\ UNCHANGED <<stored, judged, work, writes>>

Shown(p) ==
  /\ work[p].at \in {"report", "score"}
  /\ Do(p, Idle)
  /\ UNCHANGED <<stored, judged, candidates, writes>>

Next ==
  \/ Tick
  \/ \E s \in Sessions, at \in {0, now}, tool \in {None, "edit"}, names \in SUBSET Artifacts : AppendEvent(s, at, tool, names)
  \/ \E a \in Artifacts : ChangeDisk(a)
  \/ \E s \in Sessions : Annotate(s)
  \/ \E s \in Sessions, test \in Runs \ {None}, lint \in Runs : MeasureOutcomes(s, test, lint)
  \/ \E p \in Commands :
       \/ ListSessionsForEval(p)
       \/ \E score \in {None, 0, 1} : EvalOne(p, score)
       \/ ReadActive(p) \/ GuidanceReport(p)
       \/ \E for \in Artifacts \cup {None} : ReadProfile(p, for)
       \/ BuildScore(p) \/ ReadRejected(p) \/ Propose(p) \/ Shown(p)
  \/ \E k \in DOMAIN candidates, status \in {"rejected", "archived"} : SetStatus(k, status)

Spec == Init /\ [][Next]_vars

TypeOK ==
  /\ now \in 1..MaxTime
  /\ DOMAIN sessions \subseteq Sessions
  /\ DOMAIN evals \cup DOMAIN outcomes \subseteq DOMAIN sessions
  /\ used \subseteq Sessions \X Artifacts
  /\ disk \subseteq Artifacts
  /\ \A k \in DOMAIN candidates : candidates[k].status \in {"proposed", "rejected", "archived"}
  /\ \A p \in Commands : work[p].raced \in BOOLEAN

(* The sessions of a window that named an artifact, read from the events.  *)
Naming(a, w) ==
  {s \in ActiveInWindow(w) : \E i \in DOMAIN sessions[s].events : a \in sessions[s].events[i].names}

(* The report and the score count the same sessions, those active in the   *)
(* window that ever named the artifact, although each joins its own        *)
(* tables; no share exceeds the whole, an artifact on disk always has its  *)
(* row, and the validation sessions are those that started last: none is   *)
(* sorted without a start.  Writes between the reads excuse a view.        *)
ViewsAgree ==
  \A p \in Commands : ~work[p].raced =>
    LET w == work[p] IN
    /\ w.at = "report" =>
         /\ disk \subseteq {r.artifact : r \in w.rows}
         /\ \A r \in w.rows : /\ r.sessions = Cardinality(Naming(r.artifact, w.window))
                             /\ r.sessions <= w.active /\ r.sessions <= r.cost
    /\ w.at \in {"score", "proposing"} => \A r \in w.rows :
         LET ids == Naming(r.artifact, w.window)
             late == {s \in ids : sessions[s].started >= ValidationStart(w.window)}
         IN /\ r.total.sessions = Cardinality(ids) /\ r.validation.sessions = Cardinality(late)
            /\ r.train.sessions = Cardinality(ids \ late)
            /\ r.gate = "no_data" <=> r.state = "stale"
=============================================================================
