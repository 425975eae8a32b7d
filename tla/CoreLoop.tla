------------------------------ MODULE CoreLoop ------------------------------
(***************************************************************************)
(* Rules, cases, reviews and alerts (core_loop/, and the commands of shell/ *)
(* that call it).  Each command is a process that works through a list of   *)
(* items, a statement at a time, while others do the same, ingest goes on   *)
(* and a prune may take sessions away.                                      *)
(***************************************************************************)
EXTENDS Integers, Sequences, FiniteSets, SequencesExt

CONSTANTS
  Runners,   \* processes
  Sessions,
  Rules,     \* the rules that may be created: [terms, action]
  Limit,     \* hits a rule acts on in one run (100)
  Window,    \* how far back a command looks
  Enough,    \* errors or retries that raise a built-in alert, and evals it needs (3)
  BadMarks,  \* bad feedback that raises one (2)
  Spike,     \* how many times the average cost a session may have (4)
  MaxI64,    \* the greatest signed integer of SQLite
  MaxTime,   \* bound: the clock
  MaxEvents, MaxVerdicts, \* bounds: events, evals and feedback
  MaxRuns,   \* bound: commands
  None

ASSUME CoreAssumption ==
  /\ IsFiniteSet(Runners)
  /\ Rules \subseteq [terms : SUBSET {"tool", "error", "eval_score", "feedback_label"},
                      action : {"case", "review", "alert"}]
  /\ {Limit, Window, Enough, BadMarks, Spike, MaxI64, MaxTime, MaxEvents, MaxVerdicts,
      MaxRuns} \subseteq Nat

VARIABLES
  now,
  sessions,  \* ids in the sessions table
  events,    \* events of the workspace, in time order
  verdicts,  \* rows of session_evals and session_feedback, in time order
  rules,     \* rules[r]: whether rule r is enabled, for the rules created
  rows,      \* cases, reviews and alerts
  refs,      \* rows of case_refs: the case and what it refers to
  work,      \* work[p]: what process p does next and still has to do
  runs,      \* commands begun
  acted,     \* history: acted[p]: the items of the command of p so far
  finished   \* history: the items of commands that ended well

data == <<now, sessions, events, verdicts, rules>>
vars == <<data, rows, refs, work, runs, acted, finished>>

Actions == {"case", "review", "alert"}

\* Terms on the event and its session are alike; the two last ones look at
\* the last eval and the last feedback of the session.
Terms == {"tool", "error", "eval_score", "feedback_label"}

Event   == [session : Sessions, seq : 1..MaxEvents, kind : {"tool", "error"},
            at : 0..MaxTime]
Verdict == [session : Sessions, of : {"eval", "feedback"}, bad : BOOLEAN, at : 0..MaxTime]

\* A source_key; source_session_id is part of it.
BuiltIn == {"cost_spike", "error_rate", "feedback_score_drop", "eval_regression"}

Keys ==
  ({"rule"} \X Rules \X Sessions \X Nat)
    \cup ({"eval", "feedback", "manual"} \X Sessions)
    \cup ({"builtin"} \X BuiltIn \X (Sessions \cup {None}) \X Nat)

Row == [table : Actions, id : Nat, key : Keys, session : Sessions \cup {None},
        status : {"open", "closed"}]

Idle == [at |-> "idle"]

Init ==
  /\ now = 0 /\ sessions = {} /\ events = <<>> /\ verdicts = <<>>
  /\ rules = [r \in {} |-> TRUE]
  /\ rows = {} /\ refs = {} /\ finished = {}
  /\ work = [p \in Runners |-> Idle] /\ runs = 0
  /\ acted = [p \in Runners |-> {}]

-----------------------------------------------------------------------------
(* What a query finds. *)

\* The elements of seq at some places, in their order: the n-th is at the place
\* that has n of them up to it.
At(seq, places) ==
  [n \in 1..Cardinality(places) |->
     seq[CHOOSE i \in places : Cardinality({j \in places : j <= i}) = n]]

\* The rows of seq that pass the test.
Matching(seq, Test(_)) == At(seq, {i \in DOMAIN seq : Test(seq[i])})

\* A u64 as SQLite stores it.
AsI64(n) == IF n > MaxI64 THEN n - 2 * (MaxI64 + 1) ELSE n
MaxU64 == 2 * MaxI64 + 1

InWindow(from, until) ==
  Matching(verdicts, LAMBDA v : AsI64(from) <= v.at /\ v.at < AsI64(until))

\* The last verdict on each session wins (Meta).
LastBad(of, session, from) ==
  LET mine == Matching(InWindow(from, MaxU64), LAMBDA v : v.of = of /\ v.session = session)
  IN  mine # <<>> /\ Last(mine).bad

MatchesTerm(term, e, from) ==
  CASE term = "eval_score"     -> LastBad("eval", e.session, from)
    [] term = "feedback_label" -> LastBad("feedback", e.session, from)
    [] OTHER                   -> e.kind = term

Hits(terms, from) ==
  LET all == Matching(events, LAMBDA e : \A t \in terms : MatchesTerm(t, e, from))
  IN  SubSeq(all, 1, IF Len(all) < Limit THEN Len(all) ELSE Limit)

-----------------------------------------------------------------------------
(* Items: one row to write, and a reference for a case. *)

HitItem(rule, hit) ==
  [action |-> rule.action, key |-> <<"rule", rule, hit.session, hit.seq>>,
   session |-> hit.session,
   ref |-> IF rule.action = "case" THEN <<hit.session, hit.seq>> ELSE None]

MinedItem(v) ==
  [action |-> "case", key |-> <<v.of, v.session>>, session |-> v.session,
   ref |-> v.session]

ManualItem(session) ==
  [action |-> "case", key |-> <<"manual", session>>, session |-> session, ref |-> None]

From == IF now > Window THEN now - Window ELSE 0

Bad(of) == Matching(InWindow(From, now), LAMBDA v : v.of = of /\ v.bad)

Map(seq, Op(_)) == [i \in DOMAIN seq |-> Op(seq[i])]

Works(p, items, then, mines, from) ==
  /\ work' = [work EXCEPT ![p] = [at |-> "act", items |-> items, then |-> then,
                                  mines |-> mines, from |-> from, id |-> None]]
  /\ acted' = [acted EXCEPT ![p] = @ \cup ToSet(items)]
  /\ UNCHANGED <<data, rows, refs, finished>>

Begins(p) == work[p] = Idle /\ runs < MaxRuns /\ runs' = runs + 1

\* rules run: list the rules, then query and act for each.
RunRules(p) ==
  /\ Begins(p)
  /\ Works(p, <<>>, SetToSeq({r \in DOMAIN rules : rules[r]}), FALSE, From)

OutOfItems(p) == work[p].at = "act" /\ work[p].items = <<>>

NextRule(p) ==
  LET rule == Head(work[p].then) IN
  /\ OutOfItems(p) /\ work[p].then # <<>>
  /\ Works(p, Map(Hits(rule.terms, work[p].from), LAMBDA hit : HitItem(rule, hit)),
           Tail(work[p].then), FALSE, work[p].from)
  /\ UNCHANGED runs

\* cases mine: bad evals, then bad feedback.
Mine(p) == Begins(p) /\ Works(p, Map(Bad("eval"), MinedItem), <<>>, TRUE, From)

MineFeedback(p) ==
  /\ OutOfItems(p) /\ work[p].mines
  /\ Works(p, Map(Bad("feedback"), MinedItem), <<>>, FALSE, From)
  /\ UNCHANGED runs

CreateCase(p, session) ==
  /\ Begins(p) /\ session \in sessions
  /\ Works(p, <<ManualItem(session)>>, <<>>, FALSE, From)

-----------------------------------------------------------------------------
(* The statements. *)

Existing(item) == {row \in rows : row.table = item.action /\ row.key = item.key}

\* The ids in the table, and those that a command has read: an id is never
\* given twice.
Ids ==
  {row.id : row \in rows} \cup {work[p].id : p \in {q \in Runners : work[q].at = "ref"}}

FreshId == CHOOSE n \in 1..(Cardinality(Ids) + 1) : n \notin Ids

Stored(item) ==
  IF Existing(item) # {} THEN rows
  ELSE rows \cup {[table |-> item.action, id |-> FreshId, key |-> item.key,
                   session |-> item.session, status |-> "open"]}

Done(p) == work' = [work EXCEPT ![p].items = Tail(@), ![p].at = "act", ![p].id = None]

\* INSERT OR IGNORE, whose foreign key needs the session.
Inserts(p) ==
  /\ work[p].at = "act" /\ work[p].items # <<>>
  /\ work[p].items[1].session \in sessions
  /\ rows' = Stored(work[p].items[1])
  /\ UNCHANGED <<data, refs, runs, acted, finished>>

ActOnItem_RefsNewCases(p) ==
  /\ Inserts(p)
  /\ IF rows' = rows THEN Done(p) ELSE work' = [work EXCEPT ![p].at = "read"]

ActOnItem(p) == Inserts(p) /\ work' = [work EXCEPT ![p].at = "read"]

\* The row is read back by its key; of a case the id is kept.
GetBySource(p) ==
  /\ work[p].at = "read"
  /\ \E row \in Existing(work[p].items[1]) :
       IF work[p].items[1].ref = None THEN Done(p)
       ELSE work' = [work EXCEPT ![p].at = "ref", ![p].id = row.id]
  /\ UNCHANGED <<data, rows, refs, runs, acted, finished>>

\* Whose foreign key needs the case that was read.
AddRef(p) ==
  /\ work[p].at = "ref" /\ \E row \in rows : row.id = work[p].id
  /\ refs' = refs \cup {<<work[p].id, work[p].items[1].ref>>}
  /\ Done(p)
  /\ UNCHANGED <<data, rows, runs, acted, finished>>

Stops(p) == work' = [work EXCEPT ![p] = Idle] /\ acted' = [acted EXCEPT ![p] = {}]

\* The session was pruned: the first error ends the command.
Fails(p) ==
  /\ \/ work[p].at = "act" /\ work[p].items # <<>> /\ work[p].items[1].session \notin sessions
     \/ work[p].at = "read" /\ Existing(work[p].items[1]) = {}
     \/ work[p].at = "ref" /\ \A row \in rows : row.id # work[p].id
  /\ Stops(p)
  /\ UNCHANGED <<data, rows, refs, runs, finished>>

Ends(p) ==
  /\ OutOfItems(p) /\ work[p].then = <<>> /\ ~work[p].mines
  /\ Stops(p)
  /\ finished' = finished \cup acted[p]
  /\ UNCHANGED <<data, rows, refs, runs>>

\* The process is killed, wherever it is.
Killed(p) ==
  /\ work[p] # Idle
  /\ Stops(p)
  /\ UNCHANGED <<data, rows, refs, runs, finished>>

-----------------------------------------------------------------------------
(* alerts check: the events are read once, evals and feedback by their own *)
(* checks; the start of the window is part of the key.                     *)

Count(seq, Test(_)) == Len(Matching(seq, Test))

\* Error rate, context pressure, retries and truncation are counts alike.
Raised(name, seen, from) ==
  CASE name = "error_rate" ->
         Count(seen, LAMBDA e : e.kind = "error" /\ e.at >= from) >= Enough
    [] name = "feedback_score_drop" -> Len(Bad("feedback")) >= BadMarks
    [] name = "eval_regression" ->
         LET evals == Count(InWindow(from, now), LAMBDA v : v.of = "eval")
         IN  evals >= Enough /\ 2 * Len(Bad("eval")) > evals

\* Every event costs the same here.
Spikes(from) ==
  {s \in sessions : /\ Count(events, LAMBDA e : e.session = s) * Cardinality(sessions)
                          > Spike * Len(events)
                    /\ \A i \in DOMAIN events : events[i].session = s => events[i].at >= from}

Alert(name, session, from) ==
  [action |-> "alert", key |-> <<"builtin", name, session, from>>, session |-> session,
   ref |-> None]

CheckAlerts(p) ==
  /\ Begins(p)
  /\ work' = [work EXCEPT ![p] =
       [at |-> "check", seen |-> events, from |-> From,
        names |-> <<"cost_spike", "error_rate", "feedback_score_drop", "eval_regression">>]]
  /\ UNCHANGED <<data, rows, refs, acted, finished>>

CheckAlert(p) ==
  LET w == work[p] IN
  /\ w.at = "check"
  /\ IF w.names[1] = "cost_spike"
       THEN \/ \E s \in Spikes(w.from) : rows' = Stored(Alert("cost_spike", s, w.from))
            \/ Spikes(w.from) = {} /\ UNCHANGED rows
       ELSE rows' = IF Raised(w.names[1], w.seen, w.from)
                      THEN Stored(Alert(w.names[1], None, w.from)) ELSE rows
  /\ IF Len(w.names) = 1 THEN work' = [work EXCEPT ![p] = Idle]
     ELSE work' = [work EXCEPT ![p].names = Tail(@)]
  /\ UNCHANGED <<data, refs, runs, acted, finished>>

-----------------------------------------------------------------------------
(* Other commands, and what goes on around them. *)

CreateRule(r) ==
  /\ r \notin DOMAIN rules
  /\ rules' = [x \in DOMAIN rules \cup {r} |-> x = r \/ rules[x]]
  /\ UNCHANGED <<now, sessions, events, verdicts, rows, refs, work, runs, acted, finished>>

SetEnabled(r) ==
  /\ r \in DOMAIN rules
  /\ rules' = [rules EXCEPT ![r] = ~@]
  /\ UNCHANGED <<now, sessions, events, verdicts, rows, refs, work, runs, acted, finished>>

\* cases archive, review resolve and dismiss.
Close(row) ==
  /\ row.table \in {"case", "review"} /\ row.status = "open"
  /\ rows' = (rows \ {row}) \cup {[row EXCEPT !.status = "closed"]}
  /\ UNCHANGED <<data, refs, work, runs, acted, finished>>

Ingest(session, kind) ==
  /\ Len(events) < MaxEvents
  /\ sessions' = sessions \cup {session}
  /\ events' = Append(events, [session |-> session, seq |-> Len(events) + 1, kind |-> kind,
                               at |-> now])
  /\ UNCHANGED <<now, verdicts, rules, rows, refs, work, runs, acted, finished>>

Judge(session, of, bad) ==
  /\ session \in sessions /\ Len(verdicts) < MaxVerdicts
  /\ verdicts' = Append(verdicts, [session |-> session, of |-> of, bad |-> bad, at |-> now])
  /\ UNCHANGED <<now, sessions, events, rules, rows, refs, work, runs, acted, finished>>

\* By its foreign key a reference goes with its case.
RefsWithout_Never(gone) == refs

RefsWithout(gone) == {ref \in refs : \A row \in gone : row.id # ref[1]}

\* A prune deletes the session, its events, and by foreign key its verdicts,
\* cases and reviews; alerts stay without it.
Prune(session) ==
  LET gone == {row \in rows : row.session = session}
      kept(items) == {item \in items : item.session # session}
  IN  /\ session \in sessions
      /\ sessions' = sessions \ {session}
      /\ events' = Matching(events, LAMBDA e : e.session # session)
      /\ verdicts' = Matching(verdicts, LAMBDA v : v.session # session)
      /\ rows' = (rows \ gone) \cup {[row EXCEPT !.session = None] :
                                      row \in {g \in gone : g.table = "alert"}}
      /\ refs' = RefsWithout(gone)
      /\ acted' = [p \in Runners |-> kept(acted[p])]
      /\ finished' = kept(finished)
      /\ UNCHANGED <<now, rules, work, runs>>

Tick ==
  /\ now < MaxTime /\ now' = now + 1
  /\ UNCHANGED <<sessions, events, verdicts, rules, rows, refs, work, runs, acted, finished>>

Next ==
  \/ \E p \in Runners :
       \/ RunRules(p) \/ NextRule(p) \/ Mine(p) \/ MineFeedback(p)
       \/ CheckAlerts(p) \/ CheckAlert(p)
       \/ ActOnItem(p) \/ GetBySource(p) \/ AddRef(p) \/ Fails(p) \/ Ends(p) \/ Killed(p)
       \/ \E s \in Sessions : CreateCase(p, s)
  \/ \E r \in Rules : CreateRule(r) \/ SetEnabled(r)
  \/ \E row \in rows : Close(row)
  \/ \E s \in Sessions :
       \/ Prune(s)
       \/ \E kind \in {"tool", "error"} : Ingest(s, kind)
       \/ \E of \in {"eval", "feedback"}, bad \in BOOLEAN : Judge(s, of, bad)
  \/ Tick

Spec == Init /\ [][Next]_vars

-----------------------------------------------------------------------------

TypeOK ==
  /\ now \in 0..MaxTime /\ sessions \subseteq Sessions
  /\ events \in Seq(Event) /\ verdicts \in Seq(Verdict)
  /\ DOMAIN rules \subseteq Rules /\ \A r \in DOMAIN rules : rules[r] \in BOOLEAN
  /\ rows \subseteq Row /\ \A row \in rows : row.session \in sessions \cup {None}
  /\ \A ref \in refs : \E row \in rows : row.id = ref[1] /\ row.table = "case"
  /\ runs \in 0..MaxRuns

(***************************************************************************)
(* What a command that ended well had to do is there, once: a single row   *)
(* for each hit, bad eval or bad feedback, and for a case its reference,   *)
(* whether this command wrote them, another one that runs next to it, or   *)
(* one that was killed between the case and its reference ("Rule actions   *)
(* are idempotent by `source_key`", docs/datamodel.md).                    *)
(***************************************************************************)
FinishedWorkIsThereOnce ==
  \A item \in finished :
    /\ Cardinality(Existing(item)) = 1
    /\ item.ref # None =>
         \E row \in Existing(item) : <<row.id, item.ref>> \in refs
=============================================================================
