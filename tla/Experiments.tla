----------------------------- MODULE Experiments -----------------------------
(***************************************************************************)
(* `kaizen exp` (shell/exp.rs, experiment/): one experiment, its state and *)
(* the variants sessions are tagged with, kept in SQLite and changed by    *)
(* commands that run in processes of their own.  Every statement on the    *)
(* database is a step; no command holds a transaction over two of them.    *)
(***************************************************************************)
EXTENDS Integers, FiniteSets, ExperimentTags

CONSTANTS
  Commands,    \* processes, each for one command after the other
  Sessions,
  Kinds,       \* bound: the kinds of session that come up
  MinSample,   \* MIN_SAMPLE (30)
  Duration,    \* duration_days
  MaxTime,     \* bound: the clock
  None

VARIABLES
  clock,
  exp,      \* the row of `experiments`, or None
  recorded, \* the recorded sessions with what classifies them and their metric
  step,     \* step[c]: what command c does next, with its arguments and reads
  report    \* history: the last report, or None

vars == <<clock, exp, tags, recorded, step, told, report>>

Arms     == {"control", "treatment"}
Variants == Arms \cup {"excluded"}
States   == {"draft", "running", "concluded", "archived"}
Times    == 0..MaxTime

\* Git and branch bindings are resolved alike.
Bindings == {"git", "prompt", "manual"}

Experiment == [binding : Bindings, state : States, created : Times,
               concluded : Times \cup {None}]

\* A session: the tips its first commit is an ancestor of (none without a
\* commit), the arm its prompt fingerprint equals, and its metric, which a
\* session may lack (no end, no message).
Kind == [tips : SUBSET Arms, prompt : Arms \cup {None}, value : {1, 2} \cup {None}]

Session == [kind : Kind, at : Times]

Idle == [at |-> "idle"]

Init ==
  /\ clock = 0 /\ exp = None /\ report = None
  /\ tags = [s \in {} |-> None]
  /\ recorded = [s \in {} |-> None]
  /\ step = [c \in Commands |-> Idle]
  /\ told = {}

Go(c, next) == step' = [step EXCEPT ![c] = next]

-----------------------------------------------------------------------------
(* Creating an experiment and moving it along. *)

New(c) ==
  /\ step[c] = Idle /\ exp = None
  /\ \E b \in Bindings :
       exp' = [binding |-> b, state |-> "draft", created |-> clock, concluded |-> None]
  /\ UNCHANGED <<clock, tags, recorded, step, told, report>>

\* The one state an action is allowed in, and where it leads (transition).
From == [start |-> "draft", conclude |-> "running", archive |-> "concluded"]
To   == [start |-> "running", conclude |-> "concluded", archive |-> "archived"]

\* The command reads the experiment and checks the transition...
CheckState(c, action) ==
  /\ step[c] = Idle /\ exp # None
  /\ exp.state = From[action]
  /\ Go(c, [at |-> "load", to |-> To[action]])
  /\ UNCHANGED <<clock, exp, tags, recorded, told, report>>

\* ... set_state reads it once more, without a check...
SetStateLoads(c) ==
  /\ step[c].at = "load"
  /\ Go(c, [at |-> "save", to |-> step[c].to, row |-> exp])
  /\ UNCHANGED <<clock, exp, tags, recorded, told, report>>

\* ... and writes the whole row.
SetStateSaves(c) ==
  /\ step[c].at = "save"
  /\ exp' = [step[c].row EXCEPT
               !.state = step[c].to,
               !.concluded = IF step[c].to = "concluded" THEN clock ELSE @]
  /\ Go(c, Idle)
  /\ UNCHANGED <<clock, tags, recorded, told, report>>

-----------------------------------------------------------------------------
(* Tagging a session. *)

\* A session tagged before: done if the variant is the same, else an error.  The
\* experiment need not exist.
TagSelects(c, s, v) ==
  /\ step[c] = Idle
  /\ IF s \notin DOMAIN tags
       THEN Go(c, [at |-> "tag", session |-> s, variant |-> v]) /\ UNCHANGED told
       ELSE told' = (IF tags[s] = v THEN told \cup {<<s, v>>} ELSE told)
            /\ UNCHANGED step
  /\ UNCHANGED <<clock, exp, tags, recorded, report>>

TagInserts_Replaces(c) ==
  /\ step[c].at = "tag"
  /\ tags' = Tagged(step[c].session, step[c].variant)
  /\ told' = told \cup {<<step[c].session, step[c].variant>>}
  /\ Go(c, Idle)
  /\ UNCHANGED <<clock, exp, recorded, report>>

\* The primary key makes the insert fail when another command was faster.
TagInserts(c) ==
  LET s == step[c].session IN
  /\ step[c].at = "tag"
  /\ IF s \in DOMAIN tags
       THEN UNCHANGED <<tags, told>>
       ELSE /\ tags' = Tagged(s, step[c].variant)
            /\ told' = told \cup {<<s, step[c].variant>>}
  /\ Go(c, Idle)
  /\ UNCHANGED <<clock, exp, recorded, report>>

-----------------------------------------------------------------------------
(* Reporting. *)

ClassifyGit(kind) ==
  IF Cardinality(kind.tips) = 1 THEN CHOOSE arm \in Arms : arm \in kind.tips
  ELSE "excluded"

ClassifyPrompt(kind) == IF kind.prompt = None THEN "excluded" ELSE kind.prompt

\* A manual tag wins over what the binding says.
Classify(e, t, sessions, s) ==
  IF s \in DOMAIN t THEN t[s]
  ELSE CASE e.binding = "manual" -> "excluded"
         [] e.binding = "git"    -> ClassifyGit(sessions[s].kind)
         [] e.binding = "prompt" -> ClassifyPrompt(sessions[s].kind)

\* window_for: from the creation to the conclusion, or for its duration.
InWindow(e, time) ==
  LET end == IF e.concluded # None THEN e.concluded ELSE e.created + Duration
  IN  e.created <= time /\ time <= end

\* The sessions in the window that have the metric.
Measured(e, sessions) ==
  {s \in DOMAIN sessions : InWindow(e, sessions[s].at) /\ sessions[s].kind.value # None}

Smaller(a, b) == IF a < b THEN a ELSE b

\* The interval of the bootstrap lies between the least and the greatest
\* difference of a treatment and a control value, so it excludes zero when
\* all of them have one sign.
ExcludesZero(control, treatment, sessions) ==
  LET D == {sessions[t].kind.value - sessions[c].kind.value : t \in treatment, c \in control}
  IN  D # {} /\ ((\A d \in D : d > 0) \/ (\A d \in D : d < 0))

\* seq_decide, after the decision `ever` that the last report made.
Decide(control, treatment, sessions, ever) ==
  LET n == Smaller(Cardinality(control), Cardinality(treatment)) IN
  IF ever \/ (n >= MinSample /\ ExcludesZero(control, treatment, sessions))
    THEN "significant"
  ELSE IF n < MinSample THEN "insufficient" ELSE "inconclusive"

\* run_from_metric_values; `exp report` has no earlier decision to pass.
ReportOf(e, t, sessions) ==
  LET arm(v) == {s \in Measured(e, sessions) : Classify(e, t, sessions, s) = v}
  IN  [control |-> arm("control"), treatment |-> arm("treatment"),
       excluded |-> Cardinality(arm("excluded")),
       decision |-> Decide(arm("control"), arm("treatment"), sessions, FALSE)]

ReportReadsTags(c) ==
  /\ step[c] = Idle /\ exp # None
  /\ Go(c, [at |-> "values", row |-> exp, tags |-> tags])
  /\ UNCHANGED <<clock, exp, tags, recorded, told, report>>

ReportReadsValues(c) ==
  /\ step[c].at = "values"
  /\ report' = ReportOf(step[c].row, step[c].tags, recorded)
  /\ Go(c, Idle)
  /\ UNCHANGED <<clock, exp, tags, recorded, told>>

-----------------------------------------------------------------------------

\* Ingest records a session.
Record(s, kind) ==
  /\ s \notin DOMAIN recorded
  /\ recorded' = [x \in DOMAIN recorded \cup {s} |->
                    IF x = s THEN [kind |-> kind, at |-> clock] ELSE recorded[x]]
  /\ UNCHANGED <<clock, exp, tags, step, told, report>>

Tick ==
  /\ clock < MaxTime /\ clock' = clock + 1
  /\ UNCHANGED <<exp, tags, recorded, step, told, report>>

Next ==
  \/ \E c \in Commands :
       \/ New(c) \/ SetStateLoads(c) \/ SetStateSaves(c) \/ TagInserts(c)
       \/ ReportReadsTags(c) \/ ReportReadsValues(c)
       \/ \E action \in DOMAIN From : CheckState(c, action)
       \/ \E s \in Sessions, v \in Variants : TagSelects(c, s, v)
  \/ \E s \in Sessions, kind \in Kinds : Record(s, kind)
  \/ Tick

Spec == Init /\ [][Next]_vars

-----------------------------------------------------------------------------

TypeOK ==
  /\ clock \in Times /\ exp \in Experiment \cup {None}
  /\ DOMAIN tags \subseteq Sessions /\ \A s \in DOMAIN tags : tags[s] \in Variants
  /\ DOMAIN recorded \subseteq Sessions
  /\ \A s \in DOMAIN recorded : recorded[s] \in Session

=============================================================================
