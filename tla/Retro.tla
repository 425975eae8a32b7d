--------------------------------- MODULE Retro ---------------------------------
(***************************************************************************)
(* kaizen retro: the heuristics that turn what is recorded of a workspace  *)
(* into bets, the choice among them, and the weekly reports that several   *)
(* commands write.  A threshold on a count is Many, one on a share of      *)
(* something a quarter of it, a multiple the double; tokens saved are the  *)
(* size of the evidence.  Wording, effort and statistics are left out.     *)
(***************************************************************************)
EXTENDS Naturals, Sequences, FiniteSets, SequencesExt, TLC

CONSTANTS
  Runners,   \* processes that run kaizen retro
  Windows,   \* bound: the events that a window may hold
  Remote,    \* the events of the remote cache
  Tables,    \* bound: what the other tables and the disk may hold
  Apart,     \* pairs <<a, b>> of paths, a < b, with different first components
  Docs,      \* the paths below docs/
  Many,      \* the threshold of every count
  MaxWeek,   \* bound: the last week
  None

VARIABLES
  week,     \* the current ISO week
  traces,   \* the events of the workspace, in time order
  tables,   \* the other tables and the skills and rules on disk
  reports,  \* the report file of each week: what it says and what it chose from
  runner    \* a command under way

vars == <<week, traces, tables, reports, runner>>

-----------------------------------------------------------------------------
(* Inputs. *)

Prefixed(ev) == [i \in DOMAIN ev |-> [ev[i] EXCEPT !.session = "remote:" \o @]]

NoTables == [files |-> {}, spans |-> {}, scores |-> <<>>, prints |-> {}, feedback |-> <<>>]

\* load_inputs of each data source; remote sessions never are the local ones.
Inputs(source) ==
  CASE source = "local"    -> [events |-> traces] @@ tables
    [] source = "mixed"    -> [events |-> traces \o Prefixed(Remote)] @@ tables
    [] source = "provider" -> [events |-> Prefixed(Remote)] @@ NoTables @@ tables

SessionsOf(ev) == {ev[i].session : i \in DOMAIN ev}

Pick(ev, s) == SelectSeq(ev, LAMBDA e : e.session = s)

Calls(in) == SelectSeq(in.events, LAMBDA e : e.kind = "call")

With(in, sign) == SelectSeq(in.events, LAMBDA e : sign \in e.signs)

CostOf(ev) == FoldSeq(LAMBDA e, sum : sum + e.cost, 0, ev)

ManyOf(seq) == Len(seq) >= Many

Quarter(n, of) == of > 0 /\ 4 * n >= of

\* max_by_key over a map, whose order is arbitrary.
Most(S, n(_)) == CHOOSE x \in S : \A y \in S : n(x) >= n(y)

Bet(h, of, n) == [h |-> h, of |-> of, n |-> n]

\* One bet, if the signal fires.
Fires(signal, bet) == IF signal THEN {bet} ELSE {}

-----------------------------------------------------------------------------
(* The heuristics. *)

Unused(files, used) == {f \in files : f.slug \notin used /\ f.old}

H1(in) ==
  IF ~ManyOf(in.events) THEN {}
  ELSE {Bet("H1", "skill " \o f.slug, f.size) : f \in Unused(in.skills, in.used)}
       \cup {Bet("H1", "rule " \o f.slug, f.size) : f \in Unused(in.rules, in.used)}

\* Paths of different directories that many sessions touch together.
H2(in) ==
  LET together(a, b) == {s \in SessionsOf(in.events) : <<s, a>> \in in.files /\ <<s, b>> \in in.files}
      paths == {f[2] : f \in in.files}
  IN  {Bet("H2", pair[1] \o "|" \o pair[2], Cardinality(together(pair[1], pair[2]))) :
         pair \in {p \in paths \X paths :
                     /\ p \in Apart
                     /\ Cardinality(together(p[1], p[2])) >= Many}}

H3(in) ==
  LET touches(s, p) == SelectSeq(Calls(in), LAMBDA e : e.session = s /\ e.path = p)
      pairs == {<<e.session, e.path>> : e \in {c \in ToSet(Calls(in)) : c.path # None}}
  IN  {Bet("H3", pr[1] \o ":" \o pr[2], Len(touches(pr[1], pr[2]))) :
         pr \in {x \in pairs : ManyOf(touches(x[1], x[2]))}}

H4(in) ==
  LET used == SelectSeq(in.events, LAMBDA e : e.tool # None)
      count(t) == Len(SelectSeq(used, LAMBDA e : e.tool = t))
      tool == Most({e.tool : e \in ToSet(used)}, count)
  IN  IF ~ManyOf(used) THEN {} ELSE Fires(Quarter(count(tool), Len(used)), Bet("H4", tool, count(tool)))

H5(in) ==
  LET idle == SessionsOf(With(in, "idle"))
  IN  Fires(Cardinality(idle) >= 2, Bet("H5", "idle-bloat", Cardinality(idle)))

\* The slug is that of the last payload that looks ignored and names a skill.
H6(in) ==
  LET ignored == SelectSeq(With(in, "skill"), LAMBDA e : "ignored" \in e.signs)
      named == SelectSeq(ignored, LAMBDA e : e.path # None)
      slug == IF named = <<>> THEN "unknown" ELSE Last(named).path
  IN  Fires(ManyOf(With(in, "skill")) /\ Quarter(Len(ignored), Len(With(in, "skill"))),
            Bet("H6", slug, Len(ignored)))

H7(in) ==
  LET n == Cardinality(SessionsOf(in.events))
  IN  Fires(/\ n >= Many /\ CostOf(in.events) \div n <= 1
            /\ Cardinality(SessionsOf(With(in, "premium"))) * 3 >= n,
            Bet("H7", "routing", n))

\* Calls on the implementation after the first one on the docs.
H8(in) ==
  LET drift(s) ==
        LET mine == SelectSeq(Pick(Calls(in), s), LAMBDA e : e.path # None)
            docs == {i \in DOMAIN mine : mine[i].path \in Docs}
        IN  {j \in DOMAIN mine \ docs : \E i \in docs : i < j}
  IN  {Bet("H8", s, Cardinality(drift(s))) :
         s \in {x \in SessionsOf(Calls(in)) : Cardinality(drift(x)) >= Many}}

H9(in) ==
  LET errors == SelectSeq(in.events, LAMBDA e : e.kind = "error")
      n == Cardinality(SessionsOf(in.events))
  IN  Fires(ManyOf(errors) \/ (n >= Many /\ Quarter(Cardinality(SessionsOf(errors)), n)),
            Bet("H9", "errors", Len(errors)))

\* A result belongs to the tool of the last call with its id before it.
H10(in) ==
  LET ev == in.events
      toolOf(i) == LET before == {j \in 1..(i-1) : ev[j].kind = "call" /\ ev[j].call = ev[i].call}
                   IN  IF before = {} THEN None ELSE ev[Most(before, LAMBDA j : j)].tool
      failing(s) == {i \in DOMAIN ev : /\ ev[i].session = s /\ ev[i].kind = "result"
                                       /\ ev[i].call # None /\ toolOf(i) = "shell"
                                       /\ "failed" \in ev[i].signs}
      looping == {s \in SessionsOf(ev) : Cardinality(failing(s)) >= Many}
      worst == Most(looping, LAMBDA s : Cardinality(failing(s)))
  IN  IF looping = {} THEN {} ELSE {Bet("H10", worst, Cardinality(failing(worst)))}

H11(in) ==
  LET all == SessionsOf(in.events)
      cost(s) == CostOf(Pick(in.events, s))
      top == Most(all, cost)
  IN  IF Cardinality(all) < Many THEN {}
      ELSE Fires(cost(top) >= Many /\ cost(top) * Cardinality(all) >= 2 * CostOf(in.events),
                 Bet("H11", top, cost(top)))

H12(in) ==
  LET reads(p) == SelectSeq(Calls(in), LAMBDA e : e.tool = "read" /\ e.path = p)
      large == {p \in in.large : reads(p) # <<>>}
      top == Most(large, LAMBDA p : Len(reads(p)))
  IN  IF large = {} THEN {} ELSE Fires(Len(reads(top)) >= 2, Bet("H12", top, Len(reads(top))))

H13(in) ==
  LET mcp == SelectSeq(Calls(in), LAMBDA e : e.tool = "mcp")
      all == SessionsOf(in.events)
      sub == SessionsOf(With(in, "subagent"))
  IN  Fires(ManyOf(Calls(in)) /\ Quarter(Len(mcp), Len(Calls(in))), Bet("H13", "mcp", Len(mcp)))
      \cup Fires(Cardinality(all) >= Many /\ Quarter(Cardinality(sub), Cardinality(all)),
                 Bet("H13", "subagents", Cardinality(sub)))

H14(in) ==
  LET n == Cardinality(in.skills) + Cardinality(in.rules)
  IN  Fires(n >= Many, Bet("H14", "instruction-surface", n))

\* Many low scores, or a later half that is worse than the early one.
H15(in) ==
  LET low(seq) == Len(SelectSeq(seq, LAMBDA s : s = "low"))
      half == Len(in.scores) \div 2
  IN  Fires(\/ low(in.scores) >= Many
            \/ /\ Len(in.scores) >= 2 * Many
               /\ low(SubSeq(in.scores, half + 1, Len(in.scores))) > low(SubSeq(in.scores, 1, half)),
            Bet("H15", "low-eval-scores", low(in.scores)))

\* A pair of prompts that enough sessions used, the dearer one first; the one
\* with more errors, if they cost alike.  Where one has a mean of 0 the code
\* finds it in one order of its map only; that order is taken.
H16(in) ==
  LET group(fp) == {x[1] : x \in {y \in in.prints : y[2] = fp}}
      fps == {fp \in {x[2] : x \in in.prints} : Cardinality(group(fp)) >= Many}
      cost(fp) == CostOf(SelectSeq(in.events, LAMBDA e : e.session \in group(fp)))
      errs(fp) == Len(SelectSeq(in.events, LAMBDA e : e.kind = "error" /\ e.session \in group(fp)))
      more(n(_), a, b) == n(a) * Cardinality(group(b)) > n(b) * Cardinality(group(a))
      worse(a, b) == more(cost, a, b) \/ (~more(cost, b, a) /\ more(errs, a, b))
  IN  {Bet("H16", pr[1] \o "|" \o pr[2], Cardinality(group(pr[1]))) :
         pr \in {x \in fps \X fps : worse(x[1], x[2])}}

H17(in) ==
  LET bad == SelectSeq(in.feedback, LAMBDA f : f = "bad")
  IN  Fires(Len(bad) >= 2, Bet("H17", "human-feedback", Len(bad)))

\* The ids of H18 to H22 hold the numbers they measured.
H18(in) ==
  LET depth == IF in.spans = {} THEN 0 ELSE Most({s.depth : s \in in.spans}, LAMBDA d : d)
      deepest == CHOOSE s \in in.spans : s.depth = depth
      fan == {Cardinality({s \in in.spans : s.parent = p}) : p \in {s.parent : s \in in.spans} \ {None}}
  IN  IF in.spans = {} THEN {}
      ELSE Fires(depth >= Many \/ \E n \in fan : n >= Many,
                 Bet("H18", "depth" \o ToString(depth) \o ":" \o deepest.tool, depth))

H19(in) ==
  LET n == Cardinality(SessionsOf(With(in, "pressure")))
  IN  Fires(n >= Many, Bet("H19", "pressure:" \o ToString(n), n))

H20(in) ==
  LET proxied == With(in, "proxied")
      cold == SelectSeq(proxied, LAMBDA e : "cached" \notin e.signs)
  IN  Fires(ManyOf(proxied) /\ ~Quarter(Len(proxied) - Len(cold), Len(proxied)),
            Bet("H20", "cache_hit:" \o ToString(Len(proxied) - Len(cold)), Len(cold)))

H21(in) ==
  LET retries(s) == Len(Pick(With(in, "retry"), s))
      all == SessionsOf(With(in, "retry"))
      most == IF all = {} THEN 0 ELSE retries(Most(all, retries))
      high == Cardinality({s \in all : retries(s) >= 2})
  IN  Fires(most >= Many \/ high >= Many,
            Bet("H21", "retries:" \o ToString(most) \o ":" \o ToString(high), high))

H22(in) ==
  LET cut == Len(With(in, "truncated"))
      stopped == Len(With(in, "stopped"))
  IN  Fires(Quarter(cut, stopped),
            Bet("H22", "truncation:" \o ToString(cut) \o ":" \o ToString(stopped), cut))

H23(in) ==
  LET n == Cardinality(SessionsOf(With(in, "open_todos")))
  IN  Fires(n >= Many, Bet("H23", "todo_abandon", n))

H24(in) ==
  LET rejects == Len(SelectSeq(in.events, LAMBDA e : e.kind = "hook" /\ "reject" \in e.signs))
      edits == SelectSeq(Calls(in), LAMBDA e : e.tool = "edit")
  IN  Fires(ManyOf(edits) /\ Quarter(rejects, Len(edits)), Bet("H24", "reject_diff", rejects))

H25(in) ==
  LET turns == With(in, "mode")
      n == Cardinality(SessionsOf(turns))
  IN  Fires(n >= 2 /\ Len(turns) >= Many * n, Bet("H25", "mode_thrash", Len(turns)))

H27(in) ==
  LET bad == {o \in ToSet(in.outcomes) : /\ o.passed + o.failed >= Many
                                         /\ Quarter(o.failed, o.passed + o.failed)}
      worst == CHOOSE o \in bad : \A p \in bad : o.failed * (p.passed + p.failed) >= p.failed * (o.passed + o.failed)
  IN  IF bad = {} THEN {} ELSE {Bet("H27", "fail:" \o worst.session, worst.failed)}

H28(in) ==
  LET heavy == {o \in ToSet(in.outcomes) : o.reverted >= Many}
      worst == Most(heavy, LAMBDA o : o.reverted)
  IN  IF heavy = {} THEN {} ELSE {Bet("H28", "revert:" \o worst.session, worst.reverted)}

\* The first row that fits, of a sequence.
FirstBet(rows, fits(_), h, what) ==
  LET found == SelectSeq(rows, fits)
  IN  IF found = <<>> THEN {} ELSE {Bet(h, what \o found[1].session, 1)}

H29(in) == FirstBet(in.outcomes, LAMBDA o : o.lint > Many \/ o.failed > 0, "H29", "quality:")
H30(in) == FirstBet(in.samples, LAMBDA a : a.cpu, "H30", "cpu:")
H31(in) == FirstBet(in.samples, LAMBDA a : a.rss, "H31", "mem:")
H32(in) == FirstBet(in.samples, LAMBDA a : a.count >= Many, "H32", "long:")

ToolsOf(in, s) ==
  LET mine == SelectSeq(Pick(Calls(in), s), LAMBDA e : e.tool # None)
  IN  [i \in DOMAIN mine |-> mine[i].tool]

\* Runs of one tool.
H33Runs(in) ==
  LET long(s, t) == {i \in DOMAIN ToolsOf(in, s) :
                       /\ i + Many - 1 <= Len(ToolsOf(in, s))
                       /\ \A j \in i..(i + Many - 1) : ToolsOf(in, s)[j] = t}
      tools == {e.tool : e \in ToSet(Calls(in))} \ {None}
  IN  {Bet("H33", "run:" \o t, 1) :
         t \in {x \in tools : \E s \in SessionsOf(Calls(in)) : long(s, x) # {}}}

\* Three times for two tools, twice for three; the search goes on behind them.
H33Subseq(in) ==
  LET repeats(t, i, k) ==
        Cardinality({r \in 1..Len(t) : \A q \in 0..(r-1) :
                       /\ i + (q + 1) * k - 1 <= Len(t)
                       /\ SubSeq(t, i + q * k, i + (q + 1) * k - 1) = SubSeq(t, i, i + k - 1)})
      cycles(t, k) ==
        LET from[i \in 1..(Len(t) + 1)] ==
              IF i + 2 * k - 1 > Len(t) THEN {}
              ELSE IF repeats(t, i, k) < 2 THEN from[i + 1]
              ELSE Fires(repeats(t, i, k) >= 5 - k, SubSeq(t, i, i + k - 1)) \cup from[i + repeats(t, i, k) * k]
        IN  from[1]
  IN  {Bet("H33", FoldLeft(LAMBDA a, b : a \o "+" \o b, "subseq:", p), 2) :
         p \in UNION {cycles(ToolsOf(in, s), 2) \cup cycles(ToolsOf(in, s), 3) : s \in SessionsOf(Calls(in))}}

AllBets(in) ==
  H1(in) \cup H2(in) \cup H3(in) \cup H4(in) \cup H5(in) \cup H6(in) \cup H7(in) \cup H8(in)
    \cup H9(in) \cup H10(in) \cup H11(in) \cup H12(in) \cup H13(in) \cup H14(in) \cup H15(in)
    \cup H16(in) \cup H17(in) \cup H18(in) \cup H19(in) \cup H20(in) \cup H21(in) \cup H22(in)
    \cup H23(in) \cup H24(in) \cup H25(in) \cup H27(in) \cup H28(in) \cup H29(in) \cup H30(in)
    \cup H31(in) \cup H32(in) \cup H33Runs(in) \cup H33Subseq(in)

-----------------------------------------------------------------------------
(* The choice of the bets of a report. *)

High == {"H1", "H29", "H9", "H10", "H12", "H19", "H21", "H27", "H33"}
Medium == {"H2", "H3", "H11", "H14", "H22", "H24", "H7", "H20", "H28", "H30", "H31", "H32"}

Confidence(b) == IF b.h \in High THEN "High" ELSE IF b.h \in Medium THEN "Medium" ELSE "Low"

Category(b) ==
  CASE b.h \in {"H1", "H29"} -> "quick_win"
    [] b.h \in {"H9", "H10", "H12", "H19", "H21", "H27", "H33",
                 "H2", "H3", "H11", "H14", "H22", "H24"} -> "investigation"
    [] OTHER -> "hygiene"

Score(b) == b.n * (CASE Confidence(b) = "High" -> 10 [] Confidence(b) = "Medium" -> 6 [] OTHER -> 3)

\* By score, then by the recency of the evidence: files are old, events new.
Better(a, b) ==
  Score(a) > Score(b) \/ (Score(a) = Score(b) /\ a.h # "H1" /\ b.h = "H1")

Ranked(bets) ==
  LET insert(b, seq) ==
        LET ahead == SelectSeq(seq, LAMBDA c : ~Better(b, c))
        IN  ahead \o <<b>> \o SubSeq(seq, Len(ahead) + 1, Len(seq))
  IN  FoldSet(insert, <<>>, bets)

Id(b) == <<b.h, ":", b.of>>

Available(ranked, prior) ==
  SelectSeq(ranked, LAMBDA b : Id(b) \notin prior)

\* What each heading of a report has room for.
Top(candidates) == {b \in ToSet(candidates) : Confidence(b) = "High"}

Investigate(candidates) ==
  {b \in ToSet(candidates) : Category(b) = "investigation" /\ Confidence(b) \in {"High", "Medium"}}

QuickOrClean(candidates) == {b \in ToSet(candidates) : Category(b) \in {"quick_win", "hygiene"}}

\* The best candidates that fit and are not chosen yet.
PushMatches(out, candidates, limit, fit) ==
  LET found == SelectSeq(candidates, LAMBDA b : b \in fit /\ \A i \in DOMAIN out : Id(out[i]) # Id(b))
  IN  out \o SubSeq(found, 1, IF limit < Len(found) THEN limit ELSE Len(found))

\* Chosen without a look at the top bet.
SelectGroupedBets_Again(candidates) ==
  PushMatches(<<>>, candidates, 1, Top(candidates))
    \o PushMatches(<<>>, candidates, 2, Investigate(candidates))
    \o PushMatches(<<>>, candidates, 2, QuickOrClean(candidates))

SelectGroupedBets(candidates) ==
  LET top == PushMatches(<<>>, candidates, 1, Top(candidates))
      investigate == PushMatches(top, candidates, 2, Investigate(candidates))
  IN  PushMatches(investigate, candidates, 2, QuickOrClean(candidates))

-----------------------------------------------------------------------------
(* The reports. *)

\* What a heading holds between its last parentheses.
Heading(b) == <<b.h, "-", Confidence(b), "-", Category(b)>>

\* What headings of reports on disk look like ids.
PriorBetFingerprints ==
  {h \in {Heading(b) : b \in UNION {ToSet(reports[w].bets) : w \in DOMAIN reports}} :
     ":" \in ToSet(h)}

Idle == [pc |-> "idle"]

Init ==
  /\ week = 1 /\ traces \in Windows /\ tables \in Tables /\ reports = <<>>
  /\ runner = [r \in Runners |-> Idle]

\* Sessions record events.
Record ==
  /\ traces' \in {w \in Windows : IsStrictPrefix(traces, w)}
  /\ UNCHANGED <<week, tables, reports, runner>>

NextWeek ==
  /\ week < MaxWeek /\ week' = week + 1
  /\ traces' \in Windows
  /\ UNCHANGED <<tables, reports, runner>>

\* compute_retro.
Compute(r) ==
  /\ runner[r].pc = "idle"
  /\ \E source \in {"local", "provider", "mixed"} :
       LET from == Available(Ranked(AllBets(Inputs(source))), PriorBetFingerprints)
           report == [bets |-> SelectGroupedBets(from), from |-> ToSet(from)]
       IN  \E force \in BOOLEAN :
             runner' = [runner EXCEPT ![r] =
                          [pc |-> "computed", week |-> week, force |-> force, report |-> report]]
  /\ UNCHANGED <<week, traces, tables, reports>>

\* With --json or --dry-run, or because the report is there, nothing is written.
PrintOnly(r) ==
  /\ runner[r].pc = "computed"
  /\ runner' = [runner EXCEPT ![r] = Idle]
  /\ UNCHANGED <<week, traces, tables, reports>>

Decide(r) ==
  /\ runner[r].pc = "computed"
  /\ runner[r].week \in DOMAIN reports => runner[r].force
  /\ runner' = [runner EXCEPT ![r].pc = "write"]
  /\ UNCHANGED <<week, traces, tables, reports>>

\* Under the lock of the reports directory, by renaming a file.
WriteAtomic(r) ==
  /\ runner[r].pc = "write"
  /\ reports' = (runner[r].week :> runner[r].report) @@ reports
  /\ runner' = [runner EXCEPT ![r] = Idle]
  /\ UNCHANGED <<week, traces, tables>>

Next ==
  \/ Record \/ NextWeek
  \/ \E r \in Runners : Compute(r) \/ PrintOnly(r) \/ Decide(r) \/ WriteAtomic(r)

Spec == Init /\ [][Next]_vars

-----------------------------------------------------------------------------
(* Properties. *)

(* Reports and commands have their types. *)
TypeOK ==
  /\ week \in 1..MaxWeek /\ tables \in Tables /\ traces \in Windows
  /\ \A w \in DOMAIN reports : w \in 1..week /\ ToSet(reports[w].bets) \subseteq reports[w].from
  /\ \A r \in Runners : runner[r].pc \in {"idle", "computed", "write"}

\* chosen are n of the candidates, or all, and none left out is better.
BestOf(chosen, n, candidates) ==
  /\ chosen \subseteq candidates
  /\ Cardinality(chosen) = IF n < Cardinality(candidates) THEN n ELSE Cardinality(candidates)
  /\ \A b \in chosen, c \in candidates \ chosen : ~Better(c, b)

(***************************************************************************)
(* The body of a report is 1 + 2 + 2, without a repetition: the best bet   *)
(* of high confidence first, then the two best investigations and the two  *)
(* best of the rest that are left ("selects the report body as 1 + 2 + 2", *)
(* docs/retro.md).                                                         *)
(***************************************************************************)
ReportsHoldTheBest ==
  \A w \in DOMAIN reports :
    LET bets == reports[w].bets
        from == reports[w].from
        sure == {b \in from : Confidence(b) = "High"}
        top  == IF sure = {} THEN {} ELSE {bets[1]}
        hard == {b \in from : Category(b) = "investigation"} \ top
        easy == {b \in from : Category(b) # "investigation"} \ top
    IN  /\ IsInjective(bets)
        /\ sure # {} => BestOf(top, 1, sure)
        /\ BestOf(ToSet(bets) \cap hard, 2, hard)
        /\ BestOf(ToSet(bets) \cap easy, 2, easy)

(***************************************************************************)
(* A bet of one week's report is not in another one ("It dedupes previous  *)
(* reports", docs/retro.md).  Headings hold the id of the heuristic, not   *)
(* that of the bet, and prior_bet_fingerprints finds none.                 *)
(***************************************************************************)
BetsAreNotRepeated ==
  \A v, w \in DOMAIN reports :
    v # w => \A b \in ToSet(reports[v].bets), c \in ToSet(reports[w].bets) : Id(b) # Id(c)

=============================================================================
