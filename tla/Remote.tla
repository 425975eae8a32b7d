-------------------------------- MODULE Remote --------------------------------
(***************************************************************************)
(* The events that a team's telemetry provider holds, the cache of them in *)
(* the store (provider/, store/remote_cache.rs), how commands refresh it   *)
(* (shell/remote_pull.rs) and what they add of it to their own numbers     *)
(* (shell/remote_observe.rs).  Agents, models and tools are numbers, in    *)
(* the order of their names; a day is one step of the clock.               *)
(***************************************************************************)
EXTENDS RemoteCache, Sequences, FiniteSetsExt

CONSTANTS
  Commands,    \* processes that read with --source
  Events,      \* [in, seq, ts, agent, model, tool, cost, tokens, parses]
  Local,       \* the summary of the local store
  Team,        \* whether sync has a team, with its salt
  Ttl,
  TopTools, TopTokens, TopInsights,  \* how many rows a report keeps
  MaxTime, MaxFaults,  \* bounds
  None

VARIABLES
  work,   \* what each command does
  shown,  \* what the last command printed
  faults

vars == <<teamNow, provider, remoteEvents, pullState, work, shown, faults, whole>>
stored == <<remoteEvents, pullState, whole>>

Idle == [step |-> "idle", source |-> None, at |-> 0, page |-> <<>>, whole |-> TRUE]

Nothing == [summary |-> None, insights |-> None, in_window |-> 0, tools |-> None]

Init ==
  /\ teamNow = 0
  /\ provider = <<>> /\ remoteEvents = <<>>
  /\ pullState = None /\ whole = FALSE
  /\ work = [c \in Commands |-> Idle]
  /\ shown = Nothing
  /\ faults = 0

Sub(a, b) == IF a > b THEN a - b ELSE 0

-----------------------------------------------------------------------------
(* Numbers: a table of counts is a function from names. *)

Counts(rows, name(_), n(_, _)) ==
  [k \in {name(r) : r \in rows} |-> n(k, {r \in rows : name(r) = k})]

SessionsOf(rows) == Cardinality({r.in : r \in rows})

SumOf(rows, n(_)) == MapThenSumSet(n, rows)

\* The names with the most, and of equals the first.
Top(table, n) ==
  LET Ahead(k) == {j \in DOMAIN table : table[j] > table[k] \/ (table[j] = table[k] /\ j < k)}
  IN [k \in {k \in DOMAIN table : Cardinality(Ahead(k)) < n} |-> table[k]]

At(table, k) == IF k \in DOMAIN table THEN table[k] ELSE 0

MergeCountRows(a, b) == [k \in DOMAIN a \cup DOMAIN b |-> At(a, k) + At(b, k)]

SessionsByDay(rows) ==
  [i \in 1..7 |->
     SessionsOf({r \in rows : r.ts >= Sub(teamNow, 7) /\ r.ts = Sub(teamNow, 7 - i)})]

\* Of a session its events' costs, of which there may be several.
SessionsWithCost_Events(rows) == Cardinality({r \in rows : r.cost # None})

SessionsWithCost(rows) == SessionsOf({r \in rows : r.cost # None})

RemoteEventAggregate ==
  LET rows == {remoteEvents[k] : k \in DOMAIN remoteEvents}
      called == {r \in rows : r.tool # None}
      Cost(r) == IF r.cost = None THEN 0 ELSE r.cost
      Tool(r) == r.tool
      Tokens(r) == r.tokens
      ByTool(k, rs) == Cardinality(rs)
      ByTokens(k, rs) == SumOf(rs, Tokens)
      Agent(r) == r.agent
      Model(r) == r.model
      Sessions(k, rs) == SessionsOf(rs)
  IN [sessions |-> SessionsOf(rows), events |-> Cardinality(rows), cost |-> SumOf(rows, Cost),
      with_cost |-> SessionsWithCost(rows),
      by_agent |-> Counts(rows, Agent, Sessions), by_model |-> Counts(rows, Model, Sessions),
      top_tools |-> Top(Counts(called, Tool, ByTool), TopTools),
      tool_tokens |-> Top(Counts(called, Tool, ByTokens), TopTokens),
      by_day |-> SessionsByDay(rows)]

\* The headline of a command: its own, the team's, or the two added up.
MergeSummaryStats(r, source) ==
  CASE r.events = 0 \/ source = "local" -> Local
    [] source = "provider" -> r
    [] source = "mixed" ->
         [Local EXCEPT !.sessions = @ + r.sessions, !.cost = @ + r.cost,
                       !.by_agent = MergeCountRows(@, r.by_agent),
                       !.by_model = MergeCountRows(@, r.by_model),
                       !.top_tools = MergeCountRows(@, r.top_tools)]

MergeInsightsStats(r, source) ==
  CASE r.events = 0 \/ source = "local" -> Local
    [] source = "provider" -> [r EXCEPT !.top_tools = Top(@, TopInsights)]
    [] source = "mixed" ->
         [Local EXCEPT !.sessions = @ + r.sessions, !.events = @ + r.events, !.cost = @ + r.cost,
                       !.with_cost = @ + r.with_cost,
                       !.by_day = [i \in 1..7 |-> @[i] + r.by_day[i]],
                       !.top_tools = Top(MergeCountRows(@, r.top_tools), TopInsights)]

MergeGuidanceSessions(r, source) ==
  CASE r.events = 0 \/ source = "local" -> Local.sessions
    [] source = "provider" -> Max({Local.sessions, r.sessions})
    [] source = "mixed" -> Local.sessions + r.sessions

\* Tools with their calls and tokens; of the files nothing is known.
ApplyRemoteToMetrics(r, source) ==
  IF source = "local" \/ r.events = 0
  THEN [slowest |-> Local.top_tools, tokens |-> Local.tool_tokens]
  ELSE [slowest |-> Top(MergeCountRows(Local.top_tools, r.top_tools), 10),
        tokens |-> Top(MergeCountRows(Local.tool_tokens,
                         [k \in DOMAIN r.top_tools |-> At(r.tool_tokens, k)]), 10)]

-----------------------------------------------------------------------------
(* The provider. *)

\* Some machine of the team exports an event, at once or late.
Export(e) ==
  /\ e \in Events \ DOMAIN provider /\ e.ts <= teamNow
  /\ provider' = [f \in DOMAIN provider \cup {e} |-> IF f = e THEN teamNow ELSE provider[f]]
  /\ UNCHANGED <<teamNow, stored, work, shown, faults>>

\* The oldest first, and of equals in the order of the page.
Earlier(e, f) ==
  \/ e.ts < f.ts
  \/ e.ts = f.ts /\ (e.in < f.in \/ (e.in = f.in /\ e.seq < f.seq))

Sorted(S) ==
  CHOOSE s \in [1 .. Cardinality(S) -> S] :
    \A i, j \in 1 .. Cardinality(S) : i < j => Earlier(s[i], s[j])

\* One page; no cursor is followed.
PullPage ==
  LET sorted == Sorted({e \in DOMAIN provider : InWindow(e)})
  IN IF Authority = "datadog" THEN SubSeq(sorted, 1, Min({PageLimit, Len(sorted)})) ELSE <<>>

Tick ==
  /\ teamNow < MaxTime
  /\ teamNow' = teamNow + 1
  /\ UNCHANGED <<provider, stored, work, shown, faults>>

-----------------------------------------------------------------------------
(* A command. *)

Fresh == pullState # None /\ teamNow - pullState < Ttl

Start(c) ==
  /\ work[c] = Idle
  /\ \E source \in {"local", "provider", "mixed"}, refresh \in BOOLEAN :
       LET skip == source = "local" \/ Authority = "none" \/ (~refresh /\ Fresh) IN
       work' = [work EXCEPT ![c] = [Idle EXCEPT !.step = IF skip THEN "report" ELSE "pull",
                                                !.source = source, !.at = teamNow]]
  /\ UNCHANGED <<teamNow, provider, stored, shown, faults>>

\* Without a team nothing is imported.
Pull(c) ==
  /\ work[c].step = "pull"
  /\ work' = [work EXCEPT ![c].step = "import", ![c].whole = Team,
                          ![c].page = IF Team THEN PullPage ELSE <<>>]
  /\ UNCHANGED <<teamNow, provider, stored, shown, faults>>

\* The provider does not answer: the command ends with the error.
PullFails(c) ==
  /\ work[c].step = "pull" /\ faults < MaxFaults
  /\ faults' = faults + 1
  /\ work' = [work EXCEPT ![c] = Idle]
  /\ UNCHANGED <<teamNow, provider, stored, shown>>

\* Item by item, each a statement of its own; what does not parse is left.
Import(c) ==
  /\ work[c].step = "import" /\ work[c].page # <<>>
  /\ LET e == Head(work[c].page)
         key == <<e.in, e.seq>>
     IN remoteEvents' =
          IF ~e.parses THEN remoteEvents
          ELSE [k \in DOMAIN remoteEvents \cup {key} |-> IF k = key THEN e ELSE remoteEvents[k]]
  /\ work' = [work EXCEPT ![c].page = Tail(@)]
  /\ UNCHANGED <<teamNow, provider, pullState, shown, faults, whole>>

\* An insert fails: the rest is left out, and the pull counts as done.
ImportFails(c) ==
  /\ work[c].step = "import" /\ work[c].page # <<>> /\ faults < MaxFaults
  /\ faults' = faults + 1
  /\ work' = [work EXCEPT ![c].page = <<>>, ![c].whole = FALSE]
  /\ UNCHANGED <<teamNow, provider, stored, shown>>

SetPullState_Now(c) ==
  /\ work[c].step = "import" /\ work[c].page = <<>>
  /\ pullState' = teamNow /\ whole' = work[c].whole
  /\ work' = [work EXCEPT ![c].step = "report"]
  /\ UNCHANGED <<teamNow, provider, remoteEvents, shown, faults>>

\* The time is that of the start of the pull.
SetPullState(c) ==
  /\ work[c].step = "import" /\ work[c].page = <<>>
  /\ pullState' = work[c].at /\ whole' = work[c].whole
  /\ work' = [work EXCEPT ![c].step = "report"]
  /\ UNCHANGED <<teamNow, provider, remoteEvents, shown, faults>>

Report(c) ==
  /\ work[c].step = "report"
  /\ LET source == IF Team THEN work[c].source ELSE "local"
         r == RemoteEventAggregate
     IN shown' = [summary |-> MergeSummaryStats(r, source),
                  insights |-> MergeInsightsStats(r, source),
                  in_window |-> MergeGuidanceSessions(r, source),
                  tools |-> ApplyRemoteToMetrics(r, source)]
  /\ work' = [work EXCEPT ![c] = Idle]
  /\ UNCHANGED <<teamNow, provider, stored, faults>>

Next ==
  \/ Tick
  \/ \E e \in Events : Export(e)
  \/ \E c \in Commands :
       \/ Start(c) \/ Pull(c) \/ PullFails(c) \/ Import(c) \/ ImportFails(c)
       \/ SetPullState(c) \/ Report(c)

Spec == Init /\ [][Next]_vars

-----------------------------------------------------------------------------
(* The cache has what its page and its table say, and commands have steps. *)
TypeOK ==
  /\ DOMAIN provider \subseteq Events
  /\ \A k \in DOMAIN remoteEvents :
       /\ remoteEvents[k] \in DOMAIN provider
       /\ k = <<remoteEvents[k].in, remoteEvents[k].seq>>
  /\ pullState \in 0..teamNow \cup {None}
  /\ \A c \in Commands : work[c].step \in {"idle", "pull", "import", "report"}
  /\ faults \in 0..MaxFaults

(* A report adds up: no number of sessions of a part is above that of all, *)
(* and the agents and days account for sessions that there are.            *)
ReportsAddUp ==
  LET i == shown.insights
      s == shown.summary
      Count(table) == MapThenSumSet(LAMBDA k : table[k], DOMAIN table)
  IN i # None =>
       /\ i.with_cost <= i.sessions
       /\ \A d \in 1..7 : i.by_day[d] <= i.sessions
       /\ s.sessions <= Count(s.by_agent) /\ s.sessions <= Count(s.by_model)
       /\ \A k \in DOMAIN s.by_agent : s.by_agent[k] <= s.sessions
===============================================================================
