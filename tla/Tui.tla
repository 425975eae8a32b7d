---------------------------------- MODULE Tui ----------------------------------
(***************************************************************************)
(* The terminal UI of one workspace: the app and its two sparse windows,   *)
(* the thread that reads the store for it, the watcher of the write-ahead  *)
(* log, the refresh schedule and the task that builds the reports.  What   *)
(* is drawn is left out; a key is named by what it does.                   *)
(***************************************************************************)
EXTENDS TuiScreen, FiniteSets

CONSTANTS
  Sessions,    \* ids of the sessions
  Filtered,    \* those that the agent filter keeps
  Heights,     \* viewport heights of the terminal
  PageFloor, Prefetch, MaxPages,   \* of both views
  MaxChanges,  \* bound: writes of other processes, and resizes
  MaxFailures, \* bound: reads that fail
  MaxKeys,     \* bound: keys pressed
  None

VARIABLES
  table,      \* sessions of the workspace, newest first
  events,     \* session -> number of its events
  rated,      \* the sessions with a feedback score
  reader,     \* the store worker: it has the store open, the total it has counted
  height,     \* of the terminal
  wal,        \* the watcher: changes it has not seen, dirty, signals sent
  refresh,    \* RefreshSchedule: pending, deadline, and a refresh was recent
  changes, keys, failures

store == <<table, events, rated>>

bounds == <<changes, keys, failures>>

vars == <<store, app, reader, responses, height, wal, refresh, reportTask, bounds>>

Sub(a, b) == IF a > b THEN a - b ELSE 0

Least(a, b) == IF a < b THEN a ELSE b

Most(a, b) == IF a > b THEN a ELSE b

Near(a, b, d) == Sub(a, b) <= d /\ Sub(b, a) <= d

Keep(f, S) == [x \in DOMAIN f \cap S |-> f[x]]

PageSize(h) == Most(h + 2 * Prefetch, PageFloor)

Ascending(S) ==
  CHOOSE s \in [1 .. Cardinality(S) -> S] :
    \A i, j \in 1 .. Cardinality(S) : i < j => s[i] < s[j]

-----------------------------------------------------------------------------
(* The views.  Both keep rows by index and ask for pages by their start. *)

NewView ==
  [page |-> PageFloor, cursor |-> 0, window |-> <<>>, total |-> 0, more |-> FALSE,
   sid |-> NoSession, generation |-> 0, in_flight |-> {}, loaded |-> FALSE]

Reset(v) ==
  [NewView EXCEPT !.page = v.page, !.generation = v.generation + 1]

ViewportStart(v, h) == Sub(v.cursor + 1, h)

EvictFarPages(v) ==
  LET current == v.cursor - (v.cursor % v.page)
  IN  [v EXCEPT !.window = Keep(@, {i \in DOMAIN @ : Near(i, current, v.page * MaxPages)})]

MissingPages(v, start, end) ==
  {i \in 0..Sub(end, 1) : /\ end > 0 /\ i % v.page = 0
                          /\ i >= start - (start % v.page)
                          /\ i \notin DOMAIN v.window
                          /\ i \notin v.in_flight}

NeededPageOffsets(v, h) ==
  IF v.total = 0 /\ v.loaded THEN {}
  ELSE MissingPages(v, Sub(ViewportStart(v, h), Prefetch),
                    Least(ViewportStart(v, h) + h + Prefetch, Most(v.total, v.page)))

WithRows(window, at, rows) ==
  [i \in DOMAIN window \cup at .. (at + Len(rows) - 1) |->
     IF i < at \/ i >= at + Len(rows) THEN window[i] ELSE rows[i - at + 1]]

FinishSessionPage(v, offset, rows, total) ==
  LET w == [v EXCEPT !.in_flight = @ \ {offset}, !.total = total, !.loaded = TRUE,
                     !.cursor = Least(@, Sub(total, 1)),
                     !.window = WithRows(@, offset, rows)]
  IN  EvictFarPages(w)

VisibleEvents(v) == v.total + (IF v.more THEN 1 ELSE 0)

NeededAfterSeq(v, h) ==
  IF v.sid = NoSession \/ (v.loaded /\ ~v.more /\ v.total = 0) THEN {}
  ELSE {i \in MissingPages(v, ViewportStart(v, h), ViewportStart(v, h) + h + Prefetch) :
          v.loaded /\ ~v.more => i < v.total}

FinishEventPage(v, after, rows) ==
  LET w == [v EXCEPT !.in_flight = @ \ {after}, !.loaded = TRUE,
                     !.more = Len(rows) = v.page,
                     !.total = IF rows = <<>> THEN @ ELSE Most(@, after + Len(rows)),
                     !.window = WithRows(@, after, rows)]
  IN  EvictFarPages([w EXCEPT !.cursor = Least(@, Sub(VisibleEvents(w), 1))])

\* A page that failed stays in flight.
FinishError_Keeps(v, at) == v

FinishError(v, at) == [v EXCEPT !.in_flight = @ \ {at}]

MoveTo(v, to, size) == [v EXCEPT !.cursor = Least(to, Sub(size, 1))]

-----------------------------------------------------------------------------
(* Requests: each adds to store_tx what the views miss. *)

Send(a, messages) == [a EXCEPT !.store_tx = @ \o messages]

RequestSessionPages(a) ==
  LET missing == NeededPageOffsets(a.sessions, a.height)
      ask(offset) == [type |-> "sessions", token |-> a.sessions.generation, at |-> offset,
                      limit |-> a.sessions.page, filter |-> a.filter]
      asked == Ascending(missing)
  IN  Send([a EXCEPT !.sessions.in_flight = @ \cup missing], [i \in DOMAIN asked |-> ask(asked[i])])

RequestEventPages(a) ==
  LET missing == NeededAfterSeq(a.events, a.height)
      ask(seq) == [type |-> "events", token |-> a.events.generation, sid |-> a.events.sid,
                   at |-> seq, limit |-> a.events.page]
      asked == Ascending(missing)
  IN  Send([a EXCEPT !.events.in_flight = @ \cup missing], [i \in DOMAIN asked |-> ask(asked[i])])

FeedbackIds(a) ==
  LET start == ViewportStart(a.sessions, a.height)
      visible == start..Sub(Least(start + a.height, Most(a.sessions.total, start)), 1)
  IN  {a.sessions.window[i] : i \in visible \cap DOMAIN a.sessions.window} \ a.scores

RequestFeedbackForViewport(a) ==
  IF FeedbackIds(a) = {} THEN a
  ELSE Send([a EXCEPT !.feedback_token = @ + 1],
            <<[type |-> "feedback", token |-> a.feedback_token + 1, ids |-> FeedbackIds(a)]>>)

StartDetailRequest(a, id) ==
  Send([a EXCEPT !.events       = IF @.sid = id THEN @ ELSE [Reset(@) EXCEPT !.sid = id],
                 !.detail_token = @ + 1,
                 !.detail       = [state |-> "loading", token |-> a.detail_token + 1, sid |-> id],
                 !.last         = id],
       <<[type |-> "detail", token |-> a.detail_token + 1, sid |-> id]>>)

ClearSelection(a) ==
  [a EXCEPT !.detail = [state |-> "idle"], !.events = Reset(@), !.last = NoSession]

RequestSelectedDetail(a) ==
  IF SelectedId(a) = NoSession THEN ClearSelection(a)
  ELSE IF SelectedId(a) = a.last THEN RequestEventPages(a)
  ELSE RequestEventPages(StartDetailRequest(a, SelectedId(a)))

MarkReportDirty(r) == [r EXCEPT !.dirty = TRUE, !.permit = TRUE, !.news = TRUE]

\* What a view shows: a full refresh forgets it, a refresh asks for what is missing.
RefreshFull(a) ==
  RequestSessionPages([ClearSelection(a) EXCEPT !.sessions = Reset(@)])

Refresh(a) ==
  RequestEventPages(RequestSelectedDetail(RequestSessionPages(a)))

AfterSessionCursorMove(a) ==
  RequestSelectedDetail(RequestFeedbackForViewport(RequestSessionPages(a)))

-----------------------------------------------------------------------------
(* Responses: those of an older generation or selection are dropped. *)

ApplySessionPage(a, r) ==
  IF r.token # a.sessions.generation THEN a
  ELSE IF r.ok
       THEN RequestSelectedDetail(RequestFeedbackForViewport(
              [a EXCEPT !.sessions = FinishSessionPage(@, r.at, r.rows, r.total), !.error = FALSE]))
       ELSE [a EXCEPT !.sessions = FinishError(@, r.at), !.error = TRUE]

ApplyEventPage(a, r) ==
  IF r.token # a.events.generation \/ r.sid # a.events.sid THEN a
  ELSE IF r.ok
       THEN [a EXCEPT !.events = FinishEventPage(@, r.at, r.rows)]
       ELSE [a EXCEPT !.events = FinishError(@, r.at), !.error = TRUE]

\* Any detail ends the loading.
ApplyDetail_Any(a, r) ==
  IF a.detail.state # "loading" THEN a
  ELSE [a EXCEPT !.detail = IF r.ok THEN [state |-> "ready", sid |-> r.sid] ELSE [state |-> "error"]]

ApplyDetail(a, r) ==
  IF a.detail # [state |-> "loading", token |-> r.token, sid |-> r.sid] THEN a
  ELSE [a EXCEPT !.detail = IF r.ok THEN [state |-> "ready", sid |-> r.sid] ELSE [state |-> "error"]]

ApplyFeedback(a, r) ==
  IF r.token # a.feedback_token THEN a
  ELSE IF r.ok THEN [a EXCEPT !.scores = @ \cup r.scores] ELSE [a EXCEPT !.error = TRUE]

-----------------------------------------------------------------------------
(* Keys. *)

Focused(a) == a.metrics_shown \/ a.left_focus

Moved(v, key, size) ==
  CASE key = "down"  -> MoveTo(v, v.cursor + 1, size)
    [] key = "up"    -> MoveTo(v, Sub(v.cursor, 1), size)
    [] key = "first" -> [v EXCEPT !.cursor = 0]
    [] key = "last"  -> MoveTo(v, size, size)

MoveCursor(a, key) ==
  IF Focused(a)
  THEN AfterSessionCursorMove([a EXCEPT !.sessions = Moved(@, key, @.total)])
  ELSE RequestEventPages([a EXCEPT !.events = Moved(@, key, VisibleEvents(@))])

NormalKey(a, key) ==
  CASE key = "filter"  -> [a EXCEPT !.filter_mode = TRUE, !.buffer = a.filter]
    [] key = "help"    -> [a EXCEPT !.help = ~@]
    [] key = "metrics" -> [a EXCEPT !.metrics_shown = ~@]
    [] key = "pane"    -> [a EXCEPT !.left_focus = ~@]
    [] key = "quit"    -> IF a.help THEN [a EXCEPT !.help = FALSE] ELSE [a EXCEPT !.shown = FALSE]
    [] key = "close"   -> [a EXCEPT !.help = FALSE, !.shown = FALSE]
    [] key = "refresh" -> RefreshFull(a)
    [] key \in {"down", "up", "first", "last"} -> MoveCursor(a, key)
    [] key = "enter"   -> [a EXCEPT !.shown = ~@]

FilterKey(a, key) ==
  CASE key = "enter" -> RefreshFull([a EXCEPT !.filter = a.buffer, !.filter_mode = FALSE])
    [] key = "close" -> [a EXCEPT !.filter_mode = FALSE, !.buffer = FALSE]
    [] key = "type"  -> [a EXCEPT !.buffer = TRUE]
    [] key = "erase" -> [a EXCEPT !.buffer = FALSE]

\* The keys that do something; q and Esc quit when nothing covers the main view.
KeysFor(a) ==
  IF a.filter_mode THEN {"enter", "close", "type", "erase"}
  ELSE {"filter", "help", "metrics", "pane", "close", "refresh", "down", "up", "first", "last"}
       \cup {key \in {"quit"} : a.shown \/ a.help}
       \cup {key \in {"enter"} : a.events.cursor \in DOMAIN a.events.window /\ ~a.metrics_shown}

IsFullRefresh(a, key) ==
  IF a.filter_mode THEN key = "enter" ELSE key = "refresh"

-----------------------------------------------------------------------------
(* The UI loop: it draws, then waits for one of its sources. *)

NewApp ==
  [sessions |-> NewView, events |-> NewView, detail |-> [state |-> "idle"], last |-> NoSession,
   scores |-> {}, feedback_token |-> 0, detail_token |-> 0, error |-> FALSE,
   filter |-> FALSE, buffer |-> FALSE, filter_mode |-> FALSE, help |-> FALSE, shown |-> FALSE,
   metrics_shown |-> FALSE, left_focus |-> TRUE, height |-> CHOOSE h \in Heights : TRUE,
   store_tx |-> <<>>, draw |-> TRUE, running |-> TRUE]

Rows(S) ==
  LET at == Ascending({i \in DOMAIN table : table[i] \in S})
  IN  [k \in DOMAIN at |-> table[at[k]]]

Init ==
  /\ table \in {Ascending(S) : S \in SUBSET Sessions}
  /\ events \in [Sessions -> 0..1]
  /\ rated = {}
  /\ app = RequestSessionPages(NewApp)
  /\ reader \in [open : BOOLEAN, total : {None}]
  /\ responses = <<>>
  /\ height \in Heights
  /\ wal = [unseen |-> 0, dirty |-> FALSE, signals |-> 0]
  /\ refresh = [pending |-> FALSE, deadline |-> FALSE, recent |-> FALSE]
  /\ reportTask = [dirty |-> TRUE, permit |-> TRUE, at |-> "waiting", news |-> TRUE, signals |-> 0]
  /\ changes = 0
  /\ keys = 0
  /\ failures = 0

DrawIfNeeded ==
  /\ app.running /\ app.draw
  /\ LET sized == [app EXCEPT !.height = height, !.draw = FALSE,
                              !.sessions.page = PageSize(height), !.events.page = PageSize(height)]
     IN  app' = RequestEventPages(RequestSessionPages(sized))
  /\ UNCHANGED <<store, reader, responses, height, wal, refresh, reportTask, bounds>>

Listening == app.running /\ ~app.draw

Drawn(a) == [a EXCEPT !.draw = TRUE]

ApplyStoreResponse ==
  /\ Listening /\ responses # <<>>
  /\ LET r == Head(responses) IN
     app' = Drawn(CASE r.type = "sessions" -> ApplySessionPage(app, r)
                    [] r.type = "events"   -> ApplyEventPage(app, r)
                    [] r.type = "detail"   -> ApplyDetail(app, r)
                    [] OTHER               -> ApplyFeedback(app, r))
  /\ responses' = Tail(responses)
  /\ UNCHANGED <<store, reader, height, wal, refresh, reportTask, bounds>>

RefreshNow == app' = Drawn(Refresh(app)) /\ reportTask' = MarkReportDirty(reportTask)

OnDeadline ==
  /\ Listening /\ refresh.deadline /\ ~refresh.recent
  /\ refresh' = [pending |-> FALSE, deadline |-> FALSE, recent |-> refresh.pending]
  /\ IF refresh.pending THEN RefreshNow ELSE UNCHANGED <<app, reportTask>>
  /\ UNCHANGED <<store, reader, responses, height, wal, bounds>>

OnWal ==
  /\ Listening /\ wal.signals > 0
  /\ wal' = [wal EXCEPT !.signals = @ - 1, !.dirty = FALSE]
  /\ IF ~wal.dirty THEN UNCHANGED <<app, reportTask, refresh>>
     ELSE IF refresh.recent
          THEN /\ refresh' = [refresh EXCEPT !.pending = TRUE, !.deadline = TRUE]
               /\ UNCHANGED <<app, reportTask>>
          ELSE refresh' = [refresh EXCEPT !.recent = TRUE] /\ RefreshNow
  /\ UNCHANGED <<store, reader, responses, height, bounds>>

OnReport ==
  /\ Listening /\ reportTask.signals > 0
  /\ app' = Drawn(app)
  /\ reportTask' = [reportTask EXCEPT !.signals = @ - 1]
  /\ UNCHANGED <<store, reader, responses, height, wal, refresh, bounds>>

HandleKey(key) ==
  /\ Listening /\ keys < MaxKeys
  /\ app' = Drawn(IF app.filter_mode THEN FilterKey(app, key) ELSE NormalKey(app, key))
  /\ reportTask' = IF IsFullRefresh(app, key) THEN MarkReportDirty(reportTask) ELSE reportTask
  /\ keys' = keys + 1
  /\ UNCHANGED <<store, reader, responses, height, wal, refresh, changes, failures>>

Quit ==
  /\ Listening /\ keys < MaxKeys
  /\ ~app.filter_mode /\ ~app.shown /\ ~app.help
  /\ app' = [app EXCEPT !.running = FALSE]
  /\ reportTask' = [reportTask EXCEPT !.at = "aborted"]
  /\ keys' = keys + 1
  /\ UNCHANGED <<store, reader, responses, height, wal, refresh, changes, failures>>

\* 100 ms have passed since the last refresh.
Tick ==
  /\ refresh.recent
  /\ refresh' = [refresh EXCEPT !.recent = FALSE]
  /\ UNCHANGED <<store, app, reader, responses, height, wal, reportTask, bounds>>

-----------------------------------------------------------------------------
(* The store worker: one request at a time, each query on what is there *)
(* then.  A page of sessions is counted first and read after.           *)

Reply(request, ok, rows, total) ==
  CASE request.type = "sessions" ->
         [type |-> "sessions", token |-> request.token, at |-> request.at, ok |-> ok,
          rows |-> rows, total |-> total]
    [] request.type = "events" ->
         [type |-> "events", token |-> request.token, sid |-> request.sid, at |-> request.at,
          ok |-> ok, rows |-> rows]
    [] request.type = "detail" ->
         [type |-> "detail", token |-> request.token, sid |-> request.sid, ok |-> ok]
    [] OTHER ->
         [type |-> "feedback", token |-> request.token, ok |-> ok, scores |-> IF ok THEN rows ELSE {}]

Page(rows, offset, limit) == SubSeq(rows, offset + 1, Least(offset + limit, Len(rows)))

Answer(request) ==
  CASE request.type = "sessions" ->
         Page(Rows(IF request.filter THEN Filtered ELSE Sessions), request.at, request.limit)
    [] request.type = "events" ->
         Page([i \in 1..events[request.sid] |-> <<request.sid, i - 1>>], request.at, request.limit)
    [] request.type = "detail" -> <<>>
    [] OTHER -> request.ids \cap rated

CountSessions ==
  /\ reader.open /\ reader.total = None
  /\ app.store_tx # <<>> /\ Head(app.store_tx).type = "sessions"
  /\ reader' = [reader EXCEPT !.total = Len(Rows(IF Head(app.store_tx).filter THEN Filtered ELSE Sessions))]
  /\ UNCHANGED <<store, app, responses, height, wal, refresh, reportTask, bounds>>

Respond(response) ==
  /\ responses' = Append(responses, response)
  /\ app' = [app EXCEPT !.store_tx = Tail(@)]
  /\ reader' = [reader EXCEPT !.total = None]
  /\ UNCHANGED <<store, height, wal, refresh, reportTask, changes, keys>>

HandleRequest ==
  /\ reader.open /\ app.store_tx # <<>>
  /\ LET request == Head(app.store_tx) IN
     /\ request.type = "sessions" => reader.total # None
     /\ Respond(Reply(request, TRUE, Answer(request), reader.total))
  /\ UNCHANGED failures

\* A store that does not open answers every request with an error.
HandleError ==
  /\ app.store_tx # <<>>
  /\ IF reader.open THEN failures < MaxFailures /\ failures' = failures + 1 ELSE UNCHANGED failures
  /\ Respond(Reply(Head(app.store_tx), FALSE, <<>>, 0))

-----------------------------------------------------------------------------
(* The report worker: a notification keeps one permit. *)

Working(from) ==
  /\ reportTask.at = from
  /\ UNCHANGED <<store, app, reader, responses, height, wal, refresh, bounds>>

Notified ==
  /\ Working("waiting") /\ reportTask.permit
  /\ reportTask' = [reportTask EXCEPT !.permit = FALSE, !.at = "slot"]

StartReport ==
  /\ Working("slot")
  /\ reportTask' = IF reportTask.dirty
                   THEN [reportTask EXCEPT !.dirty = FALSE, !.at = "computing", !.news = FALSE]
                   ELSE [reportTask EXCEPT !.at = "waiting"]

EndReport ==
  /\ Working("computing")
  /\ \/ reportTask' = [reportTask EXCEPT !.at = "waiting", !.signals = @ + 1]
     \/ reportTask' = [reportTask EXCEPT !.at = "waiting"]

-----------------------------------------------------------------------------
(* Other processes write to the store; the terminal is resized. *)

Changed ==
  /\ changes < MaxChanges
  /\ changes' = changes + 1
  /\ wal' = [wal EXCEPT !.unseen = 2]
  /\ UNCHANGED <<app, reader, responses, height, refresh, reportTask, keys, failures>>

NewSession(s) ==
  /\ Changed /\ s \notin ToSet(table)
  /\ table' \in {<<s>> \o table, Append(table, s)}
  /\ UNCHANGED <<events, rated>>

NewEvent(s) ==
  /\ Changed /\ s \in ToSet(table)
  /\ events' = [events EXCEPT ![s] = @ + 1]
  /\ UNCHANGED <<table, rated>>

NewScore(s) ==
  /\ Changed /\ s \in ToSet(table) \ rated
  /\ rated' = rated \cup {s}
  /\ UNCHANGED <<table, events>>

\* The watcher may report one write twice.
WalChanged ==
  /\ wal.unseen > 0
  /\ \E left \in 0..(wal.unseen - 1) :
       wal' = [unseen |-> left, dirty |-> TRUE, signals |-> wal.signals + 1]
  /\ UNCHANGED <<store, app, reader, responses, height, refresh, reportTask, bounds>>

Resize(h) ==
  /\ changes < MaxChanges /\ h # height
  /\ changes' = changes + 1
  /\ height' = h
  /\ UNCHANGED <<store, app, reader, responses, wal, refresh, reportTask, keys, failures>>

Next ==
  \/ DrawIfNeeded \/ ApplyStoreResponse \/ OnDeadline \/ OnWal \/ OnReport \/ Quit \/ Tick
  \/ CountSessions \/ HandleRequest \/ HandleError \/ Notified \/ StartReport \/ EndReport \/ WalChanged
  \/ \E key \in KeysFor(app) : HandleKey(key)
  \/ \E s \in Sessions : NewSession(s) \/ NewEvent(s) \/ NewScore(s)
  \/ \E h \in Heights : Resize(h)

Spec == Init /\ [][Next]_vars

-----------------------------------------------------------------------------
(* Properties. *)

ViewOK(v) ==
  /\ v.cursor \in Nat /\ v.total \in Nat /\ v.generation \in Nat
  /\ DOMAIN v.window \subseteq Nat /\ v.in_flight \subseteq Nat

(* The variables keep their types. *)
TypeOK ==
  /\ ToSet(table) \subseteq Sessions
  /\ events \in [Sessions -> Nat]
  /\ ViewOK(app.sessions) /\ ViewOK(app.events)
  /\ app.last \in Sessions \cup {NoSession}
  /\ reportTask.at \in {"waiting", "slot", "computing", "aborted"}
=============================================================================
