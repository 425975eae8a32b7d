------------------------------- MODULE TuiScreen -------------------------------
(***************************************************************************)
(* What the terminal UI shows and waits for, and what must hold of it      *)
(* whatever order keys and answers take.  Tui has the steps.               *)
(***************************************************************************)
EXTENDS Naturals, Sequences, SequencesExt

CONSTANT NoSession  \* nothing is selected

VARIABLES
  app,        \* App: what the UI thread owns, with its end of the channels
  responses,  \* StoreResponses on their way to the UI
  reportTask  \* the report worker: its flags, its place, news that no report has, signals

SelectedId(a) ==
  IF a.sessions.cursor \in DOMAIN a.sessions.window THEN a.sessions.window[a.sessions.cursor]
  ELSE NoSession

\* Requests and responses that have not come to their end.
Underway == ToSet(app.store_tx) \cup ToSet(responses)

\* Events and detail are those of the session under the cursor.
SelectedIsShown ==
  /\ app.last = SelectedId(app)
  /\ app.events.sid = app.last
  /\ \A i \in DOMAIN app.events.window : app.events.window[i] = <<app.last, i>>
  /\ app.detail.state \in {"loading", "ready"} => app.detail.sid = app.last

\* What is in flight has a request or a response under way.
PagesAreUnderway ==
  /\ \A i \in app.sessions.in_flight : \E m \in Underway :
       m.type = "sessions" /\ m.token = app.sessions.generation /\ m.at = i
  /\ \A i \in app.events.in_flight : \E m \in Underway :
       m.type = "events" /\ m.token = app.events.generation /\ m.at = i
  /\ app.detail.state = "loading" => \E m \in Underway :
       m.type = "detail" /\ m.token = app.detail.token

\* What no report has started from wakes the worker.
NewsWakesTheWorker ==
  reportTask.news /\ reportTask.at # "aborted" =>
    reportTask.dirty /\ (reportTask.permit \/ reportTask.at = "slot")

(* Whatever order replies, keys and refreshes take, the pane shows the      *)
(* session under the cursor and no page waits for a reply that is not under *)
(* way; no request for a report is lost (docs/tui.md "Bounded loading").    *)
ScreenIsFed == SelectedIsShown /\ PagesAreUnderway /\ NewsWakesTheWorker
================================================================================
