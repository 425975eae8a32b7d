------------------------------ MODULE TailParsers ------------------------------
(***************************************************************************)
(* The transcript parsers of collect/tail: how each agent's transcript     *)
(* turns into events and their seqs, scan after scan, while the agent      *)
(* writes.  A line, or a message of a JSON document or database, is        *)
(* reduced to its tool blocks, in the places where parsers look for them,  *)
(* and the working directory it names.                                     *)
(***************************************************************************)
EXTENDS Integers, Sequences, FiniteSets, SequencesExt

CONSTANTS
  Agents,    \* the parsers that come up
  Lines,     \* bound: the complete lines an agent may write
  MaxLines,  \* bound: lines of a transcript
  None

VARIABLES
  agent,    \* whose transcript this is
  root,     \* the workspace its metadata name: "here" or "away"
  files,    \* the files of the session in the order of their names
  log,      \* rows of events: [seq, kind, from]
  session,  \* the session row exists
  fresh     \* the transcript has not changed since a scan that took it

vars == <<agent, root, files, log, session, fresh>>

Dirs     == {"claude", "cursor", "codex", "vibe"}
ByLine   == {"claude_code", "codex_desktop", "modern"}
ByFilled == Dirs \cup {"openclaw", "copilot_cli"}
ByUsed   == {"goose", "goose_legacy"}
ByEvent  == {"opencode", "vscode_json", "vscode_jsonl"}
Documents == {"goose", "opencode", "vscode_json"}

Blank == [json |-> "blank", content |-> <<>>, calls |-> 0, parts |-> <<>>, flat |-> None,
          cwd |-> None]
Half  == [Blank EXCEPT !.json = "bad"]

-----------------------------------------------------------------------------
(* The events of one line. *)

ToolBlocks(blocks) ==
  LET tools == SelectSeq(blocks, LAMBDA b : b # "text")
  IN  [i \in DOMAIN tools |-> IF tools[i] = "todo" THEN "call" ELSE tools[i]]

First(kinds) == SubSeq(kinds, 1, IF kinds = <<>> THEN 0 ELSE 1)

Calls(n) == [i \in 1..n |-> "call"]

\* Option::or_else along a list of what was found.
FirstFound(found) ==
  LET some == SelectSeq(found, LAMBDA kinds : kinds # <<>>)
  IN  IF some = <<>> THEN <<>> ELSE First(some[1])

ClaudeLine(line) == First(ToolBlocks(line.content))

VibeLine(line) == First(ToolBlocks(line.content))

CursorLine_AnyTool(line) == First(SelectSeq(line.content, LAMBDA b : b # "text"))

\* A call of TodoWrite is a lifecycle event.
CursorLine(line) ==
  LET tools == SelectSeq(line.content, LAMBDA b : b # "text")
  IN  IF tools # <<>> /\ tools[1] = "todo" THEN <<"lifecycle">> ELSE First(tools)

CodexLine(line) == First(Calls(line.calls))

OpenclawLine(line) == FirstFound(<<ToolBlocks(line.content), Calls(line.calls)>>)

\* A tool named on the line itself is a call, whatever the line is.
CopilotLine(line) ==
  FirstFound(<<Calls(line.calls), IF line.flat \in {"call", "result"} THEN <<"call">> ELSE <<>>>>)

CodexDesktopLine(line) == IF line.flat = None THEN <<>> ELSE <<line.flat>>

ModernLine(line) ==
  FirstFound(<<ToolBlocks(line.content), Calls(line.calls),
               IF line.flat = "result" THEN <<"result">> ELSE <<>>,
               ToolBlocks(line.parts),
               IF line.flat = "call" THEN <<"call">> ELSE <<>>>>)

GooseMessage(line) == ToolBlocks(line.content)

OpencodeMessage(line) ==
  ToolBlocks(line.parts) \o Calls(line.calls) \o ToolBlocks(line.content)

\* The requests of a turn, then the invocations in its response.
VscodeTurn(line) ==
  Calls(line.calls) \o SelectSeq(line.parts, LAMBDA b : b = "call")

VscodeRequests(line) == Calls(line.calls)

LineEvents(line) ==
  IF line.json # "ok" THEN <<>>
  ELSE CASE agent \in {"claude", "claude_code"} -> ClaudeLine(line)
         [] agent = "vibe"          -> VibeLine(line)
         [] agent = "cursor"        -> CursorLine(line)
         [] agent = "codex"         -> CodexLine(line)
         [] agent = "openclaw"      -> OpenclawLine(line)
         [] agent = "copilot_cli"   -> CopilotLine(line)
         [] agent = "codex_desktop" -> CodexDesktopLine(line)
         [] agent = "modern"        -> ModernLine(line)
         [] agent \in ByUsed        -> GooseMessage(line)
         [] agent = "opencode"      -> OpencodeMessage(line)
         [] agent = "vscode_json"   -> VscodeTurn(line)
         [] agent = "vscode_jsonl"  -> VscodeRequests(line)

-----------------------------------------------------------------------------
(* The events of a transcript. *)

\* How many seqs a line takes.
Takes(line) ==
  LET n == Len(LineEvents(line)) IN
  CASE agent \in ByLine   -> 1
    [] agent \in ByFilled -> IF line.json = "blank" THEN 0 ELSE 1
    [] agent \in ByUsed   -> IF line.json # "ok" THEN 0 ELSE IF n = 0 THEN 1 ELSE n
    [] agent \in ByEvent  -> n

SeqAt_PerFile(i) ==
  LET inFile(f) == Len(FlattenSeq(SubSeq(files, 1, f)))
      f == CHOOSE f \in DOMAIN files : i <= inFile(f) /\ i > inFile(f - 1)
      before == [j \in 1..(i - 1 - inFile(f - 1)) |-> Takes(FlattenSeq(files)[inFile(f - 1) + j])]
  IN  FoldSeq(+, 0, before)

\* The seq at which line i starts: it runs on from file to file.
SeqAt(i) ==
  FoldSeq(+, 0, [j \in 1..(i - 1) |-> Takes(FlattenSeq(files)[j])])

\* A line that does not parse fails the scan of the session, in the parsers
\* that do not skip it; an incomplete document always does.
ScanFails ==
  \E i \in DOMAIN FlattenSeq(files) :
    FlattenSeq(files)[i].json = "bad" /\ agent \in ByFilled \cup Documents

Parsed ==
  LET lines == FlattenSeq(files) IN
  UNION {{[seq |-> SeqAt(i) + k - 1, kind |-> LineEvents(lines[i])[k], from |-> <<i, k>>] :
            k \in DOMAIN LineEvents(lines[i])} : i \in DOMAIN lines}

\* Whether the session belongs to the workspace of the scan: by the directory
\* it lies in, by its metadata, or by the directories its lines name, of which
\* the last one counts for agents that read them as metadata of the session.
Cwds == LET named == SelectSeq(FlattenSeq(files), LAMBDA line : line.json = "ok" /\ line.cwd # None)
        IN  [i \in DOMAIN named |-> named[i].cwd]

InWorkspace ==
  CASE agent \in Dirs -> TRUE
    [] agent \in {"claude_code", "modern"} -> Cwds # <<>> => Last(Cwds) = "here"
    [] agent = "codex_desktop" -> Cwds # <<>> /\ Last(Cwds) = "here"
    [] agent = "openclaw"      -> Cwds # <<>> => "here" \in ToSet(Cwds)
    [] agent = "goose_legacy"  -> "here" \in ToSet(Cwds)
    [] OTHER                   -> root = "here"

\* Sessions without events are kept by some parsers and dropped by others.
Kept == Parsed # {} \/ agent \in Dirs \cup {"claude_code", "codex_desktop", "openclaw", "goose"}

-----------------------------------------------------------------------------

Init ==
  /\ agent \in Agents /\ root \in {"here", "away"}
  /\ files = <<<<>>>>
  /\ log = {} /\ session = FALSE /\ fresh = FALSE

Write(line) ==
  /\ Len(FlattenSeq(files)) < MaxLines
  /\ files' = [files EXCEPT ![Len(files)] = Append(@, line)]

Completed(line) ==
  LET current == Last(files) IN
  /\ current # <<>> /\ Last(current) = Half
  /\ files' = [files EXCEPT ![Len(files)] = Append(Front(current), line)]

\* The agent writes a line, or half of one, completes it, or begins a file.
\* The half of a line is the last of its file.
AgentWrites ==
  LET last == Last(files)
      half == last # <<>> /\ Last(last) = Half
  IN  /\ \/ ~half /\ \E line \in Lines \cup {Blank, Half} : Write(line)
         \/ \E line \in Lines : Completed(line)
         \/ ~half /\ agent \in Dirs /\ Len(files) < 2 /\ last # <<>>
            /\ files' = Append(files, <<>>)
      /\ fresh' = FALSE
      /\ UNCHANGED <<agent, root, log, session>>

LastSeq == IF log = {} THEN -1 ELSE CHOOSE s \in {e.seq : e \in log} : \A e \in log : e.seq <= s

\* persist_session_batch: of the parsed events those above the last seq, and
\* of these the ones whose seq is free.
Scan ==
  /\ ~ScanFails /\ InWorkspace /\ Kept
  /\ log' = log \cup {e \in Parsed : e.seq > LastSeq}
  /\ session' = TRUE /\ fresh' = TRUE
  /\ UNCHANGED <<agent, root, files>>

Next == AgentWrites \/ Scan

Spec == Init /\ [][Next]_vars

-----------------------------------------------------------------------------

TypeOK ==
  /\ agent \in Agents /\ session \in BOOLEAN /\ fresh \in BOOLEAN
  /\ \A i \in DOMAIN files : \A j \in DOMAIN files[i] : files[i][j] \in Lines \cup {Blank, Half}
  /\ \A e \in log : e.seq \in Nat /\ e.kind \in {"call", "result", "cost", "lifecycle"}

(***************************************************************************)
(* After a scan the log holds each tool event of the transcript once, and  *)
(* nothing else, whatever was on disk at earlier scans: half lines, blank  *)
(* ones, a session that ran on in another file or whose directory was      *)
(* another one.  So the seq a parser gives an event never changes (the     *)
(* tail parsers; persist_session_batch stores only seqs above the last).   *)
(***************************************************************************)
LogIsTheTranscript ==
  /\ fresh => log = Parsed
  /\ \A d, e \in log : d.seq = e.seq => d = e

=============================================================================
