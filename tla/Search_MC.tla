------------------------------ MODULE Search_MC ------------------------------
(* The daemon for TLC: its worker keeps its handle, its scanner opens one    *)
(* for every scan.                                                          *)
EXTENDS Search

CONSTANTS worker, scanner

Event(seq, kind, tool, text) ==
  [in |-> "s", seq |-> seq, agent |-> "claude", kind |-> kind, tool |-> tool, text |-> text,
   prompt |-> FALSE]

Hook == Event(0, "tool_use", "shell", {"shell"})
Line == Event(1, "message", None, {"fix"})

Hooks == {Hook}
Lines == {<<Line>>}
=============================================================================
