---------------------------- MODULE EventStore_MC ----------------------------
(* Instances of EventStore for TLC: the hooks of one or two tool calls. *)
EXTENDS EventStore

CONSTANTS s1, p1, p2, c1, c2, shell, edit, f1

In(kind, tool, id, ts, cost, path) ==
  [kind |-> kind, seq |-> 0, ts |-> ts, tool |-> tool, id |-> id, cost |-> cost, path |-> path]

Start == In("start", None, None, 0, None, None)
Stop  == In("stop", None, None, 1, None, None)
Call1 == In("call", shell, c1, 0, 1, f1)
End1  == In("result", shell, c1, 1, None, None)
Call2 == In("call", edit, c2, 1, 2, None)
End2  == In("result", None, c2, 2, None, f1)

\* two tool calls, interleaved with each other and with a Stop
TwoCalls == {Call1, End1, Call2, End2, Stop}

\* one tool call in a session whose prompt files may change
PromptCall == {Start, Call1, End1, Stop}

\* a tool seen by hook events around it and the call of another tool, in a
\* session whose prompt files may change
HookSpans ==
  { Start, Stop, Call2,
    In("pre", shell, None, 0, None, None), In("post", shell, None, 2, 3, f1) }

Symmetry == Permutations(Procs)
=============================================================================
