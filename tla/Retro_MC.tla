------------------------------- MODULE Retro_MC -------------------------------
(* Instances of Retro for TLC: two sessions whose events make every kind of *)
(* signal come up, and tables that are empty or make a bet each.            *)
EXTENDS Retro

CONSTANT p1

Trace(session, kind, tool, call, path, cost, signs) ==
  [session |-> session, kind |-> kind, tool |-> tool, call |-> call, path |-> path,
   cost |-> cost, signs |-> signs]

Shell  == Trace("s1", "call", "shell", "c", "docs/a", 0, {"stopped", "truncated", "retry", "idle"})
Failed == Trace("s1", "result", None, "c", None, 3, {"failed", "pressure", "skill", "ignored"})
Read   == Trace("s2", "call", "read", None, "src/b", 1, {"proxied", "premium", "subagent", "idle"})
Error  == Trace("s2", "error", None, None, "skill", 0, {"pressure", "skill", "ignored", "retry"})
Edit   == Trace("s1", "call", "edit", None, "src/b", 0, {"open_todos", "mode"})
Mode   == Trace("s2", "lifecycle", None, None, None, 0, {"open_todos", "mode"})
Reject == Trace("s1", "hook", None, None, None, 0, {"reject"})
Mcp    == Trace("s2", "call", "mcp", None, None, 0, {"retry"})

TraceWindows ==
  {<<>>, <<Shell, Failed>>, <<Shell, Failed, Failed, Edit, Edit, Reject>>,
   <<Read, Error, Read, Mcp, Mcp, Error>>, <<Edit, Mode, Edit, Mode, Mode, Edit, Mode>>,
   <<Shell, Edit, Shell, Edit, Shell, Edit, Read>>, <<Read, Mcp, Edit, Read, Mcp, Edit, Read, Mcp>>}

RemoteTraces == <<Read, Edit>>

OnDisk(slug, old) == [slug |-> slug, old |-> old, size |-> 1]

Empty ==
  [files |-> {}, large |-> {}, skills |-> {}, rules |-> {}, used |-> {}, spans |-> {},
   scores |-> <<>>, prints |-> {}, feedback |-> <<>>, outcomes |-> <<>>, samples |-> <<>>]

Full ==
  [files |-> {"s1", "s2"} \X {"docs/a", "src/b"}, large |-> {"src/b"},
   skills |-> {OnDisk("k", TRUE), OnDisk("l", TRUE)}, rules |-> {OnDisk("r", TRUE), OnDisk("q", FALSE)},
   used |-> {"l"}, spans |-> {[tool |-> "read", depth |-> 2, parent |-> "t"]},
   scores |-> <<"ok", "low", "low">>, prints |-> {<<"s1", "f">>, <<"s2", "g">>},
   feedback |-> <<"bad", "bad">>,
   outcomes |-> <<[session |-> "s1", passed |-> 1, failed |-> 1, lint |-> 0, reverted |-> 2]>>,
   samples |-> <<[session |-> "s2", cpu |-> TRUE, rss |-> TRUE, count |-> 2]>>]

RetroTables == {Empty, Full, [Empty EXCEPT !.prints = {"s1", "s2"} \X {"f"}]}

DistantPaths == {<<"docs/a", "src/b">>}
=============================================================================
