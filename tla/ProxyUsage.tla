------------------------------- MODULE ProxyUsage ------------------------------
(***************************************************************************)
(* The usage found in the body of an answer (proxy/sse.rs).  A body is a   *)
(* tree of JSON values that have a usage, reasons to stop, and values      *)
(* inside them.                                                            *)
(***************************************************************************)
EXTENDS ProxyCost, Sequences, SequencesExt

CONSTANT MaxWalk  \* how deep a body is searched

\* A later key of the list wins over an earlier one.
LastOf(u, keys, old) ==
  FoldLeft(LAMBDA v, k : IF k \in DOMAIN u THEN u[k] % U32 ELSE v, old, keys)

\* The first object of details that is there is looked at, not the one that has
\* the key.
FirstOf(u, objects, key, old) ==
  LET present == SelectSeq(objects, LAMBDA o : o \in DOMAIN u)
  IN IF present = <<>> THEN old ELSE LastOf(u[Head(present)], <<key>>, old)

MergeUsage(out, u) ==
  [out EXCEPT !.tokens_in = LastOf(u, <<"input", "prompt">>, @),
              !.tokens_out = LastOf(u, <<"output", "completion">>, @),
              !.create = LastOf(u, <<"creation">>, @),
              !.read = FirstOf(u, <<"input_details", "prompt_details">>, "cached",
                                LastOf(u, <<"cache_read">>, @)),
              !.reasoning = FirstOf(u, <<"output_details", "completion_details">>,
                                    "reasoning", @)]

\* The first reason that is found stays.
MergeStopReason(out, v) ==
  LET forms == SelectSeq(<<"delta", "own", "choices", "incomplete">>,
                         LAMBDA form : form \in DOMAIN v.stops)
  IN IF out.stop_reason # None \/ forms = <<>> THEN out
     ELSE [out EXCEPT !.stop_reason = v.stops[Head(forms)]]

RECURSIVE WalkMerge(_, _, _)
WalkMerge(out, v, d) ==
  IF d > MaxWalk THEN out
  ELSE FoldLeft(LAMBDA o, x : WalkMerge(o, x, d + 1),
                MergeStopReason(IF v.usage = <<>> THEN out ELSE MergeUsage(out, v.usage), v),
                v.values)

FindUsageInBody(b) ==
  IF b.sse # b.lines THEN NoUsage
  ELSE FoldLeft(LAMBDA out, v : WalkMerge(out, v, 0), NoUsage, b.values)
================================================================================
