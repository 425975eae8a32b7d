---------------------------- MODULE ExperimentTags ----------------------------
(***************************************************************************)
(* The tags of an experiment (experiment/store.rs), and what must hold of  *)
(* those that commands have reported.  Experiments has the steps.          *)
(***************************************************************************)
VARIABLES
  tags,  \* the rows of `experiment_tags`, a function from session to variant
  told   \* history: the tags that commands have reported as done

Tagged(s, v) == [x \in DOMAIN tags \cup {s} |-> IF x = s THEN v ELSE tags[x]]

(***************************************************************************)
(* A tag that a command reported as done is the session's tag for ever,    *)
(* though the command looks for a tag and writes its own in two statements *)
(* (tag_session: "the caller must resolve the conflict rather than         *)
(* silently overwrite").                                                   *)
(***************************************************************************)
ReportedTagsStay ==
  \A tag \in told : tag[1] \in DOMAIN tags /\ tags[tag[1]] = tag[2]
===============================================================================
