----------------------------- MODULE SearchIndex -----------------------------
(***************************************************************************)
(* What a search reads, of the store and of the index beside it, and what  *)
(* it must find.  Search has the steps.                                    *)
(***************************************************************************)
EXTENDS Naturals, Sequences, SequencesExt

CONSTANT NotSet  \* a filter that is not set

VARIABLES
  searched, stored,  \* the sessions and events in the tables, as committed
  prompts,    \* prompts[s]: the event whose text session_search_prompts holds
  documents,  \* the events whose documents the committed index holds
  readable,   \* the files the index names are there
  writer,     \* writer[h]: the writer of the handle h
  doing,      \* doing[h]: what h does
  excused,    \* history: events whose documents a fault or a rebuild lost
  overtaken,  \* history: stored events whose documents a prune deleted or kept
              \* from being made, as their session came again before its end
  raced       \* history: sessions pruned while another handle had their events
              \* in hand or rebuilt, or whose documents a prune could not delete

Idle == [step |-> "idle", todo |-> <<>>, batch |-> FALSE, mine |-> {}, known |-> {}]

\* extract_doc: the kinds that are indexed, with a text that is not blank.
IsIndexed(e) == e.kind \in {"message", "tool_use", "tool_result"} /\ e.text # {}

-----------------------------------------------------------------------------
(* Queries: [words, agent, kind, since]. *)

Passes(q, e) ==
  /\ q.agent \in {NotSet, e.agent} /\ q.kind \in {NotSet, e.kind}
  /\ q.since <= e.seq

\* The filters are joined with AND to words that may hold an OR, which binds
\* less: they hold for the last word only.
Matches(q, e) ==
  \/ \E i \in 1 .. Len(q.words) - 1 : q.words[i] \in e.text
  \/ Last(q.words) \in e.text /\ Passes(q, e)

\* A word that is a tool's name is looked up in the table of events instead.
ToolHits(q) ==
  {e \in stored : q.kind = NotSet /\ q.words = <<e.tool>> /\ e.in \in searched /\ Passes(q, e)}

\* The best documents, without a bound; a hit shows its event, or nothing of
\* an event that is gone.
IndexHits(q) == {e \in documents : Matches(q, e)}

\* An error when the index cannot be read.
Hits(q) ==
  IF ToolHits(q) # {} THEN ToolHits(q) ELSE IF readable THEN IndexHits(q) ELSE {}

-----------------------------------------------------------------------------
Quiet == \A h \in DOMAIN doing : doing[h] = Idle /\ ~writer[h].open

For(e, word) == [words |-> <<word>>, agent |-> e.agent, kind |-> e.kind, since |-> e.seq]

\* When no handle writes, what the store holds is what a search finds.  Every
\* event with a text is a hit for its words, unless a fault or a rebuild of the
\* index lost its document, or the prune of an earlier session of the same id
\* took it, which deletes by that id once the rows are gone and the session may
\* be there again.  Every hit is of a session that is there, unless its prune
\* met a rebuild or a handle with its events in hand, or could not delete its
\* documents (PendingWriter, Drop of Store, prune_sessions_started_before,
\* reindex_workspace).
QuietIndexIsRight ==
  Quiet /\ readable =>
    /\ \A e \in stored : e.in \in searched /\ IsIndexed(e) =>
         e \in excused \cup overtaken \/ \A word \in e.text : e \in Hits(For(e, word))
    /\ \A e \in documents : e.in \in searched \cup raced

\* A session is listed under the earliest of its prompts, in whatever order
\* its events arrive (session_search_projection.rs).
ListedUnderFirstPrompt ==
  \A s \in DOMAIN prompts : LET prompted == {e \in stored : e.in = s /\ e.prompt} IN
    prompted # {} => prompts[s] \in prompted /\ \A e \in prompted : prompts[s].seq <= e.seq

\* The two together.
SearchIsRight == QuietIndexIsRight /\ ListedUnderFirstPrompt
=============================================================================
