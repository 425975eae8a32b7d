------------------------------ MODULE RemoteCache ------------------------------
(***************************************************************************)
(* What the provider of a team holds and what the store keeps of it, and   *)
(* what must be kept once it counts as fresh.  Remote has the steps.       *)
(***************************************************************************)
EXTENDS Naturals, FiniteSets

CONSTANTS
  Authority,  \* telemetry.query.provider: "none", "posthog" or "datadog"
  PageLimit, Days

ASSUME RemoteAssumption == PageLimit \in Nat /\ Days \in Nat

VARIABLES
  teamNow,
  provider,      \* event -> when it arrived there
  remoteEvents,  \* <<session, seq>> -> event
  pullState,     \* remote_pull_state: when a pull succeeded last
  whole          \* history: whether the import of that pull was complete

InWindow(e) == e.ts + Days >= teamNow

(* What the provider had when the pull began that the cache takes for      *)
(* fresh is in the cache, when a page holds it and the import went well:   *)
(* cached rows may be taken as fresh (docs/config.md:117), whoever else    *)
(* pulls, and whatever arrives, meanwhile.                                 *)
FreshCacheIsComplete ==
  whole /\ Authority = "datadog" /\ Cardinality(DOMAIN provider) <= PageLimit =>
    \A e \in DOMAIN provider :
      provider[e] < pullState /\ InWindow(e) /\ e.parses =>
        <<e.in, e.seq>> \in DOMAIN remoteEvents
================================================================================
