----------------------------- MODULE RequestParts -----------------------------
(***************************************************************************)
(* Requests that share no state: rewards and cards of group tasks          *)
(* (GroupTasks) and the branches of send_message (MessageRouting).         *)
(***************************************************************************)
EXTENDS GroupTasks

CONSTANTS Forms, Modes, Peers, Identities

ASSUME RoutingAssumption == Modes \subseteq {"normal", "free", "swarm"}

VARIABLES stage, msg, route, draft, rows, live

msgVars == << stage, msg, route, draft, rows, live >>

Routing == INSTANCE MessageRouting

-----------------------------------------------------------------------------
(* Properties *)

\* Whatever the mode and the words of a message, its prefix decides: the report of an
\* executor reaches handle_step_done, '#3' becomes a draft, and a message is stored
\* once and answered at most once.
PrefixDecides == Routing!RoutingTypeOK /\ Routing!StepsReachCallback /\ Routing!DraftIsPlanned
===============================================================================
