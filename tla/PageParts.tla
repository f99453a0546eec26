------------------------------- MODULE PageParts -------------------------------
(***************************************************************************)
(* The page of a user in the browser: the window of a group (GroupWindow). *)
(***************************************************************************)
EXTENDS Integers, Sequences

CONSTANTS
  Groups, NoGroup, Tabs, PageLimit, MaxTexts, MaxSocks, MaxLoads   \* GroupWindow

\* The server returns a number of rows.
ASSUME PageAssumption == PageLimit \in Nat

VARIABLES
  said, store, cur, view, me, asAgent, lines, asked, socks, link, push, loads, fresh  \* GroupWindow

groupVars == << said, store, cur, view, me, asAgent, lines, asked, socks, link, push, loads, fresh >>

Page == INSTANCE GroupWindow WITH
  Slots <- Tabs, shown <- lines, calls <- asked, live <- link, due <- fresh

-----------------------------------------------------------------------------
(* Properties *)

\* A text the user said is on the page of a group once, and what others say there is
\* on it or on its way.
GroupPage == Page!OwnTextOnce /\ Page!OthersAreShown
=============================================================================
