----------------------------- MODULE EconomyParts -----------------------------
(***************************************************************************)
(* What the services keep for users besides money and files: pets and the  *)
(* base they work in (PetBase), orders of the market (Market) and the      *)
(* project library (ProjectLibrary).  The parts share no state; each says  *)
(* what one request after another, or several at once, must leave in order.*)
(***************************************************************************)
EXTENDS Integers, FiniteSets

CONSTANTS
  Pets, Camps, Facilities, Resources, Output, CostOf, CaptainCamps, MaxLevel, Stones, Ranks,
  SkillSlots, MaxSlots, MaxMembers, MaxHours, ExpPerLevel, Meals, Rewards,
  MaxEvents, MaxTime, MaxFailures,                                             \* PetBase
  Traders, Prices, Means, MaxOrders,                                           \* Market
  Readers, Admins, Ways, Documents, Sections, Like, Files, State, Goals, Newest,
  MaxSeconds, MaxImports, MaxRuns, MaxCuts                                     \* ProjectLibrary

VARIABLES
  res, pet, fac, now, paid, requests, failures,                            \* PetBase
  account, orders, logged,                                                 \* Market
  docs, meta, importing, second, imports, runs, fixes, torn, raced, cuts   \* ProjectLibrary

petVars == << res, pet, fac, now, paid, requests, failures >>
marketVars == << account, orders, logged >>
libraryVars == << docs, meta, importing, second, imports, runs, fixes, torn, raced, cuts >>

\* Whoever trades is one of finitely many users; prices and experience are numbers, and a
\* pet of any rank has a number of skill slots.
ASSUME TradeAssumption == IsFiniteSet(Traders) /\ Prices \subseteq Int /\ Means \in Nat

ASSUME CampAssumption ==
  /\ Camps # {} /\ Ranks \in Nat \ {0} /\ MaxSlots \in Nat /\ SkillSlots \in [1 .. Ranks -> 0 .. MaxSlots]
  /\ MaxMembers \in Nat /\ MaxHours \in Nat /\ ExpPerLevel \in Nat \ {0}
  /\ Rewards \subseteq Nat /\ Meals \subseteq Int
  /\ Output \in [Facilities -> Resources]

Camp == INSTANCE PetBase WITH
  Slots <- SkillSlots, MaxFaults <- MaxFailures, events <- requests, faults <- failures

Orders == INSTANCE Market WITH Users <- Traders, InitCredits <- Means, credits <- account

Library == INSTANCE ProjectLibrary WITH
  Users <- Readers, Kinds <- Ways, MaxFaults <- MaxCuts, clock <- second, job <- importing, faults <- cuts

-----------------------------------------------------------------------------
(* Properties *)

\* No hour of a facility is paid twice and no pet counts twice in a team; an order of
\* the market is paid once and loses its fee and nothing else.
NothingPaidTwice == Camp!HoursPaidOnce /\ Camp!TeamsInBounds /\ Orders!OrdersBalance

\* The rows of the project library and its meta data tell the same through imports,
\* deletions and synchronisations that were not cut short and did not meet; a text is
\* in it once, and a goal in the state document.
LibraryInOrder == Library!LibraryInOrder
=============================================================================
