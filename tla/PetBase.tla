------------------------------- MODULE PetBase -------------------------------
(***************************************************************************)
(* A user's pets, their resources and the base they work in                *)
(* (core/services/pet_service.py, base_service.py and their routes).  No   *)
(* two users share a row, so the module is about one.                      *)
(*                                                                         *)
(* The routes have no await.  What costs resources takes them in one       *)
(* transaction and changes the pet or facility in another; output is       *)
(* added in one transaction and the clock of the facility set in another.  *)
(* A failure in between loses resources in the first case and pays hours   *)
(* twice in the second.                                                    *)
(***************************************************************************)
EXTENDS Integers, Sequences, FiniteSets, SequencesExt

CONSTANTS
  Pets,          \* ids of pets
  Camps,
  Facilities,
  Resources,
  Output,        \* FACILITY_CONFIG: what a facility gives,
  CostOf,        \*   the resource it is upgraded with,
  CaptainCamps,  \*   the camps a captain may come from,
  MaxLevel,      \*   and its last level
  Stones,        \* the resource evolution, strengthening and awakening ask for
  Ranks,         \* RARITY_ORDER, from 1
  Slots,         \* SKILL_SLOTS_BY_RARITY
  MaxSlots, MaxMembers, MaxHours,   \* 6, 3, 12
  ExpPerLevel,   \* experience the first level asks for
  Meals,         \* exp_amount of a request, perhaps not positive
  Rewards,       \* amounts rewards of other parts add
  MaxEvents, MaxTime, MaxFaults     \* bounds

VARIABLES
  res,      \* game_resources
  pet,      \* pets
  fac,      \* base_facilities
  now,      \* hours since the start
  paid,     \* history: hours of output each facility has paid
  events, faults

pvars == << res, pet, fac, now, paid, events, faults >>

-----------------------------------------------------------------------------
(* pet_service *)

NoPet == [alive |-> FALSE, camp |-> CHOOSE c \in Camps : TRUE, rank |-> 1, level |-> 1, exp |-> 0, slots |-> 0]

Request == events < MaxEvents /\ events' = events + 1
Fails == faults < MaxFaults /\ faults' = faults + 1

CreatePet(p, camp, rank) ==
  /\ Request /\ pet[p] = NoPet /\ \A q \in Pets : q < p => pet[q] # NoPet
  /\ pet' = [pet EXCEPT ![p] = [NoPet EXCEPT !.alive = TRUE, !.camp = camp, !.rank = rank, !.slots = Slots[rank]]]
  /\ UNCHANGED << res, fac, now, paid, faults >>

AddResource(r, x) ==
  /\ Request /\ res' = [res EXCEPT ![r] = @ + x]
  /\ UNCHANGED << pet, fac, now, paid, faults >>

Enough(r, x) == res[r] >= x

\* x of r are taken; then the change is made, or its transaction fails.
Pays(r, x, Done, NotDone) ==
  /\ Request /\ Enough(r, x)
  /\ res' = [res EXCEPT ![r] = @ - x]
  /\ \/ Done /\ UNCHANGED faults
     \/ NotDone /\ Fails

\* Level and experience after e more, each level asking for more than the last
Grown(level, e) ==
  LET g[p \in Nat \X Int] ==
        IF p[2] < p[1] * ExpPerLevel THEN p ELSE g[<< p[1] + 1, p[2] - p[1] * ExpPerLevel >>]
  IN  g[<< level, e >>]

\* feed_pet costs nothing.
Feed(p, x) ==
  /\ Request /\ pet[p].alive
  /\ LET g == Grown(pet[p].level, pet[p].exp + x)
     IN  pet' = [pet EXCEPT ![p].level = g[1], ![p].exp = g[2]]
  /\ UNCHANGED << res, fac, now, paid, faults >>

\* evolve_pet: what awakening had added to the slots is lost.
Evolve(p) ==
  /\ pet[p].alive /\ pet[p].rank < Ranks
  /\ LET next == pet[p].rank + 1
     IN  Pays(Stones, pet[p].rank, pet' \in {pet, [pet EXCEPT ![p].rank = next, ![p].slots = Slots[next]]}, UNCHANGED pet)
  /\ UNCHANGED << fac, now, paid >>

\* What is strengthened, nothing reads.
Strengthen(p) == pet[p].alive /\ Pays(Stones, 1, UNCHANGED pet, UNCHANGED pet) /\ UNCHANGED << fac, now, paid >>

Awaken(p) ==
  /\ pet[p].alive /\ pet[p].slots < MaxSlots
  /\ Pays(Stones, 1, pet' \in {pet, [pet EXCEPT ![p].slots = @ + 1]}, UNCHANGED pet)
  /\ UNCHANGED << fac, now, paid >>

\* release_pet leaves the pet in the teams it is in.
Release(p) ==
  /\ Request /\ pet[p].alive /\ pet' = [pet EXCEPT ![p].alive = FALSE]
  /\ UNCHANGED << res, fac, now, paid, faults >>

-----------------------------------------------------------------------------
(* base_service *)

Upgrade(f) ==
  /\ fac[f].level < MaxLevel
  /\ Pays(CostOf[f], fac[f].level + 1,
          fac' = [fac EXCEPT ![f].level = @ + 1, ![f].last = now], UNCHANGED fac)
  /\ UNCHANGED << pet, now, paid >>

\* _calc_output_rate in halves, with a steeper growth by level: a captain of a
\* fitting camp counts four, a member one, alive or not.
Rate(f) ==
  LET c == fac[f].captain
      leads == c # 0 /\ pet[c].alive /\ pet[c].camp \in CaptainCamps[f]
  IN  fac[f].level * (2 + (IF leads THEN 4 ELSE 0) + Len(fac[f].members))

\* Mutant of Elapsed: hours run from the start.
ElapsedSinceStart(f) == IF now > MaxHours THEN MaxHours ELSE now

Elapsed(f) == IF now - fac[f].last > MaxHours THEN MaxHours ELSE now - fac[f].last

\* collect_output: all hours are paid at today's rate.
Collect(f) ==
  LET produced == (Rate(f) * Elapsed(f)) \div 2
  IN  /\ Request /\ fac[f].level > 0 /\ produced > 0
      /\ res' = [res EXCEPT ![Output[f]] = @ + produced]
      /\ paid' = [paid EXCEPT ![f] = @ + Elapsed(f)]
      /\ \/ fac' = [fac EXCEPT ![f].last = now] /\ UNCHANGED faults
         \/ Fails /\ UNCHANGED fac
      /\ UNCHANGED << pet, now >>

AssignCaptain(f, p) ==
  /\ Request /\ pet[p].alive /\ pet[p].camp \in CaptainCamps[f]
  /\ fac' = [fac EXCEPT ![f].captain = p]
  /\ UNCHANGED << res, pet, now, paid, faults >>

Joins(f, p) == Len(fac[f].members) < MaxMembers /\ p \notin Range(fac[f].members)

AssignMember(f, p) ==
  /\ Request /\ pet[p].alive /\ Joins(f, p)
  /\ fac' = [fac EXCEPT ![f].members = Append(@, p)]
  /\ UNCHANGED << res, pet, now, paid, faults >>

RemoveMember(f, p) ==
  /\ Request /\ p \in Range(fac[f].members)
  /\ fac' = [fac EXCEPT ![f].members = RemoveFirst(@, p)]
  /\ UNCHANGED << res, pet, now, paid, faults >>

Tick ==
  /\ now < MaxTime /\ now' = now + 1
  /\ UNCHANGED << res, pet, fac, paid, events, faults >>

Init ==
  /\ res = [r \in Resources |-> 0]
  /\ pet = [p \in Pets |-> NoPet]
  /\ fac = [f \in Facilities |-> [level |-> 0, last |-> 0, captain |-> 0, members |-> << >>]]
  /\ now = 0 /\ events = 0 /\ faults = 0
  /\ paid = [f \in Facilities |-> 0]

PetRequest(p) ==
  \/ \E x \in Meals : Feed(p, x)
  \/ Evolve(p) \/ Strengthen(p) \/ Awaken(p) \/ Release(p)

BaseRequest(f) ==
  \/ Upgrade(f) \/ Collect(f)
  \/ \E p \in Pets : AssignCaptain(f, p) \/ AssignMember(f, p) \/ RemoveMember(f, p)

Next ==
  \/ \E p \in Pets : PetRequest(p) \/ \E c \in Camps, k \in 1 .. Ranks : CreatePet(p, c, k)
  \/ \E r \in Resources, x \in Rewards : AddResource(r, x)
  \/ \E f \in Facilities : BaseRequest(f)
  \/ Tick

Spec == Init /\ [][Next]_pvars

-----------------------------------------------------------------------------
(* Properties *)

\* However upgrades, collections and changes of the team interleave, no hour of a
\* facility is paid twice, except the at most MaxHours a failed write makes payable
\* again; and no resource is overdrawn.
HoursPaidOnce ==
  /\ \A f \in Facilities : paid[f] <= fac[f].last + MaxHours * faults
  /\ \A r \in Resources : res[r] >= 0

\* A pet counts once in a team, teams stay small, and growth keeps its bounds.
TeamsInBounds ==
  /\ \A f \in Facilities : /\ Len(fac[f].members) <= MaxMembers
                           /\ Cardinality(Range(fac[f].members)) = Len(fac[f].members)
  /\ \A p \in Pets : pet[p].slots <= MaxSlots /\ pet[p].exp < pet[p].level * ExpPerLevel
=============================================================================
