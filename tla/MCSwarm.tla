------------------------------ MODULE MCSwarm -------------------------------
(* Finite instances of the swarm for TLC. *)
EXTENDS SwarmProperties, TLC

CONSTANTS t1, t2, c1, q1, q2, k1

OneStep  == {<<1>>}
TwoSteps == {<<1>>, <<1, 2>>}
WithDuplicate == {<<1>>, <<1, 1>>}

OnlyOk   == {{"ok"}}
OnlyCore == {{"core"}}
OkOrFail == {{"ok"}, {"fail"}}
OkOrCore == {{"ok"}, {"core"}}
OkFailOrBlocked == {{"ok"}, {"fail"}, {"blocked"}}
AnyOutcome == {{"ok"}, {"answer"}, {"answer", "fail"}, {"patch"}, {"core"}, {"corefail"}}

TaskSymmetry == Permutations(Tasks)
=============================================================================
