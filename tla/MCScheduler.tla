---------------------------- MODULE MCScheduler -----------------------------
(* Instances of Scheduler for TLC: one spec cron knows and one word it     *)
(* does not, and enough registries for two rebuilds and a leaked one.      *)
EXTENDS Scheduler, TLC

CONSTANTS s1, s2, h1, daily, Everyday, q1, q2, r1, r2, r3, j1

OneSchedule == {s1}
TwoSchedules == {s1, s2}
OneHost == {h1}
Cron == {daily}
Friendly == {Everyday}
Normal == [w \in Friendly |-> daily]
TwoRequests == {q1, q2}
TwoRegistries == {r1, r2}
ThreeRegistries == {r1, r2, r3}
OneJob == {j1}

RegistrySymmetry == Permutations(Registries)
=============================================================================
