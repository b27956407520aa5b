----------------------------- MODULE MCSettings -----------------------------
(* Instance of Settings for TLC: a validated setting, a duration and the    *)
(* secret; what is said of one setting holds of those treated alike.        *)
EXTENDS Settings, TLC

MCKeys == {"log.level", "ssllabs.poll_interval"}
MCEchoed == {"ssllabs.poll_interval"}
MCValues == {"info", "debug", "loud", "10s", "10000ms", "0s"}
MCValid == ("log.level" :> {"info", "debug"}) @@ ("ssllabs.poll_interval" :> {"10s", "10000ms"})
MCMeaning == [v \in MCValues |-> IF v = "10000ms" THEN "10s" ELSE v]
MCDefault == ("log.level" :> "info") @@ ("ssllabs.poll_interval" :> "10s")
MCPatches ==
    {"log.level" :> "debug", "ssllabs.poll_interval" :> "0s",
     ("log.level" :> "info") @@ ("ssllabs.poll_interval" :> "10000ms"),
     ("log.level" :> "loud") @@ ("ssllabs.poll_interval" :> "10s")}
CONSTANTS r1, r2
TwoCallers == {r1, r2}
TwoSecrets == {"secret1", "secret2"}
Symmetric == Permutations(TwoCallers)
=============================================================================
