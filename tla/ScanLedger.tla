----------------------------- MODULE ScanLedger -----------------------------
(***************************************************************************)
(* What the scans table promises to the rest of bothan, with no worker, no *)
(* queue and no process in sight: a scan is recorded once, under the next  *)
(* free row id and for one host; it may be marked running; it finishes at  *)
(* most once, as ready or as error; and the rules engine hears about it at *)
(* most once, after it finished.  Whatever the process does -- stop,       *)
(* crash, restart, lose its deadline, fail a write -- is a step of this    *)
(* specification or changes nothing it speaks of.                          *)
(***************************************************************************)
EXTENDS Integers

CONSTANTS ScanIds,  \* row ids a scan may get, an interval that starts at 1
          HostIds,  \* ids of hosts
          NoHost    \* the owner of a row that does not exist

VARIABLES
    life,   \* life[s]: "none", or the status column of row s
    owner,  \* owner[s]: the host row s was recorded for
    heard   \* heard[s]: how often the rules engine was called with scan s

vars == <<life, owner, heard>>

Init ==
    /\ life = [s \in ScanIds |-> "none"]
    /\ owner = [s \in ScanIds |-> NoHost]
    /\ heard = [s \in ScanIds |-> 0]

\* A scan is recorded as pending under the smallest id never used.
Record(s, h) ==
    /\ life[s] = "none"
    /\ \A t \in ScanIds : t < s => life[t] # "none"
    /\ life' = [life EXCEPT ![s] = "pending"]
    /\ owner' = [owner EXCEPT ![s] = h]
    /\ UNCHANGED heard

Begin(s) ==
    /\ life[s] = "pending"
    /\ life' = [life EXCEPT ![s] = "running"]
    /\ UNCHANGED <<owner, heard>>

\* A pending scan may finish too: a worker that could not mark its row
\* running scans on.
Finish(s, outcome) ==
    /\ life[s] \in {"pending", "running"}
    /\ life' = [life EXCEPT ![s] = outcome]
    /\ UNCHANGED <<owner, heard>>

Hear(s) ==
    /\ life[s] \in {"ready", "error"}
    /\ heard[s] = 0
    /\ heard' = [heard EXCEPT ![s] = 1]
    /\ UNCHANGED <<life, owner>>

Next ==
    \E s \in ScanIds :
        \/ \E h \in HostIds : Record(s, h)
        \/ Begin(s)
        \/ \E outcome \in {"ready", "error"} : Finish(s, outcome)
        \/ Hear(s)

Spec == Init /\ [][Next]_vars
=============================================================================
