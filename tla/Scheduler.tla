----------------------------- MODULE Scheduler ------------------------------
(***************************************************************************)
(* The cron registry of bothan (scheduler.Service) as a cache of the       *)
(* schedules table.  Each handler that changes schedules or their links    *)
(* commits its change and then rebuilds the registry from the table; the   *)
(* requests run concurrently and Rebuild holds its lock only while it      *)
(* swaps the pointer.  A running registry ticks; its jobs read the hosts   *)
(* linked to their schedule and trigger a scan of each.                    *)
(*                                                                         *)
(* What Trigger does with a host is in Scanner; here it is only the end of *)
(* a job's turn.  robfig/cron is modelled from its use: Stop does nothing  *)
(* to a registry that was not started, and Start runs it for good.         *)
(***************************************************************************)
EXTENDS Naturals, FiniteSets

CONSTANTS
    Schedules,   \* row ids of schedules
    Hosts,       \* hosts that may be linked to them
    CronSpecs,   \* specs cron can parse
    Words,       \* friendly words, which cron cannot parse
    Descriptor,  \* Descriptor[w]: what NormalizeSpec makes of the word w
    Requests,    \* bound: HTTP requests that may be in a handler at once
    Main,        \* the goroutine of run(), which rebuilds once at startup
    Registries,  \* bound: cron registries that may be in memory at once
    Jobs,        \* bound: cron jobs that may be running at once
    None,        \* no registry, no schedule
    QueryFails   \* may ListEnabled or EnabledHostsForSchedule fail?

ASSUME SchedulerAssumption ==
    /\ CronSpecs \cap Words = {} /\ Descriptor \in [Words -> CronSpecs]
    /\ Main \notin Requests
    /\ None \notin Registries \cup Schedules \cup CronSpecs \cup Words
    /\ QueryFails \in BOOLEAN

Specs == CronSpecs \cup Words
Rebuilders == Requests \cup {Main}
NoRow == [spec |-> None, enabled |-> FALSE]
Rows == [spec : Specs, enabled : BOOLEAN]

VARIABLES
    phase,     \* where run() of main.go is
    table,     \* table[s]: row of schedule s, NoRow when there is none
    links,     \* the host_schedules table
    enabled,   \* hosts whose enabled flag is set
    registry,  \* registry[r]: state of a cron.Cron and the jobs added to it
    current,   \* s.cron
    rebuild,   \* rebuild[g]: program counter and locals of Rebuild in g
    job,       \* job[j]: program counter and locals of fire
    untidy     \* history: a Rebuild failed, or two of them overlapped

tables == <<table, links, enabled>>
vars == <<phase, tables, registry, current, rebuild, job, untidy>>

Unused == [state |-> "none", jobs |-> {}]
IdleRebuild == [pc |-> "idle", new |-> None, old |-> None]
IdleJob == [pc |-> "idle", schedule |-> None, todo |-> {}]

Init ==
    /\ phase = "down"
    /\ table \in [Schedules -> {NoRow} \cup [spec : CronSpecs, enabled : BOOLEAN]]
    /\ links = {} /\ enabled = Hosts
    /\ registry = [r \in Registries |-> Unused]
    /\ current = None
    /\ rebuild = [g \in Rebuilders |-> IdleRebuild]
    /\ job = [j \in Jobs |-> IdleJob]
    /\ untidy = FALSE

Exists(s) == table[s] # NoRow
Quiet == \A g \in Rebuilders : rebuild[g].pc = "idle"

-----------------------------------------------------------------------------
(* Handlers.  Each commits one transaction and goes on in Rebuild.         *)

Committed(g) ==
    /\ phase = "serving" /\ g \in Requests /\ rebuild[g].pc = "idle"
    /\ rebuild' = [rebuild EXCEPT ![g].pc = "list"]
    /\ untidy' = (untidy \/ ~Quiet)
    /\ UNCHANGED <<phase, registry, current, job>>

NormalizeSpec(p) == IF p \in Words THEN Descriptor[p] ELSE p

\* POST /schedules and PUT /schedules/{id}.
SaveSchedule(g, s, p, on) ==
    /\ Committed(g)
    /\ table' = [table EXCEPT ![s] = [spec |-> NormalizeSpec(p), enabled |-> on]]
    /\ UNCHANGED <<links, enabled>>

\* Broken variant: the links of a deleted schedule stay.
DeleteScheduleOnly(g, s) ==
    /\ Committed(g) /\ Exists(s)
    /\ table' = [table EXCEPT ![s] = NoRow]
    /\ UNCHANGED <<links, enabled>>

\* DELETE /schedules/{id} cascades to host_schedules.
DeleteSchedule(g, s) ==
    /\ Committed(g) /\ Exists(s)
    /\ table' = [table EXCEPT ![s] = NoRow]
    /\ links' = {l \in links : l[2] # s}
    /\ UNCHANGED enabled

\* PUT /hosts/{id}/schedules replaces the links of a host.
SetHostSchedules(g, h, chosen) ==
    /\ Committed(g) /\ \A s \in chosen : Exists(s)
    /\ links' = {l \in links : l[1] # h} \cup ({h} \X chosen)
    /\ UNCHANGED <<table, enabled>>

\* POST /config/import: schedules by name, their links, and the hosts' flags.
\* Specs are validated but stored as they came; "replace" empties the table.
Import(g, bundle, linked, flags, replace) ==
    LET inBundle == {s \in Schedules : bundle[s] # NoRow} IN
    /\ Committed(g) /\ linked \subseteq Hosts \X inBundle
    /\ table' = [s \in Schedules |->
           IF s \in inBundle THEN bundle[s] ELSE IF replace THEN NoRow ELSE table[s]]
    /\ links' = (IF replace THEN {} ELSE links) \cup linked
    /\ enabled' = flags

\* POST /hosts/{id}/enable and /disable: nothing to rebuild.
SetEnabled(h, on) ==
    /\ phase = "serving"
    /\ enabled' = IF on THEN enabled \cup {h} ELSE enabled \ {h}
    /\ UNCHANGED <<phase, table, links, registry, current, rebuild, job, untidy>>

-----------------------------------------------------------------------------
(* Rebuild.                                                                *)

\* Broken variant: every row gets a job.
WantedDisabledToo ==
    {<<s, table[s].spec>> : s \in {t \in Schedules : table[t].spec \in CronSpecs}}

\* The jobs AddFunc accepts, out of the rows with enabled = 1.
Wanted ==
    {<<s, table[s].spec>> :
        s \in {t \in Schedules : table[t].enabled /\ table[t].spec \in CronSpecs}}

ListEnabled(g, r) ==
    /\ rebuild[g].pc = "list" /\ registry[r] = Unused
    /\ registry' = [registry EXCEPT ![r] = [state |-> "built", jobs |-> Wanted]]
    /\ rebuild' = [rebuild EXCEPT ![g].pc = "swap", ![g].new = r]
    /\ UNCHANGED <<phase, tables, current, job, untidy>>

\* The handlers drop the error, a cancelled request among them; run returns it.
\* A handler whose commit took effect and was reported as failed returns before
\* it rebuilds, which has the same outcome.
ListFails(g) ==
    /\ QueryFails /\ rebuild[g].pc = "list"
    /\ rebuild' = [rebuild EXCEPT ![g] = IdleRebuild]
    /\ phase' = IF g = Main THEN "down" ELSE phase
    /\ untidy' = (g # Main)
    /\ UNCHANGED <<tables, registry, current, job>>

Swap(g) ==
    /\ rebuild[g].pc = "swap"
    /\ current' = rebuild[g].new
    /\ rebuild' = [rebuild EXCEPT ![g].pc = "stop", ![g].old = current]
    /\ UNCHANGED <<phase, tables, registry, job, untidy>>

\* cron.Stop: a registry that never started is left as it is.
Stopped(r) ==
    IF r # None /\ registry[r].state = "running"
    THEN [registry EXCEPT ![r] = Unused] ELSE registry

\* Broken variant: the pointer is read again instead of the one saved by Swap.
StopCurrent(g) ==
    /\ rebuild[g].pc = "stop"
    /\ registry' = Stopped(current)
    /\ rebuild' = [rebuild EXCEPT ![g].pc = "start"]
    /\ UNCHANGED <<phase, tables, current, job, untidy>>

StopOld(g) ==
    /\ rebuild[g].pc = "stop"
    /\ registry' = Stopped(rebuild[g].old)
    /\ rebuild' = [rebuild EXCEPT ![g].pc = "start"]
    /\ UNCHANGED <<phase, tables, current, job, untidy>>

\* Broken variant: Rebuild forgets to start what it built.
NeverStarted(g) ==
    /\ rebuild[g].pc = "start"
    /\ rebuild' = [rebuild EXCEPT ![g] = IdleRebuild]
    /\ phase' = IF g = Main THEN "serving" ELSE phase
    /\ UNCHANGED <<tables, registry, current, job, untidy>>

\* Rebuild returns; after the one of run() the server listens.
StartNew(g) ==
    /\ rebuild[g].pc = "start"
    /\ registry' = [registry EXCEPT ![rebuild[g].new].state = "running"]
    /\ rebuild' = [rebuild EXCEPT ![g] = IdleRebuild]
    /\ phase' = IF g = Main THEN "serving" ELSE phase
    /\ UNCHANGED <<tables, current, job, untidy>>

-----------------------------------------------------------------------------
(* Jobs.                                                                   *)

Tick(r, s, j) ==
    /\ registry[r].state = "running" /\ \E p \in Specs : <<s, p>> \in registry[r].jobs
    /\ job[j].pc = "idle"
    /\ job' = [job EXCEPT ![j] = [pc |-> "query", schedule |-> s, todo |-> {}]]
    /\ UNCHANGED <<phase, tables, registry, current, rebuild, untidy>>

\* EnabledHostsForSchedule looks at the hosts and their links, by schedule id.
Query(j) ==
    /\ job[j].pc = "query"
    /\ job' = [job EXCEPT ![j].pc = "loop",
                          ![j].todo = {h \in enabled : <<h, job[j].schedule>> \in links}]
    /\ UNCHANGED <<phase, tables, registry, current, rebuild, untidy>>

\* Trigger returned for one host, or there is none left, or the query failed.
Enqueue(j, h) ==
    /\ job[j].pc = "loop" /\ h \in job[j].todo
    /\ job' = [job EXCEPT ![j].todo = @ \ {h}]
    /\ UNCHANGED <<phase, tables, registry, current, rebuild, untidy>>

JobDone(j) ==
    /\ \/ job[j].pc = "loop" /\ job[j].todo = {}
       \/ job[j].pc = "query" /\ QueryFails
    /\ job' = [job EXCEPT ![j] = IdleJob]
    /\ UNCHANGED <<phase, tables, registry, current, rebuild, untidy>>

-----------------------------------------------------------------------------
(* The process.                                                            *)

Boot ==
    /\ phase = "down"
    /\ phase' = "starting"
    /\ rebuild' = [rebuild EXCEPT ![Main].pc = "list"]
    /\ UNCHANGED <<tables, registry, current, job, untidy>>

Shutdown ==
    /\ phase = "serving"
    /\ phase' = "draining"
    /\ UNCHANGED <<tables, registry, current, rebuild, job, untidy>>

\* Broken variant: the registry outlives the signal.
StopCronForgotten ==
    /\ phase = "draining" /\ Quiet
    /\ phase' = "waiting"
    /\ UNCHANGED <<tables, registry, current, rebuild, job, untidy>>

\* httpSrv.Shutdown returned, so no handler is left; then schedSvc.Stop.
StopCron ==
    /\ phase = "draining" /\ Quiet
    /\ phase' = "waiting"
    /\ registry' = Stopped(current)
    /\ UNCHANGED <<tables, current, rebuild, job, untidy>>

\* run returned, or the process died.
Exit ==
    /\ phase # "down"
    /\ phase' = "down"
    /\ registry' = [r \in Registries |-> Unused] /\ current' = None
    /\ rebuild' = [g \in Rebuilders |-> IdleRebuild]
    /\ job' = [j \in Jobs |-> IdleJob]
    /\ untidy' = FALSE
    /\ UNCHANGED tables

-----------------------------------------------------------------------------
RequestStep(g) ==
    \/ \E s \in Schedules, p \in Specs, on \in BOOLEAN : SaveSchedule(g, s, p, on)
    \/ \E s \in Schedules : DeleteSchedule(g, s)
    \/ \E h \in Hosts, chosen \in SUBSET Schedules : SetHostSchedules(g, h, chosen)
    \/ \E bundle \in [Schedules -> {NoRow} \cup Rows], linked \in SUBSET (Hosts \X Schedules),
          flags \in SUBSET Hosts, replace \in BOOLEAN :
          Import(g, bundle, linked, flags, replace)

RebuildStep(g) ==
    (\E r \in Registries : ListEnabled(g, r)) \/ ListFails(g) \/ Swap(g) \/ StopOld(g) \/ StartNew(g)

JobStep(j) == Query(j) \/ (\E h \in Hosts : Enqueue(j, h)) \/ JobDone(j)

Next ==
    \/ \E g \in Requests : RequestStep(g)
    \/ \E g \in Rebuilders : RebuildStep(g)
    \/ \E r \in Registries, s \in Schedules, j \in Jobs : Tick(r, s, j)
    \/ \E j \in Jobs : JobStep(j)
    \/ \E h \in Hosts, on \in BOOLEAN : SetEnabled(h, on)
    \/ Boot \/ Shutdown \/ StopCron \/ Exit

Spec == Init /\ [][Next]_vars

(* A handler that has committed goes on, and so does run() after a signal. *)
Fairness == (\A g \in Rebuilders : WF_vars(RebuildStep(g))) /\ WF_vars(StopCron)
FairSpec == Spec /\ Fairness

-----------------------------------------------------------------------------
(* Properties.                                                             *)

\* The jobs the table asks for.
EnabledJobs ==
    {j \in Schedules \X CronSpecs : table[j[1]] = [spec |-> j[2], enabled |-> TRUE]}

Running == {r \in Registries : registry[r].state = "running"}

\* Types; links refer to schedules that exist, and jobs are made of specs cron
\* could parse.
TypeOK ==
    /\ phase \in {"down", "starting", "serving", "draining", "waiting"}
    /\ table \in [Schedules -> {NoRow} \cup Rows]
    /\ links \subseteq Hosts \X {s \in Schedules : Exists(s)}
    /\ enabled \subseteq Hosts
    /\ registry \in [Registries -> [state : {"none", "built", "running"},
                                    jobs : SUBSET (Schedules \X CronSpecs)]]
    /\ current \in Registries \cup {None}
    /\ rebuild \in [Rebuilders -> [pc : {"idle", "list", "swap", "stop", "start"},
                                   new : Registries \cup {None},
                                   old : Registries \cup {None}]]
    /\ job \in [Jobs -> [pc : {"idle", "query", "loop"}, schedule : Schedules \cup {None},
                         todo : SUBSET Hosts]]
    /\ untidy \in BOOLEAN

\* As long as rebuilds take turns, no two registries tick: no schedule fires
\* twice at its hour, although Rebuild starts the new registry after the lock.
OneRegistryTicks == ~untidy => Cardinality(Running) <= 1

\* As long as rebuilds take turns and read the table, the registry that ticks
\* is the table's: what was enabled, disabled, respelled or deleted last.
RegistryMatchesTable ==
    ~untidy /\ Quiet /\ phase \in {"serving", "draining"} =>
        registry[current] = [state |-> "running", jobs |-> EnabledJobs]

\* However rebuilds overlap or fail, scheduling never stops altogether: when
\* they are over, the registry Stop would stop is one that ticks.
CurrentTicks ==
    Quiet /\ phase \in {"serving", "draining"} => current \in Running

\* After schedSvc.Stop nothing ticks any more.
SilentAfterStop == ~untidy /\ phase = "waiting" => Running = {}

\* The change a handler answered is not forgotten: an enabled schedule whose
\* spec cron knows is in the end ticking with that spec.
EnabledScheduleTicks ==
    \A s \in Schedules, p \in CronSpecs :
        <<s, p>> \in EnabledJobs ~>
            \/ \E r \in Running : <<s, p>> \in registry[r].jobs
            \/ <<s, p>> \notin EnabledJobs \/ untidy \/ phase # "serving"

\* "Disabled schedules never enqueue": when no change is under way, no job of
\* a disabled schedule starts.
DisabledNeverTicks ==
    [][Quiet => \A r \in Registries, s \in Schedules, j \in Jobs :
                    Tick(r, s, j) /\ Exists(s) => table[s].enabled]_vars
=============================================================================
