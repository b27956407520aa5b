--------------------------- MODULE SchedulerProofs ---------------------------
(***************************************************************************)
(* Theorems about Scheduler, for every number of schedules, hosts,         *)
(* requests and registries, however the handlers interleave.               *)
(***************************************************************************)
EXTENDS Scheduler, FiniteSetTheorems, TLAPS

USE SchedulerAssumption DEF Rebuilders

RegistryRecord == [state : {"none", "built", "running"}, jobs : SUBSET (Schedules \X CronSpecs)]
RebuildRecord ==
    [pc : {"idle", "list", "swap", "stop", "start"}, new : Registries \cup {None}, old : Registries \cup {None}]

Pc(g) == rebuild[g].pc
New(g) == rebuild[g].new
Old(g) == rebuild[g].old
State(r) == registry[r].state

\* g has built a registry that it has not started yet; it has swapped it in.
Building(g) == Pc(g) \in {"swap", "stop", "start"}
Swapped(g) == Pc(g) \in {"stop", "start"}

-----------------------------------------------------------------------------
(* The inductive invariant.                                                *)

\* A registry that is built belongs to the one rebuild that will start it.
Builders ==
    /\ \A g \in Rebuilders : Building(g) => New(g) \in Registries /\ State(New(g)) = "built"
    /\ \A g, h \in Rebuilders : g # h /\ Building(g) /\ Building(h) => New(g) # New(h)

\* What a rebuild is about to stop is alive and its alone to stop: it is neither
\* current any more nor what another one will swap in.
Stoppers ==
    /\ \A g \in Rebuilders : Pc(g) = "stop" /\ Old(g) # None => State(Old(g)) # "none" /\ Old(g) # current
    /\ \A g, h \in Rebuilders : g # h /\ Pc(g) = "stop" /\ Pc(h) = "stop" /\ Old(g) # None => Old(g) # Old(h)
    /\ \A g, h \in Rebuilders : Pc(g) = "swap" /\ Pc(h) = "stop" => New(g) # Old(h)

\* The current registry is running or will be started.
CurrentOwned ==
    current # None /\ phase # "waiting" =>
        State(current) = "running" \/ \E g \in Rebuilders : Swapped(g) /\ New(g) = current

Owned == Builders /\ Stoppers /\ CurrentOwned

\* What run() has reached: main rebuilds alone and first, nothing is rebuilt
\* after the drain.
Phases ==
    /\ phase # "starting" => Pc(Main) = "idle"
    /\ phase = "starting" => Pc(Main) # "idle" /\ \A g \in Requests : Pc(g) = "idle"
    /\ phase = "starting" /\ Swapped(Main) => current # None
    /\ phase = "starting" => \A r \in Registries : State(r) # "running"
    /\ phase \in {"down", "waiting"} => Quiet
    /\ phase = "down" \/ Pc(Main) = "list" => current = None /\ \A r \in Registries : State(r) = "none"
    /\ phase \in {"serving", "draining"} => current # None

\* Rebuilds that take turns leave one registry running at most, and what they
\* build stays what the table says.
InTurn ==
    /\ \A g, h \in Rebuilders : Pc(g) # "idle" /\ Pc(h) # "idle" => g = h
    /\ \A g \in Rebuilders : Swapped(g) => New(g) = current
    /\ \A g \in Rebuilders : Pc(g) = "stop" => Running \subseteq {Old(g)}
    /\ \A g \in Rebuilders : Pc(g) = "start" => Running = {}
    /\ (\A g \in Rebuilders : ~Swapped(g)) => Running \subseteq {current}
    /\ phase = "waiting" => Running = {}
    /\ \A g \in Rebuilders : Building(g) => registry[New(g)].jobs = Wanted
    /\ Quiet /\ phase \in {"serving", "draining"} => registry[current].jobs = Wanted

Turns == ~untidy => InTurn

IInv == TypeOK /\ Owned /\ Phases /\ Turns

-----------------------------------------------------------------------------
(* What the steps do.                                                      *)

\* The jobs Rebuild adds are those of the enabled rows cron can parse.
LEMMA WantedIsEnabled == TypeOK => Wanted = EnabledJobs
<1> SUFFICES ASSUME TypeOK PROVE Wanted = EnabledJobs
  OBVIOUS
<1>1. ASSUME NEW s \in Schedules, table[s].enabled, table[s].spec \in CronSpecs
      PROVE  table[s] = [spec |-> table[s].spec, enabled |-> TRUE]
  <2>1. table[s] \in Rows
    BY <1>1 DEF TypeOK, NoRow
  <2> QED BY <1>1, <2>1 DEF Rows
<1>2. ASSUME NEW x \in Wanted PROVE x \in EnabledJobs
  <2>1. PICK s \in Schedules : table[s].enabled /\ table[s].spec \in CronSpecs /\ x = <<s, table[s].spec>>
    BY <1>2 DEF Wanted
  <2> QED BY <1>1, <2>1 DEF EnabledJobs
<1>3. ASSUME NEW x \in EnabledJobs PROVE x \in Wanted
  <2>1. PICK s \in Schedules, p \in CronSpecs : x = <<s, p>> /\ table[s] = [spec |-> p, enabled |-> TRUE]
    <3>1. x \in Schedules \X CronSpecs /\ table[x[1]] = [spec |-> x[2], enabled |-> TRUE]
      BY <1>3 DEF EnabledJobs
    <3>2. x[1] \in Schedules /\ x[2] \in CronSpecs /\ x = <<x[1], x[2]>>
      BY <3>1
    <3> QED BY <3>1, <3>2
  <2>2. table[s].enabled /\ table[s].spec = p
    BY <2>1
  <2> QED BY <2>1, <2>2 DEF Wanted
<1> QED
  BY <1>2, <1>3

LEMMA WantedType == TypeOK => Wanted \in SUBSET (Schedules \X CronSpecs)
BY DEF Wanted

\* The registries after cron.Stop of r.
LEMMA StoppedFacts ==
    ASSUME TypeOK, NEW r \in Registries \cup {None}
    PROVE  /\ Stopped(r) \in [Registries -> RegistryRecord]
           /\ \A q \in Registries :
                 /\ q # r \/ State(q) # "running" => Stopped(r)[q] = registry[q]
                 /\ q = r /\ State(q) = "running" => Stopped(r)[q].state = "none"
BY DEF TypeOK, Stopped, Unused, RegistryRecord, State

\* A handler commits: nothing but its own program counter and the tables change.
LEMMA RequestFacts ==
    ASSUME TypeOK, NEW g \in Requests, RequestStep(g)
    PROVE  /\ Committed(g)
           /\ table' \in [Schedules -> {NoRow} \cup Rows]
           /\ links' \subseteq Hosts \X {s \in Schedules : Exists(s)'}
           /\ enabled' \subseteq Hosts
<1>1. CASE \E s \in Schedules, p \in Specs, on \in BOOLEAN : SaveSchedule(g, s, p, on)
  <2>1. PICK s \in Schedules, p \in Specs, on \in BOOLEAN : SaveSchedule(g, s, p, on)
    BY <1>1
  <2> DEFINE row == [spec |-> NormalizeSpec(p), enabled |-> on]
  <2>2. NormalizeSpec(p) \in Specs /\ NormalizeSpec(p) # None
    BY DEF NormalizeSpec, Specs
  <2>3. row \in Rows /\ row # NoRow
    BY <2>2 DEF Rows, NoRow
  <2>4. table' = [table EXCEPT ![s] = row]
    BY <2>1 DEF SaveSchedule
  <2> QED
    BY <2>1, <2>3, <2>4 DEF SaveSchedule, TypeOK, Exists
<1>2. CASE \E s \in Schedules : DeleteSchedule(g, s)
  BY <1>2 DEF DeleteSchedule, TypeOK, Exists
<1>3. CASE \E h \in Hosts, chosen \in SUBSET Schedules : SetHostSchedules(g, h, chosen)
  BY <1>3 DEF SetHostSchedules, TypeOK, Exists
<1>4. CASE \E bundle \in [Schedules -> {NoRow} \cup Rows], linked \in SUBSET (Hosts \X Schedules),
              flags \in SUBSET Hosts, replace \in BOOLEAN : Import(g, bundle, linked, flags, replace)
  <2>1. PICK bundle \in [Schedules -> {NoRow} \cup Rows], linked \in SUBSET (Hosts \X Schedules),
             flags \in SUBSET Hosts, replace \in BOOLEAN : Import(g, bundle, linked, flags, replace)
    BY <1>4
  <2>2. CASE replace
    BY <2>1, <2>2 DEF Import, TypeOK, Exists
  <2>3. CASE ~replace
    BY <2>1, <2>3 DEF Import, TypeOK, Exists
  <2> QED BY <2>2, <2>3
<1> QED
  BY <1>1, <1>2, <1>3, <1>4 DEF RequestStep

\* A request turns to Rebuild; a second one spoils the turns.
LEMMA CommittedFacts ==
    ASSUME TypeOK, NEW g \in Requests, Committed(g)
    PROVE  /\ UNCHANGED <<phase, registry, current, job>> /\ phase = "serving" /\ Pc(g) = "idle"
           /\ rebuild' \in [Rebuilders -> RebuildRecord]
           /\ Pc(g)' = "list"
           /\ \A h \in Rebuilders \ {g} : rebuild'[h] = rebuild[h]
           /\ untidy' \in BOOLEAN
           /\ ~untidy' => ~untidy /\ Quiet
<1>1. rebuild \in [Rebuilders -> RebuildRecord]
  BY DEF TypeOK, RebuildRecord
<1>2. /\ rebuild' \in [Rebuilders -> RebuildRecord] /\ Pc(g)' = "list"
      /\ \A h \in Rebuilders \ {g} : rebuild'[h] = rebuild[h]
  BY <1>1 DEF Committed, RebuildRecord, Pc
<1>3. untidy' \in BOOLEAN /\ (~untidy' => ~untidy /\ Quiet)
  BY Zenon DEF Committed
<1> QED
  BY <1>2, <1>3 DEF Committed, Pc

LEMMA ListFacts ==
    ASSUME TypeOK, NEW g \in Rebuilders, NEW r \in Registries, ListEnabled(g, r)
    PROVE  /\ UNCHANGED <<phase, tables, current, job, untidy>> /\ Pc(g) = "list" /\ State(r) = "none"
           /\ rebuild' \in [Rebuilders -> RebuildRecord]
           /\ Pc(g)' = "swap" /\ New(g)' = r
           /\ \A h \in Rebuilders \ {g} : rebuild'[h] = rebuild[h]
           /\ registry' \in [Registries -> RegistryRecord]
           /\ State(r)' = "built" /\ registry'[r].jobs = Wanted
           /\ \A q \in Registries \ {r} : registry'[q] = registry[q]
<1>1. rebuild \in [Rebuilders -> RebuildRecord] /\ registry \in [Registries -> RegistryRecord]
  BY DEF TypeOK, RebuildRecord, RegistryRecord
<1>2. /\ rebuild' \in [Rebuilders -> RebuildRecord] /\ Pc(g)' = "swap" /\ New(g)' = r
      /\ \A h \in Rebuilders \ {g} : rebuild'[h] = rebuild[h]
  BY <1>1 DEF ListEnabled, RebuildRecord, Pc, New
<1> DEFINE new == [state |-> "built", jobs |-> Wanted]
<1>3. new \in RegistryRecord /\ registry' = [registry EXCEPT ![r] = new]
  BY WantedType DEF ListEnabled, RegistryRecord
<1> QED
  BY <1>1, <1>2, <1>3 DEF ListEnabled, Pc, State, Unused

LEMMA ListFailsFacts ==
    ASSUME TypeOK, NEW g \in Rebuilders, ListFails(g)
    PROVE  /\ UNCHANGED <<tables, registry, current, job>> /\ Pc(g) = "list"
           /\ rebuild' \in [Rebuilders -> RebuildRecord]
           /\ Pc(g)' = "idle"
           /\ \A h \in Rebuilders \ {g} : rebuild'[h] = rebuild[h]
           /\ phase' = (IF g = Main THEN "down" ELSE phase)
           /\ untidy' \in BOOLEAN /\ (g # Main => untidy')
<1>1. rebuild \in [Rebuilders -> RebuildRecord]
  BY DEF TypeOK, RebuildRecord
<1>2. IdleRebuild \in RebuildRecord /\ IdleRebuild.pc = "idle"
  BY DEF IdleRebuild, RebuildRecord
<1>3. untidy' \in BOOLEAN /\ (g # Main => untidy')
  BY Zenon DEF ListFails
<1> QED
  BY <1>1, <1>2, <1>3 DEF ListFails, Pc

LEMMA SwapFacts ==
    ASSUME TypeOK, NEW g \in Rebuilders, Swap(g)
    PROVE  /\ UNCHANGED <<phase, tables, registry, job, untidy>> /\ Pc(g) = "swap"
           /\ current' = New(g)
           /\ rebuild' \in [Rebuilders -> RebuildRecord]
           /\ Pc(g)' = "stop" /\ New(g)' = New(g) /\ Old(g)' = current
           /\ \A h \in Rebuilders \ {g} : rebuild'[h] = rebuild[h]
<1>1. rebuild \in [Rebuilders -> RebuildRecord] /\ current \in Registries \cup {None}
  BY DEF TypeOK, RebuildRecord
<1> QED
  BY <1>1 DEF Swap, RebuildRecord, Pc, New, Old

LEMMA StopOldFacts ==
    ASSUME TypeOK, NEW g \in Rebuilders, StopOld(g)
    PROVE  /\ UNCHANGED <<phase, tables, current, job, untidy>> /\ Pc(g) = "stop"
           /\ rebuild' \in [Rebuilders -> RebuildRecord]
           /\ Pc(g)' = "start" /\ New(g)' = New(g)
           /\ \A h \in Rebuilders \ {g} : rebuild'[h] = rebuild[h]
           /\ registry' \in [Registries -> RegistryRecord]
           /\ \A q \in Registries : q # Old(g) \/ State(q) # "running" => registry'[q] = registry[q]
           /\ Old(g) \in Registries /\ State(Old(g)) = "running" => registry'[Old(g)].state = "none"
<1>1. rebuild \in [Rebuilders -> RebuildRecord]
  BY DEF TypeOK, RebuildRecord
<1>2. Old(g) \in Registries \cup {None} /\ registry' = Stopped(Old(g))
  BY <1>1 DEF StopOld, Old, RebuildRecord
<1>3. /\ rebuild' \in [Rebuilders -> RebuildRecord] /\ Pc(g)' = "start" /\ New(g)' = New(g)
      /\ \A h \in Rebuilders \ {g} : rebuild'[h] = rebuild[h]
  BY <1>1 DEF StopOld, RebuildRecord, Pc, New
<1>4. /\ registry' \in [Registries -> RegistryRecord]
      /\ \A q \in Registries : q # Old(g) \/ State(q) # "running" => registry'[q] = registry[q]
      /\ Old(g) \in Registries /\ State(Old(g)) = "running" => registry'[Old(g)].state = "none"
  BY <1>2, StoppedFacts
<1> QED
  BY <1>3, <1>4 DEF StopOld, Pc

LEMMA StartNewFacts ==
    ASSUME TypeOK, NEW g \in Rebuilders, StartNew(g), New(g) \in Registries
    PROVE  /\ UNCHANGED <<tables, current, job, untidy>> /\ Pc(g) = "start"
           /\ phase' = (IF g = Main THEN "serving" ELSE phase)
           /\ rebuild' \in [Rebuilders -> RebuildRecord]
           /\ Pc(g)' = "idle"
           /\ \A h \in Rebuilders \ {g} : rebuild'[h] = rebuild[h]
           /\ registry' \in [Registries -> RegistryRecord]
           /\ registry'[New(g)].state = "running" /\ registry'[New(g)].jobs = registry[New(g)].jobs
           /\ \A q \in Registries \ {New(g)} : registry'[q] = registry[q]
<1>1. rebuild \in [Rebuilders -> RebuildRecord] /\ registry \in [Registries -> RegistryRecord]
  BY DEF TypeOK, RebuildRecord, RegistryRecord
<1>2. IdleRebuild \in RebuildRecord /\ IdleRebuild.pc = "idle"
  BY DEF IdleRebuild, RebuildRecord
<1>3. /\ rebuild' \in [Rebuilders -> RebuildRecord] /\ Pc(g)' = "idle"
      /\ \A h \in Rebuilders \ {g} : rebuild'[h] = rebuild[h]
  BY <1>1, <1>2 DEF StartNew, Pc
<1> DEFINE r == New(g)
           started == [registry[r] EXCEPT !.state = "running"]
<1>4. registry[r] \in RegistryRecord
  BY <1>1
<1>5. started \in RegistryRecord /\ started.state = "running" /\ started.jobs = registry[r].jobs
  BY <1>4 DEF RegistryRecord
<1>6. registry' = [registry EXCEPT ![r] = started]
  BY DEF StartNew, New
<1>7. /\ registry' \in [Registries -> RegistryRecord]
      /\ registry'[r] = started
      /\ \A q \in Registries \ {r} : registry'[q] = registry[q]
  BY <1>1, <1>5, <1>6
<1>8. UNCHANGED <<tables, current, job, untidy>> /\ Pc(g) = "start"
      /\ phase' = (IF g = Main THEN "serving" ELSE phase)
  BY DEF StartNew, Pc
<1> QED
  BY <1>3, <1>5, <1>7, <1>8

LEMMA StopCronFacts ==
    ASSUME TypeOK, StopCron
    PROVE  /\ UNCHANGED <<tables, current, rebuild, job, untidy>> /\ phase' = "waiting" /\ Quiet
           /\ registry' \in [Registries -> RegistryRecord]
           /\ \A q \in Registries : q # current \/ State(q) # "running" => registry'[q] = registry[q]
           /\ current \in Registries /\ State(current) = "running" => registry'[current].state = "none"
<1>1. current \in Registries \cup {None} /\ registry' = Stopped(current)
  BY DEF StopCron, TypeOK
<1>2. /\ registry' \in [Registries -> RegistryRecord]
      /\ \A q \in Registries : q # current \/ State(q) # "running" => registry'[q] = registry[q]
      /\ current \in Registries /\ State(current) = "running" => registry'[current].state = "none"
  BY <1>1, StoppedFacts
<1> QED
  BY <1>2 DEF StopCron

LEMMA ExitFacts ==
    ASSUME TypeOK, Exit
    PROVE  /\ UNCHANGED tables /\ phase' = "down" /\ current' = None /\ ~untidy'
           /\ registry' \in [Registries -> RegistryRecord]
           /\ \A q \in Registries : registry'[q].state = "none"
           /\ rebuild' \in [Rebuilders -> RebuildRecord]
           /\ \A h \in Rebuilders : rebuild'[h].pc = "idle"
BY DEF Exit, Unused, IdleRebuild, RegistryRecord, RebuildRecord

LEMMA BootFacts ==
    ASSUME TypeOK, Boot
    PROVE  /\ UNCHANGED <<tables, registry, current, job, untidy>> /\ phase = "down" /\ phase' = "starting"
           /\ rebuild' \in [Rebuilders -> RebuildRecord]
           /\ Pc(Main)' = "list"
           /\ \A h \in Rebuilders \ {Main} : rebuild'[h] = rebuild[h]
<1>1. rebuild \in [Rebuilders -> RebuildRecord]
  BY DEF TypeOK, RebuildRecord
<1> QED
  BY <1>1 DEF Boot, RebuildRecord, Pc

\* Steps that the registries and the rebuilds do not notice.
LEMMA OtherFacts ==
    ASSUME TypeOK,
           \/ \E r \in Registries, s \in Schedules, j \in Jobs : Tick(r, s, j)
           \/ \E j \in Jobs : JobStep(j)
           \/ \E h \in Hosts, on \in BOOLEAN : SetEnabled(h, on)
    PROVE  /\ UNCHANGED <<phase, table, links, registry, current, rebuild, untidy>>
           /\ enabled' \subseteq Hosts
           /\ job' \in [Jobs -> [pc : {"idle", "query", "loop"}, schedule : Schedules \cup {None},
                                 todo : SUBSET Hosts]]
<1>1. CASE \E r \in Registries, s \in Schedules, j \in Jobs : Tick(r, s, j)
  BY <1>1 DEF Tick, TypeOK, tables
<1>2. CASE \E h \in Hosts, on \in BOOLEAN : SetEnabled(h, on)
  <2>1. PICK h \in Hosts, on \in BOOLEAN : SetEnabled(h, on)
    BY <1>2
  <2>2. enabled' = enabled \cup {h} \/ enabled' = enabled \ {h}
    BY <2>1 DEF SetEnabled
  <2> QED BY <2>1, <2>2 DEF SetEnabled, TypeOK
<1>3. CASE \E j \in Jobs : JobStep(j)
  <2>1. PICK j \in Jobs : JobStep(j)
    BY <1>3
  <2>2. CASE Query(j)
    BY <2>2 DEF Query, TypeOK, tables
  <2>3. CASE \E h \in Hosts : Enqueue(j, h)
    BY <2>3 DEF Enqueue, TypeOK, tables
  <2>4. CASE JobDone(j)
    BY <2>4 DEF JobDone, IdleJob, TypeOK, tables
  <2> QED BY <2>1, <2>2, <2>3, <2>4 DEF JobStep
<1> QED
  BY <1>1, <1>2, <1>3

-----------------------------------------------------------------------------
(* The invariant, conjunct by conjunct.                                    *)

LEMMA TypeStep == TypeOK /\ Owned /\ Next => TypeOK'
<1> SUFFICES ASSUME TypeOK, Owned, Next PROVE TypeOK'
  OBVIOUS
<1> DEFINE Machine == registry' \in [Registries -> RegistryRecord] /\ rebuild' \in [Rebuilders -> RebuildRecord]
<1>1. registry \in [Registries -> RegistryRecord] /\ rebuild \in [Rebuilders -> RebuildRecord]
  BY DEF TypeOK, RegistryRecord, RebuildRecord
<1>2. ASSUME Machine, UNCHANGED <<tables, job>>, phase' \in {"down", "starting", "serving", "draining", "waiting"},
             current' \in Registries \cup {None}, untidy' \in BOOLEAN
      PROVE  TypeOK'
  BY <1>2 DEF TypeOK, RegistryRecord, RebuildRecord, tables, Exists
<1>3. \A g \in Rebuilders : Pc(g) \in {"swap", "start"} => New(g) \in Registries
  BY DEF Owned, Builders, Building
<1>4. ASSUME NEW g \in Requests, RequestStep(g) PROVE TypeOK'
  <2>1. Committed(g)
    BY <1>4, RequestFacts
  <2>2. Machine /\ UNCHANGED <<phase, registry, current, job>> /\ untidy' \in BOOLEAN
    BY <1>1, <2>1, CommittedFacts
  <2> QED
    BY <1>4, <2>2, RequestFacts DEF TypeOK, RegistryRecord, RebuildRecord, Exists
<1>5. ASSUME NEW g \in Rebuilders, RebuildStep(g) PROVE TypeOK'
  <2>1. CASE \E r \in Registries : ListEnabled(g, r)
    BY <1>2, <2>1, ListFacts DEF TypeOK
  <2>2. CASE ListFails(g)
    BY <1>1, <1>2, <2>2, ListFailsFacts DEF TypeOK
  <2>3. CASE Swap(g)
    BY <1>1, <1>2, <1>3, <2>3, SwapFacts DEF TypeOK
  <2>4. CASE StopOld(g)
    BY <1>2, <2>4, StopOldFacts DEF TypeOK
  <2>5. CASE StartNew(g)
    <3>1. New(g) \in Registries
      BY <1>3, <2>5 DEF StartNew, Pc
    <3> QED
      BY <1>2, <2>5, <3>1, StartNewFacts DEF TypeOK
  <2> QED
    BY <1>5, <2>1, <2>2, <2>3, <2>4, <2>5 DEF RebuildStep
<1>6. CASE Boot
  BY <1>1, <1>2, <1>6, BootFacts DEF TypeOK
<1>7. CASE Shutdown
  BY <1>1, <1>2, <1>7 DEF Shutdown, TypeOK
<1>8. CASE StopCron
  BY <1>1, <1>2, <1>8, StopCronFacts DEF TypeOK
<1>9. CASE Exit
  <2>1. /\ phase' = "down" /\ current' = None /\ untidy' \in BOOLEAN /\ UNCHANGED tables
        /\ job' \in [Jobs -> [pc : {"idle", "query", "loop"}, schedule : Schedules \cup {None},
                              todo : SUBSET Hosts]]
    BY <1>9 DEF Exit, IdleJob
  <2> QED
    BY <1>9, <2>1, ExitFacts DEF TypeOK, RegistryRecord, RebuildRecord, tables, Exists
<1>10. CASE (\E r \in Registries, s \in Schedules, j \in Jobs : Tick(r, s, j))
            \/ (\E j \in Jobs : JobStep(j)) \/ \E h \in Hosts, on \in BOOLEAN : SetEnabled(h, on)
  BY <1>10, OtherFacts DEF TypeOK, Exists
<1> QED
  BY <1>4, <1>5, <1>6, <1>7, <1>8, <1>9, <1>10 DEF Next

LEMMA OwnedStep == TypeOK /\ Owned /\ Phases /\ Next => Owned'
<1> SUFFICES ASSUME TypeOK, Owned, Phases, Next PROVE Owned'
  OBVIOUS
<1> USE DEF Pc, New, Old, State, Building, Swapped, Owned, Builders, Stoppers, CurrentOwned
<1>1. ASSUME UNCHANGED <<registry, current, rebuild>>, phase' = "waiting" \/ phase # "waiting" PROVE Owned'
  BY <1>1 DEF Owned
<1>2. ASSUME NEW g \in Requests, RequestStep(g) PROVE Owned'
  <2>1. Committed(g)
    BY <1>2, RequestFacts
  <2>2. /\ UNCHANGED <<phase, registry, current>> /\ rebuild[g].pc = "idle" /\ rebuild'[g].pc = "list"
        /\ \A h \in Rebuilders \ {g} : rebuild'[h] = rebuild[h]
    BY <2>1, CommittedFacts
  <2> QED
    BY <2>2 DEF Owned
<1>3. ASSUME NEW g \in Rebuilders, NEW r \in Registries, ListEnabled(g, r) PROVE Owned'
  <2>1. /\ UNCHANGED <<phase, current>> /\ rebuild[g].pc = "list" /\ registry[r].state = "none"
        /\ rebuild'[g].pc = "swap" /\ rebuild'[g].new = r
        /\ \A h \in Rebuilders \ {g} : rebuild'[h] = rebuild[h]
        /\ registry'[r].state = "built" /\ \A q \in Registries \ {r} : registry'[q] = registry[q]
    BY <1>3, ListFacts
  <2>2. Builders'
    BY <2>1
  <2>3. Stoppers'
    BY <2>1 DEF TypeOK, RebuildRecord
  <2>4. CurrentOwned'
    <3> SUFFICES ASSUME current # None, phase # "waiting"
                 PROVE  registry'[current].state = "running" \/ \E h \in Rebuilders : Swapped(h)' /\ New(h)' = current
      BY <2>1
    <3>1. CASE registry[current].state = "running"
      BY <2>1, <3>1 DEF TypeOK
    <3>2. CASE \E h \in Rebuilders : Swapped(h) /\ New(h) = current
      BY <2>1, <3>2
    <3> QED BY <3>1, <3>2
  <2> QED
    BY <2>2, <2>3, <2>4
<1>4. ASSUME NEW g \in Rebuilders, ListFails(g) PROVE Owned'
  <2>1. /\ UNCHANGED <<registry, current>> /\ rebuild[g].pc = "list" /\ rebuild'[g].pc = "idle"
        /\ \A h \in Rebuilders \ {g} : rebuild'[h] = rebuild[h]
        /\ phase' = (IF g = Main THEN "down" ELSE phase)
    BY <1>4, ListFailsFacts
  <2> QED
    BY <2>1 DEF Owned, Phases
<1>5. ASSUME NEW g \in Rebuilders, Swap(g) PROVE Owned'
  <2>1. /\ UNCHANGED <<phase, registry>> /\ rebuild[g].pc = "swap" /\ current' = rebuild[g].new
        /\ rebuild'[g].pc = "stop" /\ rebuild'[g].new = rebuild[g].new /\ rebuild'[g].old = current
        /\ \A h \in Rebuilders \ {g} : rebuild'[h] = rebuild[h]
    BY <1>5, SwapFacts
  <2> QED
    BY <2>1 DEF Owned, Phases, Quiet
<1>6. ASSUME NEW g \in Rebuilders, StopOld(g) PROVE Owned'
  <2>1. /\ UNCHANGED <<phase, current>> /\ rebuild[g].pc = "stop"
        /\ rebuild'[g].pc = "start" /\ rebuild'[g].new = rebuild[g].new
        /\ \A h \in Rebuilders \ {g} : rebuild'[h] = rebuild[h]
        /\ \A q \in Registries : q # rebuild[g].old \/ registry[q].state # "running" => registry'[q] = registry[q]
    BY <1>6, StopOldFacts
  <2>2. \A h \in Rebuilders : rebuild[h].old \in Registries \cup {None}
    BY DEF TypeOK
  <2>3. Builders'
    BY <2>1
  <2>4. \A h \in Rebuilders \ {g} : rebuild[h].pc = "stop" /\ rebuild[h].old # None =>
                                       registry'[rebuild[h].old] = registry[rebuild[h].old]
    BY <2>1, <2>2
  <2>5. Stoppers'
    BY <2>1, <2>4
  <2>6. CurrentOwned'
    BY <2>1 DEF TypeOK
  <2> QED
    BY <2>3, <2>5, <2>6
<1>7. ASSUME NEW g \in Rebuilders, StartNew(g) PROVE Owned'
  <2>1. rebuild[g].pc = "start" /\ rebuild[g].new \in Registries
    BY <1>7 DEF StartNew, Owned
  <2>2. /\ UNCHANGED current
        /\ phase' = (IF g = Main THEN "serving" ELSE phase)
        /\ rebuild'[g].pc = "idle"
        /\ \A h \in Rebuilders \ {g} : rebuild'[h] = rebuild[h]
        /\ registry'[rebuild[g].new].state = "running"
        /\ \A q \in Registries \ {rebuild[g].new} : registry'[q] = registry[q]
    BY <1>7, <2>1, StartNewFacts
  <2>3. \A h \in Rebuilders : rebuild[h].old \in Registries \cup {None}
    BY DEF TypeOK
  <2>4. Builders'
    BY <2>1, <2>2
  <2>5. Stoppers'
    BY <2>1, <2>2, <2>3
  <2>6. phase # "waiting"
    BY <2>1 DEF Phases, Quiet
  <2>7. CurrentOwned'
    BY <2>1, <2>2, <2>6 DEF TypeOK
  <2> QED
    BY <2>4, <2>5, <2>7
<1>8. CASE Boot
  <2>1. /\ UNCHANGED <<registry, current>> /\ phase = "down" /\ rebuild'[Main].pc = "list"
        /\ \A h \in Rebuilders \ {Main} : rebuild'[h] = rebuild[h]
    BY <1>8, BootFacts
  <2> QED
    BY <2>1 DEF Owned, Phases
<1>9. CASE Shutdown
  BY <1>1, <1>9 DEF Shutdown
<1>10. CASE StopCron
  BY <1>10, StopCronFacts DEF Owned, Quiet
<1>11. CASE Exit
  BY <1>11, ExitFacts DEF Owned
<1>12. CASE (\E r \in Registries, s \in Schedules, j \in Jobs : Tick(r, s, j))
            \/ (\E j \in Jobs : JobStep(j)) \/ \E h \in Hosts, on \in BOOLEAN : SetEnabled(h, on)
  BY <1>1, <1>12, OtherFacts
<1> QED
  BY <1>2, <1>3, <1>4, <1>5, <1>6, <1>7, <1>8, <1>9, <1>10, <1>11, <1>12 DEF Next, RebuildStep

LEMMA PhasesStep == TypeOK /\ Owned /\ Phases /\ Next => Phases'
<1> SUFFICES ASSUME TypeOK, Owned, Phases, Next PROVE Phases'
  OBVIOUS
<1> USE DEF Pc, State, Swapped, Quiet
<1>1. ASSUME UNCHANGED <<phase, registry, current, rebuild>> PROVE Phases'
  BY <1>1 DEF Phases
<1>2. ASSUME NEW g \in Requests, RequestStep(g) PROVE Phases'
  <2>1. Committed(g)
    BY <1>2, RequestFacts
  <2>2. /\ UNCHANGED <<phase, registry, current>> /\ phase = "serving" /\ rebuild'[g].pc = "list"
        /\ \A h \in Rebuilders \ {g} : rebuild'[h] = rebuild[h]
    BY <2>1, CommittedFacts
  <2> QED
    BY <2>2 DEF Phases
<1>3. ASSUME NEW g \in Rebuilders, NEW r \in Registries, ListEnabled(g, r) PROVE Phases'
  <2>1. /\ UNCHANGED <<phase, current>> /\ rebuild[g].pc = "list" /\ rebuild'[g].pc = "swap"
        /\ \A h \in Rebuilders \ {g} : rebuild'[h] = rebuild[h]
        /\ registry'[r].state = "built" /\ \A q \in Registries \ {r} : registry'[q] = registry[q]
    BY <1>3, ListFacts
  <2>2. phase = "starting" => \A q \in Registries : registry'[q].state # "running"
    BY <2>1 DEF Phases
  <2>3. phase # "down" /\ rebuild'[Main].pc # "list"
    BY <2>1 DEF Phases
  <2> QED
    BY <2>1, <2>2, <2>3 DEF Phases
<1>4. ASSUME NEW g \in Rebuilders, ListFails(g) PROVE Phases'
  <2>1. /\ UNCHANGED <<registry, current>> /\ rebuild[g].pc = "list" /\ rebuild'[g].pc = "idle"
        /\ \A h \in Rebuilders \ {g} : rebuild'[h] = rebuild[h]
        /\ phase' = (IF g = Main THEN "down" ELSE phase)
    BY <1>4, ListFailsFacts
  <2> QED
    BY <2>1 DEF Phases
<1>5. ASSUME NEW g \in Rebuilders, Swap(g) PROVE Phases'
  <2>1. /\ UNCHANGED <<phase, registry>> /\ rebuild[g].pc = "swap" /\ rebuild'[g].pc = "stop"
        /\ current' = New(g)
        /\ \A h \in Rebuilders \ {g} : rebuild'[h] = rebuild[h]
    BY <1>5, SwapFacts
  <2>2. current' # None
    BY <2>1 DEF Owned, Builders, Building
  <2>3. phase # "down" /\ rebuild'[Main].pc # "list"
    BY <2>1 DEF Phases
  <2> QED
    BY <2>1, <2>2, <2>3 DEF Phases
<1>6. ASSUME NEW g \in Rebuilders, StopOld(g) PROVE Phases'
  <2>1. /\ UNCHANGED <<phase, current>> /\ rebuild[g].pc = "stop" /\ rebuild'[g].pc = "start"
        /\ \A h \in Rebuilders \ {g} : rebuild'[h] = rebuild[h]
        /\ \A q \in Registries : registry[q].state # "running" => registry'[q] = registry[q]
    BY <1>6, StopOldFacts
  <2>2. phase # "down" /\ rebuild'[Main].pc # "list"
    BY <2>1 DEF Phases
  <2> QED
    BY <2>1, <2>2 DEF Phases
<1>7. ASSUME NEW g \in Rebuilders, StartNew(g) PROVE Phases'
  <2>1. rebuild[g].pc = "start" /\ New(g) \in Registries
    BY <1>7 DEF StartNew, Owned, Builders, Building
  <2>2. /\ UNCHANGED current
        /\ phase' = (IF g = Main THEN "serving" ELSE phase)
        /\ rebuild'[g].pc = "idle"
        /\ \A h \in Rebuilders \ {g} : rebuild'[h] = rebuild[h]
    BY <1>7, <2>1, StartNewFacts
  <2> QED
    BY <2>1, <2>2 DEF Phases
<1>8. CASE Boot
  <2>1. /\ UNCHANGED <<registry, current>> /\ phase = "down" /\ phase' = "starting"
        /\ rebuild'[Main].pc = "list" /\ \A h \in Rebuilders \ {Main} : rebuild'[h] = rebuild[h]
    BY <1>8, BootFacts
  <2> QED
    BY <2>1 DEF Phases
<1>9. CASE Shutdown
  BY <1>9 DEF Shutdown, Phases
<1>10. CASE StopCron
  <2>1. /\ UNCHANGED <<current, rebuild>> /\ phase' = "waiting" /\ Quiet
    BY <1>10, StopCronFacts
  <2> QED BY <2>1 DEF Phases
<1>11. CASE Exit
  BY <1>11, ExitFacts DEF Phases
<1>12. CASE (\E r \in Registries, s \in Schedules, j \in Jobs : Tick(r, s, j))
            \/ (\E j \in Jobs : JobStep(j)) \/ \E h \in Hosts, on \in BOOLEAN : SetEnabled(h, on)
  BY <1>1, <1>12, OtherFacts
<1> QED
  BY <1>2, <1>3, <1>4, <1>5, <1>6, <1>7, <1>8, <1>9, <1>10, <1>11, <1>12 DEF Next, RebuildStep

LEMMA TurnsStep == TypeOK /\ Owned /\ Phases /\ Turns /\ Next => Turns'
<1> SUFFICES ASSUME TypeOK, Owned, Phases, Turns, Next, ~untidy' PROVE InTurn'
  BY DEF Turns
<1> USE DEF Pc, New, Old, State, Building, Swapped, Running
<1>1. ASSUME UNCHANGED <<phase, table, registry, current, rebuild, untidy>> PROVE InTurn'
  BY <1>1 DEF Turns, InTurn, Quiet, Wanted
<1>2. ASSUME NEW g \in Requests, RequestStep(g) PROVE InTurn'
  <2>1. Committed(g)
    BY <1>2, RequestFacts
  <2>2. /\ UNCHANGED <<phase, registry, current>> /\ rebuild'[g].pc = "list" /\ phase = "serving"
        /\ \A h \in Rebuilders \ {g} : rebuild'[h] = rebuild[h]
        /\ ~untidy /\ Quiet
    BY <2>1, CommittedFacts
  <2>3. Running' = Running /\ Running \subseteq {current}
    BY <2>2 DEF Turns, InTurn, Quiet
  <2> QED
    BY <2>2, <2>3 DEF InTurn, Quiet
<1>3. ASSUME NEW g \in Rebuilders, NEW r \in Registries, ListEnabled(g, r) PROVE InTurn'
  <2>1. /\ UNCHANGED <<phase, table, current, untidy>> /\ rebuild[g].pc = "list" /\ registry[r].state = "none"
        /\ rebuild'[g].pc = "swap" /\ rebuild'[g].new = r
        /\ \A h \in Rebuilders \ {g} : rebuild'[h] = rebuild[h]
        /\ registry'[r].state = "built" /\ registry'[r].jobs = Wanted
        /\ \A q \in Registries \ {r} : registry'[q] = registry[q]
    BY <1>3, ListFacts DEF tables
  <2>2. InTurn /\ Wanted' = Wanted /\ Running' = Running
    BY <2>1 DEF Turns, Wanted
  <2>3. phase # "waiting"
    BY <2>1 DEF Phases, Quiet
  <2>4. \A h \in Rebuilders \ {g} : rebuild'[h].pc = "idle"
    BY <2>1, <2>2 DEF InTurn
  <2> QED
    BY <2>1, <2>2, <2>3, <2>4 DEF InTurn, Quiet
<1>4. ASSUME NEW g \in Rebuilders, ListFails(g) PROVE InTurn'
  <2>1. /\ g = Main /\ UNCHANGED <<registry, current>> /\ rebuild[g].pc = "list" /\ rebuild'[g].pc = "idle"
        /\ \A h \in Rebuilders \ {g} : rebuild'[h] = rebuild[h]
        /\ phase' = "down"
    BY <1>4, ListFailsFacts
  <2>2. Running' = {} /\ \A h \in Rebuilders : rebuild'[h].pc = "idle"
    BY <2>1 DEF Phases
  <2> QED
    BY <2>1, <2>2 DEF InTurn
<1>5. ASSUME NEW g \in Rebuilders, Swap(g) PROVE InTurn'
  <2>1. /\ UNCHANGED <<phase, table, registry, untidy>> /\ rebuild[g].pc = "swap" /\ current' = rebuild[g].new
        /\ rebuild'[g].pc = "stop" /\ rebuild'[g].new = rebuild[g].new /\ rebuild'[g].old = current
        /\ \A h \in Rebuilders \ {g} : rebuild'[h] = rebuild[h]
    BY <1>5, SwapFacts DEF tables
  <2>2. InTurn /\ Wanted' = Wanted /\ Running' = Running
    BY <2>1 DEF Turns, Wanted
  <2>3. phase # "waiting"
    BY <2>1 DEF Phases, Quiet
  <2>4. \A h \in Rebuilders \ {g} : rebuild'[h].pc = "idle" /\ rebuild[h].pc = "idle"
    BY <2>1, <2>2 DEF InTurn
  <2>5. Running \subseteq {current}
    BY <2>1, <2>2, <2>4 DEF InTurn
  <2> QED
    BY <2>1, <2>2, <2>3, <2>4, <2>5 DEF InTurn, Quiet
<1>6. ASSUME NEW g \in Rebuilders, StopOld(g) PROVE InTurn'
  <2>1. /\ UNCHANGED <<phase, table, current, untidy>> /\ rebuild[g].pc = "stop"
        /\ rebuild'[g].pc = "start" /\ rebuild'[g].new = rebuild[g].new
        /\ \A h \in Rebuilders \ {g} : rebuild'[h] = rebuild[h]
        /\ \A q \in Registries : q # rebuild[g].old \/ registry[q].state # "running" => registry'[q] = registry[q]
        /\ rebuild[g].old \in Registries /\ registry[rebuild[g].old].state = "running" =>
               registry'[rebuild[g].old].state = "none"
    BY <1>6, StopOldFacts DEF tables
  <2>2. InTurn /\ Wanted' = Wanted
    BY <2>1 DEF Turns, Wanted
  <2>3. Running' = {}
    BY <2>1, <2>2 DEF InTurn
  <2>4. \A h \in Rebuilders \ {g} : rebuild'[h].pc = "idle" /\ rebuild[h].pc = "idle"
    BY <2>1, <2>2 DEF InTurn
  <2>5. New(g) \in Registries /\ State(New(g)) = "built"
    BY <2>1 DEF Owned, Builders
  <2>6. registry'[New(g)] = registry[New(g)]
    BY <2>1, <2>5
  <2> QED
    BY <2>1, <2>2, <2>3, <2>4, <2>6 DEF InTurn, Quiet
<1>7. ASSUME NEW g \in Rebuilders, StartNew(g) PROVE InTurn'
  <2>1. rebuild[g].pc = "start" /\ New(g) \in Registries
    BY <1>7 DEF StartNew, Owned, Builders
  <2>2. /\ UNCHANGED <<table, current, untidy>>
        /\ rebuild'[g].pc = "idle"
        /\ \A h \in Rebuilders \ {g} : rebuild'[h] = rebuild[h]
        /\ registry'[rebuild[g].new].state = "running"
        /\ registry'[rebuild[g].new].jobs = registry[rebuild[g].new].jobs
        /\ \A q \in Registries \ {rebuild[g].new} : registry'[q] = registry[q]
        /\ phase' = (IF g = Main THEN "serving" ELSE phase)
    BY <1>7, <2>1, StartNewFacts DEF tables
  <2>3. InTurn /\ Wanted' = Wanted
    BY <2>2 DEF Turns, Wanted
  <2>4. \A h \in Rebuilders : rebuild'[h].pc = "idle"
    BY <2>1, <2>2, <2>3 DEF InTurn
  <2>5. current = New(g) /\ Running' \subseteq {current} /\ registry[current].jobs = Wanted
    BY <2>1, <2>2, <2>3 DEF InTurn
  <2>6. phase' # "waiting"
    BY <2>1, <2>2 DEF Phases, Quiet
  <2> QED
    BY <2>2, <2>3, <2>4, <2>5, <2>6 DEF InTurn
<1>8. CASE Boot
  <2>1. /\ UNCHANGED <<table, registry, current, untidy>> /\ phase = "down" /\ phase' = "starting"
        /\ rebuild'[Main].pc = "list" /\ \A h \in Rebuilders \ {Main} : rebuild'[h] = rebuild[h]
    BY <1>8, BootFacts DEF tables
  <2>2. Running' = {} /\ \A h \in Rebuilders \ {Main} : rebuild'[h].pc = "idle"
    BY <2>1 DEF Phases, Quiet
  <2> QED
    BY <2>1, <2>2 DEF InTurn, Quiet
<1>9. CASE Shutdown
  <2>1. UNCHANGED <<table, registry, current, rebuild, untidy>> /\ phase = "serving" /\ phase' = "draining"
    BY <1>9 DEF Shutdown, tables
  <2> QED
    BY <2>1 DEF Turns, InTurn, Quiet, Wanted
<1>10. CASE StopCron
  <2>1. /\ UNCHANGED <<table, current, rebuild, untidy>> /\ phase' = "waiting" /\ Quiet
        /\ \A q \in Registries : q # current \/ registry[q].state # "running" => registry'[q] = registry[q]
        /\ current \in Registries /\ registry[current].state = "running" => registry'[current].state = "none"
    BY <1>10, StopCronFacts DEF tables
  <2>2. Running \subseteq {current}
    BY <2>1 DEF Turns, InTurn, Quiet
  <2>3. Running' = {}
    BY <2>1, <2>2
  <2> QED
    BY <2>1, <2>3 DEF InTurn, Quiet
<1>11. CASE Exit
  <2>1. phase' = "down" /\ Running' = {} /\ \A h \in Rebuilders : rebuild'[h].pc = "idle"
    BY <1>11, ExitFacts
  <2> QED BY <2>1 DEF InTurn
<1>12. CASE (\E r \in Registries, s \in Schedules, j \in Jobs : Tick(r, s, j))
            \/ (\E j \in Jobs : JobStep(j)) \/ \E h \in Hosts, on \in BOOLEAN : SetEnabled(h, on)
  BY <1>1, <1>12, OtherFacts
<1> QED
  BY <1>2, <1>3, <1>4, <1>5, <1>6, <1>7, <1>8, <1>9, <1>10, <1>11, <1>12 DEF Next, RebuildStep

-----------------------------------------------------------------------------
(* The theorems.                                                           *)

LEMMA InitIInv == Init => IInv
<1> SUFFICES ASSUME Init PROVE IInv
  OBVIOUS
<1>1. \A g \in Rebuilders : Pc(g) = "idle"
  BY DEF Init, IdleRebuild, Pc
<1>2. \A r \in Registries : State(r) = "none"
  BY DEF Init, Unused, State
<1>3. phase = "down" /\ current = None
  BY DEF Init
<1>4. TypeOK
  <2>1. registry \in [Registries -> RegistryRecord] /\ rebuild \in [Rebuilders -> RebuildRecord]
    BY DEF Init, Unused, IdleRebuild, RegistryRecord, RebuildRecord
  <2>2. table \in [Schedules -> {NoRow} \cup Rows]
    BY DEF Init, Rows, Specs
  <2>3. job \in [Jobs -> [pc : {"idle", "query", "loop"}, schedule : Schedules \cup {None},
                          todo : SUBSET Hosts]]
    BY DEF Init, IdleJob
  <2> QED
    BY <2>1, <2>2, <2>3 DEF Init, TypeOK, RegistryRecord, RebuildRecord
<1>5. Owned
  BY <1>1, <1>3 DEF Owned, Builders, Stoppers, CurrentOwned, Building
<1>6. Phases
  BY <1>1, <1>2, <1>3 DEF Phases, Quiet, Pc
<1>7. Turns
  <2>1. Running = {}
    BY <1>2 DEF Running, State
  <2> QED BY <1>1, <1>3, <2>1 DEF Turns, InTurn, Swapped, Building
<1> QED
  BY <1>4, <1>5, <1>6, <1>7 DEF IInv

LEMMA Invariance == Spec => []IInv
<1>1. IInv /\ [Next]_vars => IInv'
  <2> SUFFICES ASSUME IInv, [Next]_vars PROVE IInv'
    OBVIOUS
  <2>1. CASE Next
    BY <2>1, TypeStep, OwnedStep, PhasesStep, TurnsStep DEF IInv
  <2>2. CASE UNCHANGED vars
    <3> USE DEF Pc, New, Old, State, Building, Swapped
    <3>1. UNCHANGED <<phase, table, links, enabled, registry, current, rebuild, job, untidy>>
      BY <2>2 DEF vars, tables
    <3>2. TypeOK'
      BY <3>1 DEF IInv, TypeOK, Exists
    <3>3. Owned' /\ Phases'
      BY <3>1 DEF IInv, Owned, Builders, Stoppers, CurrentOwned, Phases, Quiet
    <3>4. Turns'
      BY <3>1 DEF IInv, Turns, InTurn, Quiet, Running, Wanted
    <3> QED BY <3>2, <3>3, <3>4 DEF IInv
  <2> QED
    BY <2>1, <2>2
<1> QED
  BY <1>1, InitIInv, PTL DEF Spec

\* Every variable keeps its type: links refer to schedules that exist, and no
\* job has a spec cron could not parse (Rebuild, AddFunc).
THEOREM TypeCorrect == Spec => []TypeOK
<1>1. IInv => TypeOK
  BY DEF IInv
<1> QED
  BY <1>1, Invariance, PTL

\* However many handlers rebuild at once, fail or overtake each other, the
\* registry that Stop would stop is running when they are done (Rebuild swaps
\* under the lock and stops and starts outside it).
THEOREM SchedulingGoesOn == Spec => []CurrentTicks
<1>1. IInv => CurrentTicks
  <2> SUFFICES ASSUME IInv, Quiet, phase \in {"serving", "draining"} PROVE current \in Running
    BY DEF CurrentTicks
  <2>1. current # None /\ current \in Registries
    BY DEF IInv, Phases, TypeOK
  <2>2. State(current) = "running"
    BY <2>1 DEF IInv, Owned, CurrentOwned, Swapped, Quiet, Pc
  <2> QED BY <2>1, <2>2 DEF Running, State
<1> QED
  BY <1>1, Invariance, PTL

\* While rebuilds take turns no two registries tick (Rebuild stops the old one
\* before it starts the new one).
THEOREM NoTwoRegistriesTick == Spec => []OneRegistryTicks
<1>1. IInv => OneRegistryTicks
  <2> SUFFICES ASSUME IInv, ~untidy PROVE Cardinality(Running) <= 1
    BY DEF OneRegistryTicks
  <2>1. PICK x : Running \subseteq {x}
    BY DEF IInv, Turns, InTurn, Swapped, Pc
  <2>2. IsFiniteSet({x}) /\ Cardinality({x}) = 1
    BY FS_Singleton
  <2>3. Cardinality(Running) \in Nat /\ Cardinality(Running) <= Cardinality({x})
    BY <2>1, <2>2, FS_Subset, FS_CardinalityType
  <2> QED BY <2>2, <2>3
<1> QED
  BY <1>1, Invariance, PTL

\* While rebuilds take turns the registry that ticks has the jobs the table asks
\* for, after every change a handler has answered (the handlers' Rebuild).
THEOREM RegistryIsTheTable == Spec => []RegistryMatchesTable
<1>1. IInv => RegistryMatchesTable
  <2> SUFFICES ASSUME IInv, ~untidy, Quiet, phase \in {"serving", "draining"}
               PROVE  registry[current] = [state |-> "running", jobs |-> EnabledJobs]
    BY DEF RegistryMatchesTable
  <2>1. current \in Registries /\ registry[current] \in RegistryRecord
    BY DEF IInv, Phases, TypeOK, RegistryRecord
  <2>2. registry[current].state = "running"
    BY <2>1 DEF IInv, Phases, Owned, CurrentOwned, Swapped, Quiet, Pc, State
  <2>3. registry[current].jobs = EnabledJobs
    BY WantedIsEnabled DEF IInv, Turns, InTurn
  <2> QED BY <2>1, <2>2, <2>3 DEF RegistryRecord
<1> QED
  BY <1>1, Invariance, PTL

\* After schedSvc.Stop nothing ticks, if rebuilds took turns till then.
THEOREM SilenceAfterStop == Spec => []SilentAfterStop
<1>1. IInv => SilentAfterStop
  BY DEF IInv, Turns, InTurn, SilentAfterStop
<1> QED
  BY <1>1, Invariance, PTL
=============================================================================
