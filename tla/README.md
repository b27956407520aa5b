# A TLA+ model of bothan

bothan is one Go process that scans hosts with the SSL Labs API, on demand and
by schedule, stores the results in SQLite, shows them in a web UI and sends
alerts about them.  This directory models the parts of it where steps of
several goroutines, or of a process and its predecessor, meet: the scan
pipeline, the cron scheduler, the conversation with SSL Labs, the rules engine,
export and import, settings with migrations and the start of the process.  TLC
checks each of them on small instances; the TLA+ proof system checks theorems
about each of them for every value of their constants.

Paths below are relative to `src/`.

## 1. The system

### Components, their state, their operations

| Component | State it keeps | Operations | Modelled in |
|---|---|---|---|
| scan pipeline, `internal/scanner/scanner.go` | channel `sem` (slots), wait group, one goroutine per scan | `Trigger`, `Resume`, `dispatch`, `execute`, `assess`, `persist`, `fail`, `notifyComplete`, `Wait` | `Scanner`, `Assess` |
| results, `scanner/result.go`, `compare.go` | none (pure) | `overallGrade`, field mapping, comparison of two results | `Alerts` (the overall grade) |
| scheduler, `internal/scheduler` | the current `*cron.Cron`, under a mutex | `Rebuild`, `Stop`, `fire`, `NormalizeSpec` | `Scheduler` |
| rules engine, `internal/notify/engine.go` | none of its own | `Evaluate`, `matches`, deliveries | `Alerts` |
| providers, `internal/notify/providers.go` | none | three ways to send a message | outcome of a send in `Alerts` |
| store, `internal/store` | SQLite, **one** connection (`store.go`) | tables of hosts, scans, schedules, channels, rules, links, settings, users | the tables each model needs |
| bundle, `internal/bundle`, `internal/crypto` | none | `Export`, `Import` (validation, secrets) | `Bundle` |
| import, `store/import.go` | one transaction per import | `ApplyImport` | `Bundle`; its effects in `Scheduler` and `Alerts` |
| HTTP API, `internal/api` | none | one handler per resource and verb | the handlers that write, as actions |
| process, `cmd/bothan/main.go` | where `run` is | recovery, serving, shutdown | `Scanner`, `Scheduler` |
| SSL Labs client, `internal/ssllabs` | none | `info`, `analyze` | the answers, in `Assess` |
| settings, `internal/settings`, `api/settings.go`, `api/ssllabs.go` | `raw`, `snap` and callbacks under a mutex; table `settings` | `New`, `Update`, `Current`, `Raw`, registration | `Settings` |
| migrations, `store/migrate.go` | table `schema_migrations` | `migrate` | `Settings` |
| auth, `internal/auth` | the session secret; table `users` | login, `Verify`, seeding of the administrator; tokens | `Settings`, without tokens |
| metrics, dashboard, config, server, web | counters; read-only views | | no (section 7) |

### How they interact

    HTTP handlers --Trigger--> scanner --goroutine--> assess --> SSL Labs
    cron jobs -----Trigger-->     |                     |
    main (recovery) --Resume-->   |    rows of `scans`  v
                                  +--persist/fail--> notifyComplete --> rules engine --> providers
    HTTP handlers --commit, then Rebuild--> scheduler --swap--> running cron.Cron --> fire
    main --signal--> httpSrv.Shutdown -> schedSvc.Stop -> scanSvc.Wait

Everything is shared through the database or through a pointer swap; there is
no message queue.  Since `store.Open` sets the pool to a single connection, a
SQL statement or a transaction is one atomic step, and everything between two
of them can interleave with everything else.  That is the grain of every
module here.

### What is hard about it

* **Check and act in two statements**: `Trigger` (scanner.go:152, 160), host
  and schedule updates, `Evaluate`'s queries, `Export`.
* **Copies that go stale**: the host a goroutine scans, the registry built from
  the schedules table, the settings snapshot, the previous scan of an
  evaluation, the configuration of a channel about to be used.
* **Deadlines**: the scan's context governs its own error handling
  (scanner.go:364, 374).
* **Crashes and restarts**: a crash leaves pending and running rows;
  `recoverPendingScans` resumes them.  Row ids are reused after a delete
  (`INTEGER PRIMARY KEY` without `AUTOINCREMENT`), hosts cascade to scans.
* **Order**: scans of one host may overlap and finish in any order;
  `PreviousReady` goes by row id.
* **Partial failure**: an import writes five tables; a setting is stored and
  then swapped in; a commit may be reported as failed and be there all the same.
* **Limits**: slots, the capacity and cool-off of SSL Labs, bounded retries.
* **Shutdown**: three waits in a row, of which the second is not awaited.

`PROJECT.json` lists each hazard at its line, with the properties that would
catch it going wrong or the reason why none does yet.

## 2. The modules

| Module | What it is |
|---|---|
| `ScanLedger` | abstract: what the scans table promises, with no process in sight |
| `Scanner` | callers, scan goroutines, slots, rows, host API, process life cycle |
| `MCScanner` | values for TLC (5 configurations) |
| `ScannerProofs` | theorems about `Scanner`, with their proofs |
| `LedgerProofs` | theorems about `Scanner` under conditions on its environment; it implements `ScanLedger` |
| `Scheduler`, `MCScheduler` | the cron registry as a cache of a table (2 configurations) |
| `SchedulerProofs` | theorems about `Scheduler`, with their proofs |
| `Assess`, `MCAssess` | capacity, cool-off, retries and polling of one scan, times the scans |
| `AssessProofs` | theorems about `Assess`, with their proofs |
| `Alerts`, `MCAlerts` | scans of a host, the evaluations of them, rules, channels |
| `AlertsProofs` | theorems about `Alerts`, with their proofs |
| `Bundle`, `MCBundle` | export and import documents against the tables and the edits of the API (2 configurations) |
| `BundleProofs` | theorems about `Bundle`, with their proofs |
| `FoldLemmas` | what the proofs of `Alerts` and `Bundle` need of finite sets of numbers and of folds |
| `Settings`, `MCSettings` | migrations, starts, the settings service, sessions and the first user |
| `SettingsProofs` | theorems about `Settings`, with their proofs |

Each module holds a few operators whose comment starts with "Broken variant".
They are what a definition would be after a plausible mistake in the code;
`Next` does not use them.  `PROJECT.json` pairs every checked property with one
of them that violates it, which shows that the property depends on the code.

### Scanner

*State.*  `status`, `owner` are columns of `scans`; `hosts` is the hosts table
(row id to name); `caller[c]` and `worker[w]` hold the program counter and
locals of a caller of `Trigger` and of a goroutine of `dispatch`; `sem` is the
length of the channel; `recover` is what `recoverPendingScans` has still to
resume; `phase` is where `run` is.  `subject`, `told` and `lost` are history:
which name a stored result was obtained for, how often the rules engine was
called with a row, and the rows nothing in this process will write any more:
their last writer was refused, or their INSERT was reported as failed.

*Steps.*  `TriggerGet`, `TriggerCheck`, `TriggerCreate`, `Dispatch` are the
four places of `Trigger` where another goroutine can get in between.  The INSERT
of `Create` runs under the caller's context and may be reported as failed with
the row in the table (`CreateUnreported`): nobody dispatches that row.  `Start`,
`Assess`, `Save`, `Fail`, `Notify`, `Release` those of `execute`.  A statement
under the scan's context is refused once the deadline has passed (`Accepted`,
`Refused`); `fail` and `notifyComplete` use the same context, so they are
refused as well.  A result that is stored and reported as failed is followed by
`fail` (`Save`).  Both cases need `StoreFails`.  `DeleteHost` does what the foreign keys do.  `Exit` empties
memory and keeps the rows; the next `Boot` lists the active ones.

*Abstractions.*  A row that is not there has status `"none"`.  The content of a
result is the name it was obtained for.  Whatever `assess` does is one step
that ends well or not (`Assess` opens it up).  `Evaluate` returns (`Alerts`
opens it up).

### ScanLedger

A scan is recorded under the next free id, may be marked running, finishes at
most once, and is reported to the rules engine at most once, not before it
finished.  `Scanner` instantiates it with `life <- status, heard <- told`; TLC
checks `Ledger!Spec` as a property of the pipeline, and `LedgerProofs` proves it.

### Scheduler

`table`, `links` and `enabled` are the schedules, `host_schedules` and the
enabled flags of hosts; `registry[r]` is a `cron.Cron` in memory with its jobs;
`current` is `s.cron`.  A handler commits and goes on in `Rebuild`, whose steps
are: list the table and build, swap the pointer under the lock, stop the old
registry, start the new one.  `Stop` does nothing to a registry that is not
running, as in robfig/cron.  Jobs query and enqueue hosts one by one.
`untidy` records that two rebuilds overlapped or that one failed.  A registry
nothing refers to and that does not run is garbage and its model value is used
again; a stopped one is the same as none.  A commit that took effect and was
reported as failed has the outcome of a commit whose `ListEnabled` failed
(`ListFails`): the table has changed and there is no rebuild.

### Assess

`scan[w]` is where `assess`, `awaitCapacity` or `analyzeWithBackoff` is for a
scan; `remote[w]` is the last assessment SSL Labs has of that host; `recent`
(history) holds the assessments that were started less than a cool-off ago by
scans that had asked for capacity.  Time exists for the cool-off only; all other
sleeps end nondeterministically.  The first call of a scan says either
`startNew`, after `awaitCapacity`, and starts an assessment (`Started`), or
`fromCache`, at once.  The second is answered with the last assessment there is
(`Polled`), or starts one when there is no report or none young enough
(`StartedFromCache`); how old a report is, is left open.  Assumed of SSL Labs: it
does not start an assessment when it answers with a 5xx or a limit, and it
refuses new ones beyond its capacity.

### Alerts

The scans of one host, each with an evaluation of its own.  `ReadPrevious`,
`ReadRules`, `ReadChannels` and `Deliver` are the statements and sends of
`Evaluate` in order; between them the host's next scan may be created, finish
and be evaluated, and rules, links and channels may change.  A rule that is
absent, disabled or of another host is `NoRule`: `RulesForHost` does not return
it.  Two history variables mark the cases the code gives up on: `lapse` (a
query failed, a send failed, a crash, a rule or channel changed after the first
scan) and `overlap` (two scans of the host were active at once, which `Scanner`
shows to be possible).  An import is what it does to a channel of this host:
without secrets it blanks the row; with them it writes what the document holds,
which for an `instance_key` document is whatever the exporting row held.

### Bundle

*State.*  `db` is the tables an export carries: hosts and rules with their row
ids, schedules and channels by their unique names, and the two link tables.
`export` and `import` are the locals of `Export` and of `Import` with its
transaction.  `doc` is the last document an export wrote; `origin` (history) is
what the tables held if nothing changed between its queries.  `Consistent` is
what the schema declares: unique ids and names, rules and links that refer to
rows, no configuration on a channel that needs its credentials; `Sound` adds the
types of the columns.  `Decoded` is what a document may hold once it is JSON of
the right shape, before `validate` has looked at it.

*Steps.*  `ListHosts`, `SchedulesForHost` and `ChannelsForHost` (host by host),
`ListSchedules`, `ListChannels`, `ListRules` are the queries of `Export`.
`BeginImport` is validation, resolution of the secrets and the `BEGIN`; then
`Wipe` and one step per table, `Commit` or `Rollback`.  The transaction has the
only connection, so nothing else runs until it ends (`Free`).  Every write of
the API to these tables is an action.  What a stage does is a function of the
tables, so that `Applied` says what a whole import does and is used to state
`RoundTrip` and `ImportIdempotent`.  `upsertHost` and `upsertRule` depend on the
rows the entries before have made (`UpsertedHosts`, `UpsertedRules`, folds over
the entries); schedules and channels go by unique names, in any order.
`Imported` says what an import promises, row by row and without its stages:
listed hosts, schedules and channels end up as the document says, other rows stay
(merge) or go (replace, hosts excepted), links are those of the document or of
what stayed.

*Abstractions.*  Columns that only travel are one value; a cipher is the key it
was made with and the secret in it; what `validate` looks at in one entry alone
is one flag.  The instance has a key.  A document has no field for
`needs_credentials`, so `RoundTrip` compares configurations without it.  A wrong
passphrase for a document without channels is accepted, as in the code, where it
is found out by decrypting.

### Settings

*State.*  `schema`, `settings` and `users` survive a crash; `raw`, `snap`,
`lock`, `level` are the service's fields, its mutex and the log level its
callback sets; `proc` the locals of `run`: which release it is, whether it was
given credentials, the session secret it was started with.  `sessions` are the
secrets of the cookies that have not expired.  `ahead` (history) holds the keys
of an update that was stored though `SetMany` reported an error.

*Steps.*  `CheckMigration`, `ApplyBody`, `RecordMigration`, `CommitMigration`
are the loop of `migrate`; `SeedDefaults`, `Load`, `GenerateSecret`,
`BuildSnapshot` are `New`; `CountUsers`, `CreateAdmin` the seeding.  An update
is `LockAndBuild`, `Persist` or `PersistFails`, `Swap`, `Notify`, and the answer
that follows it `Current`, `Raw`, `Answer`: the snapshot and the durations as
typed are read under different locks.  `Start` picks a release: an older one may
run after a newer one and the other way round.

*Abstractions.*  Which strings `build` accepts and what it makes of them are
constants.  A patch stands for a PUT and for what a registration at SSL Labs
stores.  A random secret is never generated twice.

## 3. Runs

| Run | Instance | What it shows |
|---|---|---|
| `scanner_safety` | 1 host row, 2 scan rows, 1 API and 1 cron caller, 2 goroutines, 1 slot, create and delete, deadlines, failed statements | `TypeOK`, `NoStrandedScan`, `SlotsConserved` |
| `scanner_ledger` | 2 host rows, 2 names, 2 scan rows, both callers, 2 goroutines, 1 slot, deadlines | `OneRunPerScan`, `ScansPerHostBounded`, `ResultsFromOwnHost`, and the pipeline implements `ScanLedger` |
| `scanner_liveness` | 1 host row, 2 scan rows, 2 API callers, 2 goroutines, 1 slot, create and rename | `GracefulStop`, `EveryScanIsHeard`, `ShutdownCompletes` |
| `scheduler_rebuild` | 1 schedule, 1 host, 1 spec and 1 friendly word, 2 requests, 3 registries, 1 job, queries fail | `TypeOK`, `OneRegistryTicks`, `RegistryMatchesTable`, `CurrentTicks`, `SilentAfterStop`, `EnabledScheduleTicks` |
| `assess` | 2 scans, 2 slots, capacity 1, cool-off 2, 1 retry | `TypeOK`, `StartedOnce`, `FreshResult`, `BurstBounded`, `EveryScanEnds` |
| `alerts` | 3 scans, 3 reports, 1 rule, 1 channel | `TypeOK`, `GradeIsWorst`, `SuppressedAsRepeat`, `NoDropMissed` |
| `scanner_double_scan` | violated | README.md:135, "never scanned twice at once" |
| `scanner_stuck_scan` | violated | README.md:605, "wait for it to finish" |
| `scheduler_disabled` | violated | README.md:320, "disabled schedules never enqueue" |
| `bundle` | 2 names, 1 host, schedule, channel and rule at first, 2 changes or imports, documents of another instance in 3 modes and one that must be refused | `TypeOK`, `QuietExportAccepted`, `RoundTrip`, `SecretsReadable`, `ImportIdempotent`, `ImportAllOrNothing` |
| `bundle_rule_scope` | violated | bundle.go:71, `Host` is "empty for a global rule" |
| `settings` | 2 settings (1 checked, 1 duration), 4 patches, 2 requests, 2 secrets, 2 migrations | `TypeOK`, `MigrationsOnce`, `TableBuilds`, `SnapshotTracksTable`, `LogLevelCurrent`, `SessionsSurvive`, `AdminSeeded`, `AnswerReflectsUpdate`, `StartKeepsSettings` |

**Why the bounds are enough.**  *Scanner*: two goroutines and one slot make one
wait for the other; two callers of different kinds race on one host; two scan
rows with deletion make ids come back; crashes are unlimited, so recovery is
itself interrupted and repeated.  *Ledger*: two hosts and two names, so that
crossing the wrong name or row is visible.  The ledger run has no failed
statements (nor has `scanner_liveness`; `scanner_safety` has): when a write is refused and the next read is not, `notifyComplete`
hands the rules engine a row that is still active, which the engine ignores
(it matches on `ready` and `error`).  It has no deletions and no renames:
with deletions an id may be given out twice, which the ledger excludes, and
after a rename an old result belongs to the old name by design.
*Scheduler*: two requests and main are all it takes for two rebuilds to
overlap, and a third registry is alive while the first two are. *Assess*: two
scans with a slot each look for capacity at the same time and wait together, or
one meets the assessment and the cool-off of the other; a scan that has ended
begins again, with its earlier start still in the cool-off; the capacity of one
makes the second of two starts wait or fail.  *Alerts*: three scans are the
smallest number for a failed or late one between two ready ones; the reports
have a good grade, a worse one and a list with several grades; conditions are
`grade_below` and `grade_downgraded`, the two the properties are about.
*Bundle*: two changes during an export are what it takes to create a host and a
rule of it, or to change a table read and one not read yet; the foreign
documents overlap the tables in one name and add another, and have a rule of
each kind; what the columns that only travel hold at first differs from what is
entered later, so that a write that does not arrive is visible.  `MaxChanges`
counts edits and imports together: an import of an export, then another one.
*Settings*: two requests contend for the lock, the
patches are a good one, two that are refused (a bad duration alone, a bad level
with a good duration) and one that changes both settings and spells a duration
otherwise; two secrets so that a second one could be generated; releases with
one and with two migrations.

**Symmetry** is used where an instance has interchangeable goroutines, requests
or registries and no liveness property.

**Deadlock** is checked everywhere: no state of these models is without a step.

## 4. Fairness

Only steps the Go scheduler and the runtime owe us are fair; a request, a
signal, a deadline, a tick, a crash or a restart never is.

* `Scanner`: weak fairness of the steps of a caller, of a goroutine inside
  `execute`, of recovery, and of the waits of `run` that have come true.  Strong
  fairness of `Acquire`: a goroutine that waits to send on `sem` queues first
  in, first out with the others, so a slot that becomes free again and again
  reaches it, though another one may take it in between.
  `scanner_liveness` has no deadlines and no failing statements: with them the
  property is false, which is `scanner_stuck_scan`.
* `Scheduler`: a handler that has committed goes on, and so does `run`.
* `Assess`: weak fairness of the steps of a scan and of its deadline: the
  context of a scan always has one (scanner.go, `execute`).  SSL Labs is not
  fair: it may answer with errors for ever.
* `Alerts`, `Bundle` and `Settings` state no fairness: nothing in them waits for
  anything but a lock that is released on every path, which
  `SnapshotTracksTable` and `TypeOK` of `Settings` are about.

## 5. Proofs

`ScannerProofs` proves, for every number of hosts, scans, callers, goroutines
and slots, with deadlines, failures and every administrative operation:

* `TypeCorrect`: `Spec => []TypeOK`.  No index is out of range though ids are
  reused and hosts vanish under their callers.
* `NoScanIsStranded`: `Spec => []NoStrandedScan`.  While the process is up an
  active row is listed for recovery, about to be dispatched, or attended by a
  goroutine that has yet to write its outcome, unless its last writer was
  refused or its INSERT was reported to `Trigger` as failed.  The second
  exemption is a flaw of the code, not of the model: such a row answers 409 for
  its host until a restart.
* `SlotsAreConserved`: `Spec => []SlotsConserved`.  `sem` counts the goroutines
  inside `execute` and is at most `Slots`.

*Assumptions*: `ConstantsAssumption` of `Scanner` only (the bounds are natural
numbers, there is at least one slot, the set of goroutines is finite, the two
kinds of callers are different).

*The argument.*  None of the three is inductive by itself.  The inductive
invariant is

    IInv == TypeOK /\ RowsOwned /\ LocalsSet /\ Recovery /\ NoStrandedScan /\ SlotsConserved

`RowsOwned` is the foreign key: a row that exists belongs to a host that
exists.  `Resume` reads the host of a row it was told about earlier, so types
need it.  `LocalsSet` says that a caller about to dispatch has a scan id and
that a live goroutine has one.  `Recovery` says that before `Serve` nothing
writes to the tables but the goroutines that were resumed, that a listed row is
still active and that no goroutine has it; so a listed row can be resumed and
`Serve` strands none.  Each conjunct has a lemma `...Step`: it is preserved by
every step, given all of `IInv`.  The steps are brought down to a dozen cases
first (`StepCases`): `WorkerFacts` says what any step of a goroutine does to the
tables, `CallerCases` what the steps of callers that write nothing do, so that
the lemmas do not repeat it action by action.

`LedgerProofs` proves what holds of the pipeline under a condition on its
environment.  The conditions are part of the statements, and each is needed:

* Hosts are not deleted (`HostsStay`).  A deletion frees the ids of rows which
  goroutines still hold, and the next scan gets one of them.  Then
  `EachScanRunsOnce`: `Spec => []OneRunPerScan`, and `ScansPerHostAreBounded`:
  `Spec => []ScansPerHostBounded`, for any number of callers.
* Hosts are not renamed either (`NamesStay`): `ResultsAreOfTheirHost`:
  `Spec => []ResultsFromOwnHost`.
* Hosts are not deleted and no statement fails by itself: `LedgerIsImplemented`,
  `Spec => ImplementsLedger`.  Deadlines are allowed: under them the last write
  of a scan and its notification are refused together.  A statement that fails
  by itself may spare the notification, which then reads an active row.
* There are no cron callers, since `run` does not wait for running jobs:
  `StopIsGraceful`, `Spec => []GracefulStop`, with deletions and failures.  The
  scans it leaves are those of the two exemptions of `NoStrandedScan`; recovery
  lists them at the next start.

*The argument.*  To `IInv` is added that ids are used in order (`Numbered`), that
the row of a live goroutine exists and is active until its outcome is written
(`InFlight`), and that no two callers are about to dispatch one row
(`Separate`).  For the number of scans of a host: every active one beyond the
first was inserted by a caller that had passed the check before, and a caller
has one scan between check and insert.  For results: the copies of a host's name
held by callers and goroutines are right (`CopiesRight`).  For the ledger: the
rules engine has not heard of a scan before its goroutine notifies it
(`Unheard`); every step of a caller, a goroutine or the process then is a step of
the ledger on that row or a stutter.

`SchedulerProofs` proves, for any schedules, hosts, specs, requests and registries,
with failing queries, jobs in the middle of a tick, and crashes and restarts:

* `TypeCorrect`: `Spec => []TypeOK`.
* `SchedulingGoesOn`: `Spec => []CurrentTicks`.  However many rebuilds overlap,
  fail or overtake each other, when they are done the current registry runs.
  This one needs no order among them.
* `NoTwoRegistriesTick`, `RegistryIsTheTable`, `SilenceAfterStop`: while rebuilds
  take turns (`~untidy`), one registry at most runs, it has the jobs the table
  asks for, and none is left after `Stop`.

*Assumptions*: `SchedulerAssumption` (the kinds of constants do not overlap, and
`None` is in none of them).

*The argument.*  `IInv == TypeOK /\ Owned /\ Phases /\ Turns`.  `Owned` says who
may still touch a registry: one that is built and not yet started has a single
rebuild that will start it, one that is to be stopped is not current any more,
and the current one runs unless the rebuild that swapped it in is on its way to
start it.  It holds under any interleaving, because the swap is under the lock.
`Phases` is what `run` has established.  `Turns` is what is lost when two
rebuilds overlap, and holds while `~untidy`: a registry that runs is the current
one or the one its rebuild is about to stop, and the registry of the rebuild
under way was built from the table as it is.

`AssessProofs` proves, for any number of scans, slots, retries, any capacity and
any cool-off:

* `TypeCorrect`; `AtMostOneStart`: `Spec => []StartedOnce`, though the call that
  starts is repeated after errors and whether it says `startNew` or
  `fromCache`; `ResultsAreFresh`: `Spec => []FreshResult`, for the scans that do
  not ask for the cached report.
* `StartsAreBounded`: `Spec => []BurstBounded`.  Within one cool-off the scans that
  ask for capacity start no more assessments than there are slots.  The bound is
  on starts, not on scans: a scan that begins again counts again.  It says
  nothing of the assessments started by `fromCache`, which wait for nothing.

*Assumptions*: `AssessAssumption` (natural bounds, at least one slot, finitely
many scans).

*The argument.*  `IInv == TypeOK /\ Progress /\ Paced /\ Bounded`, the second for
every scan.  `Progress` relates the place of a scan to what has been started for
it.  `Paced` says that no scan has two starts within one cool-off, since one that
may start has waited since its last (`Waited`); so starts can be counted as
scans.  `BurstBounded` needs a stronger induction hypothesis, about every shorter
window as well: `Counted(t)` are the scans that
in `t` units of time are still within a cool-off of their start, or may have
started by then; `Bounded` says that for every `t` from 0 to the cool-off they
are at most `Slots`.  A tick moves each set into the one for a longer time.
Those counted for the whole cool-off all hold a slot, and a scan that has just
taken a slot has a cool-off to wait out, so it is in none of the others.

`AlertsProofs` proves, for any number of scans, rules, channels and reports:

* `TypeCorrect`: `Spec => []TypeOK`.
* `NoDropIsMissed`: `Spec => []NoDropMissed`.  If nothing lapsed and no scans
  overlapped, a grade below that of the last ready scan is sent on every usable
  channel, however many failed scans lie in between.
* `OnlyRepeatsAreSuppressed`: `Spec => []SuppressedAsRepeat`.  Here scans may
  overlap and be evaluated in any order.
* `OverallIsWorst`: `Spec => []GradeIsWorst`.  The grade stored is a worst one of
  the endpoints, for any number of them and for grades `GradeRank` does not know.

*Assumptions*: `AlertsAssumption` (the constants are of their kinds) and
`ReportsAssumption` (a report has a sequence of grades, which are strings).

*The argument.*  `IInv == TypeOK /\ Numbered /\ (~lapse => Judged)`.  `Judged`
says what an evaluation owes from the moment it has read the rules: there is a
scan it took for the previous one (`Earlier`: the last ready one if none
overlapped) such that every rule that matches the pair is in hand, about to be
sent, or sent (`Kept`, `Promised`).  For the second property one goes back to
the least of the ready scans with the same grade: its previous one has another
grade, so the rule matched then.  `OverallIsWorst` needs no step of the system, but
an induction over the endpoints: `overallGrade` is a fold, and `FoldLemmas` shows
that there is a function with the recursive equation of a fold over a finite set
(`FoldExists`) and that what its step preserves holds of the whole (`FoldInduction`).

`BundleProofs` proves, for tables, documents and imports of any size, any secrets
and any number of changes:

* `TablesStayConsistent`: `Spec => []TypeOK`.  Every edit with its cascades and
  every import keeps what the schema declares, though rules are matched by names
  that may repeat and link names are resolved against rows just written.
* `StoredSecretsAreReadable`: `Spec => []SecretsReadable`.  Whatever is
  imported, exported, edited or lost in a crash, every stored configuration can
  be decrypted with the key of this instance.
* `ImportsDoAllOrNothing`: `Spec => ImportAllOrNothing`.  When the tables change
  while an import is open, the import is not a dry run and they become what it
  promises (`Imported`); `ImportsAreAtomic` is the half of it that says that they
  become what all of its stages make of them.
* `MergesRepeat`: `Spec => []ImportIdempotent`.
* `QuietExportsAreAccepted`: `Spec => []QuietExportAccepted`.
* `MigrationsKeepContent`: `Spec => []RoundTrip`.  A document made while nothing
  changed brings empty tables to the content it was made of, in either mode.

The last two exclude documents with two rules of one name, as the properties do:
the tables allow them and `validate` refuses them.

*Assumptions*: `BundleAssumption` (the bound is natural, the kinds of names and
keys do not overlap, what is entered are values) and `InputsAssumption`: at first
the tables are consistent and can be read, a document has the shape the decoder
gives it and finitely many hosts, and the ciphers of a document from elsewhere
were made with the key it names.  The last part is what the code relies on: for
`instance_key` documents it compares a fingerprint (bundle.go:299-308) and stores
the ciphers undecrypted.

*The argument.*  There are three inductive invariants, one on top of the other.

`BInv`: the tables, the open transaction and the document under construction
hold nothing but configurations that can be read; `Carried` and `Received`
preserve it in each mode.

`Staged`: at each stage the transaction is the tables, as they are now, with the
stages so far applied; nothing else writes while it holds the connection.

`TInv` is about content.  The tables are `Sound`; a document being imported has
been validated (`Importable`); while the tables hold still, the part an export
has written is made of them as they are, up to the host it has come to
(`ExportCalm`), and so a finished document is what `Written` says of the tables it
was made of (`OriginWritten`).  Neither `QuietExportAccepted` nor `RoundTrip` is
inductive without it: they speak of the finished document only.

What a whole import does is a matter of the operators alone.  `UpsertedHosts` and
`UpsertedRules` are folds; `HostsOutcome` and `RulesOutcome` say what they return
without the order of the entries, by induction with `FoldLemmas`.  From these
follow `WithHostsFacts` to `WithLinksFacts`, one per stage, `AppliedFacts` for all
of them, and then three lemmas: an import yields `Sound` tables that are as
`Imported` says (`AppliedIsImported`), applying the document again changes nothing
(`MergedAgain`), and what was written of tables brings back their content
(`Migrated`).  Each kind of edit has a lemma that it keeps tables `Sound`.

`SettingsProofs` proves, for any settings, patches, requests, number of
migrations, and any history of crashes and releases:

* `TypeCorrect`: `Spec => []TypeOK`.
* `StoredSettingsBuild`: `Spec => []TableBuilds`.  Updates are checked against
  `raw`, not against the table, and the table may be ahead of it; still no
  sequence of them stores something the next start refuses.
* `SnapshotIsCurrent`, `LevelIsCurrent`: between updates the process runs on what
  is stored, and the callback has kept up.
* `SessionsOutliveProcess`, `AdministratorExists`, `StartsKeepSettings` (an
  action property), `MigrationsApplyOnce`.
* `AnswersShowUpdates`: `Spec => []AnswerReflectsUpdate`.  The answer to an update
  is put together from two reads under two locks; it still shows the update.

*Assumptions*: `SettingsAssumption` (the constants are of their types; every
default is valid) and `NoCallerAssumption`.

*The argument.*  `IInv == TypeOK /\ LocalsSet /\ Tracking`.  `LocalsSet` says what
`run` has established at each of its places (after `Load` the table is there,
after `GenerateSecret` it has a secret and `raw` has the same one, ...).
`Tracking` relates the table to `raw`: they agree but for `ahead` and for the
patch of the request that has stored it and not swapped yet, whose `merged` map
builds; and every session is signed with the secret in the table.
`MigrationInv` adds, for the open transaction, that it is the schema at its
`BEGIN` with what the loop has done since.  `Reflects` says of a request whose
update is the last one that its patch is in `raw`, and so in `snap`, until it has
answered.

*Model-checked only*: liveness under fairness (`EveryScanIsHeard`,
`ShutdownCompletes`, `EnabledScheduleTicks`, `EveryScanEnds`), which the prover
does not reach: it has no rule for `ENABLED`.  Every other property of a passing
run is a theorem.

## 6. Findings

The four violated runs are disagreements between a document and the code; the
quotes and lines are in `PROJECT.json`.

1. *Double scan.*  `HasActive` and the insert are two statements; two callers
   pass the check and one host has two active scans.  `ScansPerHostBounded`
   says how far it goes.
2. *Stuck scan.*  When a scan's deadline passes, `fail` and `notifyComplete`
   run under the context that has expired: the row stays `running`, no rule
   hears of it, and every later `Trigger` for the host is refused with 409
   until a restart.
3. *A disabled schedule goes on.*  Two overlapping rebuilds leave a registry
   that is out of date, or one nobody refers to, ticking.
4. *A rule becomes global.*  A host and a rule of it that are created while an
   export runs come out as a rule for every host.

The models contain three more, described here and not stated as runs:

* *Friendly specs in an import* are checked (bundle.go:367) and stored as they
  came (bundle.go:263), while README.md:316-318 says they are "normalized on
  save"; cron cannot parse them and the enabled schedule never fires.  In
  `Scheduler` such a row has no job.
* *Cool-off.*  README.md:132-133 says scans honour "the cool-off between new
  assessments".  Each scan sleeps it out by itself (scanner.go:284-286); scans
  that find capacity together start together.  `BurstBounded` is the bound that
  does hold for them.  A host with `from_cache` is asked about without a look at
  capacity or cool-off (scanner.go:233); when its report is missing or older than
  `max_age_hours`, that call starts an assessment at once; no wait of the code
  comes between two of those.
* *`needs_credentials`* (0001_init.sql:39, "blocks use until re-entered") is not
  in documents: an `instance_key` export (bundle.go:187-189) of a channel that
  still needs credentials is imported (bundle.go:302-308) as one that does not.

And five things a reader should know, which no document denies: a client that goes
away at the INSERT of its scan may leave a pending row nobody dispatches, and the
host answers 409 until a restart (scanner.go:160); `GracefulStop`
fails with cron callers, because `schedSvc.Stop` does not wait for running jobs
and `run` does not wait for what it returns; a goroutine that outlives its
deleted host may write its result into the row of a new scan that got the same
id; two rules may share a name in the table, and an export of them is refused by
import; a replacing import gives row ids out again, so a page still open in a
browser may name another row.

## 7. Not modelled, and why

* API tokens and password hashing: each request is checked by itself, with no
  step between two of them that could interleave.
* Metrics and dashboard: counters and views nothing else reads.
* Comparison of two results and mapping of endpoints: pure functions of two
  reports.
* Configuration, server, web UI, message texts, provider wire formats, decoding
  of reports: no state other parts depend on.
* `EffectiveBind`, and termination of a request for settings.
* A user name with a `|` in it, which makes the session payload
  (auth/session.go:51) unreadable: the name is not part of `sessions`.
* Durations other than the cool-off: the properties do not tell them apart.
* Authorship of an edit: host and schedule updates read a row and write all
  of it back; the models let such an edit set any value, which covers the stale
  one.

## 8. Plan

Done, in this order: `ScanLedger` and `Scanner` with their runs, `ScannerProofs`,
`Scheduler`, `Assess`, `Alerts`, `Settings`, `Bundle`, then the modules of proofs
about each of them, `LedgerProofs` last but two, then `FoldLemmas` and with it
what was missing in `AlertsProofs` and most of `BundleProofs`.

What would add most next:

1. Tokens: revocation against a request that has been let in.
2. The metrics as a view of the scans: how far the counters may be from the
   table after a refused write.

## 9. Running it

    tlc -workers 2 -config MCScannerSafety.cfg MCScanner
    tlapm ScannerProofs.tla

Every configuration finishes within two to three minutes on two workers, most in
seconds; a module of proofs takes one or two minutes from nothing, `BundleProofs`
four.
