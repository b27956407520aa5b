------------------------------ MODULE Scanner -------------------------------
(***************************************************************************)
(* The scan pipeline of bothan: the callers of scanner.Service.Trigger     *)
(* (HTTP handlers and cron jobs), the goroutines it dispatches, the slots  *)
(* they share, the rows of the scans table they write, and the process     *)
(* that starts, recovers, stops and crashes around them.                   *)
(*                                                                         *)
(* Every action is what the code does between two points where another     *)
(* goroutine can run: the database has one connection, so one SQL          *)
(* statement (or one transaction) is one step, and nothing else is.  SSL   *)
(* Labs, the rules engine and the HTTP server are the environment.         *)
(***************************************************************************)
EXTENDS Integers, FiniteSets

CONSTANTS
    MaxHostId,    \* bound: host row ids are 1 .. MaxHostId
    MaxScanId,    \* bound: scan row ids are 1 .. MaxScanId
    Names,        \* hostnames
    NoName,       \* no hostname: the row does not exist
    ApiCallers,   \* HTTP requests that may be in POST /hosts/{id}/scan at once
    CronCallers,  \* cron jobs that may be in scheduler.fire at once
    Workers,      \* bound: scan goroutines that may be alive at once
    Slots,        \* Options.MaxSlots: capacity of the channel sem
    AdminOps,     \* which of "create", "delete", "rename" the host API performs
    Timeouts,     \* may a deadline (scan or shutdown) pass?
    StoreFails    \* may a statement of recovery or of a scan goroutine fail, and
                  \* may a write be reported as failed though it took effect?

ASSUME ConstantsAssumption ==
    /\ MaxHostId \in Nat /\ MaxScanId \in Nat
    /\ Slots \in Nat \ {0}
    /\ IsFiniteSet(Workers)
    /\ NoName \notin Names
    /\ ApiCallers \cap CronCallers = {}
    /\ AdminOps \subseteq {"create", "delete", "rename"}
    /\ Timeouts \in BOOLEAN /\ StoreFails \in BOOLEAN

HostIds == 1 .. MaxHostId
ScanIds == 1 .. MaxScanId
Callers == ApiCallers \cup CronCallers
NoHost == 0
NoScan == 0

Active == {"pending", "running"}
Final == {"ready", "error"}

VARIABLES
    phase,    \* where run() of main.go is
    hosts,    \* hosts[h]: hostname of host row h, NoName when there is no row
    status,   \* status[s]: status column of scan row s, "none" when no row
    owner,    \* owner[s]: host_id column of scan row s
    subject,  \* subject[s]: hostname that was assessed for the stored result
    told,     \* told[s]: calls of OnComplete with row s (2 stands for more)
    lost,     \* active rows whose last writer gave up, or whose INSERT its
              \* caller was told had failed: nothing in this process will
              \* write them any more
    caller,   \* caller[c]: program counter and locals of fire and Trigger
    worker,   \* worker[w]: program counter and locals of execute
    sem,      \* number of tokens in the channel sem
    recover   \* rows recoverPendingScans has listed and not resumed yet

rows == <<status, owner, subject, told, lost>>
vars == <<phase, hosts, rows, caller, worker, sem, recover>>

IdleCaller ==
    [pc |-> "loop", todo |-> {}, host |-> NoHost, name |-> NoName, scan |-> NoScan]
IdleWorker ==
    [pc |-> "idle", scan |-> NoScan, name |-> NoName, expired |-> FALSE]

Init ==
    /\ phase = "stopped"
    /\ hosts \in [HostIds -> Names \cup {NoName}]
    /\ \A g, h \in HostIds : g # h /\ hosts[g] # NoName => hosts[g] # hosts[h]
    /\ status = [s \in ScanIds |-> "none"]
    /\ owner = [s \in ScanIds |-> NoHost]
    /\ subject = [s \in ScanIds |-> NoName]
    /\ told = [s \in ScanIds |-> 0]
    /\ lost = {}
    /\ caller = [c \in Callers |-> IdleCaller]
    /\ worker = [w \in Workers |-> IdleWorker]
    /\ sem = 0
    /\ recover = {}

Up == phase \in {"serving", "draining", "waiting"}
Busy(c) == caller[c].pc # "loop" \/ caller[c].todo # {}
Live(w) == worker[w].pc # "idle"

\* INTEGER PRIMARY KEY without AUTOINCREMENT: a new row gets the largest id in
\* the table plus one, so the id of a deleted row may come back.
IsNextId(i, used) ==
    /\ \A j \in used : j < i
    /\ i = 1 \/ i - 1 \in used

-----------------------------------------------------------------------------
(* Trigger and its callers.  A caller runs Trigger for each host of todo:  *)
(* an HTTP request has one, a cron job one per enabled linked host.        *)

Request(c, h) ==
    /\ phase = "serving" /\ c \in ApiCallers /\ ~Busy(c)
    /\ caller' = [caller EXCEPT ![c].todo = {h}]
    /\ UNCHANGED <<phase, hosts, rows, worker, sem, recover>>

\* fire: one query for the enabled hosts linked to the schedule.
Fire(c, linked) ==
    /\ phase \in {"serving", "draining"} /\ c \in CronCallers /\ ~Busy(c)
    /\ linked # {} /\ \A h \in linked : hosts[h] # NoName
    /\ caller' = [caller EXCEPT ![c].todo = linked]
    /\ UNCHANGED <<phase, hosts, rows, worker, sem, recover>>

\* What is left of caller c after Trigger returned, with a scan or an error.
Returned(c, h) == [IdleCaller EXCEPT !.todo = caller[c].todo \ {h}]

TriggerGet(c, h) ==
    /\ Up /\ caller[c].pc = "loop" /\ h \in caller[c].todo
    /\ caller' = [caller EXCEPT ![c] =
           IF hosts[h] = NoName
           THEN Returned(c, h)
           ELSE [@ EXCEPT !.pc = "check", !.host = h, !.name = hosts[h]]]
    /\ UNCHANGED <<phase, hosts, rows, worker, sem, recover>>

\* Broken variant: only running scans count, a queued one is overlooked.
HasRunning(h) == \E s \in ScanIds : owner[s] = h /\ status[s] = "running"

HasActive(h) == \E s \in ScanIds : owner[s] = h /\ status[s] \in Active

TriggerCheck(c) ==
    /\ Up /\ caller[c].pc = "check"
    /\ caller' = [caller EXCEPT ![c] =
           IF HasActive(caller[c].host)
           THEN Returned(c, caller[c].host)
           ELSE [@ EXCEPT !.pc = "create"]]
    /\ UNCHANGED <<phase, hosts, rows, worker, sem, recover>>

\* The INSERT of row s takes effect.  It fails on its foreign key when the host
\* is gone.
Inserted(c, s) ==
    /\ Up /\ caller[c].pc = "create"
    /\ hosts[caller[c].host] # NoName
    /\ IsNextId(s, {t \in ScanIds : status[t] # "none"})
    /\ status' = [status EXCEPT ![s] = "pending"]
    /\ owner' = [owner EXCEPT ![s] = caller[c].host]
    /\ UNCHANGED <<phase, hosts, subject, told, worker, sem, recover>>

TriggerCreate(c, s) ==
    /\ Inserted(c, s)
    /\ caller' = [caller EXCEPT ![c].pc = "dispatch", ![c].scan = s]
    /\ UNCHANGED lost

\* Create is an INSERT ... RETURNING under the request's context: it may return
\* an error with the row in the table (the client went away before the id was
\* read).  Trigger returns it, so nobody dispatches that row.
CreateUnreported(c, s) ==
    /\ StoreFails /\ Inserted(c, s)
    /\ caller' = [caller EXCEPT ![c] = Returned(c, caller[c].host)]
    /\ lost' = lost \cup {s}

\* Trigger returned an error and no row is there: no registered email, a failed
\* query, a request whose client went away, a host deleted before the INSERT.
TriggerError(c) ==
    /\ Up
    /\ \/ /\ caller[c].pc \in {"check", "create"}
          /\ caller' = [caller EXCEPT ![c] = Returned(c, caller[c].host)]
       \/ /\ caller[c].pc = "loop"
          /\ \E h \in caller[c].todo : caller' = [caller EXCEPT ![c] = Returned(c, h)]
    /\ UNCHANGED <<phase, hosts, rows, worker, sem, recover>>

\* A goroutine for row s of the host named n, before it has a slot.
Queued(s, n) == [IdleWorker EXCEPT !.pc = "queued", !.scan = s, !.name = n]

Dispatch(c, w) ==
    /\ Up /\ caller[c].pc = "dispatch" /\ ~Live(w)
    /\ worker' = [worker EXCEPT ![w] = Queued(caller[c].scan, caller[c].name)]
    /\ caller' = [caller EXCEPT ![c] = Returned(c, caller[c].host)]
    /\ UNCHANGED <<phase, hosts, rows, sem, recover>>

-----------------------------------------------------------------------------
(* One scan goroutine.                                                     *)

Goto(w, l) == worker' = [worker EXCEPT ![w].pc = l]

\* A slot, then the deadline of the scan starts to run.
Acquire(w) ==
    /\ worker[w].pc = "queued" /\ sem < Slots
    /\ sem' = sem + 1
    /\ Goto(w, "start")
    /\ UNCHANGED <<phase, hosts, rows, caller, recover>>

HoldsSlot(w) == worker[w].pc \notin {"idle", "queued"}

Expire(w) ==
    /\ Timeouts /\ HoldsSlot(w) /\ ~worker[w].expired
    /\ worker' = [worker EXCEPT ![w].expired = TRUE]
    /\ UNCHANGED <<phase, hosts, rows, caller, sem, recover>>

\* A statement under the scan's context.  It is refused once the deadline has
\* passed, and it may fail like any other.
Accepted(w) == ~worker[w].expired
Refused(w) == worker[w].expired \/ StoreFails

\* UPDATE scans SET status = v WHERE id = s: no row, no effect.
Updated(s, v) == IF status[s] = "none" THEN status ELSE [status EXCEPT ![s] = v]

\* factory(cfg) may fail; a failed UPDATE is only logged.
Start(w) ==
    /\ worker[w].pc = "start"
    /\ \/ Goto(w, "fail") /\ UNCHANGED status
       \/ /\ Accepted(w)
          /\ Goto(w, "assess") /\ status' = Updated(worker[w].scan, "running")
       \/ /\ Refused(w)
          /\ Goto(w, "assess") /\ UNCHANGED status
    /\ UNCHANGED <<phase, hosts, owner, subject, told, lost, caller, sem, recover>>

\* assess: SSL Labs answers READY in time, or the goroutine gets an error.
Assess(w) ==
    /\ worker[w].pc = "assess"
    /\ \/ Accepted(w) /\ Goto(w, "save")
       \/ Goto(w, "fail")
    /\ UNCHANGED <<phase, hosts, rows, caller, sem, recover>>

\* persist: SaveResult is one transaction.  Without the row it commits nothing,
\* and fails on the foreign key if the result has endpoints.  A commit that took
\* effect and is reported as failed goes on to fail all the same.
Save(w) ==
    LET s == worker[w].scan IN
    /\ worker[w].pc = "save"
    /\ \/ /\ Accepted(w)
          /\ status' = Updated(s, "ready")
          /\ subject' = IF status[s] = "none" THEN subject
                        ELSE [subject EXCEPT ![s] = worker[w].name]
          /\ lost' = lost \ {s}
          /\ \/ Goto(w, "notify")
             \/ StoreFails /\ Goto(w, "fail")
       \/ /\ Refused(w) \/ status[s] = "none"
          /\ Goto(w, "fail")
          /\ UNCHANGED <<status, subject, lost>>
    /\ UNCHANGED <<phase, hosts, owner, told, caller, sem, recover>>

\* Broken variant: the outcome is written with a word no other code looks for.
FailMisspelt(w) ==
    /\ worker[w].pc = "fail"
    /\ status' = Updated(worker[w].scan, "failed")
    /\ Goto(w, "notify")
    /\ UNCHANGED <<phase, hosts, owner, subject, told, lost, caller, sem, recover>>

\* Broken variant: a failed scan returns before the rules engine hears of it.
FailUnheard(w) ==
    /\ worker[w].pc = "fail"
    /\ status' = Updated(worker[w].scan, "error")
    /\ Goto(w, "release")
    /\ UNCHANGED <<phase, hosts, owner, subject, told, lost, caller, sem, recover>>

\* fail: the UPDATE runs under the scan's own context; its error is logged.
Fail(w) ==
    LET s == worker[w].scan IN
    /\ worker[w].pc = "fail"
    /\ \/ /\ Accepted(w)
          /\ status' = Updated(s, "error")
          /\ lost' = lost \ {s}
       \/ /\ Refused(w)
          /\ lost' = IF status[s] \in Active THEN lost \cup {s} ELSE lost
          /\ UNCHANGED status
    /\ Goto(w, "notify")
    /\ UNCHANGED <<phase, hosts, owner, subject, told, caller, sem, recover>>

\* notifyComplete reads the row and hands it to the rules engine, or returns.
Notify(w) ==
    LET s == worker[w].scan IN
    /\ worker[w].pc = "notify"
    /\ \/ /\ Accepted(w) /\ status[s] # "none"
          /\ told' = [told EXCEPT ![s] = IF @ < 2 THEN @ + 1 ELSE @]
       \/ /\ Refused(w) \/ status[s] = "none"
          /\ UNCHANGED told
    /\ Goto(w, "release")
    /\ UNCHANGED <<phase, hosts, status, owner, subject, lost, caller, sem, recover>>

\* Broken variant: a scan that ran out of time keeps its slot.
ReleaseLeaking(w) ==
    /\ worker[w].pc = "release"
    /\ sem' = IF worker[w].expired THEN sem ELSE sem - 1
    /\ worker' = [worker EXCEPT ![w] = IdleWorker]
    /\ UNCHANGED <<phase, hosts, rows, caller, recover>>

\* Broken variant: a slot is only given back while the process serves.
ReleaseWhileServing(w) ==
    /\ worker[w].pc = "release"
    /\ sem' = IF phase = "serving" THEN sem - 1 ELSE sem
    /\ worker' = [worker EXCEPT ![w] = IdleWorker]
    /\ UNCHANGED <<phase, hosts, rows, caller, recover>>

\* The deferred calls: give the slot back, wg.Done.
Release(w) ==
    /\ worker[w].pc = "release"
    /\ sem' = sem - 1
    /\ worker' = [worker EXCEPT ![w] = IdleWorker]
    /\ UNCHANGED <<phase, hosts, rows, caller, recover>>

-----------------------------------------------------------------------------
(* The host API, as far as scans can see it.                               *)

Unused(n) == \A h \in HostIds : hosts[h] # n

CreateHost(h, n) ==
    /\ "create" \in AdminOps /\ phase \in {"serving", "draining"}
    /\ IsNextId(h, {g \in HostIds : hosts[g] # NoName}) /\ Unused(n)
    /\ hosts' = [hosts EXCEPT ![h] = n]
    /\ UNCHANGED <<phase, rows, caller, worker, sem, recover>>

RenameHost(h, n) ==
    /\ "rename" \in AdminOps /\ phase \in {"serving", "draining"}
    /\ hosts[h] # NoName /\ Unused(n)
    /\ hosts' = [hosts EXCEPT ![h] = n]
    /\ UNCHANGED <<phase, rows, caller, worker, sem, recover>>

\* DELETE FROM hosts cascades to the scans of the host, whatever their status.
DeleteHost(h) ==
    LET gone == {s \in ScanIds : owner[s] = h} IN
    /\ "delete" \in AdminOps /\ phase \in {"serving", "draining"}
    /\ hosts[h] # NoName
    /\ hosts' = [hosts EXCEPT ![h] = NoName]
    /\ status' = [s \in ScanIds |-> IF s \in gone THEN "none" ELSE status[s]]
    /\ owner' = [s \in ScanIds |-> IF s \in gone THEN NoHost ELSE owner[s]]
    /\ subject' = [s \in ScanIds |-> IF s \in gone THEN NoName ELSE subject[s]]
    /\ told' = [s \in ScanIds |-> IF s \in gone THEN 0 ELSE told[s]]
    /\ lost' = lost \ gone
    /\ UNCHANGED <<phase, caller, worker, sem, recover>>

-----------------------------------------------------------------------------
(* The process.                                                            *)

ActiveRows == {s \in ScanIds : status[s] \in Active}

\* Broken variants: recovery asks for the rows that were running, or for every
\* row without a result.
BootRunningOnly ==
    /\ phase \in {"stopped", "down"}
    /\ phase' = "recovering"
    /\ recover' = {s \in ScanIds : status[s] = "running"} /\ lost' = {}
    /\ UNCHANGED <<hosts, status, owner, subject, told, caller, worker, sem>>

BootFailedToo ==
    /\ phase \in {"stopped", "down"}
    /\ phase' = "recovering"
    /\ recover' = {s \in ScanIds : status[s] \in Active \cup {"error"}} /\ lost' = {}
    /\ UNCHANGED <<hosts, status, owner, subject, told, caller, worker, sem>>

\* PendingScans lists the active rows; if the query fails nothing is resumed.
Boot ==
    /\ phase \in {"stopped", "down"}
    /\ phase' = "recovering"
    /\ \/ recover' = ActiveRows /\ lost' = {}
       \/ StoreFails /\ recover' = {} /\ lost' = ActiveRows
    /\ UNCHANGED <<hosts, status, owner, subject, told, caller, worker, sem>>

\* Broken variants: the row stays listed, or its id is taken for its host's.
ResumeTwice(s, w) ==
    /\ phase = "recovering" /\ s \in recover /\ ~Live(w)
    /\ worker' = [worker EXCEPT ![w] = Queued(s, hosts[owner[s]])]
    /\ UNCHANGED <<phase, hosts, rows, caller, sem, recover>>

ResumeWrongHost(s, w) ==
    /\ phase = "recovering" /\ s \in recover /\ ~Live(w)
    /\ recover' = recover \ {s}
    /\ worker' = [worker EXCEPT ![w] = Queued(s, hosts[s])]
    /\ UNCHANGED <<phase, hosts, rows, caller, sem>>

Resume(s, w) ==
    /\ phase = "recovering" /\ s \in recover /\ ~Live(w)
    /\ recover' = recover \ {s}
    /\ worker' = [worker EXCEPT ![w] = Queued(s, hosts[owner[s]])]
    /\ UNCHANGED <<phase, hosts, rows, caller, sem>>

\* Hosts().Get failed: the row is skipped.
ResumeSkipped(s) ==
    /\ phase = "recovering" /\ s \in recover /\ StoreFails
    /\ recover' = recover \ {s}
    /\ lost' = lost \cup {s}
    /\ UNCHANGED <<phase, hosts, status, owner, subject, told, caller, worker, sem>>

Serve ==
    /\ phase = "recovering" /\ recover = {}
    /\ phase' = "serving"
    /\ UNCHANGED <<hosts, rows, caller, worker, sem, recover>>

\* SIGINT or SIGTERM: httpSrv.Shutdown takes no new request.
Shutdown ==
    /\ phase = "serving"
    /\ phase' = "draining"
    /\ UNCHANGED <<hosts, rows, caller, worker, sem, recover>>

\* The last request returned; the cron registry stops, running jobs go on.
StopCron ==
    /\ phase = "draining" /\ \A c \in ApiCallers : ~Busy(c)
    /\ phase' = "waiting"
    /\ UNCHANGED <<hosts, rows, caller, worker, sem, recover>>

\* Everything in memory is gone, the rows stay.
Exit(to) ==
    /\ phase' = to
    /\ caller' = [c \in Callers |-> IdleCaller]
    /\ worker' = [w \in Workers |-> IdleWorker]
    /\ sem' = 0
    /\ recover' = {}
    /\ UNCHANGED <<hosts, rows>>

\* Broken variant: run returns without scanSvc.Wait.
WaitSkipped == phase = "waiting" /\ Exit("stopped")

\* scanSvc.Wait returns when no scan goroutine is left, and run with it.
WaitDone ==
    /\ phase = "waiting" /\ \A w \in Workers : ~Live(w)
    /\ Exit("stopped")

\* Requests outlast the 15 seconds of the shutdown context: run returns an
\* error at once.
DrainTimeout ==
    /\ Timeouts /\ phase = "draining" /\ \E c \in ApiCallers : Busy(c)
    /\ Exit("down")

Crash ==
    /\ phase \in {"recovering", "serving", "draining", "waiting"}
    /\ Exit("down")

-----------------------------------------------------------------------------
(* The specification.                                                      *)

CallerStep(c) ==
    \/ \E h \in HostIds : TriggerGet(c, h)
    \/ TriggerCheck(c)
    \/ \E s \in ScanIds : TriggerCreate(c, s) \/ CreateUnreported(c, s)
    \/ TriggerError(c)
    \/ \E w \in Workers : Dispatch(c, w)

WorkerStep(w) ==
    Start(w) \/ Assess(w) \/ Save(w) \/ Fail(w) \/ Notify(w) \/ Release(w)

AdminStep ==
    \E h \in HostIds :
        \/ \E n \in Names : CreateHost(h, n) \/ RenameHost(h, n)
        \/ DeleteHost(h)

RecoverStep ==
    \/ \E s \in ScanIds : ResumeSkipped(s) \/ \E w \in Workers : Resume(s, w)
    \/ Serve

Next ==
    \/ \E c \in ApiCallers, h \in HostIds : Request(c, h)
    \/ \E c \in CronCallers, linked \in SUBSET HostIds : Fire(c, linked)
    \/ \E c \in Callers : CallerStep(c)
    \/ \E w \in Workers : Acquire(w) \/ Expire(w) \/ WorkerStep(w)
    \/ AdminStep
    \/ Boot \/ RecoverStep
    \/ Shutdown \/ StopCron \/ WaitDone \/ DrainTimeout \/ Crash

Spec == Init /\ [][Next]_vars

(* A goroutine that can run does; waiting goroutines take a free slot in   *)
(* the order they arrived, so none is passed over for ever.  Nothing makes *)
(* a request come, a signal be sent, a deadline pass or a process be       *)
(* started again.                                                          *)
Fairness ==
    /\ \A c \in Callers : WF_vars(CallerStep(c))
    /\ \A w \in Workers : WF_vars(WorkerStep(w)) /\ SF_vars(Acquire(w))
    /\ WF_vars(RecoverStep)
    /\ WF_vars(StopCron) /\ WF_vars(WaitDone)

FairSpec == Spec /\ Fairness

-----------------------------------------------------------------------------
(* Properties.                                                             *)

CallerPCs == {"loop", "check", "create", "dispatch"}
Unwritten == {"queued", "start", "assess", "save", "fail"}
WorkerPCs == Unwritten \cup {"idle", "notify", "release"}

\* Every variable has the type its declaration says.
TypeOK ==
    /\ phase \in {"stopped", "down", "recovering", "serving", "draining", "waiting"}
    /\ hosts \in [HostIds -> Names \cup {NoName}]
    /\ status \in [ScanIds -> {"none"} \cup Active \cup Final]
    /\ owner \in [ScanIds -> HostIds \cup {NoHost}]
    /\ subject \in [ScanIds -> Names \cup {NoName}]
    /\ told \in [ScanIds -> 0 .. 2]
    /\ lost \subseteq ScanIds
    /\ caller \in [Callers -> [pc : CallerPCs, todo : SUBSET HostIds,
                              host : HostIds \cup {NoHost},
                              name : Names \cup {NoName},
                              scan : ScanIds \cup {NoScan}]]
    /\ worker \in [Workers -> [pc : WorkerPCs, scan : ScanIds \cup {NoScan},
                              name : Names \cup {NoName}, expired : BOOLEAN]]
    /\ sem \in Int
    /\ recover \subseteq ScanIds

\* Goroutine w has yet to write the outcome of row s.
Attends(w, s) == worker[w].scan = s /\ worker[w].pc \in Unwritten

\* Row s was inserted by caller c and its goroutine is not started yet.
Dispatches(c, s) == caller[c].pc = "dispatch" /\ caller[c].scan = s

\* While the process is up, whoever finds a row pending or running (HasActive,
\* the UI) may wait for it: somebody will still write its outcome, unless its
\* last writer was refused or Trigger took its INSERT for failed (lost says
\* which rows those are).  This has to survive restarts, hosts deleted under a
\* running scan and the reuse of their row ids.
NoStrandedScan ==
    phase \notin {"stopped", "down"} =>
        \A s \in ActiveRows \ lost :
            \/ s \in recover
            \/ \E c \in Callers : Dispatches(c, s)
            \/ \E w \in Workers : Attends(w, s)

\* sem counts exactly the goroutines inside execute: whatever way a scan ends
\* its token goes back once, and never more than Slots scans run.
SlotsConserved ==
    /\ sem = Cardinality({w \in Workers : HoldsSlot(w)})
    /\ sem <= Slots

\* A row is never attended twice: recovery does not start a second goroutine
\* for a row whose first one is alive, and no two callers got the same id.
OneRunPerScan ==
    /\ \A w, v \in Workers :
          Live(w) /\ Live(v) /\ worker[w].scan = worker[v].scan => w = v
    /\ \A c \in Callers, w \in Workers :
          Live(w) => ~Dispatches(c, worker[w].scan)

\* Trigger's check and its insert are two statements, so two callers may both
\* pass the check.  It goes no further: a host never has more active scans than
\* there are callers, and with callers that take turns it has one.
ScansPerHostBounded ==
    \A h \in HostIds :
        Cardinality({s \in ActiveRows : owner[s] = h})
          + Cardinality({c \in Callers : caller[c].pc = "create" /\ caller[c].host = h})
        <= Cardinality(Callers)

\* The result stored for a host was obtained for that host's name, though the
\* goroutine works on a copy of the host read before the row existed.
ResultsFromOwnHost ==
    \A s \in ScanIds : status[s] = "ready" => subject[s] = hosts[owner[s]]

\* The pipeline implements the abstract scans table: no id is given out twice,
\* a finished scan is never written again, and the rules engine hears of a scan
\* at most once and not before it finished.
Ledger == INSTANCE ScanLedger WITH life <- status, heard <- told
ImplementsLedger == Ledger!Spec

\* When the process stopped in an orderly way no scan is left in flight, except
\* the rows this process had given up.
GracefulStop == phase = "stopped" => ActiveRows \subseteq lost

\* A recorded scan is in the end finished and evaluated by the rules engine,
\* unless the process goes away first; and then the next process does it.
EveryScanIsHeard ==
    \A s \in ScanIds :
        status[s] \in Active ~> told[s] = 1 \/ phase \in {"stopped", "down"}

\* A shutdown signal ends the process, though run waits for requests, cron and
\* scans one after the other.
ShutdownCompletes == phase = "draining" ~> phase \in {"stopped", "down"}

\* "A host already being scanned is never scanned twice at once."
NeverScannedTwiceAtOnce ==
    \A s, t \in ActiveRows : owner[s] = owner[t] => s = t

\* A scan that was recorded does not stay pending or running for as long as the
\* process serves.
EveryScanFinishes ==
    \A s \in ScanIds :
        status[s] \in Active ~> status[s] \notin Active \/ phase # "serving"
=============================================================================
