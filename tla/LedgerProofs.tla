---------------------------- MODULE LedgerProofs ----------------------------
(***************************************************************************)
(* Theorems about Scanner that hold under a condition on its environment.  *)
(* When hosts are not deleted the ids of scans are not given out twice: a  *)
(* row has one goroutine, a host a bounded number of active scans, and the *)
(* pipeline implements ScanLedger.  When hosts are not renamed either a    *)
(* result belongs to its host.  Without cron jobs an orderly stop leaves   *)
(* nothing in flight.                                                      *)
(***************************************************************************)
EXTENDS ScannerProofs

USE DEF HostIds, ScanIds, Callers, NoHost, NoScan, Active, Final

HostsStay == "delete" \notin AdminOps
NamesStay == "rename" \notin AdminOps

-----------------------------------------------------------------------------
(* The invariants.                                                         *)

\* Row ids are used in order.
Numbered == \A s, t \in ScanIds : status[s] # "none" /\ t < s => status[t] # "none"

\* The row of a scan that has a goroutine is there, and active until that
\* goroutine has written its outcome; when it was told that the commit of the
\* result failed, the outcome may be there before it writes "error" over it.
InFlight ==
    /\ \A w \in Workers : Live(w) => status[worker[w].scan] # "none"
    /\ \A w \in Workers : worker[w].pc \in Unwritten =>
          \/ status[worker[w].scan] \in Active
          \/ StoreFails /\ worker[w].pc = "fail"
    /\ \A c \in Callers : caller[c].pc = "dispatch" => status[caller[c].scan] \in Active

\* OneRunPerScan is inductive with this: no two callers are about to dispatch
\* the same scan.
Separate ==
    \A c, d \in Callers :
        caller[c].pc = "dispatch" /\ caller[d].pc = "dispatch" /\ caller[c].scan = caller[d].scan => c = d

\* The rules engine has not heard of a scan before its goroutine notifies it,
\* and a goroutine that still can has a final row to show.
Unheard ==
    /\ \A s \in ScanIds : status[s] \notin Final => told[s] = 0
    /\ \A w \in Workers : worker[w].pc = "notify" => told[worker[w].scan] = 0
    /\ \A w \in Workers : worker[w].pc = "notify" /\ Accepted(w) => status[worker[w].scan] \in Final

\* Copies of a host's name are up to date.
CopiesRight ==
    /\ \A c \in Callers : caller[c].pc # "loop" =>
          hosts[caller[c].host] # NoName /\ caller[c].name = hosts[caller[c].host]
    /\ \A c \in Callers : caller[c].pc = "dispatch" => owner[caller[c].scan] = caller[c].host
    /\ \A w \in Workers : Live(w) => worker[w].name = hosts[owner[worker[w].scan]]

LInv == IInv /\ Numbered /\ InFlight /\ OneRunPerScan /\ Separate

-----------------------------------------------------------------------------
(* What steps do, in the detail the ledger asks for.                       *)

\* A caller that writes no table goes on: back to its loop, with a host it has
\* just read, or past the check.
CallerDoes(c) ==
    /\ UNCHANGED <<phase, hosts, rows, worker, sem, recover>>
    /\ caller[c].pc # "dispatch"
    /\ \E r \in CallerRecord :
          /\ caller' = [caller EXCEPT ![c] = r]
          /\ \/ r.pc = "loop"
             \/ r.pc = "check" /\ r.host \in HostIds /\ hosts[r.host] # NoName /\ r.name = hosts[r.host]
             \/ /\ r.pc = "create" /\ caller[c].pc = "check"
                /\ r.host = caller[c].host /\ r.name = caller[c].name /\ ~HasActive(r.host)

LEMMA CallerDetails ==
    ASSUME TypeOK, LocalsSet, NEW c \in Callers,
           \/ \E h \in HostIds : Request(c, h) \/ TriggerGet(c, h)
           \/ \E linked \in SUBSET HostIds : Fire(c, linked)
           \/ TriggerCheck(c) \/ TriggerError(c)
    PROVE  CallerDoes(c)
<1> USE DEF CallerDoes, rows
<1>0. caller[c] \in CallerRecord /\ caller \in [Callers -> CallerRecord]
  BY DEF TypeOK, CallerRecord
<1>1. ASSUME NEW h \in HostIds, Request(c, h) PROVE CallerDoes(c)
  <2> DEFINE r == [caller[c] EXCEPT !.todo = {h}]
  <2>1. r \in CallerRecord /\ r.pc = "loop"
    BY <1>0, <1>1 DEF Request, Busy, CallerRecord
  <2>2. caller' = [caller EXCEPT ![c] = r] /\ caller[c].pc = "loop"
    BY <1>0, <1>1 DEF Request, Busy, CallerRecord
  <2> QED BY <1>1, <2>1, <2>2 DEF Request
<1>2. ASSUME NEW linked \in SUBSET HostIds, Fire(c, linked) PROVE CallerDoes(c)
  <2> DEFINE r == [caller[c] EXCEPT !.todo = linked]
  <2>1. r \in CallerRecord /\ r.pc = "loop"
    BY <1>0, <1>2 DEF Fire, Busy, CallerRecord
  <2>2. caller' = [caller EXCEPT ![c] = r] /\ caller[c].pc = "loop"
    BY <1>0, <1>2 DEF Fire, Busy, CallerRecord
  <2> QED BY <1>2, <2>1, <2>2 DEF Fire
<1>3. ASSUME NEW h \in HostIds, TriggerGet(c, h) PROVE CallerDoes(c)
  <2> DEFINE r == [caller[c] EXCEPT !.pc = "check", !.host = h, !.name = hosts[h]]
  <2>1. r \in CallerRecord /\ r.pc = "check" /\ r.host = h /\ r.name = hosts[h]
    BY <1>0 DEF CallerRecord, CallerPCs, TypeOK
  <2>2. \/ caller' = [caller EXCEPT ![c] = Returned(c, h)]
        \/ hosts[h] # NoName /\ caller' = [caller EXCEPT ![c] = r]
    BY <1>0, <1>3 DEF TriggerGet, CallerRecord
  <2>3. UNCHANGED <<phase, hosts, rows, worker, sem, recover>> /\ caller[c].pc # "dispatch"
    BY <1>3 DEF TriggerGet
  <2> HIDE DEF r
  <2> QED BY <2>1, <2>2, <2>3, ReturnedFacts
<1>4. CASE TriggerCheck(c)
  <2> DEFINE r == [caller[c] EXCEPT !.pc = "create"]
  <2>1. r \in CallerRecord /\ r.pc = "create" /\ r.host = caller[c].host /\ r.name = caller[c].name
    BY <1>0 DEF CallerRecord, CallerPCs
  <2>2. \/ caller' = [caller EXCEPT ![c] = Returned(c, caller[c].host)]
        \/ ~HasActive(caller[c].host) /\ caller' = [caller EXCEPT ![c] = r]
    BY <1>0, <1>4 DEF TriggerCheck, CallerRecord
  <2>3. UNCHANGED <<phase, hosts, rows, worker, sem, recover>> /\ caller[c].pc = "check"
    BY <1>4 DEF TriggerCheck
  <2> HIDE DEF r
  <2> QED BY <2>1, <2>2, <2>3, ReturnedFacts
<1>5. CASE TriggerError(c)
  <2>1. PICK h : caller' = [caller EXCEPT ![c] = Returned(c, h)]
    BY <1>5 DEF TriggerError
  <2>2. UNCHANGED <<phase, hosts, rows, worker, sem, recover>> /\ caller[c].pc # "dispatch"
    BY <1>5 DEF TriggerError
  <2> QED BY <2>1, <2>2, ReturnedFacts
<1> QED BY <1>1, <1>2, <1>3, <1>4, <1>5

\* What goroutine w may do to its row s when it goes on at l.
Writes(w, s, l) ==
    \/ /\ worker[w].pc = "start" /\ l \in {"assess", "fail"} /\ UNCHANGED <<subject, told>>
       /\ \/ UNCHANGED status
          \/ status' = [status EXCEPT ![s] = "running"]
    \/ /\ worker[w].pc \in {"assess", "save"} /\ l \in {"save", "fail"}
       /\ UNCHANGED <<status, subject, told>>
    \/ /\ worker[w].pc = "save" /\ UNCHANGED told
       /\ l = "notify" \/ (l = "fail" /\ StoreFails)
       /\ status' = [status EXCEPT ![s] = "ready"]
       /\ subject' = [subject EXCEPT ![s] = worker[w].name]
    \/ /\ worker[w].pc = "fail" /\ l = "notify" /\ UNCHANGED <<subject, told>>
       /\ \/ status' = [status EXCEPT ![s] = "error"]
          \/ Refused(w) /\ UNCHANGED status
    \/ /\ worker[w].pc = "notify" /\ l = "release" /\ UNCHANGED <<status, subject>>
       /\ \/ UNCHANGED told
          \/ Accepted(w) /\ told' = [told EXCEPT ![s] = IF @ < 2 THEN @ + 1 ELSE @]

WorkerDoes(w) ==
    /\ UNCHANGED <<phase, hosts, owner, caller, sem, recover>>
    /\ worker[w].pc \in {"start", "assess", "save", "fail", "notify"}
    /\ worker[w].scan \in ScanIds
    /\ \E l \in {"assess", "save", "fail", "notify", "release"} :
          Goto(w, l) /\ Writes(w, worker[w].scan, l)

LEMMA WorkerDetails ==
    ASSUME TypeOK, LocalsSet, InFlight, NEW w \in Workers, WorkerStep(w), ~Release(w)
    PROVE  WorkerDoes(w)
<1> DEFINE s == worker[w].scan
<1>1. UNCHANGED <<phase, hosts, owner, caller, recover, sem>>
      /\ worker[w].pc \in {"start", "assess", "save", "fail", "notify"}
  BY WorkerFacts DEF RowStep
<1>2. s \in ScanIds /\ status[s] # "none"
  BY <1>1 DEF LocalsSet, InFlight, Live
<1>3. \A v : Updated(s, v) = [status EXCEPT ![s] = v]
  BY <1>2 DEF Updated
<1>4. \E l \in {"assess", "save", "fail", "notify", "release"} : Goto(w, l) /\ Writes(w, s, l)
  <2>1. CASE Start(w)
    BY <1>3, <2>1 DEF Start, Writes
  <2>2. CASE Assess(w)
    BY <2>2 DEF Assess, Writes, rows
  <2>3. CASE Save(w)
    BY <1>2, <1>3, <2>3 DEF Save, Writes
  <2>4. CASE Fail(w)
    BY <1>3, <2>4 DEF Fail, Writes
  <2>5. CASE Notify(w)
    BY <1>2, <2>5 DEF Notify, Writes
  <2> QED BY <2>1, <2>2, <2>3, <2>4, <2>5 DEF WorkerStep
<1> QED BY <1>1, <1>2, <1>4 DEF WorkerDoes

\* The steps that touch neither rows nor goroutines nor callers.
Quiet ==
    /\ UNCHANGED <<status, owner, subject, told, caller, worker>>
    /\ \/ UNCHANGED hosts
       \/ \E h \in HostIds, n \in Names : CreateHost(h, n) \/ RenameHost(h, n)

\* Exit clears memory.
Forgets ==
    /\ UNCHANGED <<hosts, status, owner, subject, told>>
    /\ caller' = [c \in Callers |-> IdleCaller] /\ worker' = [w \in Workers |-> IdleWorker]

\* Next, with what its steps do in place of how they are written.
LEMMA StepDetails ==
    ASSUME HostsStay, TypeOK, LocalsSet, InFlight, [Next]_vars
    PROVE  \/ \E c \in Callers : CallerDoes(c)
           \/ \E c \in Callers, s \in ScanIds : Creates(c, s)
           \/ \E c \in Callers, w \in Workers : Dispatch(c, w)
           \/ \E w \in Workers : Acquire(w) \/ Expire(w) \/ Release(w) \/ WorkerDoes(w)
           \/ \E s \in ScanIds, w \in Workers : Resume(s, w)
           \/ Quiet \/ Forgets
<1>1. ASSUME NEW w \in Workers, WorkerStep(w) PROVE Release(w) \/ WorkerDoes(w)
  BY <1>1, WorkerDetails
<1>2. ASSUME NEW c \in ApiCallers, NEW h \in HostIds, Request(c, h) PROVE CallerDoes(c)
  BY <1>2, CallerDetails
<1>3. ASSUME NEW c \in CronCallers, NEW linked \in SUBSET HostIds, Fire(c, linked)
      PROVE CallerDoes(c)
  BY <1>3, CallerDetails
<1>4. ASSUME NEW c \in Callers, CallerStep(c)
      PROVE  \/ CallerDoes(c)
             \/ \E s \in ScanIds : Creates(c, s)
             \/ \E w \in Workers : Dispatch(c, w)
  BY <1>4, CallerDetails DEF CallerStep, Creates
<1>5. AdminStep => Quiet
  <2>1. ASSUME NEW h \in HostIds, NEW n \in Names, CreateHost(h, n) \/ RenameHost(h, n) PROVE Quiet
    <3>1. UNCHANGED <<status, owner, subject, told, caller, worker>>
      BY <2>1 DEF CreateHost, RenameHost, rows
    <3> QED BY <2>1, <3>1 DEF Quiet
  <2>2. \A h \in HostIds : ~DeleteHost(h)
    BY DEF DeleteHost, HostsStay
  <2> QED BY <2>1, <2>2 DEF AdminStep
<1>6. Boot \/ Serve \/ Shutdown \/ StopCron \/ (\E s \in ScanIds : ResumeSkipped(s)) => Quiet
  BY DEF Boot, Serve, Shutdown, StopCron, ResumeSkipped, Quiet, rows
<1>7. WaitDone \/ DrainTimeout \/ Crash => Forgets
  BY DEF WaitDone, DrainTimeout, Crash, Exit, Forgets, rows
<1>8. UNCHANGED vars => Quiet
  BY DEF vars, rows, Quiet
<1> QED
  BY <1>1, <1>2, <1>3, <1>4, <1>5, <1>6, <1>7, <1>8 DEF Next, RecoverStep

-----------------------------------------------------------------------------
(* The goroutines and callers, step by step.                               *)

\* Goroutine w alone changes, to record x.
LEMMA WorkerBecomes ==
    ASSUME TypeOK, NEW w \in Workers, NEW x \in WorkerRecord, worker' = [worker EXCEPT ![w] = x]
    PROVE  /\ worker' \in [Workers -> WorkerRecord] /\ worker'[w] = x
           /\ \A v \in Workers \ {w} : worker'[v] = worker[v]
BY DEF TypeOK, WorkerRecord

\* The steps of a goroutine, with what they leave of its locals.
Keeps(w, l) ==
    /\ worker'[w].pc = l /\ worker'[w].scan = worker[w].scan /\ worker'[w].name = worker[w].name
    /\ \A v \in Workers \ {w} : worker'[v] = worker[v]

LEMMA GotoKeeps ==
    ASSUME TypeOK, NEW w \in Workers, NEW l \in WorkerPCs, Goto(w, l)
    PROVE  Keeps(w, l) /\ worker'[w].expired = worker[w].expired
BY DEF TypeOK, Goto, Keeps

LEMMA WaitKeeps ==
    ASSUME TypeOK, NEW w \in Workers, Acquire(w) \/ Expire(w)
    PROVE  /\ UNCHANGED <<hosts, status, owner, subject, told, caller>>
           /\ \/ worker[w].pc = "queued" /\ Keeps(w, "start")
              \/ Live(w) /\ Keeps(w, worker[w].pc) /\ worker'[w].expired
<1>1. CASE Acquire(w)
  BY <1>1, GotoKeeps DEF Acquire, rows, WorkerPCs, Unwritten
<1>2. CASE Expire(w)
  <2> DEFINE x == [worker[w] EXCEPT !.expired = TRUE]
  <2>1. worker[w] \in WorkerRecord
    BY DEF TypeOK, WorkerRecord
  <2>2. x \in WorkerRecord /\ x.pc = worker[w].pc /\ x.scan = worker[w].scan /\ x.name = worker[w].name
        /\ x.expired
    BY <2>1 DEF WorkerRecord
  <2>3. worker' = [worker EXCEPT ![w] = x]
    BY <1>2 DEF Expire
  <2>4. worker'[w] = x /\ \A v \in Workers \ {w} : worker'[v] = worker[v]
    <3> HIDE DEF x
    <3> QED BY <2>2, <2>3, WorkerBecomes
  <2> QED BY <1>2, <2>2, <2>4 DEF Expire, rows, Keeps, Live, HoldsSlot
<1> QED BY <1>1, <1>2

LEMMA WorkerKeeps ==
    ASSUME TypeOK, NEW w \in Workers, WorkerDoes(w)
    PROVE  /\ UNCHANGED <<hosts, owner, caller>> /\ Live(w) /\ worker[w].scan \in ScanIds
           /\ \E l \in {"assess", "save", "fail", "notify", "release"} :
                 /\ Keeps(w, l) /\ worker'[w].expired = worker[w].expired
                 /\ Writes(w, worker[w].scan, l)
BY GotoKeeps DEF WorkerDoes, Live, WorkerPCs, Unwritten

LEMMA ReleaseKeeps ==
    ASSUME TypeOK, NEW w \in Workers, Release(w)
    PROVE  /\ UNCHANGED <<hosts, status, owner, subject, told, caller>>
           /\ worker'[w].pc = "idle" /\ \A v \in Workers \ {w} : worker'[v] = worker[v]
BY IdleFacts, WorkerBecomes DEF Release, rows

LEMMA DispatchKeeps ==
    ASSUME TypeOK, NEW c \in Callers, NEW w \in Workers, Dispatch(c, w)
    PROVE  /\ UNCHANGED <<hosts, status, owner, subject, told>>
           /\ caller[c].pc = "dispatch" /\ ~Live(w)
           /\ worker'[w].pc = "queued" /\ worker'[w].scan = caller[c].scan
           /\ worker'[w].name = caller[c].name
           /\ \A v \in Workers \ {w} : worker'[v] = worker[v]
           /\ caller'[c].pc = "loop" /\ \A d \in Callers \ {c} : caller'[d] = caller[d]
<1> DEFINE x == Queued(caller[c].scan, caller[c].name)
<1>1. caller[c].scan \in ScanIds \cup {NoScan} /\ caller[c].name \in Names \cup {NoName}
  BY DEF TypeOK
<1>2. x \in WorkerRecord /\ x.pc = "queued" /\ x.scan = caller[c].scan /\ x.name = caller[c].name
  BY <1>1, QueuedFacts DEF Queued, IdleWorker
<1>3. worker' = [worker EXCEPT ![w] = x]
      /\ caller' = [caller EXCEPT ![c] = Returned(c, caller[c].host)]
      /\ UNCHANGED <<hosts, status, owner, subject, told>> /\ caller[c].pc = "dispatch" /\ ~Live(w)
  BY DEF Dispatch, rows
<1> HIDE DEF x
<1>4. worker'[w] = x /\ \A v \in Workers \ {w} : worker'[v] = worker[v]
  BY <1>2, <1>3, WorkerBecomes
<1>5. caller'[c].pc = "loop" /\ \A d \in Callers \ {c} : caller'[d] = caller[d]
  BY <1>3, ReturnedFacts, CallerBecomes
<1> QED BY <1>2, <1>3, <1>4, <1>5

LEMMA ResumeKeeps ==
    ASSUME IInv, NEW s \in ScanIds, NEW w \in Workers, Resume(s, w)
    PROVE  /\ UNCHANGED <<hosts, status, owner, subject, told, caller>>
           /\ s \in recover /\ status[s] \in Active /\ ~Live(w)
           /\ worker'[w].pc = "queued" /\ worker'[w].scan = s
           /\ worker'[w].name = hosts[owner[s]]
           /\ \A v \in Workers \ {w} : worker'[v] = worker[v]
           /\ \A c \in Callers : caller[c].pc = "loop"
<1> DEFINE x == Queued(s, hosts[owner[s]])
<1>1. s \in recover /\ status[s] \in Active /\ TypeOK /\ \A c \in Callers : caller[c].pc = "loop"
  BY DEF Resume, IInv, Recovery, ActiveRows, Busy
<1>2. hosts[owner[s]] \in Names \cup {NoName}
  BY <1>1 DEF IInv, RowsOwned, TypeOK
<1>3. x \in WorkerRecord /\ x.pc = "queued" /\ x.scan = s /\ x.name = hosts[owner[s]]
  BY <1>2, QueuedFacts DEF Queued, IdleWorker
<1>4. worker' = [worker EXCEPT ![w] = x] /\ ~Live(w)
      /\ UNCHANGED <<hosts, status, owner, subject, told, caller>>
  BY DEF Resume, rows
<1> HIDE DEF x
<1>5. worker'[w] = x /\ \A v \in Workers \ {w} : worker'[v] = worker[v]
  BY <1>1, <1>3, <1>4, WorkerBecomes
<1> QED BY <1>1, <1>3, <1>4, <1>5

LEMMA CallerKeeps ==
    ASSUME TypeOK, NEW c \in Callers, CallerDoes(c)
    PROVE  /\ UNCHANGED <<hosts, status, owner, subject, told, worker>>
           /\ caller[c].pc # "dispatch"
           /\ \A d \in Callers \ {c} : caller'[d] = caller[d]
           /\ \/ caller'[c].pc = "loop"
              \/ /\ caller'[c].pc = "check" /\ caller'[c].host \in HostIds
                 /\ hosts[caller'[c].host] # NoName /\ caller'[c].name = hosts[caller'[c].host]
              \/ /\ caller'[c].pc = "create" /\ caller[c].pc = "check"
                 /\ caller'[c].host = caller[c].host /\ caller'[c].name = caller[c].name
                 /\ ~HasActive(caller'[c].host)
<1>1. PICK x \in CallerRecord :
        /\ caller' = [caller EXCEPT ![c] = x]
        /\ \/ x.pc = "loop"
           \/ x.pc = "check" /\ x.host \in HostIds /\ hosts[x.host] # NoName /\ x.name = hosts[x.host]
           \/ /\ x.pc = "create" /\ caller[c].pc = "check"
              /\ x.host = caller[c].host /\ x.name = caller[c].name /\ ~HasActive(x.host)
  BY DEF CallerDoes
<1>2. caller'[c] = x /\ \A d \in Callers \ {c} : caller'[d] = caller[d]
  BY <1>1, CallerBecomes
<1> QED BY <1>1, <1>2 DEF CallerDoes, rows

LEMMA ForgetsAll ==
    ASSUME Forgets
    PROVE  /\ \A c \in Callers : caller'[c].pc = "loop"
           /\ \A w \in Workers : worker'[w].pc = "idle"
BY IdleFacts DEF Forgets

-----------------------------------------------------------------------------
(* Every step keeps the parts that LInv adds to IInv.                      *)

\* A goroutine writes no row but its own, and that one exists.
LEMMA WritesFacts ==
    ASSUME TypeOK, InFlight, NEW w \in Workers, NEW l, WorkerDoes(w), Writes(w, worker[w].scan, l)
    PROVE  /\ worker[w].scan \in ScanIds /\ status[worker[w].scan] # "none"
           /\ status'[worker[w].scan] # "none"
           /\ \A t \in ScanIds \ {worker[w].scan} : status'[t] = status[t] /\ told'[t] = told[t]
           /\ l \in {"assess", "save", "fail"} =>
                 /\ worker[w].pc \in Unwritten
                 /\ status'[worker[w].scan] \in Active \/ (StoreFails /\ l = "fail")
<1> DEFINE s == worker[w].scan
<1>1. s \in ScanIds /\ status[s] # "none"
  BY DEF WorkerDoes, InFlight, Live
<1>2. worker[w].pc \in Unwritten \ {"fail"} => status[s] \in Active
  BY DEF InFlight
<1> QED BY <1>1, <1>2 DEF Writes, TypeOK, Unwritten

\* Row ids are used in order: Trigger takes the next one, nothing is deleted.
LEMMA NumberedStep == LInv /\ HostsStay /\ [Next]_vars => Numbered'
<1> SUFFICES ASSUME LInv, HostsStay, [Next]_vars PROVE Numbered'
  OBVIOUS
<1> USE DEF LInv, IInv
<1>1. ASSUME UNCHANGED status PROVE Numbered'
  BY <1>1 DEF Numbered
<1>2. ASSUME NEW c \in Callers, NEW s \in ScanIds, Creates(c, s) PROVE Numbered'
  <2>1. \A t \in ScanIds : t < s => status[t] # "none"
    <3>1. s = 1 \/ status[s - 1] # "none"
      BY <1>2, CreateKeeps
    <3>2. s # 1 => s - 1 \in ScanIds
      BY ConstantsAssumption
    <3>3. ASSUME NEW t \in ScanIds, t < s PROVE status[t] # "none"
      <4>1. s # 1 /\ (t = s - 1 \/ t < s - 1)
        BY <3>3, ConstantsAssumption
      <4> QED BY <3>1, <3>2, <4>1 DEF Numbered
    <3> QED BY <3>3
  <2>2. status' = [status EXCEPT ![s] = "pending"]
    BY <1>2, CreateKeeps
  <2> QED BY <2>1, <2>2 DEF Numbered, TypeOK
<1>3. ASSUME NEW w \in Workers, WorkerDoes(w) PROVE Numbered'
  <2>1. PICK l : Writes(w, worker[w].scan, l)
    BY <1>3 DEF WorkerDoes
  <2> QED BY <1>3, <2>1, WritesFacts DEF Numbered
<1> QED
  BY StepDetails, <1>1, <1>2, <1>3, CallerKeeps, DispatchKeeps, WaitKeeps, ReleaseKeeps, ResumeKeeps
  DEF Quiet, Forgets

\* No two goroutines or callers have the same row in hand.
LEMMA OneRunStep == LInv /\ HostsStay /\ [Next]_vars => OneRunPerScan' /\ Separate'
<1> SUFFICES ASSUME LInv, HostsStay, [Next]_vars PROVE OneRunPerScan' /\ Separate'
  OBVIOUS
<1> USE DEF LInv, IInv, OneRunPerScan, Separate, Dispatches, Live
<1>1. ASSUME NEW c \in Callers, CallerDoes(c) PROVE OneRunPerScan' /\ Separate'
  BY <1>1, CallerKeeps
<1>2. ASSUME NEW c \in Callers, NEW s \in ScanIds, Creates(c, s)
      PROVE OneRunPerScan' /\ Separate'
  <2>1. /\ \A w \in Workers : Live(w) => worker[w].scan # s
        /\ \A d \in Callers : caller[d].pc = "dispatch" => caller[d].scan # s
    BY <1>2, CreateKeeps DEF InFlight
  <2> QED BY <1>2, <2>1, CreateKeeps
<1>3. ASSUME NEW c \in Callers, NEW w \in Workers, Dispatch(c, w)
      PROVE OneRunPerScan' /\ Separate'
  BY <1>3, DispatchKeeps
<1>4. ASSUME NEW w \in Workers, Acquire(w) \/ Expire(w) PROVE OneRunPerScan' /\ Separate'
  BY <1>4, WaitKeeps DEF Keeps
<1>5. ASSUME NEW w \in Workers, Release(w) PROVE OneRunPerScan' /\ Separate'
  BY <1>5, ReleaseKeeps
<1>6. ASSUME NEW w \in Workers, WorkerDoes(w) PROVE OneRunPerScan' /\ Separate'
  BY <1>6, WorkerKeeps DEF Keeps
<1>7. ASSUME NEW s \in ScanIds, NEW w \in Workers, Resume(s, w)
      PROVE OneRunPerScan' /\ Separate'
  <2>1. \A v \in Workers : Live(v) => worker[v].scan # s
    BY <1>7, ResumeKeeps DEF Recovery
  <2>2. /\ UNCHANGED caller /\ \A c \in Callers : caller[c].pc = "loop"
        /\ worker'[w].scan = s /\ \A v \in Workers \ {w} : worker'[v] = worker[v]
    BY <1>7, ResumeKeeps
  <2> QED BY <2>1, <2>2
<1>8. CASE Quiet
  BY <1>8 DEF Quiet
<1>9. CASE Forgets
  BY <1>9, ForgetsAll
<1> QED BY StepDetails, <1>1, <1>2, <1>3, <1>4, <1>5, <1>6, <1>7, <1>8, <1>9

\* A row in hand is active until its outcome is written: nobody else writes it.
LEMMA InFlightStep == LInv /\ HostsStay /\ [Next]_vars => InFlight'
<1> SUFFICES ASSUME LInv, HostsStay, [Next]_vars PROVE InFlight'
  OBVIOUS
<1> USE DEF LInv, IInv, InFlight, Live
<1>1. ASSUME NEW c \in Callers, CallerDoes(c) PROVE InFlight'
  BY <1>1, CallerKeeps
<1>2. ASSUME NEW c \in Callers, NEW s \in ScanIds, Creates(c, s) PROVE InFlight'
  <2>1. status[s] = "none" /\ status'[s] = "pending"
        /\ \A t \in ScanIds \ {s} : status'[t] = status[t]
    <3>1. status[s] = "none" /\ status' = [status EXCEPT ![s] = "pending"]
      BY <1>2, CreateKeeps
    <3> QED BY <3>1 DEF TypeOK
  <2>2. \A w \in Workers : Live(w) => worker[w].scan \in ScanIds \ {s}
    BY <2>1 DEF LocalsSet
  <2>3. \A w \in Workers : worker[w].pc \in Unwritten => Live(w)
    BY DEF Unwritten
  <2>4. \A d \in Callers \ {c} : caller[d].pc = "dispatch" => caller[d].scan \in ScanIds \ {s}
    BY <2>1 DEF LocalsSet
  <2> QED BY <1>2, <2>1, <2>2, <2>3, <2>4, CreateKeeps
<1>3. ASSUME NEW c \in Callers, NEW w \in Workers, Dispatch(c, w) PROVE InFlight'
  BY <1>3, DispatchKeeps
<1>4. ASSUME NEW w \in Workers, Acquire(w) \/ Expire(w) PROVE InFlight'
  BY <1>4, WaitKeeps DEF Keeps, Unwritten
<1>5. ASSUME NEW w \in Workers, Release(w) PROVE InFlight'
  BY <1>5, ReleaseKeeps DEF Unwritten
<1>6. ASSUME NEW w \in Workers, WorkerDoes(w) PROVE InFlight'
  <2> DEFINE s == worker[w].scan
  <2>1. PICK l \in {"assess", "save", "fail", "notify", "release"} :
          Keeps(w, l) /\ Writes(w, s, l)
    BY <1>6, WorkerKeeps
  <2>2. /\ s \in ScanIds /\ status'[s] # "none"
        /\ \A t \in ScanIds \ {s} : status'[t] = status[t]
        /\ l \in {"assess", "save", "fail"} => status'[s] \in Active \/ (StoreFails /\ l = "fail")
    BY <1>6, <2>1, WritesFacts
  <2>3. \A v \in Workers \ {w} : Live(v) => worker[v].scan \in ScanIds \ {s}
    BY <1>6, WorkerKeeps DEF OneRunPerScan, LocalsSet
  <2>4. \A c \in Callers : caller[c].pc = "dispatch" => caller[c].scan \in ScanIds \ {s}
    BY <1>6, WorkerKeeps DEF OneRunPerScan, Dispatches, LocalsSet
  <2>5. \A v \in Workers : worker[v].pc \in Unwritten => Live(v)
    BY DEF Unwritten
  <2>6. UNCHANGED caller
    BY <1>6, WorkerKeeps
  <2> HIDE DEF s
  <2>7. worker'[w].pc = l /\ worker'[w].scan = s /\ \A v \in Workers \ {w} : worker'[v] = worker[v]
    BY <2>1 DEF Keeps, s
  <2> QED BY <2>2, <2>3, <2>4, <2>5, <2>6, <2>7 DEF Unwritten
<1>7. ASSUME NEW s \in ScanIds, NEW w \in Workers, Resume(s, w) PROVE InFlight'
  BY <1>7, ResumeKeeps
<1>8. CASE Quiet
  BY <1>8 DEF Quiet
<1>9. CASE Forgets
  BY <1>9, ForgetsAll DEF Unwritten
<1> QED BY StepDetails, <1>1, <1>2, <1>3, <1>4, <1>5, <1>6, <1>7, <1>8, <1>9

LEMMA LInvariance == ASSUME HostsStay PROVE Spec => []LInv
<1>1. Init => LInv
  <2>1. ASSUME Init PROVE Numbered /\ InFlight /\ OneRunPerScan /\ Separate
    BY <2>1, IdleFacts
    DEF Init, Numbered, InFlight, OneRunPerScan, Separate, Dispatches, Live, Unwritten
  <2> QED BY <2>1, InitIInv DEF LInv
<1>2. LInv /\ [Next]_vars => LInv'
  <2>1. LInv /\ [Next]_vars => IInv'
    BY TypeStep, LocalsStep, OwnedStep, RecoveryStep, StrandedStep, SlotsStep DEF LInv, IInv
  <2> QED BY <2>1, NumberedStep, OneRunStep, InFlightStep DEF LInv
<1> QED BY <1>1, <1>2, PTL DEF Spec

\* When hosts are not deleted a row never has two goroutines: recovery starts
\* none for a row that is attended, and no two callers get the same row id.
THEOREM EachScanRunsOnce == ASSUME HostsStay PROVE Spec => []OneRunPerScan
<1>1. LInv => OneRunPerScan
  BY DEF LInv
<1> QED BY LInvariance, <1>1, PTL

-----------------------------------------------------------------------------
(* Results belong to the host they are stored for.                         *)

RInv == LInv /\ CopiesRight /\ ResultsFromOwnHost

\* Copies stay right when hosts keep their rows and names: a goroutine's name
\* is that of its row's owner, whoever started it.
LEMMA CopiesStep == RInv /\ HostsStay /\ NamesStay /\ [Next]_vars => CopiesRight'
<1> SUFFICES ASSUME RInv, HostsStay, NamesStay, [Next]_vars PROVE CopiesRight'
  OBVIOUS
<1> USE DEF RInv, LInv, IInv, CopiesRight, Live
<1>1. ASSUME NEW c \in Callers, CallerDoes(c) PROVE CopiesRight'
  BY <1>1, CallerKeeps
<1>2. ASSUME NEW c \in Callers, NEW s \in ScanIds, Creates(c, s) PROVE CopiesRight'
  <2>1. status[s] = "none" /\ owner' = [owner EXCEPT ![s] = caller[c].host]
        /\ UNCHANGED <<hosts, worker>>
        /\ caller[c].pc = "create"
        /\ \/ caller'[c].pc = "loop"
           \/ /\ caller'[c].pc = "dispatch" /\ caller'[c].scan = s
              /\ caller'[c].host = caller[c].host /\ caller'[c].name = caller[c].name
        /\ \A d \in Callers \ {c} : caller'[d] = caller[d]
    BY <1>2, CreateKeeps
  <2>2. owner'[s] = caller[c].host /\ \A t \in ScanIds \ {s} : owner'[t] = owner[t]
    BY <2>1 DEF TypeOK
  <2>3. /\ \A w \in Workers : Live(w) => worker[w].scan \in ScanIds \ {s}
        /\ \A d \in Callers : caller[d].pc = "dispatch" => caller[d].scan \in ScanIds \ {s}
    BY <2>1 DEF LocalsSet, InFlight
  <2> QED BY <2>1, <2>2, <2>3
<1>3. ASSUME NEW c \in Callers, NEW w \in Workers, Dispatch(c, w) PROVE CopiesRight'
  <2>1. caller[c].name = hosts[owner[caller[c].scan]]
    BY <1>3, DispatchKeeps
  <2> QED BY <1>3, <2>1, DispatchKeeps
<1>4. ASSUME NEW w \in Workers, Acquire(w) \/ Expire(w) PROVE CopiesRight'
  BY <1>4, WaitKeeps DEF Keeps
<1>5. ASSUME NEW w \in Workers, Release(w) PROVE CopiesRight'
  BY <1>5, ReleaseKeeps
<1>6. ASSUME NEW w \in Workers, WorkerDoes(w) PROVE CopiesRight'
  BY <1>6, WorkerKeeps DEF Keeps
<1>7. ASSUME NEW s \in ScanIds, NEW w \in Workers, Resume(s, w) PROVE CopiesRight'
  <2>1. /\ UNCHANGED <<hosts, owner, caller>> /\ \A c \in Callers : caller[c].pc = "loop"
        /\ worker'[w].scan = s /\ worker'[w].name = hosts[owner[s]]
        /\ \A v \in Workers \ {w} : worker'[v] = worker[v]
    BY <1>7, ResumeKeeps
  <2> QED BY <2>1
<1>8. CASE Quiet
  <2>1. CASE UNCHANGED hosts
    BY <1>8, <2>1 DEF Quiet
  <2>2. ASSUME NEW h \in HostIds, NEW n \in Names, CreateHost(h, n) PROVE CopiesRight'
    <3>1. hosts[h] = NoName /\ \A g \in HostIds \ {h} : hosts'[g] = hosts[g]
      BY <2>2 DEF CreateHost, IsNextId, TypeOK
    <3>2. \A c \in Callers : caller[c].pc # "loop" => caller[c].host \in HostIds \ {h}
      BY <3>1 DEF LocalsSet
    <3>3. \A w \in Workers : Live(w) => owner[worker[w].scan] \in HostIds \ {h}
      BY <3>1 DEF LocalsSet, InFlight, RowsOwned
    <3> QED BY <1>8, <3>1, <3>2, <3>3 DEF Quiet
  <2>3. \A h \in HostIds, n \in Names : ~RenameHost(h, n)
    BY DEF RenameHost, NamesStay
  <2> QED BY <1>8, <2>1, <2>2, <2>3 DEF Quiet
<1>9. CASE Forgets
  BY <1>9, ForgetsAll
<1> QED BY StepDetails, <1>1, <1>2, <1>3, <1>4, <1>5, <1>6, <1>7, <1>8, <1>9

\* A result is only stored for a row in hand, by the goroutine that has it.
LEMMA ResultsStep == RInv /\ HostsStay /\ NamesStay /\ [Next]_vars => ResultsFromOwnHost'
<1> SUFFICES ASSUME RInv, HostsStay, NamesStay, [Next]_vars PROVE ResultsFromOwnHost'
  OBVIOUS
<1> USE DEF RInv, LInv, IInv, ResultsFromOwnHost
<1>1. ASSUME UNCHANGED <<hosts, status, owner, subject>> PROVE ResultsFromOwnHost'
  BY <1>1
<1>2. ASSUME NEW c \in Callers, NEW s \in ScanIds, Creates(c, s) PROVE ResultsFromOwnHost'
  <2>1. status' = [status EXCEPT ![s] = "pending"] /\ owner' = [owner EXCEPT ![s] = caller[c].host]
        /\ UNCHANGED <<hosts, subject>>
    BY <1>2, CreateKeeps
  <2> QED BY <2>1 DEF TypeOK
<1>3. ASSUME NEW w \in Workers, WorkerDoes(w) PROVE ResultsFromOwnHost'
  <2> DEFINE s == worker[w].scan
  <2>1. PICK l : Writes(w, s, l)
    BY <1>3 DEF WorkerDoes
  <2>2. s \in ScanIds /\ status[s] # "none" /\ UNCHANGED <<hosts, owner>> /\ Live(w)
    BY <1>3, <2>1, WritesFacts, WorkerKeeps
  <2>3. worker[w].name = hosts[owner[s]]
    BY <2>2 DEF CopiesRight
  <2>4. CASE status' = [status EXCEPT ![s] = "ready"] /\ subject' = [subject EXCEPT ![s] = worker[w].name]
    BY <2>2, <2>3, <2>4 DEF TypeOK
  <2>5. CASE ~(status' = [status EXCEPT ![s] = "ready"] /\ subject' = [subject EXCEPT ![s] = worker[w].name])
    BY <2>1, <2>2, <2>5 DEF Writes, TypeOK
  <2> QED BY <2>4, <2>5
<1>4. CASE Quiet
  <2>1. ASSUME NEW h \in HostIds, NEW n \in Names, CreateHost(h, n) PROVE ResultsFromOwnHost'
    <3>1. hosts[h] = NoName /\ \A g \in HostIds \ {h} : hosts'[g] = hosts[g]
      BY <2>1 DEF CreateHost, IsNextId, TypeOK
    <3>2. \A s \in ScanIds : status[s] # "none" => owner[s] \in HostIds \ {h}
      BY <3>1 DEF RowsOwned
    <3> QED BY <1>4, <3>1, <3>2 DEF Quiet
  <2>2. \A h \in HostIds, n \in Names : ~RenameHost(h, n)
    BY DEF RenameHost, NamesStay
  <2> QED BY <1>1, <1>4, <2>1, <2>2 DEF Quiet
<1> QED
  BY StepDetails, <1>1, <1>2, <1>3, <1>4, CallerKeeps, DispatchKeeps, WaitKeeps, ReleaseKeeps,
     ResumeKeeps
  DEF Forgets

\* When hosts are neither deleted nor renamed the result stored for a host was
\* obtained for that host's name.
THEOREM ResultsAreOfTheirHost ==
    ASSUME HostsStay, NamesStay PROVE Spec => []ResultsFromOwnHost
<1>1. Init => CopiesRight /\ ResultsFromOwnHost
  BY IdleFacts DEF Init, CopiesRight, ResultsFromOwnHost, Live
<1>2. RInv /\ LInv' /\ [Next]_vars => RInv'
  BY CopiesStep, ResultsStep DEF RInv
<1>3. LInv /\ CopiesRight /\ ResultsFromOwnHost => RInv
  BY DEF RInv
<1>4. RInv => ResultsFromOwnHost
  BY DEF RInv
<1> QED BY LInvariance, <1>1, <1>2, <1>3, <1>4, PTL DEF Spec

-----------------------------------------------------------------------------
(* The refinement.                                                         *)

UInv == LInv /\ Unheard

\* When no statement fails by itself, a goroutine that may still call the rules
\* engine has written its outcome: the deadline that stops the one stops the
\* other.
LEMMA UnheardStep == UInv /\ HostsStay /\ ~StoreFails /\ [Next]_vars => Unheard'
<1> SUFFICES ASSUME UInv, HostsStay, ~StoreFails, [Next]_vars PROVE Unheard'
  OBVIOUS
<1> USE DEF UInv, LInv, IInv, Unheard, Accepted
<1>1. ASSUME UNCHANGED <<status, told, worker>> PROVE Unheard'
  BY <1>1
<1>2. ASSUME NEW c \in Callers, NEW s \in ScanIds, Creates(c, s) PROVE Unheard'
  <2>1. status[s] = "none" /\ status' = [status EXCEPT ![s] = "pending"]
        /\ UNCHANGED <<told, worker>>
    BY <1>2, CreateKeeps
  <2>2. \A w \in Workers : worker[w].pc = "notify" => worker[w].scan \in ScanIds \ {s}
    BY <2>1 DEF LocalsSet, InFlight, Live
  <2> QED BY <2>1, <2>2 DEF TypeOK
<1>3. ASSUME NEW c \in Callers, NEW w \in Workers, Dispatch(c, w) PROVE Unheard'
  BY <1>3, DispatchKeeps
<1>4. ASSUME NEW w \in Workers, Acquire(w) \/ Expire(w) PROVE Unheard'
  BY <1>4, WaitKeeps DEF Keeps
<1>5. ASSUME NEW w \in Workers, Release(w) PROVE Unheard'
  BY <1>5, ReleaseKeeps
<1>6. ASSUME NEW w \in Workers, WorkerDoes(w) PROVE Unheard'
  <2> DEFINE s == worker[w].scan
  <2>1. PICK l \in {"assess", "save", "fail", "notify", "release"} :
          Keeps(w, l) /\ worker'[w].expired = worker[w].expired /\ Writes(w, s, l)
    BY <1>6, WorkerKeeps
  <2>2. /\ s \in ScanIds
        /\ \A t \in ScanIds \ {s} : status'[t] = status[t] /\ told'[t] = told[t]
    BY <1>6, <2>1, WritesFacts
  <2>3. \A v \in Workers \ {w} : worker[v].pc = "notify" => worker[v].scan \in ScanIds \ {s}
    BY <1>6, WorkerKeeps DEF OneRunPerScan, LocalsSet, Live
  <2>4. worker[w].pc \in Unwritten => told[s] = 0
    BY <2>2 DEF InFlight
  <2>5. status'[s] \notin Final => told'[s] = 0
    BY <2>1, <2>2, <2>4 DEF Writes, TypeOK, Unwritten
  <2>6. l = "notify" => told'[s] = 0
    BY <2>1, <2>4 DEF Writes, Unwritten
  <2>7. l = "notify" /\ ~worker[w].expired => status'[s] \in Final
    BY <2>1, <2>2 DEF Writes, TypeOK, Refused
  <2> HIDE DEF s
  <2>8. worker'[w].pc = l /\ worker'[w].scan = s /\ worker'[w].expired = worker[w].expired
        /\ \A v \in Workers \ {w} : worker'[v] = worker[v]
    BY <2>1 DEF Keeps, s
  <2> QED BY <2>2, <2>3, <2>5, <2>6, <2>7, <2>8
<1>7. ASSUME NEW s \in ScanIds, NEW w \in Workers, Resume(s, w) PROVE Unheard'
  BY <1>7, ResumeKeeps
<1>8. CASE Forgets
  BY <1>8, ForgetsAll DEF Forgets
<1> QED
  BY StepDetails, <1>1, <1>2, <1>3, <1>4, <1>5, <1>6, <1>7, <1>8, CallerKeeps DEF Quiet

\* Every step of the pipeline is one of the ledger, or nothing to it.
LEMMA LedgerStep ==
    UInv /\ HostsStay /\ ~StoreFails /\ [Next]_vars => [Ledger!Next]_(Ledger!vars)
<1> SUFFICES ASSUME UInv, HostsStay, ~StoreFails, [Next]_vars
             PROVE  Ledger!Next \/ UNCHANGED <<status, owner, told>>
  BY DEF Ledger!vars
<1> USE DEF UInv, LInv, IInv
<1>1. ASSUME NEW c \in Callers, NEW s \in ScanIds, Creates(c, s) PROVE Ledger!Next
  <2>1. Ledger!Record(s, caller[c].host)
    <3>1. \A t \in ScanIds : t < s => status[t] # "none"
      <4>1. s = 1 \/ status[s - 1] # "none"
        BY <1>1, CreateKeeps
      <4>2. s # 1 => s - 1 \in ScanIds
        BY ConstantsAssumption
      <4>3. ASSUME NEW t \in ScanIds, t < s PROVE status[t] # "none"
        <5>1. s # 1 /\ (t = s - 1 \/ t < s - 1)
          BY <4>3, ConstantsAssumption
        <5> QED BY <4>1, <4>2, <5>1 DEF Numbered
      <4> QED BY <4>3
    <3> QED BY <1>1, <3>1, CreateKeeps DEF Ledger!Record
  <2>2. caller[c].host \in HostIds
    BY <1>1, CreateKeeps DEF LocalsSet
  <2> QED BY <2>1, <2>2 DEF Ledger!Next
<1>2. ASSUME NEW w \in Workers, WorkerDoes(w)
      PROVE Ledger!Next \/ UNCHANGED <<status, owner, told>>
  <2> DEFINE s == worker[w].scan
  <2>1. PICK l : Writes(w, s, l)
    BY <1>2 DEF WorkerDoes
  <2>2. s \in ScanIds /\ UNCHANGED owner
    BY <1>2, WorkerKeeps
  <2>3. worker[w].pc \in Unwritten => status[s] \in Active
    BY DEF InFlight
  <2>4. CASE worker[w].pc = "start"
    <3>1. UNCHANGED told /\ (UNCHANGED status \/ status' = [status EXCEPT ![s] = "running"])
      BY <2>1, <2>4 DEF Writes
    <3>2. CASE status[s] = "running"
      BY <2>2, <3>1, <3>2 DEF TypeOK
    <3>3. CASE status[s] = "pending"
      BY <2>2, <3>1, <3>3 DEF Ledger!Begin, Ledger!Next
    <3> QED BY <2>3, <2>4, <3>2, <3>3 DEF Unwritten
  <2>5. CASE worker[w].pc \in {"save", "fail"}
    <3>1. UNCHANGED told
          /\ (UNCHANGED status \/ \E o \in Final : status' = [status EXCEPT ![s] = o])
      BY <2>1, <2>5 DEF Writes
    <3>2. ASSUME NEW o \in Final, status' = [status EXCEPT ![s] = o] PROVE Ledger!Next
      <4>1. Ledger!Finish(s, o)
        BY <2>2, <2>3, <2>5, <3>1, <3>2 DEF Ledger!Finish, Unwritten
      <4> QED BY <2>2, <4>1 DEF Ledger!Next
    <3> QED BY <2>2, <3>1, <3>2
  <2>6. CASE worker[w].pc = "notify"
    <3>1. /\ UNCHANGED status
          /\ \/ UNCHANGED told
             \/ Accepted(w) /\ told' = [told EXCEPT ![s] = IF @ < 2 THEN @ + 1 ELSE @]
      BY <2>1, <2>6 DEF Writes
    <3>2. told[s] = 0 /\ (Accepted(w) => status[s] \in Final)
      BY <2>6 DEF Unheard
    <3>3. Accepted(w) => UNCHANGED told \/ Ledger!Hear(s)
      BY <2>2, <3>1, <3>2 DEF Ledger!Hear
    <3> QED BY <2>2, <3>1, <3>3 DEF Ledger!Next
  <2>7. CASE worker[w].pc = "assess"
    BY <2>1, <2>2, <2>7 DEF Writes
  <2> QED BY <1>2, <2>4, <2>5, <2>6, <2>7 DEF WorkerDoes
<1> QED
  BY StepDetails, <1>1, <1>2, CallerKeeps, DispatchKeeps, WaitKeeps, ReleaseKeeps, ResumeKeeps
  DEF Quiet, Forgets

\* When hosts are not deleted and no statement fails by itself, the pipeline
\* implements the ledger, whatever deadlines and crashes do: no id is given out
\* twice, a finished scan is not written again, and the rules engine hears of a
\* scan at most once, after it finished.
THEOREM LedgerIsImplemented ==
    ASSUME HostsStay, ~StoreFails PROVE Spec => ImplementsLedger
<1>1. Init => Ledger!Init /\ Unheard
  BY IdleFacts DEF Init, Ledger!Init, Unheard
<1>2. UInv /\ LInv' /\ [Next]_vars => UInv'
  BY UnheardStep DEF UInv
<1>3. LInv /\ Unheard => UInv
  BY DEF UInv
<1>4. UInv /\ [Next]_vars => [Ledger!Next]_(Ledger!vars)
  BY LedgerStep
<1> QED
  BY LInvariance, <1>1, <1>2, <1>3, <1>4, PTL DEF Spec, ImplementsLedger, Ledger!Spec

-----------------------------------------------------------------------------
(* Bounds.                                                                 *)

ActiveOf(h) == {s \in ActiveRows : owner[s] = h}
Creating(h) == {c \in Callers : caller[c].pc = "create" /\ caller[c].host = h}

LEMMA PerHostFinite ==
    ASSUME IsFiniteSet(Callers), NEW h
    PROVE  /\ IsFiniteSet(ActiveOf(h)) /\ IsFiniteSet(Creating(h))
           /\ IsFiniteSet(ActiveOf(h)') /\ IsFiniteSet(Creating(h)')
<1>1. IsFiniteSet(ScanIds)
  BY FS_Interval, ConstantsAssumption
<1>2. ActiveOf(h) \in SUBSET ScanIds /\ ActiveOf(h)' \in SUBSET ScanIds
  BY DEF ActiveOf, ActiveRows
<1>3. Creating(h) \in SUBSET Callers /\ Creating(h)' \in SUBSET Callers
  BY DEF Creating
<1> QED BY <1>1, <1>2, <1>3, FS_Subset

\* Nobody but Trigger makes a row active or a caller about to create one.
LEMMA OthersShrink ==
    ASSUME LInv, HostsStay, [Next]_vars, NEW h,
           \A c \in Callers : ~CallerDoes(c) /\ \A s \in ScanIds : ~Creates(c, s)
    PROVE  ActiveOf(h)' \subseteq ActiveOf(h) /\ Creating(h)' \subseteq Creating(h)
<1> USE DEF LInv, IInv, ActiveOf, ActiveRows, Creating
<1>1. ASSUME NEW c \in Callers, NEW w \in Workers, Dispatch(c, w)
      PROVE ActiveOf(h)' \subseteq ActiveOf(h) /\ Creating(h)' \subseteq Creating(h)
  BY <1>1, DispatchKeeps
<1>2. ASSUME NEW w \in Workers, WorkerDoes(w)
      PROVE ActiveOf(h)' \subseteq ActiveOf(h) /\ Creating(h)' \subseteq Creating(h)
  <2> DEFINE s == worker[w].scan
  <2>1. PICK l : Writes(w, s, l)
    BY <1>2 DEF WorkerDoes
  <2>2. /\ s \in ScanIds /\ UNCHANGED <<owner, caller>>
        /\ \A t \in ScanIds \ {s} : status'[t] = status[t]
    BY <1>2, <2>1, WritesFacts, WorkerKeeps
  <2>3. worker[w].pc \in Unwritten \ {"fail"} => status[s] \in Active
    BY DEF InFlight
  <2>4. status'[s] \in Active => status[s] \in Active
    BY <2>1, <2>2, <2>3 DEF Writes, Unwritten, TypeOK
  <2> QED BY <2>2, <2>4
<1>3. CASE Forgets
  BY <1>3, ForgetsAll DEF Forgets
<1>4. ASSUME UNCHANGED <<status, owner, caller>>
      PROVE ActiveOf(h)' \subseteq ActiveOf(h) /\ Creating(h)' \subseteq Creating(h)
  BY <1>4
<1> QED
  BY StepDetails, <1>1, <1>2, <1>3, <1>4, WaitKeeps, ReleaseKeeps, ResumeKeeps DEF Quiet

\* A caller only gets past the check of a host without active scans, and trades
\* its place for one active row when it creates it.
LEMMA BoundStep ==
    LInv /\ ScansPerHostBounded /\ HostsStay /\ IsFiniteSet(Callers) /\ [Next]_vars
        => ScansPerHostBounded'
<1> SUFFICES ASSUME LInv, ScansPerHostBounded, HostsStay, IsFiniteSet(Callers), [Next]_vars,
                    NEW h \in HostIds
             PROVE  Cardinality(ActiveOf(h)') + Cardinality(Creating(h)') <= Cardinality(Callers)
  BY DEF ScansPerHostBounded, ActiveOf, Creating, ActiveRows
<1> DEFINE A == ActiveOf(h)
           C == Creating(h)
           Goal == Cardinality(A') + Cardinality(C') <= Cardinality(Callers)
<1>1. Cardinality(A) + Cardinality(C) <= Cardinality(Callers)
  BY DEF ScansPerHostBounded, ActiveOf, Creating
<1>2. IsFiniteSet(A) /\ IsFiniteSet(C) /\ IsFiniteSet(A') /\ IsFiniteSet(C')
  BY PerHostFinite
<1>3. Cardinality(A) \in Nat /\ Cardinality(C) \in Nat /\ Cardinality(A') \in Nat
      /\ Cardinality(C') \in Nat /\ Cardinality(Callers) \in Nat
  BY <1>2, FS_CardinalityType
<1>4. ASSUME A' \subseteq A, C' \subseteq C PROVE Goal
  <2>1. Cardinality(A') <= Cardinality(A) /\ Cardinality(C') <= Cardinality(C)
    BY <1>2, <1>4, FS_Subset
  <2> QED BY <1>1, <1>3, <2>1
<1>5. ASSUME NEW c \in Callers, NEW s \in ScanIds, Creates(c, s) PROVE Goal
  <2>1. /\ caller[c].pc = "create" /\ status[s] = "none" /\ status' = [status EXCEPT ![s] = "pending"]
        /\ owner' = [owner EXCEPT ![s] = caller[c].host]
        /\ caller'[c].pc # "create" /\ \A d \in Callers \ {c} : caller'[d] = caller[d]
    BY <1>5, CreateKeeps DEF LInv, IInv
  <2>2. s \notin A /\ C' = C \ {c}
    BY <2>1 DEF ActiveOf, ActiveRows, Creating
  <2>3. A' = IF caller[c].host = h THEN A \cup {s} ELSE A
    BY <2>1 DEF ActiveOf, ActiveRows, LInv, IInv, TypeOK
  <2>4. CASE caller[c].host = h
    <3>1. c \in C
      BY <2>1, <2>4 DEF Creating
    <3>2. Cardinality(A \cup {s}) = Cardinality(A) + 1
      BY <1>2, <2>2, FS_AddElement
    <3>3. Cardinality(C \ {c}) = Cardinality(C) - 1
      BY <1>2, <3>1, FS_RemoveElement
    <3> QED BY <1>1, <1>3, <2>2, <2>3, <2>4, <3>2, <3>3
  <2>5. CASE caller[c].host # h
    BY <1>4, <2>2, <2>3, <2>5
  <2> QED BY <2>4, <2>5
<1>6. ASSUME NEW c \in Callers, CallerDoes(c) PROVE Goal
  <2>1. /\ A' = A /\ \A d \in Callers \ {c} : caller'[d] = caller[d]
        /\ \/ caller'[c].pc \in {"loop", "check"}
           \/ caller'[c].pc = "create" /\ ~HasActive(caller'[c].host)
    BY <1>6, CallerKeeps DEF LInv, IInv, ActiveOf, ActiveRows
  <2>2. CASE c \notin C'
    BY <1>4, <2>1, <2>2 DEF Creating
  <2>3. CASE c \in C'
    <3>1. ~HasActive(h)
      BY <2>1, <2>3 DEF Creating
    <3>2. A' = {}
      BY <2>1, <3>1 DEF ActiveOf, ActiveRows, HasActive
    <3>3. C' \subseteq Callers
      BY DEF Creating
    <3>4. Cardinality(C') <= Cardinality(Callers) /\ Cardinality(A') = 0
      BY <3>2, <3>3, FS_Subset, FS_EmptySet
    <3> QED BY <1>3, <3>4
  <2> QED BY <2>2, <2>3
<1> HIDE DEF A, C
<1> QED BY <1>4, <1>5, <1>6, OthersShrink DEF A, C

\* When hosts are not deleted a host never has more active scans than there are
\* callers, though Trigger checks and inserts in two statements.
THEOREM ScansPerHostAreBounded ==
    ASSUME HostsStay, IsFiniteSet(Callers) PROVE Spec => []ScansPerHostBounded
<1>1. Init => ScansPerHostBounded
  <2> SUFFICES ASSUME Init, NEW h \in HostIds
               PROVE  Cardinality(ActiveOf(h)) + Cardinality(Creating(h)) <= Cardinality(Callers)
    BY DEF ScansPerHostBounded, ActiveOf, Creating
  <2>1. ActiveOf(h) = {} /\ Creating(h) = {}
    BY IdleFacts DEF Init, ActiveOf, ActiveRows, Creating
  <2>2. Cardinality(Callers) \in Nat
    BY FS_CardinalityType
  <2> QED BY <2>1, <2>2, FS_EmptySet
<1>2. LInv /\ ScansPerHostBounded /\ [Next]_vars => ScansPerHostBounded'
  BY BoundStep
<1> QED BY LInvariance, <1>1, <1>2, PTL DEF Spec

-----------------------------------------------------------------------------
(* Orderly stops.  With cron jobs this fails: run does not wait for them.  *)

NoCron == CronCallers = {}

\* scanSvc.Wait is called when no request is left to dispatch another scan.
WaitingIdle == phase = "waiting" => \A c \in Callers : ~Busy(c)

GInv == IInv /\ WaitingIdle /\ GracefulStop

\* A step that neither stops the registry nor ends run leaves the phases that
\* follow as they are, and only a caller with work to do moves a caller.
LEMMA PhaseSteps ==
    ASSUME IInv, NoCron, [Next]_vars, ~StopCron, ~WaitDone, phase' \in {"waiting", "stopped"}
    PROVE  /\ UNCHANGED phase
           /\ UNCHANGED caller \/ \E c \in Callers : Busy(c)
           /\ phase = "stopped" => UNCHANGED <<status, lost>>
<1> DEFINE Goal == /\ UNCHANGED phase
                   /\ UNCHANGED caller \/ \E c \in Callers : Busy(c)
                   /\ phase = "stopped" => UNCHANGED <<status, lost>>
<1> USE DEF rows
<1>1. ASSUME NEW c \in ApiCallers, NEW h \in HostIds, Request(c, h) PROVE Goal
  BY <1>1 DEF Request
<1>2. ASSUME NEW c \in Callers, CallerStep(c) PROVE Goal
  <2>1. UNCHANGED phase /\ phase # "stopped" /\ Busy(c)
    BY <1>2
    DEF CallerStep, TriggerGet, TriggerCheck, TriggerCreate, CreateUnreported, Inserted, TriggerError,
        Dispatch, Busy, Up
  <2> QED BY <2>1
<1>3. ASSUME NEW w \in Workers, Acquire(w) \/ Expire(w) PROVE Goal
  BY <1>3 DEF Acquire, Expire
<1>4. ASSUME NEW w \in Workers, WorkerStep(w) PROVE Goal
  <2>1. Live(w) /\ UNCHANGED <<phase, caller>>
    <3>1. CASE Release(w)
      BY <3>1 DEF Release, Live
    <3>2. CASE ~Release(w)
      BY <1>4, <3>2, WorkerFacts DEF IInv, RowStep, Live
    <3> QED BY <3>1, <3>2
  <2> QED BY <2>1 DEF IInv, Recovery
<1>5. ASSUME AdminStep PROVE Goal
  BY <1>5 DEF AdminStep, CreateHost, RenameHost, DeleteHost
<1>6. ASSUME Boot \/ RecoverStep \/ Shutdown PROVE Goal
  BY <1>6 DEF Boot, RecoverStep, ResumeSkipped, Resume, Serve, Shutdown
<1>7. ~DrainTimeout /\ ~Crash
  BY DEF DrainTimeout, Crash, Exit
<1>8. ASSUME UNCHANGED vars PROVE Goal
  BY <1>8 DEF vars
<1>9. \A c \in CronCallers : FALSE
  BY DEF NoCron
<1> HIDE DEF Goal
<1>10. Goal
  BY <1>1, <1>2, <1>3, <1>4, <1>5, <1>6, <1>7, <1>8, <1>9 DEF Next
<1> QED BY <1>10 DEF Goal

LEMMA GracefulStep == GInv /\ NoCron /\ IInv' /\ [Next]_vars => GInv'
<1> SUFFICES ASSUME GInv, NoCron, IInv', [Next]_vars PROVE WaitingIdle' /\ GracefulStop'
  BY DEF GInv
<1> USE DEF GInv, WaitingIdle, GracefulStop
<1>1. CASE StopCron
  <2>1. phase' = "waiting" /\ UNCHANGED caller /\ \A c \in ApiCallers : ~Busy(c)
    BY <1>1 DEF StopCron
  <2> QED BY <2>1 DEF Busy, NoCron
<1>2. CASE WaitDone
  <2>1. phase = "waiting" /\ phase' = "stopped" /\ UNCHANGED <<status, lost>>
        /\ \A w \in Workers : ~Live(w)
    BY <1>2 DEF WaitDone, Exit, rows
  <2>2. recover = {} /\ \A c \in Callers : ~Busy(c)
    BY <2>1 DEF IInv, Recovery
  <2>3. \A s \in ScanIds : (\A c \in Callers : ~Dispatches(c, s)) /\ (\A w \in Workers : ~Attends(w, s))
    BY <2>1, <2>2 DEF Dispatches, Busy, Attends, Live, Unwritten
  <2>4. ActiveRows \ lost = {}
    BY <2>1, <2>2, <2>3 DEF IInv, NoStrandedScan, ActiveRows
  <2> QED BY <2>1, <2>4 DEF ActiveRows
<1>3. ASSUME ~StopCron, ~WaitDone, phase' \in {"waiting", "stopped"}
      PROVE  WaitingIdle' /\ GracefulStop'
  BY <1>3, PhaseSteps DEF Busy, ActiveRows, IInv, Recovery
<1>4. CASE phase' \notin {"waiting", "stopped"}
  BY <1>4
<1> QED BY <1>1, <1>2, <1>3, <1>4

\* Without cron jobs an orderly stop leaves no scan in flight, except the rows of
\* lost, whose last writer was refused or whose INSERT took effect and was
\* reported as failed: requests end first, then goroutines are waited for.
THEOREM StopIsGraceful == ASSUME NoCron PROVE Spec => []GracefulStop
<1>1. Init => WaitingIdle /\ GracefulStop
  BY DEF Init, WaitingIdle, GracefulStop, ActiveRows
<1>2. GInv /\ IInv' /\ [Next]_vars => GInv'
  BY GracefulStep
<1>3. IInv /\ WaitingIdle /\ GracefulStop => GInv
  BY DEF GInv
<1>4. GInv => GracefulStop
  BY DEF GInv
<1> QED BY Invariance, <1>1, <1>2, <1>3, <1>4, PTL DEF Spec
=============================================================================
