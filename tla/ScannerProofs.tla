--------------------------- MODULE ScannerProofs ----------------------------
(***************************************************************************)
(* Theorems about Scanner, for every number of hosts, scans, callers,      *)
(* goroutines and slots, and whatever deadlines, failed statements, crashes*)
(* and host deletions do.                                                  *)
(***************************************************************************)
EXTENDS Scanner, FiniteSetTheorems, TLAPS

USE DEF HostIds, ScanIds, Callers, NoHost, NoScan, Active, Final

-----------------------------------------------------------------------------
(* The inductive invariant.  TypeOK and NoStrandedScan are not inductive:  *)
(* Resume reads the host of a listed row, so the row must have one (the    *)
(* foreign key), and the row must still be active and unattended when it   *)
(* is resumed.                                                             *)

\* The foreign key of scans on hosts, kept by ON DELETE CASCADE.
RowsOwned ==
    \A s \in ScanIds :
        status[s] # "none" => owner[s] \in HostIds /\ hosts[owner[s]] # NoName

\* Locals are set where the code reads them.
LocalsSet ==
    /\ \A c \in Callers :
          /\ caller[c].pc # "loop" => caller[c].host \in HostIds
          /\ caller[c].pc = "dispatch" => caller[c].scan \in ScanIds
    /\ \A w \in Workers : Live(w) => worker[w].scan \in ScanIds

\* A process starts with nothing running, and recovery lists active rows that
\* nobody attends.
Recovery ==
    /\ phase # "recovering" => recover = {}
    /\ recover \subseteq ActiveRows
    /\ \A w \in Workers : Live(w) => worker[w].scan \notin recover
    /\ phase \in {"stopped", "down", "recovering"} => \A c \in Callers : ~Busy(c)
    /\ phase \in {"stopped", "down"} => \A w \in Workers : ~Live(w)

IInv == TypeOK /\ RowsOwned /\ LocalsSet /\ Recovery /\ NoStrandedScan /\ SlotsConserved

CallerRecord ==
    [pc : CallerPCs, todo : SUBSET HostIds, host : HostIds \cup {NoHost},
     name : Names \cup {NoName}, scan : ScanIds \cup {NoScan}]

WorkerRecord ==
    [pc : WorkerPCs, scan : ScanIds \cup {NoScan}, name : Names \cup {NoName},
     expired : BOOLEAN]

-----------------------------------------------------------------------------
(* What each group of actions does, field by field.                        *)

\* Returned drops the host from the list and forgets the locals of Trigger.
LEMMA ReturnedFacts ==
    ASSUME TypeOK, NEW c \in Callers, NEW h
    PROVE  /\ Returned(c, h) \in CallerRecord
           /\ Returned(c, h).pc = "loop"
           /\ Returned(c, h).todo = caller[c].todo \ {h}
BY DEF TypeOK, Returned, IdleCaller, CallerPCs, CallerRecord

\* Caller c alone changes, to record x.
LEMMA CallerBecomes ==
    ASSUME TypeOK, NEW c \in Callers, NEW x \in CallerRecord, caller' = [caller EXCEPT ![c] = x]
    PROVE  /\ caller' \in [Callers -> CallerRecord] /\ caller'[c] = x
           /\ \A d \in Callers \ {c} : caller'[d] = caller[d]
BY DEF TypeOK, CallerRecord

\* The INSERT of row s took effect, whether its caller knows it or not.
Creates(c, s) == TriggerCreate(c, s) \/ CreateUnreported(c, s)

\* Both ways the row was unused and is pending, and its caller either dispatches
\* it next or returns and leaves it among the lost ones.
LEMMA CreateKeeps ==
    ASSUME TypeOK, NEW c \in Callers, NEW s \in ScanIds, Creates(c, s)
    PROVE  /\ UNCHANGED <<phase, hosts, subject, told, worker, sem, recover>>
           /\ phase \in {"serving", "draining", "waiting"}
           /\ caller[c].pc = "create" /\ hosts[caller[c].host] # NoName
           /\ status[s] = "none" /\ status' = [status EXCEPT ![s] = "pending"]
           /\ s = 1 \/ status[s - 1] # "none"
           /\ owner' = [owner EXCEPT ![s] = caller[c].host]
           /\ caller' \in [Callers -> CallerRecord]
           /\ \A d \in Callers \ {c} : caller'[d] = caller[d]
           /\ \/ /\ UNCHANGED lost
                 /\ caller'[c].pc = "dispatch" /\ caller'[c].scan = s
                 /\ caller'[c].host = caller[c].host /\ caller'[c].name = caller[c].name
              \/ StoreFails /\ lost' = lost \cup {s} /\ caller'[c].pc = "loop"
<1> USE DEF Creates
<1>1. Inserted(c, s)
  BY DEF TriggerCreate, CreateUnreported
<1>2. status[s] = "none" /\ (s = 1 \/ status[s - 1] # "none")
  BY <1>1 DEF Inserted, IsNextId
<1>3. CASE TriggerCreate(c, s)
  <2> DEFINE x == [caller[c] EXCEPT !.pc = "dispatch", !.scan = s]
  <2>1. caller[c] \in CallerRecord
    BY DEF TypeOK, CallerRecord
  <2>2. x \in CallerRecord /\ x.pc = "dispatch" /\ x.scan = s /\ x.host = caller[c].host /\ x.name = caller[c].name
    BY <2>1 DEF CallerRecord, CallerPCs
  <2>3. caller' = [caller EXCEPT ![c] = x] /\ UNCHANGED lost
    BY <1>3, <2>1 DEF TriggerCreate, TypeOK, CallerRecord
  <2> HIDE DEF x
  <2>4. caller'[c] = x /\ caller' \in [Callers -> CallerRecord]
        /\ \A d \in Callers \ {c} : caller'[d] = caller[d]
    BY <2>2, <2>3, CallerBecomes
  <2> QED BY <1>1, <1>2, <2>2, <2>3, <2>4 DEF Inserted, Up
<1>4. CASE CreateUnreported(c, s)
  <2> DEFINE x == Returned(c, caller[c].host)
  <2>1. x \in CallerRecord /\ x.pc = "loop"
    BY ReturnedFacts
  <2>2. caller' = [caller EXCEPT ![c] = x] /\ StoreFails /\ lost' = lost \cup {s}
    BY <1>4 DEF CreateUnreported
  <2> HIDE DEF x
  <2>3. caller'[c] = x /\ caller' \in [Callers -> CallerRecord]
        /\ \A d \in Callers \ {c} : caller'[d] = caller[d]
    BY <2>1, <2>2, CallerBecomes
  <2> QED BY <1>1, <1>2, <2>1, <2>2, <2>3 DEF Inserted, Up
<1> QED BY <1>3, <1>4

\* What dispatch hands to a new goroutine.
LEMMA QueuedFacts ==
    ASSUME NEW s \in ScanIds \cup {NoScan}, NEW n \in Names \cup {NoName}
    PROVE  /\ Queued(s, n) \in WorkerRecord
           /\ Queued(s, n).pc = "queued" /\ Queued(s, n).scan = s
BY DEF Queued, IdleWorker, WorkerPCs, Unwritten, WorkerRecord

\* The records of callers and goroutines that do nothing.
LEMMA IdleFacts ==
    /\ IdleCaller \in CallerRecord /\ IdleCaller.pc = "loop" /\ IdleCaller.todo = {}
    /\ IdleWorker \in WorkerRecord /\ IdleWorker.pc = "idle"
BY DEF IdleCaller, IdleWorker, CallerPCs, WorkerPCs, CallerRecord, WorkerRecord

\* Goto moves one goroutine and leaves its scan and the others alone.
LEMMA GotoFacts ==
    ASSUME TypeOK, NEW w \in Workers, NEW l \in WorkerPCs, Goto(w, l)
    PROVE  /\ worker' \in [Workers -> WorkerRecord]
           /\ worker'[w].pc = l /\ worker'[w].scan = worker[w].scan
           /\ \A v \in Workers \ {w} : worker'[v] = worker[v]
BY DEF TypeOK, Goto, WorkerRecord

\* An UPDATE by id touches at most that row, and makes and removes none.
LEMMA UpdatedFacts ==
    ASSUME TypeOK, NEW s \in ScanIds \cup {NoScan}, NEW v \in Active \cup Final
    PROVE  /\ Updated(s, v) \in [ScanIds -> {"none"} \cup Active \cup Final]
           /\ \A t \in ScanIds : Updated(s, v)[t] = "none" <=> status[t] = "none"
           /\ \A t \in ScanIds \ {s} : Updated(s, v)[t] = status[t]
           /\ s \in ScanIds => Updated(s, v)[s] \in {"none", v}
BY DEF TypeOK, Updated

\* What one step of goroutine w does to the tables, when it goes on at l.
RowStep(w, l) ==
    LET s == worker[w].scan IN
    /\ UNCHANGED <<phase, hosts, owner, caller, recover>>
    /\ status' \in [ScanIds -> {"none"} \cup Active \cup Final]
    /\ subject' \in [ScanIds -> Names \cup {NoName}]
    /\ told' \in [ScanIds -> 0 .. 2]
    /\ lost' \subseteq ScanIds
    /\ \A t \in ScanIds : status'[t] = "none" <=> status[t] = "none"
    /\ \A t \in ScanIds \ {s} : status'[t] = status[t] /\ (t \in lost' <=> t \in lost)
    /\ l \in {"notify", "release"} /\ worker[w].pc \in Unwritten =>
          \A t \in ScanIds : t = s => status'[t] \notin Active \/ t \in lost'
    /\ worker[w].pc \notin Unwritten => UNCHANGED <<status, lost>>

\* Every step of a goroutine inside execute is a RowStep: it leaves its row
\* final, or marked lost, by the time it goes on to notify.
LEMMA WorkerFacts ==
    ASSUME TypeOK, LocalsSet, NEW w \in Workers, WorkerStep(w), ~Release(w)
    PROVE  /\ worker[w].pc \in {"start", "assess", "save", "fail", "notify"}
           /\ UNCHANGED sem
           /\ \E l \in {"assess", "save", "fail", "notify", "release"} :
                 /\ Goto(w, l) /\ RowStep(w, l)
                 /\ worker[w].pc \in Unwritten <=> l # "release"
<1> DEFINE s == worker[w].scan
<1>0. Live(w) => s \in ScanIds
  BY DEF LocalsSet
<1>1. s \in ScanIds \cup {NoScan}
  BY DEF TypeOK
<1> USE DEF Unwritten
<1>2. CASE Start(w)
  <2>1. PICK l \in {"fail", "assess"} : Goto(w, l) /\ status' \in {status, Updated(s, "running")}
    BY <1>2 DEF Start
  <2>2. UNCHANGED <<phase, hosts, owner, subject, told, lost, caller, sem, recover>>
        /\ worker[w].pc = "start"
    BY <1>2 DEF Start, rows
  <2>3. CASE UNCHANGED status
    <3>1. RowStep(w, l)
      BY <2>1, <2>2, <2>3 DEF RowStep, TypeOK
    <3>2. QED BY <2>1, <2>2, <3>1
  <2>4. CASE status' = Updated(s, "running")
    <3>1. RowStep(w, l)
      BY <1>1, <2>1, <2>2, <2>4, UpdatedFacts DEF RowStep, TypeOK
    <3>2. QED BY <2>1, <2>2, <3>1
  <2>5. QED BY <2>1, <2>3, <2>4
<1>3. CASE Assess(w)
  <2>1. PICK l \in {"save", "fail"} : Goto(w, l)
    BY <1>3 DEF Assess
  <2>2. UNCHANGED <<phase, hosts, rows, caller, sem, recover>> /\ worker[w].pc = "assess"
    BY <1>3 DEF Assess
  <2>3. RowStep(w, l)
    BY <2>1, <2>2 DEF RowStep, TypeOK, rows
  <2>4. QED BY <2>1, <2>2, <2>3 DEF rows
<1>4. CASE Save(w)
  <2>0. s \in ScanIds
    BY <1>0, <1>4 DEF Save, Live
  <2>1. UNCHANGED <<phase, hosts, owner, told, caller, sem, recover>>
        /\ worker[w].pc = "save"
    BY <1>4 DEF Save
  <2>2. ASSUME NEW l \in {"notify", "fail"}, Goto(w, l), status' = Updated(s, "ready"),
               lost' = lost \ {s}, subject' \in [ScanIds -> Names \cup {NoName}]
        PROVE  RowStep(w, l)
    <3>1. /\ status' \in [ScanIds -> {"none"} \cup Active \cup Final]
          /\ \A t \in ScanIds : status'[t] = "none" <=> status[t] = "none"
          /\ \A t \in ScanIds \ {s} : status'[t] = status[t]
          /\ status'[s] \in {"none", "ready"}
      BY <2>0, <2>2, UpdatedFacts
    <3>2. QED BY <2>0, <2>1, <2>2, <3>1 DEF RowStep, TypeOK
  <2>3. CASE Goto(w, "fail") /\ UNCHANGED <<status, subject, lost>>
    <3>1. RowStep(w, "fail")
      BY <2>0, <2>1, <2>3 DEF RowStep, TypeOK
    <3>2. QED BY <2>1, <2>3, <3>1
  <2>4. CASE ~(Goto(w, "fail") /\ UNCHANGED <<status, subject, lost>>)
    <3>1. worker[w].name \in Names \cup {NoName}
      BY DEF TypeOK
    <3>2. PICK l \in {"notify", "fail"} : Goto(w, l)
      BY <1>4, <2>4 DEF Save
    <3>3. status' = Updated(s, "ready") /\ lost' = lost \ {s}
          /\ subject' \in [ScanIds -> Names \cup {NoName}]
      BY <1>4, <2>4, <3>1 DEF Save, TypeOK
    <3>4. RowStep(w, l)
      BY <2>2, <3>2, <3>3
    <3>5. QED BY <2>1, <3>2, <3>4
  <2>5. QED BY <2>3, <2>4
<1>5. CASE Fail(w)
  <2>0. s \in ScanIds
    BY <1>0, <1>5 DEF Fail, Live
  <2>1. UNCHANGED <<phase, hosts, owner, subject, told, caller, sem, recover>>
        /\ worker[w].pc = "fail" /\ Goto(w, "notify")
    BY <1>5 DEF Fail
  <2>2. CASE status' = Updated(s, "error") /\ lost' = lost \ {s}
    <3>1. /\ status' \in [ScanIds -> {"none"} \cup Active \cup Final]
          /\ \A t \in ScanIds : status'[t] = "none" <=> status[t] = "none"
          /\ \A t \in ScanIds \ {s} : status'[t] = status[t]
          /\ status'[s] \in {"none", "error"}
      BY <2>0, <2>2, UpdatedFacts
    <3>2. RowStep(w, "notify")
      BY <2>0, <2>1, <2>2, <3>1 DEF RowStep, TypeOK
    <3>3. QED BY <2>1, <3>2
  <2>3. CASE UNCHANGED status /\ lost' = IF status[s] \in Active THEN lost \cup {s} ELSE lost
    <3>1. RowStep(w, "notify")
      BY <1>1, <2>0, <2>1, <2>3 DEF RowStep, TypeOK
    <3>2. QED BY <2>1, <3>1
  <2>4. QED BY <1>5, <2>2, <2>3 DEF Fail
<1>6. CASE Notify(w)
  <2>1. UNCHANGED <<phase, hosts, status, owner, subject, lost, caller, sem, recover>>
        /\ worker[w].pc = "notify" /\ Goto(w, "release")
    BY <1>6 DEF Notify
  <2>2. told' \in [ScanIds -> 0 .. 2]
    BY <1>6 DEF Notify, TypeOK
  <2>3. RowStep(w, "release")
    BY <2>1, <2>2 DEF RowStep, TypeOK
  <2>4. QED BY <2>1, <2>3
<1>7. QED BY <1>2, <1>3, <1>4, <1>5, <1>6 DEF WorkerStep

\* A caller goes on without inserting or dispatching anything.
CallerMoves(c) ==
    /\ \E r \in CallerRecord :
          /\ caller' = [caller EXCEPT ![c] = r]
          /\ r.pc # "dispatch"
          /\ r.pc # "loop" => r.host \in HostIds
    /\ caller[c].pc # "dispatch"
    /\ phase \in {"serving", "draining", "waiting"}
    /\ UNCHANGED <<phase, hosts, status, owner, subject, told, lost, worker, sem, recover>>

\* A goroutine goes on inside execute.
WorkerMoves(w, l) ==
    /\ Goto(w, l) /\ RowStep(w, l)
    /\ UNCHANGED sem
    /\ worker[w].pc \in {"start", "assess", "save", "fail", "notify"}
    /\ l \in {"assess", "save", "fail", "notify", "release"}
    /\ worker[w].pc \in Unwritten <=> l # "release"

\* A goroutine gets its slot, or its deadline passes.
WorkerWaits(w) ==
    \/ Acquire(w)
    \/ Expire(w)

\* The steps of a caller that write no table only move that caller.
LEMMA CallerCases ==
    ASSUME TypeOK, LocalsSet, NEW c \in Callers,
           \/ \E h \in HostIds : Request(c, h) \/ TriggerGet(c, h)
           \/ \E linked \in SUBSET HostIds : Fire(c, linked)
           \/ TriggerCheck(c) \/ TriggerError(c)
    PROVE  CallerMoves(c)
<1> USE DEF CallerMoves, rows, Up
<1>0. caller[c] \in CallerRecord /\ caller \in [Callers -> CallerRecord]
  BY DEF TypeOK, CallerRecord
<1>1. ASSUME NEW h \in HostIds, Request(c, h) PROVE CallerMoves(c)
  <2> DEFINE r == [caller[c] EXCEPT !.todo = {h}]
  <2>1. r \in CallerRecord /\ r.pc = "loop"
    BY <1>0, <1>1 DEF Request, Busy, CallerRecord
  <2>2. caller' = [caller EXCEPT ![c] = r] /\ caller[c].pc = "loop"
    BY <1>0, <1>1 DEF Request, Busy, CallerRecord
  <2>3. QED BY <1>1, <2>1, <2>2 DEF Request
<1>2. ASSUME NEW linked \in SUBSET HostIds, Fire(c, linked) PROVE CallerMoves(c)
  <2> DEFINE r == [caller[c] EXCEPT !.todo = linked]
  <2>1. r \in CallerRecord /\ r.pc = "loop"
    BY <1>0, <1>2 DEF Fire, Busy, CallerRecord
  <2>2. caller' = [caller EXCEPT ![c] = r] /\ caller[c].pc = "loop"
    BY <1>0, <1>2 DEF Fire, Busy, CallerRecord
  <2>3. QED BY <1>2, <2>1, <2>2 DEF Fire
<1>3. ASSUME NEW h \in HostIds, TriggerGet(c, h) PROVE CallerMoves(c)
  <2> DEFINE r == [caller[c] EXCEPT !.pc = "check", !.host = h, !.name = hosts[h]]
  <2>1. r \in CallerRecord /\ r.pc = "check" /\ r.host = h
    BY <1>0 DEF CallerRecord, CallerPCs, TypeOK
  <2>2. caller' \in {[caller EXCEPT ![c] = Returned(c, h)], [caller EXCEPT ![c] = r]}
    BY <1>0, <1>3 DEF TriggerGet, CallerRecord
  <2>3. QED BY <1>3, <2>1, <2>2, ReturnedFacts DEF TriggerGet
<1>4. CASE TriggerCheck(c)
  <2> DEFINE r == [caller[c] EXCEPT !.pc = "create"]
  <2>1. r \in CallerRecord /\ r.pc = "create" /\ r.host = caller[c].host
    BY <1>0 DEF CallerRecord, CallerPCs
  <2>2. caller' \in {[caller EXCEPT ![c] = Returned(c, caller[c].host)], [caller EXCEPT ![c] = r]}
    BY <1>0, <1>4 DEF TriggerCheck, CallerRecord
  <2>3. r.host \in HostIds
    BY <1>4, <2>1 DEF TriggerCheck, LocalsSet
  <2>4. QED BY <1>4, <2>1, <2>2, <2>3, ReturnedFacts DEF TriggerCheck
<1>5. CASE TriggerError(c)
  <2>1. PICK h : caller' = [caller EXCEPT ![c] = Returned(c, h)]
    BY <1>5 DEF TriggerError
  <2>2. QED BY <1>5, <2>1, ReturnedFacts DEF TriggerError
<1>6. QED BY <1>1, <1>2, <1>3, <1>4, <1>5

\* Next, with what its steps do in place of how they are written.
LEMMA StepCases ==
    ASSUME TypeOK, LocalsSet, [Next]_vars
    PROVE  \/ \E c \in Callers : CallerMoves(c)
           \/ \E c \in Callers, s \in ScanIds : Creates(c, s)
           \/ \E c \in Callers, w \in Workers : Dispatch(c, w)
           \/ \E w \in Workers : WorkerWaits(w) \/ Release(w)
           \/ \E w \in Workers : \E l : WorkerMoves(w, l)
           \/ AdminStep \/ Boot \/ RecoverStep \/ Shutdown \/ StopCron
           \/ phase # "stopped" /\ phase # "down" /\ (Exit("stopped") \/ Exit("down"))
           \/ UNCHANGED vars
<1>1. ASSUME NEW w \in Workers, WorkerStep(w), ~Release(w) PROVE \E l : WorkerMoves(w, l)
  BY <1>1, WorkerFacts DEF WorkerMoves
<1>2. ASSUME NEW w \in Workers, WorkerStep(w)
      PROVE  Release(w) \/ \E l : WorkerMoves(w, l)
  BY <1>1, <1>2
<1>3. ASSUME NEW c \in ApiCallers, NEW h \in HostIds, Request(c, h) PROVE CallerMoves(c)
  BY <1>3, CallerCases
<1>4. ASSUME NEW c \in CronCallers, NEW linked \in SUBSET HostIds, Fire(c, linked)
      PROVE CallerMoves(c)
  BY <1>4, CallerCases
<1>5. ASSUME NEW c \in Callers, CallerStep(c)
      PROVE  \/ CallerMoves(c)
             \/ \E s \in ScanIds : Creates(c, s)
             \/ \E w \in Workers : Dispatch(c, w)
  BY <1>5, CallerCases DEF CallerStep, Creates
<1>6. WaitDone \/ DrainTimeout \/ Crash
        => phase # "stopped" /\ phase # "down" /\ (Exit("stopped") \/ Exit("down"))
  BY DEF WaitDone, DrainTimeout, Crash
<1>7. QED
  BY <1>2, <1>3, <1>4, <1>5, <1>6 DEF Next, WorkerWaits

-----------------------------------------------------------------------------
(* Every step keeps every part of the invariant.                           *)

\* Types.  Resume needs the host of the row it resumes.
LEMMA TypeStep == IInv /\ [Next]_vars => TypeOK'
<1> SUFFICES ASSUME IInv, [Next]_vars PROVE TypeOK'
  OBVIOUS
<1> USE DEF IInv
<1>1. ASSUME NEW c \in Callers, CallerMoves(c) PROVE TypeOK'
  BY <1>1 DEF CallerMoves, TypeOK, CallerRecord
<1>2. ASSUME NEW c \in Callers, NEW s \in ScanIds, Creates(c, s) PROVE TypeOK'
  <2>1. caller[c].host \in HostIds \cup {NoHost}
    BY DEF TypeOK
  <2>2. status' \in [ScanIds -> {"none"} \cup Active \cup Final]
        /\ owner' \in [ScanIds -> HostIds \cup {NoHost}]
    BY <1>2, <2>1, CreateKeeps DEF TypeOK
  <2>3. UNCHANGED <<phase, hosts, subject, told, worker, sem, recover>> /\ lost' \subseteq lost \cup {s}
    BY <1>2, CreateKeeps
  <2>4. caller' \in [Callers -> CallerRecord]
    BY <1>2, CreateKeeps
  <2>5. QED BY <2>2, <2>3, <2>4 DEF TypeOK, CallerRecord
<1>3. ASSUME NEW c \in Callers, NEW w \in Workers, Dispatch(c, w) PROVE TypeOK'
  <2>1. caller[c].scan \in ScanIds \cup {NoScan} /\ caller[c].name \in Names \cup {NoName}
    BY DEF TypeOK
  <2>2. worker' \in [Workers -> WorkerRecord]
    <3>1. Queued(caller[c].scan, caller[c].name) \in WorkerRecord
      BY <2>1, QueuedFacts
    <3>2. QED BY <1>3, <3>1 DEF Dispatch, TypeOK, WorkerRecord
  <2>3. caller' \in [Callers -> CallerRecord]
    BY <1>3, ReturnedFacts DEF Dispatch, TypeOK, CallerRecord
  <2>4. UNCHANGED <<phase, hosts, rows, sem, recover>>
    BY <1>3 DEF Dispatch
  <2>5. QED BY <2>2, <2>3, <2>4 DEF TypeOK, CallerRecord, WorkerRecord, rows
<1>4. ASSUME NEW w \in Workers, WorkerWaits(w) PROVE TypeOK'
  <2>1. CASE Acquire(w)
    <3>1. worker' \in [Workers -> WorkerRecord]
      BY <2>1, GotoFacts DEF Acquire, WorkerPCs, Unwritten
    <3>2. QED BY <2>1, <3>1 DEF Acquire, WorkerRecord, TypeOK, rows
  <2>2. CASE Expire(w)
    BY <2>2 DEF Expire, TypeOK, rows
  <2>3. QED BY <1>4, <2>1, <2>2 DEF WorkerWaits
<1>5. ASSUME NEW w \in Workers, Release(w) PROVE TypeOK'
  <2>1. worker' \in [Workers -> WorkerRecord]
    BY <1>5, IdleFacts DEF Release, TypeOK, WorkerRecord
  <2>2. QED BY <1>5, <2>1 DEF Release, TypeOK, WorkerRecord, rows
<1>6. ASSUME NEW w \in Workers, NEW l, WorkerMoves(w, l) PROVE TypeOK'
  <2>1. worker' \in [Workers -> WorkerRecord]
    BY <1>6, GotoFacts DEF WorkerMoves, WorkerPCs, Unwritten
  <2>2. QED BY <1>6, <2>1 DEF WorkerMoves, RowStep, TypeOK, WorkerRecord
<1>7. ASSUME NEW h \in HostIds, NEW n \in Names, CreateHost(h, n) \/ RenameHost(h, n)
      PROVE TypeOK'
  BY <1>7 DEF CreateHost, RenameHost, rows, TypeOK
<1>8. ASSUME NEW h \in HostIds, DeleteHost(h) PROVE TypeOK'
  <2>1. /\ status' \in [ScanIds -> {"none"} \cup Active \cup Final]
        /\ owner' \in [ScanIds -> HostIds \cup {NoHost}]
    BY <1>8 DEF DeleteHost, TypeOK
  <2>2. subject' \in [ScanIds -> Names \cup {NoName}] /\ told' \in [ScanIds -> 0 .. 2]
    BY <1>8 DEF DeleteHost, TypeOK
  <2>3. QED BY <1>8, <2>1, <2>2 DEF DeleteHost, TypeOK
<1>9. CASE Boot
  BY <1>9 DEF Boot, TypeOK, ActiveRows
<1>10. ASSUME NEW s \in ScanIds, NEW w \in Workers, Resume(s, w) PROVE TypeOK'
  <2>1. hosts[owner[s]] \in Names \cup {NoName}
    BY <1>10 DEF Resume, Recovery, RowsOwned, ActiveRows, TypeOK
  <2>2. worker' \in [Workers -> WorkerRecord]
    <3>1. Queued(s, hosts[owner[s]]) \in WorkerRecord
      BY <2>1, QueuedFacts
    <3>2. QED BY <1>10, <3>1 DEF Resume, TypeOK, WorkerRecord
  <2>3. QED BY <1>10, <2>2 DEF Resume, TypeOK, WorkerRecord, rows
<1>11. ASSUME NEW s \in ScanIds, ResumeSkipped(s) PROVE TypeOK'
  BY <1>11 DEF ResumeSkipped, TypeOK
<1>12. CASE Serve \/ Shutdown \/ StopCron
  BY <1>12 DEF Serve, Shutdown, StopCron, rows, TypeOK
<1>13. ASSUME NEW to \in {"stopped", "down"}, Exit(to) PROVE TypeOK'
  <2>1. caller' \in [Callers -> CallerRecord] /\ worker' \in [Workers -> WorkerRecord]
    BY <1>13, IdleFacts DEF Exit
  <2>2. QED BY <1>13, <2>1 DEF Exit, TypeOK, CallerRecord, WorkerRecord, rows
<1>14. CASE UNCHANGED vars
  BY <1>14 DEF vars, rows, TypeOK
<1>15. QED
  <2>1. CASE AdminStep
    BY <1>7, <1>8, <2>1 DEF AdminStep
  <2>2. CASE RecoverStep
    BY <1>10, <1>11, <1>12, <2>2 DEF RecoverStep
  <2>3. QED
    BY StepCases, <1>1, <1>2, <1>3, <1>4, <1>5, <1>6, <1>9, <1>12, <1>13, <1>14, <2>1, <2>2

\* Locals.
LEMMA LocalsStep == IInv /\ [Next]_vars => LocalsSet'
<1> SUFFICES ASSUME IInv, [Next]_vars PROVE LocalsSet'
  OBVIOUS
<1> USE DEF IInv
<1>1. ASSUME NEW c \in Callers, CallerMoves(c) PROVE LocalsSet'
  BY <1>1 DEF CallerMoves, TypeOK, LocalsSet, Live, CallerRecord
<1>2. ASSUME NEW c \in Callers, NEW s \in ScanIds, Creates(c, s) PROVE LocalsSet'
  <2>1. UNCHANGED worker /\ \A d \in Callers \ {c} : caller'[d] = caller[d]
    BY <1>2, CreateKeeps
  <2>2. /\ caller'[c].pc # "loop" => caller'[c].host \in HostIds
        /\ caller'[c].pc = "dispatch" => caller'[c].scan \in ScanIds
    BY <1>2, CreateKeeps DEF LocalsSet
  <2>3. QED BY <2>1, <2>2 DEF LocalsSet, Live
<1>3. ASSUME NEW c \in Callers, NEW w \in Workers, Dispatch(c, w) PROVE LocalsSet'
  <2>1. Queued(caller[c].scan, caller[c].name).scan = caller[c].scan
    BY QueuedFacts DEF TypeOK
  <2>2. worker' = [worker EXCEPT ![w] = Queued(caller[c].scan, caller[c].name)]
        /\ caller' = [caller EXCEPT ![c] = Returned(c, caller[c].host)]
        /\ caller[c].scan \in ScanIds
    BY <1>3 DEF Dispatch, LocalsSet
  <2>3. QED BY <2>1, <2>2, ReturnedFacts DEF LocalsSet, Live, TypeOK
<1>4. ASSUME NEW w \in Workers, WorkerWaits(w) PROVE LocalsSet'
  <2>1. CASE Acquire(w)
    BY <2>1, GotoFacts DEF Acquire, WorkerPCs, Unwritten, LocalsSet, Live
  <2>2. CASE Expire(w)
    BY <2>2 DEF Expire, TypeOK, LocalsSet, Live
  <2>3. QED BY <1>4, <2>1, <2>2 DEF WorkerWaits
<1>5. ASSUME NEW w \in Workers, Release(w) PROVE LocalsSet'
  BY <1>5, IdleFacts DEF Release, rows, TypeOK, LocalsSet, Live
<1>6. ASSUME NEW w \in Workers, NEW l, WorkerMoves(w, l) PROVE LocalsSet'
  BY <1>6, GotoFacts DEF WorkerMoves, RowStep, WorkerPCs, Unwritten, LocalsSet, Live
<1>7. ASSUME NEW h \in HostIds, NEW n \in Names, CreateHost(h, n) \/ RenameHost(h, n)
      PROVE LocalsSet'
  BY <1>7 DEF CreateHost, RenameHost, rows, LocalsSet, Live
<1>8. ASSUME NEW h \in HostIds, DeleteHost(h) PROVE LocalsSet'
  BY <1>8 DEF DeleteHost, LocalsSet, Live
<1>9. CASE Boot
  BY <1>9 DEF Boot, LocalsSet, Live
<1>10. ASSUME NEW s \in ScanIds, NEW w \in Workers, Resume(s, w) PROVE LocalsSet'
  <2>1. hosts[owner[s]] \in Names \cup {NoName}
    BY <1>10 DEF Resume, Recovery, RowsOwned, ActiveRows, TypeOK
  <2>2. Queued(s, hosts[owner[s]]).scan = s
    BY <2>1, QueuedFacts
  <2>3. QED BY <1>10, <2>2 DEF Resume, LocalsSet, Live, TypeOK
<1>11. ASSUME NEW s \in ScanIds, ResumeSkipped(s) PROVE LocalsSet'
  BY <1>11 DEF ResumeSkipped, LocalsSet, Live
<1>12. CASE Serve \/ Shutdown \/ StopCron
  BY <1>12 DEF Serve, Shutdown, StopCron, rows, LocalsSet, Live
<1>13. ASSUME NEW to \in {"stopped", "down"}, Exit(to) PROVE LocalsSet'
  BY <1>13, IdleFacts DEF Exit, rows, LocalsSet, Live
<1>14. CASE UNCHANGED vars
  BY <1>14 DEF vars, rows, LocalsSet, Live
<1>15. QED
  <2>1. CASE AdminStep
    BY <1>7, <1>8, <2>1 DEF AdminStep
  <2>2. CASE RecoverStep
    BY <1>10, <1>11, <1>12, <2>2 DEF RecoverStep
  <2>3. QED
    BY StepCases, <1>1, <1>2, <1>3, <1>4, <1>5, <1>6, <1>9, <1>12, <1>13, <1>14, <2>1, <2>2

\* The foreign key.
LEMMA OwnedStep == IInv /\ [Next]_vars => RowsOwned'
<1> SUFFICES ASSUME IInv, [Next]_vars PROVE RowsOwned'
  OBVIOUS
<1> USE DEF IInv
<1>1. ASSUME NEW c \in Callers, CallerMoves(c) PROVE RowsOwned'
  BY <1>1 DEF CallerMoves, RowsOwned
<1>2. ASSUME NEW c \in Callers, NEW s \in ScanIds, Creates(c, s) PROVE RowsOwned'
  <2>1. caller[c].host \in HostIds /\ hosts[caller[c].host] # NoName /\ UNCHANGED hosts
        /\ status' = [status EXCEPT ![s] = "pending"]
        /\ owner' = [owner EXCEPT ![s] = caller[c].host]
    BY <1>2, CreateKeeps DEF LocalsSet
  <2>2. QED BY <2>1 DEF RowsOwned, TypeOK
<1>3. ASSUME NEW c \in Callers, NEW w \in Workers, Dispatch(c, w) PROVE RowsOwned'
  BY <1>3 DEF Dispatch, rows, RowsOwned
<1>4. ASSUME NEW w \in Workers, WorkerWaits(w) PROVE RowsOwned'
  <2>1. UNCHANGED <<hosts, rows>>
    BY <1>4 DEF WorkerWaits, Acquire, Expire
  <2>2. QED BY <2>1 DEF RowsOwned, rows
<1>5. ASSUME NEW w \in Workers, Release(w) PROVE RowsOwned'
  BY <1>5 DEF Release, rows, RowsOwned
<1>6. ASSUME NEW w \in Workers, NEW l, WorkerMoves(w, l) PROVE RowsOwned'
  BY <1>6 DEF WorkerMoves, RowStep, RowsOwned
<1>7. ASSUME NEW h \in HostIds, NEW n \in Names, CreateHost(h, n) \/ RenameHost(h, n)
      PROVE RowsOwned'
  BY <1>7, ConstantsAssumption DEF CreateHost, RenameHost, rows, RowsOwned, TypeOK
<1>8. ASSUME NEW h \in HostIds, DeleteHost(h) PROVE RowsOwned'
  BY <1>8 DEF DeleteHost, RowsOwned, TypeOK
<1>9. CASE Boot
  BY <1>9 DEF Boot, RowsOwned
<1>10. ASSUME NEW s \in ScanIds, NEW w \in Workers, Resume(s, w) PROVE RowsOwned'
  BY <1>10 DEF Resume, rows, RowsOwned
<1>11. ASSUME NEW s \in ScanIds, ResumeSkipped(s) PROVE RowsOwned'
  BY <1>11 DEF ResumeSkipped, RowsOwned
<1>12. CASE Serve \/ Shutdown \/ StopCron
  BY <1>12 DEF Serve, Shutdown, StopCron, rows, RowsOwned
<1>13. ASSUME NEW to \in {"stopped", "down"}, Exit(to) PROVE RowsOwned'
  BY <1>13 DEF Exit, rows, RowsOwned
<1>14. CASE UNCHANGED vars
  BY <1>14 DEF vars, rows, RowsOwned
<1>15. QED
  <2>1. CASE AdminStep
    BY <1>7, <1>8, <2>1 DEF AdminStep
  <2>2. CASE RecoverStep
    BY <1>10, <1>11, <1>12, <2>2 DEF RecoverStep
  <2>3. QED
    BY StepCases, <1>1, <1>2, <1>3, <1>4, <1>5, <1>6, <1>9, <1>12, <1>13, <1>14, <2>1, <2>2

\* What recovery has listed.
LEMMA RecoveryStep == IInv /\ [Next]_vars => Recovery'
<1> SUFFICES ASSUME IInv, [Next]_vars PROVE Recovery'
  OBVIOUS
<1> USE DEF IInv
<1>1. ASSUME NEW c \in Callers, CallerMoves(c) PROVE Recovery'
  BY <1>1 DEF CallerMoves, Recovery, ActiveRows, Live, Busy
<1>2. ASSUME NEW c \in Callers, NEW s \in ScanIds, Creates(c, s) PROVE Recovery'
  <2>1. phase \in {"serving", "draining", "waiting"} /\ recover = {}
    BY <1>2, CreateKeeps DEF Recovery
  <2>2. UNCHANGED <<phase, worker, recover>>
    BY <1>2, CreateKeeps
  <2>3. QED BY <2>1, <2>2 DEF Recovery
<1>3. ASSUME NEW c \in Callers, NEW w \in Workers, Dispatch(c, w) PROVE Recovery'
  <2>1. phase \in {"serving", "draining", "waiting"} /\ recover = {}
    BY <1>3 DEF Dispatch, Up, Recovery
  <2>2. UNCHANGED <<phase, recover>>
    BY <1>3 DEF Dispatch
  <2>3. QED BY <2>1, <2>2 DEF Recovery
<1>4. ASSUME NEW w \in Workers, WorkerWaits(w) PROVE Recovery'
  <2>1. CASE Acquire(w)
    <3>1. \A v \in Workers : worker'[v].scan = worker[v].scan /\ (Live(v)' <=> Live(v))
      BY <2>1, GotoFacts DEF Acquire, WorkerPCs, Unwritten, Live
    <3>2. UNCHANGED <<phase, status, caller, recover>>
      BY <2>1 DEF Acquire, rows
    <3>3. QED BY <3>1, <3>2 DEF Recovery, ActiveRows, Live, Busy
  <2>2. CASE Expire(w)
    <3>1. \A v \in Workers : worker'[v].scan = worker[v].scan /\ worker'[v].pc = worker[v].pc
      BY <2>2 DEF Expire, TypeOK
    <3>2. UNCHANGED <<phase, status, caller, recover>>
      BY <2>2 DEF Expire, rows
    <3>3. QED BY <3>1, <3>2 DEF Recovery, ActiveRows, Live, Busy
  <2>3. QED BY <1>4, <2>1, <2>2 DEF WorkerWaits
<1>5. ASSUME NEW w \in Workers, Release(w) PROVE Recovery'
  <2>1. \A v \in Workers : v # w => worker'[v] = worker[v]
    BY <1>5 DEF Release, TypeOK
  <2>2. ~Live(w)' /\ Live(w)
    BY <1>5, IdleFacts DEF Release, TypeOK, Live
  <2>3. UNCHANGED <<phase, status, caller, recover>>
    BY <1>5 DEF Release, rows
  <2>4. QED BY <2>1, <2>2, <2>3 DEF Recovery, ActiveRows, Live, Busy
<1>6. ASSUME NEW w \in Workers, NEW l, WorkerMoves(w, l) PROVE Recovery'
  <2>1. Live(w) /\ worker[w].scan \in ScanIds
    BY <1>6 DEF WorkerMoves, Live, LocalsSet
  <2>2. \A v \in Workers : worker'[v].scan = worker[v].scan /\ (Live(v)' <=> Live(v))
    BY <1>6, <2>1, GotoFacts DEF WorkerMoves, WorkerPCs, Unwritten, Live
  <2>3. UNCHANGED <<phase, caller, recover>>
        /\ \A t \in ScanIds \ {worker[w].scan} : status'[t] = status[t]
    BY <1>6 DEF WorkerMoves, RowStep
  <2>4. worker[w].scan \notin recover
    BY <2>1 DEF Recovery
  <2>5. QED BY <2>1, <2>2, <2>3, <2>4 DEF Recovery, ActiveRows, Live, Busy
<1>7. ASSUME NEW h \in HostIds, NEW n \in Names, CreateHost(h, n) \/ RenameHost(h, n)
      PROVE Recovery'
  BY <1>7 DEF CreateHost, RenameHost, rows, Recovery, ActiveRows, Live, Busy
<1>8. ASSUME NEW h \in HostIds, DeleteHost(h) PROVE Recovery'
  <2>1. phase \in {"serving", "draining"} /\ recover = {}
    BY <1>8 DEF DeleteHost, Recovery
  <2>2. UNCHANGED <<phase, worker, caller, recover>>
    BY <1>8 DEF DeleteHost
  <2>3. QED BY <2>1, <2>2 DEF Recovery
<1>9. CASE Boot
  BY <1>9 DEF Boot, Recovery, ActiveRows, Live, Busy
<1>10. ASSUME NEW s \in ScanIds, NEW w \in Workers, Resume(s, w) PROVE Recovery'
  <2>1. hosts[owner[s]] \in Names \cup {NoName}
    BY <1>10 DEF Resume, Recovery, RowsOwned, ActiveRows, TypeOK
  <2>2. worker'[w].scan = s /\ \A v \in Workers : v # w => worker'[v] = worker[v]
    BY <1>10, <2>1, QueuedFacts DEF Resume, TypeOK
  <2>3. QED BY <1>10, <2>2 DEF Resume, Recovery, ActiveRows, Live, Busy, rows
<1>11. ASSUME NEW s \in ScanIds, ResumeSkipped(s) PROVE Recovery'
  BY <1>11 DEF ResumeSkipped, Recovery, ActiveRows, Live, Busy
<1>12. CASE Serve \/ Shutdown \/ StopCron
  BY <1>12 DEF Serve, Shutdown, StopCron, rows, Recovery, ActiveRows, Live, Busy
<1>13. ASSUME NEW to \in {"stopped", "down"}, Exit(to) PROVE Recovery'
  BY <1>13, IdleFacts DEF Exit, rows, Recovery, ActiveRows, Live, Busy
<1>14. CASE UNCHANGED vars
  BY <1>14 DEF vars, rows, Recovery, ActiveRows, Live, Busy
<1>15. QED
  <2>1. CASE AdminStep
    BY <1>7, <1>8, <2>1 DEF AdminStep
  <2>2. CASE RecoverStep
    BY <1>10, <1>11, <1>12, <2>2 DEF RecoverStep
  <2>3. QED
    BY StepCases, <1>1, <1>2, <1>3, <1>4, <1>5, <1>6, <1>9, <1>12, <1>13, <1>14, <2>1, <2>2

\* No active row is left without somebody to write its outcome.
LEMMA StrandedStep == IInv /\ [Next]_vars => NoStrandedScan'
<1> SUFFICES ASSUME IInv, [Next]_vars PROVE NoStrandedScan'
  OBVIOUS
<1> USE DEF IInv
<1>1. ASSUME NEW c \in Callers, CallerMoves(c) PROVE NoStrandedScan'
  <2>1. UNCHANGED <<phase, status, lost, worker, recover>>
    BY <1>1 DEF CallerMoves
  <2>2. \A d \in Callers, s \in ScanIds : Dispatches(d, s) => Dispatches(d, s)'
    BY <1>1 DEF CallerMoves, Dispatches, TypeOK
  <2>3. QED BY <2>1, <2>2 DEF NoStrandedScan, ActiveRows, Attends
<1>2. ASSUME NEW c \in Callers, NEW s \in ScanIds, Creates(c, s) PROVE NoStrandedScan'
  <2>1. UNCHANGED <<phase, worker, recover>> /\ status' = [status EXCEPT ![s] = "pending"]
        /\ lost \subseteq lost'
    BY <1>2, CreateKeeps
  <2>2. Dispatches(c, s)' \/ s \in lost'
    BY <1>2, CreateKeeps DEF Dispatches
  <2>3. \A d \in Callers, t \in ScanIds : Dispatches(d, t) => Dispatches(d, t)'
    BY <1>2, CreateKeeps DEF Dispatches
  <2>4. \A t \in ScanIds : t # s => status'[t] = status[t]
    BY <2>1 DEF TypeOK
  <2>5. QED BY <2>1, <2>2, <2>3, <2>4 DEF NoStrandedScan, ActiveRows, Attends
<1>3. ASSUME NEW c \in Callers, NEW w \in Workers, Dispatch(c, w) PROVE NoStrandedScan'
  <2>1. UNCHANGED <<phase, status, lost, recover>>
    BY <1>3 DEF Dispatch, rows
  <2>2. Queued(caller[c].scan, caller[c].name).scan = caller[c].scan
        /\ Queued(caller[c].scan, caller[c].name).pc = "queued"
    BY QueuedFacts DEF TypeOK
  <2>3. worker'[w] = Queued(caller[c].scan, caller[c].name)
        /\ \A v \in Workers : v # w => worker'[v] = worker[v]
    BY <1>3 DEF Dispatch, TypeOK
  <2>4. \A v \in Workers, t \in ScanIds : Attends(v, t) => Attends(v, t)'
    BY <1>3, <2>3 DEF Dispatch, Attends, Live, Unwritten
  <2>5. \A d \in Callers, t \in ScanIds : d # c /\ Dispatches(d, t) => Dispatches(d, t)'
    BY <1>3 DEF Dispatch, Dispatches, TypeOK
  <2>6. \A t \in ScanIds : Dispatches(c, t) => Attends(w, t)'
    BY <2>2, <2>3 DEF Dispatches, Attends, Unwritten
  <2>7. ActiveRows' = ActiveRows
    BY <2>1 DEF ActiveRows
  <2>8. \A t \in ActiveRows : t \in ScanIds
    BY DEF ActiveRows
  <2>9. QED BY <2>1, <2>4, <2>5, <2>6, <2>7, <2>8 DEF NoStrandedScan
<1>4. ASSUME NEW w \in Workers, WorkerWaits(w) PROVE NoStrandedScan'
  <2>1. \A v \in Workers, t \in ScanIds : Attends(v, t) => Attends(v, t)'
    <3>1. CASE Acquire(w)
      BY <3>1, GotoFacts DEF Acquire, WorkerPCs, Unwritten, Attends
    <3>2. CASE Expire(w)
      BY <3>2 DEF Expire, TypeOK, Attends
    <3>3. QED BY <1>4, <3>1, <3>2 DEF WorkerWaits
  <2>2. UNCHANGED <<phase, status, lost, caller, recover>>
    BY <1>4 DEF WorkerWaits, Acquire, Expire, rows
  <2>3. QED BY <2>1, <2>2 DEF NoStrandedScan, ActiveRows, Dispatches
<1>5. ASSUME NEW w \in Workers, Release(w) PROVE NoStrandedScan'
  <2>1. \A v \in Workers, t \in ScanIds : Attends(v, t) => Attends(v, t)'
    BY <1>5 DEF Release, Attends, Unwritten, TypeOK
  <2>2. UNCHANGED <<phase, status, lost, caller, recover>>
    BY <1>5 DEF Release, rows
  <2>3. QED BY <2>1, <2>2 DEF NoStrandedScan, ActiveRows, Dispatches
<1>6. ASSUME NEW w \in Workers, NEW l, WorkerMoves(w, l) PROVE NoStrandedScan'
  <2> DEFINE s == worker[w].scan
  <2>1. UNCHANGED <<phase, caller, recover>>
    BY <1>6 DEF WorkerMoves, RowStep
  <2>2. \A v \in Workers, t \in ScanIds : v # w /\ Attends(v, t) => Attends(v, t)'
    BY <1>6, GotoFacts DEF WorkerMoves, WorkerPCs, Unwritten, Attends
  <2>3. ASSUME NEW t \in ScanIds, t # s, t \in ActiveRows' \ lost'
        PROVE  t \in ActiveRows \ lost /\ ~Attends(w, t)
    BY <1>6, <2>3 DEF WorkerMoves, RowStep, ActiveRows, Attends
  <2>4. ASSUME NEW t \in ScanIds, t = s, t \in ActiveRows' \ lost', ~Attends(w, t)'
        PROVE  t \in ActiveRows \ lost /\ ~Attends(w, t)
    <3>1. worker'[w].pc = l /\ worker'[w].scan = t
      BY <1>6, <2>4, GotoFacts DEF WorkerMoves, WorkerPCs, Unwritten
    <3>2. l \in {"notify", "release"}
      BY <1>6, <2>4, <3>1 DEF WorkerMoves, Attends, Unwritten
    <3>3. worker[w].pc \notin Unwritten
      <4>1. status'[t] \in Active /\ t \notin lost'
        BY <2>4 DEF ActiveRows
      <4>2. QED BY <1>6, <2>4, <3>2, <4>1 DEF WorkerMoves, RowStep
    <3>4. UNCHANGED <<status, lost>>
      BY <1>6, <3>3 DEF WorkerMoves, RowStep
    <3>5. QED BY <2>4, <3>3, <3>4 DEF ActiveRows, Attends
  <2>5. ASSUME NEW t \in ScanIds, t \in ActiveRows' \ lost', ~Attends(w, t)',
               phase' \notin {"stopped", "down"}
        PROVE  \/ t \in recover'
               \/ \E c \in Callers : Dispatches(c, t)'
               \/ \E v \in Workers : Attends(v, t)'
    <3>1. t \in ActiveRows \ lost /\ ~Attends(w, t)
      BY <2>3, <2>4, <2>5
    <3>2. \/ t \in recover
          \/ \E c \in Callers : Dispatches(c, t)
          \/ \E v \in Workers : Attends(v, t)
      BY <2>1, <2>5, <3>1 DEF NoStrandedScan
    <3>3. (\E v \in Workers : Attends(v, t)) => \E v \in Workers : Attends(v, t)'
      BY <2>2, <3>1
    <3>4. QED BY <2>1, <3>2, <3>3 DEF Dispatches
  <2>6. \A t \in ActiveRows' : t \in ScanIds
    BY DEF ActiveRows
  <2>7. QED BY <2>5, <2>6 DEF NoStrandedScan
<1>7. ASSUME NEW h \in HostIds, NEW n \in Names, CreateHost(h, n) \/ RenameHost(h, n)
      PROVE NoStrandedScan'
  BY <1>7 DEF CreateHost, RenameHost, rows, NoStrandedScan, ActiveRows, Attends, Dispatches
<1>8. ASSUME NEW h \in HostIds, DeleteHost(h) PROVE NoStrandedScan'
  <2>1. UNCHANGED <<phase, caller, worker, recover>>
    BY <1>8 DEF DeleteHost
  <2>2. \A t \in ScanIds : t \in ActiveRows' \ lost' => t \in ActiveRows \ lost
    BY <1>8 DEF DeleteHost, ActiveRows
  <2>3. ActiveRows' \subseteq ScanIds
    BY DEF ActiveRows
  <2>4. QED BY <2>1, <2>2, <2>3 DEF NoStrandedScan, Attends, Dispatches
<1>9. CASE Boot
  BY <1>9 DEF Boot, NoStrandedScan, ActiveRows
<1>10. ASSUME NEW s \in ScanIds, NEW w \in Workers, Resume(s, w) PROVE NoStrandedScan'
  <2>1. hosts[owner[s]] \in Names \cup {NoName}
    BY <1>10 DEF Resume, Recovery, RowsOwned, ActiveRows, TypeOK
  <2>2. Attends(w, s)'
    BY <1>10, <2>1, QueuedFacts DEF Resume, Attends, Unwritten, TypeOK
  <2>3. \A v \in Workers, t \in ScanIds : Attends(v, t) => Attends(v, t)'
    BY <1>10 DEF Resume, Attends, Live, Unwritten, TypeOK
  <2>4. UNCHANGED <<phase, status, lost, caller>> /\ recover' = recover \ {s}
    BY <1>10 DEF Resume, rows
  <2>5. QED BY <2>2, <2>3, <2>4 DEF NoStrandedScan, ActiveRows, Dispatches
<1>11. ASSUME NEW s \in ScanIds, ResumeSkipped(s) PROVE NoStrandedScan'
  BY <1>11 DEF ResumeSkipped, NoStrandedScan, ActiveRows, Attends, Dispatches
<1>12. CASE Serve \/ Shutdown \/ StopCron
  BY <1>12 DEF Serve, Shutdown, StopCron, rows, NoStrandedScan, ActiveRows, Attends, Dispatches
<1>13. ASSUME NEW to \in {"stopped", "down"}, Exit(to) PROVE NoStrandedScan'
  BY <1>13 DEF Exit, rows, NoStrandedScan
<1>14. CASE UNCHANGED vars
  BY <1>14 DEF vars, rows, NoStrandedScan, ActiveRows, Attends, Dispatches
<1>15. QED
  <2>1. CASE AdminStep
    BY <1>7, <1>8, <2>1 DEF AdminStep
  <2>2. CASE RecoverStep
    BY <1>10, <1>11, <1>12, <2>2 DEF RecoverStep
  <2>3. QED
    BY StepCases, <1>1, <1>2, <1>3, <1>4, <1>5, <1>6, <1>9, <1>12, <1>13, <1>14, <2>1, <2>2

-----------------------------------------------------------------------------
(* Slots.  sem is a cardinality, so a step that adds or removes a holder    *)
(* changes it by one.                                                      *)

Holders == {w \in Workers : HoldsSlot(w)}

\* The goroutines that hold a slot are finitely many, so they can be counted.
LEMMA HoldersFinite == IsFiniteSet(Holders) /\ Cardinality(Holders) \in Nat
<1>1. Holders \subseteq Workers
  BY DEF Holders
<1>2. IsFiniteSet(Workers)
  BY ConstantsAssumption DEF ConstantsAssumption
<1>3. IsFiniteSet(Holders)
  BY <1>1, <1>2, FS_Subset
<1>4. QED BY <1>3, FS_CardinalityType

\* A step that changes neither sem nor the holders keeps the count.
LEMMA SlotsSame ==
    ASSUME SlotsConserved, UNCHANGED sem,
           \A w \in Workers : HoldsSlot(w)' <=> HoldsSlot(w)
    PROVE  SlotsConserved'
<1>1. {w \in Workers : HoldsSlot(w)}' = {w \in Workers : HoldsSlot(w)}
  OBVIOUS
<1>2. QED BY <1>1 DEF SlotsConserved

\* A slot is taken by Acquire, returned by Release, and by nothing else.
LEMMA SlotsStep == IInv /\ [Next]_vars => SlotsConserved'
<1> SUFFICES ASSUME IInv, [Next]_vars PROVE SlotsConserved'
  OBVIOUS
<1> USE DEF IInv
<1>1. ASSUME NEW c \in Callers, CallerMoves(c) PROVE SlotsConserved'
  BY <1>1, SlotsSame DEF CallerMoves, HoldsSlot
<1>2. ASSUME NEW c \in Callers, NEW s \in ScanIds, Creates(c, s) PROVE SlotsConserved'
  BY <1>2, SlotsSame, CreateKeeps DEF HoldsSlot
<1>3. ASSUME NEW c \in Callers, NEW w \in Workers, Dispatch(c, w) PROVE SlotsConserved'
  <2>1. UNCHANGED sem /\ ~Live(w)
    BY <1>3 DEF Dispatch
  <2>2. Queued(caller[c].scan, caller[c].name).pc = "queued"
    BY QueuedFacts DEF TypeOK
  <2>3. \A v \in Workers : HoldsSlot(v)' <=> HoldsSlot(v)
    BY <1>3, <2>1, <2>2 DEF Dispatch, HoldsSlot, Live, TypeOK
  <2>4. QED BY <2>1, <2>3, SlotsSame
<1>4. ASSUME NEW w \in Workers, WorkerWaits(w) PROVE SlotsConserved'
  <2>1. CASE Expire(w)
    <3>1. \A v \in Workers : HoldsSlot(v)' <=> HoldsSlot(v)
      BY <2>1 DEF Expire, HoldsSlot, TypeOK
    <3>2. QED BY <2>1, <3>1, SlotsSame DEF Expire
  <2>2. CASE Acquire(w)
    <3>1. w \notin Holders /\ Holders' = Holders \cup {w}
      BY <2>2, GotoFacts DEF Acquire, WorkerPCs, Unwritten, Holders, HoldsSlot
    <3>2. Cardinality(Holders') = Cardinality(Holders) + 1
      BY <3>1, HoldersFinite, FS_AddElement
    <3>3. sem' = sem + 1 /\ sem < Slots
      BY <2>2 DEF Acquire
    <3>4. QED
      BY <3>2, <3>3, HoldersFinite, ConstantsAssumption DEF SlotsConserved, Holders, ConstantsAssumption
  <2>3. QED BY <1>4, <2>1, <2>2 DEF WorkerWaits
<1>5. ASSUME NEW w \in Workers, Release(w) PROVE SlotsConserved'
  <2>1. w \in Holders /\ Holders' = Holders \ {w}
    BY <1>5, IdleFacts DEF Release, TypeOK, Holders, HoldsSlot
  <2>2. Cardinality(Holders') = Cardinality(Holders) - 1
    BY <2>1, HoldersFinite, FS_RemoveElement
  <2>3. sem' = sem - 1
    BY <1>5 DEF Release
  <2>4. QED
    BY <2>2, <2>3, HoldersFinite, ConstantsAssumption DEF SlotsConserved, Holders, ConstantsAssumption
<1>6. ASSUME NEW w \in Workers, NEW l, WorkerMoves(w, l) PROVE SlotsConserved'
  <2>1. \A v \in Workers : HoldsSlot(v)' <=> HoldsSlot(v)
    BY <1>6, GotoFacts DEF WorkerMoves, WorkerPCs, Unwritten, HoldsSlot
  <2>2. QED BY <1>6, <2>1, SlotsSame DEF WorkerMoves
<1>7. ASSUME NEW h \in HostIds, NEW n \in Names, CreateHost(h, n) \/ RenameHost(h, n)
      PROVE SlotsConserved'
  BY <1>7, SlotsSame DEF CreateHost, RenameHost, rows, HoldsSlot
<1>8. ASSUME NEW h \in HostIds, DeleteHost(h) PROVE SlotsConserved'
  BY <1>8, SlotsSame DEF DeleteHost, HoldsSlot
<1>9. CASE Boot
  BY <1>9, SlotsSame DEF Boot, HoldsSlot
<1>10. ASSUME NEW s \in ScanIds, NEW w \in Workers, Resume(s, w) PROVE SlotsConserved'
  <2>1. UNCHANGED sem /\ ~Live(w)
    BY <1>10 DEF Resume
  <2>2. hosts[owner[s]] \in Names \cup {NoName}
    BY <1>10 DEF Resume, Recovery, RowsOwned, ActiveRows, TypeOK
  <2>3. \A v \in Workers : HoldsSlot(v)' <=> HoldsSlot(v)
    BY <1>10, <2>1, <2>2, QueuedFacts DEF Resume, HoldsSlot, Live, TypeOK
  <2>4. QED BY <2>1, <2>3, SlotsSame
<1>11. ASSUME NEW s \in ScanIds, ResumeSkipped(s) PROVE SlotsConserved'
  BY <1>11, SlotsSame DEF ResumeSkipped, HoldsSlot
<1>12. CASE Serve \/ Shutdown \/ StopCron
  BY <1>12, SlotsSame DEF Serve, Shutdown, StopCron, rows, HoldsSlot
<1>13. ASSUME NEW to \in {"stopped", "down"}, Exit(to) PROVE SlotsConserved'
  <2>1. {w \in Workers : HoldsSlot(w)}' = {}
    BY <1>13, IdleFacts DEF Exit, HoldsSlot
  <2>2. Cardinality({}) = 0
    BY FS_EmptySet
  <2>3. QED BY <1>13, <2>1, <2>2, ConstantsAssumption DEF Exit, SlotsConserved, ConstantsAssumption
<1>14. CASE UNCHANGED vars
  BY <1>14, SlotsSame DEF vars, rows, HoldsSlot
<1>15. QED
  <2>1. CASE AdminStep
    BY <1>7, <1>8, <2>1 DEF AdminStep
  <2>2. CASE RecoverStep
    BY <1>10, <1>11, <1>12, <2>2 DEF RecoverStep
  <2>3. QED
    BY StepCases, <1>1, <1>2, <1>3, <1>4, <1>5, <1>6, <1>9, <1>12, <1>13, <1>14, <2>1, <2>2

-----------------------------------------------------------------------------
(* Theorems.                                                               *)

\* A process that has never started has no active row and no slot taken.
LEMMA InitIInv == Init => IInv
<1> SUFFICES ASSUME Init PROVE IInv
  OBVIOUS
<1>1. TypeOK
  BY IdleFacts DEF Init, TypeOK, CallerRecord, WorkerRecord
<1>2. RowsOwned /\ NoStrandedScan
  BY DEF Init, RowsOwned, NoStrandedScan
<1>3. \A c \in Callers : caller[c].pc = "loop" /\ caller[c].todo = {}
  BY IdleFacts DEF Init
<1>4. \A w \in Workers : worker[w].pc = "idle"
  BY IdleFacts DEF Init
<1>5. LocalsSet /\ Recovery
  BY <1>3, <1>4 DEF Init, LocalsSet, Recovery, Live, Busy, ActiveRows
<1>6. SlotsConserved
  <2>1. {w \in Workers : HoldsSlot(w)} = {}
    BY <1>4 DEF HoldsSlot
  <2>2. Cardinality({w \in Workers : HoldsSlot(w)}) = 0
    BY <2>1, FS_EmptySet
  <2>3. sem = 0 /\ 0 <= Slots
    BY ConstantsAssumption DEF Init, ConstantsAssumption
  <2>4. QED BY <2>2, <2>3 DEF SlotsConserved
<1>7. QED BY <1>1, <1>2, <1>5, <1>6 DEF IInv

\* IInv is inductive: each of its parts is preserved by every step, given all.
LEMMA Invariance == Spec => []IInv
<1>1. IInv /\ [Next]_vars => IInv'
  BY TypeStep, LocalsStep, OwnedStep, RecoveryStep, StrandedStep, SlotsStep DEF IInv
<1>2. QED
  BY InitIInv, <1>1, PTL DEF Spec

\* The variables always have their types; in particular no index is out of
\* range when a row id is reused or a host disappears under a caller.
THEOREM TypeCorrect == Spec => []TypeOK
<1>1. IInv => TypeOK
  BY DEF IInv
<1>2. QED BY Invariance, <1>1, PTL

\* While the process is up every active scan has somebody who will write its
\* outcome, unless its last writer was refused or Trigger took its INSERT, which
\* had taken effect, for failed.
THEOREM NoScanIsStranded == Spec => []NoStrandedScan
<1>1. IInv => NoStrandedScan
  BY DEF IInv
<1>2. QED BY Invariance, <1>1, PTL

\* The tokens of sem are the goroutines inside execute, at most Slots of them,
\* on every path a scan can take.
THEOREM SlotsAreConserved == Spec => []SlotsConserved
<1>1. IInv => SlotsConserved
  BY DEF IInv
<1>2. QED BY Invariance, <1>1, PTL
=============================================================================
