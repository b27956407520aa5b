---------------------------- MODULE AssessProofs -----------------------------
(***************************************************************************)
(* Theorems about Assess, for every number of scans and slots, every limit *)
(* of SSL Labs and every way it may answer.                                *)
(***************************************************************************)
EXTENDS Assess, FiniteSetTheorems, TLAPS

Pcs == {"idle", "info", "nap", "coolOff", "analyze", "backoff", "poll", "ready", "error"}
ScanRecord ==
    [pc : Pcs, cached : BOOLEAN, startNew : BOOLEAN, fromCache : BOOLEAN,
     errors : 0 .. ServerErrorRetries, timer : 0 .. CoolOff, expired : BOOLEAN]
RemoteRecord == [state : {"none", "running", "ready", "error"}, starts : Nat]
StartRecord == [scan : Scans, before : Nat, age : Window]

\* The first call of the scan has had no answer yet.
First(w) == scan[w].startNew \/ scan[w].fromCache

\* How far a scan is with the assessment it is to take its result from: it has
\* not asked for one, it has had one started, or it polls one that exists.
Progress(w) ==
    /\ remote[w].starts <= 1
    /\ scan[w].fromCache => scan[w].cached
    /\ scan[w].pc \in {"info", "nap", "coolOff"} => scan[w].startNew
    /\ First(w) /\ scan[w].pc \notin {"idle", "error"} => remote[w].starts = 0
    /\ ~First(w) /\ scan[w].pc # "idle" =>
          /\ scan[w].cached \/ remote[w].starts = 1
          /\ remote[w].state # "none"
    /\ scan[w].pc \in {"poll", "ready"} => ~First(w)

\* A scan that may start an assessment has had none started for a cool-off, and
\* one that waits will have had none when its wait is over.
Waited(w) ==
    /\ scan[w].startNew /\ scan[w].pc \in {"analyze", "backoff"} /\ ~scan[w].expired =>
          StartsOf(w) = {}
    /\ scan[w].pc = "coolOff" /\ ~scan[w].expired =>
          \A e \in StartsOf(w) : e.age + scan[w].timer >= CoolOff

\* So no scan has two starts within one cool-off.
Paced ==
    /\ \A w \in Scans : Waited(w)
    /\ \A e, f \in recent : e.scan = f.scan => e = f

\* In t units of time w is still one that has started within the cool-off, or
\* it may start one by then: it asks for one, or its own wait is over.
Counted(t) ==
    {w \in Scans :
        \/ \E e \in StartsOf(w) : e.age + t < CoolOff
        \/ scan[w].startNew /\ scan[w].pc \in {"analyze", "backoff"} /\ ~scan[w].expired
        \/ scan[w].pc = "coolOff" /\ scan[w].timer <= t /\ ~scan[w].expired}

\* One slot has room for one of them: a scan that takes over a slot waits for
\* the cool-off from then on.
Bounded ==
    /\ Cardinality(InProgress) <= Slots
    /\ \A t \in 0 .. CoolOff : Cardinality(Counted(t)) <= Slots

IInv == TypeOK /\ (\A w \in Scans : Progress(w)) /\ Paced /\ Bounded

-----------------------------------------------------------------------------
(* Records.                                                                *)

\* A scan that goes on elsewhere keeps its other locals.
LEMMA MovedRecord ==
    ASSUME NEW r \in ScanRecord, NEW l \in Pcs
    PROVE  /\ [r EXCEPT !.pc = l] \in ScanRecord
           /\ [r EXCEPT !.pc = l].pc = l
           /\ [r EXCEPT !.pc = l].startNew = r.startNew
           /\ [r EXCEPT !.pc = l].fromCache = r.fromCache
           /\ [r EXCEPT !.pc = l].cached = r.cached
           /\ [r EXCEPT !.pc = l].expired = r.expired
           /\ [r EXCEPT !.pc = l].timer = r.timer
BY DEF ScanRecord

\* What Begin makes of an idle scan.
Begun(cached) ==
    [Idle EXCEPT !.pc = IF cached THEN "analyze" ELSE "info", !.cached = cached,
                 !.startNew = ~cached, !.fromCache = cached]

LEMMA BegunRecord ==
    ASSUME NEW cached \in BOOLEAN
    PROVE  /\ Idle \in ScanRecord /\ Idle.pc = "idle" /\ ~Idle.startNew /\ ~Idle.fromCache
           /\ Begun(cached) \in ScanRecord
           /\ Begun(cached).pc = IF cached THEN "analyze" ELSE "info"
           /\ Begun(cached).cached = cached
           /\ Begun(cached).startNew = ~cached /\ Begun(cached).fromCache = cached
<1>1. 0 \in 0 .. CoolOff /\ 0 \in 0 .. ServerErrorRetries
  BY AssessAssumption
<1>2. Idle \in ScanRecord
  BY <1>1, Zenon DEF Idle, ScanRecord, Pcs
<1>3. CASE cached
  BY <1>1, <1>2, <1>3 DEF Begun, Idle, ScanRecord, Pcs
<1>4. CASE ~cached
  BY <1>1, <1>2, <1>4 DEF Begun, Idle, ScanRecord, Pcs
<1> QED
  BY <1>2, <1>3, <1>4 DEF Idle

\* Go moves one scan.
LEMMA GoFacts ==
    ASSUME TypeOK, NEW w \in Scans, NEW l \in Pcs, Go(w, l)
    PROVE  /\ scan' \in [Scans -> ScanRecord]
           /\ scan'[w] = [scan[w] EXCEPT !.pc = l]
           /\ \A v \in Scans \ {w} : scan'[v] = scan[v]
<1>1. scan \in [Scans -> ScanRecord]
  BY DEF TypeOK, ScanRecord, Pcs
<1>2. [scan[w] EXCEPT !.pc = l] \in ScanRecord
  BY <1>1, MovedRecord
<1>3. scan' = [scan EXCEPT ![w] = [scan[w] EXCEPT !.pc = l]]
  BY DEF Go
<1> QED
  BY <1>1, <1>2, <1>3

-----------------------------------------------------------------------------
(* Each action, as what it does to its scan.                               *)

\* What most steps leave as it was: whether a scan is to start an assessment, and
\* whether it still can.
Same(r, s) ==
    /\ r.startNew = s.startNew /\ r.fromCache = s.fromCache /\ r.cached = s.cached
    /\ r.expired = s.expired /\ r.timer = s.timer

\* w alone changes, to a record of its type.
Only(w) ==
    /\ scan' \in [Scans -> ScanRecord]
    /\ \A v \in Scans \ {w} : scan'[v] = scan[v]

\* The steps that only move a scan, and from where to where they do.
Moves(w) ==
    \E l \in Pcs :
        /\ Only(w) /\ scan'[w].pc = l /\ Same(scan'[w], scan[w])
        /\ UNCHANGED <<remote, recent>>
        /\ \/ At(w, "info") /\ l = "nap"
           \/ At(w, "coolOff") /\ (scan[w].timer = 0 \/ scan[w].expired) /\ l = "analyze"
           \/ At(w, "nap") /\ l \in {"info", "error"}
           \/ At(w, "backoff") /\ l \in {"analyze", "error"}
           \/ At(w, "poll") /\ l \in {"analyze", "error"}
           \/ At(w, "analyze") /\ l \in {"backoff", "error"}

LEMMA MoveFacts ==
    ASSUME TypeOK, NEW w \in Scans,
           InfoBusy(w) \/ CoolOffOver(w) \/ Wake(w) \/ NoAnswer(w) \/ Limited(w) \/ ServerError(w)
    PROVE  Moves(w)
<1>1. scan \in [Scans -> ScanRecord]
  BY DEF TypeOK, ScanRecord, Pcs
<1>2. ASSUME NEW l \in Pcs, Go(w, l)
      PROVE  Only(w) /\ scan'[w].pc = l /\ Same(scan'[w], scan[w])
  <2>1. scan[w] \in ScanRecord
    BY <1>1
  <2>2. Only(w) /\ scan'[w] = [scan[w] EXCEPT !.pc = l]
    BY <1>2, GoFacts DEF Only
  <2>3. [scan[w] EXCEPT !.pc = l].pc = l /\ Same([scan[w] EXCEPT !.pc = l], scan[w])
    BY <2>1, MovedRecord, Zenon DEF Same
  <2> QED BY <2>2, <2>3
<1>3. CASE InfoBusy(w)
  BY <1>2, <1>3 DEF InfoBusy, Moves, Pcs
<1>4. CASE CoolOffOver(w)
  BY <1>2, <1>4 DEF CoolOffOver, Moves, Pcs
<1>5. CASE Wake(w)
  <2>1. PICK l \in Pcs : Go(w, l) /\ \/ At(w, "nap") /\ l \in {"info", "error"}
                                     \/ At(w, "backoff") /\ l \in {"analyze", "error"}
                                     \/ At(w, "poll") /\ l \in {"analyze", "error"}
    BY <1>5, Zenon DEF Wake, Pcs
  <2> QED
    BY <1>2, <1>5, <2>1 DEF Moves, Wake
<1>6. CASE NoAnswer(w) \/ Limited(w)
  BY <1>2, <1>6 DEF NoAnswer, Limited, Moves, Pcs
<1>7. CASE ServerError(w)
  <2>1. CASE scan[w].errors < ServerErrorRetries
    <3> DEFINE r == [scan[w] EXCEPT !.pc = "backoff", !.errors = @ + 1]
    <3>1. scan[w] \in ScanRecord /\ scan[w].errors + 1 \in 0 .. ServerErrorRetries
      BY <1>1, <2>1, AssessAssumption DEF ScanRecord
    <3>2. r \in ScanRecord /\ r.pc = "backoff" /\ Same(r, scan[w])
      BY <3>1 DEF ScanRecord, Pcs, Same
    <3>3. scan' = [scan EXCEPT ![w] = r]
      BY <1>1, <1>7, <2>1 DEF ServerError
    <3>4. Only(w) /\ scan'[w] = r
      BY <1>1, <3>2, <3>3 DEF Only
    <3> QED
      BY <1>7, <3>2, <3>4 DEF ServerError, Moves, Pcs
  <2>2. CASE ~(scan[w].errors < ServerErrorRetries)
    BY <1>2, <1>7, <2>2 DEF ServerError, Moves, Pcs
  <2> QED BY <2>1, <2>2
<1> QED
  BY <1>3, <1>4, <1>5, <1>6, <1>7

LEMMA BeginFacts ==
    ASSUME TypeOK, NEW w \in Scans, NEW cached \in BOOLEAN, Begin(w, cached)
    PROVE  Only(w) /\ scan'[w] = Begun(cached)
<1>1. scan \in [Scans -> ScanRecord]
  BY DEF TypeOK, ScanRecord, Pcs
<1>2. scan' = [scan EXCEPT ![w] = Begun(cached)]
  BY DEF Begin, Begun
<1> QED
  BY <1>1, <1>2, BegunRecord DEF Only

LEMMA InfoFreeFacts ==
    ASSUME TypeOK, NEW w \in Scans, InfoFree(w)
    PROVE  /\ Only(w) /\ scan'[w].pc = "coolOff" /\ scan'[w].timer = CoolOff
           /\ scan'[w].startNew = scan[w].startNew /\ scan'[w].cached = scan[w].cached
           /\ scan'[w].fromCache = scan[w].fromCache
<1> DEFINE r == [scan[w] EXCEPT !.pc = "coolOff", !.timer = CoolOff]
<1>1. scan \in [Scans -> ScanRecord] /\ CoolOff \in 0 .. CoolOff
  BY AssessAssumption DEF TypeOK, ScanRecord, Pcs
<1>2. scan[w] \in ScanRecord
  BY <1>1
<1>3. r \in ScanRecord /\ r.pc = "coolOff" /\ r.timer = CoolOff
      /\ r.startNew = scan[w].startNew /\ r.cached = scan[w].cached
      /\ r.fromCache = scan[w].fromCache
  BY <1>1, <1>2 DEF ScanRecord, Pcs
<1>4. scan' = [scan EXCEPT ![w] = r]
  BY <1>1 DEF InfoFree
<1> QED
  BY <1>1, <1>3, <1>4 DEF Only

\* After its first answer a scan asks for no new assessment.
LEMMA AnsweredFacts ==
    ASSUME TypeOK, NEW w \in Scans, NEW l \in Pcs, Answered(w, l)
    PROVE  /\ Only(w)
           /\ scan'[w].pc = l /\ ~scan'[w].startNew /\ ~scan'[w].fromCache
           /\ scan'[w].cached = scan[w].cached
<1> DEFINE r == [scan[w] EXCEPT !.pc = l, !.startNew = FALSE, !.fromCache = FALSE, !.errors = 0]
<1>1. scan \in [Scans -> ScanRecord]
  BY DEF TypeOK, ScanRecord, Pcs
<1>2. scan[w] \in ScanRecord /\ 0 \in 0 .. ServerErrorRetries
  BY <1>1, AssessAssumption
<1>3. r \in ScanRecord /\ r.pc = l /\ ~r.startNew /\ ~r.fromCache /\ r.cached = scan[w].cached
  BY <1>2 DEF ScanRecord, Pcs
<1>4. scan' = [scan EXCEPT ![w] = r]
  BY <1>1 DEF Answered
<1> QED
  BY <1>1, <1>3, <1>4 DEF Only

\* Only a first call starts anything.
LEMMA NewAssessmentFacts ==
    ASSUME TypeOK, NEW w \in Scans, NewAssessment(w)
    PROVE  /\ Only(w)
           /\ \/ scan'[w].pc = "poll" /\ ~scan'[w].startNew /\ ~scan'[w].fromCache
              \/ /\ scan'[w].pc = "error"
                 /\ scan'[w].startNew = scan[w].startNew /\ scan'[w].fromCache = scan[w].fromCache
           /\ scan'[w].cached = scan[w].cached
           /\ remote' \in [Scans -> RemoteRecord]
           /\ remote'[w].state = "running" /\ remote'[w].starts = remote[w].starts + 1
           /\ \A v \in Scans \ {w} : remote'[v] = remote[v]
<1>1. scan \in [Scans -> ScanRecord]
  BY DEF TypeOK, ScanRecord, Pcs
<1>2. scan[w] \in ScanRecord
  BY <1>1
<1>3. /\ remote' \in [Scans -> RemoteRecord]
      /\ remote'[w].state = "running" /\ remote'[w].starts = remote[w].starts + 1
      /\ \A v \in Scans \ {w} : remote'[v] = remote[v]
  <2>1. remote \in [Scans -> RemoteRecord]
    BY DEF TypeOK, RemoteRecord
  <2>2. remote' = [remote EXCEPT ![w].state = "running", ![w].starts = @ + 1]
    BY DEF NewAssessment
  <2> QED
    BY <2>1, <2>2 DEF RemoteRecord
<1>4. /\ Only(w) /\ scan'[w].cached = scan[w].cached
      /\ \/ scan'[w].pc = "poll" /\ ~scan'[w].startNew /\ ~scan'[w].fromCache
         \/ /\ scan'[w].pc = "error"
            /\ scan'[w].startNew = scan[w].startNew /\ scan'[w].fromCache = scan[w].fromCache
  <2>1. Go(w, "error") \/ Answered(w, "poll")
    BY DEF NewAssessment
  <2>2. CASE Answered(w, "poll")
    BY <2>2, AnsweredFacts DEF Pcs
  <2>3. CASE Go(w, "error")
    <3>1. scan'[w] = [scan[w] EXCEPT !.pc = "error"] /\ Only(w)
      BY <2>3, GoFacts DEF Only, Pcs
    <3> QED
      BY <1>2, <3>1, MovedRecord DEF Pcs
  <2> QED BY <2>1, <2>2, <2>3
<1> QED
  BY <1>3, <1>4

LEMMA PolledFacts ==
    ASSUME TypeOK, NEW w \in Scans, Polled(w)
    PROVE  /\ Only(w) /\ scan'[w].pc \in {"poll", "ready", "error"}
           /\ ~scan'[w].startNew /\ ~scan'[w].fromCache
           /\ scan'[w].cached = scan[w].cached
<1> DEFINE l == IF remote[w].state = "running" THEN "poll" ELSE remote[w].state
<1>1. l \in {"poll", "ready", "error"}
  BY DEF TypeOK, Polled
<1>2. l \in Pcs
  BY <1>1 DEF Pcs
<1>3. Answered(w, l)
  BY DEF Polled
<1> HIDE DEF l
<1> QED
  BY <1>1, <1>2, <1>3, AnsweredFacts

LEMMA EndFacts ==
    ASSUME TypeOK, NEW w \in Scans, End(w)
    PROVE  Only(w) /\ scan'[w] = Idle
<1>1. scan \in [Scans -> ScanRecord]
  BY DEF TypeOK, ScanRecord, Pcs
<1> QED
  BY <1>1, BegunRecord DEF Only, End

LEMMA ExpireFacts ==
    ASSUME TypeOK, NEW w \in Scans, Expire(w)
    PROVE  /\ Only(w) /\ scan'[w].expired
           /\ scan'[w].pc = scan[w].pc /\ scan'[w].startNew = scan[w].startNew
           /\ scan'[w].cached = scan[w].cached /\ scan'[w].fromCache = scan[w].fromCache
<1> DEFINE r == [scan[w] EXCEPT !.expired = TRUE]
<1>1. scan \in [Scans -> ScanRecord]
  BY DEF TypeOK, ScanRecord, Pcs
<1>2. scan[w] \in ScanRecord
  BY <1>1
<1>3. r \in ScanRecord /\ r.expired /\ r.pc = scan[w].pc /\ r.startNew = scan[w].startNew
      /\ r.cached = scan[w].cached /\ r.fromCache = scan[w].fromCache
  BY <1>2 DEF ScanRecord
<1>4. scan' = [scan EXCEPT ![w] = r]
  BY <1>1 DEF Expire
<1> QED
  BY <1>1, <1>3, <1>4 DEF Only

\* One unit of time less to wait, for every scan.
LEMMA TickFacts ==
    ASSUME TypeOK, Tick
    PROVE  /\ scan' \in [Scans -> ScanRecord]
           /\ \A w \in Scans :
                 /\ scan'[w].pc = scan[w].pc /\ scan'[w].startNew = scan[w].startNew
                 /\ scan'[w].fromCache = scan[w].fromCache
                 /\ scan'[w].cached = scan[w].cached /\ scan'[w].expired = scan[w].expired
                 /\ scan'[w].timer = IF scan[w].timer > 0 THEN scan[w].timer - 1 ELSE 0
<1>1. scan \in [Scans -> ScanRecord]
  BY DEF TypeOK, ScanRecord, Pcs
<1> DEFINE t(w) == IF scan[w].timer > 0 THEN scan[w].timer - 1 ELSE 0
           r(w) == [scan[w] EXCEPT !.timer = t(w)]
<1>2. ASSUME NEW w \in Scans
      PROVE  /\ r(w) \in ScanRecord /\ r(w).timer = t(w)
             /\ r(w).pc = scan[w].pc /\ r(w).startNew = scan[w].startNew
             /\ r(w).fromCache = scan[w].fromCache
             /\ r(w).cached = scan[w].cached /\ r(w).expired = scan[w].expired
  <2>1. scan[w] \in ScanRecord /\ t(w) \in 0 .. CoolOff
    BY <1>1, AssessAssumption DEF ScanRecord
  <2> QED
    BY <2>1 DEF ScanRecord
<1>3. scan' = [w \in Scans |-> r(w)]
  BY DEF Tick
<1> QED
  BY <1>2, <1>3

\* A scan that may start an assessment has no other start within the cool-off, so
\* the one added is its only one.
LEMMA StartedFacts ==
    ASSUME TypeOK, Paced, NEW w \in Scans, Started(w)
    PROVE  /\ At(w, "analyze") /\ scan[w].startNew /\ ~scan[w].expired
           /\ NewAssessment(w) /\ StartsOf(w) = {}
           /\ \/ recent' = recent
              \/ \E e \in StartRecord : e.scan = w /\ recent' = recent \cup {e}
<1>1. At(w, "analyze") /\ scan[w].startNew /\ ~scan[w].expired /\ NewAssessment(w) /\ OneMore(w)
  BY DEF Started, NewAssessment
<1>2. StartsOf(w) = {}
  BY <1>1 DEF Paced, Waited, At
<1>3. Cardinality(StartsOf(w)) = 0
  BY <1>2, FS_EmptySet
<1> DEFINE e == [scan |-> w, before |-> Cardinality(StartsOf(w)), age |-> 0]
<1>4. recent' = IF CoolOff > 0 THEN recent \cup {e} ELSE recent
  BY <1>1 DEF OneMore
<1>5. CASE CoolOff > 0
  <2>1. 0 \in Window
    BY <1>5, AssessAssumption DEF Window
  <2>2. e \in StartRecord /\ e.scan = w
    BY <1>3, <2>1 DEF StartRecord
  <2> HIDE DEF e
  <2> QED BY <1>1, <1>2, <1>4, <1>5, <2>2
<1> QED
  BY <1>1, <1>2, <1>4, <1>5

\* One unit of time more since each start, until it is a cool-off ago.
LEMMA AgedFacts ==
    ASSUME TypeOK, Tick
    PROVE  /\ recent' \subseteq StartRecord
           /\ \A f \in recent' : \E e \in recent :
                 /\ f = [e EXCEPT !.age = @ + 1]
                 /\ f.scan = e.scan /\ f.age = e.age + 1
<1>1. recent \subseteq StartRecord
  BY DEF TypeOK, StartRecord
<1>2. ASSUME NEW f \in recent'
      PROVE  \E e \in recent : e.age + 1 \in Window /\ f = [e EXCEPT !.age = @ + 1]
  BY <1>2 DEF Tick
<1>3. ASSUME NEW e \in recent, e.age + 1 \in Window
      PROVE  /\ [e EXCEPT !.age = @ + 1] \in StartRecord
             /\ [e EXCEPT !.age = @ + 1].scan = e.scan
             /\ [e EXCEPT !.age = @ + 1].age = e.age + 1
  BY <1>1, <1>3 DEF StartRecord
<1> QED
  BY <1>2, <1>3

-----------------------------------------------------------------------------
(* The invariant.                                                          *)

\* The types.
LEMMA TypeStep == TypeOK /\ Paced /\ Next => TypeOK'
<1> SUFFICES ASSUME TypeOK, Paced, Next PROVE TypeOK'
  OBVIOUS
<1> DEFINE Tables == remote' \in [Scans -> RemoteRecord] /\ recent' \subseteq StartRecord
<1>1. remote \in [Scans -> RemoteRecord] /\ recent \subseteq StartRecord /\ CoolOff \in Nat
  BY AssessAssumption DEF TypeOK, RemoteRecord, StartRecord
<1>2. ASSUME scan' \in [Scans -> ScanRecord], Tables PROVE TypeOK'
  BY <1>2 DEF TypeOK, ScanRecord, Pcs, RemoteRecord, StartRecord, Window
<1>3. ASSUME NEW w \in Scans, Only(w), UNCHANGED <<remote, recent>> PROVE TypeOK'
  BY <1>1, <1>2, <1>3 DEF Only
<1>4. ASSUME NEW w \in Scans, NEW cached \in BOOLEAN, Begin(w, cached) PROVE TypeOK'
  <2>1. Tables
    BY <1>1, <1>4 DEF Begin, RemoteRecord
  <2> QED
    BY <1>2, <1>4, <2>1, BeginFacts DEF Only
<1>5. ASSUME NEW w \in Scans, ScanStep(w) PROVE TypeOK'
  <2>1. CASE InfoBusy(w) \/ CoolOffOver(w) \/ Wake(w) \/ NoAnswer(w) \/ Limited(w) \/ ServerError(w)
    BY <1>3, <2>1, MoveFacts DEF Moves
  <2>2. CASE InfoFree(w)
    BY <1>3, <2>2, InfoFreeFacts DEF InfoFree
  <2>3. CASE Started(w)
    <3>1. NewAssessment(w) /\ recent' \subseteq StartRecord
      BY <1>1, <2>3, StartedFacts
    <3> QED
      BY <1>2, <3>1, NewAssessmentFacts DEF Only
  <2>4. CASE StartedFromCache(w)
    <3>1. NewAssessment(w) /\ recent' = recent
      BY <2>4 DEF StartedFromCache
    <3> QED
      BY <1>1, <1>2, <3>1, NewAssessmentFacts DEF Only
  <2>5. CASE Polled(w)
    BY <1>3, <2>5, PolledFacts DEF Polled
  <2>6. CASE End(w)
    BY <1>3, <2>6, EndFacts DEF End
  <2> QED
    BY <1>5, <2>1, <2>2, <2>3, <2>4, <2>5, <2>6 DEF ScanStep
<1>6. ASSUME NEW w \in Scans, Expire(w) PROVE TypeOK'
  BY <1>3, <1>6, ExpireFacts DEF Expire
<1>7. ASSUME NEW w \in Scans, NEW outcome \in {"ready", "error"}, Finish(w, outcome) PROVE TypeOK'
  <2>1. Tables
    BY <1>1, <1>7 DEF Finish, RemoteRecord
  <2>2. scan' \in [Scans -> ScanRecord]
    BY <1>7 DEF Finish, TypeOK, ScanRecord, Pcs
  <2> QED
    BY <1>2, <2>1, <2>2
<1>8. CASE Tick
  <2>1. remote' = remote
    BY <1>8 DEF Tick
  <2>2. Tables
    BY <1>1, <1>8, <2>1, AgedFacts
  <2> QED
    BY <1>2, <1>8, <2>2, TickFacts
<1> QED
  BY <1>4, <1>5, <1>6, <1>7, <1>8 DEF Next

\* The assessment a scan is to have.
LEMMA ProgressStep ==
    ASSUME TypeOK, \A w \in Scans : Progress(w), Next
    PROVE  \A w \in Scans : Progress(w)'
<1> SUFFICES ASSUME NEW v \in Scans PROVE Progress(v)'
  OBVIOUS
<1>1. Progress(v) /\ remote \in [Scans -> RemoteRecord]
  BY DEF TypeOK, RemoteRecord
<1>2. ASSUME NEW w \in Scans, Only(w), v # w, remote'[v] = remote[v] PROVE Progress(v)'
  <2>1. scan'[v] = scan[v]
    BY <1>2 DEF Only
  <2> QED BY <1>1, <1>2, <2>1 DEF Progress, First
<1>3. ASSUME NEW cached \in BOOLEAN, NEW w \in Scans, Begin(w, cached) PROVE Progress(v)'
  <2>1. Only(w) /\ scan'[w] = Begun(cached)
    BY <1>3, BeginFacts
  <2>2. CASE v # w
    BY <1>1, <1>2, <1>3, <2>1, <2>2 DEF Begin, RemoteRecord
  <2>3. CASE v = w
    <3>1. remote'[v].starts = 0
      BY <1>1, <1>3, <2>3 DEF Begin, RemoteRecord
    <3>2. scan'[v].pc = (IF cached THEN "analyze" ELSE "info") /\ scan'[v].cached = cached
          /\ (scan'[v].startNew <=> ~cached) /\ (scan'[v].fromCache <=> cached)
      BY <2>1, <2>3, BegunRecord
    <3>3. CASE cached
      BY <3>1, <3>2, <3>3 DEF Progress, First
    <3>4. CASE ~cached
      BY <3>1, <3>2, <3>4 DEF Progress, First
    <3> QED BY <3>3, <3>4
  <2> QED BY <2>2, <2>3
<1>4. ASSUME NEW w \in Scans, ScanStep(w) PROVE Progress(v)'
  <2>1. CASE InfoBusy(w) \/ CoolOffOver(w) \/ Wake(w) \/ NoAnswer(w) \/ Limited(w) \/ ServerError(w)
    <3>1. Moves(w)
      BY <2>1, MoveFacts
    <3>2. CASE v # w
      BY <1>2, <3>1, <3>2 DEF Moves
    <3>3. CASE v = w
      BY <1>1, <3>1, <3>3 DEF Moves, Same, At, Progress, First, Pcs
    <3> QED BY <3>2, <3>3
  <2>2. CASE InfoFree(w)
    <3>1. remote' = remote /\ At(w, "info")
      BY <2>2 DEF InfoFree
    <3>2. CASE v # w
      BY <1>2, <2>2, <3>1, <3>2, InfoFreeFacts
    <3>3. CASE v = w
      BY <1>1, <2>2, <3>1, <3>3, InfoFreeFacts DEF Progress, First, At
    <3> QED BY <3>2, <3>3
  <2>3. CASE Started(w) \/ StartedFromCache(w)
    <3>1. /\ NewAssessment(w) /\ At(w, "analyze")
          /\ scan[w].startNew \/ scan[w].fromCache
      BY <2>3 DEF Started, StartedFromCache, NewAssessment
    <3>2. CASE v # w
      BY <1>2, <3>1, <3>2, NewAssessmentFacts
    <3>3. CASE v = w
      <4>1. remote[v].starts = 0
        BY <1>1, <3>1, <3>3 DEF Progress, First, At
      <4>2. remote'[v].starts = 1 /\ remote'[v].state = "running"
        BY <3>1, <3>3, <4>1, NewAssessmentFacts
      <4>3. /\ \/ scan'[v].pc = "poll" /\ ~scan'[v].startNew /\ ~scan'[v].fromCache
               \/ scan'[v].pc = "error" /\ scan'[v].fromCache = scan[v].fromCache
            /\ scan'[v].cached = scan[v].cached
        BY <3>1, <3>3, NewAssessmentFacts
      <4> QED
        BY <1>1, <4>2, <4>3 DEF Progress, First
    <3> QED BY <3>2, <3>3
  <2>4. CASE Polled(w)
    <3>1. remote' = remote /\ At(w, "analyze") /\ ~scan[w].startNew /\ remote[w].state # "none"
      BY <2>4 DEF Polled
    <3>2. CASE v # w
      BY <1>2, <2>4, <3>1, <3>2, PolledFacts
    <3>3. CASE v = w
      <4>1. scan[v].cached \/ remote[v].starts = 1
        BY <1>1, <3>1, <3>3 DEF Progress, First, At
      <4> QED
        BY <1>1, <2>4, <3>1, <3>3, <4>1, PolledFacts DEF Progress, First
    <3> QED BY <3>2, <3>3
  <2>5. CASE End(w)
    <3>1. remote' = remote
      BY <2>5 DEF End
    <3>2. CASE v # w
      BY <1>2, <2>5, <3>1, <3>2, EndFacts
    <3>3. CASE v = w
      BY <1>1, <2>5, <3>1, <3>3, EndFacts, BegunRecord DEF Progress, First
    <3> QED BY <3>2, <3>3
  <2> QED
    BY <1>4, <2>1, <2>2, <2>3, <2>4, <2>5 DEF ScanStep
<1>5. ASSUME NEW w \in Scans, Expire(w) PROVE Progress(v)'
  <2>1. remote' = remote
    BY <1>5 DEF Expire
  <2>2. CASE v # w
    BY <1>2, <1>5, <2>1, <2>2, ExpireFacts
  <2>3. CASE v = w
    BY <1>1, <1>5, <2>1, <2>3, ExpireFacts DEF Progress, First
  <2> QED BY <2>2, <2>3
<1>6. ASSUME NEW w \in Scans, NEW outcome \in {"ready", "error"}, Finish(w, outcome) PROVE Progress(v)'
  <2>1. scan' = scan
    BY <1>6 DEF Finish
  <2>2. remote'[v].starts = remote[v].starts /\ (remote[v].state # "none" => remote'[v].state # "none")
    BY <1>1, <1>6 DEF Finish, RemoteRecord
  <2> QED BY <1>1, <2>1, <2>2 DEF Progress, First
<1>7. CASE Tick
  <2>1. remote' = remote
    BY <1>7 DEF Tick
  <2> QED BY <1>1, <1>7, <2>1, TickFacts DEF Progress, First
<1> QED
  BY <1>3, <1>4, <1>5, <1>6, <1>7 DEF Next

\* One start of a scan within a cool-off.
LEMMA PacedStep == TypeOK /\ (\A w \in Scans : Progress(w)) /\ Paced /\ Next => Paced'
<1> SUFFICES ASSUME TypeOK, \A w \in Scans : Progress(w), Paced, Next PROVE Paced'
  OBVIOUS
<1>1. /\ recent \subseteq StartRecord /\ CoolOff \in Nat
      /\ \A e \in recent : e.age \in 0 .. CoolOff - 1
      /\ \A w \in Scans : scan[w].timer \in 0 .. CoolOff
  BY AssessAssumption DEF TypeOK, StartRecord, Window
<1>2. ASSUME NEW w \in Scans, Only(w), recent' = recent, Waited(w)' PROVE Paced'
  <2>1. ASSUME NEW v \in Scans, v # w PROVE Waited(v)'
    <3>1. scan'[v] = scan[v] /\ StartsOf(v)' = StartsOf(v) /\ Waited(v)
      BY <1>2, <2>1 DEF Only, Paced, StartsOf
    <3> QED BY <3>1 DEF Waited
  <2> QED BY <1>2, <2>1 DEF Paced
<1>3. ASSUME NEW w \in Scans, NEW cached \in BOOLEAN, Begin(w, cached) PROVE Paced'
  <2>1. Only(w) /\ scan'[w] = Begun(cached) /\ recent' = recent
    BY <1>3, BeginFacts DEF Begin
  <2>2. scan'[w].pc \in {"analyze", "info"} /\ (scan'[w].pc = "analyze" => ~scan'[w].startNew)
    BY <2>1, BegunRecord
  <2>3. Waited(w)'
    BY <2>2 DEF Waited
  <2> QED BY <1>2, <2>1, <2>3
<1>4. ASSUME NEW w \in Scans, ScanStep(w) PROVE Paced'
  <2>0. Waited(w)
    BY DEF Paced
  <2>1. CASE InfoBusy(w) \/ CoolOffOver(w) \/ Wake(w) \/ NoAnswer(w) \/ Limited(w) \/ ServerError(w)
    <3>1. Moves(w)
      BY <2>1, MoveFacts
    <3>2. Only(w) /\ recent' = recent /\ StartsOf(w)' = StartsOf(w)
      BY <3>1 DEF Moves, StartsOf
    <3>3. Waited(w)'
      <4>1. ASSUME At(w, "coolOff"), scan[w].timer = 0, ~scan[w].expired PROVE StartsOf(w) = {}
        <5>1. ASSUME NEW e \in StartsOf(w) PROVE FALSE
          <6>1. e \in recent /\ e.age + scan[w].timer >= CoolOff
            BY <2>0, <4>1, <5>1 DEF Waited, At, StartsOf
          <6>2. e.age \in 0 .. CoolOff - 1
            BY <1>1, <6>1
          <6> QED BY <1>1, <4>1, <6>1, <6>2
        <5> QED BY <5>1
      <4>2. scan'[w].pc # "coolOff"
        BY <3>1 DEF Moves
      <4>3. ASSUME scan'[w].startNew, scan'[w].pc \in {"analyze", "backoff"}, ~scan'[w].expired
            PROVE  StartsOf(w) = {}
        BY <2>0, <3>1, <4>1, <4>3 DEF Moves, Same, Waited, At, Progress, First
      <4> QED BY <3>2, <4>2, <4>3 DEF Waited
    <3> QED BY <1>2, <3>2, <3>3
  <2>2. CASE InfoFree(w)
    <3>1. /\ Only(w) /\ recent' = recent
          /\ scan'[w].pc = "coolOff" /\ scan'[w].timer = CoolOff
      BY <2>2, InfoFreeFacts DEF InfoFree
    <3>2. ASSUME NEW e \in StartsOf(w)' PROVE e.age + CoolOff >= CoolOff
      <4>1. e \in recent
        BY <3>1, <3>2 DEF StartsOf
      <4>2. e.age \in 0 .. CoolOff - 1
        BY <1>1, <4>1
      <4> QED BY <1>1, <4>2
    <3>3. Waited(w)'
      BY <3>1, <3>2 DEF Waited
    <3> QED BY <1>2, <3>1, <3>3
  <2>3. CASE Started(w)
    <3>1. /\ NewAssessment(w) /\ StartsOf(w) = {}
          /\ \/ recent' = recent
             \/ \E e \in StartRecord : e.scan = w /\ recent' = recent \cup {e}
      BY <2>3, StartedFacts
    <3>2. Only(w) /\ scan'[w].pc \in {"poll", "error"}
      BY <3>1, NewAssessmentFacts
    <3>3. Waited(w)'
      BY <3>2 DEF Waited
    <3>4. ASSUME NEW e \in StartRecord, e.scan = w, recent' = recent \cup {e} PROVE Paced'
      <4>1. ASSUME NEW v \in Scans, v # w PROVE Waited(v)'
        <5>1. scan'[v] = scan[v] /\ StartsOf(v)' = StartsOf(v) /\ Waited(v)
          BY <3>2, <3>4, <4>1 DEF Only, Paced, StartsOf
        <5> QED BY <5>1 DEF Waited
      <4>2. \A f, g \in recent' : f.scan = g.scan => f = g
        BY <3>1, <3>4 DEF Paced, StartsOf
      <4> QED BY <3>3, <4>1, <4>2 DEF Paced
    <3> QED BY <1>2, <3>1, <3>2, <3>3, <3>4
  <2>4. CASE StartedFromCache(w)
    <3>1. Only(w) /\ recent' = recent /\ scan'[w].pc \in {"poll", "error"}
      BY <2>4, NewAssessmentFacts DEF StartedFromCache
    <3>2. Waited(w)'
      BY <3>1 DEF Waited
    <3> QED BY <1>2, <3>1, <3>2
  <2>5. CASE Polled(w)
    <3>1. Only(w) /\ recent' = recent /\ scan'[w].pc \in {"poll", "ready", "error"}
      BY <2>5, PolledFacts DEF Polled
    <3>2. Waited(w)'
      BY <3>1 DEF Waited
    <3> QED BY <1>2, <3>1, <3>2
  <2>6. CASE End(w)
    <3>1. Only(w) /\ scan'[w].pc = "idle" /\ recent' = recent
      BY <2>6, EndFacts, BegunRecord DEF End
    <3>2. Waited(w)'
      BY <3>1 DEF Waited
    <3> QED BY <1>2, <3>1, <3>2
  <2> QED
    BY <1>4, <2>1, <2>2, <2>3, <2>4, <2>5, <2>6 DEF ScanStep
<1>5. ASSUME NEW w \in Scans, Expire(w) PROVE Paced'
  <2>1. Only(w) /\ recent' = recent /\ scan'[w].expired
    BY <1>5, ExpireFacts DEF Expire
  <2>2. Waited(w)'
    BY <2>1 DEF Waited
  <2> QED BY <1>2, <2>1, <2>2
<1>6. ASSUME NEW w \in Scans, NEW outcome \in {"ready", "error"}, Finish(w, outcome) PROVE Paced'
  BY <1>6 DEF Finish, Paced, Waited, StartsOf
<1>7. CASE Tick
  <2>1. ASSUME NEW v \in Scans PROVE Waited(v)'
    <3>1. /\ scan'[v].pc = scan[v].pc /\ scan'[v].startNew = scan[v].startNew
          /\ scan'[v].expired = scan[v].expired
          /\ scan'[v].timer = IF scan[v].timer > 0 THEN scan[v].timer - 1 ELSE 0
      BY <1>7, TickFacts
    <3>2. Waited(v)
      BY DEF Paced
    <3>3. ASSUME NEW f \in StartsOf(v)' PROVE \E e \in StartsOf(v) : f.age = e.age + 1
      <4>1. f \in recent' /\ f.scan = v
        BY <3>3 DEF StartsOf
      <4> QED BY <1>7, <4>1, AgedFacts DEF StartsOf
    <3>4. StartsOf(v) = {} => StartsOf(v)' = {}
      BY <3>3
    <3>5. ASSUME scan[v].pc = "coolOff", ~scan[v].expired, NEW f \in StartsOf(v)'
          PROVE  f.age + scan'[v].timer >= CoolOff
      <4>1. PICK e \in StartsOf(v) : f.age = e.age + 1
        BY <3>3, <3>5
      <4>2. e \in recent /\ e.age + scan[v].timer >= CoolOff
        BY <3>2, <3>5 DEF Waited, StartsOf
      <4>3. e.age \in 0 .. CoolOff - 1 /\ scan[v].timer \in 0 .. CoolOff
        BY <1>1, <4>2
      <4> QED BY <1>1, <3>1, <4>1, <4>2, <4>3
    <3> QED BY <3>1, <3>2, <3>4, <3>5 DEF Waited
  <2>2. ASSUME NEW f \in recent', NEW g \in recent', f.scan = g.scan PROVE f = g
    <3>1. PICK d \in recent : f = [d EXCEPT !.age = @ + 1] /\ f.scan = d.scan
      BY <1>7, AgedFacts
    <3>2. PICK e \in recent : g = [e EXCEPT !.age = @ + 1] /\ g.scan = e.scan
      BY <1>7, AgedFacts
    <3>3. d = e
      BY <2>2, <3>1, <3>2 DEF Paced
    <3> QED BY <3>1, <3>2, <3>3
  <2> QED BY <2>1, <2>2 DEF Paced
<1> QED
  BY <1>3, <1>4, <1>5, <1>6, <1>7 DEF Next

\* Scans in progress, and scans counted at any time to come.
LEMMA Subsets ==
    ASSUME IsFiniteSet(Scans), NEW A \in SUBSET Scans, NEW B \in SUBSET Scans, A \subseteq B
    PROVE  Cardinality(A) \in Nat /\ Cardinality(B) \in Nat /\ Cardinality(A) <= Cardinality(B)
BY FS_Subset, FS_CardinalityType

\* After a step it is enough that whoever is counted was counted before, a unit
\* of time earlier or later; in the end only scans in progress are.
LEMMA BoundedAgain ==
    ASSUME TypeOK', Bounded, Cardinality(InProgress') <= Slots,
           \A t \in 0 .. CoolOff : t < CoolOff => \E u \in 0 .. CoolOff : Counted(t)' \subseteq Counted(u)
    PROVE  Bounded'
<1>1. IsFiniteSet(Scans) /\ CoolOff \in Nat /\ Slots \in Nat
  BY AssessAssumption
<1>2. ASSUME NEW t \in 0 .. CoolOff PROVE Cardinality(Counted(t)') <= Slots
  <2>1. CASE t < CoolOff
    <3>1. PICK u \in 0 .. CoolOff : Counted(t)' \subseteq Counted(u)
      BY <2>1
    <3>2. Counted(t)' \in SUBSET Scans /\ Counted(u) \in SUBSET Scans
      BY DEF Counted
    <3>3. /\ Cardinality(Counted(t)') \in Nat /\ Cardinality(Counted(u)) \in Nat
          /\ Cardinality(Counted(t)') <= Cardinality(Counted(u))
      BY <1>1, <3>1, <3>2, Subsets
    <3>4. Cardinality(Counted(u)) <= Slots
      BY DEF Bounded
    <3> QED BY <1>1, <3>3, <3>4
  <2>2. CASE t = CoolOff
    <3>1. Counted(t)' \subseteq InProgress'
      <4>1. ASSUME NEW v \in Counted(t)', NEW e \in StartsOf(v)' PROVE ~(e.age + t < CoolOff)
        <5>1. e \in recent'
          BY <4>1 DEF StartsOf
        <5>2. e.age \in 0 .. CoolOff - 1
          BY <5>1 DEF TypeOK, Window
        <5> QED BY <1>1, <2>2, <5>2
      <4> QED BY <4>1 DEF Counted, InProgress
    <3>2. Counted(t)' \in SUBSET Scans /\ InProgress' \in SUBSET Scans
      BY DEF Counted, InProgress
    <3>3. /\ Cardinality(Counted(t)') \in Nat /\ Cardinality(InProgress') \in Nat
          /\ Cardinality(Counted(t)') <= Cardinality(InProgress')
      BY <1>1, <3>1, <3>2, Subsets
    <3> QED BY <1>1, <3>3
  <2> QED BY <1>1, <2>1, <2>2
<1> QED
  BY <1>2 DEF Bounded

\* A step of one scan, which takes no slot and gets no nearer to a start.
LEMMA BoundedMove ==
    ASSUME TypeOK, TypeOK', Bounded, NEW w \in Scans, Only(w),
           \A v \in Scans \ {w} : StartsOf(v)' = StartsOf(v),
           w \in InProgress' => w \in InProgress,
           \A t \in 0 .. CoolOff : t < CoolOff /\ w \in Counted(t)' => w \in Counted(t)
    PROVE  Bounded'
<1>1. InProgress' \subseteq InProgress
  BY DEF InProgress, Only
<1>2. Cardinality(InProgress') <= Slots
  <2>1. InProgress \in SUBSET Scans /\ InProgress' \in SUBSET Scans /\ IsFiniteSet(Scans) /\ Slots \in Nat
    BY AssessAssumption DEF InProgress
  <2>2. Cardinality(InProgress') \in Nat /\ Cardinality(InProgress) \in Nat
        /\ Cardinality(InProgress') <= Cardinality(InProgress)
    BY <1>1, <2>1, Subsets
  <2>3. Cardinality(InProgress) <= Slots
    BY DEF Bounded
  <2> QED BY <2>1, <2>2, <2>3
<1>3. ASSUME NEW t \in 0 .. CoolOff, t < CoolOff PROVE Counted(t)' \subseteq Counted(t)
  <2>1. ASSUME NEW v \in Counted(t)', v # w PROVE v \in Counted(t)
    BY <2>1 DEF Counted, Only
  <2> QED BY <1>3, <2>1
<1> QED
  BY <1>2, <1>3, BoundedAgain

\* The bound.
LEMMA BoundedStep == IInv /\ TypeOK' /\ Next => Bounded'
<1> SUFFICES ASSUME IInv, TypeOK', Next PROVE Bounded'
  OBVIOUS
<1>1. TypeOK /\ Bounded /\ Paced /\ \A w \in Scans : Progress(w)
  BY DEF IInv
<1>2. IsFiniteSet(Scans) /\ CoolOff \in Nat /\ Slots \in Nat
  BY AssessAssumption
<1>0. recent' = recent => \A v \in Scans : StartsOf(v)' = StartsOf(v)
  BY DEF StartsOf
<1>3. ASSUME NEW w \in Scans, NEW cached \in BOOLEAN, Begin(w, cached) PROVE Bounded'
  <2>1. Only(w) /\ scan'[w] = Begun(cached) /\ Cardinality(InProgress) < Slots
        /\ \A v \in Scans : StartsOf(v)' = StartsOf(v)
    BY <1>0, <1>1, <1>3, BeginFacts DEF Begin
  <2>2. InProgress' \subseteq InProgress \cup {w}
    BY <2>1 DEF InProgress, Only
  <2>3. InProgress \in SUBSET Scans /\ InProgress' \in SUBSET Scans /\ InProgress \cup {w} \in SUBSET Scans
    BY DEF InProgress
  <2>4. /\ Cardinality(InProgress') \in Nat /\ Cardinality(InProgress) \in Nat
        /\ Cardinality(InProgress \cup {w}) \in Nat
        /\ Cardinality(InProgress') <= Cardinality(InProgress \cup {w})
    BY <1>2, <2>2, <2>3, Subsets
  <2>5. IsFiniteSet(InProgress)
    BY <1>2, <2>3, FS_Subset
  <2>6. Cardinality(InProgress \cup {w}) = Cardinality(InProgress)
        \/ Cardinality(InProgress \cup {w}) = Cardinality(InProgress) + 1
    BY <2>5, FS_AddElement
  <2>7. Cardinality(InProgress') <= Slots
    BY <1>2, <2>1, <2>4, <2>6
  <2>8. scan'[w].pc \in {"analyze", "info"} /\ (scan'[w].pc = "analyze" => ~scan'[w].startNew)
    BY <2>1, BegunRecord
  <2>9. ASSUME NEW t \in 0 .. CoolOff, t < CoolOff PROVE Counted(t)' \subseteq Counted(t)
    <3>1. ASSUME NEW v \in Counted(t)' PROVE v \in Counted(t)
      <4>1. CASE v # w
        BY <2>1, <3>1, <4>1 DEF Counted, Only
      <4>2. CASE v = w
        BY <2>1, <2>8, <3>1, <4>2 DEF Counted
      <4> QED BY <4>1, <4>2
    <3> QED BY <3>1
  <2> QED
    BY <1>1, <2>7, <2>9, BoundedAgain
<1>4. ASSUME NEW w \in Scans, ScanStep(w) PROVE Bounded'
  <2>1. CASE InfoBusy(w) \/ CoolOffOver(w) \/ Wake(w) \/ NoAnswer(w) \/ Limited(w) \/ ServerError(w)
    <3>1. Moves(w)
      BY <1>1, <2>1, MoveFacts
    <3>2. Only(w) /\ (w \in InProgress' => w \in InProgress)
      BY <3>1 DEF Moves, At, InProgress
    <3>4. \A v \in Scans : StartsOf(v)' = StartsOf(v)
      BY <1>0, <3>1 DEF Moves
    <3>3. ASSUME NEW t \in 0 .. CoolOff, w \in Counted(t)' PROVE w \in Counted(t)
      <4>1. Progress(w) /\ scan[w].timer \in 0 .. CoolOff
        BY <1>1 DEF TypeOK
      <4> QED BY <1>2, <3>1, <3>3, <3>4, <4>1 DEF Counted, Moves, Same, At, Progress, First
    <3> QED
      BY <1>1, <3>2, <3>3, <3>4, BoundedMove
  <2>2. CASE InfoFree(w)
    <3>1. /\ Only(w) /\ At(w, "info") /\ \A v \in Scans : StartsOf(v)' = StartsOf(v)
          /\ scan'[w].pc = "coolOff" /\ scan'[w].timer = CoolOff
      BY <1>0, <1>1, <2>2, InfoFreeFacts DEF InfoFree
    <3>2. w \in InProgress
      BY <3>1 DEF InProgress, At
    <3>3. ASSUME NEW t \in 0 .. CoolOff, t < CoolOff, w \in Counted(t)' PROVE w \in Counted(t)
      BY <1>2, <3>1, <3>3 DEF Counted
    <3> QED
      BY <1>1, <3>1, <3>2, <3>3, BoundedMove
  <2>3. CASE Started(w)
    <3>1. /\ At(w, "analyze") /\ scan[w].startNew /\ ~scan[w].expired /\ NewAssessment(w)
          /\ \/ recent' = recent
             \/ \E e \in StartRecord : e.scan = w /\ recent' = recent \cup {e}
      BY <1>1, <2>3, StartedFacts
    <3>2. w \in InProgress /\ \A t \in 0 .. CoolOff : w \in Counted(t)
      BY <3>1 DEF InProgress, Counted, At
    <3>3. \A v \in Scans \ {w} : StartsOf(v)' = StartsOf(v)
      BY <3>1 DEF StartsOf
    <3>4. Only(w)
      BY <1>1, <3>1, NewAssessmentFacts
    <3> QED
      BY <1>1, <3>2, <3>3, <3>4, BoundedMove
  <2>4. CASE StartedFromCache(w) \/ Polled(w)
    <3>1. At(w, "analyze") /\ \A v \in Scans : StartsOf(v)' = StartsOf(v)
      BY <1>0, <2>4 DEF Polled, StartedFromCache, NewAssessment
    <3>2. Only(w) /\ scan'[w].pc \in {"poll", "ready", "error"}
      BY <1>1, <2>4, PolledFacts, NewAssessmentFacts DEF StartedFromCache
    <3>3. w \in InProgress
      BY <3>1 DEF InProgress, At
    <3>4. ASSUME NEW t \in 0 .. CoolOff, w \in Counted(t)' PROVE w \in Counted(t)
      BY <3>1, <3>2, <3>4 DEF Counted
    <3> QED
      BY <1>1, <3>1, <3>2, <3>3, <3>4, BoundedMove
  <2>5. CASE End(w)
    <3>1. Only(w) /\ scan'[w].pc = "idle" /\ \A v \in Scans : StartsOf(v)' = StartsOf(v)
      BY <1>0, <1>1, <2>5, EndFacts, BegunRecord DEF End
    <3>2. w \notin InProgress'
      BY <3>1 DEF InProgress
    <3>3. ASSUME NEW t \in 0 .. CoolOff, w \in Counted(t)' PROVE w \in Counted(t)
      BY <3>1, <3>3 DEF Counted
    <3> QED
      BY <1>1, <3>1, <3>2, <3>3, BoundedMove
  <2> QED
    BY <1>4, <2>1, <2>2, <2>3, <2>4, <2>5 DEF ScanStep
<1>5. ASSUME NEW w \in Scans, Expire(w) PROVE Bounded'
  <2>1. /\ Only(w) /\ scan'[w].expired /\ w \in InProgress
        /\ scan'[w].pc = scan[w].pc /\ scan'[w].startNew = scan[w].startNew
        /\ \A v \in Scans : StartsOf(v)' = StartsOf(v)
    BY <1>0, <1>1, <1>5, ExpireFacts DEF Expire
  <2>2. ASSUME NEW t \in 0 .. CoolOff, w \in Counted(t)' PROVE w \in Counted(t)
    BY <2>1, <2>2 DEF Counted
  <2> QED
    BY <1>1, <2>1, <2>2, BoundedMove
<1>6. ASSUME NEW w \in Scans, NEW outcome \in {"ready", "error"}, Finish(w, outcome) PROVE Bounded'
  <2>1. scan' = scan /\ \A v \in Scans : StartsOf(v)' = StartsOf(v)
    BY <1>0, <1>6 DEF Finish
  <2>2. InProgress' = InProgress /\ \A t \in 0 .. CoolOff : Counted(t)' = Counted(t)
    BY <2>1 DEF InProgress, Counted
  <2> QED BY <1>1, <2>2 DEF Bounded
<1>7. CASE Tick
  <2>1. InProgress' = InProgress
    BY <1>1, <1>7, TickFacts DEF InProgress
  <2>2. ASSUME NEW t \in 0 .. CoolOff, t < CoolOff
        PROVE  t + 1 \in 0 .. CoolOff /\ Counted(t)' \subseteq Counted(t + 1)
    <3>1. ASSUME NEW v \in Counted(t)' PROVE v \in Counted(t + 1)
      <4>1. v \in Scans /\ scan[v].timer \in 0 .. CoolOff
        BY <1>1, <3>1 DEF TypeOK, Counted
      <4>3. /\ scan'[v].pc = scan[v].pc /\ scan'[v].startNew = scan[v].startNew
            /\ scan'[v].expired = scan[v].expired
            /\ scan'[v].timer = IF scan[v].timer > 0 THEN scan[v].timer - 1 ELSE 0
        BY <1>1, <1>7, <4>1, TickFacts
      <4>4. CASE \E f \in StartsOf(v)' : f.age + t < CoolOff
        <5>1. PICK f \in recent' : f.scan = v /\ f.age + t < CoolOff
          BY <4>4 DEF StartsOf
        <5>2. PICK e \in recent : f.scan = e.scan /\ f.age = e.age + 1
          BY <1>1, <1>7, AgedFacts
        <5>3. e.age \in 0 .. CoolOff - 1 /\ e \in StartsOf(v)
          BY <1>1, <5>1, <5>2 DEF TypeOK, Window, StartsOf
        <5>4. e.age + (t + 1) < CoolOff
          BY <1>2, <5>1, <5>2, <5>3
        <5> QED BY <4>1, <5>3, <5>4 DEF Counted
      <4>5. CASE scan'[v].pc = "coolOff" /\ scan'[v].timer <= t /\ ~scan'[v].expired
        <5>1. scan[v].timer <= t + 1
          BY <1>2, <4>1, <4>3, <4>5
        <5> QED BY <4>1, <4>3, <4>5, <5>1 DEF Counted
      <4> QED BY <3>1, <4>1, <4>3, <4>4, <4>5 DEF Counted
    <3> QED BY <1>2, <2>2, <3>1
  <2>3. Cardinality(InProgress') <= Slots
    BY <1>1, <2>1 DEF Bounded
  <2> QED
    BY <1>1, <2>2, <2>3, BoundedAgain
<1> QED
  BY <1>3, <1>4, <1>5, <1>6, <1>7 DEF Next

-----------------------------------------------------------------------------
(* The theorems.                                                           *)

LEMMA InitIInv == Init => IInv
<1> SUFFICES ASSUME Init PROVE IInv
  OBVIOUS
<1>1. IsFiniteSet(Scans) /\ CoolOff \in Nat /\ Slots \in Nat
  BY AssessAssumption
<1>2. recent = {} /\ \A w \in Scans : scan[w].pc = "idle" /\ ~scan[w].startNew /\ ~scan[w].fromCache
  BY DEF Init, Idle
<1>3. TypeOK
  <2>1. scan \in [Scans -> ScanRecord]
    BY BegunRecord DEF Init
  <2>2. remote \in [Scans -> RemoteRecord] /\ recent = {}
    BY <1>1 DEF Init, RemoteRecord
  <2> QED BY <2>1, <2>2 DEF TypeOK, ScanRecord, RemoteRecord, Pcs
<1>4. \A w \in Scans : Progress(w)
  <2>1. \A w \in Scans : remote[w].starts = 0
    BY DEF Init
  <2> QED BY <1>2, <2>1 DEF Progress, First
<1>5. InProgress = {}
  BY <1>2 DEF InProgress
<1>6. ASSUME NEW t \in 0 .. CoolOff PROVE Counted(t) = {}
  BY <1>1, <1>2 DEF Counted, StartsOf
<1>8. Paced
  BY <1>2 DEF Paced, Waited, StartsOf
<1>7. Bounded
  BY <1>1, <1>5, <1>6, FS_EmptySet DEF Bounded
<1> QED
  BY <1>3, <1>4, <1>7, <1>8 DEF IInv

LEMMA NextIInv == IInv /\ [Next]_vars => IInv'
<1> SUFFICES ASSUME IInv, [Next]_vars PROVE IInv'
  OBVIOUS
<1>1. CASE Next
  BY <1>1, TypeStep, ProgressStep, PacedStep, BoundedStep DEF IInv
<1>2. CASE UNCHANGED vars
  <2>1. scan' = scan /\ remote' = remote /\ recent' = recent
    BY <1>2 DEF vars
  <2>2. /\ InProgress' = InProgress /\ (\A v \in Scans : StartsOf(v)' = StartsOf(v))
        /\ TypeOK' /\ \A v \in Scans : Progress(v)'
    BY <2>1 DEF IInv, InProgress, StartsOf, TypeOK, Progress, First
  <2>3. Paced'
    BY <2>1, <2>2 DEF IInv, Paced, Waited
  <2>4. \A t \in 0 .. CoolOff : Counted(t)' = Counted(t)
    BY <2>1, <2>2 DEF Counted
  <2> QED BY <2>2, <2>3, <2>4 DEF IInv, Bounded
<1> QED
  BY <1>1, <1>2

LEMMA Invariance == Spec => []IInv
BY InitIInv, NextIInv, PTL DEF Spec

\* Every variable keeps its type; no call is repeated more than
\* ServerErrorRetries times after a server error (analyzeWithBackoff).
THEOREM TypeCorrect == Spec => []TypeOK
<1>1. IInv => TypeOK
  BY DEF IInv
<1> QED
  BY <1>1, Invariance, PTL

\* A scan has at most one assessment started, whatever SSL Labs answers and
\* whichever answer is lost (analyzeWithBackoff repeats startNew or fromCache).
THEOREM AtMostOneStart == Spec => []StartedOnce
<1>1. IInv => StartedOnce
  BY DEF IInv, Progress, StartedOnce
<1> QED
  BY <1>1, Invariance, PTL

\* A scan that does not ask for the cached report takes its result from the one
\* assessment it had started (assess, the polls without startNew).
THEOREM ResultsAreFresh == Spec => []FreshResult
<1>1. IInv => FreshResult
  BY DEF IInv, Progress, First, FreshResult, At
<1> QED
  BY <1>1, Invariance, PTL

\* Within one cool-off the scans that ask for capacity start no more assessments
\* than there are slots, though each waits for itself only (awaitCapacity); a scan
\* that asks for the cached report asks for no capacity and is not counted.
THEOREM StartsAreBounded == Spec => []BurstBounded
<1>1. IInv => BurstBounded
  <2> SUFFICES ASSUME IInv PROVE BurstBounded
    OBVIOUS
  <2>1. 0 \in 0 .. CoolOff /\ IsFiniteSet(Scans) /\ Slots \in Nat /\ CoolOff \in Nat
    BY AssessAssumption
  <2>2. \A e \in recent : e.scan \in Scans /\ e.age \in 0 .. CoolOff - 1
    BY DEF IInv, TypeOK, Window
  <2> DEFINE of == [e \in recent |-> e.scan]
  <2>3. of \in [recent -> Counted(0)]
    <3>1. ASSUME NEW e \in recent PROVE e.scan \in Counted(0)
      <4>1. e \in StartsOf(e.scan) /\ e.age + 0 < CoolOff
        BY <2>1, <2>2 DEF StartsOf
      <4> QED BY <2>2, <4>1 DEF Counted
    <3> QED BY <3>1
  <2>4. \A e, f \in recent : of[e] = of[f] => e = f
    BY DEF IInv, Paced
  <2>5. of \in Injection(recent, Counted(0))
    BY <2>3, <2>4 DEF Injection, IsInjective
  <2>6. Counted(0) \in SUBSET Scans
    BY DEF Counted
  <2>7. IsFiniteSet(Counted(0)) /\ Cardinality(Counted(0)) \in Nat
    BY <2>1, <2>6, FS_Subset, FS_CardinalityType
  <2>8. IsFiniteSet(recent) /\ Cardinality(recent) <= Cardinality(Counted(0))
    <3> HIDE DEF of
    <3> QED BY <2>5, <2>7, FS_Injection
  <2>9. Cardinality(recent) \in Nat
    BY <2>8, FS_CardinalityType
  <2>10. Cardinality(Counted(0)) <= Slots
    BY <2>1 DEF IInv, Bounded
  <2> QED BY <2>1, <2>7, <2>8, <2>9, <2>10 DEF BurstBounded
<1> QED
  BY <1>1, Invariance, PTL
=============================================================================
