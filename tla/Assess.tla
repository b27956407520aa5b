------------------------------- MODULE Assess -------------------------------
(***************************************************************************)
(* How a scan obtains its result from SSL Labs: scanner.Service.assess     *)
(* with awaitCapacity and analyzeWithBackoff, for the scans that hold a    *)
(* slot.  Scanner has all of it as its one step Assess.                    *)
(*                                                                         *)
(* SSL Labs is the environment: it counts running assessments, wants       *)
(* CoolOff units of time between the starts of two, and may answer any     *)
(* request with any HTTP error.  Time passes in units, for the cool-off    *)
(* only; every other wait is over whenever it is over.                     *)
(***************************************************************************)
EXTENDS Integers, FiniteSets

CONSTANTS
    Scans,               \* scans, each of a host of its own
    Slots,               \* how many of them run at once (Options.MaxSlots)
    MaxAssessments,      \* SSL Labs: assessments it runs for us at once
    CoolOff,             \* SSL Labs: units of time between two starts
    ServerErrorRetries   \* Backoff.ServerErrorRetries

ASSUME AssessAssumption ==
    /\ IsFiniteSet(Scans) /\ Slots \in Nat \ {0}
    /\ MaxAssessments \in Nat /\ CoolOff \in Nat /\ ServerErrorRetries \in Nat

VARIABLES
    scan,    \* scan[w]: program counter and locals of assess
    remote,  \* remote[w]: the last assessment of the host of w
    recent   \* the assessments started less than CoolOff units ago by scans
             \* that had waited for it in awaitCapacity

vars == <<scan, remote, recent>>

Idle == [pc |-> "idle", cached |-> FALSE, startNew |-> FALSE, fromCache |-> FALSE,
         errors |-> 0, timer |-> 0, expired |-> FALSE]

Init ==
    /\ scan = [w \in Scans |-> Idle]
    /\ remote \in [Scans -> [state : {"none", "ready", "error"}, starts : {0}]]
    /\ recent = {}

\* Less than a cool-off ago.
Window == 0 .. CoolOff - 1

InProgress == {w \in Scans : scan[w].pc \notin {"idle", "ready", "error"}}
Assessing == {w \in Scans : remote[w].state = "running"}
HasCapacity == MaxAssessments = 0 \/ Cardinality(Assessing) < MaxAssessments

At(w, l) == scan[w].pc = l
Go(w, l) == scan' = [scan EXCEPT ![w].pc = l]

-----------------------------------------------------------------------------
(* The scan.                                                               *)

\* Broken variant: startNew is what from_cache says, not its opposite.
BeginSwapped(w, cached) ==
    /\ At(w, "idle") /\ Cardinality(InProgress) < Slots
    /\ scan' = [scan EXCEPT ![w] =
           [Idle EXCEPT !.pc = IF cached THEN "info" ELSE "analyze", !.cached = cached,
                        !.startNew = cached, !.fromCache = cached]]
    /\ remote' = [remote EXCEPT ![w].starts = 0]
    /\ UNCHANGED recent

\* Of a host with from_cache the scan asks for the last report, if it is not
\* older than max_age_hours, and skips awaitCapacity.
Begin(w, cached) ==
    /\ At(w, "idle") /\ Cardinality(InProgress) < Slots
    /\ scan' = [scan EXCEPT ![w] =
           [Idle EXCEPT !.pc = IF cached THEN "analyze" ELSE "info", !.cached = cached,
                        !.startNew = ~cached, !.fromCache = cached]]
    /\ remote' = [remote EXCEPT ![w].starts = 0]
    /\ UNCHANGED recent

\* GET /info: capacity, none, or no answer.
InfoFree(w) ==
    /\ At(w, "info") /\ ~scan[w].expired /\ HasCapacity
    /\ scan' = [scan EXCEPT ![w].pc = "coolOff", ![w].timer = CoolOff]
    /\ UNCHANGED <<remote, recent>>

InfoBusy(w) ==
    /\ At(w, "info")
    /\ Go(w, "nap")
    /\ UNCHANGED <<remote, recent>>

\* Broken variant: nobody waits.
CoolOffSkipped(w) ==
    /\ At(w, "coolOff")
    /\ Go(w, "analyze")
    /\ UNCHANGED <<remote, recent>>

\* The result of this sleep is not looked at.
CoolOffOver(w) ==
    /\ At(w, "coolOff") /\ (scan[w].timer = 0 \/ scan[w].expired)
    /\ Go(w, "analyze")
    /\ UNCHANGED <<remote, recent>>

\* Broken variant: the loop of awaitCapacity does not look at the deadline.
WakeAlways(w) ==
    /\ \/ At(w, "nap") /\ Go(w, "info")
       \/ At(w, "backoff") /\ Go(w, IF scan[w].expired THEN "error" ELSE "analyze")
       \/ At(w, "poll") /\ Go(w, IF scan[w].expired THEN "error" ELSE "analyze")
    /\ UNCHANGED <<remote, recent>>

\* The other sleeps end the scan when the deadline ends them.
Wake(w) ==
    /\ \/ At(w, "nap") /\ Go(w, IF scan[w].expired THEN "error" ELSE "info")
       \/ At(w, "backoff") /\ Go(w, IF scan[w].expired THEN "error" ELSE "analyze")
       \/ At(w, "poll") /\ Go(w, IF scan[w].expired THEN "error" ELSE "analyze")
    /\ UNCHANGED <<remote, recent>>

\* GET /analyze has no answer, or one that is not worth a retry: no connection,
\* no time left, a report that cannot be decoded, any other 4xx.
NoAnswer(w) ==
    /\ At(w, "analyze")
    /\ Go(w, "error")
    /\ UNCHANGED <<remote, recent>>

\* 429, 503 and 529 are waited out for as long as the deadline allows.
Limited(w) ==
    /\ At(w, "analyze") /\ ~scan[w].expired
    /\ Go(w, "backoff")
    /\ UNCHANGED <<remote, recent>>

\* Broken variant: one retry too many.
ServerErrorOnceMore(w) ==
    /\ At(w, "analyze") /\ ~scan[w].expired
    /\ IF scan[w].errors <= ServerErrorRetries
       THEN scan' = [scan EXCEPT ![w].pc = "backoff", ![w].errors = @ + 1]
       ELSE Go(w, "error")
    /\ UNCHANGED <<remote, recent>>

\* Any other 5xx, ServerErrorRetries times in one call.
ServerError(w) ==
    /\ At(w, "analyze") /\ ~scan[w].expired
    /\ IF scan[w].errors < ServerErrorRetries
       THEN scan' = [scan EXCEPT ![w].pc = "backoff", ![w].errors = @ + 1]
       ELSE Go(w, "error")
    /\ UNCHANGED <<remote, recent>>

\* The starts of w within the last cool-off.
StartsOf(w) == {e \in recent : e.scan = w}

\* One more of them, told apart from the earlier ones by their number.
OneMore(w) ==
    LET e == [scan |-> w, before |-> Cardinality(StartsOf(w)), age |-> 0] IN
    recent' = IF CoolOff > 0 THEN recent \cup {e} ELSE recent

\* Broken variant: the polls say startNew too.
StartedAgain(w) ==
    /\ At(w, "analyze") /\ ~scan[w].expired /\ scan[w].startNew /\ HasCapacity
    /\ remote' = [remote EXCEPT ![w].state = "running", ![w].starts = @ + 1]
    /\ OneMore(w)
    /\ scan' = [scan EXCEPT ![w].pc = "poll"]

\* The first call had an answer: the later ones say neither startNew nor
\* fromCache.
Answered(w, l) ==
    scan' = [scan EXCEPT ![w].pc = l, ![w].startNew = FALSE, ![w].fromCache = FALSE,
                         ![w].errors = 0]

\* SSL Labs starts an assessment; its answer may be lost on its way.
NewAssessment(w) ==
    /\ At(w, "analyze") /\ ~scan[w].expired /\ HasCapacity
    /\ remote' = [remote EXCEPT ![w].state = "running", ![w].starts = @ + 1]
    /\ Answered(w, "poll") \/ Go(w, "error")

\* startNew=on starts one whatever reports there are.
Started(w) ==
    /\ scan[w].startNew /\ NewAssessment(w)
    /\ OneMore(w)

\* fromCache=on starts one when there is no report, or none young enough, at
\* once: the scan has asked for no capacity and waited no cool-off.
StartedFromCache(w) ==
    /\ scan[w].fromCache /\ remote[w].state # "running" /\ NewAssessment(w)
    /\ UNCHANGED recent

\* The last assessment there is, running or over.
Polled(w) ==
    /\ At(w, "analyze") /\ ~scan[w].expired
    /\ ~scan[w].startNew /\ remote[w].state # "none"
    /\ Answered(w, IF remote[w].state = "running" THEN "poll" ELSE remote[w].state)
    /\ UNCHANGED <<remote, recent>>

\* assess returned.
End(w) ==
    /\ At(w, "ready") \/ At(w, "error")
    /\ scan' = [scan EXCEPT ![w] = Idle]
    /\ UNCHANGED <<remote, recent>>

-----------------------------------------------------------------------------
(* Time and SSL Labs.                                                      *)

\* The deadline of the scan: cfg.SSLLabs.ScanTimeout.
Expire(w) ==
    /\ w \in InProgress /\ ~scan[w].expired
    /\ scan' = [scan EXCEPT ![w].expired = TRUE]
    /\ UNCHANGED <<remote, recent>>

Tick ==
    /\ recent' = {[e EXCEPT !.age = @ + 1] : e \in {e \in recent : e.age + 1 \in Window}}
    /\ scan' = [w \in Scans |->
           [scan[w] EXCEPT !.timer = IF @ > 0 THEN @ - 1 ELSE 0]]
    /\ UNCHANGED remote

Finish(w, outcome) ==
    /\ remote[w].state = "running"
    /\ remote' = [remote EXCEPT ![w].state = outcome]
    /\ UNCHANGED <<scan, recent>>

ScanStep(w) ==
    \/ InfoFree(w) \/ InfoBusy(w) \/ CoolOffOver(w) \/ Wake(w)
    \/ NoAnswer(w) \/ Limited(w) \/ ServerError(w)
    \/ Started(w) \/ StartedFromCache(w) \/ Polled(w) \/ End(w)

Next ==
    \/ \E w \in Scans, cached \in BOOLEAN : Begin(w, cached)
    \/ \E w \in Scans : ScanStep(w) \/ Expire(w)
    \/ \E w \in Scans, outcome \in {"ready", "error"} : Finish(w, outcome)
    \/ Tick

Spec == Init /\ [][Next]_vars

(* A goroutine that can run does, and every deadline passes.  Nothing is   *)
(* asked of SSL Labs.                                                      *)
Fairness == \A w \in Scans : WF_vars(ScanStep(w)) /\ WF_vars(Expire(w))
FairSpec == Spec /\ Fairness

-----------------------------------------------------------------------------
(* Properties.                                                             *)

\* The variables have their types; a call is repeated after a server error no
\* more than ServerErrorRetries times.
TypeOK ==
    /\ scan \in [Scans ->
           [pc : {"idle", "info", "nap", "coolOff", "analyze", "backoff", "poll",
                  "ready", "error"},
            cached : BOOLEAN, startNew : BOOLEAN, fromCache : BOOLEAN,
            errors : 0 .. ServerErrorRetries, timer : 0 .. CoolOff, expired : BOOLEAN]]
    /\ remote \in [Scans -> [state : {"none", "running", "ready", "error"}, starts : Nat]]
    /\ recent \subseteq [scan : Scans, before : Nat, age : Window]

\* A scan has at most one assessment started, though every retry of its first
\* call says startNew or fromCache again and the answer to it may be lost.
StartedOnce == \A w \in Scans : remote[w].starts <= 1

\* A result is of the assessment the scan itself had started, not of one that
\* was there before, unless the host asks for the cached report.
FreshResult ==
    \A w \in Scans : At(w, "ready") => scan[w].cached \/ remote[w].starts = 1

\* Every scan that asks for capacity waits the cool-off out by itself, and not
\* for the others: scans that look together start together.  What such scans
\* start within one cool-off is bounded by the slots, and by nothing less.  The
\* assessments a from_cache call starts are not counted: no wait bounds them.
BurstBounded == Cardinality(recent) <= Slots

\* Whatever SSL Labs answers -- errors for ever, no capacity, an assessment that
\* never ends -- every scan comes to its end, and its slot comes free.
EveryScanEnds == \A w \in Scans : w \in InProgress ~> w \notin InProgress
=============================================================================
