------------------------------- MODULE Alerts -------------------------------
(***************************************************************************)
(* The rules engine of bothan (notify.Engine) and what it reads: the scans *)
(* of one host, the rules that apply to it and the channels linked to it.  *)
(*                                                                         *)
(* Evaluate runs in the goroutine of the scan that finished, and each of   *)
(* its queries is a step of its own; the host's next scan may begin, finish*)
(* and be evaluated meanwhile, and rules and channels may change under it. *)
(* How a scan comes to its end is in Scanner; here it just does.           *)
(***************************************************************************)
EXTENDS Integers, Sequences, SequencesExt

CONSTANTS
    MaxScans,  \* bound: scan row ids are 1 .. MaxScans
    Reports,   \* what SSL Labs may report: [grades |-> one per endpoint,
               \* expiring |-> a certificate is, vulnerable |-> an endpoint is]
    Rules,     \* row ids of rules
    Conditions,\* what a rule may ask for: [cond |-> ..., threshold |-> ...]
    Channels   \* row ids of channels

ASSUME AlertsAssumption == MaxScans \in Nat
ASSUME ReportsAssumption == \A r \in Reports : r.grades \in Seq(STRING)

ScanIds == 1 .. MaxScans
NoScan == 0
NoReport == [grades |-> <<>>, expiring |-> FALSE, vulnerable |-> FALSE]
NoRule == [cond |-> "none", threshold |-> ""]

VARIABLES
    scan,     \* scan[s]: status and report of row s
    rule,     \* rule[r]: NoRule when it is absent, disabled or another host's
    channel,  \* channel[c]: flags of row c, and whether this host links to it
    eval,     \* eval[s]: program counter and locals of Evaluate for scan s
    sent,     \* history: <<s, r, c>> whose message the provider took
    lapse,    \* history: an evaluation did not do all it should have, or rules
              \* or channels changed after the first scan
    overlap   \* history: two scans of the host were active at once

vars == <<scan, rule, channel, eval, sent, lapse, overlap>>

IdleEval == [pc |-> "none", previous |-> NoScan, matched |-> {}, todo |-> {}]
ChannelRows == [linked : BOOLEAN, enabled : BOOLEAN, needs : BOOLEAN, config : BOOLEAN]

Init ==
    /\ scan = [s \in ScanIds |-> [status |-> "none", report |-> NoReport]]
    /\ rule \in [Rules -> Conditions \cup {NoRule}]
    /\ channel \in [Channels -> {c \in ChannelRows : c.needs = ~c.config}]
    /\ eval = [s \in ScanIds |-> IdleEval]
    /\ sent = {} /\ lapse = FALSE /\ overlap = FALSE

Known == {s \in ScanIds : scan[s].status # "none"}
Ready == {s \in ScanIds : scan[s].status = "ready"}

-----------------------------------------------------------------------------
(* Grades.                                                                 *)

Scale == <<"F", "E", "D", "C", "B", "A-", "A", "A+">>

GradeRank(g) ==
    IF g \in {"T", "M"} THEN 0
    ELSE IF \E i \in DOMAIN Scale : Scale[i] = g THEN CHOOSE i \in DOMAIN Scale : Scale[i] = g
    ELSE -1

\* Broken variant: an unrecognised grade does not count.
LowestKnownGrade(grades) ==
    FoldLeft(LAMBDA worst, g :
                 IF GradeRank(g) >= 0 /\ (worst = "" \/ GradeRank(g) < GradeRank(worst))
                 THEN g ELSE worst,
             "", grades)

LowestGrade(grades) ==
    FoldLeft(LAMBDA worst, g :
                 IF g # "" /\ (worst = "" \/ GradeRank(g) < GradeRank(worst))
                 THEN g ELSE worst,
             "", grades)

Overall(s) == LowestGrade(scan[s].report.grades)

-----------------------------------------------------------------------------
(* Scans.                                                                  *)

\* A second scan may be created while one is active (see Scanner).
Create(s) ==
    /\ Known = 1 .. s - 1
    /\ scan' = [scan EXCEPT ![s].status = "pending"]
    /\ overlap' = (overlap \/ \E t \in Known : scan[t].status = "pending")
    /\ UNCHANGED <<rule, channel, eval, sent, lapse>>

\* persist or fail, and notifyComplete: the row is final, Evaluate begins.
Finish(s, status, report) ==
    /\ scan[s].status = "pending"
    /\ scan' = [scan EXCEPT ![s] = [status |-> status, report |-> report]]
    /\ eval' = [eval EXCEPT ![s].pc = "previous"]
    /\ UNCHANGED <<rule, channel, sent, lapse, overlap>>

-----------------------------------------------------------------------------
(* Evaluate.                                                               *)

Latest(S) == IF S = {} THEN NoScan ELSE CHOOSE s \in S : \A t \in S : t <= s

\* Broken variant: a failed scan counts as the previous one.
PreviousFinished(s) == Latest({t \in Known : scan[t].status # "pending" /\ t < s})

PreviousReady(s) == Latest({t \in Ready : t < s})

\* The engine drops the error of this query and goes on without a previous scan.
ReadPrevious(s) ==
    /\ eval[s].pc = "previous"
    /\ \/ eval' = [eval EXCEPT ![s].pc = "rules", ![s].previous = PreviousReady(s)]
          /\ UNCHANGED lapse
       \/ eval' = [eval EXCEPT ![s].pc = "rules"] /\ lapse' = TRUE
    /\ UNCHANGED <<scan, rule, channel, sent, overlap>>

\* Broken variant: no alert while the host keeps failing, whatever its grade.
MatchesOnceFailing(w, s, p) ==
    /\ scan[s].status = "ready" /\ w.cond = "grade_below"
    /\ GradeRank(Overall(s)) < GradeRank(w.threshold)
    /\ p # NoScan => GradeRank(Overall(p)) >= GradeRank(w.threshold)

\* Rule w for scan s, with p the previous ready scan.
Matches(w, s, p) ==
    \/ w.cond = "scan_failed" /\ scan[s].status = "error"
    \/ /\ scan[s].status = "ready"
       /\ \/ w.cond = "scan_completed"
          \/ /\ w.cond = "grade_below"
             /\ GradeRank(Overall(s)) < GradeRank(w.threshold)
             /\ p # NoScan => Overall(p) # Overall(s)
          \/ /\ p # NoScan
             /\ \/ w.cond = "grade_changed" /\ Overall(p) # Overall(s)
                \/ w.cond = "grade_downgraded" /\ GradeRank(Overall(s)) < GradeRank(Overall(p))
                \/ w.cond = "grade_improved" /\ GradeRank(Overall(s)) > GradeRank(Overall(p))
          \/ w.cond = "cert_expiry" /\ scan[s].report.expiring
          \/ w.cond = "vuln_detected" /\ scan[s].report.vulnerable

\* RulesForHost, then matches for each of them; the previous scan is only quoted
\* in messages from here on.
ReadRules(s) ==
    LET matched == {r \in Rules : Matches(rule[r], s, eval[s].previous)} IN
    /\ eval[s].pc = "rules"
    /\ eval' = [eval EXCEPT ![s].matched = matched, ![s].previous = NoScan,
                            ![s].pc = IF matched = {} THEN "done" ELSE "channels"]
    /\ UNCHANGED <<scan, rule, channel, sent, lapse, overlap>>

\* EnabledChannelsForHost.
Usable(c) == channel[c].linked /\ channel[c].enabled /\ ~channel[c].needs

\* The messages to send, with a copy of the channel's configuration.
Messages(s) ==
    {<<r, c, channel[c].config>> : r \in eval[s].matched, c \in {d \in Channels : Usable(d)}}

ReadChannels(s) ==
    LET todo == Messages(s) IN
    /\ eval[s].pc = "channels"
    /\ eval' = [eval EXCEPT ![s].matched = {}, ![s].todo = todo,
                            ![s].pc = IF todo = {} THEN "done" ELSE "send"]
    /\ UNCHANGED <<scan, rule, channel, sent, lapse, overlap>>

\* One message; a failed one is logged and counted, and not tried again.
Deliver(s, m, accepted) ==
    LET left == eval[s].todo \ {m} IN
    /\ eval[s].pc = "send" /\ m \in eval[s].todo
    /\ accepted => m[3]
    /\ eval' = [eval EXCEPT ![s].todo = left, ![s].pc = IF left = {} THEN "done" ELSE "send"]
    /\ sent' = IF accepted THEN sent \cup {<<s, m[1], m[2]>>} ELSE sent
    /\ lapse' = (lapse \/ ~accepted)
    /\ UNCHANGED <<scan, rule, channel, overlap>>

\* The query for the host, the rules or the channels failed.
Abandon(s) ==
    /\ eval[s].pc \in {"previous", "rules", "channels"}
    /\ eval' = [eval EXCEPT ![s] = [IdleEval EXCEPT !.pc = "done"]]
    /\ lapse' = TRUE
    /\ UNCHANGED <<scan, rule, channel, sent, overlap>>

Evaluating(s) == eval[s].pc \notin {"none", "done"}

\* Broken variant: a crash in the middle of the messages forgets which are left.
CrashMidway ==
    /\ \E s \in ScanIds : Evaluating(s)
    /\ eval' = [s \in ScanIds |-> IF Evaluating(s) THEN [eval[s] EXCEPT !.pc = "done"] ELSE eval[s]]
    /\ lapse' = TRUE
    /\ UNCHANGED <<scan, rule, channel, sent, overlap>>

\* The rows that are final are not evaluated again after a restart.
Crash ==
    /\ \E s \in ScanIds : Evaluating(s)
    /\ eval' = [s \in ScanIds |->
           IF Evaluating(s) THEN [IdleEval EXCEPT !.pc = "done"] ELSE eval[s]]
    /\ lapse' = TRUE
    /\ UNCHANGED <<scan, rule, channel, sent, overlap>>

-----------------------------------------------------------------------------
(* The API of rules and channels.                                          *)

Changed == lapse' = (lapse \/ Known # {}) /\ UNCHANGED <<scan, eval, sent, overlap>>

\* Create, update, delete, enable or disable a rule.
SetRule(r, w) ==
    /\ w # rule[r]
    /\ rule' = [rule EXCEPT ![r] = w]
    /\ Changed /\ UNCHANGED channel

\* PUT /hosts/{id}/channels.
SetHostChannels(chosen) ==
    /\ channel' = [c \in Channels |-> [channel[c] EXCEPT !.linked = (c \in chosen)]]
    /\ channel' # channel
    /\ Changed /\ UNCHANGED rule

\* PUT /channels/{id}, with credentials or without; a channel is created with.
UpdateChannel(c, on, credentials) ==
    /\ channel' = [channel EXCEPT ![c].enabled = on,
                                  ![c].needs = @ /\ ~credentials,
                                  ![c].config = @ \/ credentials]
    /\ channel' # channel
    /\ Changed /\ UNCHANGED rule

\* Import of a bundle without secrets.
ImportBlank(c) ==
    /\ channel' = [channel EXCEPT ![c].enabled = FALSE, ![c].needs = TRUE, ![c].config = FALSE]
    /\ channel' # channel
    /\ Changed /\ UNCHANGED rule

\* Import of a bundle with secrets.  One with the instance key holds what the
\* exporting side had in the row, which may itself have been imported without
\* secrets; needs_credentials is not in the document and comes out FALSE.
ImportKeyed(c, on, config) ==
    /\ channel' = [channel EXCEPT ![c].enabled = on, ![c].needs = FALSE, ![c].config = config]
    /\ channel' # channel
    /\ Changed /\ UNCHANGED rule

-----------------------------------------------------------------------------
EvalStep(s) ==
    \/ ReadPrevious(s) \/ ReadRules(s) \/ ReadChannels(s) \/ Abandon(s)
    \/ \E m \in eval[s].todo, accepted \in BOOLEAN : Deliver(s, m, accepted)

Next ==
    \/ \E s \in ScanIds :
          \/ Create(s) \/ Finish(s, "error", NoReport)
          \/ \E report \in Reports : Finish(s, "ready", report)
          \/ EvalStep(s)
    \/ \E r \in Rules, w \in Conditions \cup {NoRule} : SetRule(r, w)
    \/ \E chosen \in SUBSET Channels : SetHostChannels(chosen)
    \/ \E c \in Channels :
          \/ ImportBlank(c)
          \/ \E on, b \in BOOLEAN : UpdateChannel(c, on, b) \/ ImportKeyed(c, on, b)
    \/ Crash

Spec == Init /\ [][Next]_vars

-----------------------------------------------------------------------------
(* Properties.                                                             *)

\* Types; only an evaluation that is sending has messages to send.
TypeOK ==
    /\ scan \in [ScanIds -> [status : {"none", "pending", "ready", "error"},
                             report : Reports \cup {NoReport}]]
    /\ rule \in [Rules -> Conditions \cup {NoRule}]
    /\ channel \in [Channels -> ChannelRows]
    /\ eval \in [ScanIds -> [pc : {"none", "previous", "rules", "channels", "send", "done"},
                             previous : ScanIds \cup {NoScan}, matched : SUBSET Rules,
                             todo : SUBSET (Rules \X Channels \X BOOLEAN)]]
    /\ \A s \in ScanIds : eval[s].todo # {} <=> eval[s].pc = "send"
    /\ sent \subseteq ScanIds \X Rules \X Channels
    /\ lapse \in BOOLEAN /\ overlap \in BOOLEAN

\* "The overall host grade is the lowest grade across its endpoints": no
\* endpoint that has a grade ranks below it, trust and unknown grades included.
GradeIsWorst ==
    \A s \in Ready : LET grades == scan[s].report.grades IN
        \A i \in DOMAIN grades :
            grades[i] # "" => GradeRank(Overall(s)) <= GradeRank(grades[i])

\* A grade_below alert is suppressed only as a repeat: if nothing lapsed, every
\* failing grade was reported by its own scan or by an earlier one with that
\* grade, on every usable channel -- also when scans of the host overlapped and
\* were evaluated in another order than they were created.
SuppressedAsRepeat ==
    ~lapse => \A s \in Ready, r \in Rules :
        /\ eval[s].pc = "done"
        /\ rule[r].cond = "grade_below" /\ GradeRank(Overall(s)) < GradeRank(rule[r].threshold)
        => \E t \in Ready : /\ t <= s /\ Overall(t) = Overall(s)
                            /\ \A c \in Channels :
                                  Usable(c) => <<t, r, c>> \in sent \/ Evaluating(t)

\* No drop from one ready scan of a host to its next one goes unreported by a
\* grade_downgraded rule, whatever failed scans lie between, and though the next
\* scan may begin and finish while the evaluation of this one goes on.
NoDropMissed ==
    ~lapse /\ ~overlap => \A s, t \in Ready, r \in Rules, c \in Channels :
        /\ eval[s].pc = "done" /\ t < s /\ ~\E u \in Ready : t < u /\ u < s
        /\ GradeRank(Overall(s)) < GradeRank(Overall(t))
        /\ rule[r].cond = "grade_downgraded" /\ Usable(c)
        => <<s, r, c>> \in sent
=============================================================================
