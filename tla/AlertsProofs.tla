---------------------------- MODULE AlertsProofs ----------------------------
(***************************************************************************)
(* Theorems about Alerts, for every number of scans, any rules, channels   *)
(* and reports.                                                            *)
(***************************************************************************)
EXTENDS Alerts, FoldLemmas

Pcs == {"none", "previous", "rules", "channels", "send", "done"}
EvalRecord ==
    [pc : Pcs, previous : ScanIds \cup {NoScan}, matched : SUBSET Rules,
     todo : SUBSET (Rules \X Channels \X BOOLEAN)]
ScanRecord == [status : {"none", "pending", "ready", "error"}, report : Reports \cup {NoReport}]

Finished(s) == scan[s].status \in {"ready", "error"}
Decided(s) == eval[s].pc \in {"channels", "send", "done"}

\* Rows are numbered without gaps, a scan is evaluated when it is final, and a
\* scan that found no other one active has only final ones before it.
Numbered ==
    /\ \A s, t \in ScanIds : s \in Known /\ t < s => t \in Known
    /\ \A s \in ScanIds : eval[s].pc # "none" <=> Finished(s)
    /\ ~overlap => \A s, t \in ScanIds : s \in Known /\ t < s => Finished(t)

\* What the evaluation of s has read for its previous scan may be any earlier
\* ready one when scans overlap, and is the last one when they do not.
Earlier(s, p) ==
    /\ p = NoScan \/ (p \in Ready /\ p < s)
    /\ ~overlap => p = PreviousReady(s)

\* The evaluation of s has rule r in hand, has sent its messages, or will.
Promised(s, r) ==
    \/ eval[s].pc = "channels" /\ r \in eval[s].matched
    \/ /\ eval[s].pc \in {"send", "done"}
       /\ \A c \in Channels :
             Usable(c) => <<s, r, c>> \in sent \/ <<r, c, channel[c].config>> \in eval[s].todo

Kept(s, p) == \A r \in Rules : Matches(rule[r], s, p) => Promised(s, r)

Judged ==
    \A s \in ScanIds :
        /\ eval[s].pc = "rules" => Earlier(s, eval[s].previous)
        /\ Decided(s) => \E p \in ScanIds \cup {NoScan} : Earlier(s, p) /\ Kept(s, p)

IInv == TypeOK /\ Numbered /\ (~lapse => Judged)

-----------------------------------------------------------------------------
(* The least and the greatest of a set of row ids.                         *)

LEMMA IdsAreFinite ==
    ASSUME NEW S \in SUBSET (1 .. MaxScans)
    PROVE  S \in SUBSET Int /\ IsFiniteSet(S)
<1> DEFINE Ids == 1 .. MaxScans
<1>1. IsFiniteSet(Ids) /\ Ids \subseteq Int
  BY AlertsAssumption, FS_Interval
<1> HIDE DEF Ids
<1>2. IsFiniteSet(S)
  BY <1>1, FS_Subset DEF Ids
<1> QED BY <1>1, <1>2 DEF Ids

LEMMA LeastId ==
    ASSUME NEW S \in SUBSET (1 .. MaxScans), S # {}
    PROVE  \E n \in S : \A m \in S : n <= m
BY IdsAreFinite, MinOfSet

LEMMA GreatestId ==
    ASSUME NEW S \in SUBSET (1 .. MaxScans), S # {}
    PROVE  \E n \in S : \A m \in S : m <= n
BY IdsAreFinite, MaxOfSet

LEMMA LatestIsGreatest ==
    ASSUME NEW S \in SUBSET ScanIds
    PROVE  /\ S = {} => Latest(S) = NoScan
           /\ S # {} => Latest(S) \in S /\ \A t \in S : t <= Latest(S)
<1>1. CASE S = {}
  BY <1>1 DEF Latest
<1>2. CASE S # {}
  <2>1. \E n \in S : \A m \in S : m <= n
    BY <1>2, GreatestId DEF ScanIds
  <2> QED
    BY <1>2, <2>1 DEF Latest
<1> QED
  BY <1>1, <1>2

LEMMA PreviousFacts ==
    ASSUME NEW s \in ScanIds
    PROVE  /\ PreviousReady(s) \in ScanIds \cup {NoScan}
           /\ PreviousReady(s) # NoScan => PreviousReady(s) \in Ready /\ PreviousReady(s) < s
           /\ \A t \in Ready : t < s => PreviousReady(s) # NoScan /\ t <= PreviousReady(s)
<1> DEFINE S == {t \in Ready : t < s}
<1>1. S \in SUBSET ScanIds /\ NoScan \notin ScanIds
  BY DEF Ready, ScanIds, NoScan
<1>2. PreviousReady(s) = Latest(S)
  BY DEF PreviousReady
<1>3. /\ S = {} => Latest(S) = NoScan
      /\ S # {} => Latest(S) \in S /\ \A t \in S : t <= Latest(S)
  <2> HIDE DEF S
  <2> QED BY <1>1, LatestIsGreatest
<1> QED
  BY <1>1, <1>2, <1>3

-----------------------------------------------------------------------------
(* Types.                                                                  *)

LEMMA ScanTypes ==
    TypeOK <=> /\ scan \in [ScanIds -> ScanRecord]
               /\ rule \in [Rules -> Conditions \cup {NoRule}]
               /\ channel \in [Channels -> ChannelRows]
               /\ eval \in [ScanIds -> EvalRecord]
               /\ \A s \in ScanIds : eval[s].todo # {} <=> eval[s].pc = "send"
               /\ sent \subseteq ScanIds \X Rules \X Channels
               /\ lapse \in BOOLEAN /\ overlap \in BOOLEAN
BY Zenon DEF TypeOK, ScanRecord, EvalRecord, Pcs

\* The record of an evaluation, changed the way the steps of Evaluate change it.
LEMMA EvalRecords ==
    ASSUME NEW e \in EvalRecord, NEW l \in Pcs, NEW p \in ScanIds \cup {NoScan},
           NEW m \in SUBSET Rules, NEW todo \in SUBSET (Rules \X Channels \X BOOLEAN)
    PROVE  [pc |-> l, previous |-> p, matched |-> m, todo |-> todo] \in EvalRecord
BY DEF EvalRecord

LEMMA InitIInv == Init => IInv
<1> SUFFICES ASSUME Init PROVE IInv
  OBVIOUS
<1>1. TypeOK
  <2>1. IdleEval \in EvalRecord
    BY DEF IdleEval, EvalRecord, Pcs
  <2>2. [status |-> "none", report |-> NoReport] \in ScanRecord
    BY DEF ScanRecord
  <2>3. channel \in [Channels -> ChannelRows]
    BY DEF Init
  <2>4. \A s \in ScanIds : eval[s].todo = {} /\ eval[s].pc = "none"
    BY DEF Init, IdleEval
  <2> QED
    BY <2>1, <2>2, <2>3, <2>4, ScanTypes DEF Init
<1>2. \A s \in ScanIds : scan[s].status = "none" /\ eval[s].pc = "none"
  BY DEF Init, IdleEval
<1>3. Known = {} /\ Ready = {}
  BY <1>2 DEF Known, Ready
<1>4. Numbered
  BY <1>2, <1>3 DEF Numbered, Finished
<1>5. Judged
  BY <1>2 DEF Judged, Decided
<1> QED
  BY <1>1, <1>4, <1>5 DEF IInv

-----------------------------------------------------------------------------
(* The steps of Evaluate.                                                  *)

\* The evaluation of s alone changes, to a record of its type.
Only(s) ==
    /\ eval' \in [ScanIds -> EvalRecord]
    /\ \A t \in ScanIds \ {s} : eval'[t] = eval[t]

\* Where an evaluation that nothing goes wrong in gets to.
Advances(s) ==
    \/ eval'[s].pc = "rules" /\ eval'[s].previous = PreviousReady(s)
    \/ /\ eval[s].pc = "rules"
       /\ \/ eval'[s].pc = "channels"
             /\ \A r \in Rules : Matches(rule[r], s, eval[s].previous) => r \in eval'[s].matched
          \/ eval'[s].pc = "done" /\ \A r \in Rules : ~Matches(rule[r], s, eval[s].previous)
    \/ /\ eval[s].pc = "channels" /\ eval'[s].pc \in {"send", "done"}
       /\ \A r \in eval[s].matched, c \in Channels :
             Usable(c) => <<r, c, channel[c].config>> \in eval'[s].todo
    \/ /\ eval[s].pc = "send" /\ eval'[s].pc \in {"send", "done"}
       /\ \A m \in eval[s].todo : m \in eval'[s].todo \/ <<s, m[1], m[2]>> \in sent'

Evaluates(s) ==
    /\ UNCHANGED <<scan, rule, channel, overlap>> /\ Only(s)
    /\ eval[s].pc # "none" /\ eval'[s].pc \notin {"none", "previous"}
    /\ eval'[s].todo # {} <=> eval'[s].pc = "send"
    /\ sent \subseteq sent' /\ sent' \subseteq ScanIds \X Rules \X Channels
    /\ lapse' \in BOOLEAN
    /\ ~lapse' => ~lapse /\ Advances(s)

LEMMA EvalTypes ==
    ASSUME TypeOK, NEW s \in ScanIds
    PROVE  /\ eval \in [ScanIds -> EvalRecord] /\ eval[s] \in EvalRecord
           /\ eval[s].todo # {} <=> eval[s].pc = "send"
           /\ sent \subseteq ScanIds \X Rules \X Channels /\ lapse \in BOOLEAN
           /\ channel \in [Channels -> ChannelRows]
BY ScanTypes

LEMMA Becomes ==
    ASSUME TypeOK, NEW s \in ScanIds, NEW e \in EvalRecord, eval' = [eval EXCEPT ![s] = e]
    PROVE  Only(s) /\ eval'[s] = e
BY EvalTypes DEF Only

LEMMA ReadPreviousFacts ==
    ASSUME TypeOK, NEW s \in ScanIds, ReadPrevious(s)
    PROVE  Evaluates(s)
<1> DEFINE e == [eval[s] EXCEPT !.pc = "rules", !.previous = PreviousReady(s)]
           f == [eval[s] EXCEPT !.pc = "rules"]
<1>1. eval[s] \in EvalRecord /\ eval[s].pc = "previous" /\ eval[s].todo = {}
      /\ PreviousReady(s) \in ScanIds \cup {NoScan}
  BY EvalTypes, PreviousFacts DEF ReadPrevious
<1>2. /\ e \in EvalRecord /\ e.pc = "rules" /\ e.previous = PreviousReady(s) /\ e.todo = {}
      /\ f \in EvalRecord /\ f.pc = "rules" /\ f.todo = {}
  BY <1>1 DEF EvalRecord, Pcs
<1>3. CASE eval' = [eval EXCEPT ![s].pc = "rules", ![s].previous = PreviousReady(s)] /\ UNCHANGED lapse
  <2>1. eval' = [eval EXCEPT ![s] = e]
    BY <1>3, EvalTypes
  <2>2. Only(s) /\ eval'[s] = e
    BY <1>2, <2>1, Becomes
  <2> QED
    BY <1>1, <1>2, <1>3, <2>2, EvalTypes DEF ReadPrevious, Evaluates, Advances
<1>4. CASE eval' = [eval EXCEPT ![s].pc = "rules"] /\ lapse' = TRUE
  <2>1. eval' = [eval EXCEPT ![s] = f]
    BY <1>4, EvalTypes
  <2>2. Only(s) /\ eval'[s] = f
    BY <1>2, <2>1, Becomes
  <2> QED
    BY <1>1, <1>2, <1>4, <2>2, EvalTypes DEF ReadPrevious, Evaluates
<1> QED
  BY <1>3, <1>4 DEF ReadPrevious

LEMMA ReadRulesFacts ==
    ASSUME TypeOK, NEW s \in ScanIds, ReadRules(s)
    PROVE  Evaluates(s)
<1> DEFINE matched == {r \in Rules : Matches(rule[r], s, eval[s].previous)}
           l == IF matched = {} THEN "done" ELSE "channels"
           e == [eval[s] EXCEPT !.matched = matched, !.previous = NoScan, !.pc = l]
<1>1. eval[s] \in EvalRecord /\ eval[s].pc = "rules" /\ eval[s].todo = {}
  BY EvalTypes DEF ReadRules
<1>2. matched \in SUBSET Rules /\ l \in {"done", "channels"}
  OBVIOUS
<1>3. e \in EvalRecord /\ e.pc = l /\ e.matched = matched /\ e.todo = {}
  <2> HIDE DEF matched, l
  <2> QED BY <1>1, <1>2 DEF EvalRecord, Pcs
<1>4. eval' = [eval EXCEPT ![s] = e]
  <2>1. eval' = [eval EXCEPT ![s].matched = matched, ![s].previous = NoScan, ![s].pc = l]
    BY DEF ReadRules
  <2> HIDE DEF matched, l
  <2> QED BY <2>1, EvalTypes
<1>5. Only(s) /\ eval'[s] = e
  <2> HIDE DEF e
  <2> QED BY <1>3, <1>4, Becomes
<1>6. Advances(s)
  <2>1. CASE matched = {}
    BY <1>1, <1>3, <1>5, <2>1 DEF Advances
  <2>2. CASE matched # {}
    BY <1>1, <1>3, <1>5, <2>2 DEF Advances
  <2> QED BY <2>1, <2>2
<1>7. eval'[s].pc \in {"done", "channels"} /\ eval'[s].todo = {}
  BY <1>2, <1>3, <1>5
<1> QED
  BY <1>1, <1>5, <1>6, <1>7, EvalTypes DEF ReadRules, Evaluates

LEMMA ReadChannelsFacts ==
    ASSUME TypeOK, NEW s \in ScanIds, ReadChannels(s)
    PROVE  Evaluates(s)
<1> DEFINE todo == Messages(s)
           l == IF todo = {} THEN "done" ELSE "send"
           e == [eval[s] EXCEPT !.matched = {}, !.todo = todo, !.pc = l]
<1>1. eval[s] \in EvalRecord /\ eval[s].pc = "channels" /\ eval[s].matched \in SUBSET Rules
  BY EvalTypes DEF ReadChannels, EvalRecord
<1>2. todo \in SUBSET (Rules \X Channels \X BOOLEAN) /\ l \in {"done", "send"}
  <2>1. \A c \in Channels : channel[c].config \in BOOLEAN
    BY EvalTypes DEF ChannelRows
  <2> QED BY <1>1, <2>1 DEF Messages
<1>3. e \in EvalRecord /\ e.pc = l /\ e.todo = todo
  <2> HIDE DEF todo, l
  <2> QED BY <1>1, <1>2 DEF EvalRecord, Pcs
<1>4. eval' = [eval EXCEPT ![s] = e]
  <2>1. eval' = [eval EXCEPT ![s].matched = {}, ![s].todo = todo, ![s].pc = l]
    BY DEF ReadChannels
  <2> HIDE DEF todo, l
  <2> QED BY <2>1, EvalTypes
<1>5. Only(s) /\ eval'[s] = e
  <2> HIDE DEF e
  <2> QED BY <1>3, <1>4, Becomes
<1>6. \A r \in eval[s].matched, c \in Channels : Usable(c) => <<r, c, channel[c].config>> \in todo
  BY DEF Messages
<1>7. eval'[s].pc = l /\ eval'[s].todo = todo /\ (todo # {} <=> l = "send")
  BY <1>3, <1>5
<1> HIDE DEF todo, l, e
<1>8. Advances(s)
  BY <1>1, <1>2, <1>6, <1>7 DEF Advances
<1> QED
  BY <1>1, <1>2, <1>5, <1>7, <1>8, EvalTypes DEF ReadChannels, Evaluates

LEMMA DeliverFacts ==
    ASSUME TypeOK, NEW s \in ScanIds, NEW m \in eval[s].todo, NEW accepted \in BOOLEAN,
           Deliver(s, m, accepted)
    PROVE  Evaluates(s)
<1> DEFINE left == eval[s].todo \ {m}
           l == IF left = {} THEN "done" ELSE "send"
           e == [eval[s] EXCEPT !.todo = left, !.pc = l]
<1>1. eval[s] \in EvalRecord /\ eval[s].pc = "send" /\ m \in Rules \X Channels \X BOOLEAN
      /\ eval[s].todo \in SUBSET (Rules \X Channels \X BOOLEAN)
  BY EvalTypes DEF Deliver, EvalRecord
<1>2. left \in SUBSET (Rules \X Channels \X BOOLEAN) /\ l \in {"done", "send"}
  BY <1>1
<1>3. e \in EvalRecord /\ e.pc = l /\ e.todo = left
  <2> HIDE DEF left, l
  <2> QED BY <1>1, <1>2 DEF EvalRecord, Pcs
<1>4. eval' = [eval EXCEPT ![s] = e]
  <2>1. eval' = [eval EXCEPT ![s].todo = left, ![s].pc = l]
    BY DEF Deliver
  <2> HIDE DEF left, l
  <2> QED BY <2>1, EvalTypes
<1>5. Only(s) /\ eval'[s] = e
  <2> HIDE DEF e
  <2> QED BY <1>3, <1>4, Becomes
<1>6. <<s, m[1], m[2]>> \in ScanIds \X Rules \X Channels
  BY <1>1
<1>7. sent' = IF accepted THEN sent \cup {<<s, m[1], m[2]>>} ELSE sent
  BY DEF Deliver
<1>8. sent \subseteq sent' /\ sent' \subseteq ScanIds \X Rules \X Channels
      /\ (accepted => <<s, m[1], m[2]>> \in sent')
  BY <1>6, <1>7, EvalTypes
<1>9. eval'[s].pc = l /\ eval'[s].todo = left /\ (left # {} <=> l = "send")
  BY <1>3, <1>5
<1>10. \A n \in eval[s].todo : n = m \/ n \in left
  OBVIOUS
<1> HIDE DEF left, l, e
<1>11. ASSUME accepted PROVE Advances(s)
  BY <1>1, <1>2, <1>8, <1>9, <1>10, <1>11 DEF Advances
<1> QED
  BY <1>1, <1>2, <1>5, <1>8, <1>9, <1>11, EvalTypes DEF Deliver, Evaluates

LEMMA AbandonFacts ==
    ASSUME TypeOK, NEW s \in ScanIds, Abandon(s)
    PROVE  Evaluates(s)
<1> DEFINE e == [IdleEval EXCEPT !.pc = "done"]
<1>1. e \in EvalRecord /\ e.pc = "done" /\ e.todo = {}
  BY DEF IdleEval, EvalRecord, Pcs
<1>2. Only(s) /\ eval'[s] = e
  <2>1. eval' = [eval EXCEPT ![s] = e]
    BY DEF Abandon
  <2> HIDE DEF e
  <2> QED BY <1>1, <2>1, Becomes
<1> QED
  BY <1>1, <1>2, EvalTypes DEF Abandon, Evaluates

LEMMA EvalStepFacts ==
    ASSUME TypeOK, NEW s \in ScanIds, EvalStep(s)
    PROVE  Evaluates(s)
BY ReadPreviousFacts, ReadRulesFacts, ReadChannelsFacts, DeliverFacts, AbandonFacts DEF EvalStep

-----------------------------------------------------------------------------
(* The steps of scans.                                                     *)

\* Row s, which is not final, changes, and with it at most the evaluation that
\* is about to begin for it.
Proceeds(s) ==
    /\ UNCHANGED <<rule, channel, sent, lapse>> /\ Only(s)
    /\ scan' \in [ScanIds -> ScanRecord]
    /\ \A t \in ScanIds \ {s} : scan'[t] = scan[t]
    /\ ~Finished(s) /\ scan'[s].status # "none"
    /\ IF Finished(s)' THEN eval'[s].pc = "previous" ELSE eval'[s].pc = eval[s].pc
    /\ eval'[s].todo = eval[s].todo
    /\ overlap' \in BOOLEAN /\ (~overlap' => ~overlap)

LEMMA CreateFacts ==
    ASSUME TypeOK, Numbered, NEW s \in ScanIds, Create(s)
    PROVE  Proceeds(s) /\ Numbered'
<1> DEFINE x == [scan[s] EXCEPT !.status = "pending"]
<1>1. scan[s] \in ScanRecord /\ scan \in [ScanIds -> ScanRecord] /\ overlap \in BOOLEAN
  BY ScanTypes
<1>2. x \in ScanRecord /\ x.status = "pending"
  BY <1>1 DEF ScanRecord
<1>3. scan' = [scan EXCEPT ![s] = x]
  BY <1>1 DEF Create
<1>4. s \notin Known /\ Known = 1 .. s - 1
  BY DEF Create, ScanIds
<1>5. ~Finished(s) /\ eval[s].pc = "none"
  BY <1>4 DEF Known, Finished, Numbered
<1>6. scan' \in [ScanIds -> ScanRecord] /\ scan'[s] = x /\ \A t \in ScanIds \ {s} : scan'[t] = scan[t]
  BY <1>1, <1>2, <1>3
<1>7. ~Finished(s)'
  BY <1>2, <1>6 DEF Finished
<1>8. Proceeds(s)
  <2>1. Only(s) /\ eval' = eval
    BY EvalTypes DEF Create, Only
  <2>2. overlap' \in BOOLEAN /\ (~overlap' => ~overlap)
    BY <1>1 DEF Create
  <2> QED
    BY <1>2, <1>5, <1>6, <1>7, <2>1, <2>2 DEF Create, Proceeds
<1>9. \A t \in ScanIds : t # s => (t \in Known' <=> t \in Known) /\ (Finished(t)' <=> Finished(t))
  BY <1>6 DEF Known, Finished
<1>10. \A t \in ScanIds : t \in Known <=> t < s
  BY <1>4 DEF ScanIds
<1>11. s \in Known'
  BY <1>2, <1>6 DEF Known
<1>12. \A t, u \in ScanIds : t \in Known' /\ u < t => u \in Known'
  BY <1>9, <1>10, <1>11 DEF ScanIds
<1>13. \A t \in ScanIds : eval'[t].pc # "none" <=> Finished(t)'
  BY <1>5, <1>7, <1>9 DEF Create, Numbered
<1>14. ~overlap' => \A t, u \in ScanIds : t \in Known' /\ u < t => Finished(u)'
  <2> SUFFICES ASSUME ~overlap', NEW t \in ScanIds, NEW u \in ScanIds, t \in Known', u < t
               PROVE  Finished(u)'
    OBVIOUS
  <2>1. ~overlap /\ \A v \in Known : scan[v].status # "pending"
    BY <1>1 DEF Create
  <2>2. u \in Known
    BY <1>9, <1>10, <1>11 DEF ScanIds
  <2>3. Finished(u)
    BY <1>1, <2>1, <2>2 DEF Known, Finished, ScanRecord
  <2> QED
    BY <1>4, <1>9, <2>2, <2>3
<1> QED
  BY <1>8, <1>12, <1>13, <1>14 DEF Numbered

LEMMA FinishFacts ==
    ASSUME TypeOK, Numbered, NEW s \in ScanIds, NEW status \in {"ready", "error"},
           NEW report \in Reports \cup {NoReport}, Finish(s, status, report)
    PROVE  Proceeds(s) /\ Numbered'
<1> DEFINE x == [status |-> status, report |-> report]
           e == [eval[s] EXCEPT !.pc = "previous"]
<1>1. /\ scan[s] \in ScanRecord /\ scan \in [ScanIds -> ScanRecord] /\ overlap \in BOOLEAN
      /\ eval[s] \in EvalRecord
  BY ScanTypes
<1>2. x \in ScanRecord /\ x.status = status
  BY DEF ScanRecord
<1>3. e \in EvalRecord /\ e.pc = "previous" /\ e.todo = eval[s].todo
  BY <1>1 DEF EvalRecord, Pcs
<1>4. scan' = [scan EXCEPT ![s] = x]
  BY DEF Finish
<1>5. scan' \in [ScanIds -> ScanRecord] /\ scan'[s] = x /\ \A t \in ScanIds \ {s} : scan'[t] = scan[t]
  BY <1>1, <1>2, <1>4
<1>6. Only(s) /\ eval'[s] = e
  <2>1. eval' = [eval EXCEPT ![s] = e]
    BY EvalTypes DEF Finish
  <2> HIDE DEF e
  <2> QED BY <1>3, <2>1, Becomes
<1>7. Finished(s)' /\ ~Finished(s) /\ s \in Known
  BY <1>2, <1>5 DEF Finished, Finish, Known
<1>8. Proceeds(s)
  BY <1>1, <1>2, <1>3, <1>5, <1>6, <1>7 DEF Finish, Proceeds
<1>9. \A t \in ScanIds : t # s => (t \in Known' <=> t \in Known) /\ (Finished(t)' <=> Finished(t))
  BY <1>5 DEF Known, Finished
<1>10. Known' = Known
  BY <1>2, <1>5, <1>7, <1>9 DEF Known
<1>11. \A t \in ScanIds : eval'[t].pc # "none" <=> Finished(t)'
  BY <1>3, <1>6, <1>7, <1>9 DEF Only, Numbered
<1>12. ~overlap' => \A t, u \in ScanIds : t \in Known' /\ u < t => Finished(u)'
  BY <1>7, <1>9, <1>10 DEF Finish, Numbered
<1> QED
  BY <1>8, <1>10, <1>11, <1>12 DEF Numbered

-----------------------------------------------------------------------------
(* The other steps.                                                        *)

\* The administrator's steps: before the first scan, or on record.
Administers ==
    /\ UNCHANGED <<scan, eval, sent, overlap>>
    /\ rule' \in [Rules -> Conditions \cup {NoRule}] /\ channel' \in [Channels -> ChannelRows]
    /\ lapse' \in BOOLEAN /\ (~lapse' => Known = {})

AdminStep ==
    \/ \E r \in Rules, w \in Conditions \cup {NoRule} : SetRule(r, w)
    \/ \E chosen \in SUBSET Channels : SetHostChannels(chosen)
    \/ \E c \in Channels :
          \/ ImportBlank(c)
          \/ \E on, b \in BOOLEAN : UpdateChannel(c, on, b) \/ ImportKeyed(c, on, b)

LEMMA ChannelRecords ==
    ASSUME NEW r \in ChannelRows, NEW on \in BOOLEAN, NEW b \in BOOLEAN
    PROVE  /\ [r EXCEPT !.linked = b] \in ChannelRows
           /\ [r EXCEPT !.enabled = on, !.needs = r.needs /\ ~b, !.config = r.config \/ b] \in ChannelRows
           /\ [r EXCEPT !.enabled = FALSE, !.needs = TRUE, !.config = FALSE] \in ChannelRows
           /\ [r EXCEPT !.enabled = on, !.needs = FALSE, !.config = b] \in ChannelRows
BY DEF ChannelRows

LEMMA ChangedFacts ==
    ASSUME TypeOK, Changed
    PROVE  /\ UNCHANGED <<scan, eval, sent, overlap>>
           /\ lapse' \in BOOLEAN /\ (~lapse' => Known = {})
BY EvalTypes, ScanTypes DEF Changed

LEMMA AdminFacts ==
    ASSUME TypeOK, AdminStep
    PROVE  Administers
<1>1. channel \in [Channels -> ChannelRows] /\ rule \in [Rules -> Conditions \cup {NoRule}]
  BY ScanTypes
<1>2. ASSUME NEW r \in Rules, NEW w \in Conditions \cup {NoRule}, SetRule(r, w) PROVE Administers
  BY <1>1, <1>2, ChangedFacts DEF SetRule, Administers
<1>3. ASSUME NEW chosen \in SUBSET Channels, SetHostChannels(chosen) PROVE Administers
  <2>1. \A c \in Channels : [channel[c] EXCEPT !.linked = (c \in chosen)] \in ChannelRows
    <3> SUFFICES ASSUME NEW c \in Channels
                 PROVE  [channel[c] EXCEPT !.linked = (c \in chosen)] \in ChannelRows
      OBVIOUS
    <3>1. channel[c] \in ChannelRows /\ (c \in chosen) \in BOOLEAN
      BY <1>1
    <3> QED BY <3>1, ChannelRecords, Zenon
  <2>2. channel' = [c \in Channels |-> [channel[c] EXCEPT !.linked = (c \in chosen)]]
    BY <1>3 DEF SetHostChannels
  <2>3. channel' \in [Channels -> ChannelRows]
    BY <2>1, <2>2, Zenon
  <2> QED
    BY <1>1, <1>3, <2>3, ChangedFacts DEF SetHostChannels, Administers
<1>4. ASSUME NEW c \in Channels, NEW x \in ChannelRows, channel' = [channel EXCEPT ![c] = x],
             Changed, UNCHANGED rule
      PROVE  Administers
  BY <1>1, <1>4, ChangedFacts DEF Administers
<1>5. ASSUME NEW c \in Channels, ImportBlank(c) PROVE Administers
  <2>1. channel' = [channel EXCEPT ![c] =
           [channel[c] EXCEPT !.enabled = FALSE, !.needs = TRUE, !.config = FALSE]]
    BY <1>1, <1>5 DEF ImportBlank
  <2>2. Changed /\ UNCHANGED rule
    BY <1>5 DEF ImportBlank
  <2> QED BY <1>1, <1>4, <2>1, <2>2, ChannelRecords
<1>6. ASSUME NEW c \in Channels, NEW on \in BOOLEAN, NEW b \in BOOLEAN, UpdateChannel(c, on, b)
      PROVE  Administers
  <2>1. channel' = [channel EXCEPT ![c] =
           [channel[c] EXCEPT !.enabled = on, !.needs = channel[c].needs /\ ~b,
                              !.config = channel[c].config \/ b]]
    BY <1>1, <1>6 DEF UpdateChannel
  <2>2. Changed /\ UNCHANGED rule
    BY <1>6 DEF UpdateChannel
  <2> QED BY <1>1, <1>4, <2>1, <2>2, ChannelRecords
<1>7. ASSUME NEW c \in Channels, NEW on \in BOOLEAN, NEW b \in BOOLEAN, ImportKeyed(c, on, b)
      PROVE  Administers
  <2>1. channel' = [channel EXCEPT ![c] =
           [channel[c] EXCEPT !.enabled = on, !.needs = FALSE, !.config = b]]
    BY <1>1, <1>7 DEF ImportKeyed
  <2>2. Changed /\ UNCHANGED rule
    BY <1>7 DEF ImportKeyed
  <2> QED BY <1>1, <1>4, <2>1, <2>2, ChannelRecords
<1> QED
  BY <1>2, <1>3, <1>5, <1>6, <1>7 DEF AdminStep

LEMMA CrashFacts ==
    ASSUME TypeOK, Crash
    PROVE  /\ UNCHANGED <<scan, rule, channel, sent, overlap>> /\ lapse' = TRUE
           /\ eval' \in [ScanIds -> EvalRecord]
           /\ \A s \in ScanIds : /\ eval'[s].pc = "none" <=> eval[s].pc = "none"
                                 /\ eval'[s].todo # {} <=> eval'[s].pc = "send"
<1> DEFINE e == [IdleEval EXCEPT !.pc = "done"]
<1>1. e \in EvalRecord /\ e.pc = "done" /\ e.todo = {}
  BY DEF IdleEval, EvalRecord, Pcs
<1>2. eval' = [s \in ScanIds |-> IF Evaluating(s) THEN e ELSE eval[s]]
  BY DEF Crash
<1> HIDE DEF e
<1>3. \A s \in ScanIds : eval'[s] = IF Evaluating(s) THEN e ELSE eval[s]
  BY <1>2
<1>4. eval' \in [ScanIds -> EvalRecord]
  BY <1>1, <1>2, EvalTypes
<1> QED
  BY <1>1, <1>3, <1>4, EvalTypes DEF Crash, Evaluating

-----------------------------------------------------------------------------
(* The invariant.                                                          *)

\* Every step is of one of four kinds.
LEMMA StepKinds ==
    ASSUME TypeOK, Numbered, Next
    PROVE  \/ \E s \in ScanIds : EvalStep(s) /\ Evaluates(s)
           \/ \E s \in ScanIds : Proceeds(s) /\ Numbered'
           \/ Administers
           \/ Crash
<1>1. ASSUME NEW s \in ScanIds, EvalStep(s) PROVE Evaluates(s)
  BY <1>1, EvalStepFacts
<1>2. ASSUME NEW s \in ScanIds, Create(s) \/ Finish(s, "error", NoReport) \/
             \E report \in Reports : Finish(s, "ready", report)
      PROVE  Proceeds(s) /\ Numbered'
  BY <1>2, CreateFacts, FinishFacts
<1>3. AdminStep => Administers
  BY AdminFacts
<1> QED
  BY <1>1, <1>2, <1>3, Zenon DEF Next, AdminStep

LEMMA TypeStep ==
    ASSUME TypeOK, Numbered, Next
    PROVE  TypeOK'
<1>0. /\ scan \in [ScanIds -> ScanRecord] /\ rule \in [Rules -> Conditions \cup {NoRule}]
      /\ channel \in [Channels -> ChannelRows] /\ eval \in [ScanIds -> EvalRecord]
      /\ \A s \in ScanIds : eval[s].todo # {} <=> eval[s].pc = "send"
      /\ sent \subseteq ScanIds \X Rules \X Channels /\ lapse \in BOOLEAN /\ overlap \in BOOLEAN
  BY ScanTypes
<1> DEFINE Typed == /\ scan' \in [ScanIds -> ScanRecord] /\ rule' \in [Rules -> Conditions \cup {NoRule}]
                    /\ channel' \in [Channels -> ChannelRows] /\ eval' \in [ScanIds -> EvalRecord]
                    /\ \A s \in ScanIds : eval'[s].todo # {} <=> eval'[s].pc = "send"
                    /\ sent' \subseteq ScanIds \X Rules \X Channels
                    /\ lapse' \in BOOLEAN /\ overlap' \in BOOLEAN
<1>1. ASSUME NEW s \in ScanIds, Evaluates(s) PROVE Typed
  BY <1>0, <1>1 DEF Evaluates, Only
<1>2. ASSUME NEW s \in ScanIds, Proceeds(s) PROVE Typed
  <2>1. \A t \in ScanIds : eval'[t].todo # {} <=> eval'[t].pc = "send"
    <3>1. eval[s].pc = "none"
      BY <1>2 DEF Proceeds, Numbered
    <3>2. eval'[s].pc # "send" /\ eval'[s].todo = {}
      BY <1>0, <1>2, <3>1 DEF Proceeds
    <3> QED BY <1>0, <1>2, <3>2 DEF Proceeds, Only
  <2> QED
    BY <1>0, <1>2, <2>1 DEF Proceeds, Only
<1>3. ASSUME Administers PROVE Typed
  BY <1>0, <1>3 DEF Administers
<1>4. ASSUME Crash PROVE Typed
  BY <1>0, <1>4, CrashFacts
<1>5. Typed
  BY <1>1, <1>2, <1>3, <1>4, StepKinds
<1> QED
  BY <1>5, Zenon DEF TypeOK, ScanRecord, EvalRecord, Pcs

LEMMA NumberedStep ==
    ASSUME TypeOK, Numbered, Next
    PROVE  Numbered'
<1>1. ASSUME UNCHANGED <<scan, overlap>>,
             \A s \in ScanIds : eval'[s].pc = "none" <=> eval[s].pc = "none"
      PROVE  Numbered'
  <2>1. Known' = Known /\ \A s \in ScanIds : Finished(s)' <=> Finished(s)
    BY <1>1 DEF Known, Finished
  <2> QED
    BY <1>1, <2>1 DEF Numbered
<1>2. ASSUME NEW s \in ScanIds, Evaluates(s) PROVE Numbered'
  BY <1>1, <1>2 DEF Evaluates, Only
<1>3. ASSUME Administers PROVE Numbered'
  BY <1>1, <1>3 DEF Administers
<1>4. ASSUME Crash PROVE Numbered'
  BY <1>1, <1>4, CrashFacts
<1> QED
  BY <1>2, <1>3, <1>4, StepKinds

\* What was read for scan t, and what it decides, holds while t is final and
\* rules stay as they are.
LEMMA ProceedsKeeps ==
    ASSUME TypeOK, Numbered, NEW s \in ScanIds, Proceeds(s),
           NEW t \in ScanIds, Finished(t), NEW p \in ScanIds \cup {NoScan}, Earlier(t, p)
    PROVE  Earlier(t, p)' /\ \A r \in Rules : Matches(rule[r], t, p)' => Matches(rule[r], t, p)
<1>1. t # s /\ scan'[t] = scan[t]
  BY DEF Proceeds
<1>2. \A u \in ScanIds : u \in Ready => u # s /\ u \in Ready'
  BY DEF Proceeds, Ready, Finished
<1>3. p = NoScan \/ (p \in ScanIds /\ p # s /\ scan'[p] = scan[p])
  BY <1>2 DEF Earlier, Ready, Proceeds
<1>4. p = NoScan \/ (p \in Ready' /\ p < t)
  BY <1>2 DEF Earlier, Ready
<1>5. ASSUME ~overlap' PROVE p = PreviousReady(t)'
  <2>1. ~overlap /\ t \in Known
    BY <1>5 DEF Proceeds, Finished, Known
  <2>2. \A u \in ScanIds : u < t => u # s
    BY <2>1 DEF Numbered, Proceeds
  <2>3. {u \in Ready : u < t} = {u \in Ready' : u < t}
    BY <2>2 DEF Proceeds, Ready
  <2>4. p = PreviousReady(t)
    BY <2>1 DEF Earlier
  <2> QED
    BY <2>3, <2>4 DEF PreviousReady
<1>6. Overall(t)' = Overall(t) /\ (p # NoScan => Overall(p)' = Overall(p))
  BY <1>1, <1>3 DEF Overall
<1>7. rule' = rule
  BY DEF Proceeds
<1>8. \A r \in Rules : Matches(rule[r], t, p)' => Matches(rule[r], t, p)
  BY <1>1, <1>6, <1>7 DEF Matches
<1> QED
  BY <1>4, <1>5, <1>8 DEF Earlier

LEMMA EvaluatesKeeps ==
    ASSUME NEW s \in ScanIds, Evaluates(s), NEW t \in ScanIds, NEW p \in ScanIds \cup {NoScan}
    PROVE  /\ Earlier(t, p) => Earlier(t, p)'
           /\ \A r \in Rules : Matches(rule[r], t, p)' => Matches(rule[r], t, p)
           /\ \A c \in Channels : Usable(c)' => Usable(c)
<1>1. UNCHANGED <<scan, rule, channel, overlap>>
  BY DEF Evaluates
<1>2. Ready' = Ready /\ Overall(t)' = Overall(t) /\ Overall(p)' = Overall(p)
  BY <1>1 DEF Ready, Overall
<1> QED
  BY <1>1, <1>2 DEF Earlier, PreviousReady, Latest, Matches, Usable

\* The evaluation that goes on keeps what it promised.
LEMMA EvaluatesJudged ==
    ASSUME TypeOK, Judged, NEW s \in ScanIds, Evaluates(s), ~lapse'
    PROVE  Judged'
<1>1. Advances(s) /\ UNCHANGED <<scan, rule, channel, overlap>> /\ sent \subseteq sent'
  BY DEF Evaluates
<1>2. ASSUME NEW t \in ScanIds, t # s
      PROVE  /\ eval'[t].pc = "rules" => Earlier(t, eval[t].previous)'
             /\ Decided(t)' => \E p \in ScanIds \cup {NoScan} : Earlier(t, p)' /\ Kept(t, p)'
  <2>1. eval'[t] = eval[t] /\ eval[t].previous \in ScanIds \cup {NoScan}
    BY <1>2, EvalTypes DEF Evaluates, Only, EvalRecord
  <2>2. ASSUME eval'[t].pc = "rules" PROVE Earlier(t, eval[t].previous)'
    <3>1. PICK p \in ScanIds \cup {NoScan} : p = eval[t].previous
      BY <2>1
    <3>2. Earlier(t, p)
      BY <2>1, <2>2, <3>1 DEF Judged
    <3>3. Earlier(t, p)'
      BY <3>2, EvaluatesKeeps
    <3> QED BY <2>1, <3>1, <3>3 DEF Earlier
  <2>3. ASSUME Decided(t)'
        PROVE  \E p \in ScanIds \cup {NoScan} : Earlier(t, p)' /\ Kept(t, p)'
    <3>1. PICK p \in ScanIds \cup {NoScan} : Earlier(t, p) /\ Kept(t, p)
      BY <2>1, <2>3 DEF Judged, Decided
    <3>2. \A r \in Rules : Promised(t, r) => Promised(t, r)'
      BY <1>1, <2>1 DEF Promised, Usable
    <3>3. Kept(t, p)'
      BY <3>1, <3>2, EvaluatesKeeps DEF Kept
    <3> QED BY <3>1, <3>3, EvaluatesKeeps
  <2> QED BY <2>2, <2>3
<1>3. eval'[s].pc = "rules" => Earlier(s, eval[s].previous)'
  <2> SUFFICES ASSUME eval'[s].pc = "rules" PROVE Earlier(s, eval[s].previous)'
    OBVIOUS
  <2>1. eval'[s].previous = PreviousReady(s)
    BY <1>1 DEF Advances
  <2>2. PICK p \in ScanIds \cup {NoScan} : p = PreviousReady(s)
    BY PreviousFacts
  <2>3. Earlier(s, p)
    BY <2>2, PreviousFacts DEF Earlier
  <2>4. Earlier(s, p)'
    BY <2>3, EvaluatesKeeps
  <2> QED BY <2>1, <2>2, <2>4 DEF Earlier
<1>4. ASSUME Decided(s)'
      PROVE  \E p \in ScanIds \cup {NoScan} : Earlier(s, p)' /\ Kept(s, p)'
  <2>1. CASE eval[s].pc = "rules"
    <3>1. PICK p \in ScanIds \cup {NoScan} : p = eval[s].previous
      BY EvalTypes DEF EvalRecord
    <3>2. Earlier(s, p)
      BY <2>1, <3>1 DEF Judged
    <3>3. \A r \in Rules : Matches(rule[r], s, p) => Promised(s, r)'
      BY <1>1, <1>4, <2>1, <3>1 DEF Advances, Promised, Decided
    <3>4. Kept(s, p)'
      BY <3>3, EvaluatesKeeps DEF Kept
    <3> QED BY <3>2, <3>4, EvaluatesKeeps
  <2>2. CASE eval[s].pc \in {"channels", "send"}
    <3>1. PICK p \in ScanIds \cup {NoScan} : Earlier(s, p) /\ Kept(s, p)
      BY <2>2 DEF Judged, Decided
    <3>2. ASSUME NEW r \in Rules, Promised(s, r) PROVE Promised(s, r)'
      <4>1. CASE eval[s].pc = "channels"
        <5>1. eval'[s].pc \in {"send", "done"} /\ \A c \in Channels :
                 Usable(c) => <<r, c, channel[c].config>> \in eval'[s].todo
          BY <1>1, <1>4, <3>2, <4>1 DEF Advances, Promised, Decided
        <5> QED BY <1>1, <5>1 DEF Promised, Usable
      <4>2. CASE eval[s].pc = "send"
        <5>1. eval'[s].pc \in {"send", "done"}
              /\ \A m \in eval[s].todo : m \in eval'[s].todo \/ <<s, m[1], m[2]>> \in sent'
          BY <1>1, <1>4, <4>2 DEF Advances, Decided
        <5>2. ASSUME NEW c \in Channels, Usable(c)
              PROVE  <<s, r, c>> \in sent' \/ <<r, c, channel[c].config>> \in eval'[s].todo
          <6>1. <<s, r, c>> \in sent \/ <<r, c, channel[c].config>> \in eval[s].todo
            BY <3>2, <4>2, <5>2 DEF Promised
          <6> DEFINE m == <<r, c, channel[c].config>>
          <6>2. m[1] = r /\ m[2] = c
            OBVIOUS
          <6> QED BY <1>1, <5>1, <6>1, <6>2
        <5> QED BY <1>1, <5>1, <5>2 DEF Promised, Usable
      <4> QED BY <2>2, <4>1, <4>2
    <3>3. Kept(s, p)'
      BY <3>1, <3>2, EvaluatesKeeps DEF Kept
    <3> QED BY <3>1, <3>3, EvaluatesKeeps
  <2>3. eval[s].pc \in {"rules", "channels", "send"}
    BY <1>1, <1>4 DEF Advances, Decided
  <2> QED BY <2>1, <2>2, <2>3
<1> QED
  BY <1>2, <1>3, <1>4 DEF Judged

LEMMA JudgedStep ==
    ASSUME IInv, Next, ~lapse'
    PROVE  Judged'
<1>0. TypeOK /\ Numbered /\ lapse \in BOOLEAN
  BY EvalTypes, ScanTypes DEF IInv
<1>1. ASSUME NEW s \in ScanIds, Evaluates(s) PROVE Judged'
  BY <1>1, EvaluatesJudged DEF IInv, Evaluates
<1>2. ASSUME NEW s \in ScanIds, Proceeds(s) PROVE Judged'
  <2>1. Judged
    BY <1>2 DEF IInv, Proceeds
  <2>2. ASSUME NEW t \in ScanIds, eval'[t].pc = "rules" \/ Decided(t)'
        PROVE  Finished(t) /\ eval'[t] = eval[t]
    <3>1. t # s
      BY <1>0, <1>2, <2>2 DEF Proceeds, Numbered, Decided
    <3>2. eval'[t] = eval[t]
      BY <1>2, <3>1 DEF Proceeds, Only
    <3> QED BY <1>0, <2>2, <3>2 DEF Numbered, Decided
  <2>3. ASSUME NEW t \in ScanIds, eval'[t].pc = "rules" PROVE Earlier(t, eval[t].previous)'
    <3>1. PICK p \in ScanIds \cup {NoScan} : p = eval[t].previous
      BY <1>0, EvalTypes DEF EvalRecord
    <3>2. Earlier(t, p) /\ Finished(t) /\ eval'[t] = eval[t]
      BY <2>1, <2>2, <2>3, <3>1 DEF Judged
    <3>3. Earlier(t, p)'
      BY <1>0, <1>2, <3>2, ProceedsKeeps
    <3> QED BY <3>1, <3>2, <3>3 DEF Earlier
  <2>4. ASSUME NEW t \in ScanIds, Decided(t)'
        PROVE  \E p \in ScanIds \cup {NoScan} : Earlier(t, p)' /\ Kept(t, p)'
    <3>1. Finished(t) /\ eval'[t] = eval[t]
      BY <2>2, <2>4
    <3>2. PICK p \in ScanIds \cup {NoScan} : Earlier(t, p) /\ Kept(t, p)
      BY <2>1, <2>4, <3>1 DEF Judged, Decided
    <3>3. Earlier(t, p)' /\ \A r \in Rules : Matches(rule[r], t, p)' => Matches(rule[r], t, p)
      BY <1>0, <1>2, <3>1, <3>2, ProceedsKeeps
    <3>4. \A r \in Rules : Promised(t, r) => Promised(t, r)'
      BY <1>2, <3>1 DEF Promised, Usable, Proceeds
    <3> QED BY <3>2, <3>3, <3>4 DEF Kept
  <2> QED BY <2>3, <2>4 DEF Judged
<1>3. ASSUME Administers PROVE Judged'
  <2>1. \A t \in ScanIds : eval'[t].pc = "none"
    BY <1>0, <1>3 DEF Administers, Known, Finished, Numbered
  <2> QED BY <2>1 DEF Judged, Decided
<1>4. Crash => lapse'
  BY DEF Crash
<1> QED
  BY <1>0, <1>1, <1>2, <1>3, <1>4, StepKinds

LEMMA NextIInv == IInv /\ [Next]_vars => IInv'
<1> SUFFICES ASSUME IInv, [Next]_vars PROVE IInv'
  OBVIOUS
<1>1. CASE Next
  BY <1>1, TypeStep, NumberedStep, JudgedStep DEF IInv
<1>2. CASE UNCHANGED vars
  <2>1. TypeOK' /\ Numbered'
    BY <1>2 DEF vars, IInv, TypeOK, Numbered, Known, Finished
  <2>2. Ready' = Ready /\ \A t : Overall(t)' = Overall(t) /\ PreviousReady(t)' = PreviousReady(t)
    BY <1>2 DEF vars, Ready, Overall, PreviousReady
  <2>3. \A w, t, p : Matches(w, t, p)' <=> Matches(w, t, p)
    BY <1>2, <2>2 DEF vars, Matches
  <2>4. \A t, r : Promised(t, r)' <=> Promised(t, r)
    BY <1>2 DEF vars, Promised, Usable
  <2>5. \A t, p : (Earlier(t, p)' <=> Earlier(t, p)) /\ (Kept(t, p)' <=> Kept(t, p))
    BY <1>2, <2>2, <2>3, <2>4 DEF vars, Earlier, Kept
  <2>6. (~lapse => Judged)'
    BY <1>2, <2>5 DEF vars, IInv, Judged, Decided
  <2> QED BY <2>1, <2>6 DEF IInv
<1> QED
  BY <1>1, <1>2

LEMMA Invariance == Spec => []IInv
BY InitIInv, NextIInv, PTL DEF Spec

-----------------------------------------------------------------------------
(* Grades.                                                                 *)

LEMMA GradeRankType == \A g : GradeRank(g) \in Int
<1>1. DOMAIN Scale = 1 .. 8
  BY DEF Scale
<1> QED BY <1>1 DEF GradeRank

\* The loop of overallGrade keeps the lowest of the grades it has seen.
LEMMA LowestGradeIsLowest ==
    ASSUME NEW G, NEW grades \in Seq(G)
    PROVE  \A i \in DOMAIN grades : grades[i] # "" => GradeRank(LowestGrade(grades)) <= GradeRank(grades[i])
<1> DEFINE D == DOMAIN grades
           Lower(w, i) == IF grades[i] # "" /\ (w = "" \/ GradeRank(grades[i]) < GradeRank(w)) THEN grades[i] ELSE w
           Equation(it) == it = [s \in SUBSET D |-> IF s = {} THEN "" ELSE Lower(it[s \ {Max(s)}], Max(s))]
           fold == CHOOSE it : Equation(it)
           V == {""} \cup {grades[i] : i \in D}
           pick == [s \in SUBSET D |-> Max(s)]
           step == [p \in V \X D |-> Lower(p[1], p[2])]
<1>1. D = 1 .. Len(grades) /\ Len(grades) \in Nat /\ IsFiniteSet(D)
  <2>1. D = 1 .. Len(grades) /\ Len(grades) \in Nat
    OBVIOUS
  <2> HIDE DEF D
  <2> QED BY <2>1, FS_Interval
<1>2. ASSUME NEW s \in SUBSET D, s # {} PROVE pick[s] \in s /\ Max(s) \in s
  <2>1. s \in SUBSET Int /\ IsFiniteSet(s)
    <3>1. D \subseteq Int
      BY <1>1
    <3> HIDE DEF D
    <3>2. IsFiniteSet(s)
      BY <1>1, FS_Subset
    <3> QED BY <3>1, <3>2
  <2>2. Max(s) \in s
    BY <2>1, <1>2, MaxOfSet
  <2> HIDE DEF D
  <2> QED BY <2>2
<1>3. step \in [V \X D -> V] /\ "" \in V
  <2>1. ASSUME NEW w \in V, NEW i \in D PROVE Lower(w, i) \in V
    OBVIOUS
  <2> HIDE DEF V, D, Lower
  <2>2. \A p \in V \X D : p[1] \in V /\ p[2] \in D
    OBVIOUS
  <2>3. \A p \in V \X D : Lower(p[1], p[2]) \in V
    BY <2>1, <2>2
  <2>4. "" \in V
    BY DEF V
  <2> QED BY <2>3, <2>4
<1>4. PICK it : IsFold(it, D, V, "", pick, step)
  <2> HIDE DEF V, D, step, pick
  <2> QED BY <1>1, <1>2, <1>3, FoldExists
<1>5. Equation(it)
  <2>1. ASSUME NEW s \in SUBSET D, s # {}
        PROVE  it[s] = Lower(it[s \ {Max(s)}], Max(s))
    <3>1. it[s \ {Max(s)}] \in V /\ Max(s) \in D
      <4> HIDE DEF V, D
      <4> QED BY <1>2, <1>4, <2>1 DEF IsFold
    <3>2. it[s] = step[<<it[s \ {Max(s)}], Max(s)>>]
      <4> HIDE DEF V, D, step
      <4> QED BY <1>4, <2>1 DEF IsFold
    <3> HIDE DEF V, D, Lower
    <3> QED BY <3>1, <3>2
  <2>2. it \in [SUBSET D -> V] /\ it[{}] = ""
    <3> HIDE DEF V, D, step, pick
    <3> QED BY <1>4 DEF IsFold
  <2> HIDE DEF V, D, Lower
  <2> QED BY <2>1, <2>2
<1>6. Equation(fold)
  <2> HIDE DEF Equation
  <2> QED BY <1>5
<1>7. LowestGrade(grades) = fold[D]
  BY DEF LowestGrade, FoldLeft, MapThenFoldSet
<1> DEFINE T == {s \in SUBSET D : \A i \in s : grades[i] # "" =>
                     fold[s] # "" /\ GradeRank(fold[s]) <= GradeRank(grades[i])}
<1>8. ASSUME NEW s \in SUBSET D, s # {}, s \ {pick[s]} \in T PROVE s \in T
  <2> DEFINE m == Max(s)
             w == fold[s \ {m}]
  <2>1. pick[s] = m /\ m \in s
    BY <1>2, <1>8
  <2>2. fold[s] = Lower(w, m)
    <3> HIDE DEF fold, Lower, D
    <3> QED BY <1>6, <1>8
  <2>3. ASSUME NEW i \in s \ {m}, grades[i] # "" PROVE w # "" /\ GradeRank(w) <= GradeRank(grades[i])
    <3> HIDE DEF fold, D
    <3> QED BY <1>8, <2>1, <2>3
  <2>4. ASSUME NEW i \in s, grades[i] # "" PROVE fold[s] # "" /\ GradeRank(fold[s]) <= GradeRank(grades[i])
    <3> DEFINE Blank(g) == g = ""
    <3>0. GradeRank(w) \in Int /\ GradeRank(grades[i]) \in Int /\ GradeRank(grades[m]) \in Int
      BY GradeRankType
    <3>1. fold[s] = IF ~Blank(grades[m]) /\ (Blank(w) \/ GradeRank(grades[m]) < GradeRank(w)) THEN grades[m] ELSE w
      BY <2>2 DEF Lower
    <3>2. ~Blank(grades[i])
      BY <2>4
    <3>3. i # m => ~Blank(w) /\ GradeRank(w) <= GradeRank(grades[i])
      <4> HIDE DEF fold, D, m, w
      <4> QED BY <2>3, <2>4
    <3>4. ~Blank(fold[s]) /\ GradeRank(fold[s]) <= GradeRank(grades[i])
      <4> HIDE DEF fold, D, m, w, Lower, Blank
      <4>1. CASE i = m
        BY <3>0, <3>1, <3>2, <4>1
      <4>2. CASE i # m
        BY <3>0, <3>1, <3>3, <4>2
      <4> QED BY <4>1, <4>2
    <3> HIDE DEF fold, D, m, w, Lower
    <3> QED BY <3>4
  <2> HIDE DEF fold, D
  <2> QED BY <2>4
<1>9. D \in T
  <2>1. {} \in T
    OBVIOUS
  <2> HIDE DEF T, D, pick
  <2> QED BY <1>1, <1>2, <1>8, <2>1, FoldInduction
<1> QED
  <2> HIDE DEF fold
  <2> QED BY <1>7, <1>9

LEMMA OverallIsLowest == TypeOK => GradeIsWorst
<1> SUFFICES ASSUME TypeOK, NEW s \in Ready PROVE LET grades == scan[s].report.grades IN
        \A i \in DOMAIN grades : grades[i] # "" => GradeRank(Overall(s)) <= GradeRank(grades[i])
  BY DEF GradeIsWorst
<1>1. s \in ScanIds
  BY DEF Ready
<1>2. scan[s].report \in Reports \cup {NoReport}
  BY <1>1 DEF TypeOK
<1>3. NoReport.grades = <<>>
  BY DEF NoReport
<1>4. scan[s].report.grades \in Seq(STRING)
  <2>1. <<>> \in Seq(STRING)
    OBVIOUS
  <2> QED BY <1>2, <1>3, <2>1, ReportsAssumption, Zenon
<1> QED BY <1>4, LowestGradeIsLowest DEF Overall

-----------------------------------------------------------------------------
(* Theorems.                                                               *)

\* Every variable keeps its type; only an evaluation that is sending has
\* messages to send (Evaluate).
THEOREM TypeCorrect == Spec => []TypeOK
<1>1. IInv => TypeOK
  BY DEF IInv
<1> QED
  BY <1>1, Invariance, PTL

\* The overall grade of a ready scan is the lowest of its endpoints' grades,
\* however many endpoints it has and whatever grades (overallGrade).
THEOREM OverallIsWorst == Spec => []GradeIsWorst
<1>1. IInv => GradeIsWorst
  BY OverallIsLowest DEF IInv
<1> QED
  BY <1>1, Invariance, PTL

\* No drop between two consecutive ready scans of a host goes unreported by a
\* grade_downgraded rule, however many failed scans lie between (PreviousReady
\* goes by row id, matches).
THEOREM NoDropIsMissed == Spec => []NoDropMissed
<1>1. ASSUME IInv, ~lapse, ~overlap, NEW s \in Ready, NEW t \in Ready,
             NEW r \in Rules, NEW c \in Channels,
             eval[s].pc = "done", t < s, ~\E u \in Ready : t < u /\ u < s,
             GradeRank(Overall(s)) < GradeRank(Overall(t)),
             rule[r].cond = "grade_downgraded", Usable(c)
      PROVE  <<s, r, c>> \in sent
  <2>1. s \in ScanIds /\ t \in ScanIds /\ scan[s].status = "ready" /\ eval[s].todo = {}
    BY <1>1, EvalTypes DEF Ready, IInv
  <2>2. PICK p \in ScanIds \cup {NoScan} : Earlier(s, p) /\ Kept(s, p)
    BY <1>1, <2>1 DEF IInv, Judged, Decided
  <2>3. p = t
    <3>1. p = PreviousReady(s)
      BY <1>1, <2>2 DEF Earlier
    <3>2. p \in Ready /\ p < s /\ t <= p
      BY <1>1, <2>1, <3>1, PreviousFacts
    <3> QED BY <1>1, <2>1, <3>2 DEF ScanIds, Ready
  <2>4. t # NoScan
    BY <2>1 DEF ScanIds, NoScan
  <2>5. Promised(s, r)
    BY <1>1, <2>1, <2>2, <2>3, <2>4 DEF Kept, Matches
  <2> QED BY <1>1, <2>1, <2>5 DEF Promised
<1>2. IInv => NoDropMissed
  BY <1>1 DEF NoDropMissed
<1> QED
  BY <1>2, Invariance, PTL

\* A grade_below alert is suppressed only as a repeat of one that was sent, or is
\* being sent, for an earlier scan with the same grade (matches).
THEOREM OnlyRepeatsAreSuppressed == Spec => []SuppressedAsRepeat
<1>1. ASSUME IInv, ~lapse, NEW s \in Ready, NEW r \in Rules, eval[s].pc = "done",
             rule[r].cond = "grade_below", GradeRank(Overall(s)) < GradeRank(rule[r].threshold)
      PROVE  \E t \in Ready : /\ t <= s /\ Overall(t) = Overall(s)
                              /\ \A c \in Channels :
                                    Usable(c) => <<t, r, c>> \in sent \/ Evaluating(t)
  <2> DEFINE Alike == {t \in Ready : t <= s /\ Overall(t) = Overall(s)}
  <2>1. Alike \in SUBSET (1 .. MaxScans) /\ s \in Alike
    BY DEF Ready, ScanIds
  <2>2. PICK t \in Alike : \A u \in Alike : t <= u
    <3> HIDE DEF Alike
    <3> QED BY <2>1, LeastId
  <2>3. t \in ScanIds /\ scan[t].status = "ready"
    BY DEF Ready
  <2>4. CASE Evaluating(t)
    BY <2>4
  <2>5. CASE ~Evaluating(t)
    <3>1. eval[t].pc = "done" /\ eval[t].todo = {}
      BY <1>1, <2>3, <2>5, EvalTypes DEF IInv, Numbered, Finished, Evaluating
    <3>2. PICK p \in ScanIds \cup {NoScan} : Earlier(t, p) /\ Kept(t, p)
      BY <1>1, <2>3, <3>1 DEF IInv, Judged, Decided
    <3>3. p # NoScan => Overall(p) # Overall(t)
      <4> SUFFICES ASSUME p # NoScan, Overall(p) = Overall(t) PROVE FALSE
        OBVIOUS
      <4>1. p \in Ready /\ p < t
        BY <3>2 DEF Earlier
      <4>2. p \in Int /\ t \in Int /\ s \in Int /\ t <= s
        BY <2>1, <2>3, <4>1 DEF ScanIds, Ready
      <4>3. p \in Alike
        BY <4>1, <4>2
      <4> QED BY <2>2, <4>1, <4>2, <4>3
    <3>4. Promised(t, r)
      BY <1>1, <2>3, <3>2, <3>3 DEF Kept, Matches
    <3> QED BY <3>1, <3>4 DEF Promised
  <2> QED BY <2>4, <2>5
<1>2. IInv => SuppressedAsRepeat
  BY <1>1 DEF SuppressedAsRepeat
<1> QED
  BY <1>2, Invariance, PTL
=============================================================================
