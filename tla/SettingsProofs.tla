--------------------------- MODULE SettingsProofs ---------------------------
(***************************************************************************)
(* Theorems about Settings, for every set of settings, patches, requests   *)
(* and migrations, whatever crashes, restarts and lost answers do.         *)
(***************************************************************************)
EXTENDS Settings, TLAPS

-----------------------------------------------------------------------------
(* Tables and patches.                                                     *)

TableKeys == Keys \cup {SecretKey}

\* A patch over a table is a table, with the table's secret.
LEMMA PatchedTable ==
    ASSUME NEW p \in Patches, NEW t \in StringTable
    PROVE  /\ Over(p, t) \in StringTable
           /\ Over(p, t)[SecretKey] = t[SecretKey]
           /\ \A k \in Keys : Over(p, t)[k] = IF k \in DOMAIN p THEN p[k] ELSE t[k]
           /\ DOMAIN p \subseteq Keys
BY SettingsAssumption DEF Over, StringTable

\* An empty table is not a table of settings.
LEMMA NoTableIsNone == NoTable \notin StringTable
BY DEF NoTable, StringTable

\* The seed completes a table and overwrites nothing.
LEMMA SeededTable ==
    ASSUME NEW t, t = NoTable \/ t \in StringTable
    PROVE  /\ Over(t, Defaults) \in StringTable
           /\ t = NoTable => Over(t, Defaults) = Defaults
           /\ t \in StringTable => Over(t, Defaults) = t
<1> USE SettingsAssumption
<1>1. Defaults \in StringTable
  BY DEF Defaults, StringTable
<1>2. DOMAIN Defaults = Keys \cup {SecretKey} /\ Defaults = [k \in Keys \cup {SecretKey} |-> Defaults[k]]
  BY DEF Defaults
<1>3. CASE t = NoTable
  <2>1. DOMAIN t = {}
    BY <1>3 DEF NoTable
  <2>2. Over(t, Defaults) = [k \in Keys \cup {SecretKey} |-> Defaults[k]]
    BY <1>2, <2>1 DEF Over
  <2> QED
    BY <1>1, <1>2, <1>3, <2>2, NoTableIsNone
<1>4. CASE t \in StringTable
  <2>1. DOMAIN t = Keys \cup {SecretKey} /\ t = [k \in Keys \cup {SecretKey} |-> t[k]]
    BY <1>4 DEF StringTable
  <2>2. Over(t, Defaults) = [k \in Keys \cup {SecretKey} |-> t[k]]
    BY <1>2, <2>1 DEF Over
  <2> QED
    BY <1>4, <2>1, <2>2, NoTableIsNone
<1> QED
  BY <1>3, <1>4

LEMMA DefaultsBuild == Builds(Defaults) /\ Defaults[SecretKey] = ""
BY SettingsAssumption DEF Builds, Defaults

\* A table of settings has every key.
LEMMA TableTypes ==
    ASSUME NEW t \in StringTable
    PROVE  /\ t[SecretKey] \in Values \cup Secrets \cup {""}
           /\ \A k \in Keys : t[k] \in Shown
BY DEF StringTable, Shown

-----------------------------------------------------------------------------
(* Type correctness.                                                       *)

Update(c) == callers[c].pc \in {"persist", "swap", "notify"}

\* What TypeOK needs to be inductive: the locals of main and of the requests are
\* set where the code reads them.
LocalsSet ==
    /\ pc \in {"load", "secret", "build", "admin", "create", "serving"} => settings \in StringTable
    /\ pc \in {"secret", "build", "admin", "create", "serving"} => raw \in StringTable
    /\ pc \in {"build", "admin", "create", "serving"} => raw[SecretKey] \in used
    /\ pc \in {"admin", "create", "serving"} => proc.secret \in used
    /\ pc = "secret" => settings[SecretKey] = ""
    /\ pc \in {"secret", "build", "admin", "create"} => raw = settings
    /\ settings # NoTable => settings[SecretKey] \in used \cup {""}
    /\ pc = "serving" => settings[SecretKey] = raw[SecretKey]
    /\ \A c \in Callers : callers[c].pc = "lock" \/ Update(c) => callers[c].patch \in Patches
    /\ \A c \in Callers : Update(c) => callers[c].merged \in StringTable
    /\ \A c \in Callers : callers[c].pc \in {"persist", "swap"} => callers[c].merged = Over(callers[c].patch, raw)

\* What the process serves: between updates the stored settings, but for keys
\* stored behind its back; what a caller has stored is ahead of raw until Swap.
Tracking ==
    /\ settings # NoTable => Builds(settings)
    /\ \A c \in Callers : Update(c) => Builds(callers[c].merged)
    /\ \A c \in Callers : callers[c].pc = "notify" => callers[c].merged = raw
    /\ pc \in {"admin", "create", "serving"} => Builds(raw) /\ snap = Snapshot(raw) /\ proc.secret = raw[SecretKey]
    /\ pc \in {"admin", "create", "serving"} /\ (\A c \in Callers : callers[c].pc # "notify") => level = snap[LogLevel]
    /\ \A s \in sessions : settings # NoTable /\ settings[SecretKey] = s
    /\ pc = "serving" /\ (\A c \in Callers : callers[c].pc # "swap") => \A k \in Keys \ ahead : settings[k] = raw[k]
    /\ \A c \in Callers : callers[c].pc = "swap" => \A k \in Keys \ ahead : settings[k] = callers[c].merged[k]
    /\ AdminSeeded

IInv == TypeOK /\ LocalsSet /\ Tracking

LEMMA SnapshotShown ==
    ASSUME NEW t \in StringTable, Builds(t)
    PROVE  Snapshot(t) \in [Keys -> Shown]
BY SettingsAssumption DEF Builds, Snapshot, Shown

LEMMA NoProcessTyped == NoProcess \in Process
<1>1. 0 \in Nat /\ 1 \in Nat \ {0} /\ FALSE \in BOOLEAN
  OBVIOUS
<1> QED
  BY <1>1, Zenon DEF NoProcess, Process

LEMMA InitIInv == Init => IInv
<1> SUFFICES ASSUME Init PROVE IInv
  OBVIOUS
<1> USE DEF Init
<1>1. EmptySchema \in [recorded : SUBSET Nat, bodies : Seq(Nat)]
  BY DEF EmptySchema
<1>2. Idle \in Caller /\ Idle.pc = "idle"
  <2>1. NoTable \in [{} -> Shown]
    BY DEF NoTable
  <2> QED
    BY <2>1 DEF Idle, Caller
<1>3. NoProcess \in Process
  BY NoProcessTyped
<1>4. TypeOK
  BY <1>1, <1>2, <1>3, NoCallerAssumption DEF TypeOK, StartPcs
<1>5. LocalsSet
  BY <1>2 DEF LocalsSet, Update
<1>6. Tracking
  BY <1>2 DEF Tracking, AdminSeeded, Update
<1> QED
  BY <1>4, <1>5, <1>6 DEF IInv

\* The steps of a start and of a death: no request is under way.
LEMMA StartInv == IInv /\ StartStep => IInv'
<1> SUFFICES ASSUME IInv, StartStep PROVE IInv'
  OBVIOUS
<1> USE DEF database, service
<1>idle. Idle \in Caller /\ Idle.pc = "idle"
  <2>1. NoTable \in [{} -> Shown]
    BY DEF NoTable
  <2> QED
    BY <2>1 DEF Idle, Caller
<1>schema. EmptySchema \in [recorded : SUBSET Nat, bodies : Seq(Nat)]
  BY DEF EmptySchema
<1>1. ASSUME NEW shipped \in 1 .. Versions, NEW creds \in BOOLEAN, Start(shipped, creds) PROVE IInv'
  <2>0. proc' \in Process
    <3>0. Versions \in Nat
      BY SettingsAssumption
    <3>1. shipped \in Nat /\ 1 \in Nat \ {0}
      BY <3>0
    <3> QED
      BY <1>1, <3>1, Zenon DEF Start, Process
  <2>1. TypeOK'
    BY <1>1, <2>0, <1>idle DEF IInv, TypeOK, Start, StartPcs
  <2>2. LocalsSet'
    BY <1>1, <1>idle DEF IInv, LocalsSet, TypeOK, Start, Update
  <2>3. Tracking'
    BY <1>1, <1>idle DEF IInv, Tracking, TypeOK, Start, Update, AdminSeeded, Builds
  <2> QED
    BY <2>1, <2>2, <2>3 DEF IInv
<1>2. CASE CheckMigration \/ ApplyBody \/ RecordMigration \/ CommitMigration
  <2> USE DEF CheckMigration, ApplyBody, RecordMigration, CommitMigration
  <2>0. proc' \in Process
    <3>1. proc \in Process /\ (proc' = proc \/ proc' = [proc EXCEPT !.next = proc.next + 1])
      BY <1>2 DEF IInv, TypeOK
    <3>2. proc.next \in Nat \ {0}
      BY <3>1, Zenon DEF Process
    <3>3. proc.next + 1 \in Nat \ {0}
      BY <3>2
    <3> QED
      BY <3>1, <3>3 DEF Process
  <2>1. /\ schema' \in [recorded : SUBSET Nat, bodies : Seq(Nat)]
        /\ tx' \in [recorded : SUBSET Nat, bodies : Seq(Nat)]
    <3>1. Append(tx.bodies, proc.next) \in Seq(Nat) /\ tx.recorded \cup {proc.next} \in SUBSET Nat
      <4>1. /\ tx \in [recorded : SUBSET Nat, bodies : Seq(Nat)]
            /\ proc.next \in Nat
        BY DEF IInv, TypeOK, Process
      <4> QED
        BY <4>1
    <3>2. \/ schema' = schema \/ schema' = tx
      BY <1>2
    <3>3. \/ tx' = tx \/ tx' = schema
          \/ tx' = [tx EXCEPT !.bodies = Append(tx.bodies, proc.next)]
          \/ tx' = [tx EXCEPT !.recorded = tx.recorded \cup {proc.next}]
      BY <1>2
    <3> QED
      BY <3>1, <3>2, <3>3 DEF IInv, TypeOK
  <2>2. /\ pc \in {"migrate", "body", "record", "commit"} /\ pc' \in {"migrate", "body", "record", "commit", "seed"}
        /\ UNCHANGED <<settings, users, service, callers, used, sessions, ahead>>
    BY <1>2
  <2>3. TypeOK'
    BY <2>0, <2>1, <2>2 DEF IInv, TypeOK, StartPcs
  <2>4. LocalsSet'
    BY <2>2, <1>idle DEF IInv, LocalsSet, TypeOK, Update
  <2>5. Tracking'
    BY <2>2, <1>idle DEF IInv, Tracking, TypeOK, Update, AdminSeeded, Builds
  <2> QED
    BY <2>3, <2>4, <2>5 DEF IInv
<1>3. CASE SeedDefaults
  <2>1. settings' \in StringTable /\ Builds(settings') /\ settings'[SecretKey] \in used \cup {""}
    <3>1. settings = NoTable \/ settings \in StringTable
      BY DEF IInv, TypeOK
    <3>2. settings' = Over(settings, Defaults)
      BY <1>3 DEF SeedDefaults
    <3>3. CASE settings = NoTable
      BY <3>2, <3>3, SeededTable, DefaultsBuild
    <3>4. CASE settings \in StringTable
      BY <3>2, <3>4, SeededTable, NoTableIsNone DEF IInv, LocalsSet, Tracking
    <3> QED
      BY <3>1, <3>3, <3>4
  <2>2. settings # NoTable => settings' = settings
    BY <1>3, SeededTable DEF IInv, TypeOK, SeedDefaults
  <2>3. TypeOK'
    BY <1>3, <2>1 DEF IInv, TypeOK, SeedDefaults, StartPcs
  <2>4. LocalsSet'
    BY <1>3, <2>1, <1>idle DEF IInv, LocalsSet, TypeOK, SeedDefaults, Update
  <2>5. Tracking'
    BY <1>3, <2>1, <2>2, <1>idle, NoTableIsNone DEF IInv, Tracking, TypeOK, SeedDefaults, Update, AdminSeeded, Builds
  <2> QED
    BY <2>3, <2>4, <2>5 DEF IInv
<1>4. CASE Load
  <2>1. TypeOK'
    BY <1>4 DEF IInv, TypeOK, LocalsSet, Load, StartPcs
  <2>2. LocalsSet'
    BY <1>4, <1>idle, NoTableIsNone DEF IInv, LocalsSet, TypeOK, Load, Update
  <2>3. Tracking'
    BY <1>4, <1>idle DEF IInv, Tracking, TypeOK, Load, Update, AdminSeeded, Builds
  <2> QED
    BY <2>1, <2>2, <2>3 DEF IInv
<1>5. CASE GenerateSecret
  <2>1. PICK s \in Secrets \ used : /\ settings' = [settings EXCEPT ![SecretKey] = s]
                                    /\ raw' = [raw EXCEPT ![SecretKey] = s]
                                    /\ used' = used \cup {s}
    BY <1>5 DEF GenerateSecret
  <2>2. /\ settings' \in StringTable /\ raw' = settings' /\ settings'[SecretKey] = s
        /\ \A k \in Keys : settings'[k] = settings[k]
    <3>1. settings \in StringTable /\ raw = settings /\ SecretKey \notin Keys
      BY <1>5, SettingsAssumption DEF IInv, LocalsSet, GenerateSecret
    <3> QED
      BY <2>1, <3>1 DEF StringTable
  <2>3. sessions = {}
    <3>1. settings # NoTable /\ (pc = "secret" => settings[SecretKey] = "")
      BY <1>5, NoTableIsNone DEF IInv, LocalsSet, GenerateSecret
    <3>2. "" \notin sessions /\ \A e \in sessions : settings[SecretKey] = e
      BY SettingsAssumption DEF IInv, Tracking, TypeOK
    <3> QED
      BY <1>5, <3>1, <3>2 DEF GenerateSecret
  <2>4. TypeOK'
    BY <1>5, <2>1, <2>2 DEF IInv, TypeOK, GenerateSecret, StartPcs
  <2>5. LocalsSet'
    BY <1>5, <2>1, <2>2, <1>idle DEF IInv, LocalsSet, TypeOK, GenerateSecret, Update
  <2>6. Tracking'
    BY <1>5, <2>1, <2>2, <2>3, <1>idle, NoTableIsNone DEF IInv, LocalsSet, Tracking, TypeOK, GenerateSecret, Update, AdminSeeded, Builds
  <2> QED
    BY <2>4, <2>5, <2>6 DEF IInv
<1>6. CASE BuildSnapshot
  <2>0. raw[SecretKey] \in used /\ used \subseteq Secrets /\ proc' \in Process /\ proc'.secret = raw[SecretKey]
    <3>1. raw[SecretKey] \in used /\ used \subseteq Secrets /\ proc \in Process
      BY <1>6 DEF IInv, LocalsSet, TypeOK, BuildSnapshot
    <3>2. proc' = [proc EXCEPT !.secret = raw[SecretKey]]
      BY <1>6 DEF BuildSnapshot
    <3> QED
      BY <3>1, <3>2 DEF Process
  <2>1. TypeOK'
    BY <1>6, <2>0 DEF IInv, TypeOK, LocalsSet, BuildSnapshot, StartPcs
  <2>2. LocalsSet'
    <3>1. /\ pc = "build" /\ pc' = "admin" /\ UNCHANGED <<settings, raw, used, callers>>
          /\ \A c \in Callers : callers[c].pc = "idle"
      BY <1>6, <1>idle DEF BuildSnapshot, IInv, TypeOK
    <3> QED
      BY <3>1, <2>0 DEF IInv, LocalsSet, Update
  <2>3. Tracking'
    BY <1>6, <2>0, <1>idle DEF IInv, Tracking, TypeOK, BuildSnapshot, Update, AdminSeeded, Builds, Snapshot
  <2> QED
    BY <2>1, <2>2, <2>3 DEF IInv
<1>7. CASE CountUsers \/ CreateAdmin
  <2> USE DEF CountUsers, CreateAdmin
  <2>1. TypeOK'
    BY <1>7 DEF IInv, TypeOK, StartPcs
  <2>2. LocalsSet'
    BY <1>7, <1>idle DEF IInv, LocalsSet, TypeOK, Update
  <2>3. Tracking'
    BY <1>7, <1>idle DEF IInv, LocalsSet, Tracking, TypeOK, Update, AdminSeeded, Builds, Snapshot
  <2> QED
    BY <2>1, <2>2, <2>3 DEF IInv
<1>8. CASE Crash
  <2>1. TypeOK'
    BY <1>8, <1>idle, <1>schema, NoCallerAssumption, NoProcessTyped DEF IInv, TypeOK, Crash, StartPcs
  <2>2. LocalsSet'
    BY <1>8, <1>idle DEF IInv, LocalsSet, Crash, Update
  <2>3. Tracking'
    BY <1>8, <1>idle DEF IInv, Tracking, Crash, Update, AdminSeeded, Builds
  <2> QED
    BY <2>1, <2>2, <2>3 DEF IInv
<1> QED
  BY <1>1, <1>2, <1>3, <1>4, <1>5, <1>6, <1>7, <1>8 DEF StartStep

\* The steps of requests: the process serves before and after.
LEMMA RequestInv ==
    IInv /\ (\E c \in Callers : UpdateStep(c) \/ AnswerStep(c) \/ Get(c) \/ \E patch \in Patches : Put(c, patch))
    => IInv'
<1> SUFFICES ASSUME IInv, NEW c \in Callers,
                    UpdateStep(c) \/ AnswerStep(c) \/ Get(c) \/ \E patch \in Patches : Put(c, patch)
             PROVE  IInv'
  OBVIOUS
<1> USE DEF database, service
<1>idle. Idle \in Caller /\ Idle.pc = "idle"
  <2>1. NoTable \in [{} -> Shown]
    BY DEF NoTable
  <2> QED
    BY <2>1 DEF Idle, Caller
<1>serving. pc = "serving" /\ pc' = "serving" /\ UNCHANGED <<schema, users, tx, proc, used, sessions>>
  BY <1>idle DEF UpdateStep, AnswerStep, Get, Put, LockAndBuild, Persist, PersistFails, Swap, Notify, Current, Raw,
     Answer, IInv, TypeOK
<1>types. /\ settings \in StringTable /\ raw \in StringTable /\ Builds(raw) /\ snap = Snapshot(raw)
          /\ callers \in [Callers -> Caller] /\ NoCaller \notin Callers
          /\ \A d \in Callers : Update(d) <=> lock = d
  BY <1>serving, NoCallerAssumption DEF IInv, TypeOK, LocalsSet, Tracking, Update
\* Steps that change nothing but the locals of a request that does not hold the lock.
<1>quiet. ASSUME ~Update(c), NEW r \in Caller, callers' = [callers EXCEPT ![c] = r], UNCHANGED <<settings, service, ahead>>,
                 r.pc \in {"idle", "lock", "get", "raw"}, r.pc = "lock" => r.patch \in Patches
          PROVE  IInv'
  <2>1. \A d \in Callers : IF d = c THEN callers'[d] = r ELSE callers'[d] = callers[d]
    BY <1>quiet, <1>types
  <2>2. TypeOK'
    BY <2>1, <1>quiet, <1>serving, <1>types DEF IInv, TypeOK, Update
  <2>3. LocalsSet'
    BY <2>1, <1>quiet, <1>serving DEF IInv, LocalsSet, Update
  <2>4. Tracking'
    BY <2>1, <1>quiet, <1>serving DEF IInv, Tracking, Update, AdminSeeded, Builds
  <2> QED
    BY <2>2, <2>3, <2>4 DEF IInv
<1>1. ASSUME NEW patch \in Patches, Put(c, patch) PROVE IInv'
  <2> DEFINE r == [Idle EXCEPT !.pc = "lock", !.patch = patch]
  <2>1. r \in Caller /\ r.pc = "lock" /\ r.patch = patch
    BY <1>idle DEF Caller
  <2>2. callers' = [callers EXCEPT ![c] = r] /\ ~Update(c) /\ UNCHANGED <<settings, service, ahead>>
    BY <1>1 DEF Put, Update
  <2> QED
    BY <2>1, <2>2, <1>quiet
<1>2. CASE Get(c)
  <2> DEFINE r == [Idle EXCEPT !.pc = "get"]
  <2>1. r \in Caller /\ r.pc = "get"
    BY <1>idle DEF Caller
  <2>2. callers' = [callers EXCEPT ![c] = r] /\ ~Update(c) /\ UNCHANGED <<settings, service, ahead>>
    BY <1>2 DEF Get, Update
  <2> QED
    BY <2>1, <2>2, <1>quiet
<1>3. CASE Current(c)
  <2> DEFINE a == [k \in Keys \ Echoed |-> snap[k]]
             r == [callers[c] EXCEPT !.pc = "raw", !.answer = a]
  <2>1. a \in [Keys \ Echoed -> Shown]
    BY <1>types, SnapshotShown
  <2>2. r \in Caller /\ r.pc = "raw"
    BY <2>1, <1>types DEF Caller
  <2>3. callers' = [callers EXCEPT ![c] = r] /\ ~Update(c) /\ UNCHANGED <<settings, service, ahead>>
    BY <1>3 DEF Current, Update
  <2> QED
    BY <2>2, <2>3, <1>quiet
<1>4. CASE Raw(c)
  <2>1. PICK k \in Echoed : callers' = [callers EXCEPT ![c].answer = Over([e \in {k} |-> raw[e]], @)]
    BY <1>4 DEF Raw
  <2> DEFINE a == Over([e \in {k} |-> raw[e]], callers[c].answer)
             r == [callers[c] EXCEPT !.answer = a]
  <2>2. PICK ks \in SUBSET Keys : callers[c].answer \in [ks -> Shown]
    BY <1>types DEF Caller
  <2>3. k \in Keys /\ raw[k] \in Shown
    BY <1>types, TableTypes, SettingsAssumption
  <2>4. a \in [ks \cup {k} -> Shown] /\ ks \cup {k} \in SUBSET Keys
    BY <2>2, <2>3 DEF Over
  <2>5. callers[c] \in Caller /\ callers[c].pc = "raw"
    BY <1>4, <1>types DEF Raw
  <2>6. r \in Caller /\ r.pc = "raw"
    BY <2>4, <2>5 DEF Caller
  <2>7. callers' = [callers EXCEPT ![c] = r] /\ ~Update(c) /\ UNCHANGED <<settings, service, ahead>>
    BY <1>4, <2>1 DEF Raw, Update
  <2> QED
    BY <2>6, <2>7, <1>quiet
<1>5. CASE Answer(c)
  BY <1>5, <1>quiet, <1>idle DEF Answer, Update
<1>6. CASE LockAndBuild(c)
  <2> DEFINE m == Over(callers[c].patch, raw)
             r == [callers[c] EXCEPT !.pc = "persist", !.merged = m]
  <2>1. callers[c].pc = "lock" /\ lock = NoCaller /\ ~Update(c)
    BY <1>6 DEF LockAndBuild, Update
  <2>2. callers[c].patch \in Patches /\ m \in StringTable
    BY <2>1, <1>types, PatchedTable DEF IInv, LocalsSet
  <2>3. CASE ~Builds(m)
    BY <1>6, <2>1, <2>3, <1>quiet, <1>idle DEF LockAndBuild, Merged
  <2>4. CASE Builds(m)
    <3>1. /\ callers' = [callers EXCEPT ![c].pc = "persist", ![c].merged = m] /\ lock' = c
          /\ UNCHANGED <<settings, raw, snap, level, ahead>>
      BY <1>6, <2>4 DEF LockAndBuild, Merged
    <3>2. \A d \in Callers : ~Update(d)
      BY <2>1, <1>types
    <3>3. r \in Caller /\ r.pc = "persist" /\ r.merged = m /\ r.patch = callers[c].patch
      BY <2>2, <1>types DEF Caller
    <3>4. callers' = [callers EXCEPT ![c] = r]
      BY <3>1
    <3>5. \A d \in Callers : IF d = c THEN callers'[d] = r ELSE callers'[d] = callers[d]
      BY <3>4, <1>types
    <3>6. TypeOK'
      BY <3>1, <3>2, <3>3, <3>4, <3>5, <1>serving, <1>types DEF IInv, TypeOK, Update
    <3>7. LocalsSet'
      BY <2>2, <3>1, <3>2, <3>3, <3>5, <1>serving DEF IInv, LocalsSet, Update
    <3>8. Tracking'
      BY <2>1, <2>4, <3>1, <3>2, <3>3, <3>5, <1>serving DEF IInv, Tracking, Update, AdminSeeded, Builds
    <3> QED
      BY <3>6, <3>7, <3>8 DEF IInv
  <2> QED
    BY <2>3, <2>4
\* The holder of the lock: what it has at hand, and that it is alone.
<1>hold. ASSUME Update(c)
         PROVE  /\ callers[c].patch \in Patches /\ callers[c].merged \in StringTable /\ Builds(callers[c].merged)
                /\ \A d \in Callers : d # c => ~Update(d)
                /\ lock = c
  BY <1>hold, <1>types DEF IInv, LocalsSet, Tracking, Update
<1>7. CASE Persist(c)
  <2> DEFINE p == callers[c].patch
             m == callers[c].merged
             r == [callers[c] EXCEPT !.pc = "swap"]
  <2>1. /\ Update(c) /\ callers[c].pc = "persist" /\ settings' = Over(p, settings)
        /\ callers' = [callers EXCEPT ![c] = r] /\ ahead' = ahead \ DOMAIN p /\ UNCHANGED service
    BY <1>7 DEF Persist, Update
  <2>2. /\ settings' \in StringTable /\ settings'[SecretKey] = settings[SecretKey]
        /\ \A k \in Keys : settings'[k] = IF k \in DOMAIN p THEN p[k] ELSE settings[k]
    BY <2>1, <1>hold, <1>types, PatchedTable
  <2>3. m = Over(p, raw) /\ \A k \in Keys : m[k] = IF k \in DOMAIN p THEN p[k] ELSE raw[k]
    <3>1. m = Over(p, raw)
      BY <2>1 DEF IInv, LocalsSet
    <3> QED
      BY <3>1, <2>1, <1>hold, <1>types, PatchedTable
  <2>4. Builds(settings') /\ Builds(m)
    <3>1. Builds(settings) /\ Builds(m)
      BY <2>1, <1>hold, <1>types, NoTableIsNone DEF IInv, Tracking
    <3> QED
      BY <2>2, <2>3, <3>1 DEF Builds
  <2>5. r \in Caller /\ r.pc = "swap" /\ r.merged = m /\ r.patch = p
    BY <1>types DEF Caller
  <2>6. \A d \in Callers : IF d = c THEN callers'[d] = r ELSE callers'[d] = callers[d]
    BY <2>1, <1>types
  <2>7. TypeOK'
    BY <2>1, <2>2, <2>5, <2>6, <1>hold, <1>serving, <1>types DEF IInv, TypeOK, Update
  <2>8. LocalsSet'
    BY <2>1, <2>2, <2>3, <2>5, <2>6, <1>hold, <1>serving, <1>types DEF IInv, LocalsSet, Update
  <2>9. \A k \in Keys \ ahead' : settings'[k] = m[k]
    <3>1. \A k \in Keys \ ahead : settings[k] = raw[k]
      BY <2>1, <1>hold, <1>serving DEF IInv, Tracking, Update
    <3> QED
      BY <2>1, <2>2, <2>3, <3>1
  <2>10. Tracking'
    <3>1. /\ settings # NoTable /\ UNCHANGED <<pc, raw, snap, level, proc, users, sessions>>
          /\ \A d \in Callers : Update(d)' <=> d = c
      BY <2>1, <2>5, <2>6, <1>hold, <1>serving, <1>types, NoTableIsNone DEF Update
    <3>2. \A d \in Callers : callers'[d].pc = "swap" => d = c
      BY <3>1 DEF Update
    <3>3. \A d \in Callers : callers[d].pc # "notify" /\ callers'[d].pc # "notify"
      BY <2>1, <2>5, <2>6, <3>1, <1>hold DEF Update
    <3>4. callers'[c] = r
      BY <2>6
    <3>5. (settings # NoTable => Builds(settings))'
      BY <2>4 DEF Builds
    <3>6. (\A d \in Callers : Update(d) => Builds(callers[d].merged))'
      BY <2>4, <2>5, <3>1, <3>4 DEF Builds
    <3>7. (pc \in {"admin", "create", "serving"} => Builds(raw) /\ snap = Snapshot(raw) /\ proc.secret = raw[SecretKey])'
      BY <3>1 DEF IInv, Tracking, Builds, Snapshot
    <3>8. level' = snap'[LogLevel]
      BY <3>1, <3>3, <1>serving DEF IInv, Tracking
    <3>9. (\A s \in sessions : settings # NoTable /\ settings[SecretKey] = s)'
      BY <2>2, <3>1, NoTableIsNone DEF IInv, Tracking
    <3>10. AdminSeeded'
      BY <3>1 DEF IInv, Tracking, AdminSeeded
    <3>11. \A d \in Callers : callers'[d].pc = "swap" => \A k \in Keys \ ahead' : settings'[k] = callers'[d].merged[k]
      BY <2>5, <2>9, <3>2, <3>4
    <3>12. callers'[c].pc = "swap"
      BY <2>5, <3>4
    <3> QED
      BY <3>3, <3>5, <3>6, <3>7, <3>8, <3>9, <3>10, <3>11, <3>12 DEF Tracking
  <2> QED
    BY <2>7, <2>8, <2>10 DEF IInv
<1>8. CASE PersistFails(c)
  <2> DEFINE p == callers[c].patch
  <2>1. /\ Update(c) /\ callers[c].pc = "persist" /\ callers' = [callers EXCEPT ![c] = Idle] /\ lock' = NoCaller
        /\ UNCHANGED <<raw, snap, level>>
        /\ \/ UNCHANGED <<settings, ahead>>
           \/ settings' = Over(p, settings) /\ ahead' = ahead \cup DOMAIN p
    BY <1>8 DEF PersistFails, Update
  <2>2. /\ settings' \in StringTable /\ settings'[SecretKey] = settings[SecretKey]
        /\ ahead \subseteq ahead' /\ ahead' \subseteq Keys
        /\ \A k \in Keys \ ahead' : settings'[k] = settings[k]
        /\ Builds(settings')
    <3>1. /\ Over(p, settings) \in StringTable /\ Over(p, settings)[SecretKey] = settings[SecretKey]
          /\ DOMAIN p \subseteq Keys
          /\ \A k \in Keys : Over(p, settings)[k] = IF k \in DOMAIN p THEN p[k] ELSE settings[k]
      BY <2>1, <1>hold, <1>types, PatchedTable
    <3>2. \A k \in DOMAIN p : callers[c].merged[k] = p[k]
      <4>1. callers[c].merged = Over(p, raw)
        BY <2>1 DEF IInv, LocalsSet
      <4> QED
        BY <4>1, <2>1, <3>1, <1>hold, <1>types, PatchedTable
    <3>3. Builds(settings) /\ Builds(callers[c].merged)
      BY <2>1, <1>hold, <1>types, NoTableIsNone DEF IInv, Tracking
    <3>4. Builds(Over(p, settings))
      BY <3>1, <3>2, <3>3 DEF Builds
    <3>5. ahead \subseteq Keys
      BY DEF IInv, TypeOK
    <3> QED
      BY <2>1, <3>1, <3>3, <3>4, <3>5, <1>types
  <2>3. \A d \in Callers : IF d = c THEN callers'[d] = Idle ELSE callers'[d] = callers[d]
    BY <2>1, <1>types
  <2>4. \A d \in Callers : ~Update(d)'
    BY <2>1, <2>3, <1>hold, <1>idle DEF Update
  <2>5. TypeOK'
    BY <2>1, <2>2, <2>3, <2>4, <1>idle, <1>serving, <1>types DEF IInv, TypeOK, Update
  <2>6. LocalsSet'
    BY <2>1, <2>2, <2>3, <2>4, <1>idle, <1>serving, <1>types DEF IInv, LocalsSet, Update
  <2>7. level = snap[LogLevel] /\ \A k \in Keys \ ahead' : settings'[k] = raw[k]
    BY <2>1, <2>2, <1>hold, <1>serving DEF IInv, Tracking, Update
  <2>8. Tracking'
    BY <2>1, <2>2, <2>3, <2>4, <2>7, <1>serving, <1>types, NoTableIsNone DEF IInv, Tracking, Update, AdminSeeded
  <2> QED
    BY <2>5, <2>6, <2>8 DEF IInv
<1>9. CASE Swap(c)
  <2> DEFINE m == callers[c].merged
  <2>1. /\ Update(c) /\ callers[c].pc = "swap" /\ raw' = m /\ snap' = Snapshot(m) /\ callers' = Overtaken(c)
        /\ UNCHANGED <<settings, level, lock, ahead>>
    BY <1>9 DEF Swap, Update
  <2>2. \A d \in Callers : /\ callers'[d] \in Caller
                           /\ callers'[d].pc = IF d = c THEN "notify" ELSE callers[d].pc
                           /\ callers'[d].patch = callers[d].patch /\ callers'[d].merged = callers[d].merged
    BY <2>1, <1>types DEF Overtaken, Caller
  <2>3. callers' \in [Callers -> Caller]
    <3>1. callers' = [d \in Callers |-> callers'[d]]
      BY <2>1 DEF Overtaken
    <3> QED
      BY <2>2, <3>1
  <2>4. m \in StringTable /\ Builds(m) /\ m[SecretKey] = raw[SecretKey]
    <3>1. m = Over(callers[c].patch, raw)
      BY <2>1 DEF IInv, LocalsSet
    <3> QED
      BY <2>1, <3>1, <1>hold, <1>types, PatchedTable
  <2>5. TypeOK'
    BY <2>1, <2>2, <2>3, <2>4, <1>hold, <1>serving, <1>types DEF IInv, TypeOK, Update
  <2>6. LocalsSet'
    BY <2>1, <2>2, <2>4, <1>hold, <1>serving, <1>types DEF IInv, LocalsSet, Update
  <2>7. \A k \in Keys \ ahead : settings[k] = m[k]
    BY <2>1 DEF IInv, Tracking
  <2>8. Tracking'
    BY <2>1, <2>2, <2>4, <2>7, <1>hold, <1>serving DEF IInv, Tracking, Update, AdminSeeded
  <2> QED
    BY <2>5, <2>6, <2>8 DEF IInv
<1>10. CASE Notify(c)
  <2> DEFINE r == [callers[c] EXCEPT !.pc = "get"]
  <2>1. /\ Update(c) /\ callers[c].pc = "notify" /\ level' = Snapshot(callers[c].merged)[LogLevel] /\ lock' = NoCaller
        /\ callers' = [callers EXCEPT ![c] = r] /\ UNCHANGED <<settings, raw, snap, ahead>>
    BY <1>10 DEF Notify, Update
  <2>2. r \in Caller /\ r.pc = "get"
    BY <1>types DEF Caller
  <2>3. \A d \in Callers : IF d = c THEN callers'[d] = r ELSE callers'[d] = callers[d]
    BY <2>1, <1>types
  <2>4. \A d \in Callers : ~Update(d)'
    BY <2>2, <2>3, <2>1, <1>hold DEF Update
  <2>5. TypeOK'
    BY <2>1, <2>2, <2>3, <2>4, <1>serving, <1>types DEF IInv, TypeOK, Update
  <2>6. LocalsSet'
    BY <2>1, <2>2, <2>3, <2>4, <1>serving, <1>types DEF IInv, LocalsSet, Update
  <2>7. level' = snap[LogLevel] /\ \A k \in Keys \ ahead : settings[k] = raw[k]
    BY <2>1, <1>hold, <1>serving, <1>types DEF IInv, Tracking, Update
  <2>8. Tracking'
    BY <2>1, <2>2, <2>3, <2>4, <2>7, <1>serving DEF IInv, Tracking, Update, AdminSeeded
  <2> QED
    BY <2>5, <2>6, <2>8 DEF IInv
<1> QED
  BY <1>1, <1>2, <1>3, <1>4, <1>5, <1>6, <1>7, <1>8, <1>9, <1>10 DEF UpdateStep, AnswerStep

LEMMA SessionInv == IInv /\ (Login \/ Expire) => IInv'
<1> SUFFICES ASSUME IInv, Login \/ Expire PROVE IInv'
  OBVIOUS
<1> USE DEF database, service
<1>1. UNCHANGED <<database, tx, pc, proc, service, callers, used, ahead>>
  BY DEF Login, Expire
<1>2. sessions' \subseteq used /\ \A s \in sessions' : settings # NoTable /\ settings[SecretKey] = s
  <2>1. CASE Login
    BY <2>1, NoTableIsNone DEF Login, IInv, TypeOK, LocalsSet, Tracking
  <2>2. CASE Expire
    BY <2>2 DEF Expire, IInv, TypeOK, Tracking
  <2> QED
    BY <2>1, <2>2
<1>3. TypeOK'
  BY <1>1, <1>2 DEF IInv, TypeOK
<1>4. LocalsSet'
  BY <1>1 DEF IInv, LocalsSet, Update
<1>5. Tracking'
  BY <1>1, <1>2 DEF IInv, Tracking, Update, AdminSeeded, Builds
<1> QED
  BY <1>3, <1>4, <1>5 DEF IInv

LEMMA Invariance == Spec => []IInv
<1>1. IInv /\ [Next]_vars => IInv'
  <2> SUFFICES ASSUME IInv, [Next]_vars PROVE IInv'
    OBVIOUS
  <2>1. CASE UNCHANGED vars
    BY <2>1 DEF vars, database, service, IInv, TypeOK, LocalsSet, Tracking, Update, AdminSeeded, Builds, Snapshot
  <2> QED
    BY <2>1, StartInv, RequestInv, SessionInv DEF Next
<1> QED
  BY InitIInv, <1>1, PTL DEF Spec

-----------------------------------------------------------------------------
(* The theorems.                                                           *)

\* The state has its shape; requests are served when the start is over; exactly
\* the request that is past its checks holds the lock.
THEOREM TypeCorrect == Spec => []TypeOK
BY Invariance, PTL DEF IInv

\* What updates store never stops a later start, although an update may be
\* checked against values the table no longer holds.
THEOREM StoredSettingsBuild == Spec => []TableBuilds
<1>1. IInv => TableBuilds
  BY DEF IInv, Tracking, TableBuilds
<1> QED
  BY Invariance, <1>1, PTL

\* Between updates the process runs on the stored settings.
THEOREM SnapshotIsCurrent == Spec => []SnapshotTracksTable
<1>1. IInv => SnapshotTracksTable
  <2> SUFFICES ASSUME IInv, pc = "serving", lock = NoCaller, NEW k \in Keys \ ahead
               PROVE  raw[k] = settings[k] /\ snap[k] = Meaning[settings[k]]
    BY DEF SnapshotTracksTable
  <2>1. \A c \in Callers : callers[c].pc # "swap"
    BY NoCallerAssumption DEF IInv, TypeOK
  <2> QED
    BY <2>1 DEF IInv, Tracking, Snapshot
<1> QED
  BY Invariance, <1>1, PTL

\* The callback leaves the level of the last update.
THEOREM LevelIsCurrent == Spec => []LogLevelCurrent
<1>1. IInv => LogLevelCurrent
  <2> SUFFICES ASSUME IInv, pc = "serving", lock = NoCaller PROVE level = snap[LogLevel]
    BY DEF LogLevelCurrent
  <2>1. \A c \in Callers : callers[c].pc # "notify"
    BY NoCallerAssumption DEF IInv, TypeOK
  <2> QED
    BY <2>1 DEF IInv, Tracking
<1> QED
  BY Invariance, <1>1, PTL

\* Cookies outlive the process that signed them.
THEOREM SessionsOutliveProcess == Spec => []SessionsSurvive
<1>1. IInv => SessionsSurvive
  BY NoTableIsNone DEF IInv, LocalsSet, Tracking, SessionsSurvive, Verify
<1> QED
  BY Invariance, <1>1, PTL

\* Credentials in the environment always end a lock-out.
THEOREM AdministratorExists == Spec => []AdminSeeded
<1>1. IInv => AdminSeeded
  BY DEF IInv, Tracking
<1> QED
  BY Invariance, <1>1, PTL

\* A start leaves every stored setting alone but an empty secret.
THEOREM StartsKeepSettings == Spec => StartKeepsSettings
<1>1. IInv /\ [Next]_vars => [pc # "serving" => \A k \in DOMAIN settings :
                                  settings'[k] = settings[k] \/ (k = SecretKey /\ settings[k] = "")]_settings
  <2> SUFFICES ASSUME IInv, [Next]_vars, settings' # settings, pc # "serving", NEW k \in DOMAIN settings
               PROVE  settings'[k] = settings[k] \/ (k = SecretKey /\ settings[k] = "")
    OBVIOUS
  <2>0. \A c \in Callers : callers[c] = Idle
    BY DEF IInv, TypeOK
  <2>1. CASE SeedDefaults
    <3>1. settings \in StringTable
      BY DEF IInv, TypeOK, NoTable
    <3> QED
      BY <2>1, <3>1, SeededTable DEF SeedDefaults
  <2>2. CASE GenerateSecret
    BY <2>2 DEF GenerateSecret, IInv, LocalsSet
  <2>3. CASE StartStep /\ ~SeedDefaults /\ ~GenerateSecret
    BY <2>3 DEF database, service, StartStep, Start, CheckMigration, ApplyBody, RecordMigration, CommitMigration, Load,
       BuildSnapshot, CountUsers, CreateAdmin, Crash
  <2>4. CASE Login \/ Expire \/ UNCHANGED vars
    BY <2>4 DEF vars, database, Login, Expire
  <2>5. ASSUME NEW c \in Callers, UpdateStep(c) \/ AnswerStep(c) \/ Get(c) \/ \E patch \in Patches : Put(c, patch)
        PROVE  FALSE
    <3>1. callers[c].pc = "idle"
      BY <2>0 DEF Idle
    <3> QED
      BY <2>5, <3>1 DEF UpdateStep, AnswerStep, Get, Put, LockAndBuild, Persist, PersistFails, Swap, Notify, Current,
         Raw, Answer
  <2> QED
    BY <2>1, <2>2, <2>3, <2>4, <2>5 DEF Next
<1> QED
  BY Invariance, <1>1, PTL DEF Spec, StartKeepsSettings

-----------------------------------------------------------------------------
(* Migrations.                                                             *)

SchemaOK(s) ==
    /\ s.recorded = 1 .. Len(s.bodies)
    /\ \A i \in 1 .. Len(s.bodies) : s.bodies[i] = i

\* Where a migration is: the transaction starts from the tables, and the next
\* migration is the first that is not recorded.
MigrationInv ==
    /\ SchemaOK(schema)
    /\ pc \in {"migrate", "body", "record", "commit"} => proc.next <= Len(schema.bodies) + 1
    /\ pc \in {"body", "record", "commit"} => proc.next = Len(schema.bodies) + 1
    /\ pc = "body" => tx = schema
    /\ pc = "record" => tx.recorded = schema.recorded
    /\ pc = "commit" => tx.recorded = schema.recorded \cup {proc.next}
    /\ pc \in {"record", "commit"} => tx.bodies = Append(schema.bodies, proc.next)

\* A migration that is recorded after all before it keeps the order.
LEMMA AppendedOK ==
    ASSUME NEW s \in [recorded : SUBSET Nat, bodies : Seq(Nat)], SchemaOK(s), NEW n, n = Len(s.bodies) + 1
    PROVE  /\ s.recorded \cup {n} = 1 .. Len(Append(s.bodies, n))
           /\ \A i \in 1 .. Len(Append(s.bodies, n)) : Append(s.bodies, n)[i] = i
<1> DEFINE b == Append(s.bodies, n)
<1>1. Len(s.bodies) \in Nat /\ Len(b) = n /\ b \in Seq(Nat)
  OBVIOUS
<1>2. s.recorded \cup {n} = 1 .. Len(b)
  BY <1>1 DEF SchemaOK
<1>3. ASSUME NEW i \in 1 .. Len(b) PROVE b[i] = i
  BY <1>1 DEF SchemaOK
<1> QED
  BY <1>2, <1>3

LEMMA MigrationStep == IInv /\ MigrationInv /\ [Next]_vars => MigrationInv'
<1> SUFFICES ASSUME IInv, MigrationInv, [Next]_vars PROVE MigrationInv'
  OBVIOUS
<1> USE DEF database, service
<1>types. /\ schema \in [recorded : SUBSET Nat, bodies : Seq(Nat)] /\ tx \in [recorded : SUBSET Nat, bodies : Seq(Nat)]
          /\ proc.next \in Nat \ {0} /\ Len(schema.bodies) \in Nat /\ DOMAIN proc = {"creds", "shipped", "next", "secret"}
  <2>1. /\ schema \in [recorded : SUBSET Nat, bodies : Seq(Nat)] /\ tx \in [recorded : SUBSET Nat, bodies : Seq(Nat)]
        /\ proc \in Process
    BY DEF IInv, TypeOK
  <2>2. proc.next \in Nat \ {0} /\ DOMAIN proc = {"creds", "shipped", "next", "secret"}
    BY <2>1, Zenon DEF Process
  <2> QED
    BY <2>1, <2>2
<1>1. ASSUME NEW shipped \in 1 .. Versions, NEW creds \in BOOLEAN, Start(shipped, creds) PROVE MigrationInv'
  <2>1. proc'.next = 1 /\ pc' = "migrate" /\ UNCHANGED <<schema, tx>>
    BY <1>1 DEF Start
  <2> QED
    BY <2>1, <1>types DEF MigrationInv, SchemaOK
<1>2. CASE CheckMigration
  <2>1. CASE proc.next > proc.shipped
    BY <1>2, <2>1 DEF CheckMigration, MigrationInv, SchemaOK
  <2>2. CASE ~(proc.next > proc.shipped) /\ proc.next \in schema.recorded
    <3>1. proc.next <= Len(schema.bodies)
      BY <2>2, <1>types DEF MigrationInv, SchemaOK
    <3>2. proc'.next = proc.next + 1 /\ pc = "migrate" /\ UNCHANGED <<pc, schema, tx>>
      BY <1>2, <2>2, <1>types DEF CheckMigration
    <3> QED
      BY <3>1, <3>2, <1>types DEF MigrationInv, SchemaOK
  <2>3. CASE ~(proc.next > proc.shipped) /\ proc.next \notin schema.recorded
    <3>1. pc = "migrate" /\ pc' = "body" /\ tx' = schema /\ UNCHANGED <<schema, proc>>
      BY <1>2, <2>3 DEF CheckMigration
    <3>2. proc.next = Len(schema.bodies) + 1
      BY <2>3, <3>1, <1>types DEF MigrationInv, SchemaOK
    <3> QED
      BY <3>1, <3>2, <1>types DEF MigrationInv, SchemaOK
  <2> QED
    BY <2>1, <2>2, <2>3
<1>3. CASE ApplyBody
  <2>1. tx'.recorded = tx.recorded /\ tx'.bodies = Append(tx.bodies, proc.next)
    BY <1>3, <1>types DEF ApplyBody
  <2> QED
    BY <1>3, <2>1 DEF ApplyBody, MigrationInv, SchemaOK
<1>4. CASE RecordMigration
  <2>1. tx'.recorded = tx.recorded \cup {proc.next} /\ tx'.bodies = tx.bodies
    BY <1>4, <1>types DEF RecordMigration
  <2> QED
    BY <1>4, <2>1 DEF RecordMigration, MigrationInv, SchemaOK
<1>5. CASE CommitMigration
  <2>1. /\ schema' = tx /\ tx.recorded = schema.recorded \cup {proc.next} /\ tx.bodies = Append(schema.bodies, proc.next)
        /\ proc.next = Len(schema.bodies) + 1 /\ pc' = "migrate" /\ SchemaOK(schema)
    BY <1>5 DEF CommitMigration, MigrationInv
  <2>2. SchemaOK(schema)' /\ Len(tx.bodies) = proc.next
    BY <2>1, <1>types, AppendedOK DEF SchemaOK
  <2>3. proc'.next = proc.next + 1
    BY <1>5, <1>types DEF CommitMigration
  <2> QED
    BY <2>1, <2>2, <2>3, <1>types DEF MigrationInv
<1>6. ASSUME ~StartStep \/ Crash \/ SeedDefaults \/ Load \/ GenerateSecret \/ BuildSnapshot \/ CountUsers \/ CreateAdmin
      PROVE  MigrationInv'
  <2>1. UNCHANGED schema
    BY <1>6 DEF Next, vars, StartStep, Crash, SeedDefaults, Load, GenerateSecret, BuildSnapshot, CountUsers, CreateAdmin,
       Login, Expire, UpdateStep, AnswerStep, Get, Put, LockAndBuild, Persist, PersistFails, Swap, Notify, Current, Raw,
       Answer
  <2>2. pc' \notin {"migrate", "body", "record", "commit"} \/ UNCHANGED <<pc, proc, tx>>
    BY <1>6 DEF Next, vars, StartStep, Crash, SeedDefaults, Load, GenerateSecret, BuildSnapshot, CountUsers, CreateAdmin,
       Login, Expire, UpdateStep, AnswerStep, Get, Put, LockAndBuild, Persist, PersistFails, Swap, Notify, Current, Raw,
       Answer
  <2> QED
    BY <2>1, <2>2 DEF MigrationInv, SchemaOK
<1> QED
  BY <1>1, <1>2, <1>3, <1>4, <1>5, <1>6 DEF StartStep

\* Each migration runs once and in order, whatever process dies in which
\* statement, and whichever release is started next (store/migrate.go).
THEOREM MigrationsApplyOnce == Spec => []MigrationsOnce
<1>1. Init => MigrationInv
  <2>1. SchemaOK(EmptySchema)
    BY DEF EmptySchema, SchemaOK
  <2> QED
    BY <2>1 DEF Init, MigrationInv
<1>2. MigrationInv => MigrationsOnce
  BY DEF MigrationInv, SchemaOK, MigrationsOnce
<1> QED
  BY <1>1, <1>2, Invariance, MigrationStep, PTL DEF Spec

-----------------------------------------------------------------------------
(* Answers.                                                                *)

\* A request whose update is the last one finds its patch in raw until it has
\* answered, and has answered so far what the patch says.
Reflects(r, t) ==
    /\ r.pc # "raw" => r.answer = NoTable
    /\ r.alone =>
          /\ r.pc \in {"notify", "get", "raw"} /\ r.patch \in Patches
          /\ \A k \in DOMAIN r.patch : t[k] = r.patch[k]
          /\ \A k \in DOMAIN r.patch \cap DOMAIN r.answer :
                r.answer[k] = IF k \in Echoed THEN r.patch[k] ELSE Meaning[r.patch[k]]

AnswersInv == \A c \in Callers : Reflects(callers[c], raw)

LEMMA IdleReflects == \A t : Reflects(Idle, t)
BY DEF Idle, Reflects

LEMMA AnswersStep == IInv /\ AnswersInv /\ [Next]_vars => AnswersInv'
<1> SUFFICES ASSUME IInv, AnswersInv, [Next]_vars PROVE AnswersInv'
  OBVIOUS
<1> USE DEF database, service
<1>1. CASE StartStep
  <2>1. Crash \/ (pc # "serving" /\ UNCHANGED callers)
    BY <1>1 DEF StartStep, Start, CheckMigration, ApplyBody, RecordMigration, CommitMigration, SeedDefaults, Load,
       GenerateSecret, BuildSnapshot, CountUsers, CreateAdmin
  <2>2. \A c \in Callers : callers'[c] = Idle
    <3>1. CASE Crash
      BY <3>1 DEF Crash
    <3>2. CASE pc # "serving" /\ UNCHANGED callers
      BY <3>2 DEF IInv, TypeOK
    <3> QED
      BY <2>1, <3>1, <3>2
  <2> QED
    BY <2>2, IdleReflects DEF AnswersInv
<1>2. CASE Login \/ Expire \/ UNCHANGED vars
  BY <1>2 DEF Login, Expire, vars, AnswersInv
<1>3. ASSUME NEW c \in Callers, UpdateStep(c) \/ AnswerStep(c) \/ Get(c) \/ \E patch \in Patches : Put(c, patch)
      PROVE  AnswersInv'
  <2>types. callers \in [Callers -> Caller] /\ callers[c] \in Caller /\ Reflects(callers[c], raw)
    BY DEF IInv, TypeOK, AnswersInv
  <2>fields. DOMAIN callers[c] = {"pc", "patch", "merged", "answer", "alone"}
    BY <2>types, Zenon DEF Caller
  \* Requests write their own locals, and none but Swap writes raw.
  <2>own. ASSUME NEW r, callers' = [callers EXCEPT ![c] = r], UNCHANGED raw, Reflects(r, raw) PROVE AnswersInv'
    BY <2>own, <2>types DEF AnswersInv
  <2>1. ASSUME Get(c) \/ \E patch \in Patches : Put(c, patch) PROVE AnswersInv'
    <3>1. PICK r : /\ UNCHANGED raw /\ callers' = [callers EXCEPT ![c] = r]
                   /\ r.pc # "raw" /\ r.answer = NoTable /\ ~r.alone
      <4>1. CASE Get(c)
        <5> DEFINE r == [Idle EXCEPT !.pc = "get"]
        <5>1. r.pc # "raw" /\ r.answer = NoTable /\ ~r.alone
          BY DEF Idle
        <5> QED
          BY <4>1, <5>1 DEF Get
      <4>2. ASSUME NEW patch \in Patches, Put(c, patch)
            PROVE  \E r : /\ UNCHANGED raw /\ callers' = [callers EXCEPT ![c] = r]
                          /\ r.pc # "raw" /\ r.answer = NoTable /\ ~r.alone
        <5> DEFINE r == [Idle EXCEPT !.pc = "lock", !.patch = patch]
        <5>1. r.pc # "raw" /\ r.answer = NoTable /\ ~r.alone
          BY DEF Idle
        <5> QED
          BY <4>2, <5>1 DEF Put
      <4> QED
        BY <2>1, <4>1, <4>2
    <3>2. Reflects(r, raw)
      BY <3>1 DEF Reflects
    <3> QED
      BY <2>own, <3>1, <3>2
  <2>2. ASSUME LockAndBuild(c) \/ Persist(c) \/ PersistFails(c) PROVE AnswersInv'
    <3>1. callers[c].pc \in {"lock", "persist"}
      BY <2>2 DEF LockAndBuild, Persist, PersistFails
    <3> DEFINE m == Merged(callers[c].patch)
               built == [callers[c] EXCEPT !.pc = "persist", !.merged = m]
               stored == [callers[c] EXCEPT !.pc = "swap"]
    <3>2. /\ built.pc = "persist" /\ built.answer = callers[c].answer /\ built.alone = callers[c].alone
          /\ stored.pc = "swap" /\ stored.answer = callers[c].answer /\ stored.alone = callers[c].alone
      BY <2>fields
    <3>3. /\ UNCHANGED raw
          /\ \/ callers' = [callers EXCEPT ![c] = Idle]
             \/ callers' = [callers EXCEPT ![c] = built]
             \/ callers' = [callers EXCEPT ![c] = stored]
      BY <2>2, <2>types DEF LockAndBuild, Persist, PersistFails
    <3> HIDE DEF built, stored
    <3>4. Reflects(built, raw) /\ Reflects(stored, raw)
      BY <3>1, <3>2, <2>types DEF Reflects
    <3> QED
      BY <2>own, <3>3, <3>4, IdleReflects
  <2>3. ASSUME Swap(c) PROVE AnswersInv'
    <3> DEFINE p == callers[c].patch
    <3>1. /\ callers[c].pc = "swap" /\ callers[c].merged = Over(p, raw) /\ raw' = callers[c].merged
          /\ callers' = Overtaken(c) /\ p \in Patches /\ raw \in StringTable
      <4>1. callers[c].pc = "swap" /\ raw' = callers[c].merged /\ callers' = Overtaken(c)
        BY <2>3 DEF Swap
      <4>2. pc = "serving"
        <5>1. Idle.pc # "swap"
          BY DEF Idle
        <5> QED
          BY <4>1, <5>1 DEF IInv, TypeOK
      <4>3. raw \in StringTable
        BY <4>2 DEF IInv, LocalsSet
      <4>4. callers[c].merged = Over(callers[c].patch, raw) /\ callers[c].patch \in Patches
        BY <4>1 DEF IInv, LocalsSet, Update
      <4> QED
        BY <4>1, <4>3, <4>4
    <3>2. \A k \in DOMAIN p : raw'[k] = p[k]
      BY <3>1, PatchedTable
    <3>3. \A d \in Callers : /\ callers'[d].pc = IF d = c THEN "notify" ELSE callers[d].pc
                             /\ callers'[d].alone = (d = c)
                             /\ callers'[d].patch = callers[d].patch /\ callers'[d].answer = callers[d].answer
      <4> SUFFICES ASSUME NEW d \in Callers
                   PROVE  /\ callers'[d].pc = IF d = c THEN "notify" ELSE callers[d].pc
                          /\ callers'[d].alone = (d = c)
                          /\ callers'[d].patch = callers[d].patch /\ callers'[d].answer = callers[d].answer
        OBVIOUS
      <4>1. DOMAIN callers[d] = {"pc", "patch", "merged", "answer", "alone"}
        BY <2>types, Zenon DEF Caller
      <4>2. callers'[d] = IF d = c THEN [callers[d] EXCEPT !.pc = "notify", !.alone = TRUE]
                          ELSE [callers[d] EXCEPT !.alone = FALSE]
        BY <3>1 DEF Overtaken
      <4>3. CASE d = c
        BY <4>1, <4>2, <4>3
      <4>4. CASE d # c
        BY <4>1, <4>2, <4>4
      <4> QED
        BY <4>3, <4>4
    <3>4. DOMAIN NoTable = {}
      BY DEF NoTable
    <3>5. ASSUME NEW d \in Callers PROVE Reflects(callers'[d], raw')
      <4>1. PICK q : q = callers'[d]
        OBVIOUS
      <4>2. (callers[d].pc # "raw" => callers[d].answer = NoTable) /\ q.answer = callers[d].answer
        BY <3>3, <4>1 DEF AnswersInv, Reflects
      <4>3. CASE d = c
        <5>1. q.pc = "notify" /\ q.answer = NoTable /\ q.patch = p
          BY <3>1, <3>3, <4>1, <4>2, <4>3
        <5> QED
          BY <3>1, <3>2, <3>4, <4>1, <5>1 DEF Reflects
      <4>4. CASE d # c
        <5>1. q.pc = callers[d].pc /\ ~q.alone
          BY <3>3, <4>1, <4>4
        <5> QED
          BY <4>1, <4>2, <5>1 DEF Reflects
      <4> QED
        BY <4>3, <4>4
    <3> QED
      BY <3>5 DEF AnswersInv
  <2>4. ASSUME Notify(c) PROVE AnswersInv'
    <3>1. callers[c].pc = "notify" /\ UNCHANGED raw /\ callers' = [callers EXCEPT ![c] = [callers[c] EXCEPT !.pc = "get"]]
      BY <2>4, <2>types DEF Notify
    <3>2. Reflects([callers[c] EXCEPT !.pc = "get"], raw)
      BY <3>1, <2>types, <2>fields DEF Reflects
    <3> QED
      BY <2>own, <3>1, <3>2
  <2>serving. ASSUME callers[c].pc \in {"get", "raw"}, callers[c].alone
              PROVE  /\ snap = Snapshot(raw)
                     /\ \A k \in DOMAIN callers[c].patch : k \in Keys /\ raw[k] = callers[c].patch[k]
    <3>1. pc = "serving"
      <4>1. Idle.pc = "idle"
        BY DEF Idle
      <4> QED
        BY <2>serving, <4>1 DEF IInv, TypeOK
    <3>2. snap = Snapshot(raw)
      BY <3>1 DEF IInv, Tracking
    <3>3. callers[c].patch \in Patches /\ \A k \in DOMAIN callers[c].patch : raw[k] = callers[c].patch[k]
      BY <2>serving, <2>types DEF Reflects
    <3>4. DOMAIN callers[c].patch \subseteq Keys
      BY <3>3, SettingsAssumption
    <3> QED
      BY <3>2, <3>3, <3>4
  <2>5. ASSUME Current(c) PROVE AnswersInv'
    <3> DEFINE a == [k \in Keys \ Echoed |-> snap[k]]
               r == [callers[c] EXCEPT !.pc = "raw", !.answer = a]
    <3>1. callers[c].pc = "get" /\ UNCHANGED raw /\ callers' = [callers EXCEPT ![c] = r]
      BY <2>5, <2>types DEF Current
    <3>2. r.pc = "raw" /\ r.answer = a /\ r.patch = callers[c].patch /\ r.alone = callers[c].alone
      BY <2>fields
    <3>3. ASSUME callers[c].alone, NEW k \in DOMAIN callers[c].patch \cap DOMAIN a
          PROVE  k \notin Echoed /\ a[k] = Meaning[callers[c].patch[k]]
      BY <3>1, <3>3, <2>serving DEF Snapshot
    <3>4. Reflects(r, raw)
      <4> HIDE DEF r, a
      <4> QED
        BY <3>1, <3>2, <3>3, <2>types DEF Reflects
    <3> QED
      BY <2>own, <3>1, <3>4
  <2>6. ASSUME Raw(c) PROVE AnswersInv'
    <3>1. PICK e \in Echoed \ DOMAIN callers[c].answer :
             callers' = [callers EXCEPT ![c].answer = Over([d \in {e} |-> raw[d]], @)]
      BY <2>6 DEF Raw
    <3> DEFINE a == Over([d \in {e} |-> raw[d]], callers[c].answer)
               r == [callers[c] EXCEPT !.answer = a]
    <3>2. callers[c].pc = "raw" /\ UNCHANGED raw /\ callers' = [callers EXCEPT ![c] = r]
      BY <2>6, <3>1, <2>types DEF Raw
    <3>3. /\ r.pc = "raw" /\ r.answer = a /\ r.patch = callers[c].patch /\ r.alone = callers[c].alone
      BY <3>2, <2>fields
    <3>4. DOMAIN a = {e} \cup DOMAIN callers[c].answer /\ a[e] = raw[e]
          /\ \A k \in DOMAIN callers[c].answer : k # e => a[k] = callers[c].answer[k]
      BY DEF Over
    <3>5. Reflects(r, raw)
      <4> HIDE DEF r, a
      <4> QED
        BY <3>2, <3>3, <3>4, <2>types, <2>serving DEF Reflects
    <3> QED
      BY <2>own, <3>2, <3>5
  <2>7. ASSUME Answer(c) PROVE AnswersInv'
    BY <2>7, <2>own, IdleReflects DEF Answer
  <2> QED
    BY <1>3, <2>1, <2>2, <2>3, <2>4, <2>5, <2>6, <2>7 DEF UpdateStep, AnswerStep
<1> QED
  BY <1>1, <1>2, <1>3 DEF Next

\* A PUT is answered with what it stored, unless another update came between:
\* the answer is put together from two reads under two locks (api/settings.go).
THEOREM AnswersShowUpdates == Spec => []AnswerReflectsUpdate
<1>1. Init => AnswersInv
  BY IdleReflects DEF Init, AnswersInv
<1>2. AnswersInv => AnswerReflectsUpdate
  BY DEF AnswersInv, Reflects, AnswerReflectsUpdate
<1> QED
  BY <1>1, <1>2, Invariance, AnswersStep, PTL DEF Spec
=============================================================================
