------------------------------ MODULE Settings ------------------------------
(***************************************************************************)
(* The store of settings of bothan (package settings, with the parts of    *)
(* store, auth, api and main.go that give it its life): migrations, the    *)
(* steps of a start, the session secret, updates and their answers, over   *)
(* crashes, restarts, upgrades and downgrades.                             *)
(*                                                                         *)
(* The database is what survives: schema, settings, users.  The connection *)
(* is the only one, so a statement or a transaction without a crash inside *)
(* is one step; a migration is shown statement by statement.               *)
(***************************************************************************)
EXTENDS Integers, Sequences

CONSTANTS
    Keys,      \* the settings that the API changes
    LogLevel,  \* the one of them that a callback applies
    Echoed,    \* those answered as the user typed them (durations)
    Values,    \* strings a setting may hold
    Valid,     \* which of them build accepts, by key
    Meaning,   \* what a string is parsed to
    Default,   \* the seed, by key
    Patches,   \* payloads of PUT /settings and of a registration: parts of Keys with Values
    Secrets,   \* random strings, each generated at most once
    Callers,   \* requests being served
    Versions   \* migrations the newest release ships

SecretKey == "auth.session_secret"

ASSUME SettingsAssumption ==
    /\ SecretKey \notin Keys /\ LogLevel \in Keys /\ Echoed \subseteq Keys
    /\ Valid \in [Keys -> SUBSET Values] /\ DOMAIN Meaning = Values
    /\ Default \in [Keys -> Values] /\ \A k \in Keys : Default[k] \in Valid[k]
    /\ \A p \in Patches : DOMAIN p \subseteq Keys /\ \A k \in DOMAIN p : p[k] \in Values
    /\ "" \notin Secrets
    /\ Versions \in Nat \ {0}

NoCaller == "none"
ASSUME NoCallerAssumption == NoCaller \notin Callers

VARIABLES
    schema,    \* schema_migrations, and the bodies run on the tables
    settings,  \* table settings
    users,     \* table users is not empty
    tx,        \* the open transaction of a migration
    pc,        \* where main is
    proc,      \* locals of main
    raw,       \* Service.raw
    snap,      \* Service.snap
    level,     \* levelVar
    lock,      \* who holds Service.mu
    callers,   \* locals of the requests
    used,      \* history: secrets generated so far
    sessions,  \* secrets that sign a cookie which has not expired
    ahead      \* history: keys committed by an update that was told it failed

database == <<schema, settings, users>>
service == <<raw, snap, level, lock>>
vars == <<database, tx, pc, proc, service, callers, used, sessions, ahead>>

NoTable == [k \in {} |-> ""]

\* f, and g where f is not defined.
Over(f, g) == [k \in DOMAIN f \cup DOMAIN g |-> IF k \in DOMAIN f THEN f[k] ELSE g[k]]

EmptySchema == [recorded |-> {}, bodies |-> << >>]
Idle == [pc |-> "idle", patch |-> NoTable, merged |-> NoTable, answer |-> NoTable, alone |-> FALSE]
NoProcess == [creds |-> FALSE, shipped |-> 0, next |-> 1, secret |-> ""]

Init ==
    /\ schema = EmptySchema /\ settings = NoTable /\ users = FALSE
    /\ tx = EmptySchema /\ pc = "down" /\ proc = NoProcess
    /\ raw = NoTable /\ snap = NoTable /\ level = "info" /\ lock = NoCaller
    /\ callers = [c \in Callers |-> Idle]
    /\ used = {} /\ sessions = {} /\ ahead = {}

-----------------------------------------------------------------------------
(* Migrations.                                                             *)

\* A release of any age is started, with credentials for an administrator or not.
Start(shipped, creds) ==
    /\ pc = "down"
    /\ pc' = "migrate"
    /\ proc' = [creds |-> creds, shipped |-> shipped, next |-> 1, secret |-> ""]
    /\ UNCHANGED <<database, tx, service, callers, used, sessions, ahead>>

CheckMigration ==
    /\ pc = "migrate"
    /\ IF proc.next > proc.shipped
       THEN pc' = "seed" /\ UNCHANGED <<proc, tx>>
       ELSE IF proc.next \in schema.recorded
            THEN proc' = [proc EXCEPT !.next = @ + 1] /\ UNCHANGED <<pc, tx>>
            ELSE pc' = "body" /\ tx' = schema /\ UNCHANGED proc
    /\ UNCHANGED <<database, service, callers, used, sessions, ahead>>

\* Broken variant: the body runs outside the transaction.
ApplyBodyAtOnce ==
    /\ pc = "body"
    /\ schema' = [schema EXCEPT !.bodies = Append(@, proc.next)]
    /\ tx' = schema' /\ pc' = "record"
    /\ UNCHANGED <<settings, users, proc, service, callers, used, sessions, ahead>>

ApplyBody ==
    /\ pc = "body"
    /\ tx' = [tx EXCEPT !.bodies = Append(@, proc.next)]
    /\ pc' = "record"
    /\ UNCHANGED <<database, proc, service, callers, used, sessions, ahead>>

RecordMigration ==
    /\ pc = "record"
    /\ tx' = [tx EXCEPT !.recorded = @ \cup {proc.next}]
    /\ pc' = "commit"
    /\ UNCHANGED <<database, proc, service, callers, used, sessions, ahead>>

CommitMigration ==
    /\ pc = "commit"
    /\ schema' = tx
    /\ pc' = "migrate" /\ proc' = [proc EXCEPT !.next = @ + 1]
    /\ UNCHANGED <<settings, users, tx, service, callers, used, sessions, ahead>>

-----------------------------------------------------------------------------
(* New: defaults, secret, first snapshot; then the administrator.          *)

Defaults == [k \in Keys \cup {SecretKey} |-> IF k = SecretKey THEN "" ELSE Default[k]]

\* Broken variant: the seed overwrites.
SeedOver ==
    /\ pc = "seed"
    /\ settings' = [k \in Keys \cup {SecretKey} |-> IF k = SecretKey /\ k \in DOMAIN settings
                                                    THEN settings[k] ELSE Defaults[k]]
    /\ pc' = "load"
    /\ UNCHANGED <<schema, users, tx, proc, service, callers, used, sessions, ahead>>

SeedDefaults ==
    /\ pc = "seed"
    /\ settings' = Over(settings, Defaults)
    /\ pc' = "load"
    /\ UNCHANGED <<schema, users, tx, proc, service, callers, used, sessions, ahead>>

\* GetAll; what earlier requests were not told is read as well.
Load ==
    /\ pc = "load"
    /\ raw' = settings /\ ahead' = {}
    /\ pc' = IF settings[SecretKey] = "" THEN "secret" ELSE "build"
    /\ UNCHANGED <<database, tx, proc, snap, level, lock, callers, used, sessions>>

\* Broken variant: the secret is not stored.
GenerateSecretInMemory ==
    /\ pc = "secret"
    /\ \E s \in Secrets \ used : raw' = [raw EXCEPT ![SecretKey] = s] /\ used' = used \cup {s}
    /\ pc' = "build"
    /\ UNCHANGED <<database, tx, proc, snap, level, lock, callers, sessions, ahead>>

GenerateSecret ==
    /\ pc = "secret"
    /\ \E s \in Secrets \ used :
           /\ settings' = [settings EXCEPT ![SecretKey] = s]
           /\ raw' = [raw EXCEPT ![SecretKey] = s]
           /\ used' = used \cup {s}
    /\ pc' = "build"
    /\ UNCHANGED <<schema, users, tx, proc, snap, level, lock, callers, sessions, ahead>>

\* build: every value is checked by itself.
Builds(t) == \A k \in Keys : t[k] \in Valid[k]
Snapshot(t) == [k \in Keys |-> Meaning[t[k]]]

\* A table that does not build ends the start; SessionSecret is read once.
BuildSnapshot ==
    /\ pc = "build"
    /\ Builds(raw)
    /\ snap' = Snapshot(raw) /\ level' = Snapshot(raw)[LogLevel]
    /\ proc' = [proc EXCEPT !.secret = raw[SecretKey]]
    /\ pc' = "admin"
    /\ UNCHANGED <<database, tx, raw, lock, callers, used, sessions, ahead>>

\* Broken variant: the administrator is created on the first start only.
CountUsersFirstStart ==
    /\ pc = "admin"
    /\ pc' = IF proc.creds /\ ~users /\ sessions = {} /\ settings = [Defaults EXCEPT ![SecretKey] = proc.secret]
             THEN "create" ELSE "serving"
    /\ UNCHANGED <<database, tx, proc, service, callers, used, sessions, ahead>>

CountUsers ==
    /\ pc = "admin"
    /\ pc' = IF proc.creds /\ ~users THEN "create" ELSE "serving"
    /\ UNCHANGED <<database, tx, proc, service, callers, used, sessions, ahead>>

CreateAdmin ==
    /\ pc = "create"
    /\ users' = TRUE
    /\ pc' = "serving"
    /\ UNCHANGED <<schema, settings, tx, proc, service, callers, used, sessions, ahead>>

\* The process dies, or main returns: a start that meets an error, a shutdown.
Crash ==
    /\ pc # "down"
    /\ pc' = "down" /\ proc' = NoProcess /\ tx' = EmptySchema
    /\ raw' = NoTable /\ snap' = NoTable /\ level' = "info" /\ lock' = NoCaller
    /\ callers' = [c \in Callers |-> Idle]
    /\ UNCHANGED <<database, used, sessions, ahead>>

-----------------------------------------------------------------------------
(* Update.                                                                 *)

Put(c, patch) ==
    /\ pc = "serving" /\ callers[c].pc = "idle"
    /\ callers' = [callers EXCEPT ![c] = [Idle EXCEPT !.pc = "lock", !.patch = patch]]
    /\ UNCHANGED <<database, tx, pc, proc, service, used, sessions, ahead>>

Merged(patch) == Over(patch, raw)

\* Broken variant: the lock is not waited for.
LockAndBuildUnlocked(c) ==
    /\ callers[c].pc = "lock"
    /\ LET merged == Merged(callers[c].patch) IN
       IF Builds(merged)
       THEN lock' = c /\ callers' = [callers EXCEPT ![c].pc = "persist", ![c].merged = merged]
       ELSE callers' = [callers EXCEPT ![c] = Idle] /\ UNCHANGED lock
    /\ UNCHANGED <<database, tx, pc, proc, raw, snap, level, used, sessions, ahead>>

\* Broken variant: the patch is stored before it is checked.
LockAndBuildLater(c) ==
    /\ callers[c].pc = "lock" /\ lock = NoCaller
    /\ lock' = c /\ callers' = [callers EXCEPT ![c].pc = "persist", ![c].merged = Merged(callers[c].patch)]
    /\ UNCHANGED <<database, tx, pc, proc, raw, snap, level, used, sessions, ahead>>

\* mu.Lock, then build of the merged map, which may refuse the patch.
LockAndBuild(c) ==
    /\ callers[c].pc = "lock" /\ lock = NoCaller
    /\ LET merged == Merged(callers[c].patch) IN
       IF Builds(merged)
       THEN lock' = c /\ callers' = [callers EXCEPT ![c].pc = "persist", ![c].merged = merged]
       ELSE callers' = [callers EXCEPT ![c] = Idle] /\ UNCHANGED lock
    /\ UNCHANGED <<database, tx, pc, proc, raw, snap, level, used, sessions, ahead>>

\* SetMany, one transaction: stored.
Persist(c) ==
    /\ callers[c].pc = "persist"
    /\ settings' = Over(callers[c].patch, settings)
    /\ callers' = [callers EXCEPT ![c].pc = "swap"]
    /\ ahead' = ahead \ DOMAIN callers[c].patch
    /\ UNCHANGED <<schema, users, tx, pc, proc, service, used, sessions>>

\* Broken variant: the error return keeps the lock (Unlock not deferred).
PersistFailsLocked(c) ==
    /\ callers[c].pc = "persist"
    /\ UNCHANGED <<settings, ahead>>
    /\ callers' = [callers EXCEPT ![c] = Idle]
    /\ UNCHANGED <<schema, users, tx, pc, proc, service, used, sessions>>

\* SetMany reports an error: rolled back, or stored all the same.
PersistFails(c) ==
    /\ callers[c].pc = "persist"
    /\ \/ UNCHANGED <<settings, ahead>>
       \/ /\ settings' = Over(callers[c].patch, settings)
          /\ ahead' = ahead \cup DOMAIN callers[c].patch
    /\ callers' = [callers EXCEPT ![c] = Idle]
    /\ lock' = NoCaller
    /\ UNCHANGED <<schema, users, tx, pc, proc, raw, snap, level, used, sessions>>

\* Those whose own update is followed by this one.
Overtaken(c) == [d \in Callers |-> IF d = c THEN [callers[d] EXCEPT !.pc = "notify", !.alone = TRUE]
                                   ELSE [callers[d] EXCEPT !.alone = FALSE]]

\* Broken variant: raw is left as it was.
SwapSnapshotOnly(c) ==
    /\ callers[c].pc = "swap"
    /\ snap' = Snapshot(callers[c].merged)
    /\ callers' = Overtaken(c)
    /\ UNCHANGED <<database, tx, pc, proc, raw, level, lock, used, sessions, ahead>>

\* Broken variant: callbacks run after the lock is released.
SwapAndUnlock(c) ==
    /\ callers[c].pc = "swap"
    /\ raw' = callers[c].merged /\ snap' = Snapshot(callers[c].merged)
    /\ callers' = Overtaken(c) /\ lock' = NoCaller
    /\ UNCHANGED <<database, tx, pc, proc, level, used, sessions, ahead>>

Swap(c) ==
    /\ callers[c].pc = "swap"
    /\ raw' = callers[c].merged /\ snap' = Snapshot(callers[c].merged)
    /\ callers' = Overtaken(c)
    /\ UNCHANGED <<database, tx, pc, proc, level, lock, used, sessions, ahead>>

\* The callback, and the deferred unlock.
Notify(c) ==
    /\ callers[c].pc = "notify"
    /\ level' = Snapshot(callers[c].merged)[LogLevel]
    /\ lock' = NoCaller
    /\ callers' = [callers EXCEPT ![c].pc = "get"]
    /\ UNCHANGED <<database, tx, pc, proc, raw, snap, used, sessions, ahead>>

\* GET, and the answer to PUT: the snapshot first, then the durations from raw.
Get(c) ==
    /\ pc = "serving" /\ callers[c].pc = "idle"
    /\ callers' = [callers EXCEPT ![c] = [Idle EXCEPT !.pc = "get"]]
    /\ UNCHANGED <<database, tx, pc, proc, service, used, sessions, ahead>>

Current(c) ==
    /\ callers[c].pc = "get"
    /\ callers' = [callers EXCEPT ![c].pc = "raw", ![c].answer = [k \in Keys \ Echoed |-> snap[k]]]
    /\ UNCHANGED <<database, tx, pc, proc, service, used, sessions, ahead>>

Raw(c) ==
    /\ callers[c].pc = "raw" /\ lock = NoCaller
    /\ \E k \in Echoed \ DOMAIN callers[c].answer :
           callers' = [callers EXCEPT ![c].answer = Over([e \in {k} |-> raw[e]], @)]
    /\ UNCHANGED <<database, tx, pc, proc, service, used, sessions, ahead>>

Answer(c) ==
    /\ callers[c].pc = "raw" /\ Keys \subseteq DOMAIN callers[c].answer
    /\ callers' = [callers EXCEPT ![c] = Idle]
    /\ UNCHANGED <<database, tx, pc, proc, service, used, sessions, ahead>>

-----------------------------------------------------------------------------
(* Sessions.                                                               *)

Login ==
    /\ pc = "serving" /\ users
    /\ sessions' = sessions \cup {proc.secret}
    /\ UNCHANGED <<database, tx, pc, proc, service, callers, used, ahead>>

\* Cookies are forgotten after their time, or by a logout.
Expire ==
    /\ sessions # {} /\ sessions' \in SUBSET sessions /\ sessions' # sessions
    /\ UNCHANGED <<database, tx, pc, proc, service, callers, used, ahead>>

Verify(secret) == secret = proc.secret

-----------------------------------------------------------------------------

StartStep ==
    \/ \E shipped \in 1 .. Versions, creds \in BOOLEAN : Start(shipped, creds)
    \/ CheckMigration \/ ApplyBody \/ RecordMigration \/ CommitMigration
    \/ SeedDefaults \/ Load \/ GenerateSecret \/ BuildSnapshot \/ CountUsers \/ CreateAdmin
    \/ Crash

UpdateStep(c) == LockAndBuild(c) \/ Persist(c) \/ PersistFails(c) \/ Swap(c) \/ Notify(c)
AnswerStep(c) == Current(c) \/ Raw(c) \/ Answer(c)

Next ==
    \/ StartStep \/ Login \/ Expire
    \/ \E c \in Callers : UpdateStep(c) \/ AnswerStep(c) \/ Get(c) \/ \E patch \in Patches : Put(c, patch)

Spec == Init /\ [][Next]_vars

-----------------------------------------------------------------------------
(* Properties.                                                             *)

Process == [creds : BOOLEAN, shipped : Nat, next : Nat \ {0}, secret : Secrets \cup {""}]
StringTable == [Keys \cup {SecretKey} -> Values \cup Secrets \cup {""}]
Shown == Values \cup Secrets \cup {""} \cup {Meaning[v] : v \in Values}
Caller ==
    [pc : {"idle", "lock", "persist", "swap", "notify", "get", "raw"},
     patch : Patches \cup {NoTable}, merged : StringTable \cup {NoTable},
     answer : UNION {[ks -> Shown] : ks \in SUBSET Keys}, alone : BOOLEAN]
StartPcs == {"down", "migrate", "body", "record", "commit", "seed", "load", "secret", "build", "admin", "create"}

\* The shape of the state; no request is served before the start is over; the
\* lock is held just in the middle of an update.
TypeOK ==
    /\ users \in BOOLEAN
    /\ settings = NoTable \/ settings \in StringTable
    /\ raw = NoTable \/ raw \in StringTable
    /\ schema \in [recorded : SUBSET Nat, bodies : Seq(Nat)]
    /\ tx \in [recorded : SUBSET Nat, bodies : Seq(Nat)]
    /\ proc \in Process
    /\ pc \in StartPcs \cup {"serving"}
    /\ lock \in Callers \cup {NoCaller}
    /\ callers \in [Callers -> Caller]
    /\ pc # "serving" => \A c \in Callers : callers[c] = Idle
    /\ \A c \in Callers : callers[c].pc \in {"persist", "swap", "notify"} <=> lock = c
    /\ used \subseteq Secrets /\ sessions \subseteq used /\ ahead \subseteq Keys

\* Whatever happened, each migration ran once, in order, and is recorded
\* (store/migrate.go: "idempotent and safe to call on every startup").
MigrationsOnce ==
    /\ schema.recorded = 1 .. Len(schema.bodies)
    /\ \A i \in 1 .. Len(schema.bodies) : schema.bodies[i] = i

\* The next start will not be refused by what updates have stored, also when one
\* was stored without this process knowing and others were checked after it.
TableBuilds == settings # NoTable => Builds(settings)

\* Between updates the process runs on what is stored, but for the keys of an
\* update that was stored and reported as failed.
SnapshotTracksTable ==
    pc = "serving" /\ lock = NoCaller =>
        \A k \in Keys \ ahead : raw[k] = settings[k] /\ snap[k] = Meaning[settings[k]]

\* Between updates the log level is the snapshot's: callbacks run in the order
\* of the updates (service.go: inside the lock).
LogLevelCurrent == pc = "serving" /\ lock = NoCaller => level = snap[LogLevel]

\* A cookie that has not expired is accepted by whatever process serves
\* (service.go: "so sessions survive restarts").
SessionsSurvive == pc = "serving" => \A s \in sessions : Verify(s)

\* A start changes no setting that is there but an empty secret.
StartKeepsSettings ==
    [][pc # "serving" =>
           \A k \in DOMAIN settings : settings'[k] = settings[k] \/ (k = SecretKey /\ settings[k] = "")]_settings

\* Who restarts with credentials while there is no user gets one (README,
\* Troubleshooting: "Locked out after enabling authentication").
AdminSeeded == pc = "serving" /\ proc.creds => users

\* The answer to an update shows it, unless a later update came between.
AnswerReflectsUpdate ==
    \A c \in Callers : callers[c].alone =>
        \A k \in DOMAIN callers[c].patch \cap DOMAIN callers[c].answer :
            callers[c].answer[k] = IF k \in Echoed THEN callers[c].patch[k] ELSE Meaning[callers[c].patch[k]]
=============================================================================
