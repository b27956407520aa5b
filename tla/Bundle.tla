------------------------------- MODULE Bundle -------------------------------
(***************************************************************************)
(* Configuration export and import of bothan (packages bundle and store).  *)
(*                                                                         *)
(* Export reads hosts, the links of each host, schedules, channels and     *)
(* rules in separate statements, and the API may change any of them in     *)
(* between.  Import validates a document, resolves its secrets and applies *)
(* it in one transaction, which holds the only connection until it ends.   *)
(*                                                                         *)
(* Schedules and channels go by their unique names; hosts and rules need   *)
(* their row ids too: rules refer to hosts by id, and rule names repeat.   *)
(***************************************************************************)
EXTENDS Integers, Sequences, SequencesExt

CONSTANTS
    Names,      \* names of hosts, schedules, channels and rules
    Values,     \* what the columns that only travel may hold
    Entries,    \* bound: those of Values that are entered through the API
    Secrets,    \* configurations of channels, in the clear
    Keys,       \* encryption keys of instances
    Key,        \* that of this instance
    Databases,  \* what the tables may hold at first
    Documents,  \* documents from elsewhere: written by hand, of another instance
    MaxChanges  \* bound: changes made through the API and imports begun

ASSUME BundleAssumption ==
    /\ MaxChanges \in Nat
    /\ "" \notin Names /\ Key \in Keys /\ {"", "passphrase"} \cap Keys = {}
    /\ Entries \subseteq Values

Global == 0        \* host_id NULL
NoHost == ""       \* no host in a document: a global rule
NoConfig == [key |-> "", secret |-> ""]
NoDocument == [mode |-> ""]
NoTables == [hosts |-> {}, schedules |-> {}, channels |-> {}, rules |-> {}, hs |-> {}, hc |-> {}]

Configs == {NoConfig} \cup [key : {Key}, secret : Secrets]
Ciphers == {NoConfig} \cup [key : Keys \cup {"passphrase"}, secret : Secrets]
Modes == {"none", "instance_key", "passphrase"}

NamesOf(rows) == {r.name : r \in rows}
IdsOf(rows) == {r.id : r \in rows}
DistinctNames(rows) == \A r, s \in rows : r.name = s.name => r = s
DistinctIds(rows) == \A r, s \in rows : r.id = s.id => r = s

\* The columns of the tables.
RowIds == Nat \ {Global}
HostRows == [id : RowIds, name : Names, value : Values]
RuleRows == [id : RowIds, name : Names, value : Values, host : Nat]
Entry == [name : Names, value : Values]
RuleEntry == [name : Names, value : Values, host : Names \cup {NoHost}]
ChannelRows == [name : Names, on : BOOLEAN, needs : BOOLEAN, config : Ciphers]
Links == RowIds \X Names

Tables ==
    [hosts : SUBSET HostRows, schedules : SUBSET Entry, channels : SUBSET ChannelRows,
     rules : SUBSET RuleRows, hs : SUBSET Links, hc : SUBSET Links]

\* The constraints of the schema: keys and names are unique where it says so,
\* and rules and links refer to rows that exist.
Consistent(t) ==
    /\ DistinctIds(t.hosts) /\ DistinctIds(t.rules)
    /\ DistinctNames(t.hosts) /\ DistinctNames(t.schedules) /\ DistinctNames(t.channels)
    /\ \A r \in t.rules : r.host \in IdsOf(t.hosts) \cup {Global}
    /\ t.hs \subseteq (IdsOf(t.hosts) \X NamesOf(t.schedules))
    /\ t.hc \subseteq (IdsOf(t.hosts) \X NamesOf(t.channels))
    /\ \A c \in t.channels : c.needs => c.config = NoConfig

\* What the database may hold.
Sound(t) ==
    /\ t \in Tables /\ IsFiniteSet(t.hosts) /\ IsFiniteSet(t.rules)
    /\ Consistent(t)

\* Tables in which every configuration can be decrypted here.
Readable(t) ==
    /\ "channels" \in DOMAIN t
    /\ \A c \in t.channels : "config" \in DOMAIN c /\ c.config \in Configs

\* What a JSON document is decoded to.
Decoded ==
    [mode : Modes, key : Keys \cup {""}, valid : BOOLEAN, hosts : SUBSET Entry, schedules : SUBSET Entry,
     channels : SUBSET [name : Names, on : BOOLEAN, cipher : Ciphers],
     rules : Seq(RuleEntry),
     hs : SUBSET (Names \X Names), hc : SUBSET (Names \X Names)]

\* A document whose ciphers were made with the key it says: Import compares the
\* fingerprint of an instance key, and decrypts only what was encrypted with a
\* passphrase.
Honest(d) ==
    /\ d.mode \in Modes
    /\ \A c \in d.channels :
          /\ d.mode = "instance_key" /\ d.key = Key => c.cipher \in Configs
          /\ d.mode = "passphrase" => c.cipher \in [key : {"passphrase"}, secret : Secrets]

ASSUME InputsAssumption ==
    /\ \A t \in Databases : Sound(t) /\ Readable(t)
    /\ \A d \in Documents : d \in Decoded /\ IsFiniteSet(d.hosts) /\ Honest(d)

VARIABLES
    db,      \* the tables
    export,  \* locals of Export
    import,  \* locals of Import and its open transaction
    doc,     \* the last document an export has produced
    origin,  \* history: the tables doc was made of, if they held still
    changes  \* changes made and imports begun so far

vars == <<db, export, import, doc, origin, changes>>

IdleExport == [pc |-> "none", mode |-> "", listed |-> {}, left |-> {}, part |-> NoDocument, calm |-> TRUE]
IdleImport == [pc |-> "none", from |-> NoDocument, mode |-> "", dry |-> FALSE, tx |-> {}]

Init ==
    /\ db \in Databases
    /\ export = IdleExport /\ import = IdleImport
    /\ doc = NoDocument /\ origin = NoTables /\ changes = 0

\* The connection is not held by a transaction.
Free == import.pc = "none"

NextId(rows) == Max(IdsOf(rows) \cup {0}) + 1
Named(rows, n) == {r \in rows : r.name = n}

-----------------------------------------------------------------------------
(* Export.                                                                 *)

\* Passphrase export decrypts every channel and stops at one it cannot.
Decryptable(c) == c.config.key = Key

Carried(c, mode) ==
    CASE mode = "none" -> NoConfig
      [] mode = "instance_key" -> c.config
      [] mode = "passphrase" -> [c.config EXCEPT !.key = "passphrase"]

\* hostByID, filled from the list of hosts read at first.
HostName(listed, id) == IF \E h \in listed : h.id = id THEN (CHOOSE h \in listed : h.id = id).name ELSE NoHost

\* Broken variant: the host of a rule is not carried.
RuleEntriesGlobal(rules, listed) ==
    LET rows == SetToSeq(rules) IN
    [i \in DOMAIN rows |-> [name |-> rows[i].name, value |-> rows[i].value, host |-> NoHost]]

RuleEntries(rules, listed) ==
    LET rows == SetToSeq(rules) IN
    [i \in DOMAIN rows |->
        [name |-> rows[i].name, value |-> rows[i].value, host |-> HostName(listed, rows[i].host)]]

Begun(mode) ==
    [mode |-> mode, key |-> IF mode = "instance_key" THEN Key ELSE "", valid |-> TRUE,
     hosts |-> {[name |-> h.name, value |-> h.value] : h \in db.hosts},
     schedules |-> {}, channels |-> {}, rules |-> <<>>, hs |-> {}, hc |-> {}]

ListHosts(mode) ==
    /\ export.pc = "none" /\ Free
    /\ export' = [pc |-> IF db.hosts = {} THEN "schedules" ELSE "hs", mode |-> mode, listed |-> db.hosts,
                  left |-> db.hosts, part |-> Begun(mode), calm |-> TRUE]
    /\ UNCHANGED <<db, import, doc, origin, changes>>

CurrentHost == CHOOSE h \in export.left : TRUE

SchedulesForHost ==
    /\ export.pc = "hs" /\ Free
    /\ export' = [export EXCEPT !.pc = "hc",
                      !.part.hs = @ \cup {<<CurrentHost.name, l[2]>> : l \in {k \in db.hs : k[1] = CurrentHost.id}}]
    /\ UNCHANGED <<db, import, doc, origin, changes>>

ChannelsForHost ==
    /\ export.pc = "hc" /\ Free
    /\ export' = [export EXCEPT !.pc = IF export.left = {CurrentHost} THEN "schedules" ELSE "hs",
                      !.left = @ \ {CurrentHost},
                      !.part.hc = @ \cup {<<CurrentHost.name, l[2]>> : l \in {k \in db.hc : k[1] = CurrentHost.id}}]
    /\ UNCHANGED <<db, import, doc, origin, changes>>

\* Broken variant: schedules without a host are left out of the list.
ListLinkedSchedules ==
    /\ export.pc = "schedules" /\ Free
    /\ export' = [export EXCEPT !.pc = "channels", !.part.schedules = {}]
    /\ UNCHANGED <<db, import, doc, origin, changes>>

ListSchedules ==
    /\ export.pc = "schedules" /\ Free
    /\ export' = [export EXCEPT !.pc = "channels", !.part.schedules = db.schedules]
    /\ UNCHANGED <<db, import, doc, origin, changes>>

ListChannels ==
    /\ export.pc = "channels" /\ Free
    /\ \/ /\ export.mode = "passphrase" => \A c \in db.channels : Decryptable(c)
          /\ export' = [export EXCEPT !.pc = "rules",
                            !.part.channels = {[name |-> c.name, on |-> c.on, cipher |-> Carried(c, export.mode)] :
                                               c \in db.channels}]
       \/ /\ export.mode = "passphrase" /\ \E c \in db.channels : ~Decryptable(c)
          /\ export' = IdleExport
    /\ UNCHANGED <<db, import, doc, origin, changes>>

ListRules ==
    /\ export.pc = "rules" /\ Free
    /\ doc' = [export.part EXCEPT !.rules = RuleEntries(db.rules, export.listed)]
    /\ origin' = IF export.calm THEN db ELSE NoTables
    /\ export' = IdleExport
    /\ UNCHANGED <<db, import, changes>>

-----------------------------------------------------------------------------
(* Import: validation and secrets.                                         *)

\* What validate looks at in one entry alone (specs, types, conditions, grades)
\* and the schema version are in d.valid.
Validated(d) ==
    /\ d.valid
    /\ DistinctNames(d.hosts) /\ DistinctNames(d.schedules) /\ DistinctNames(d.channels)
    /\ \A i, j \in DOMAIN d.rules : d.rules[i].name = d.rules[j].name => i = j
    /\ \A i \in DOMAIN d.rules : d.rules[i].host \in NamesOf(d.hosts) \cup {NoHost}
    /\ \A l \in d.hs : l[1] \in NamesOf(d.hosts) /\ l[2] \in NamesOf(d.schedules)
    /\ \A l \in d.hc : l[1] \in NamesOf(d.hosts) /\ l[2] \in NamesOf(d.channels)

\* Broken variant: the fingerprint is not compared.
ResolvedUnchecked(d, passphrase) == d.mode = "passphrase" => passphrase \/ d.channels = {}

\* The document's secrets can be had: its key is ours, or the passphrase is right.
Resolved(d, passphrase) ==
    /\ d.mode = "instance_key" => d.key = Key
    /\ d.mode = "passphrase" => passphrase \/ d.channels = {}

\* resolveChannels.
Received(c, mode) ==
    CASE mode = "none" -> [name |-> c.name, on |-> FALSE, needs |-> TRUE, config |-> NoConfig]
      [] mode = "instance_key" -> [name |-> c.name, on |-> c.on, needs |-> FALSE, config |-> c.cipher]
      [] mode = "passphrase" -> [name |-> c.name, on |-> c.on, needs |-> FALSE,
                                 config |-> [c.cipher EXCEPT !.key = Key]]

-----------------------------------------------------------------------------
(* Import: the transaction, as functions of the tables.                    *)

\* Broken variant: only what the document names is replaced.
WipedSchedulesKept(t) == [t EXCEPT !.rules = {}, !.channels = {}, !.hc = {}]

\* Rules, channels, schedules; their links go with them.
Wiped(t) == [t EXCEPT !.rules = {}, !.channels = {}, !.schedules = {}, !.hs = {}, !.hc = {}]

UpsertHost(hosts, h) ==
    IF Named(hosts, h.name) = {}
    THEN hosts \cup {[id |-> NextId(hosts), name |-> h.name, value |-> h.value]}
    ELSE {IF g.name = h.name THEN [g EXCEPT !.value = h.value] ELSE g : g \in hosts}

UpsertedHosts(hosts, new) == FoldSet(LAMBDA h, rows : UpsertHost(rows, h), hosts, new)

WithHosts(t, d) == [t EXCEPT !.hosts = UpsertedHosts(@, d.hosts)]

\* Schedules and channels have no reference but by name.
Upserted(rows, new) == {r \in rows : r.name \notin NamesOf(new)} \cup new

WithSchedules(t, d) == [t EXCEPT !.schedules = Upserted(t.schedules, d.schedules)]

WithChannels(t, d) == [t EXCEPT !.channels = Upserted(t.channels, {Received(c, d.mode) : c \in d.channels})]

HostId(t, n) == IF n = NoHost THEN Global ELSE (CHOOSE h \in t.hosts : h.name = n).id

\* Broken variant: a rule of the same name is not looked for.
InsertRule(rules, r, host) ==
    rules \cup {[id |-> NextId(rules), name |-> r.name, value |-> r.value, host |-> host]}

\* Of several rules of one name the first one found is written.
UpsertRule(rules, r, host) ==
    IF Named(rules, r.name) = {}
    THEN rules \cup {[id |-> NextId(rules), name |-> r.name, value |-> r.value, host |-> host]}
    ELSE LET first == Min({q.id : q \in Named(rules, r.name)}) IN
         {IF q.id = first THEN [q EXCEPT !.value = r.value, !.host = host] ELSE q : q \in rules}

UpsertedRules(t, new) == FoldLeft(LAMBDA rows, r : UpsertRule(rows, r, HostId(t, r.host)), t.rules, new)

WithRules(t, d) == [t EXCEPT !.rules = UpsertedRules(t, d.rules)]

WithLinks(t, d) ==
    [t EXCEPT !.hs = @ \cup {<<HostId(t, l[1]), l[2]>> : l \in d.hs},
              !.hc = @ \cup {<<HostId(t, l[1]), l[2]>> : l \in d.hc}]

Applied(t, d, mode) ==
    LET wiped == IF mode = "replace" THEN Wiped(t) ELSE t IN
    WithLinks(WithRules(WithChannels(WithSchedules(WithHosts(wiped, d), d), d), d), d)

-----------------------------------------------------------------------------
(* Import: the transaction, stage by stage.                                *)

\* A document that is refused changes nothing and is not a step.
BeginImport(d, mode, dry, passphrase) ==
    /\ Free /\ changes < MaxChanges
    /\ Validated(d) /\ Resolved(d, passphrase)
    /\ import' = [pc |-> IF mode = "replace" THEN "wipe" ELSE "hosts",
                  from |-> d, mode |-> mode, dry |-> dry, tx |-> db]
    /\ changes' = changes + 1
    /\ UNCHANGED <<db, export, doc, origin>>

Stage(from, to, tx) ==
    /\ import.pc = from
    /\ import' = [import EXCEPT !.pc = to, !.tx = tx]
    /\ UNCHANGED <<db, export, doc, origin, changes>>

Wipe            == Stage("wipe", "hosts", Wiped(import.tx))
UpsertHosts     == Stage("hosts", "schedules", WithHosts(import.tx, import.from))
UpsertSchedules == Stage("schedules", "channels", WithSchedules(import.tx, import.from))
UpsertChannels  == Stage("channels", "rules", WithChannels(import.tx, import.from))
UpsertRules     == Stage("rules", "links", WithRules(import.tx, import.from))
LinkByNames     == Stage("links", "commit", WithLinks(import.tx, import.from))

\* An export under way sees the tables change.
Disturbed == [export EXCEPT !.calm = FALSE]

Commit ==
    /\ import.pc = "commit" /\ ~import.dry
    /\ db' = import.tx
    /\ export' = Disturbed /\ import' = IdleImport
    /\ UNCHANGED <<doc, origin, changes>>

\* A dry run ends here; a statement may fail, or the process die, at any stage.
Rollback ==
    /\ ~Free
    /\ import' = IdleImport
    /\ UNCHANGED <<db, export, doc, origin, changes>>

\* The process dies: requests are gone, the tables are as committed.
Crash ==
    /\ export' = IdleExport /\ import' = IdleImport
    /\ <<export, import>> # <<IdleExport, IdleImport>>
    /\ UNCHANGED <<db, doc, origin, changes>>

-----------------------------------------------------------------------------
(* Changes through the API.                                                *)

Edit(tables) ==
    /\ Free /\ changes < MaxChanges
    /\ tables # db
    /\ db' = tables /\ changes' = changes + 1
    /\ export' = Disturbed
    /\ UNCHANGED <<import, doc, origin>>

CreateHost(n, v) ==
    /\ Named(db.hosts, n) = {}
    /\ Edit([db EXCEPT !.hosts = @ \cup {[id |-> NextId(@), name |-> n, value |-> v]}])

UpdateHost(h, n, v) ==
    /\ Named(db.hosts \ {h}, n) = {}
    /\ Edit([db EXCEPT !.hosts = (@ \ {h}) \cup {[h EXCEPT !.name = n, !.value = v]}])

\* Broken variant: deleting a host leaves its rules and links (foreign_keys off).
DeleteHostAlone(h) == Edit([db EXCEPT !.hosts = @ \ {h}])

DeleteHost(h) ==
    Edit([db EXCEPT !.hosts = @ \ {h}, !.rules = {r \in @ : r.host # h.id},
                    !.hs = {l \in @ : l[1] # h.id}, !.hc = {l \in @ : l[1] # h.id}])

Relinked(links, old, new) == {IF l[2] = old THEN <<l[1], new>> ELSE l : l \in links}
Unlinked(links, n) == {l \in links : l[2] # n}

CreateSchedule(n, v) ==
    /\ Named(db.schedules, n) = {}
    /\ Edit([db EXCEPT !.schedules = @ \cup {[name |-> n, value |-> v]}])

UpdateSchedule(s, n, v) ==
    /\ Named(db.schedules \ {s}, n) = {}
    /\ Edit([db EXCEPT !.schedules = (@ \ {s}) \cup {[name |-> n, value |-> v]}, !.hs = Relinked(@, s.name, n)])

DeleteSchedule(s) == Edit([db EXCEPT !.schedules = @ \ {s}, !.hs = Unlinked(@, s.name)])

Entered(secret) == [key |-> Key, secret |-> secret]

CreateChannel(n, on, secret) ==
    /\ Named(db.channels, n) = {}
    /\ Edit([db EXCEPT !.channels = @ \cup {[name |-> n, on |-> on, needs |-> FALSE, config |-> Entered(secret)]}])

\* With or without a new configuration.
UpdateChannel(c, n, on, secret) ==
    /\ Named(db.channels \ {c}, n) = {}
    /\ \E new \in {[c EXCEPT !.name = n, !.on = on],
                   [name |-> n, on |-> on, needs |-> FALSE, config |-> Entered(secret)]} :
           Edit([db EXCEPT !.channels = (@ \ {c}) \cup {new}, !.hc = Relinked(@, c.name, n)])

DeleteChannel(c) == Edit([db EXCEPT !.channels = @ \ {c}, !.hc = Unlinked(@, c.name)])

HostIds == IdsOf(db.hosts) \cup {Global}

CreateRule(n, v, host) ==
    Edit([db EXCEPT !.rules = @ \cup {[id |-> NextId(@), name |-> n, value |-> v, host |-> host]}])

UpdateRule(r, n, v, host) ==
    Edit([db EXCEPT !.rules = (@ \ {r}) \cup {[r EXCEPT !.name = n, !.value = v, !.host = host]}])

DeleteRule(r) == Edit([db EXCEPT !.rules = @ \ {r}])

SetHostSchedules(h, names) ==
    Edit([db EXCEPT !.hs = {l \in @ : l[1] # h.id} \cup ({h.id} \X names)])

SetHostChannels(h, names) ==
    Edit([db EXCEPT !.hc = {l \in @ : l[1] # h.id} \cup ({h.id} \X names)])

-----------------------------------------------------------------------------

ExportStep ==
    \/ \E mode \in Modes : ListHosts(mode)
    \/ SchedulesForHost \/ ChannelsForHost \/ ListSchedules \/ ListChannels \/ ListRules

ImportStep ==
    \/ \E d \in Documents \cup ({doc} \ {NoDocument}), mode \in {"merge", "replace"}, dry, passphrase \in BOOLEAN :
           BeginImport(d, mode, dry, passphrase)
    \/ Wipe \/ UpsertHosts \/ UpsertSchedules \/ UpsertChannels \/ UpsertRules \/ LinkByNames
    \/ Commit \/ Rollback

EditStep ==
    \/ \E n \in Names, v \in Entries :
           \/ CreateHost(n, v) \/ CreateSchedule(n, v)
           \/ \E h \in db.hosts : UpdateHost(h, n, v)
           \/ \E s \in db.schedules : UpdateSchedule(s, n, v)
           \/ \E host \in HostIds : CreateRule(n, v, host) \/ \E r \in db.rules : UpdateRule(r, n, v, host)
    \/ \E n \in Names, on \in BOOLEAN, secret \in Secrets :
           CreateChannel(n, on, secret) \/ \E c \in db.channels : UpdateChannel(c, n, on, secret)
    \/ \E h \in db.hosts :
           \/ DeleteHost(h)
           \/ \E names \in SUBSET NamesOf(db.schedules) : SetHostSchedules(h, names)
           \/ \E names \in SUBSET NamesOf(db.channels) : SetHostChannels(h, names)
    \/ \E s \in db.schedules : DeleteSchedule(s)
    \/ \E c \in db.channels : DeleteChannel(c)
    \/ \E r \in db.rules : DeleteRule(r)

Next == ExportStep \/ ImportStep \/ EditStep \/ Crash

Spec == Init /\ [][Next]_vars

-----------------------------------------------------------------------------
(* Properties.                                                             *)

\* The tables keep what the schema declares, through every edit, with its
\* cascades, and every import.
TypeOK == Sound(db) /\ changes \in 0 .. MaxChanges

OneNamePerRule(d) == \A i, j \in DOMAIN d.rules : d.rules[i].name = d.rules[j].name => i = j

\* What export wrote while nothing changed, import takes back: the only ground
\* to refuse it is two rules with one name, which the tables allow.
QuietExportAccepted ==
    doc # NoDocument /\ origin # NoTables /\ OneNamePerRule(doc) => Validated(doc) /\ Resolved(doc, TRUE)

NamedLinks(t, links) == {<<HostName(t.hosts, l[1]), l[2]>> : l \in links}
RuleByName(t, r) == [name |-> r.name, value |-> r.value, host |-> HostName(t.hosts, r.host)]

\* Tables without their row ids, and without the mark needs_credentials, which
\* documents do not carry.
Content(t) ==
    [hosts |-> {[name |-> h.name, value |-> h.value] : h \in t.hosts},
     schedules |-> t.schedules,
     channels |-> {[name |-> c.name, on |-> c.on, config |-> c.config] : c \in t.channels},
     rules |-> {RuleByName(t, r) : r \in t.rules},
     hs |-> NamedLinks(t, t.hs), hc |-> NamedLinks(t, t.hc)]

\* Migration: a document with its secrets, made while nothing changed, brings a
\* fresh instance to the content of the exported one, in either mode.
RoundTrip ==
    origin # NoTables /\ doc.mode # "none" /\ OneNamePerRule(doc) =>
        \A mode \in {"merge", "replace"} : Content(Applied(NoTables, doc, mode)) = Content(origin)

\* Whatever was imported from whatever instance, this instance can read every
\* configuration it stores.
SecretsReadable == \A c \in db.channels : c.config \in Configs

\* What an import of d is to do to the tables t, without saying how.
Imported(t, d, mode, u) ==
    LET kept == IF mode = "replace" THEN {} ELSE {c \in t.channels : c.name \notin NamesOf(d.channels)} IN
    /\ \* Every host stays the row it was: scans refer to it.
       \A h \in t.hosts : \E g \in u.hosts :
           /\ g.id = h.id /\ g.name = h.name
           /\ IF h.name \in NamesOf(d.hosts) THEN [name |-> g.name, value |-> g.value] \in d.hosts ELSE g = h
    /\ NamesOf(u.hosts) = NamesOf(t.hosts) \cup NamesOf(d.hosts)
    /\ \A s \in d.schedules : s \in u.schedules
    /\ NamesOf(u.schedules) = NamesOf(d.schedules) \cup (IF mode = "replace" THEN {} ELSE NamesOf(t.schedules))
    /\ u.channels = kept \cup {Received(c, d.mode) : c \in d.channels}
    /\ \A i \in DOMAIN d.rules : d.rules[i] \in {RuleByName(u, r) : r \in u.rules}
    /\ IF mode = "replace"
       THEN /\ Cardinality(u.rules) = Len(d.rules)
            /\ NamedLinks(u, u.hs) = d.hs /\ NamedLinks(u, u.hc) = d.hc
       ELSE /\ {r \in t.rules : r.name \notin {d.rules[i].name : i \in DOMAIN d.rules}} \subseteq u.rules
            /\ NamedLinks(u, u.hs) = NamedLinks(t, t.hs) \cup d.hs
            /\ NamedLinks(u, u.hc) = NamedLinks(t, t.hc) \cup d.hc

\* All or nothing: the tables change by an edit, or by the whole of one import
\* that is not a dry run, whichever stage fails and whenever the process dies.
ImportAllOrNothing ==
    [][db' # db /\ ~Free =>
           /\ ~import.dry
           /\ Imported(db, import.from, import.mode, db')]_vars

\* A merge is safe to repeat: applied to its own outcome it changes nothing.
ImportIdempotent ==
    import.pc = "commit" => Applied(import.tx, import.from, "merge") = import.tx

\* Refuted: a rule without a host in a document is a global rule (bundle.go,
\* Rule: "empty for a global rule").
GlobalRulesAreGlobal ==
    [][doc' # NoDocument => \A i \in DOMAIN doc'.rules :
           doc'.rules[i].host = NoHost =>
               \E r \in db.rules : r.name = doc'.rules[i].name /\ r.host = Global]_doc
=============================================================================
