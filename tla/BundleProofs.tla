---------------------------- MODULE BundleProofs ----------------------------
(***************************************************************************)
(* Theorems about Bundle, for any tables, documents, names and secrets.    *)
(*                                                                         *)
(* First what the operators of an import make of the tables (hosts, rules, *)
(* the stages, the transaction whole), then the edits, then the invariants *)
(* of exports, imports and documents, and the theorems they give.          *)
(***************************************************************************)
EXTENDS Bundle, FoldLemmas

-----------------------------------------------------------------------------
(* Row ids.                                                                *)

\* The id SQLite gives to a new row is no other row's.
LEMMA NextIdIsFresh ==
    ASSUME NEW rows, IsFiniteSet(rows), \A r \in rows : r.id \in RowIds
    PROVE  NextId(rows) \in RowIds /\ \A r \in rows : r.id < NextId(rows)
<1> DEFINE f == [r \in rows |-> r.id]
           ids == IdsOf(rows) \cup {0}
<1>1. IdsOf(rows) = {f[r] : r \in rows}
  BY DEF IdsOf
<1>2. IsFiniteSet(IdsOf(rows))
  <2>1. DOMAIN f = rows
    OBVIOUS
  <2> HIDE DEF f
  <2> QED BY <1>1, <2>1, ImageIsFinite
<1>3. IsFiniteSet(ids) /\ ids \in SUBSET Nat /\ 0 \in ids
  <2>1. IsFiniteSet(ids)
    BY <1>2, FS_AddElement
  <2> QED BY <2>1 DEF IdsOf, RowIds, Global
<1>4. Max(ids) \in ids /\ \A i \in ids : i <= Max(ids)
  <2> HIDE DEF ids
  <2> QED BY <1>3, MaxOfSet
<1>5. \A r \in rows : r.id \in ids
  BY DEF IdsOf
<1> HIDE DEF ids
<1>6. NextId(rows) = Max(ids) + 1
  BY DEF NextId, ids
<1>7. Max(ids) \in Nat /\ \A r \in rows : r.id \in Nat /\ r.id <= Max(ids)
  BY <1>3, <1>4, <1>5
<1> HIDE DEF ids
<1> QED BY <1>6, <1>7 DEF RowIds, Global

-----------------------------------------------------------------------------
(* Hosts of an import.                                                     *)

\* rows is what the hosts before become when the entries es are upserted.
HostsFrom(before, es, rows) ==
    /\ rows \in SUBSET HostRows /\ IsFiniteSet(rows)
    /\ DistinctIds(rows) /\ DistinctNames(rows)
    /\ NamesOf(rows) = NamesOf(before) \cup NamesOf(es)
    /\ \A h \in before : \E g \in rows :
          g.id = h.id /\ g.name = h.name /\ (h.name \notin NamesOf(es) => g = h)
    /\ \A e \in es : \E g \in rows : g.name = e.name /\ g.value = e.value

\* One more entry upserted.
LEMMA UpsertHostFacts ==
    ASSUME NEW before, NEW es \in SUBSET Entry, NEW x \in Entry, x.name \notin NamesOf(es),
           NEW rows, HostsFrom(before, es, rows)
    PROVE  HostsFrom(before, es \cup {x}, UpsertHost(rows, x))
<1> DEFINE up == UpsertHost(rows, x)
<1>1. /\ rows \in SUBSET HostRows /\ IsFiniteSet(rows)
      /\ DistinctIds(rows) /\ DistinctNames(rows)
      /\ x.name \in Names /\ x.value \in Values
  BY DEF HostsFrom, Entry
<1>2. CASE Named(rows, x.name) = {}
  <2> DEFINE new == [id |-> NextId(rows), name |-> x.name, value |-> x.value]
  <2>1. up = rows \cup {new}
    BY <1>2 DEF UpsertHost
  <2>2. NextId(rows) \in RowIds /\ \A r \in rows : r.id < NextId(rows) /\ r.id \in RowIds
    <3>1. \A r \in rows : r.id \in RowIds
      BY <1>1 DEF HostRows
    <3> QED BY <1>1, <3>1, NextIdIsFresh
  <2>3. new \in HostRows /\ new.name = x.name /\ new.value = x.value /\ \A r \in rows : r.id # new.id
    BY <1>1, <2>2 DEF HostRows, RowIds
  <2>4. \A r \in rows : r.name # x.name
    BY <1>2 DEF Named
  <2> HIDE DEF new
  <2>5. up \in SUBSET HostRows /\ IsFiniteSet(up)
    BY <1>1, <2>1, <2>3, FS_AddElement
  <2>6. DistinctIds(up) /\ DistinctNames(up)
    BY <1>1, <2>1, <2>3, <2>4 DEF DistinctIds, DistinctNames
  <2>7. NamesOf(up) = NamesOf(before) \cup NamesOf(es \cup {x})
    <3>1. NamesOf(rows) = NamesOf(before) \cup NamesOf(es)
      BY DEF HostsFrom
    <3>2. NamesOf(up) = NamesOf(rows) \cup {x.name}
      BY <2>1, <2>3 DEF NamesOf
    <3>3. NamesOf(es \cup {x}) = NamesOf(es) \cup {x.name}
      BY DEF NamesOf
    <3> QED BY <3>1, <3>2, <3>3
  <2>8. ASSUME NEW h \in before
        PROVE  \E g \in up : g.id = h.id /\ g.name = h.name /\ (h.name \notin NamesOf(es \cup {x}) => g = h)
    <3>1. NamesOf(es) \subseteq NamesOf(es \cup {x})
      BY DEF NamesOf
    <3> QED BY <2>1, <3>1 DEF HostsFrom
  <2>9. \A e \in es \cup {x} : \E g \in up : g.name = e.name /\ g.value = e.value
    BY <2>1, <2>3 DEF HostsFrom
  <2> QED BY <2>5, <2>6, <2>7, <2>8, <2>9 DEF HostsFrom
<1>3. CASE Named(rows, x.name) # {}
  <2> DEFINE moved == [g \in rows |-> IF g.name = x.name THEN [g EXCEPT !.value = x.value] ELSE g]
  <2>1. up = {moved[g] : g \in rows}
    BY <1>3 DEF UpsertHost
  <2>2. ASSUME NEW g \in rows
        PROVE  /\ moved[g] \in HostRows /\ moved[g].id = g.id /\ moved[g].name = g.name
               /\ IF g.name = x.name THEN moved[g].value = x.value ELSE moved[g] = g
    BY <1>1 DEF HostRows
  <2>3. DOMAIN moved = rows
    OBVIOUS
  <2> HIDE DEF moved
  <2>4. up \in SUBSET HostRows /\ IsFiniteSet(up)
    BY <1>1, <2>1, <2>2, <2>3, ImageIsFinite
  <2>5. DistinctIds(up) /\ DistinctNames(up)
    BY <1>1, <2>1, <2>2 DEF DistinctIds, DistinctNames
  <2>6. NamesOf(up) = NamesOf(before) \cup NamesOf(es \cup {x})
    <3>1. NamesOf(rows) = NamesOf(before) \cup NamesOf(es)
      BY DEF HostsFrom
    <3>2. NamesOf(up) = NamesOf(rows)
      BY <2>1, <2>2 DEF NamesOf
    <3>3. NamesOf(es \cup {x}) = NamesOf(es) \cup {x.name} /\ x.name \in NamesOf(rows)
      BY <1>3 DEF NamesOf, Named
    <3> QED BY <3>1, <3>2, <3>3
  <2>7. ASSUME NEW h \in before
        PROVE  \E g \in up : g.id = h.id /\ g.name = h.name /\ (h.name \notin NamesOf(es \cup {x}) => g = h)
    <3>1. NamesOf(es \cup {x}) = NamesOf(es) \cup {x.name}
      BY DEF NamesOf
    <3>2. PICK g \in rows : g.id = h.id /\ g.name = h.name /\ (h.name \notin NamesOf(es) => g = h)
      BY DEF HostsFrom
    <3> QED BY <2>1, <2>2, <3>1, <3>2
  <2>8. ASSUME NEW e \in es \cup {x} PROVE \E g \in up : g.name = e.name /\ g.value = e.value
    <3>1. CASE e = x
      <4>1. PICK g \in rows : g.name = x.name
        BY <1>3 DEF Named
      <4> QED BY <2>1, <2>2, <3>1, <4>1
    <3>2. CASE e # x
      <4>1. e \in es /\ e.name # x.name
        BY <3>2 DEF NamesOf
      <4>2. PICK g \in rows : g.name = e.name /\ g.value = e.value
        BY <4>1 DEF HostsFrom
      <4> QED BY <2>1, <2>2, <4>1, <4>2
    <3> QED BY <3>1, <3>2
  <2> QED BY <2>4, <2>5, <2>6, <2>7, <2>8 DEF HostsFrom
<1> QED BY <1>2, <1>3

HostLists == {rows \in SUBSET HostRows : IsFiniteSet(rows)}

\* Upserting keeps a list of hosts one.
LEMMA UpsertHostType ==
    ASSUME NEW rows \in HostLists, NEW x \in Entry
    PROVE  UpsertHost(rows, x) \in HostLists
<1>1. rows \in SUBSET HostRows /\ IsFiniteSet(rows) /\ x.name \in Names /\ x.value \in Values
  BY DEF HostLists, Entry
<1>2. CASE Named(rows, x.name) = {}
  <2> DEFINE new == [id |-> NextId(rows), name |-> x.name, value |-> x.value]
  <2>1. UpsertHost(rows, x) = rows \cup {new}
    BY <1>2 DEF UpsertHost
  <2>2. NextId(rows) \in RowIds
    <3>1. \A r \in rows : r.id \in RowIds
      BY <1>1 DEF HostRows
    <3> QED BY <1>1, <3>1, NextIdIsFresh
  <2>3. new \in HostRows
    BY <1>1, <2>2 DEF HostRows
  <2> HIDE DEF new
  <2> QED BY <1>1, <2>1, <2>3, FS_AddElement DEF HostLists
<1>3. CASE Named(rows, x.name) # {}
  <2> DEFINE moved == [g \in rows |-> IF g.name = x.name THEN [g EXCEPT !.value = x.value] ELSE g]
  <2>1. UpsertHost(rows, x) = {moved[g] : g \in rows}
    BY <1>3 DEF UpsertHost
  <2>2. \A g \in rows : moved[g] \in HostRows
    BY <1>1 DEF HostRows
  <2>3. DOMAIN moved = rows
    OBVIOUS
  <2> HIDE DEF moved
  <2> QED BY <1>1, <2>1, <2>2, <2>3, ImageIsFinite DEF HostLists
<1> QED BY <1>2, <1>3

\* WithHosts takes the entries one by one, in some order.
LEMMA HostsFold ==
    ASSUME NEW rows \in HostLists, NEW es \in SUBSET Entry, IsFiniteSet(es)
    PROVE  \E it, pick :
              /\ \A s \in SUBSET es : s # {} => pick[s] \in s
              /\ it[{}] = rows
              /\ \A s \in SUBSET es : s # {} => it[s] = UpsertHost(it[s \ {pick[s]}], pick[s])
              /\ UpsertedHosts(rows, es) = it[es]
<1> DEFINE Equation(g) == g = [s \in SUBSET es |->
                                 IF s = {} THEN rows
                                 ELSE LET x == CHOOSE x \in s : TRUE IN UpsertHost(g[s \ {x}], x)]
           fold == CHOOSE g : Equation(g)
           pick == [s \in SUBSET es |-> CHOOSE x \in s : TRUE]
           step == [p \in HostLists \X es |-> UpsertHost(p[1], p[2])]
<1>1. \A s \in SUBSET es : s # {} => pick[s] \in s /\ pick[s] = CHOOSE x \in s : TRUE
  OBVIOUS
<1>2. step \in [HostLists \X es -> HostLists]
  <2>1. \A p \in HostLists \X es : p[1] \in HostLists /\ p[2] \in Entry
    OBVIOUS
  <2>2. \A p \in HostLists \X es : UpsertHost(p[1], p[2]) \in HostLists
    BY <2>1, UpsertHostType
  <2> QED BY <2>2
<1>3. PICK it : IsFold(it, es, HostLists, rows, pick, step)
  <2> HIDE DEF step, pick
  <2> QED BY <1>1, <1>2, FoldExists
<1>4. Equation(it)
  <2>1. ASSUME NEW s \in SUBSET es, s # {}
        PROVE  it[s] = LET x == CHOOSE x \in s : TRUE IN UpsertHost(it[s \ {x}], x)
    <3>1. it[s \ {pick[s]}] \in HostLists /\ pick[s] \in es
      <4> HIDE DEF pick
      <4> QED BY <1>1, <1>3, <2>1 DEF IsFold
    <3>2. it[s] = step[<<it[s \ {pick[s]}], pick[s]>>]
      <4> HIDE DEF pick, step
      <4> QED BY <1>3, <2>1 DEF IsFold
    <3>3. it[s] = UpsertHost(it[s \ {pick[s]}], pick[s])
      <4> HIDE DEF pick
      <4> QED BY <3>1, <3>2
    <3> QED BY <1>1, <2>1, <3>3
  <2>2. it \in [SUBSET es -> HostLists] /\ it[{}] = rows
    <3> HIDE DEF pick, step
    <3> QED BY <1>3 DEF IsFold
  <2> QED BY <2>1, <2>2
<1>5. Equation(fold)
  <2> HIDE DEF Equation
  <2> QED BY <1>4
<1>6. UpsertedHosts(rows, es) = fold[es]
  BY DEF UpsertedHosts, FoldSet, MapThenFoldSet
<1>7. fold[{}] = rows
  <2> HIDE DEF fold
  <2> QED BY <1>5
<1>8. ASSUME NEW s \in SUBSET es, s # {} PROVE fold[s] = UpsertHost(fold[s \ {pick[s]}], pick[s])
  <2> HIDE DEF fold
  <2> QED BY <1>1, <1>5, <1>8
<1> HIDE DEF fold, pick
<1> QED BY <1>1, <1>6, <1>7, <1>8

\* What the import makes of the hosts, whatever the order of the entries.
LEMMA HostsOutcome ==
    ASSUME NEW rows \in HostLists, DistinctIds(rows), DistinctNames(rows),
           NEW es \in SUBSET Entry, IsFiniteSet(es), DistinctNames(es)
    PROVE  HostsFrom(rows, es, UpsertedHosts(rows, es))
<1>1. PICK it, pick :
              /\ \A s \in SUBSET es : s # {} => pick[s] \in s
              /\ it[{}] = rows
              /\ \A s \in SUBSET es : s # {} => it[s] = UpsertHost(it[s \ {pick[s]}], pick[s])
              /\ UpsertedHosts(rows, es) = it[es]
  BY HostsFold
<1> DEFINE T == {s \in SUBSET es : HostsFrom(rows, s, it[s])}
<1>2. {} \in T
  <2>1. HostsFrom(rows, {}, rows)
    BY DEF HostsFrom, HostLists, NamesOf
  <2> QED BY <1>1, <2>1
<1>3. ASSUME NEW s \in SUBSET es, s # {}, s \ {pick[s]} \in T PROVE s \in T
  <2> DEFINE r == s \ {pick[s]}
  <2>1. r \in SUBSET es /\ r \cup {pick[s]} = s /\ pick[s] \in es /\ HostsFrom(rows, r, it[r])
    BY <1>1, <1>3
  <2>2. pick[s].name \notin NamesOf(r)
    <3>1. \A e \in r : e \in es /\ e # pick[s]
      BY <2>1
    <3>2. \A e \in r : e.name # pick[s].name
      BY <2>1, <3>1 DEF DistinctNames
    <3> QED BY <3>2 DEF NamesOf
  <2>3. it[s] = UpsertHost(it[r], pick[s])
    BY <1>1, <1>3
  <2> HIDE DEF r
  <2>4. HostsFrom(rows, r \cup {pick[s]}, UpsertHost(it[r], pick[s]))
    <3>1. r \in SUBSET Entry /\ pick[s] \in Entry
      BY <2>1
    <3> QED BY <2>1, <2>2, <3>1, UpsertHostFacts
  <2> QED BY <2>1, <2>3, <2>4
<1>4. es \in T
  <2> HIDE DEF T
  <2> QED BY <1>1, <1>2, <1>3, FoldInduction
<1> QED BY <1>1, <1>4

\* Entries that the hosts hold already change nothing.
LEMMA HostsFixed ==
    ASSUME NEW rows \in HostLists, DistinctNames(rows), NEW es \in SUBSET Entry, IsFiniteSet(es),
           \A e \in es : \E g \in rows : g.name = e.name /\ g.value = e.value
    PROVE  UpsertedHosts(rows, es) = rows
<1>1. PICK it, pick :
              /\ \A s \in SUBSET es : s # {} => pick[s] \in s
              /\ it[{}] = rows
              /\ \A s \in SUBSET es : s # {} => it[s] = UpsertHost(it[s \ {pick[s]}], pick[s])
              /\ UpsertedHosts(rows, es) = it[es]
  BY HostsFold
<1> DEFINE T == {s \in SUBSET es : it[s] = rows}
<1>2. ASSUME NEW x \in es PROVE UpsertHost(rows, x) = rows
  <2>1. PICK g \in rows : g.name = x.name /\ g.value = x.value
    OBVIOUS
  <2>2. Named(rows, x.name) # {}
    BY <2>1 DEF Named
  <2>3. ASSUME NEW h \in rows, h.name = x.name PROVE [h EXCEPT !.value = x.value] = h
    <3>1. h = g
      BY <2>1, <2>3 DEF DistinctNames
    <3>2. h \in HostRows /\ h.value = x.value
      BY <2>1, <3>1 DEF HostLists
    <3> QED BY <3>2 DEF HostRows
  <2>4. \A h \in rows : (IF h.name = x.name THEN [h EXCEPT !.value = x.value] ELSE h) = h
    BY <2>3
  <2> QED BY <2>2, <2>4 DEF UpsertHost
<1>3. ASSUME NEW s \in SUBSET es, s # {}, s \ {pick[s]} \in T PROVE s \in T
  BY <1>1, <1>2, <1>3
<1>4. es \in T
  <2>1. {} \in T
    BY <1>1
  <2> HIDE DEF T
  <2> QED BY <1>1, <1>3, <2>1, FoldInduction
<1> QED BY <1>1, <1>4

-----------------------------------------------------------------------------
(* Rules of an import.                                                     *)

RuleLists == {rows \in SUBSET RuleRows : IsFiniteSet(rows)}

\* Row r holds what entry e says, its host resolved among those of t.
Holds(t, r, e) == r.name = e.name /\ r.value = e.value /\ r.host = HostId(t, e.host)
First(rows, r) == \A q \in rows : q.name = r.name => r.id <= q.id

\* rows is what the rules of t become when the entries new[i], i in s, are
\* upserted.
RulesFrom(t, new, s, rows) ==
    /\ rows \in RuleLists /\ DistinctIds(rows)
    /\ \A r \in t.rules : (\A i \in s : new[i].name # r.name) => r \in rows
    /\ \A r \in rows : r \in t.rules \/ \E i \in s : Holds(t, r, new[i])
    /\ \A i \in s : \E r \in rows : Holds(t, r, new[i]) /\ First(rows, r)
    /\ t.rules = {} => Cardinality(rows) = Cardinality(s)

\* The row upsertRule writes when the name is known.
LEMMA FirstNamed ==
    ASSUME NEW rows \in RuleLists, NEW n, Named(rows, n) # {}, DistinctIds(rows)
    PROVE  LET first == Min({q.id : q \in Named(rows, n)}) IN
           /\ \E q \in rows : q.id = first /\ q.name = n
           /\ \A q \in rows : q.name = n => first <= q.id
           /\ \A q \in rows : q.id = first => q.name = n
<1> DEFINE named == Named(rows, n)
           f == [q \in named |-> q.id]
           ids == {q.id : q \in named}
<1>1. named \in SUBSET rows /\ rows \in SUBSET RuleRows /\ IsFiniteSet(named)
  <2>1. named \in SUBSET rows /\ rows \in SUBSET RuleRows /\ IsFiniteSet(rows)
    BY DEF Named, RuleLists
  <2> HIDE DEF named
  <2> QED BY <2>1, FS_Subset
<1>2. ids = {f[q] : q \in named} /\ DOMAIN f = named
  OBVIOUS
<1>3. IsFiniteSet(ids)
  <2> HIDE DEF f, ids, named
  <2> QED BY <1>1, <1>2, ImageIsFinite
<1>4. ids \in SUBSET Int /\ ids # {}
  <2>1. \A q \in named : q.id \in Int
    BY <1>1 DEF RuleRows, RowIds
  <2> QED BY <2>1
<1>5. Min(ids) \in ids /\ \A i \in ids : Min(ids) <= i
  <2> HIDE DEF ids
  <2> QED BY <1>3, <1>4, MinOfSet
<1>6. \A q \in rows : q.name = n <=> q \in named
  BY DEF Named
<1>7. PICK q \in named : q.id = Min(ids)
  BY <1>5
<1>8. \A p \in rows : p.name = n => Min(ids) <= p.id
  BY <1>5, <1>6
<1>9. \A p \in rows : p.id = Min(ids) => p.name = n
  BY <1>1, <1>6, <1>7 DEF DistinctIds
<1> QED BY <1>1, <1>6, <1>7, <1>8, <1>9

\* Upserting keeps a list of rules one.
LEMMA UpsertRuleType ==
    ASSUME NEW rows \in RuleLists, NEW e \in RuleEntry, NEW host \in Nat
    PROVE  UpsertRule(rows, e, host) \in RuleLists
<1>1. rows \in SUBSET RuleRows /\ IsFiniteSet(rows) /\ e.name \in Names /\ e.value \in Values
  BY DEF RuleLists, RuleEntry
<1>2. CASE Named(rows, e.name) = {}
  <2> DEFINE row == [id |-> NextId(rows), name |-> e.name, value |-> e.value, host |-> host]
  <2>1. UpsertRule(rows, e, host) = rows \cup {row}
    BY <1>2 DEF UpsertRule
  <2>2. NextId(rows) \in RowIds
    <3>1. \A r \in rows : r.id \in RowIds
      BY <1>1 DEF RuleRows
    <3> QED BY <1>1, <3>1, NextIdIsFresh
  <2>3. row \in RuleRows
    BY <1>1, <2>2 DEF RuleRows
  <2> HIDE DEF row
  <2> QED BY <1>1, <2>1, <2>3, FS_AddElement DEF RuleLists
<1>3. CASE Named(rows, e.name) # {}
  <2> DEFINE first == Min({q.id : q \in Named(rows, e.name)})
             moved == [q \in rows |-> IF q.id = first THEN [q EXCEPT !.value = e.value, !.host = host] ELSE q]
  <2>1. UpsertRule(rows, e, host) = {moved[q] : q \in rows}
    BY <1>3 DEF UpsertRule
  <2> HIDE DEF first
  <2>2. \A q \in rows : moved[q] \in RuleRows
    BY <1>1 DEF RuleRows
  <2>3. DOMAIN moved = rows
    OBVIOUS
  <2> HIDE DEF moved
  <2> QED BY <1>1, <2>1, <2>2, <2>3, ImageIsFinite DEF RuleLists
<1> QED BY <1>2, <1>3

\* One more entry upserted, of a name not seen before.
LEMMA UpsertRuleFacts ==
    ASSUME NEW t, t.rules \in RuleLists, NEW new \in Seq(RuleEntry),
           NEW s \in SUBSET (DOMAIN new), IsFiniteSet(s), NEW k \in DOMAIN new,
           \A i \in s : new[i].name # new[k].name,
           HostId(t, new[k].host) \in Nat,
           NEW rows, RulesFrom(t, new, s, rows)
    PROVE  RulesFrom(t, new, s \cup {k}, UpsertRule(rows, new[k], HostId(t, new[k].host)))
<1> DEFINE e == new[k]
           host == HostId(t, new[k].host)
           up == UpsertRule(rows, e, host)
<1>1. rows \in RuleLists /\ DistinctIds(rows) /\ rows \in SUBSET RuleRows /\ IsFiniteSet(rows)
  BY DEF RulesFrom, RuleLists
<1>2. e \in RuleEntry /\ host \in Nat
  OBVIOUS
<1>3. up \in RuleLists
  <2> HIDE DEF e, host
  <2> QED BY <1>1, <1>2, UpsertRuleType
<1>4. k \notin s /\ \A i \in s : new[i].name # e.name
  OBVIOUS
<1>5. CASE Named(rows, e.name) = {}
  <2> DEFINE row == [id |-> NextId(rows), name |-> e.name, value |-> e.value, host |-> host]
  <2>1. up = rows \cup {row}
    BY <1>5 DEF UpsertRule
  <2>2. NextId(rows) \in RowIds /\ \A r \in rows : r.id < NextId(rows) /\ r.id \in RowIds
    <3>1. \A r \in rows : r.id \in RowIds
      BY <1>1 DEF RuleRows
    <3> QED BY <1>1, <3>1, NextIdIsFresh
  <2>3. Holds(t, row, e) /\ row.name = e.name /\ row.id \in RowIds /\ \A r \in rows : r.id # row.id /\ r.id \in RowIds
    BY <2>2 DEF Holds, RowIds
  <2>4. \A r \in rows : r.name # e.name
    BY <1>5 DEF Named
  <2> HIDE DEF row, host, up
  <2>5. DistinctIds(up)
    BY <1>1, <2>1, <2>3 DEF DistinctIds
  <2>6. \A r \in t.rules : (\A i \in s \cup {k} : new[i].name # r.name) => r \in up
    BY <2>1 DEF RulesFrom
  <2>7. \A r \in up : r \in t.rules \/ \E i \in s \cup {k} : Holds(t, r, new[i])
    BY <2>1, <2>3 DEF RulesFrom
  <2>8. ASSUME NEW i \in s \cup {k} PROVE \E r \in up : Holds(t, r, new[i]) /\ First(up, r)
    <3>1. CASE i = k
      <4>1. \A q \in up : q.name = row.name => q = row
        BY <2>1, <2>3, <2>4
      <4>2. First(up, row)
        BY <4>1, <2>3 DEF First, RowIds
      <4> QED BY <2>1, <2>3, <3>1, <4>2
    <3>2. CASE i \in s
      <4>1. PICK r \in rows : Holds(t, r, new[i]) /\ First(rows, r)
        BY <3>2 DEF RulesFrom
      <4>2. row.name # r.name
        BY <2>3, <2>4
      <4>3. First(up, r)
        BY <2>1, <4>1, <4>2 DEF First
      <4> QED BY <2>1, <4>1, <4>3
    <3> QED BY <3>1, <3>2
  <2>9. t.rules = {} => Cardinality(up) = Cardinality(s \cup {k})
    <3>1. row \notin rows
      BY <2>3
    <3>2. Cardinality(up) = Cardinality(rows) + 1
      BY <1>1, <2>1, <3>1, FS_AddElement
    <3>3. Cardinality(s \cup {k}) = Cardinality(s) + 1
      BY <1>4, FS_AddElement
    <3> QED BY <3>2, <3>3 DEF RulesFrom
  <2> QED BY <1>3, <2>5, <2>6, <2>7, <2>8, <2>9 DEF RulesFrom, host, up
<1>6. CASE Named(rows, e.name) # {}
  <2> DEFINE first == Min({q.id : q \in Named(rows, e.name)})
             moved == [q \in rows |-> IF q.id = first THEN [q EXCEPT !.value = e.value, !.host = host] ELSE q]
  <2>1. up = {moved[q] : q \in rows}
    BY <1>6 DEF UpsertRule
  <2>2. /\ \E q \in rows : q.id = first /\ q.name = e.name
        /\ \A q \in rows : q.name = e.name => first <= q.id
        /\ \A q \in rows : q.id = first => q.name = e.name
    BY <1>1, <1>6, FirstNamed
  <2> HIDE DEF first
  <2>3. ASSUME NEW q \in rows
        PROVE  /\ moved[q].id = q.id /\ moved[q].name = q.name
               /\ q.id = first => Holds(t, moved[q], e)
               /\ q.id # first => moved[q] = q
    BY <1>1, <2>2 DEF RuleRows, Holds
  <2> HIDE DEF moved, host, up
  <2>4. DistinctIds(up)
    BY <1>1, <2>1, <2>3 DEF DistinctIds
  <2>5. ASSUME NEW r \in t.rules, \A i \in s \cup {k} : new[i].name # r.name PROVE r \in up
    <3>1. r \in rows /\ r.name # e.name
      BY <2>5 DEF RulesFrom
    <3> QED BY <2>1, <2>2, <2>3, <3>1
  <2>6. ASSUME NEW r \in up PROVE r \in t.rules \/ \E i \in s \cup {k} : Holds(t, r, new[i])
    <3>1. PICK q \in rows : r = moved[q]
      BY <2>1
    <3>2. CASE q.id = first
      BY <2>3, <3>1, <3>2
    <3>3. CASE q.id # first
      BY <2>3, <3>1, <3>3 DEF RulesFrom
    <3> QED BY <3>2, <3>3
  <2>7. ASSUME NEW i \in s \cup {k} PROVE \E r \in up : Holds(t, r, new[i]) /\ First(up, r)
    <3>1. CASE i = k
      <4>1. PICK q \in rows : q.id = first /\ q.name = e.name
        BY <2>2
      <4>2. First(up, moved[q])
        BY <2>1, <2>2, <2>3, <4>1 DEF First
      <4> QED BY <2>1, <2>3, <3>1, <4>1, <4>2
    <3>2. CASE i \in s
      <4>1. PICK r \in rows : Holds(t, r, new[i]) /\ First(rows, r)
        BY <3>2 DEF RulesFrom
      <4>2. r.name # e.name
        BY <1>4, <3>2, <4>1 DEF Holds
      <4>3. moved[r] = r
        BY <2>2, <2>3, <4>2
      <4>4. First(up, r)
        BY <2>1, <2>3, <4>1 DEF First
      <4> QED BY <2>1, <4>1, <4>3, <4>4
    <3> QED BY <3>1, <3>2
  <2>8. t.rules # {}
    <3>1. PICK q \in rows : q.name = e.name
      BY <2>2
    <3>2. \A i \in s : ~Holds(t, q, new[i])
      BY <1>4, <3>1 DEF Holds
    <3> QED BY <3>1, <3>2 DEF RulesFrom
  <2> QED BY <1>3, <2>4, <2>5, <2>6, <2>7, <2>8 DEF RulesFrom, host, up
<1> QED BY <1>5, <1>6

\* WithRules takes the entries one by one, in their order.
LEMMA RulesFold ==
    ASSUME NEW t, t.rules \in RuleLists, NEW new \in Seq(RuleEntry),
           \A i \in DOMAIN new : HostId(t, new[i].host) \in Nat
    PROVE  \E it, pick :
              /\ \A s \in SUBSET (DOMAIN new) : s # {} => pick[s] \in s
              /\ it[{}] = t.rules
              /\ \A s \in SUBSET (DOMAIN new) : s # {} =>
                    it[s] = UpsertRule(it[s \ {pick[s]}], new[pick[s]], HostId(t, new[pick[s]].host))
              /\ UpsertedRules(t, new) = it[DOMAIN new]
<1> DEFINE D == DOMAIN new
           Equation(g) == g = [s \in SUBSET D |->
                                 IF s = {} THEN t.rules
                                 ELSE LET x == Max(s) IN UpsertRule(g[s \ {x}], new[x], HostId(t, new[x].host))]
           fold == CHOOSE g : Equation(g)
           pick == [s \in SUBSET D |-> Max(s)]
           step == [p \in RuleLists \X D |-> UpsertRule(p[1], new[p[2]], HostId(t, new[p[2]].host))]
<1>1. IsFiniteSet(D) /\ D \subseteq Int
  <2>1. D = 1 .. Len(new) /\ Len(new) \in Nat
    OBVIOUS
  <2> HIDE DEF D
  <2> QED BY <2>1, FS_Interval
<1>2. \A s \in SUBSET D : s # {} => pick[s] \in s /\ pick[s] = Max(s)
  <2> HIDE DEF D
  <2> SUFFICES ASSUME NEW s \in SUBSET D, s # {} PROVE Max(s) \in s
    OBVIOUS
  <2>1. s \in SUBSET Int /\ IsFiniteSet(s)
    BY <1>1, FS_Subset
  <2> QED BY <2>1, MaxOfSet
<1>3. step \in [RuleLists \X D -> RuleLists]
  <2>1. \A p \in RuleLists \X D : p[1] \in RuleLists /\ new[p[2]] \in RuleEntry /\ HostId(t, new[p[2]].host) \in Nat
    OBVIOUS
  <2>2. \A p \in RuleLists \X D : UpsertRule(p[1], new[p[2]], HostId(t, new[p[2]].host)) \in RuleLists
    BY <2>1, UpsertRuleType
  <2> HIDE DEF D
  <2> QED BY <2>2
<1> HIDE DEF D
<1>4. PICK it : IsFold(it, D, RuleLists, t.rules, pick, step)
  <2> HIDE DEF step, pick
  <2> QED BY <1>1, <1>2, <1>3, FoldExists
<1>5. Equation(it)
  <2>1. ASSUME NEW s \in SUBSET D, s # {}
        PROVE  it[s] = LET x == Max(s) IN UpsertRule(it[s \ {x}], new[x], HostId(t, new[x].host))
    <3>1. it[s \ {pick[s]}] \in RuleLists /\ pick[s] \in D
      <4> HIDE DEF pick
      <4> QED BY <1>2, <1>4, <2>1 DEF IsFold
    <3>2. it[s] = step[<<it[s \ {pick[s]}], pick[s]>>]
      <4> HIDE DEF pick, step
      <4> QED BY <1>4, <2>1 DEF IsFold
    <3>3. it[s] = UpsertRule(it[s \ {pick[s]}], new[pick[s]], HostId(t, new[pick[s]].host))
      <4> HIDE DEF pick
      <4> QED BY <3>1, <3>2
    <3> QED BY <1>2, <2>1, <3>3
  <2>2. it \in [SUBSET D -> RuleLists] /\ it[{}] = t.rules
    <3> HIDE DEF pick, step
    <3> QED BY <1>4 DEF IsFold
  <2> QED BY <2>1, <2>2
<1>6. Equation(fold)
  <2> HIDE DEF Equation
  <2> QED BY <1>5
<1>7. UpsertedRules(t, new) = fold[D]
  BY DEF UpsertedRules, FoldLeft, MapThenFoldSet, D
<1>8. fold[{}] = t.rules
  <2> HIDE DEF fold
  <2> QED BY <1>6
<1>9. ASSUME NEW s \in SUBSET D, s # {}
      PROVE  fold[s] = UpsertRule(fold[s \ {pick[s]}], new[pick[s]], HostId(t, new[pick[s]].host))
  <2> HIDE DEF fold
  <2> QED BY <1>2, <1>6, <1>9
<1> HIDE DEF fold, pick
<1> QED BY <1>2, <1>7, <1>8, <1>9 DEF D

\* What the import makes of the rules, when no two entries have one name.
LEMMA RulesOutcome ==
    ASSUME NEW t, t.rules \in RuleLists, DistinctIds(t.rules), NEW new \in Seq(RuleEntry),
           \A i, j \in DOMAIN new : new[i].name = new[j].name => i = j,
           \A i \in DOMAIN new : HostId(t, new[i].host) \in Nat
    PROVE  RulesFrom(t, new, DOMAIN new, UpsertedRules(t, new))
<1> DEFINE D == DOMAIN new
<1>1. PICK it, pick :
              /\ \A s \in SUBSET D : s # {} => pick[s] \in s
              /\ it[{}] = t.rules
              /\ \A s \in SUBSET D : s # {} =>
                    it[s] = UpsertRule(it[s \ {pick[s]}], new[pick[s]], HostId(t, new[pick[s]].host))
              /\ UpsertedRules(t, new) = it[D]
  BY RulesFold
<1>2. IsFiniteSet(D)
  <2>1. D = 1 .. Len(new) /\ Len(new) \in Nat
    OBVIOUS
  <2> HIDE DEF D
  <2> QED BY <2>1, FS_Interval
<1> DEFINE T == {s \in SUBSET D : RulesFrom(t, new, s, it[s])}
<1>3. {} \in T
  <2>1. RulesFrom(t, new, {}, t.rules)
    <3>1. t.rules = {} => Cardinality(t.rules) = Cardinality({})
      OBVIOUS
    <3> QED BY <3>1 DEF RulesFrom
  <2> QED BY <1>1, <2>1
<1>4. ASSUME NEW s \in SUBSET D, s # {}, s \ {pick[s]} \in T PROVE s \in T
  <2> DEFINE r == s \ {pick[s]}
             k == pick[s]
  <2>1. r \in SUBSET D /\ r \cup {k} = s /\ k \in D /\ RulesFrom(t, new, r, it[r]) /\ k \notin r
    BY <1>1, <1>4
  <2>2. \A i \in r : new[i].name # new[k].name
    BY <2>1
  <2>3. it[s] = UpsertRule(it[r], new[k], HostId(t, new[k].host))
    BY <1>1, <1>4
  <2> HIDE DEF r, k
  <2>4. IsFiniteSet(r)
    BY <1>2, <2>1, FS_Subset
  <2>5. RulesFrom(t, new, r \cup {k}, UpsertRule(it[r], new[k], HostId(t, new[k].host)))
    BY <2>1, <2>2, <2>4, UpsertRuleFacts
  <2> QED BY <2>1, <2>3, <2>5
<1>5. D \in T
  <2> HIDE DEF T, D
  <2> QED BY <1>1, <1>2, <1>3, <1>4, FoldInduction
<1> QED BY <1>1, <1>5

\* Entries that the first rows of their names hold already change nothing.
LEMMA RulesFixed ==
    ASSUME NEW t, t.rules \in RuleLists, DistinctIds(t.rules), NEW new \in Seq(RuleEntry),
           \A i \in DOMAIN new : HostId(t, new[i].host) \in Nat,
           \A i \in DOMAIN new : \E r \in t.rules : Holds(t, r, new[i]) /\ First(t.rules, r)
    PROVE  UpsertedRules(t, new) = t.rules
<1> DEFINE D == DOMAIN new
<1>1. PICK it, pick :
              /\ \A s \in SUBSET D : s # {} => pick[s] \in s
              /\ it[{}] = t.rules
              /\ \A s \in SUBSET D : s # {} =>
                    it[s] = UpsertRule(it[s \ {pick[s]}], new[pick[s]], HostId(t, new[pick[s]].host))
              /\ UpsertedRules(t, new) = it[D]
  BY RulesFold
<1>2. IsFiniteSet(D)
  <2>1. D = 1 .. Len(new) /\ Len(new) \in Nat
    OBVIOUS
  <2> HIDE DEF D
  <2> QED BY <2>1, FS_Interval
<1>3. ASSUME NEW k \in D PROVE UpsertRule(t.rules, new[k], HostId(t, new[k].host)) = t.rules
  <2> DEFINE first == Min({q.id : q \in Named(t.rules, new[k].name)})
  <2>1. PICK r \in t.rules : Holds(t, r, new[k]) /\ First(t.rules, r)
    OBVIOUS
  <2>2. Named(t.rules, new[k].name) # {}
    BY <2>1 DEF Named, Holds
  <2>3. r.id = first
    <3>1. /\ \E q \in t.rules : q.id = first /\ q.name = new[k].name
          /\ \A q \in t.rules : q.name = new[k].name => first <= q.id
      <4> DEFINE rows == t.rules
                 n == new[k].name
      <4>1. rows \in RuleLists /\ DistinctIds(rows) /\ Named(rows, n) # {}
        BY <2>2
      <4> HIDE DEF rows, n
      <4>2. LET least == Min({q.id : q \in Named(rows, n)}) IN
            /\ \E q \in rows : q.id = least /\ q.name = n
            /\ \A q \in rows : q.name = n => least <= q.id
        BY <4>1, FirstNamed
      <4> QED BY <4>2 DEF rows, n
    <3> HIDE DEF first
    <3>2. PICK q \in t.rules : q.id = first /\ q.name = new[k].name
      BY <3>1
    <3>3. r.id <= first /\ first <= r.id
      BY <2>1, <3>1, <3>2 DEF Holds, First
    <3>4. r.id \in Nat /\ first \in Nat
      BY <3>2 DEF RuleLists, RuleRows, RowIds
    <3> QED BY <3>3, <3>4
  <2>4. UpsertRule(t.rules, new[k], HostId(t, new[k].host)) =
            {IF q.id = first THEN [q EXCEPT !.value = new[k].value, !.host = HostId(t, new[k].host)] ELSE q : q \in t.rules}
    BY <2>2 DEF UpsertRule
  <2> HIDE DEF first
  <2>5. ASSUME NEW q \in t.rules, q.id = first
        PROVE  [q EXCEPT !.value = new[k].value, !.host = HostId(t, new[k].host)] = q
    <3>1. q = r
      BY <2>3, <2>5 DEF DistinctIds
    <3>2. q \in RuleRows /\ q.value = new[k].value /\ q.host = HostId(t, new[k].host)
      BY <2>1, <3>1 DEF Holds, RuleLists
    <3> QED BY <3>2 DEF RuleRows
  <2> QED BY <2>4, <2>5
<1> DEFINE T == {s \in SUBSET D : it[s] = t.rules}
<1>4. ASSUME NEW s \in SUBSET D, s # {}, s \ {pick[s]} \in T PROVE s \in T
  <2>1. pick[s] \in D
    BY <1>1, <1>4
  <2> HIDE DEF D
  <2> QED BY <1>1, <1>3, <1>4, <2>1
<1>5. D \in T
  <2>1. {} \in T
    BY <1>1
  <2> HIDE DEF T, D
  <2> QED BY <1>1, <1>2, <1>4, <2>1, FoldInduction
<1> QED BY <1>1, <1>5

-----------------------------------------------------------------------------
(* Tables with one column changed.                                         *)

\* What the columns of each table hold.
LEMMA TablesMade ==
    ASSUME NEW t \in Tables
    PROVE  /\ t.hosts \in SUBSET HostRows /\ t.schedules \in SUBSET Entry /\ t.channels \in SUBSET ChannelRows
           /\ t.rules \in SUBSET RuleRows /\ t.hs \in SUBSET Links /\ t.hc \in SUBSET Links
           /\ DOMAIN t = {"hosts", "schedules", "channels", "rules", "hs", "hc"}
BY DEF Tables

\* Tables in which the hosts alone change.
LEMMA HostsSet ==
    ASSUME NEW t \in Tables, NEW x \in SUBSET HostRows
    PROVE  LET u == [t EXCEPT !.hosts = x] IN
           /\ u \in Tables /\ (x = t.hosts => u = t)
           /\ u.hosts = x /\ u.schedules = t.schedules /\ u.channels = t.channels
           /\ u.rules = t.rules /\ u.hs = t.hs /\ u.hc = t.hc
BY DEF Tables

\* Tables in which the schedules alone change.
LEMMA SchedulesSet ==
    ASSUME NEW t \in Tables, NEW x \in SUBSET Entry
    PROVE  LET u == [t EXCEPT !.schedules = x] IN
           /\ u \in Tables /\ (x = t.schedules => u = t)
           /\ u.hosts = t.hosts /\ u.schedules = x /\ u.channels = t.channels
           /\ u.rules = t.rules /\ u.hs = t.hs /\ u.hc = t.hc
BY DEF Tables

\* Tables in which the channels alone change.
LEMMA ChannelsSet ==
    ASSUME NEW t \in Tables, NEW x \in SUBSET ChannelRows
    PROVE  LET u == [t EXCEPT !.channels = x] IN
           /\ u \in Tables /\ (x = t.channels => u = t)
           /\ u.hosts = t.hosts /\ u.schedules = t.schedules /\ u.channels = x
           /\ u.rules = t.rules /\ u.hs = t.hs /\ u.hc = t.hc
BY DEF Tables

\* Tables in which the rules alone change.
LEMMA RulesSet ==
    ASSUME NEW t \in Tables, NEW x \in SUBSET RuleRows
    PROVE  LET u == [t EXCEPT !.rules = x] IN
           /\ u \in Tables /\ (x = t.rules => u = t)
           /\ u.hosts = t.hosts /\ u.schedules = t.schedules /\ u.channels = t.channels
           /\ u.rules = x /\ u.hs = t.hs /\ u.hc = t.hc
BY DEF Tables

-----------------------------------------------------------------------------
(* The stages of an import.                                                *)

\* A document that validate has let through.
Importable(d) == d \in Decoded /\ IsFiniteSet(d.hosts) /\ Honest(d) /\ Validated(d)

\* What the fields of a document hold.
LEMMA DocumentFacts ==
    ASSUME NEW d \in Decoded
    PROVE  /\ d.hosts \in SUBSET Entry /\ d.schedules \in SUBSET Entry
           /\ d.channels \in SUBSET [name : Names, on : BOOLEAN, cipher : Ciphers]
           /\ d.rules \in Seq(RuleEntry)
           /\ d.hs \in SUBSET (Names \X Names) /\ d.hc \in SUBSET (Names \X Names)
           /\ d.mode \in Modes /\ d.key \in Keys \cup {""} /\ d.valid \in BOOLEAN
BY DEF Decoded

\* What the stages write.
Arrived(d) == {Received(c, d.mode) : c \in d.channels}
Resolve(t, links) == {<<HostId(t, l[1]), l[2]>> : l \in links}

\* A replacing import first empties every table but that of hosts.
LEMMA WipedFacts ==
    ASSUME NEW t, Sound(t)
    PROVE  /\ Sound(Wiped(t)) /\ Wiped(t).hosts = t.hosts
           /\ Wiped(t).schedules = {} /\ Wiped(t).channels = {} /\ Wiped(t).rules = {}
           /\ Wiped(t).hs = {} /\ Wiped(t).hc = {}
<1> DEFINE u == Wiped(t)
<1>1. u \in Tables /\ u.hosts = t.hosts /\ u.schedules = {} /\ u.channels = {} /\ u.rules = {} /\ u.hs = {} /\ u.hc = {}
  BY DEF Sound, Tables, Wiped
<1>2. IsFiniteSet({})
  BY FS_EmptySet
<1> HIDE DEF u
<1>3. IsFiniteSet(u.hosts) /\ IsFiniteSet(u.rules)
  BY <1>1, <1>2 DEF Sound
<1>4. Consistent(u)
  BY <1>1 DEF Sound, Consistent, DistinctIds, DistinctNames
<1>5. Sound(u)
  BY <1>1, <1>3, <1>4 DEF Sound
<1> QED BY <1>1, <1>5 DEF u

\* Hosts are added and changed, never removed: what refers to them stays sound.
LEMMA WithHostsFacts ==
    ASSUME NEW t, Sound(t), NEW d, Importable(d)
    PROVE  LET u == WithHosts(t, d) IN
           /\ Sound(u) /\ HostsFrom(t.hosts, d.hosts, u.hosts)
           /\ u.schedules = t.schedules /\ u.channels = t.channels /\ u.rules = t.rules
           /\ u.hs = t.hs /\ u.hc = t.hc
<1> DEFINE x == UpsertedHosts(t.hosts, d.hosts)
           u == WithHosts(t, d)
<1>1. t \in Tables /\ t.hosts \in HostLists /\ DistinctIds(t.hosts) /\ DistinctNames(t.hosts)
  BY TablesMade DEF Sound, Consistent, HostLists
<1>2. d.hosts \in SUBSET Entry /\ IsFiniteSet(d.hosts) /\ DistinctNames(d.hosts)
  BY DocumentFacts DEF Importable, Validated
<1>3. HostsFrom(t.hosts, d.hosts, x)
  BY <1>1, <1>2, HostsOutcome
<1>4. u = [t EXCEPT !.hosts = x]
  BY DEF WithHosts
<1> HIDE DEF x, u
<1>5. x \in SUBSET HostRows /\ IsFiniteSet(x) /\ DistinctIds(x) /\ DistinctNames(x)
  BY <1>3 DEF HostsFrom
<1>6. /\ u \in Tables /\ u.hosts = x /\ u.schedules = t.schedules /\ u.channels = t.channels
      /\ u.rules = t.rules /\ u.hs = t.hs /\ u.hc = t.hc
  BY <1>1, <1>4, <1>5, HostsSet
<1>7. IdsOf(t.hosts) \subseteq IdsOf(x)
  BY <1>3 DEF HostsFrom, IdsOf
<1>8. Consistent(u)
  <2>1. DistinctIds(u.hosts) /\ DistinctIds(u.rules)
    BY <1>5, <1>6 DEF Sound, Consistent
  <2>2. DistinctNames(u.hosts) /\ DistinctNames(u.schedules) /\ DistinctNames(u.channels)
    BY <1>5, <1>6 DEF Sound, Consistent
  <2>3. \A r \in u.rules : r.host \in IdsOf(u.hosts) \cup {Global}
    BY <1>6, <1>7 DEF Sound, Consistent
  <2>4. u.hs \subseteq (IdsOf(u.hosts) \X NamesOf(u.schedules))
    BY <1>6, <1>7 DEF Sound, Consistent
  <2>5. u.hc \subseteq (IdsOf(u.hosts) \X NamesOf(u.channels))
    BY <1>6, <1>7 DEF Sound, Consistent
  <2>6. \A c \in u.channels : c.needs => c.config = NoConfig
    BY <1>6 DEF Sound, Consistent
  <2> QED BY <2>1, <2>2, <2>3, <2>4, <2>5, <2>6 DEF Consistent
<1>9. IsFiniteSet(u.hosts) /\ IsFiniteSet(u.rules)
  BY <1>5, <1>6 DEF Sound
<1> QED BY <1>3, <1>6, <1>8, <1>9 DEF Sound, u

\* Upserting by name keeps names unique.
LEMMA UpsertedNames ==
    ASSUME NEW rows, NEW new, DistinctNames(rows), DistinctNames(new)
    PROVE  /\ DistinctNames(Upserted(rows, new))
           /\ NamesOf(Upserted(rows, new)) = NamesOf(rows) \cup NamesOf(new)
<1>1. DistinctNames(Upserted(rows, new))
  BY DEF DistinctNames, NamesOf, Upserted
<1>2. NamesOf(Upserted(rows, new)) = NamesOf(rows) \cup NamesOf(new)
  BY DEF NamesOf, Upserted
<1> QED BY <1>1, <1>2

\* Schedules are written by name: the links to them stay sound.
LEMMA WithSchedulesFacts ==
    ASSUME NEW t, Sound(t), NEW d, Importable(d)
    PROVE  LET u == WithSchedules(t, d) IN
           /\ Sound(u) /\ u.schedules = Upserted(t.schedules, d.schedules)
           /\ NamesOf(u.schedules) = NamesOf(t.schedules) \cup NamesOf(d.schedules)
           /\ u.hosts = t.hosts /\ u.channels = t.channels /\ u.rules = t.rules
           /\ u.hs = t.hs /\ u.hc = t.hc
<1> DEFINE x == Upserted(t.schedules, d.schedules)
           u == WithSchedules(t, d)
<1>1. t \in Tables /\ DistinctNames(t.schedules) /\ t.schedules \in SUBSET Entry
  BY TablesMade DEF Sound, Consistent
<1>2. DistinctNames(d.schedules) /\ d.schedules \in SUBSET Entry
  BY DocumentFacts DEF Importable, Validated
<1>3. x \in SUBSET Entry
  BY <1>1, <1>2 DEF Upserted
<1>4. DistinctNames(x) /\ NamesOf(x) = NamesOf(t.schedules) \cup NamesOf(d.schedules)
  BY <1>1, <1>2, UpsertedNames
<1>5. u = [t EXCEPT !.schedules = x]
  BY DEF WithSchedules
<1>6. x = Upserted(t.schedules, d.schedules)
  OBVIOUS
<1> HIDE DEF x, u
<1>7. /\ u \in Tables /\ u.hosts = t.hosts /\ u.schedules = x /\ u.channels = t.channels
      /\ u.rules = t.rules /\ u.hs = t.hs /\ u.hc = t.hc
  BY <1>1, <1>3, <1>5, SchedulesSet
<1>8. Consistent(u)
  <2>1. DistinctNames(u.schedules)
    BY <1>4, <1>7
  <2>2. u.hs \subseteq (IdsOf(u.hosts) \X NamesOf(u.schedules))
    BY <1>4, <1>7 DEF Sound, Consistent
  <2>3. DistinctIds(u.hosts) /\ DistinctIds(u.rules) /\ DistinctNames(u.hosts)
    BY <1>7 DEF Sound, Consistent
  <2>4. DistinctNames(u.channels) /\ \A c \in u.channels : c.needs => c.config = NoConfig
    BY <1>7 DEF Sound, Consistent
  <2>5. \A r \in u.rules : r.host \in IdsOf(u.hosts) \cup {Global}
    BY <1>7 DEF Sound, Consistent
  <2>6. u.hc \subseteq (IdsOf(u.hosts) \X NamesOf(u.channels))
    BY <1>7 DEF Sound, Consistent
  <2> QED BY <2>1, <2>2, <2>3, <2>4, <2>5, <2>6 DEF Consistent
<1>9. IsFiniteSet(u.hosts) /\ IsFiniteSet(u.rules)
  BY <1>7 DEF Sound
<1> QED BY <1>4, <1>6, <1>7, <1>8, <1>9 DEF Sound, u

\* A channel that comes without its secret is one that needs credentials.
LEMMA ArrivedFacts ==
    ASSUME NEW d, Importable(d)
    PROVE  /\ Arrived(d) \in SUBSET ChannelRows /\ NamesOf(Arrived(d)) = NamesOf(d.channels)
           /\ DistinctNames(Arrived(d)) /\ \A c \in Arrived(d) : c.needs => c.config = NoConfig
<1>1. d.channels \in SUBSET [name : Names, on : BOOLEAN, cipher : Ciphers] /\ DistinctNames(d.channels)
  BY DocumentFacts DEF Importable, Validated
<1>2. ASSUME NEW c \in d.channels
      PROVE  LET r == Received(c, d.mode) IN
             r \in ChannelRows /\ r.name = c.name /\ (r.needs => r.config = NoConfig)
  <2>1. c.name \in Names /\ c.on \in BOOLEAN /\ c.cipher \in Ciphers
    BY <1>1
  <2>2. NoConfig \in Ciphers
    BY DEF Ciphers
  <2>4. CASE d.mode = "none"
    <3>1. Received(c, d.mode) = [name |-> c.name, on |-> FALSE, needs |-> TRUE, config |-> NoConfig]
      BY <2>4 DEF Received
    <3> QED BY <2>1, <2>2, <3>1 DEF ChannelRows
  <2>5. CASE d.mode = "instance_key"
    <3>1. Received(c, d.mode) = [name |-> c.name, on |-> c.on, needs |-> FALSE, config |-> c.cipher]
      BY <2>5 DEF Received
    <3> QED BY <2>1, <3>1 DEF ChannelRows
  <2>6. CASE d.mode = "passphrase"
    <3> DEFINE x == [c.cipher EXCEPT !.key = Key]
    <3>1. Received(c, d.mode) = [name |-> c.name, on |-> c.on, needs |-> FALSE, config |-> x]
      BY <2>6 DEF Received
    <3>2. c.cipher \in [key : {"passphrase"}, secret : Secrets]
      BY <2>6 DEF Importable, Honest
    <3>3. x \in Ciphers
      BY <3>2, BundleAssumption DEF Ciphers
    <3> HIDE DEF x
    <3> QED BY <2>1, <3>1, <3>3 DEF ChannelRows
  <2> QED BY <2>4, <2>5, <2>6 DEF Importable, Honest, Modes
<1> DEFINE received(c) == Received(c, d.mode)
<1>3. Arrived(d) = {received(c) : c \in d.channels}
  BY DEF Arrived
<1> HIDE DEF received
<1>4. \A c \in d.channels : received(c) \in ChannelRows /\ received(c).name = c.name
                            /\ (received(c).needs => received(c).config = NoConfig)
  BY <1>2 DEF received
<1>5. Arrived(d) \in SUBSET ChannelRows /\ \A c \in Arrived(d) : c.needs => c.config = NoConfig
  BY <1>3, <1>4
<1>6. NamesOf(Arrived(d)) = NamesOf(d.channels)
  BY <1>3, <1>4 DEF NamesOf
<1>7. DistinctNames(Arrived(d))
  BY <1>1, <1>3, <1>4 DEF DistinctNames
<1> QED BY <1>5, <1>6, <1>7

\* Channels are written by name: the links to them stay sound.
LEMMA WithChannelsFacts ==
    ASSUME NEW t, Sound(t), NEW d, Importable(d)
    PROVE  LET u == WithChannels(t, d) IN
           /\ Sound(u) /\ u.channels = Upserted(t.channels, Arrived(d))
           /\ NamesOf(u.channels) = NamesOf(t.channels) \cup NamesOf(d.channels)
           /\ u.hosts = t.hosts /\ u.schedules = t.schedules /\ u.rules = t.rules
           /\ u.hs = t.hs /\ u.hc = t.hc
<1> DEFINE x == Upserted(t.channels, Arrived(d))
           u == WithChannels(t, d)
<1>1. t \in Tables /\ DistinctNames(t.channels) /\ t.channels \in SUBSET ChannelRows
  BY TablesMade DEF Sound, Consistent
<1>2. x \in SUBSET ChannelRows
  BY <1>1, ArrivedFacts DEF Upserted
<1>3. DistinctNames(x) /\ NamesOf(x) = NamesOf(t.channels) \cup NamesOf(d.channels)
  BY <1>1, ArrivedFacts, UpsertedNames
<1>4. \A c \in x : c.needs => c.config = NoConfig
  BY ArrivedFacts DEF Upserted, Sound, Consistent
<1>5. u = [t EXCEPT !.channels = x]
  BY DEF WithChannels, Arrived
<1>6. x = Upserted(t.channels, Arrived(d))
  OBVIOUS
<1> HIDE DEF x, u
<1>7. /\ u \in Tables /\ u.hosts = t.hosts /\ u.schedules = t.schedules /\ u.channels = x
      /\ u.rules = t.rules /\ u.hs = t.hs /\ u.hc = t.hc
  BY <1>1, <1>2, <1>5, ChannelsSet
<1>8. Consistent(u)
  <2>1. DistinctNames(u.channels) /\ \A c \in u.channels : c.needs => c.config = NoConfig
    BY <1>3, <1>4, <1>7
  <2>2. u.hc \subseteq (IdsOf(u.hosts) \X NamesOf(u.channels))
    BY <1>3, <1>7 DEF Sound, Consistent
  <2>3. DistinctIds(u.hosts) /\ DistinctIds(u.rules) /\ DistinctNames(u.hosts) /\ DistinctNames(u.schedules)
    BY <1>7 DEF Sound, Consistent
  <2>4. \A r \in u.rules : r.host \in IdsOf(u.hosts) \cup {Global}
    BY <1>7 DEF Sound, Consistent
  <2>5. u.hs \subseteq (IdsOf(u.hosts) \X NamesOf(u.schedules))
    BY <1>7 DEF Sound, Consistent
  <2> QED BY <2>1, <2>2, <2>3, <2>4, <2>5 DEF Consistent
<1>9. IsFiniteSet(u.hosts) /\ IsFiniteSet(u.rules)
  BY <1>7 DEF Sound
<1> QED BY <1>3, <1>6, <1>7, <1>8, <1>9 DEF Sound, u

\* The host of a name, and back.
LEMMA HostIdFacts ==
    ASSUME NEW t, Sound(t), NEW n \in NamesOf(t.hosts)
    PROVE  /\ \E h \in t.hosts : h.name = n /\ HostId(t, n) = h.id
           /\ HostId(t, n) \in IdsOf(t.hosts) /\ HostId(t, n) \in RowIds
           /\ HostName(t.hosts, HostId(t, n)) = n
           /\ n # NoHost
<1>1. t.hosts \in SUBSET HostRows /\ DistinctNames(t.hosts) /\ DistinctIds(t.hosts)
  BY TablesMade DEF Sound, Consistent
<1>2. n \in Names /\ n # NoHost
  BY <1>1, BundleAssumption DEF NamesOf, HostRows, NoHost
<1>3. \E h \in t.hosts : h.name = n
  BY DEF NamesOf
<1>4. PICK h \in t.hosts : h = CHOOSE g \in t.hosts : g.name = n
  BY <1>3
<1>5. h.name = n /\ HostId(t, n) = h.id
  BY <1>2, <1>3, <1>4 DEF HostId
<1>6. h.id \in IdsOf(t.hosts) /\ h.id \in RowIds
  BY <1>1 DEF IdsOf, HostRows
<1>7. HostName(t.hosts, h.id) = n
  <2>1. \A g \in t.hosts : g.id = h.id => g = h
    BY <1>1 DEF DistinctIds
  <2>2. (CHOOSE g \in t.hosts : g.id = h.id) = h
    BY <2>1
  <2> QED BY <1>5, <2>2 DEF HostName
<1> QED BY <1>2, <1>5, <1>6, <1>7

\* A host is found by its id, and its id by its name.
LEMMA HostNameFacts ==
    ASSUME NEW t, Sound(t), NEW h \in t.hosts
    PROVE  HostName(t.hosts, h.id) = h.name /\ HostId(t, h.name) = h.id
<1>1. t.hosts \in SUBSET HostRows /\ DistinctNames(t.hosts) /\ DistinctIds(t.hosts)
  BY TablesMade DEF Sound, Consistent
<1>2. h.name \in NamesOf(t.hosts)
  BY DEF NamesOf
<1>3. PICK g \in t.hosts : g.name = h.name /\ HostId(t, h.name) = g.id
  BY <1>2, HostIdFacts
<1>4. g = h
  BY <1>1, <1>3 DEF DistinctNames
<1>5. HostName(t.hosts, HostId(t, h.name)) = h.name
  BY <1>2, HostIdFacts
<1> QED BY <1>3, <1>4, <1>5

\* A global rule has no host, and no row is one of Global.
LEMMA NoHostFacts ==
    ASSUME NEW t, Sound(t)
    PROVE  HostId(t, NoHost) = Global /\ HostName(t.hosts, Global) = NoHost
<1>1. t.hosts \in SUBSET HostRows
  BY TablesMade DEF Sound
<1>2. \A h \in t.hosts : h.id # Global
  BY <1>1 DEF HostRows, RowIds
<1> QED BY <1>2 DEF HostId, HostName

\* Rules are written with the ids of hosts that are there.
LEMMA WithRulesFacts ==
    ASSUME NEW t, Sound(t), NEW d, Importable(d), NamesOf(d.hosts) \subseteq NamesOf(t.hosts)
    PROVE  LET u == WithRules(t, d) IN
           /\ Sound(u) /\ RulesFrom(t, d.rules, DOMAIN d.rules, u.rules)
           /\ u.hosts = t.hosts /\ u.schedules = t.schedules /\ u.channels = t.channels
           /\ u.hs = t.hs /\ u.hc = t.hc
<1> DEFINE x == UpsertedRules(t, d.rules)
           u == WithRules(t, d)
<1>1. t \in Tables /\ t.rules \in RuleLists /\ DistinctIds(t.rules)
  BY TablesMade DEF Sound, Consistent, RuleLists
<1>2. d.rules \in Seq(RuleEntry) /\ \A i, j \in DOMAIN d.rules : d.rules[i].name = d.rules[j].name => i = j
  BY DocumentFacts DEF Importable, Validated
<1>3. ASSUME NEW i \in DOMAIN d.rules
      PROVE  HostId(t, d.rules[i].host) \in IdsOf(t.hosts) \cup {Global} /\ HostId(t, d.rules[i].host) \in Nat
  <2>1. d.rules[i].host \in NamesOf(t.hosts) \cup {NoHost}
    BY DEF Importable, Validated
  <2>2. RowIds \subseteq Nat /\ Global \in Nat
    BY DEF RowIds, Global
  <2>3. CASE d.rules[i].host = NoHost
    BY <2>2, <2>3, NoHostFacts
  <2>4. CASE d.rules[i].host \in NamesOf(t.hosts)
    BY <2>2, <2>4, HostIdFacts
  <2> QED BY <2>1, <2>3, <2>4
<1>4. RulesFrom(t, d.rules, DOMAIN d.rules, x)
  BY <1>1, <1>2, <1>3, RulesOutcome
<1>5. u = [t EXCEPT !.rules = x]
  BY DEF WithRules
<1> HIDE DEF x, u
<1>6. x \in SUBSET RuleRows /\ IsFiniteSet(x) /\ DistinctIds(x)
  BY <1>4 DEF RulesFrom, RuleLists
<1>7. /\ u \in Tables /\ u.hosts = t.hosts /\ u.schedules = t.schedules /\ u.channels = t.channels
      /\ u.rules = x /\ u.hs = t.hs /\ u.hc = t.hc
  BY <1>1, <1>5, <1>6, RulesSet
<1>8. ASSUME NEW r \in u.rules PROVE r.host \in IdsOf(u.hosts) \cup {Global}
  <2>1. r \in t.rules \/ \E i \in DOMAIN d.rules : Holds(t, r, d.rules[i])
    BY <1>4, <1>7 DEF RulesFrom
  <2>2. CASE r \in t.rules
    BY <1>7, <2>2 DEF Sound, Consistent
  <2>3. CASE \E i \in DOMAIN d.rules : Holds(t, r, d.rules[i])
    BY <1>3, <1>7, <2>3 DEF Holds
  <2> QED BY <2>1, <2>2, <2>3
<1>9. Consistent(u)
  <2>1. DistinctIds(u.hosts) /\ DistinctNames(u.hosts) /\ DistinctNames(u.schedules) /\ DistinctNames(u.channels)
    BY <1>7 DEF Sound, Consistent
  <2>2. DistinctIds(u.rules)
    BY <1>6, <1>7
  <2>3. /\ u.hs \subseteq (IdsOf(u.hosts) \X NamesOf(u.schedules))
        /\ u.hc \subseteq (IdsOf(u.hosts) \X NamesOf(u.channels))
    BY <1>7 DEF Sound, Consistent
  <2>4. \A c \in u.channels : c.needs => c.config = NoConfig
    BY <1>7 DEF Sound, Consistent
  <2> QED BY <1>8, <2>1, <2>2, <2>3, <2>4 DEF Consistent
<1>10. IsFiniteSet(u.hosts) /\ IsFiniteSet(u.rules)
  BY <1>6, <1>7 DEF Sound
<1> QED BY <1>4, <1>7, <1>9, <1>10 DEF Sound, u

\* Links by names that exist are links of rows that exist.
LEMMA ResolveFacts ==
    ASSUME NEW t, Sound(t), NEW names \in SUBSET Names, NEW links,
           \A l \in links : l \in Names \X Names /\ l[1] \in NamesOf(t.hosts) /\ l[2] \in names
    PROVE  /\ Resolve(t, links) \in SUBSET Links
           /\ Resolve(t, links) \subseteq (IdsOf(t.hosts) \X names)
           /\ NamedLinks(t, Resolve(t, links)) = links
<1>1. ASSUME NEW l \in links
      PROVE  /\ <<HostId(t, l[1]), l[2]>> \in Links /\ <<HostId(t, l[1]), l[2]>> \in IdsOf(t.hosts) \X names
             /\ <<HostName(t.hosts, HostId(t, l[1])), l[2]>> = l
  <2>1. HostId(t, l[1]) \in IdsOf(t.hosts) /\ HostId(t, l[1]) \in RowIds /\ HostName(t.hosts, HostId(t, l[1])) = l[1]
    BY HostIdFacts
  <2> QED BY <2>1 DEF Links
<1>2. Resolve(t, links) \in SUBSET Links /\ Resolve(t, links) \subseteq (IdsOf(t.hosts) \X names)
  BY <1>1 DEF Resolve
<1>3. ASSUME NEW k \in NamedLinks(t, Resolve(t, links)) PROVE k \in links
  <2>1. PICK j \in Resolve(t, links) : k = <<HostName(t.hosts, j[1]), j[2]>>
    BY DEF NamedLinks
  <2>2. PICK l \in links : j = <<HostId(t, l[1]), l[2]>>
    BY DEF Resolve
  <2>3. k = l
    BY <1>1, <2>1, <2>2
  <2> QED BY <2>3
<1>4. ASSUME NEW l \in links PROVE l \in NamedLinks(t, Resolve(t, links))
  <2> DEFINE j == <<HostId(t, l[1]), l[2]>>
  <2>1. j \in Resolve(t, links)
    BY DEF Resolve
  <2>2. l = <<HostName(t.hosts, j[1]), j[2]>>
    BY <1>1
  <2> HIDE DEF j
  <2> QED BY <2>1, <2>2 DEF NamedLinks
<1> QED BY <1>2, <1>3, <1>4

\* Links are added between hosts, schedules and channels that are there.
LEMMA WithLinksFacts ==
    ASSUME NEW t, Sound(t), NEW d, Importable(d), NamesOf(d.hosts) \subseteq NamesOf(t.hosts),
           NamesOf(d.schedules) \subseteq NamesOf(t.schedules), NamesOf(d.channels) \subseteq NamesOf(t.channels)
    PROVE  LET u == WithLinks(t, d) IN
           /\ Sound(u) /\ u.hs = t.hs \cup Resolve(t, d.hs) /\ u.hc = t.hc \cup Resolve(t, d.hc)
           /\ u.hosts = t.hosts /\ u.schedules = t.schedules /\ u.channels = t.channels /\ u.rules = t.rules
           /\ NamedLinks(t, Resolve(t, d.hs)) = d.hs /\ NamedLinks(t, Resolve(t, d.hc)) = d.hc
<1> DEFINE x == t.hs \cup Resolve(t, d.hs)
           y == t.hc \cup Resolve(t, d.hc)
           u == WithLinks(t, d)
<1>1. t \in Tables /\ t.hs \in SUBSET Links /\ t.hc \in SUBSET Links
  BY TablesMade DEF Sound
<1>2. NamesOf(t.schedules) \in SUBSET Names /\ NamesOf(t.channels) \in SUBSET Names
  BY TablesMade DEF Sound, NamesOf, Entry, ChannelRows
<1>3. \A l \in d.hs : l \in Names \X Names /\ l[1] \in NamesOf(t.hosts) /\ l[2] \in NamesOf(t.schedules)
  BY DocumentFacts DEF Importable, Validated
<1>4. \A l \in d.hc : l \in Names \X Names /\ l[1] \in NamesOf(t.hosts) /\ l[2] \in NamesOf(t.channels)
  BY DocumentFacts DEF Importable, Validated
<1>5. /\ Resolve(t, d.hs) \in SUBSET Links /\ Resolve(t, d.hs) \subseteq (IdsOf(t.hosts) \X NamesOf(t.schedules))
      /\ NamedLinks(t, Resolve(t, d.hs)) = d.hs
  BY <1>2, <1>3, ResolveFacts
<1>6. /\ Resolve(t, d.hc) \in SUBSET Links /\ Resolve(t, d.hc) \subseteq (IdsOf(t.hosts) \X NamesOf(t.channels))
      /\ NamedLinks(t, Resolve(t, d.hc)) = d.hc
  BY <1>2, <1>4, ResolveFacts
<1>7. u = [t EXCEPT !.hs = x, !.hc = y]
  BY DEF WithLinks, Resolve
<1>8. x \in SUBSET Links /\ y \in SUBSET Links
  BY <1>1, <1>5, <1>6
<1>9. /\ x \subseteq (IdsOf(t.hosts) \X NamesOf(t.schedules))
      /\ y \subseteq (IdsOf(t.hosts) \X NamesOf(t.channels))
  <2>1. /\ t.hs \subseteq (IdsOf(t.hosts) \X NamesOf(t.schedules))
        /\ t.hc \subseteq (IdsOf(t.hosts) \X NamesOf(t.channels))
    BY DEF Sound, Consistent
  <2> QED BY <1>5, <1>6, <2>1
<1>10. x = t.hs \cup Resolve(t, d.hs) /\ y = t.hc \cup Resolve(t, d.hc)
  OBVIOUS
<1> HIDE DEF x, y, u
<1>11. /\ u \in Tables /\ u.hosts = t.hosts /\ u.schedules = t.schedules /\ u.channels = t.channels
       /\ u.rules = t.rules /\ u.hs = x /\ u.hc = y
  <2> DEFINE v == [t EXCEPT !.hs = x, !.hc = y]
  <2>1. /\ v \in Tables /\ v.hosts = t.hosts /\ v.schedules = t.schedules /\ v.channels = t.channels
        /\ v.rules = t.rules /\ v.hs = x /\ v.hc = y
    BY <1>1, <1>8 DEF Tables
  <2> HIDE DEF v
  <2> QED BY <1>7, <2>1 DEF v
<1>12. Consistent(u)
  <2>1. /\ DistinctIds(u.hosts) /\ DistinctIds(u.rules)
        /\ DistinctNames(u.hosts) /\ DistinctNames(u.schedules) /\ DistinctNames(u.channels)
    BY <1>11 DEF Sound, Consistent
  <2>2. \A r \in u.rules : r.host \in IdsOf(u.hosts) \cup {Global}
    BY <1>11 DEF Sound, Consistent
  <2>3. \A c \in u.channels : c.needs => c.config = NoConfig
    BY <1>11 DEF Sound, Consistent
  <2> QED BY <1>9, <1>11, <2>1, <2>2, <2>3 DEF Consistent
<1>13. IsFiniteSet(u.hosts) /\ IsFiniteSet(u.rules)
  BY <1>11 DEF Sound
<1> QED BY <1>5, <1>6, <1>10, <1>11, <1>12, <1>13 DEF Sound, u

-----------------------------------------------------------------------------
(* The transaction, whole.                                                 *)

Start(t, mode) == IF mode = "replace" THEN Wiped(t) ELSE t
BeforeRules(t, d, mode) == WithChannels(WithSchedules(WithHosts(Start(t, mode), d), d), d)

\* What is resolved through the hosts depends on them alone.
LEMMA SameHosts ==
    ASSUME NEW t, NEW u, t.hosts = u.hosts
    PROVE  /\ \A n : HostId(t, n) = HostId(u, n)
           /\ \A links : Resolve(t, links) = Resolve(u, links) /\ NamedLinks(t, links) = NamedLinks(u, links)
           /\ \A r, e : Holds(t, r, e) <=> Holds(u, r, e)
           /\ \A r : RuleByName(t, r) = RuleByName(u, r)
<1>1. \A n : HostId(t, n) = HostId(u, n)
  BY DEF HostId
<1>2. \A links : Resolve(t, links) = Resolve(u, links)
  BY <1>1 DEF Resolve
<1>3. \A links : NamedLinks(t, links) = NamedLinks(u, links)
  BY DEF NamedLinks
<1>4. \A r, e : Holds(t, r, e) <=> Holds(u, r, e)
  BY <1>1 DEF Holds
<1>5. \A r : RuleByName(t, r) = RuleByName(u, r)
  BY DEF RuleByName
<1> QED BY <1>1, <1>2, <1>3, <1>4, <1>5

\* What the transaction starts from.
LEMMA StartFacts ==
    ASSUME NEW t, Sound(t), NEW mode
    PROVE  LET w == Start(t, mode) IN
           /\ Sound(w) /\ w.hosts = t.hosts
           /\ mode # "replace" => w = t
           /\ mode = "replace" => /\ w.schedules = {} /\ w.channels = {} /\ w.rules = {}
                                  /\ w.hs = {} /\ w.hc = {}
<1>1. CASE mode = "replace"
  BY <1>1, WipedFacts DEF Start
<1>2. CASE mode # "replace"
  BY <1>2 DEF Start
<1> QED BY <1>1, <1>2

\* What ApplyImport makes of the tables, table by table.
LEMMA AppliedFacts ==
    ASSUME NEW t, Sound(t), NEW d, Importable(d), NEW mode
    PROVE  LET w == Start(t, mode)
               c == BeforeRules(t, d, mode)
               u == Applied(t, d, mode) IN
           /\ Sound(u)
           /\ HostsFrom(w.hosts, d.hosts, u.hosts)
           /\ u.schedules = Upserted(w.schedules, d.schedules)
           /\ NamesOf(u.schedules) = NamesOf(w.schedules) \cup NamesOf(d.schedules)
           /\ u.channels = Upserted(w.channels, Arrived(d))
           /\ c.hosts = u.hosts /\ c.rules = w.rules /\ RulesFrom(c, d.rules, DOMAIN d.rules, u.rules)
           /\ u.hs = w.hs \cup Resolve(u, d.hs) /\ NamedLinks(u, Resolve(u, d.hs)) = d.hs
           /\ u.hc = w.hc \cup Resolve(u, d.hc) /\ NamedLinks(u, Resolve(u, d.hc)) = d.hc
<1> DEFINE w == Start(t, mode)
           h == WithHosts(w, d)
           s == WithSchedules(h, d)
           c == WithChannels(s, d)
           r == WithRules(c, d)
           u == WithLinks(r, d)
<1>1. Sound(w)
  BY StartFacts
<1> HIDE DEF w
<1>2. /\ Sound(h) /\ HostsFrom(w.hosts, d.hosts, h.hosts)
      /\ h.schedules = w.schedules /\ h.channels = w.channels /\ h.rules = w.rules
      /\ h.hs = w.hs /\ h.hc = w.hc
  BY <1>1, WithHostsFacts
<1>3. NamesOf(d.hosts) \subseteq NamesOf(h.hosts)
  BY <1>2 DEF HostsFrom
<1> HIDE DEF h
<1>4. /\ Sound(s) /\ s.schedules = Upserted(h.schedules, d.schedules)
      /\ NamesOf(s.schedules) = NamesOf(h.schedules) \cup NamesOf(d.schedules)
      /\ s.hosts = h.hosts /\ s.channels = h.channels /\ s.rules = h.rules
      /\ s.hs = h.hs /\ s.hc = h.hc
  BY <1>2, WithSchedulesFacts
<1> HIDE DEF s
<1>5. /\ Sound(c) /\ c.channels = Upserted(s.channels, Arrived(d))
      /\ NamesOf(c.channels) = NamesOf(s.channels) \cup NamesOf(d.channels)
      /\ c.hosts = s.hosts /\ c.schedules = s.schedules /\ c.rules = s.rules
      /\ c.hs = s.hs /\ c.hc = s.hc
  BY <1>4, WithChannelsFacts
<1> HIDE DEF c
<1>6. /\ Sound(r) /\ RulesFrom(c, d.rules, DOMAIN d.rules, r.rules)
      /\ r.hosts = c.hosts /\ r.schedules = c.schedules /\ r.channels = c.channels
      /\ r.hs = c.hs /\ r.hc = c.hc
  <2>1. NamesOf(d.hosts) \subseteq NamesOf(c.hosts)
    BY <1>3, <1>4, <1>5
  <2> QED BY <1>5, <2>1, WithRulesFacts
<1> HIDE DEF r
<1>7. /\ Sound(u) /\ u.hs = r.hs \cup Resolve(r, d.hs) /\ u.hc = r.hc \cup Resolve(r, d.hc)
      /\ u.hosts = r.hosts /\ u.schedules = r.schedules /\ u.channels = r.channels /\ u.rules = r.rules
      /\ NamedLinks(r, Resolve(r, d.hs)) = d.hs /\ NamedLinks(r, Resolve(r, d.hc)) = d.hc
  <2>1. /\ NamesOf(d.hosts) \subseteq NamesOf(r.hosts)
        /\ NamesOf(d.schedules) \subseteq NamesOf(r.schedules) /\ NamesOf(d.channels) \subseteq NamesOf(r.channels)
    BY <1>3, <1>4, <1>5, <1>6
  <2> QED BY <1>6, <2>1, WithLinksFacts
<1> HIDE DEF u
<1>8. /\ Resolve(r, d.hs) = Resolve(u, d.hs) /\ Resolve(r, d.hc) = Resolve(u, d.hc)
      /\ NamedLinks(r, Resolve(r, d.hs)) = NamedLinks(u, Resolve(r, d.hs))
      /\ NamedLinks(r, Resolve(r, d.hc)) = NamedLinks(u, Resolve(r, d.hc))
  BY <1>7, SameHosts
<1>9. u = Applied(t, d, mode) /\ c = BeforeRules(t, d, mode) /\ w = Start(t, mode)
  BY DEF Applied, BeforeRules, Start, u, r, c, s, h, w
<1>10. /\ Sound(u)
       /\ HostsFrom(w.hosts, d.hosts, u.hosts)
       /\ u.schedules = Upserted(w.schedules, d.schedules)
       /\ NamesOf(u.schedules) = NamesOf(w.schedules) \cup NamesOf(d.schedules)
       /\ u.channels = Upserted(w.channels, Arrived(d))
       /\ c.hosts = u.hosts /\ c.rules = w.rules /\ RulesFrom(c, d.rules, DOMAIN d.rules, u.rules)
  BY <1>2, <1>4, <1>5, <1>6, <1>7
<1>11. /\ u.hs = w.hs \cup Resolve(u, d.hs) /\ NamedLinks(u, Resolve(u, d.hs)) = d.hs
       /\ u.hc = w.hc \cup Resolve(u, d.hc) /\ NamedLinks(u, Resolve(u, d.hc)) = d.hc
  BY <1>2, <1>4, <1>5, <1>6, <1>7, <1>8
<1> QED BY <1>9, <1>10, <1>11

\* The host of an entry resolves to an id that leads back to it.
LEMMA RuleHosts ==
    ASSUME NEW t, Sound(t), NEW d, Importable(d), NamesOf(d.hosts) \subseteq NamesOf(t.hosts),
           NEW i \in DOMAIN d.rules
    PROVE  /\ HostId(t, d.rules[i].host) \in Nat
           /\ HostName(t.hosts, HostId(t, d.rules[i].host)) = d.rules[i].host
           /\ d.rules[i] \in RuleEntry
<1>1. d.rules[i] \in RuleEntry
  <2>1. d.rules \in Seq(RuleEntry)
    BY DocumentFacts DEF Importable
  <2> QED BY <2>1
<1>2. d.rules[i].host \in NamesOf(t.hosts) \cup {NoHost}
  BY DEF Importable, Validated
<1>3. RowIds \subseteq Nat /\ Global \in Nat
  BY DEF RowIds, Global
<1>4. CASE d.rules[i].host = NoHost
  BY <1>1, <1>3, <1>4, NoHostFacts
<1>5. CASE d.rules[i].host \in NamesOf(t.hosts)
  <2> DEFINE n == d.rules[i].host
  <2>1. n \in NamesOf(t.hosts)
    BY <1>5
  <2> HIDE DEF n
  <2>2. HostId(t, n) \in RowIds /\ HostName(t.hosts, HostId(t, n)) = n
    BY <2>1, HostIdFacts
  <2> QED BY <1>1, <1>3, <2>2 DEF n
<1> QED BY <1>2, <1>4, <1>5

\* A row that holds an entry is exported as that entry.
LEMMA HoldsByName ==
    ASSUME NEW t, Sound(t), NEW d, Importable(d), NamesOf(d.hosts) \subseteq NamesOf(t.hosts),
           NEW i \in DOMAIN d.rules, NEW r, Holds(t, r, d.rules[i])
    PROVE  RuleByName(t, r) = d.rules[i]
<1> DEFINE e == d.rules[i]
<1>1. e \in RuleEntry /\ HostName(t.hosts, HostId(t, e.host)) = e.host
  BY RuleHosts
<1>2. r.name = e.name /\ r.value = e.value /\ r.host = HostId(t, e.host)
  BY DEF Holds
<1> HIDE DEF e
<1>3. e = [name |-> e.name, value |-> e.value, host |-> e.host]
  BY <1>1 DEF RuleEntry
<1>4. RuleByName(t, r) = [name |-> e.name, value |-> e.value, host |-> e.host]
  BY <1>1, <1>2 DEF RuleByName
<1> QED BY <1>3, <1>4 DEF e

\* What is there already is not changed by writing it again.
LEMMA UpsertedFixed ==
    ASSUME NEW rows, NEW new, new \subseteq rows, DistinctNames(rows)
    PROVE  Upserted(rows, new) = rows
BY DEF Upserted, DistinctNames, NamesOf

\* Applied to its own outcome an import changes nothing, whatever rows share
\* their names with the document's rules.
LEMMA MergedAgain ==
    ASSUME NEW t, Sound(t), NEW d, Importable(d), NEW mode
    PROVE  Applied(Applied(t, d, mode), d, "merge") = Applied(t, d, mode)
<1> DEFINE w == Start(t, mode)
           c == BeforeRules(t, d, mode)
           u == Applied(t, d, mode)
<1> HIDE DEF w, c, u
<1>1. /\ Sound(u)
      /\ HostsFrom(w.hosts, d.hosts, u.hosts)
      /\ u.schedules = Upserted(w.schedules, d.schedules)
      /\ u.channels = Upserted(w.channels, Arrived(d))
      /\ c.hosts = u.hosts /\ c.rules = w.rules /\ RulesFrom(c, d.rules, DOMAIN d.rules, u.rules)
      /\ u.hs = w.hs \cup Resolve(u, d.hs)
      /\ u.hc = w.hc \cup Resolve(u, d.hc)
  BY AppliedFacts DEF w, c, u
<1>2. /\ u \in Tables /\ u.hosts \in HostLists /\ u.rules \in RuleLists
      /\ DistinctNames(u.hosts) /\ DistinctNames(u.schedules) /\ DistinctNames(u.channels) /\ DistinctIds(u.rules)
  BY <1>1, TablesMade DEF Sound, Consistent, HostLists, RuleLists
<1>3. d.hosts \in SUBSET Entry /\ IsFiniteSet(d.hosts) /\ d.rules \in Seq(RuleEntry)
  BY DocumentFacts DEF Importable
<1>4. WithHosts(u, d) = u
  <2>1. UpsertedHosts(u.hosts, d.hosts) = u.hosts
    BY <1>1, <1>2, <1>3, HostsFixed DEF HostsFrom
  <2> QED BY <1>2, <2>1 DEF WithHosts, Tables
<1>5. WithSchedules(u, d) = u
  <2>1. Upserted(u.schedules, d.schedules) = u.schedules
    BY <1>1, <1>2, UpsertedFixed DEF Upserted
  <2> QED BY <1>2, <2>1 DEF WithSchedules, Tables
<1>6. WithChannels(u, d) = u
  <2>1. Upserted(u.channels, Arrived(d)) = u.channels
    BY <1>1, <1>2, UpsertedFixed DEF Upserted
  <2>2. WithChannels(u, d) = [u EXCEPT !.channels = Upserted(u.channels, Arrived(d))]
    BY DEF WithChannels, Arrived
  <2> QED BY <1>2, <2>1, <2>2 DEF Tables
<1>7. WithRules(u, d) = u
  <2>1. NamesOf(d.hosts) \subseteq NamesOf(u.hosts)
    BY <1>1 DEF HostsFrom
  <2>2. \A i \in DOMAIN d.rules : HostId(u, d.rules[i].host) \in Nat
    BY <1>1, <2>1, RuleHosts
  <2>3. \A r, e : Holds(c, r, e) <=> Holds(u, r, e)
    BY <1>1, SameHosts
  <2>4. \A i \in DOMAIN d.rules : \E r \in u.rules : Holds(u, r, d.rules[i]) /\ First(u.rules, r)
    BY <1>1, <2>3 DEF RulesFrom
  <2>5. UpsertedRules(u, d.rules) = u.rules
    BY <1>2, <1>3, <2>2, <2>4, RulesFixed
  <2> QED BY <1>2, <2>5 DEF WithRules, Tables
<1>8. WithLinks(u, d) = u
  <2>1. WithLinks(u, d) = [u EXCEPT !.hs = u.hs \cup Resolve(u, d.hs), !.hc = u.hc \cup Resolve(u, d.hc)]
    BY DEF WithLinks, Resolve
  <2>2. u.hs \cup Resolve(u, d.hs) = u.hs /\ u.hc \cup Resolve(u, d.hc) = u.hc
    BY <1>1
  <2> QED BY <1>2, <2>1, <2>2 DEF Tables
<1>9. Applied(u, d, "merge") = u
  BY <1>4, <1>5, <1>6, <1>7, <1>8 DEF Applied
<1> QED BY <1>9 DEF u

\* The links of hosts that stay have the names they had.
LEMMA NamedLinksKept ==
    ASSUME NEW t, Sound(t), NEW u, Sound(u), NEW es, HostsFrom(t.hosts, es, u.hosts),
           NEW links, \A l \in links : l[1] \in IdsOf(t.hosts)
    PROVE  NamedLinks(u, links) = NamedLinks(t, links)
<1>1. ASSUME NEW l \in links PROVE HostName(u.hosts, l[1]) = HostName(t.hosts, l[1])
  <2>1. PICK h \in t.hosts : h.id = l[1]
    BY DEF IdsOf
  <2>2. PICK g \in u.hosts : g.id = h.id /\ g.name = h.name
    BY DEF HostsFrom
  <2>3. HostName(t.hosts, h.id) = h.name /\ HostName(u.hosts, g.id) = g.name
    BY HostNameFacts
  <2> QED BY <2>1, <2>2, <2>3
<1> QED BY <1>1 DEF NamedLinks

\* Links are named one by one.
LEMMA NamedLinksOfUnion ==
    ASSUME NEW t, NEW a, NEW b
    PROVE  NamedLinks(t, a \cup b) = NamedLinks(t, a) \cup NamedLinks(t, b) /\ NamedLinks(t, {}) = {}
BY DEF NamedLinks

\* ApplyImport does to the tables what an import promises.
LEMMA AppliedIsImported ==
    ASSUME NEW t, Sound(t), NEW d, Importable(d), NEW mode
    PROVE  Imported(t, d, mode, Applied(t, d, mode))
<1> DEFINE w == Start(t, mode)
           c == BeforeRules(t, d, mode)
           u == Applied(t, d, mode)
           kept == IF mode = "replace" THEN {} ELSE {x \in t.channels : x.name \notin NamesOf(d.channels)}
<1> HIDE DEF w, c, u
<1>1. /\ Sound(u)
      /\ HostsFrom(w.hosts, d.hosts, u.hosts)
      /\ u.schedules = Upserted(w.schedules, d.schedules)
      /\ NamesOf(u.schedules) = NamesOf(w.schedules) \cup NamesOf(d.schedules)
      /\ u.channels = Upserted(w.channels, Arrived(d))
      /\ c.hosts = u.hosts /\ c.rules = w.rules /\ RulesFrom(c, d.rules, DOMAIN d.rules, u.rules)
      /\ u.hs = w.hs \cup Resolve(u, d.hs) /\ NamedLinks(u, Resolve(u, d.hs)) = d.hs
      /\ u.hc = w.hc \cup Resolve(u, d.hc) /\ NamedLinks(u, Resolve(u, d.hc)) = d.hc
  BY AppliedFacts DEF w, c, u
<1>2. /\ Sound(w) /\ w.hosts = t.hosts
      /\ mode # "replace" => w = t
      /\ mode = "replace" => w.schedules = {} /\ w.channels = {} /\ w.rules = {} /\ w.hs = {} /\ w.hc = {}
  BY StartFacts DEF w
<1>3. ASSUME NEW h \in t.hosts
      PROVE  \E g \in u.hosts :
                /\ g.id = h.id /\ g.name = h.name
                /\ IF h.name \in NamesOf(d.hosts) THEN [name |-> g.name, value |-> g.value] \in d.hosts ELSE g = h
  <2>1. PICK g \in u.hosts : g.id = h.id /\ g.name = h.name /\ (h.name \notin NamesOf(d.hosts) => g = h)
    BY <1>1, <1>2 DEF HostsFrom
  <2>2. ASSUME h.name \in NamesOf(d.hosts) PROVE [name |-> g.name, value |-> g.value] \in d.hosts
    <3>1. PICK e \in d.hosts : e.name = h.name
      BY <2>2 DEF NamesOf
    <3>2. PICK f \in u.hosts : f.name = e.name /\ f.value = e.value
      BY <1>1 DEF HostsFrom
    <3>3. f = g
      BY <1>1, <2>1, <3>1, <3>2 DEF HostsFrom, DistinctNames
    <3>4. e \in Entry
      BY DocumentFacts DEF Importable
    <3>5. e = [name |-> e.name, value |-> e.value]
      BY <3>4 DEF Entry
    <3>6. e = [name |-> g.name, value |-> g.value]
      BY <3>2, <3>3, <3>5
    <3> QED BY <3>6
  <2> QED BY <2>1, <2>2
<1>4. NamesOf(u.hosts) = NamesOf(t.hosts) \cup NamesOf(d.hosts)
  BY <1>1, <1>2 DEF HostsFrom
<1>5. \A s \in d.schedules : s \in u.schedules
  BY <1>1 DEF Upserted
<1>6. NamesOf(u.schedules) = NamesOf(d.schedules) \cup (IF mode = "replace" THEN {} ELSE NamesOf(t.schedules))
  <2>1. NamesOf({}) = {}
    BY DEF NamesOf
  <2> QED BY <1>1, <1>2, <2>1
<1>7. u.channels = kept \cup {Received(x, d.mode) : x \in d.channels}
  <2>1. NamesOf(Arrived(d)) = NamesOf(d.channels)
    BY ArrivedFacts
  <2>2. u.channels = {x \in w.channels : x.name \notin NamesOf(d.channels)} \cup Arrived(d)
    BY <1>1, <2>1 DEF Upserted
  <2>3. {x \in w.channels : x.name \notin NamesOf(d.channels)} = kept
    BY <1>2
  <2> HIDE DEF kept
  <2> QED BY <2>2, <2>3 DEF Arrived
<1>8. \A i \in DOMAIN d.rules : \E r \in u.rules : d.rules[i] = RuleByName(u, r)
  <2> SUFFICES ASSUME NEW i \in DOMAIN d.rules PROVE \E r \in u.rules : d.rules[i] = RuleByName(u, r)
    OBVIOUS
  <2>1. PICK r \in u.rules : Holds(c, r, d.rules[i])
    BY <1>1 DEF RulesFrom
  <2>2. Holds(u, r, d.rules[i])
    BY <1>1, <2>1, SameHosts
  <2>3. RuleByName(u, r) = d.rules[i]
    BY <1>1, <1>4, <2>2, HoldsByName
  <2> QED BY <2>3
<1>9. ASSUME mode = "replace"
      PROVE  /\ Cardinality(u.rules) = Len(d.rules)
             /\ NamedLinks(u, u.hs) = d.hs /\ NamedLinks(u, u.hc) = d.hc
  <2>1. Cardinality(u.rules) = Cardinality(DOMAIN d.rules)
    BY <1>1, <1>2, <1>9 DEF RulesFrom
  <2>2. Cardinality(DOMAIN d.rules) = Len(d.rules)
    <3>1. d.rules \in Seq(RuleEntry)
      BY DocumentFacts DEF Importable
    <3>2. DOMAIN d.rules = 1 .. Len(d.rules) /\ Len(d.rules) \in Nat
      BY <3>1
    <3>3. \A n \in Nat : Cardinality(1 .. n) = n
      <4> SUFFICES ASSUME NEW n \in Nat PROVE Cardinality(1 .. n) = n
        OBVIOUS
      <4>1. CASE n = 0
        BY <4>1, FS_Interval
      <4>2. CASE n # 0
        BY <4>2, FS_Interval
      <4> QED BY <4>1, <4>2
    <3> QED BY <3>2, <3>3
  <2>3. u.hs = Resolve(u, d.hs) /\ u.hc = Resolve(u, d.hc)
    BY <1>1, <1>2, <1>9
  <2> QED BY <1>1, <2>1, <2>2, <2>3
<1>10. ASSUME mode # "replace"
       PROVE  /\ {r \in t.rules : r.name \notin {d.rules[i].name : i \in DOMAIN d.rules}} \subseteq u.rules
              /\ NamedLinks(u, u.hs) = NamedLinks(t, t.hs) \cup d.hs
              /\ NamedLinks(u, u.hc) = NamedLinks(t, t.hc) \cup d.hc
  <2>1. {r \in t.rules : r.name \notin {d.rules[i].name : i \in DOMAIN d.rules}} \subseteq u.rules
    BY <1>1, <1>2, <1>10 DEF RulesFrom
  <2>2. u.hs = t.hs \cup Resolve(u, d.hs) /\ u.hc = t.hc \cup Resolve(u, d.hc)
    BY <1>1, <1>2, <1>10
  <2>3. /\ \A l \in t.hs : l[1] \in IdsOf(t.hosts)
        /\ \A l \in t.hc : l[1] \in IdsOf(t.hosts)
        /\ HostsFrom(t.hosts, d.hosts, u.hosts)
    BY <1>1, <1>2 DEF Sound, Consistent
  <2>4. NamedLinks(u, t.hs) = NamedLinks(t, t.hs)
    BY <1>1, <2>3, NamedLinksKept
  <2>7. NamedLinks(u, t.hc) = NamedLinks(t, t.hc)
    BY <1>1, <2>3, NamedLinksKept
  <2>5. NamedLinks(u, u.hs) = NamedLinks(t, t.hs) \cup d.hs
    <3>1. NamedLinks(u, t.hs \cup Resolve(u, d.hs)) = NamedLinks(u, t.hs) \cup NamedLinks(u, Resolve(u, d.hs))
      BY NamedLinksOfUnion
    <3> QED BY <1>1, <2>2, <2>4, <3>1
  <2>6. NamedLinks(u, u.hc) = NamedLinks(t, t.hc) \cup d.hc
    <3>1. NamedLinks(u, t.hc \cup Resolve(u, d.hc)) = NamedLinks(u, t.hc) \cup NamedLinks(u, Resolve(u, d.hc))
      BY NamedLinksOfUnion
    <3> QED BY <1>1, <2>2, <2>7, <3>1
  <2> QED BY <2>1, <2>5, <2>6
<1>11. \A i \in DOMAIN d.rules : d.rules[i] \in {RuleByName(u, r) : r \in u.rules}
  BY <1>8
<1> QED BY <1>3, <1>4, <1>5, <1>6, <1>7, <1>9, <1>10, <1>11 DEF Imported, u

-----------------------------------------------------------------------------
(* Edits.                                                                  *)

\* Schedules and their links, changed together.
LEMMA SchedulesEdited ==
    ASSUME NEW t, Sound(t), NEW x \in SUBSET Entry, DistinctNames(x), NEW y \in SUBSET Links,
           y \subseteq IdsOf(t.hosts) \X NamesOf(x)
    PROVE  Sound([t EXCEPT !.schedules = x, !.hs = y])
<1> DEFINE u == [t EXCEPT !.schedules = x, !.hs = y]
<1>1. /\ u \in Tables /\ u.hosts = t.hosts /\ u.schedules = x /\ u.channels = t.channels
      /\ u.rules = t.rules /\ u.hs = y /\ u.hc = t.hc
  BY DEF Sound, Tables
<1> HIDE DEF u
<1>2. /\ DistinctIds(u.hosts) /\ DistinctIds(u.rules) /\ DistinctNames(u.hosts) /\ DistinctNames(u.channels)
      /\ u.hc \subseteq (IdsOf(u.hosts) \X NamesOf(u.channels))
      /\ IsFiniteSet(u.hosts) /\ IsFiniteSet(u.rules)
  BY <1>1 DEF Sound, Consistent
<1>3. \A r \in u.rules : r.host \in IdsOf(u.hosts) \cup {Global}
  BY <1>1 DEF Sound, Consistent
<1>4. \A c \in u.channels : c.needs => c.config = NoConfig
  BY <1>1 DEF Sound, Consistent
<1>5. u.hs \subseteq (IdsOf(u.hosts) \X NamesOf(u.schedules)) /\ DistinctNames(u.schedules)
  BY <1>1
<1>6. Consistent(u)
  BY <1>2, <1>3, <1>4, <1>5 DEF Consistent
<1>7. Sound(u)
  BY <1>1, <1>2, <1>6 DEF Sound
<1> QED BY <1>7 DEF u

\* Channels and their links, changed together.
LEMMA ChannelsEdited ==
    ASSUME NEW t, Sound(t), NEW x \in SUBSET ChannelRows, DistinctNames(x), \A c \in x : c.needs => c.config = NoConfig,
           NEW y \in SUBSET Links, y \subseteq IdsOf(t.hosts) \X NamesOf(x)
    PROVE  Sound([t EXCEPT !.channels = x, !.hc = y])
<1> DEFINE u == [t EXCEPT !.channels = x, !.hc = y]
<1>1. /\ u \in Tables /\ u.hosts = t.hosts /\ u.schedules = t.schedules /\ u.channels = x
      /\ u.rules = t.rules /\ u.hs = t.hs /\ u.hc = y
  BY DEF Sound, Tables
<1> HIDE DEF u
<1>2. /\ DistinctIds(u.hosts) /\ DistinctIds(u.rules) /\ DistinctNames(u.hosts) /\ DistinctNames(u.schedules)
      /\ u.hs \subseteq (IdsOf(u.hosts) \X NamesOf(u.schedules))
      /\ IsFiniteSet(u.hosts) /\ IsFiniteSet(u.rules)
  BY <1>1 DEF Sound, Consistent
<1>3. \A r \in u.rules : r.host \in IdsOf(u.hosts) \cup {Global}
  BY <1>1 DEF Sound, Consistent
<1>4. \A c \in u.channels : c.needs => c.config = NoConfig
  BY <1>1
<1>5. u.hc \subseteq (IdsOf(u.hosts) \X NamesOf(u.channels)) /\ DistinctNames(u.channels)
  BY <1>1
<1>6. Consistent(u)
  BY <1>2, <1>3, <1>4, <1>5 DEF Consistent
<1>7. Sound(u)
  BY <1>1, <1>2, <1>6 DEF Sound
<1> QED BY <1>7 DEF u

\* Rules change while they refer to hosts that are there.
LEMMA RulesEdited ==
    ASSUME NEW t, Sound(t), NEW x \in SUBSET RuleRows, IsFiniteSet(x), DistinctIds(x),
           \A r \in x : r.host \in IdsOf(t.hosts) \cup {Global}
    PROVE  Sound([t EXCEPT !.rules = x])
<1> DEFINE u == [t EXCEPT !.rules = x]
<1>1. /\ u \in Tables /\ u.hosts = t.hosts /\ u.schedules = t.schedules /\ u.channels = t.channels
      /\ u.rules = x /\ u.hs = t.hs /\ u.hc = t.hc
  BY DEF Sound, Tables
<1> HIDE DEF u
<1>2. /\ DistinctIds(u.hosts) /\ DistinctIds(u.rules)
      /\ DistinctNames(u.hosts) /\ DistinctNames(u.schedules) /\ DistinctNames(u.channels)
      /\ u.hs \subseteq (IdsOf(u.hosts) \X NamesOf(u.schedules))
      /\ u.hc \subseteq (IdsOf(u.hosts) \X NamesOf(u.channels))
      /\ IsFiniteSet(u.hosts) /\ IsFiniteSet(u.rules)
  BY <1>1 DEF Sound, Consistent
<1>3. \A r \in u.rules : r.host \in IdsOf(u.hosts) \cup {Global}
  BY <1>1
<1>4. \A c \in u.channels : c.needs => c.config = NoConfig
  BY <1>1 DEF Sound, Consistent
<1>5. Consistent(u)
  BY <1>2, <1>3, <1>4 DEF Consistent
<1>6. Sound(u)
  BY <1>1, <1>2, <1>5 DEF Sound
<1> QED BY <1>6 DEF u

\* Hosts change while every row that others refer to stays.
LEMMA HostsEdited ==
    ASSUME NEW t, Sound(t), NEW x \in SUBSET HostRows, IsFiniteSet(x), DistinctIds(x), DistinctNames(x),
           IdsOf(t.hosts) \subseteq IdsOf(x)
    PROVE  Sound([t EXCEPT !.hosts = x])
<1> DEFINE u == [t EXCEPT !.hosts = x]
<1>1. /\ u \in Tables /\ u.hosts = x /\ u.schedules = t.schedules /\ u.channels = t.channels
      /\ u.rules = t.rules /\ u.hs = t.hs /\ u.hc = t.hc
  BY DEF Sound, Tables
<1> HIDE DEF u
<1>2. /\ DistinctIds(u.hosts) /\ DistinctIds(u.rules)
      /\ DistinctNames(u.hosts) /\ DistinctNames(u.schedules) /\ DistinctNames(u.channels)
      /\ IsFiniteSet(u.hosts) /\ IsFiniteSet(u.rules)
  BY <1>1 DEF Sound, Consistent
<1>3. \A r \in u.rules : r.host \in IdsOf(u.hosts) \cup {Global}
  BY <1>1 DEF Sound, Consistent
<1>4. \A c \in u.channels : c.needs => c.config = NoConfig
  BY <1>1 DEF Sound, Consistent
<1>5. u.hs \subseteq (IdsOf(u.hosts) \X NamesOf(u.schedules))
  BY <1>1 DEF Sound, Consistent
<1>6. u.hc \subseteq (IdsOf(u.hosts) \X NamesOf(u.channels))
  BY <1>1 DEF Sound, Consistent
<1>7. Consistent(u)
  BY <1>2, <1>3, <1>4, <1>5, <1>6 DEF Consistent
<1>8. Sound(u)
  BY <1>1, <1>2, <1>7 DEF Sound
<1> QED BY <1>8 DEF u

\* A host goes with its rules and links.
LEMMA HostDeleted ==
    ASSUME NEW t, Sound(t), NEW h \in t.hosts
    PROVE  Sound([t EXCEPT !.hosts = t.hosts \ {h}, !.rules = {r \in t.rules : r.host # h.id},
                           !.hs = {l \in t.hs : l[1] # h.id}, !.hc = {l \in t.hc : l[1] # h.id}])
<1> DEFINE hosts == t.hosts \ {h}
           rules == {r \in t.rules : r.host # h.id}
           hs == {l \in t.hs : l[1] # h.id}
           hc == {l \in t.hc : l[1] # h.id}
           u == [t EXCEPT !.hosts = hosts, !.rules = rules, !.hs = hs, !.hc = hc]
<1>0. t \in Tables /\ IsFiniteSet(t.hosts) /\ IsFiniteSet(t.rules)
  BY DEF Sound
<1>1. hosts \in SUBSET HostRows /\ rules \in SUBSET RuleRows /\ hs \in SUBSET Links /\ hc \in SUBSET Links
  BY <1>0, TablesMade
<1>2. IsFiniteSet(hosts) /\ IsFiniteSet(rules)
  <2>1. hosts \in SUBSET t.hosts /\ rules \in SUBSET t.rules
    OBVIOUS
  <2> HIDE DEF hosts, rules
  <2> QED BY <1>0, <2>1, FS_Subset
<1>3. DistinctIds(hosts) /\ DistinctIds(rules) /\ DistinctNames(hosts)
  BY DEF Sound, Consistent, DistinctIds, DistinctNames
<1>4. \A i \in IdsOf(t.hosts) : i # h.id => i \in IdsOf(hosts)
  BY DEF IdsOf
<1>5. \A r \in rules : r.host \in IdsOf(hosts) \cup {Global}
  BY <1>4 DEF Sound, Consistent
<1>6. hs \subseteq (IdsOf(hosts) \X NamesOf(t.schedules))
  <2>1. t.hs \subseteq (IdsOf(t.hosts) \X NamesOf(t.schedules))
    BY DEF Sound, Consistent
  <2> QED BY <1>4, <2>1
<1>7. hc \subseteq (IdsOf(hosts) \X NamesOf(t.channels))
  <2>1. t.hc \subseteq (IdsOf(t.hosts) \X NamesOf(t.channels))
    BY DEF Sound, Consistent
  <2> QED BY <1>4, <2>1
<1> HIDE DEF hosts, rules, hs, hc
<1>8. /\ u \in Tables /\ u.hosts = hosts /\ u.schedules = t.schedules /\ u.channels = t.channels
      /\ u.rules = rules /\ u.hs = hs /\ u.hc = hc
  BY <1>0, <1>1 DEF Tables
<1> HIDE DEF u
<1>9. DistinctNames(t.schedules) /\ DistinctNames(t.channels) /\ \A c \in t.channels : c.needs => c.config = NoConfig
  BY DEF Sound, Consistent
<1>10. Consistent(u)
  BY <1>3, <1>5, <1>6, <1>7, <1>8, <1>9 DEF Consistent
<1>11. Sound(u)
  BY <1>2, <1>8, <1>10 DEF Sound
<1> QED BY <1>11 DEF u, hosts, rules, hs, hc

\* The links of one host are replaced (SetHostSchedules, SetHostChannels).
LEMMA LinksEdited ==
    ASSUME NEW t, Sound(t), NEW h \in t.hosts, NEW names,
           names \subseteq NamesOf(t.schedules) \/ names \subseteq NamesOf(t.channels)
    PROVE  /\ names \subseteq NamesOf(t.schedules) =>
                 Sound([t EXCEPT !.hs = {l \in t.hs : l[1] # h.id} \cup ({h.id} \X names)])
           /\ names \subseteq NamesOf(t.channels) =>
                 Sound([t EXCEPT !.hc = {l \in t.hc : l[1] # h.id} \cup ({h.id} \X names)])
<1>1. t \in Tables /\ h.id \in IdsOf(t.hosts) /\ h.id \in RowIds
  BY TablesMade DEF Sound, IdsOf, HostRows
<1>2. NamesOf(t.schedules) \subseteq Names /\ NamesOf(t.channels) \subseteq Names
  BY <1>1, TablesMade DEF NamesOf, Entry, ChannelRows
<1>3. ASSUME names \subseteq NamesOf(t.schedules)
      PROVE  Sound([t EXCEPT !.hs = {l \in t.hs : l[1] # h.id} \cup ({h.id} \X names)])
  <2> DEFINE y == {l \in t.hs : l[1] # h.id} \cup ({h.id} \X names)
  <2>1. t.hs \subseteq (IdsOf(t.hosts) \X NamesOf(t.schedules)) /\ t.hs \in SUBSET Links
    BY <1>1, TablesMade DEF Sound, Consistent
  <2>2. y \subseteq (IdsOf(t.hosts) \X NamesOf(t.schedules))
    BY <1>1, <1>3, <2>1
  <2>3. y \in SUBSET Links
    BY <1>1, <1>2, <1>3, <2>1 DEF Links
  <2>4. t.schedules \in SUBSET Entry /\ DistinctNames(t.schedules)
    BY <1>1, TablesMade DEF Sound, Consistent
  <2> HIDE DEF y
  <2>5. Sound([t EXCEPT !.schedules = t.schedules, !.hs = y])
    BY <2>2, <2>3, <2>4, SchedulesEdited
  <2>6. [t EXCEPT !.schedules = t.schedules, !.hs = y] = [t EXCEPT !.hs = y]
    BY <1>1 DEF Tables
  <2> QED BY <2>5, <2>6 DEF y
<1>4. ASSUME names \subseteq NamesOf(t.channels)
      PROVE  Sound([t EXCEPT !.hc = {l \in t.hc : l[1] # h.id} \cup ({h.id} \X names)])
  <2> DEFINE y == {l \in t.hc : l[1] # h.id} \cup ({h.id} \X names)
  <2>1. t.hc \subseteq (IdsOf(t.hosts) \X NamesOf(t.channels)) /\ t.hc \in SUBSET Links
    BY <1>1, TablesMade DEF Sound, Consistent
  <2>2. y \subseteq (IdsOf(t.hosts) \X NamesOf(t.channels))
    BY <1>1, <1>4, <2>1
  <2>3. y \in SUBSET Links
    BY <1>1, <1>2, <1>4, <2>1 DEF Links
  <2>4. t.channels \in SUBSET ChannelRows /\ DistinctNames(t.channels) /\ \A c \in t.channels : c.needs => c.config = NoConfig
    BY <1>1, TablesMade DEF Sound, Consistent
  <2> HIDE DEF y
  <2>5. Sound([t EXCEPT !.channels = t.channels, !.hc = y])
    BY <2>2, <2>3, <2>4, ChannelsEdited
  <2>6. [t EXCEPT !.channels = t.channels, !.hc = y] = [t EXCEPT !.hc = y]
    BY <1>1 DEF Tables
  <2> QED BY <2>5, <2>6 DEF y
<1> QED BY <1>3, <1>4

\* Links follow a row to its new name, and go with a row that is deleted.
LEMMA LinksFollow ==
    ASSUME NEW ids \in SUBSET RowIds, NEW ns \in SUBSET Names, NEW links, links \subseteq ids \X ns,
           NEW old, NEW new \in Names
    PROVE  LET moved == (ns \ {old}) \cup {new} IN
           /\ Relinked(links, old, new) \in SUBSET Links /\ Relinked(links, old, new) \subseteq ids \X moved
           /\ Unlinked(links, old) \in SUBSET Links /\ Unlinked(links, old) \subseteq ids \X (ns \ {old})
<1> DEFINE moved == (ns \ {old}) \cup {new}
<1>1. ASSUME NEW l \in links
      PROVE  LET k == IF l[2] = old THEN <<l[1], new>> ELSE l IN k \in ids \X moved /\ k \in Links
  <2>1. PICK i \in ids, n \in ns : l = <<i, n>>
    OBVIOUS
  <2> QED BY <2>1 DEF Links
<1>2. ASSUME NEW l \in links, l[2] # old PROVE l \in Links /\ l \in ids \X (ns \ {old})
  <2>1. PICK i \in ids, n \in ns : l = <<i, n>>
    OBVIOUS
  <2> QED BY <1>2, <2>1 DEF Links
<1> QED BY <1>1, <1>2 DEF Relinked, Unlinked

\* A row added, changed or taken away, where names are unique.
LEMMA RowsEdited ==
    ASSUME NEW rows, DistinctNames(rows), NEW r, NEW new
    PROVE  /\ DistinctNames(rows \ {r})
           /\ Named(rows \ {r}, new.name) = {} => DistinctNames((rows \ {r}) \cup {new})
           /\ Named(rows, new.name) = {} => DistinctNames(rows \cup {new})
           /\ r \in rows => NamesOf(rows) \ {r.name} = NamesOf(rows \ {r})
BY DEF DistinctNames, NamesOf, Named

\* A row brings its name.
LEMMA NamesAdded ==
    ASSUME NEW rows, NEW new
    PROVE  NamesOf(rows \cup {new}) = NamesOf(rows) \cup {new.name}
BY DEF NamesOf

\* The links that Consistent speaks of are those of rows.
LEMMA LinksMade ==
    ASSUME NEW t, Sound(t)
    PROVE  /\ t \in Tables /\ IdsOf(t.hosts) \in SUBSET RowIds
           /\ NamesOf(t.schedules) \in SUBSET Names /\ NamesOf(t.channels) \in SUBSET Names
           /\ t.hs \subseteq (IdsOf(t.hosts) \X NamesOf(t.schedules)) /\ t.hs \in SUBSET Links
           /\ t.hc \subseteq (IdsOf(t.hosts) \X NamesOf(t.channels)) /\ t.hc \in SUBSET Links
           /\ t.schedules \in SUBSET Entry /\ DistinctNames(t.schedules)
           /\ t.channels \in SUBSET ChannelRows /\ DistinctNames(t.channels)
           /\ \A c \in t.channels : c.needs => c.config = NoConfig
<1>1. /\ t \in Tables /\ DistinctNames(t.schedules) /\ DistinctNames(t.channels)
      /\ t.hs \subseteq (IdsOf(t.hosts) \X NamesOf(t.schedules))
      /\ t.hc \subseteq (IdsOf(t.hosts) \X NamesOf(t.channels))
      /\ \A c \in t.channels : c.needs => c.config = NoConfig
  BY DEF Sound, Consistent
<1>2. IdsOf(t.hosts) \in SUBSET RowIds
  BY <1>1, TablesMade DEF IdsOf, HostRows
<1>3. NamesOf(t.schedules) \in SUBSET Names /\ NamesOf(t.channels) \in SUBSET Names
  BY <1>1, TablesMade DEF NamesOf, Entry, ChannelRows
<1>4. /\ t.hs \in SUBSET Links /\ t.hc \in SUBSET Links
      /\ t.schedules \in SUBSET Entry /\ t.channels \in SUBSET ChannelRows
  BY <1>1, TablesMade
<1> QED BY <1>1, <1>2, <1>3, <1>4

\* What an edit makes of sound tables.
EditSound == \E tables : Edit(tables) /\ Sound(tables)

\* A schedule renamed or deleted takes its links along.
LEMMA ScheduleEdits ==
    ASSUME Sound(db), NEW n \in Names, NEW v \in Values, NEW s \in db.schedules
    PROVE  /\ UpdateSchedule(s, n, v) => EditSound
           /\ DeleteSchedule(s) => EditSound
<1> DEFINE x == (db.schedules \ {s}) \cup {[name |-> n, value |-> v]}
           y == Relinked(db.hs, s.name, n)
           z == Unlinked(db.hs, s.name)
           w == db.schedules \ {s}
<1>1. /\ IdsOf(db.hosts) \in SUBSET RowIds /\ NamesOf(db.schedules) \in SUBSET Names
      /\ db.hs \subseteq (IdsOf(db.hosts) \X NamesOf(db.schedules))
      /\ db.schedules \in SUBSET Entry /\ DistinctNames(db.schedules)
  BY LinksMade
<1>2. [name |-> n, value |-> v] \in Entry
  BY DEF Entry
<1>3. NamesOf(x) = (NamesOf(db.schedules) \ {s.name}) \cup {n} /\ NamesOf(w) = NamesOf(db.schedules) \ {s.name}
  <2> DEFINE e == [name |-> n, value |-> v]
  <2>1. e.name = n
    OBVIOUS
  <2>2. NamesOf(w) = NamesOf(db.schedules) \ {s.name}
    BY <1>1, RowsEdited
  <2> HIDE DEF e, w
  <2>3. NamesOf(w \cup {e}) = NamesOf(w) \cup {e.name}
    BY NamesAdded
  <2> QED BY <2>1, <2>2, <2>3 DEF e, w
<1>4. ASSUME Named(w, n) = {} PROVE DistinctNames(x)
  <2> DEFINE e == [name |-> n, value |-> v]
  <2>1. e.name = n
    OBVIOUS
  <2> HIDE DEF e
  <2> QED BY <1>1, <1>4, <2>1, RowsEdited DEF e
<1>5. DistinctNames(w)
  BY <1>1, RowsEdited
<1>6. y \in SUBSET Links /\ y \subseteq IdsOf(db.hosts) \X NamesOf(x)
  BY <1>1, <1>3, LinksFollow
<1>7. z \in SUBSET Links /\ z \subseteq IdsOf(db.hosts) \X NamesOf(w)
  BY <1>1, <1>3, LinksFollow
<1>8. x \in SUBSET Entry /\ w \in SUBSET Entry
  BY <1>1, <1>2
<1>9. ASSUME UpdateSchedule(s, n, v) PROVE EditSound
  <2>1. Named(w, n) = {} /\ Edit([db EXCEPT !.schedules = x, !.hs = y])
    BY <1>9 DEF UpdateSchedule
  <2> HIDE DEF x, y
  <2>2. Sound([db EXCEPT !.schedules = x, !.hs = y])
    BY <1>4, <1>6, <1>8, <2>1, SchedulesEdited
  <2> QED BY <2>1, <2>2 DEF EditSound
<1>10. ASSUME DeleteSchedule(s) PROVE EditSound
  <2>1. Edit([db EXCEPT !.schedules = w, !.hs = z])
    BY <1>10 DEF DeleteSchedule
  <2> HIDE DEF w, z
  <2>2. Sound([db EXCEPT !.schedules = w, !.hs = z])
    BY <1>5, <1>7, <1>8, SchedulesEdited
  <2> QED BY <2>1, <2>2 DEF EditSound
<1> QED BY <1>9, <1>10

\* A new schedule has a new name and no links.
LEMMA ScheduleCreated ==
    ASSUME Sound(db), NEW n \in Names, NEW v \in Values, CreateSchedule(n, v)
    PROVE  EditSound
<1> DEFINE e == [name |-> n, value |-> v]
           x == db.schedules \cup {e}
<1>1. /\ db \in Tables /\ db.schedules \in SUBSET Entry /\ DistinctNames(db.schedules)
      /\ db.hs \subseteq (IdsOf(db.hosts) \X NamesOf(db.schedules)) /\ db.hs \in SUBSET Links
  BY LinksMade
<1>2. e \in Entry /\ e.name = n
  BY DEF Entry
<1>3. Named(db.schedules, n) = {} /\ Edit([db EXCEPT !.schedules = x])
  BY DEF CreateSchedule
<1> HIDE DEF e
<1>4. DistinctNames(x) /\ NamesOf(db.schedules) \subseteq NamesOf(x)
  BY <1>1, <1>2, <1>3, RowsEdited, NamesAdded
<1>5. x \in SUBSET Entry /\ db.hs \subseteq (IdsOf(db.hosts) \X NamesOf(x))
  BY <1>1, <1>2, <1>4
<1> HIDE DEF x
<1>6. Sound([db EXCEPT !.schedules = x, !.hs = db.hs])
  BY <1>1, <1>4, <1>5, SchedulesEdited
<1>7. [db EXCEPT !.schedules = x, !.hs = db.hs] = [db EXCEPT !.schedules = x]
  BY <1>1 DEF Tables
<1> QED BY <1>3, <1>6, <1>7 DEF EditSound

\* What is entered for a channel.
LEMMA ChannelEntered ==
    ASSUME NEW n \in Names, NEW on \in BOOLEAN, NEW secret \in Secrets
    PROVE  LET e == [name |-> n, on |-> on, needs |-> FALSE, config |-> Entered(secret)] IN
           e \in ChannelRows /\ e.name = n /\ ~e.needs
<1>1. Entered(secret) \in Ciphers
  BY BundleAssumption DEF Entered, Ciphers
<1> QED BY <1>1 DEF ChannelRows

\* A new channel has a new name and no links.
LEMMA ChannelCreated ==
    ASSUME Sound(db), NEW n \in Names, NEW on \in BOOLEAN, NEW secret \in Secrets, CreateChannel(n, on, secret)
    PROVE  EditSound
<1> DEFINE e == [name |-> n, on |-> on, needs |-> FALSE, config |-> Entered(secret)]
           x == db.channels \cup {e}
<1>1. /\ db \in Tables /\ db.channels \in SUBSET ChannelRows /\ DistinctNames(db.channels)
      /\ db.hc \subseteq (IdsOf(db.hosts) \X NamesOf(db.channels)) /\ db.hc \in SUBSET Links
      /\ \A c \in db.channels : c.needs => c.config = NoConfig
  BY LinksMade
<1>2. e \in ChannelRows /\ e.name = n /\ ~e.needs
  BY ChannelEntered
<1>3. Named(db.channels, n) = {} /\ Edit([db EXCEPT !.channels = x])
  BY DEF CreateChannel
<1> HIDE DEF e
<1>4. DistinctNames(x) /\ NamesOf(db.channels) \subseteq NamesOf(x)
  BY <1>1, <1>2, <1>3, RowsEdited, NamesAdded
<1>5. x \in SUBSET ChannelRows /\ db.hc \subseteq (IdsOf(db.hosts) \X NamesOf(x))
  BY <1>1, <1>2, <1>4
<1>6. \A c \in x : c.needs => c.config = NoConfig
  BY <1>1, <1>2
<1> HIDE DEF x
<1>7. Sound([db EXCEPT !.channels = x, !.hc = db.hc])
  BY <1>1, <1>4, <1>5, <1>6, ChannelsEdited
<1>8. [db EXCEPT !.channels = x, !.hc = db.hc] = [db EXCEPT !.channels = x]
  BY <1>1 DEF Tables
<1> QED BY <1>3, <1>7, <1>8 DEF EditSound

\* A channel deleted takes its links along.
LEMMA ChannelDeleted == ASSUME Sound(db), NEW c \in db.channels, DeleteChannel(c) PROVE EditSound
<1> DEFINE z == Unlinked(db.hc, c.name)
           w == db.channels \ {c}
<1>1. /\ db.channels \in SUBSET ChannelRows /\ DistinctNames(db.channels)
      /\ \A k \in db.channels : k.needs => k.config = NoConfig
  BY LinksMade
<1>2. NamesOf(w) = NamesOf(db.channels) \ {c.name} /\ DistinctNames(w)
  BY <1>1, RowsEdited
<1>3. w \in SUBSET ChannelRows /\ \A k \in w : k.needs => k.config = NoConfig
  BY <1>1
<1>4. z \in SUBSET Links /\ z \subseteq IdsOf(db.hosts) \X NamesOf(w)
  <2>1. /\ IdsOf(db.hosts) \in SUBSET RowIds /\ NamesOf(db.channels) \in SUBSET Names
        /\ db.hc \subseteq (IdsOf(db.hosts) \X NamesOf(db.channels))
    BY LinksMade
  <2>2. \E n : n \in Names
    <3>1. c.name \in Names
      BY <1>1 DEF ChannelRows
    <3> QED BY <3>1
  <2>3. z \in SUBSET Links /\ z \subseteq IdsOf(db.hosts) \X (NamesOf(db.channels) \ {c.name})
    BY <2>1, <2>2, LinksFollow
  <2> QED BY <1>2, <2>3
<1>5. Edit([db EXCEPT !.channels = w, !.hc = z])
  BY DEF DeleteChannel
<1> HIDE DEF w, z
<1>6. Sound([db EXCEPT !.channels = w, !.hc = z])
  BY <1>2, <1>3, <1>4, ChannelsEdited
<1> QED BY <1>5, <1>6 DEF EditSound

\* A channel renamed takes its links along, with its configuration or a new one.
LEMMA ChannelUpdated ==
    ASSUME Sound(db), NEW n \in Names, NEW on \in BOOLEAN, NEW secret \in Secrets, NEW c \in db.channels,
           UpdateChannel(c, n, on, secret)
    PROVE  EditSound
<1> DEFINE y == Relinked(db.hc, c.name, n)
           w == db.channels \ {c}
           same == [c EXCEPT !.name = n, !.on = on]
           fresh == [name |-> n, on |-> on, needs |-> FALSE, config |-> Entered(secret)]
<1>1. /\ db.channels \in SUBSET ChannelRows /\ DistinctNames(db.channels)
      /\ \A k \in db.channels : k.needs => k.config = NoConfig
  BY LinksMade
<1>2. same \in ChannelRows /\ same.name = n /\ (same.needs => same.config = NoConfig)
  BY <1>1 DEF ChannelRows
<1>3. fresh \in ChannelRows /\ fresh.name = n /\ ~fresh.needs
  BY ChannelEntered
<1>4. Named(w, n) = {}
  BY DEF UpdateChannel
<1>5. PICK new \in {same, fresh} : Edit([db EXCEPT !.channels = w \cup {new}, !.hc = y])
  BY DEF UpdateChannel
<1> HIDE DEF same, fresh
<1>6. new \in ChannelRows /\ new.name = n /\ (new.needs => new.config = NoConfig)
  BY <1>2, <1>3
<1> DEFINE x == w \cup {new}
<1>7. DistinctNames(x)
  BY <1>1, <1>4, <1>6, RowsEdited
<1>8. NamesOf(x) = (NamesOf(db.channels) \ {c.name}) \cup {n}
  <2>1. NamesOf(w \cup {new}) = NamesOf(w) \cup {new.name}
    BY NamesAdded
  <2>2. NamesOf(w) = NamesOf(db.channels) \ {c.name}
    BY <1>1, RowsEdited
  <2> QED BY <1>6, <2>1, <2>2
<1>9. x \in SUBSET ChannelRows /\ \A k \in x : k.needs => k.config = NoConfig
  BY <1>1, <1>6
<1> HIDE DEF x
<1>10. y \in SUBSET Links /\ y \subseteq IdsOf(db.hosts) \X NamesOf(x)
  <2>1. /\ IdsOf(db.hosts) \in SUBSET RowIds /\ NamesOf(db.channels) \in SUBSET Names
        /\ db.hc \subseteq (IdsOf(db.hosts) \X NamesOf(db.channels))
    BY LinksMade
  <2>2. /\ y \in SUBSET Links
        /\ y \subseteq IdsOf(db.hosts) \X ((NamesOf(db.channels) \ {c.name}) \cup {n})
    BY <2>1, LinksFollow
  <2> QED BY <1>8, <2>2
<1> HIDE DEF y
<1>11. Sound([db EXCEPT !.channels = x, !.hc = y])
  BY <1>7, <1>9, <1>10, ChannelsEdited
<1> QED BY <1>5, <1>11 DEF EditSound, x

\* What Sound says of the tables with row ids.
LEMMA HostsMade ==
    ASSUME NEW t, Sound(t)
    PROVE  /\ t.hosts \in SUBSET HostRows /\ IsFiniteSet(t.hosts) /\ DistinctIds(t.hosts) /\ DistinctNames(t.hosts)
           /\ t.rules \in SUBSET RuleRows /\ IsFiniteSet(t.rules) /\ DistinctIds(t.rules)
           /\ \A h \in t.hosts : h.id \in RowIds
           /\ \A r \in t.rules : r.id \in RowIds /\ r.host \in IdsOf(t.hosts) \cup {Global}
           /\ IdsOf(t.hosts) \cup {Global} \subseteq Nat
<1>1. /\ t \in Tables /\ IsFiniteSet(t.hosts) /\ DistinctIds(t.hosts) /\ DistinctNames(t.hosts)
      /\ IsFiniteSet(t.rules) /\ DistinctIds(t.rules)
      /\ \A r \in t.rules : r.host \in IdsOf(t.hosts) \cup {Global}
  BY DEF Sound, Consistent
<1>2. t.hosts \in SUBSET HostRows /\ t.rules \in SUBSET RuleRows
  BY <1>1, TablesMade
<1>3. (\A h \in t.hosts : h.id \in RowIds) /\ (\A r \in t.rules : r.id \in RowIds)
  BY <1>2 DEF HostRows, RuleRows
<1>4. IdsOf(t.hosts) \cup {Global} \subseteq Nat
  BY <1>3 DEF IdsOf, RowIds, Global
<1> QED BY <1>1, <1>2, <1>3, <1>4

\* A row added under an id of its own, or changed under the one it has.
LEMMA IdsEdited ==
    ASSUME NEW rows, IsFiniteSet(rows), DistinctIds(rows), NEW r, NEW new
    PROVE  /\ DistinctIds(rows \ {r}) /\ IsFiniteSet(rows \ {r})
           /\ IsFiniteSet(rows \cup {new}) /\ IsFiniteSet((rows \ {r}) \cup {new})
           /\ (\A q \in rows : q.id # new.id) => DistinctIds(rows \cup {new})
           /\ r \in rows /\ new.id = r.id => /\ DistinctIds((rows \ {r}) \cup {new})
                                             /\ IdsOf((rows \ {r}) \cup {new}) = IdsOf(rows)
<1>1. IsFiniteSet(rows \ {r})
  BY FS_RemoveElement
<1>2. IsFiniteSet(rows \cup {new}) /\ IsFiniteSet((rows \ {r}) \cup {new})
  BY <1>1, FS_AddElement
<1>3. DistinctIds(rows \ {r})
  BY DEF DistinctIds
<1>4. ASSUME \A q \in rows : q.id # new.id PROVE DistinctIds(rows \cup {new})
  BY <1>4 DEF DistinctIds
<1>5. ASSUME r \in rows, new.id = r.id
      PROVE  /\ DistinctIds((rows \ {r}) \cup {new})
             /\ IdsOf((rows \ {r}) \cup {new}) = IdsOf(rows)
  BY <1>5 DEF DistinctIds, IdsOf
<1> QED BY <1>1, <1>2, <1>3, <1>4, <1>5

\* Hosts created, renamed and deleted through the API.
LEMMA HostEdits ==
    ASSUME Sound(db), NEW n \in Names, NEW v \in Values
    PROVE  /\ CreateHost(n, v) => EditSound
           /\ \A h \in db.hosts : UpdateHost(h, n, v) => EditSound
           /\ \A h \in db.hosts : DeleteHost(h) => EditSound
<1>1. /\ db.hosts \in SUBSET HostRows /\ IsFiniteSet(db.hosts) /\ DistinctIds(db.hosts) /\ DistinctNames(db.hosts)
      /\ \A h \in db.hosts : h.id \in RowIds
  BY HostsMade
<1>2. ASSUME CreateHost(n, v) PROVE EditSound
  <2> DEFINE new == [id |-> NextId(db.hosts), name |-> n, value |-> v]
             x == db.hosts \cup {new}
  <2>1. NextId(db.hosts) \in RowIds /\ \A h \in db.hosts : h.id < NextId(db.hosts)
    BY <1>1, NextIdIsFresh
  <2>2. \A h \in db.hosts : h.id # NextId(db.hosts)
    BY <1>1, <2>1 DEF RowIds
  <2>3. new \in HostRows /\ new.name = n /\ \A h \in db.hosts : h.id # new.id
    BY <2>1, <2>2 DEF HostRows
  <2>4. Named(db.hosts, n) = {} /\ Edit([db EXCEPT !.hosts = x])
    BY <1>2 DEF CreateHost
  <2> HIDE DEF new
  <2>5. DistinctIds(x) /\ IsFiniteSet(x)
    BY <1>1, <2>3, IdsEdited
  <2>6. DistinctNames(x)
    BY <1>1, <2>3, <2>4, RowsEdited
  <2>7. x \in SUBSET HostRows /\ IdsOf(db.hosts) \subseteq IdsOf(x)
    BY <1>1, <2>3 DEF IdsOf
  <2> HIDE DEF x
  <2> QED BY <2>4, <2>5, <2>6, <2>7, HostsEdited DEF EditSound
<1>3. ASSUME NEW h \in db.hosts, UpdateHost(h, n, v) PROVE EditSound
  <2> DEFINE new == [h EXCEPT !.name = n, !.value = v]
             x == (db.hosts \ {h}) \cup {new}
  <2>1. new \in HostRows /\ new.name = n /\ new.id = h.id
    BY <1>1 DEF HostRows
  <2>2. Named(db.hosts \ {h}, n) = {} /\ Edit([db EXCEPT !.hosts = x])
    BY <1>3 DEF UpdateHost
  <2> HIDE DEF new
  <2>3. DistinctIds(x) /\ IsFiniteSet(x) /\ IdsOf(x) = IdsOf(db.hosts)
    BY <1>1, <2>1, IdsEdited
  <2>4. DistinctNames(x)
    BY <1>1, <2>1, <2>2, RowsEdited
  <2>5. x \in SUBSET HostRows
    BY <1>1, <2>1
  <2> HIDE DEF x
  <2> QED BY <2>2, <2>3, <2>4, <2>5, HostsEdited DEF EditSound
<1>4. ASSUME NEW h \in db.hosts, DeleteHost(h) PROVE EditSound
  <2> DEFINE u == [db EXCEPT !.hosts = db.hosts \ {h}, !.rules = {r \in db.rules : r.host # h.id},
                             !.hs = {l \in db.hs : l[1] # h.id}, !.hc = {l \in db.hc : l[1] # h.id}]
  <2>1. Edit(u)
    BY <1>4 DEF DeleteHost
  <2>2. Sound(u)
    BY HostDeleted
  <2> HIDE DEF u
  <2> QED BY <2>1, <2>2 DEF EditSound
<1> QED BY <1>2, <1>3, <1>4

\* Rules created, changed and deleted through the API.
LEMMA RuleEdits ==
    ASSUME Sound(db), NEW n \in Names, NEW v \in Values, NEW host \in HostIds
    PROVE  /\ CreateRule(n, v, host) => EditSound
           /\ \A r \in db.rules : UpdateRule(r, n, v, host) => EditSound
           /\ \A r \in db.rules : DeleteRule(r) => EditSound
<1>1. /\ db.rules \in SUBSET RuleRows /\ IsFiniteSet(db.rules) /\ DistinctIds(db.rules)
      /\ \A r \in db.rules : r.id \in RowIds
  BY HostsMade
<1>2. \A r \in db.rules : r.host \in IdsOf(db.hosts) \cup {Global}
  BY HostsMade
<1>3. host \in IdsOf(db.hosts) \cup {Global} /\ host \in Nat
  BY HostsMade DEF HostIds
<1>4. ASSUME CreateRule(n, v, host) PROVE EditSound
  <2> DEFINE new == [id |-> NextId(db.rules), name |-> n, value |-> v, host |-> host]
             x == db.rules \cup {new}
  <2>1. NextId(db.rules) \in RowIds /\ \A r \in db.rules : r.id < NextId(db.rules)
    BY <1>1, NextIdIsFresh
  <2>2. \A r \in db.rules : r.id # NextId(db.rules)
    BY <1>1, <2>1 DEF RowIds
  <2>3. new \in RuleRows /\ new.host = host /\ \A r \in db.rules : r.id # new.id
    BY <1>3, <2>1, <2>2 DEF RuleRows
  <2>4. Edit([db EXCEPT !.rules = x])
    BY <1>4 DEF CreateRule
  <2> HIDE DEF new
  <2>5. DistinctIds(x) /\ IsFiniteSet(x)
    BY <1>1, <2>3, IdsEdited
  <2>6. x \in SUBSET RuleRows /\ \A r \in x : r.host \in IdsOf(db.hosts) \cup {Global}
    BY <1>1, <1>2, <1>3, <2>3
  <2> HIDE DEF x
  <2> QED BY <2>4, <2>5, <2>6, RulesEdited DEF EditSound
<1>5. ASSUME NEW r \in db.rules, UpdateRule(r, n, v, host) PROVE EditSound
  <2> DEFINE new == [r EXCEPT !.name = n, !.value = v, !.host = host]
             x == (db.rules \ {r}) \cup {new}
  <2>1. new \in RuleRows /\ new.host = host /\ new.id = r.id
    BY <1>1, <1>3 DEF RuleRows
  <2>2. Edit([db EXCEPT !.rules = x])
    BY <1>5 DEF UpdateRule
  <2> HIDE DEF new
  <2>3. DistinctIds(x) /\ IsFiniteSet(x)
    BY <1>1, <2>1, IdsEdited
  <2>4. x \in SUBSET RuleRows /\ \A q \in x : q.host \in IdsOf(db.hosts) \cup {Global}
    BY <1>1, <1>2, <1>3, <2>1
  <2> HIDE DEF x
  <2> QED BY <2>2, <2>3, <2>4, RulesEdited DEF EditSound
<1>6. ASSUME NEW r \in db.rules, DeleteRule(r) PROVE EditSound
  <2> DEFINE x == db.rules \ {r}
  <2>1. x \in SUBSET RuleRows /\ IsFiniteSet(x) /\ DistinctIds(x)
    BY <1>1, IdsEdited
  <2>2. \A q \in x : q.host \in IdsOf(db.hosts) \cup {Global}
    BY <1>2
  <2>3. Edit([db EXCEPT !.rules = x])
    BY <1>6 DEF DeleteRule
  <2> HIDE DEF x
  <2> QED BY <2>1, <2>2, <2>3, RulesEdited DEF EditSound
<1> QED BY <1>4, <1>5, <1>6

\* The links of a host, set through the API.
LEMMA LinkEdits ==
    ASSUME Sound(db), NEW h \in db.hosts
    PROVE  /\ \A names \in SUBSET NamesOf(db.schedules) : SetHostSchedules(h, names) => EditSound
           /\ \A names \in SUBSET NamesOf(db.channels) : SetHostChannels(h, names) => EditSound
BY LinksEdited DEF SetHostSchedules, SetHostChannels, EditSound

\* Whatever the API changes, the tables stay sound.
LEMMA EditsAreSound == ASSUME Sound(db), EditStep PROVE EditSound
<1> USE BundleAssumption
<1>1. ASSUME NEW n \in Names, NEW v \in Entries, CreateHost(n, v) \/ CreateSchedule(n, v) PROVE EditSound
  BY <1>1, HostEdits, ScheduleCreated
<1>2. ASSUME NEW n \in Names, NEW v \in Entries, NEW h \in db.hosts, UpdateHost(h, n, v) PROVE EditSound
  BY <1>2, HostEdits
<1>3. ASSUME NEW n \in Names, NEW v \in Entries, NEW s \in db.schedules, UpdateSchedule(s, n, v) PROVE EditSound
  BY <1>3, ScheduleEdits
<1>4. ASSUME NEW n \in Names, NEW v \in Entries, NEW host \in HostIds,
             CreateRule(n, v, host) \/ \E r \in db.rules : UpdateRule(r, n, v, host)
      PROVE  EditSound
  BY <1>4, RuleEdits
<1>5. ASSUME NEW n \in Names, NEW on \in BOOLEAN, NEW secret \in Secrets, CreateChannel(n, on, secret)
      PROVE  EditSound
  BY <1>5, ChannelCreated
<1>6. ASSUME NEW n \in Names, NEW on \in BOOLEAN, NEW secret \in Secrets, NEW c \in db.channels,
             UpdateChannel(c, n, on, secret)
      PROVE  EditSound
  BY <1>6, ChannelUpdated
<1>7. ASSUME NEW h \in db.hosts, DeleteHost(h) PROVE EditSound
  BY <1>7, HostEdits, HostsMade DEF HostRows
<1>8. ASSUME NEW s \in db.schedules, DeleteSchedule(s) PROVE EditSound
  BY <1>8, ScheduleEdits, LinksMade DEF Entry
<1>9. ASSUME NEW c \in db.channels, DeleteChannel(c) PROVE EditSound
  BY <1>9, ChannelDeleted
<1>10. ASSUME NEW r \in db.rules, DeleteRule(r) PROVE EditSound
  <2>1. r.name \in Names /\ r.value \in Values /\ Global \in HostIds
    <3>1. db.rules \in SUBSET RuleRows
      BY HostsMade
    <3> QED BY <3>1 DEF RuleRows, HostIds
  <2> QED BY <1>10, <2>1, RuleEdits
<1> QED
  BY <1>1, <1>2, <1>3, <1>4, <1>5, <1>6, <1>7, <1>8, <1>9, <1>10, LinkEdits DEF EditStep

\* A document that can be imported here has configurations that can be read.
Ours(d) == Honest(d) /\ (d.mode = "instance_key" => d.key = Key)

\* What Export has put together so far: channels only once they were read.
ExportOK ==
    /\ {"pc", "mode", "part"} \subseteq DOMAIN export
    /\ export.pc # "none" =>
          /\ {"mode", "key", "channels"} \subseteq DOMAIN export.part
          /\ export.part.mode = export.mode /\ Honest(export.part)

\* What the open transaction would commit.
ImportOK ==
    /\ {"pc", "from", "tx"} \subseteq DOMAIN import
    /\ import.pc # "none" => Readable(import.tx) /\ Ours(import.from)

BInv ==
    /\ Readable(db) /\ ExportOK /\ ImportOK
    /\ doc # NoDocument => Honest(doc)

-----------------------------------------------------------------------------
(* Import.                                                                 *)

\* What resolveChannels hands to the transaction.
LEMMA ReceivedIsReadable ==
    ASSUME NEW d, Ours(d), NEW c \in d.channels
    PROVE  "config" \in DOMAIN Received(c, d.mode) /\ Received(c, d.mode).config \in Configs
<1>1. CASE d.mode = "none"
  BY <1>1 DEF Received, Configs
<1>2. CASE d.mode = "instance_key"
  BY <1>2 DEF Received, Ours, Honest
<1>3. CASE d.mode = "passphrase"
  <2>1. c.cipher \in [key : {"passphrase"}, secret : Secrets]
    BY <1>3 DEF Ours, Honest
  <2>2. [c.cipher EXCEPT !.key = Key] \in [key : {Key}, secret : Secrets]
    BY <2>1
  <2> QED BY <1>3, <2>2 DEF Received, Configs
<1> QED BY <1>1, <1>2, <1>3 DEF Ours, Honest, Modes

\* No stage of the transaction but the one for channels writes one.
LEMMA StagesReadable ==
    ASSUME NEW t, NEW d, Readable(t), Ours(d)
    PROVE  /\ Readable(Wiped(t)) /\ Readable(WithHosts(t, d)) /\ Readable(WithSchedules(t, d))
           /\ Readable(WithChannels(t, d)) /\ Readable(WithRules(t, d)) /\ Readable(WithLinks(t, d))
<1>1. Readable(Wiped(t))
  BY DEF Readable, Wiped
<1>2. \A x : Readable([t EXCEPT !.hosts = x])
  BY DEF Readable
<1>3. \A x : Readable([t EXCEPT !.schedules = x])
  BY DEF Readable
<1>4. \A x : Readable([t EXCEPT !.rules = x])
  BY DEF Readable
<1>5. Readable(WithLinks(t, d))
  BY DEF Readable, WithLinks
<1>6. Readable(WithChannels(t, d))
  <2> DEFINE new == {Received(c, d.mode) : c \in d.channels}
             cs == Upserted(t.channels, new)
  <2>1. \A c \in cs : "config" \in DOMAIN c /\ c.config \in Configs
    <3>1. \A c \in cs : c \in t.channels \/ \E e \in d.channels : c = Received(e, d.mode)
      BY DEF Upserted
    <3> QED BY <3>1, ReceivedIsReadable DEF Readable
  <2>2. WithChannels(t, d) = [t EXCEPT !.channels = cs]
    BY DEF WithChannels
  <2> HIDE DEF cs
  <2> QED BY <2>1, <2>2 DEF Readable
<1>7. Readable(WithHosts(t, d))
  BY <1>2 DEF WithHosts
<1>8. Readable(WithSchedules(t, d))
  BY <1>3 DEF WithSchedules
<1>9. Readable(WithRules(t, d))
  BY <1>4 DEF WithRules
<1> QED BY <1>1, <1>5, <1>6, <1>7, <1>8, <1>9

-----------------------------------------------------------------------------
(* Export.                                                                 *)

\* What a channel's configuration looks like in a document.
LEMMA CarriedIsHonest ==
    ASSUME NEW c, c.config \in Configs
    PROVE  /\ Carried(c, "instance_key") \in Configs
           /\ Decryptable(c) => Carried(c, "passphrase") \in [key : {"passphrase"}, secret : Secrets]
<1>1. Carried(c, "instance_key") \in Configs
  BY DEF Carried
<1>2. ASSUME Decryptable(c) PROVE Carried(c, "passphrase") \in [key : {"passphrase"}, secret : Secrets]
  <2>1. c.config # NoConfig
    <3>1. c.config.key # "" /\ NoConfig.key = ""
      BY <1>2, BundleAssumption DEF Decryptable, NoConfig
    <3> QED BY <3>1
  <2>2. c.config \in [key : {Key}, secret : Secrets]
    BY <2>1 DEF Configs
  <2> QED BY <2>2 DEF Carried
<1> QED BY <1>1, <1>2

\* Every step of an export leaves a document that is honest.
LEMMA ExportKeeps == BInv /\ ExportStep => BInv'
<1> SUFFICES ASSUME BInv, ExportStep PROVE BInv'
  OBVIOUS
<1> USE DEF BInv
<1>1. ASSUME UNCHANGED <<db, import, doc>>, ExportOK' PROVE BInv'
  BY <1>1 DEF ImportOK
<1>2. ASSUME NEW mode \in Modes, ListHosts(mode) PROVE ExportOK'
  <2> DEFINE part == Begun(mode)
  <2>1. {"mode", "key", "channels"} \subseteq DOMAIN part /\ part.mode = mode /\ part.channels = {}
    BY DEF Begun
  <2>2. export'.mode = mode /\ export'.part = part /\ {"pc", "mode", "part"} \subseteq DOMAIN export'
    BY <1>2 DEF ListHosts
  <2> HIDE DEF part
  <2> QED BY <2>1, <2>2 DEF ExportOK, Honest
<1>3. ASSUME SchedulesForHost \/ ChannelsForHost \/ ListSchedules PROVE ExportOK'
  <2>1. /\ export.pc # "none" /\ {"pc", "mode", "part"} \subseteq DOMAIN export
        /\ {"mode", "key", "channels"} \subseteq DOMAIN export.part
        /\ export.part.mode = export.mode /\ Honest(export.part)
    BY <1>3 DEF ExportOK, SchedulesForHost, ChannelsForHost, ListSchedules
  <2>2. /\ {"pc", "mode", "part"} \subseteq DOMAIN export' /\ export'.mode = export.mode
        /\ {"mode", "key", "channels"} \subseteq DOMAIN export'.part
        /\ export'.part.mode = export.part.mode /\ export'.part.channels = export.part.channels
        /\ export'.part.key = export.part.key
    <3> DEFINE Same(e) == /\ {"pc", "mode", "part"} \subseteq DOMAIN e /\ e.mode = export.mode
                          /\ {"mode", "key", "channels"} \subseteq DOMAIN e.part
                          /\ e.part.mode = export.part.mode /\ e.part.channels = export.part.channels
                          /\ e.part.key = export.part.key
    <3>1. \A pc, x : Same([export EXCEPT !.pc = pc, !.part.hs = x])
      BY <2>1
    <3>2. \A pc, left, x : Same([export EXCEPT !.pc = pc, !.left = left, !.part.hc = x])
      BY <2>1
    <3>3. \A pc, x : Same([export EXCEPT !.pc = pc, !.part.schedules = x])
      BY <2>1
    <3>4. Same(export')
      <4> HIDE DEF Same
      <4>1. CASE SchedulesForHost
        BY <3>1, <4>1 DEF SchedulesForHost
      <4>2. CASE ChannelsForHost
        BY <3>2, <4>2 DEF ChannelsForHost
      <4>3. CASE ListSchedules
        BY <3>3, <4>3 DEF ListSchedules
      <4> QED BY <1>3, <4>1, <4>2, <4>3
    <3> QED BY <3>4
  <2> QED BY <2>1, <2>2 DEF ExportOK, Honest
<1>4. ASSUME ListChannels PROVE ExportOK'
  <2>1. CASE export' = IdleExport
    BY <2>1 DEF IdleExport, ExportOK
  <2>2. CASE export' # IdleExport
    <3> DEFINE cs == {[name |-> c.name, on |-> c.on, cipher |-> Carried(c, export.mode)] : c \in db.channels}
    <3>1. /\ export.pc # "none" /\ {"pc", "mode", "part"} \subseteq DOMAIN export
          /\ {"mode", "key", "channels"} \subseteq DOMAIN export.part
          /\ export.part.mode = export.mode /\ Honest(export.part)
      BY <1>4 DEF ExportOK, ListChannels
    <3>2. /\ export.mode = "passphrase" => \A c \in db.channels : Decryptable(c)
          /\ export' = [export EXCEPT !.pc = "rules", !.part.channels = cs]
      BY <1>4, <2>2 DEF ListChannels
    <3>3. \A e \in cs : /\ export.mode = "instance_key" => e.cipher \in Configs
                        /\ export.mode = "passphrase" => e.cipher \in [key : {"passphrase"}, secret : Secrets]
      BY <3>2, CarriedIsHonest DEF Readable
    <3> HIDE DEF cs
    <3>4. /\ {"pc", "mode", "part"} \subseteq DOMAIN export' /\ export'.mode = export.mode
          /\ {"mode", "key", "channels"} \subseteq DOMAIN export'.part
          /\ export'.part.mode = export.part.mode /\ export'.part.channels = cs
      BY <3>1, <3>2
    <3> QED BY <3>1, <3>3, <3>4 DEF ExportOK, Honest
  <2> QED BY <2>1, <2>2
<1>5. ASSUME ListRules PROVE BInv'
  <2>1. ExportOK' /\ UNCHANGED <<db, import>>
    BY <1>5 DEF ListRules, IdleExport, ExportOK
  <2>2. Honest(export.part)
    BY <1>5 DEF ListRules, ExportOK
  <2>3. doc'.mode = export.part.mode /\ doc'.channels = export.part.channels /\ doc'.key = export.part.key
    <3>1. \A x : LET d == [export.part EXCEPT !.rules = x] IN
                 d.mode = export.part.mode /\ d.channels = export.part.channels /\ d.key = export.part.key
      BY <1>5 DEF ListRules, ExportOK
    <3> QED BY <1>5, <3>1 DEF ListRules
  <2> QED BY <2>1, <2>2, <2>3 DEF Honest, ImportOK
<1>6. UNCHANGED <<db, import, doc>> \/ ListRules
  BY DEF ExportStep, ListHosts, SchedulesForHost, ChannelsForHost, ListSchedules, ListChannels
<1> QED BY <1>1, <1>2, <1>3, <1>4, <1>5, <1>6 DEF ExportStep

-----------------------------------------------------------------------------
(* The steps that change the tables.                                       *)

\* An export that is told of a change goes on with what it has.
LEMMA DisturbedKeeps == ASSUME ExportOK, export' = Disturbed PROVE ExportOK'
<1>1. {"pc", "mode", "part"} \subseteq DOMAIN export
  BY DEF ExportOK
<1>2. /\ {"pc", "mode", "part"} \subseteq DOMAIN export'
      /\ export'.pc = export.pc /\ export'.mode = export.mode /\ export'.part = export.part
  BY <1>1 DEF Disturbed
<1> QED BY <1>2 DEF ExportOK

\* Every stage of an import, its end and its failure.
LEMMA ImportKeeps == BInv /\ ImportStep => BInv'
<1> SUFFICES ASSUME BInv, ImportStep PROVE BInv'
  OBVIOUS
<1> USE DEF BInv
<1>1. ASSUME NEW d \in Documents \cup ({doc} \ {NoDocument}), NEW mode, NEW dry, NEW passphrase,
             BeginImport(d, mode, dry, passphrase)
      PROVE  BInv'
  <2>1. Ours(d)
    BY <1>1, InputsAssumption DEF BeginImport, Resolved, Ours
  <2>2. ImportOK'
    BY <1>1, <2>1 DEF BeginImport, ImportOK
  <2> QED BY <1>1, <2>2 DEF BeginImport, ExportOK
<1>2. ASSUME NEW from, NEW to, NEW tx, from # "none", Stage(from, to, tx),
             Readable(import.tx) /\ Ours(import.from) => Readable(tx)
      PROVE  BInv'
  <2>1. {"pc", "from", "tx"} \subseteq DOMAIN import /\ Readable(import.tx) /\ Ours(import.from)
    BY <1>2 DEF Stage, ImportOK
  <2>2. {"pc", "from", "tx"} \subseteq DOMAIN import' /\ import'.from = import.from /\ import'.tx = tx
    BY <1>2, <2>1 DEF Stage
  <2>3. ImportOK'
    BY <1>2, <2>1, <2>2 DEF ImportOK
  <2> QED BY <1>2, <2>3 DEF Stage, ExportOK
<1>3. ASSUME Wipe \/ UpsertHosts \/ UpsertSchedules \/ UpsertChannels \/ UpsertRules \/ LinkByNames
      PROVE  BInv'
  BY <1>2, <1>3, StagesReadable
  DEF Wipe, UpsertHosts, UpsertSchedules, UpsertChannels, UpsertRules, LinkByNames
<1>4. ASSUME Commit PROVE BInv'
  <2>1. ImportOK' /\ ExportOK'
    BY <1>4, DisturbedKeeps DEF Commit, IdleImport, ImportOK
  <2>2. Readable(db') /\ UNCHANGED doc
    BY <1>4 DEF Commit, ImportOK
  <2> QED BY <2>1, <2>2
<1>5. ASSUME Rollback PROVE BInv'
  <2>1. ImportOK'
    BY <1>5 DEF Rollback, IdleImport, ImportOK
  <2> QED BY <1>5, <2>1 DEF Rollback, ExportOK
<1> QED BY <1>1, <1>3, <1>4, <1>5 DEF ImportStep

\* An edit that writes a configuration encrypts it with the key of the instance.
LEMMA EditKeeps == BInv /\ EditStep => BInv'
<1> SUFFICES ASSUME BInv, EditStep PROVE BInv'
  OBVIOUS
<1> USE DEF BInv
<1>1. ASSUME NEW tables, Readable(tables), Edit(tables) PROVE BInv'
  BY <1>1, DisturbedKeeps DEF Edit, ImportOK
<1>2. \A x : Readable([db EXCEPT !.hosts = x])
  BY DEF Readable
<1>3. \A x, y : Readable([db EXCEPT !.schedules = x, !.hs = y]) /\ Readable([db EXCEPT !.schedules = x])
  BY DEF Readable
<1>4. \A x : Readable([db EXCEPT !.rules = x])
  BY DEF Readable
<1>5. \A x : Readable([db EXCEPT !.hs = x]) /\ Readable([db EXCEPT !.hc = x])
  BY DEF Readable
<1>6. \A w, x, y, z : Readable([db EXCEPT !.hosts = w, !.rules = x, !.hs = y, !.hc = z])
  BY DEF Readable
<1>7. ASSUME NEW cs, \A c \in cs : "config" \in DOMAIN c /\ c.config \in Configs
      PROVE  /\ Readable([db EXCEPT !.channels = cs])
             /\ \A x : Readable([db EXCEPT !.channels = cs, !.hc = x])
  BY <1>7 DEF Readable
<1>8. \A secret \in Secrets : Entered(secret) \in Configs
  BY DEF Entered, Configs
<1>9. ASSUME NEW n, NEW on, NEW secret \in Secrets, CreateChannel(n, on, secret) PROVE BInv'
  <2> DEFINE cs == db.channels \cup {[name |-> n, on |-> on, needs |-> FALSE, config |-> Entered(secret)]}
  <2>1. \A c \in cs : "config" \in DOMAIN c /\ c.config \in Configs
    <3>1. \A c \in db.channels : "config" \in DOMAIN c /\ c.config \in Configs
      BY DEF Readable
    <3> QED BY <1>8, <3>1
  <2>2. Edit([db EXCEPT !.channels = cs])
    BY <1>9 DEF CreateChannel
  <2> HIDE DEF cs
  <2> QED BY <1>1, <1>7, <2>1, <2>2
<1>10. ASSUME NEW c \in db.channels, NEW n, NEW on, NEW secret \in Secrets, UpdateChannel(c, n, on, secret)
       PROVE  BInv'
  <2> DEFINE news == {[c EXCEPT !.name = n, !.on = on],
                      [name |-> n, on |-> on, needs |-> FALSE, config |-> Entered(secret)]}
  <2>1. \A new \in news : "config" \in DOMAIN new /\ new.config \in Configs
    <3>1. "config" \in DOMAIN c /\ c.config \in Configs
      BY DEF Readable
    <3>2. LET e == [c EXCEPT !.name = n, !.on = on] IN "config" \in DOMAIN e /\ e.config \in Configs
      BY <3>1
    <3>3. LET e == [name |-> n, on |-> on, needs |-> FALSE, config |-> Entered(secret)] IN
          "config" \in DOMAIN e /\ e.config \in Configs
      BY <1>8
    <3> QED BY <3>2, <3>3
  <2>2. PICK new \in news :
          Edit([db EXCEPT !.channels = (db.channels \ {c}) \cup {new}, !.hc = Relinked(db.hc, c.name, n)])
    BY <1>10 DEF UpdateChannel
  <2> HIDE DEF news
  <2>3. \A e \in (db.channels \ {c}) \cup {new} : "config" \in DOMAIN e /\ e.config \in Configs
    BY <2>1 DEF Readable
  <2> QED BY <1>1, <1>7, <2>2, <2>3
<1>11. ASSUME NEW c \in db.channels, DeleteChannel(c) PROVE BInv'
  <2>1. \A e \in db.channels \ {c} : "config" \in DOMAIN e /\ e.config \in Configs
    BY DEF Readable
  <2> QED BY <1>1, <1>7, <1>11, <2>1 DEF DeleteChannel
<1>12. ASSUME NEW n, NEW v, CreateHost(n, v) \/ \E h : UpdateHost(h, n, v) PROVE BInv'
  BY <1>1, <1>2, <1>12 DEF CreateHost, UpdateHost
<1>13. ASSUME NEW h, DeleteHost(h) PROVE BInv'
  BY <1>1, <1>6, <1>13 DEF DeleteHost
<1>14. ASSUME NEW n, NEW v, CreateSchedule(n, v) \/ \E s : UpdateSchedule(s, n, v) PROVE BInv'
  BY <1>1, <1>3, <1>14 DEF CreateSchedule, UpdateSchedule
<1>15. ASSUME NEW s, DeleteSchedule(s) PROVE BInv'
  BY <1>1, <1>3, <1>15 DEF DeleteSchedule
<1>16. ASSUME NEW n, NEW v, NEW host, CreateRule(n, v, host) \/ \E r : UpdateRule(r, n, v, host) PROVE BInv'
  BY <1>1, <1>4, <1>16 DEF CreateRule, UpdateRule
<1>17. ASSUME NEW r, DeleteRule(r) PROVE BInv'
  BY <1>1, <1>4, <1>17 DEF DeleteRule
<1>18. ASSUME NEW h, NEW names, SetHostSchedules(h, names) \/ SetHostChannels(h, names) PROVE BInv'
  BY <1>1, <1>5, <1>18 DEF SetHostSchedules, SetHostChannels
<1> QED
  BY <1>9, <1>10, <1>11, <1>12, <1>13, <1>14, <1>15, <1>16, <1>17, <1>18 DEF EditStep

\* At first nothing is exported or imported, and the tables are readable.
LEMMA BInvInit == Init => BInv
<1> SUFFICES ASSUME Init PROVE BInv
  OBVIOUS
<1>1. ExportOK /\ ImportOK
  BY DEF Init, ExportOK, ImportOK, IdleExport, IdleImport
<1> QED BY <1>1, InputsAssumption DEF Init, BInv

\* Every step keeps what is stored readable.
LEMMA BInvStep == BInv /\ [Next]_vars => BInv'
<1>1. ASSUME BInv, Crash PROVE BInv'
  <2>1. ExportOK' /\ ImportOK'
    BY <1>1 DEF Crash, ExportOK, ImportOK, IdleExport, IdleImport
  <2> QED BY <1>1, <2>1 DEF Crash, BInv
<1>2. BInv /\ UNCHANGED vars => BInv'
  BY DEF vars, BInv, ExportOK, ImportOK
<1> QED BY <1>1, <1>2, ExportKeeps, ImportKeeps, EditKeeps DEF Next

\* Whatever was imported from whatever instance, exported, edited or lost in a
\* crash, this instance can read every configuration it stores (resolveChannels).
THEOREM StoredSecretsAreReadable == Spec => []SecretsReadable
<1>1. Init => BInv
  BY BInvInit
<1>2. BInv /\ [Next]_vars => BInv'
  BY BInvStep
<1>3. BInv => SecretsReadable
  BY DEF BInv, Readable, Configs, SecretsReadable
<1> QED BY <1>1, <1>2, <1>3, PTL DEF Spec

-----------------------------------------------------------------------------
(* The transaction, whole.                                                 *)

\* The tables change by an edit, or by the outcome of all stages of an import.
AppliedWhole ==
    [][db' # db /\ ~Free => ~import.dry /\ db' = Applied(db, import.from, import.mode)]_vars

\* How far the transaction has come from the tables as they are.
Base == Start(db, import.mode)
HostsIn == WithHosts(Base, import.from)
SchedulesIn == WithSchedules(HostsIn, import.from)
ChannelsIn == WithChannels(SchedulesIn, import.from)
RulesIn == WithRules(ChannelsIn, import.from)

Staged ==
    /\ {"pc", "from", "mode", "dry", "tx"} \subseteq DOMAIN import
    /\ import.pc = "wipe" => import.mode = "replace" /\ import.tx = db
    /\ import.pc = "hosts" => import.tx = Base
    /\ import.pc = "schedules" => import.tx = HostsIn
    /\ import.pc = "channels" => import.tx = SchedulesIn
    /\ import.pc = "rules" => import.tx = ChannelsIn
    /\ import.pc = "links" => import.tx = RulesIn
    /\ import.pc = "commit" => import.tx = Applied(db, import.from, import.mode)

\* The last stage gives the outcome of all.
LEMMA AppliedIsStaged == Applied(db, import.from, import.mode) = WithLinks(RulesIn, import.from)
BY DEF Applied, Base, Start, HostsIn, SchedulesIn, ChannelsIn, RulesIn

\* No edit runs while an import is open.
LEMMA EditsWait == EditStep => import' = import /\ Free
<1> DEFINE Waits == import' = import /\ Free
<1>1. \A tables : Edit(tables) => Waits
  BY DEF Edit
<1> HIDE DEF Waits
<1>2. \A n, v : CreateHost(n, v) \/ CreateSchedule(n, v) => Waits
  BY <1>1 DEF CreateHost, CreateSchedule
<1>3. \A x, n, v : UpdateHost(x, n, v) \/ UpdateSchedule(x, n, v) => Waits
  BY <1>1 DEF UpdateHost, UpdateSchedule
<1>4. \A x, n, v, host : CreateRule(n, v, host) \/ UpdateRule(x, n, v, host) => Waits
  BY <1>1 DEF CreateRule, UpdateRule
<1>5. \A n, on, secret : CreateChannel(n, on, secret) => Waits
  BY <1>1 DEF CreateChannel
<1>6. \A c, n, on, secret : UpdateChannel(c, n, on, secret) => Waits
  BY <1>1 DEF UpdateChannel
<1>7. \A x : DeleteHost(x) \/ DeleteSchedule(x) \/ DeleteChannel(x) \/ DeleteRule(x) => Waits
  BY <1>1 DEF DeleteHost, DeleteSchedule, DeleteChannel, DeleteRule
<1>8. \A h, names : SetHostSchedules(h, names) \/ SetHostChannels(h, names) => Waits
  BY <1>1 DEF SetHostSchedules, SetHostChannels
<1>9. EditStep => Waits
  BY <1>2, <1>3, <1>4, <1>5, <1>6, <1>7, <1>8 DEF EditStep
<1> QED
  BY <1>9 DEF Waits

\* At first no transaction is open.
LEMMA StagedInit == Init => Staged
<1>1. Init => import = IdleImport
  BY DEF Init
<1>2. IdleImport.pc = "none" /\ {"pc", "from", "mode", "dry", "tx"} \subseteq DOMAIN IdleImport
  BY DEF IdleImport
<1> QED BY <1>1, <1>2 DEF Staged

\* No statement but the transaction's own runs before it ends.
LEMMA StagedStep == Staged /\ [Next]_vars => Staged'
<1> SUFFICES ASSUME Staged, [Next]_vars PROVE Staged'
  OBVIOUS
<1>1. ASSUME NEW from, NEW to, NEW tx, Stage(from, to, tx)
      PROVE  /\ {"pc", "from", "mode", "dry", "tx"} \subseteq DOMAIN import' /\ UNCHANGED db
             /\ import.pc = from /\ import'.pc = to /\ import'.tx = tx
             /\ import'.from = import.from /\ import'.mode = import.mode
  BY <1>1 DEF Stage, Staged
<1> DEFINE Same == /\ {"pc", "from", "mode", "dry", "tx"} \subseteq DOMAIN import' /\ UNCHANGED db
                   /\ import'.from = import.from /\ import'.mode = import.mode
<1>2. CASE Wipe
  <2>1. Same /\ import.pc = "wipe" /\ import'.pc = "hosts" /\ import'.tx = Wiped(import.tx)
    BY <1>1, <1>2 DEF Wipe
  <2> QED BY <2>1 DEF Staged, Base, Start
<1>3. CASE UpsertHosts
  <2>1. Same /\ import.pc = "hosts" /\ import'.pc = "schedules" /\ import'.tx = WithHosts(import.tx, import.from)
    BY <1>1, <1>3 DEF UpsertHosts
  <2> QED BY <2>1 DEF Staged, Base, Start, HostsIn
<1>4. CASE UpsertSchedules
  <2>1. Same /\ import.pc = "schedules" /\ import'.pc = "channels" /\ import'.tx = WithSchedules(import.tx, import.from)
    BY <1>1, <1>4 DEF UpsertSchedules
  <2> QED BY <2>1 DEF Staged, Base, Start, HostsIn, SchedulesIn
<1>5. CASE UpsertChannels
  <2>1. Same /\ import.pc = "channels" /\ import'.pc = "rules" /\ import'.tx = WithChannels(import.tx, import.from)
    BY <1>1, <1>5 DEF UpsertChannels
  <2> QED BY <2>1 DEF Staged, Base, Start, HostsIn, SchedulesIn, ChannelsIn
<1>6. CASE UpsertRules
  <2>1. Same /\ import.pc = "rules" /\ import'.pc = "links" /\ import'.tx = WithRules(import.tx, import.from)
    BY <1>1, <1>6 DEF UpsertRules
  <2> QED BY <2>1 DEF Staged, Base, Start, HostsIn, SchedulesIn, ChannelsIn, RulesIn
<1>7. CASE LinkByNames
  <2>1. Same /\ import.pc = "links" /\ import'.pc = "commit" /\ import'.tx = WithLinks(import.tx, import.from)
    BY <1>1, <1>7 DEF LinkByNames
  <2>2. import'.tx = Applied(db, import.from, import.mode)
    BY <2>1, AppliedIsStaged DEF Staged
  <2> QED BY <2>1, <2>2 DEF Staged
<1>8. ASSUME NEW d, NEW mode, NEW dry, NEW passphrase, BeginImport(d, mode, dry, passphrase) PROVE Staged'
  <2>1. /\ {"pc", "from", "mode", "dry", "tx"} \subseteq DOMAIN import' /\ UNCHANGED db
        /\ import'.pc = (IF mode = "replace" THEN "wipe" ELSE "hosts") /\ import'.mode = mode /\ import'.tx = db
    BY <1>8 DEF BeginImport
  <2> QED BY <2>1 DEF Staged, Base, Start
<1>9. CASE import' = IdleImport
  BY <1>9 DEF IdleImport, Staged
<1>10. CASE import' = import /\ UNCHANGED db
  BY <1>10 DEF Staged, Base, Start, HostsIn, SchedulesIn, ChannelsIn, RulesIn
<1>11. CASE import' = import /\ Free
  BY <1>11 DEF Staged, Free
<1>12. EditStep => import' = import /\ Free
  BY EditsWait
<1>13. ExportStep \/ UNCHANGED vars => import' = import /\ UNCHANGED db
  BY DEF vars, ExportStep, ListHosts, SchedulesForHost, ChannelsForHost, ListSchedules, ListChannels, ListRules
<1>14. Commit \/ Rollback \/ Crash => import' = IdleImport
  BY DEF Commit, Rollback, Crash
<1> QED
  BY <1>2, <1>3, <1>4, <1>5, <1>6, <1>7, <1>8, <1>9, <1>10, <1>11, <1>12, <1>13, <1>14 DEF Next, ImportStep

\* All stages of an import or none reach the tables, and never those of a dry
\* run: statements of other requests cannot come between the stages, and a
\* failure or a crash at any of them leaves the tables alone (Store.ApplyImport).
THEOREM ImportsAreAtomic == Spec => AppliedWhole
<1>1. Init => Staged
  BY StagedInit
<1>2. Staged /\ [Next]_vars => [db' # db /\ ~Free => ~import.dry /\ db' = Applied(db, import.from, import.mode)]_vars
  <2> SUFFICES ASSUME Staged, Next, db' # db, ~Free
               PROVE  ~import.dry /\ db' = Applied(db, import.from, import.mode)
    OBVIOUS
  <2>1. EditStep => Free
    BY EditsWait
  <2>2. ExportStep \/ Rollback \/ Crash => UNCHANGED db
    BY DEF ExportStep, ListHosts, SchedulesForHost, ChannelsForHost, ListSchedules, ListChannels, ListRules, Rollback,
       Crash
  <2>3. ImportStep => UNCHANGED db \/ Commit
    BY DEF ImportStep, BeginImport, Stage, Wipe, UpsertHosts, UpsertSchedules, UpsertChannels, UpsertRules,
       LinkByNames, Rollback
  <2>4. Commit
    BY <2>1, <2>2, <2>3 DEF Next
  <2> QED BY <2>4 DEF Commit, Staged
<1> QED BY <1>1, <1>2, StagedStep, PTL DEF Spec, AppliedWhole

\* What a document says of the tables it was made of.
Stripped(hosts) == {[name |-> h.name, value |-> h.value] : h \in hosts}
Packed(channels, mode) == {[name |-> c.name, on |-> c.on, cipher |-> Carried(c, mode)] : c \in channels}
LinksOf(links, hosts) == {l \in links : l[1] \in IdsOf(hosts)}

Headed(d, mode, hosts) ==
    /\ d.valid /\ d.mode = mode /\ d.key = (IF mode = "instance_key" THEN Key ELSE "")
    /\ d.hosts = Stripped(hosts)

Written(t, d) ==
    /\ Headed(d, d.mode, t.hosts)
    /\ d.schedules = t.schedules
    /\ d.channels = Packed(t.channels, d.mode)
    /\ d.mode = "passphrase" => \A c \in t.channels : Decryptable(c)
    /\ d.rules = RuleEntries(t.rules, t.hosts)
    /\ d.hs = NamedLinks(t, t.hs) /\ d.hc = NamedLinks(t, t.hc)

\* Hosts whose schedules were read.
Scheduled == (export.listed \ export.left) \cup (IF export.pc = "hc" THEN {CurrentHost} ELSE {})

ExportTyped ==
    /\ DOMAIN export = {"pc", "mode", "listed", "left", "part", "calm"}
    /\ export.pc # "none" =>
          /\ export.mode \in Modes /\ export.listed \in SUBSET HostRows /\ export.left \subseteq export.listed
          /\ export.part \in Decoded /\ IsFiniteSet(export.part.hosts)
          /\ (export.left = {}) <=> export.pc \in {"schedules", "channels", "rules"}

\* While the tables hold still, a part is made of them as they are.
ExportCalm ==
    export.pc # "none" /\ export.calm =>
        /\ export.listed = db.hosts
        /\ Headed(export.part, export.mode, db.hosts)
        /\ export.part.hs = NamedLinks(db, LinksOf(db.hs, Scheduled))
        /\ export.part.hc = NamedLinks(db, LinksOf(db.hc, export.listed \ export.left))
        /\ export.pc \in {"channels", "rules"} => export.part.schedules = db.schedules
        /\ export.pc = "rules" =>
              /\ export.part.channels = Packed(db.channels, export.mode)
              /\ export.mode = "passphrase" => \A c \in db.channels : Decryptable(c)

OriginWritten ==
    origin # NoTables => doc # NoDocument /\ Sound(origin) /\ Written(origin, doc)

TInv ==
    /\ TypeOK
    /\ import.pc # "none" => Importable(import.from)
    /\ doc # NoDocument => doc \in Decoded /\ IsFiniteSet(doc.hosts)
    /\ ExportTyped /\ ExportCalm /\ OriginWritten
-----------------------------------------------------------------------------
(* Documents.                                                              *)

\* SetToSeq lists every member of a finite set once.
LEMMA SeqOfSet ==
    ASSUME NEW S, IsFiniteSet(S)
    PROVE  /\ SetToSeq(S) \in Seq(S) /\ {SetToSeq(S)[i] : i \in DOMAIN SetToSeq(S)} = S
           /\ \A i, j \in DOMAIN SetToSeq(S) : SetToSeq(S)[i] = SetToSeq(S)[j] => i = j
<1> DEFINE n == Cardinality(S)
           f == SetToSeq(S)
<1>1. n \in Nat /\ ExistsBijection(1 .. n, S)
  BY FS_CardinalityType
<1>2. PICK g : g \in Bijection(1 .. n, S)
  BY <1>1 DEF ExistsBijection
<1>3. g \in [1 .. n -> S] /\ IsInjective(g)
  BY <1>2 DEF Bijection, Injection, IsInjective
<1>4. f \in [1 .. n -> S] /\ IsInjective(f)
  BY <1>3 DEF SetToSeq
<1>5. f \in Injection(1 .. n, S)
  BY <1>4 DEF Injection, IsInjective
<1> HIDE DEF f, n
<1>6. ExistsBijection(1 .. n, S) /\ IsFiniteSet(1 .. n)
  BY <1>1, FS_Interval
<1>7. f \in Surjection(1 .. n, S)
  BY <1>1, <1>5, <1>6, FS_Bijection, FS_Injection DEF n
<1>8. f \in Seq(S)
  BY <1>1, <1>4
<1>9. {f[i] : i \in DOMAIN f} = S
  BY <1>7 DEF Surjection
<1>10. \A i, j \in DOMAIN f : f[i] = f[j] => i = j
  BY <1>4 DEF IsInjective
<1> QED BY <1>8, <1>9, <1>10 DEF f

\* A rule or link is exported with the name of a host, or none.
LEMMA HostNameTyped ==
    ASSUME NEW hosts \in SUBSET HostRows, NEW id
    PROVE  HostName(hosts, id) \in Names \cup {NoHost}
<1>1. CASE \E h \in hosts : h.id = id
  <2>1. (CHOOSE h \in hosts : h.id = id) \in hosts
    BY <1>1
  <2> QED BY <1>1, <2>1 DEF HostName, HostRows
<1>2. CASE ~ \E h \in hosts : h.id = id
  BY <1>2 DEF HostName
<1> QED BY <1>1, <1>2

\* The entry of a rule, by the hosts that were listed.
EntryOf(r, listed) == [name |-> r.name, value |-> r.value, host |-> HostName(listed, r.host)]

\* Every rule is exported once.
LEMMA RuleEntriesFacts ==
    ASSUME NEW rules \in SUBSET RuleRows, IsFiniteSet(rules), NEW listed \in SUBSET HostRows
    PROVE  LET es == RuleEntries(rules, listed) IN
           /\ es \in Seq(RuleEntry)
           /\ {es[i] : i \in DOMAIN es} = {EntryOf(r, listed) : r \in rules}
           /\ \A i \in DOMAIN es : \E r \in rules : es[i] = EntryOf(r, listed)
<1> DEFINE rows == SetToSeq(rules)
           es == RuleEntries(rules, listed)
<1>1. rows \in Seq(rules) /\ {rows[i] : i \in DOMAIN rows} = rules
  BY SeqOfSet
<1>2. \A i \in DOMAIN rows : rows[i] \in rules
  BY <1>1
<1>3. \A r \in rules : EntryOf(r, listed) \in RuleEntry
  BY HostNameTyped DEF RuleRows, RuleEntry, EntryOf
<1>4. es = [i \in DOMAIN rows |-> EntryOf(rows[i], listed)]
  BY DEF RuleEntries, EntryOf
<1> HIDE DEF rows, es
<1>5. \A i \in DOMAIN rows : es[i] = EntryOf(rows[i], listed)
  BY <1>4
<1>6. DOMAIN es = 1 .. Len(rows) /\ Len(rows) \in Nat /\ DOMAIN rows = 1 .. Len(rows)
  BY <1>1, <1>4
<1>7. es \in [1 .. Len(rows) -> RuleEntry]
  BY <1>2, <1>3, <1>4, <1>6
<1>8. es \in Seq(RuleEntry)
  BY <1>6, <1>7
<1>9. {es[i] : i \in DOMAIN es} = {EntryOf(r, listed) : r \in rules}
  BY <1>1, <1>5, <1>6
<1>10. \A i \in DOMAIN es : \E r \in rules : es[i] = EntryOf(r, listed)
  BY <1>2, <1>5, <1>6
<1> QED BY <1>8, <1>9, <1>10 DEF es

\* A configuration that can be decrypted is there.
LEMMA InTheClear ==
    ASSUME NEW c \in ChannelRows, Decryptable(c)
    PROVE  c.config \in [key : Keys \cup {"passphrase"}, secret : Secrets] /\ c.config.key = Key
<1>1. c.config \in Ciphers /\ c.config.key = Key /\ Key # ""
  BY BundleAssumption DEF ChannelRows, Decryptable
<1>2. c.config # NoConfig
  <2>1. NoConfig.key = ""
    BY DEF NoConfig
  <2> QED BY <1>1, <2>1
<1> QED BY <1>1, <1>2 DEF Ciphers

\* What a channel's configuration becomes in a document is a cipher.
LEMMA CarriedIsCipher ==
    ASSUME NEW c \in ChannelRows, NEW mode \in Modes, mode = "passphrase" => Decryptable(c)
    PROVE  Carried(c, mode) \in Ciphers
<1>1. CASE mode = "none"
  BY <1>1 DEF Carried, Ciphers
<1>2. CASE mode = "instance_key"
  BY <1>2 DEF Carried, ChannelRows
<1>3. CASE mode = "passphrase"
  <2>1. c.config \in [key : Keys \cup {"passphrase"}, secret : Secrets]
    BY <1>3, InTheClear
  <2>2. [c.config EXCEPT !.key = "passphrase"] \in [key : Keys \cup {"passphrase"}, secret : Secrets]
    BY <2>1
  <2> QED BY <1>3, <2>2 DEF Carried, Ciphers
<1> QED BY <1>1, <1>2, <1>3 DEF Modes

\* What channels become in a document.
LEMMA PackedTyped ==
    ASSUME NEW channels \in SUBSET ChannelRows, NEW mode \in Modes,
           mode = "passphrase" => \A c \in channels : Decryptable(c)
    PROVE  Packed(channels, mode) \in SUBSET [name : Names, on : BOOLEAN, cipher : Ciphers]
<1>1. ASSUME NEW c \in channels
      PROVE  [name |-> c.name, on |-> c.on, cipher |-> Carried(c, mode)]
                 \in [name : Names, on : BOOLEAN, cipher : Ciphers]
  <2>1. Carried(c, mode) \in Ciphers
    BY CarriedIsCipher
  <2> QED BY <2>1 DEF ChannelRows
<1> QED BY <1>1 DEF Packed

\* What hosts become in a document.
LEMMA StrippedFacts ==
    ASSUME NEW hosts \in SUBSET HostRows, IsFiniteSet(hosts)
    PROVE  Stripped(hosts) \in SUBSET Entry /\ IsFiniteSet(Stripped(hosts))
           /\ NamesOf(Stripped(hosts)) = NamesOf(hosts)
<1> DEFINE f == [h \in hosts |-> [name |-> h.name, value |-> h.value]]
<1>1. Stripped(hosts) = {f[h] : h \in hosts}
  BY DEF Stripped
<1>2. IsFiniteSet(Stripped(hosts))
  <2>1. DOMAIN f = hosts
    OBVIOUS
  <2> HIDE DEF f
  <2> QED BY <1>1, <2>1, ImageIsFinite
<1>3. Stripped(hosts) \in SUBSET Entry
  BY DEF Stripped, Entry, HostRows
<1>4. NamesOf(Stripped(hosts)) = NamesOf(hosts)
  <2>1. \A h \in hosts : [name |-> h.name, value |-> h.value].name = h.name
    OBVIOUS
  <2>2. NamesOf(Stripped(hosts)) = {[name |-> h.name, value |-> h.value].name : h \in hosts}
    BY DEF Stripped, NamesOf
  <2> QED BY <2>1, <2>2 DEF NamesOf
<1> QED BY <1>2, <1>3, <1>4

\* One more host read.
LEMMA LinksOfMore ==
    ASSUME NEW t, Sound(t), NEW hosts, NEW h \in t.hosts, NEW links
    PROVE  NamedLinks(t, LinksOf(links, hosts \cup {h}))
              = NamedLinks(t, LinksOf(links, hosts)) \cup {<<h.name, l[2]>> : l \in {k \in links : k[1] = h.id}}
<1>1. LinksOf(links, hosts \cup {h}) = LinksOf(links, hosts) \cup {k \in links : k[1] = h.id}
  BY DEF LinksOf, IdsOf
<1>2. HostName(t.hosts, h.id) = h.name
  BY HostNameFacts
<1>3. NamedLinks(t, {k \in links : k[1] = h.id}) = {<<h.name, l[2]>> : l \in {k \in links : k[1] = h.id}}
  BY <1>2 DEF NamedLinks
<1> DEFINE a == LinksOf(links, hosts)
           b == {k \in links : k[1] = h.id}
<1> HIDE DEF a, b
<1>4. NamedLinks(t, a \cup b) = NamedLinks(t, a) \cup NamedLinks(t, b)
  BY NamedLinksOfUnion
<1> QED BY <1>1, <1>3, <1>4 DEF a, b

\* The links of all hosts are all links.
LEMMA LinksOfAll ==
    ASSUME NEW t, Sound(t)
    PROVE  /\ LinksOf(t.hs, t.hosts) = t.hs /\ LinksOf(t.hc, t.hosts) = t.hc
           /\ \A links : LinksOf(links, {}) = {}
<1>1. t.hs \subseteq (IdsOf(t.hosts) \X NamesOf(t.schedules)) /\ t.hc \subseteq (IdsOf(t.hosts) \X NamesOf(t.channels))
  BY LinksMade
<1>2. \A l \in t.hs \cup t.hc : l[1] \in IdsOf(t.hosts)
  BY <1>1
<1>3. \A links : LinksOf(links, {}) = {}
  BY DEF LinksOf, IdsOf
<1> QED BY <1>2, <1>3 DEF LinksOf

-----------------------------------------------------------------------------
(* What an export has put together.                                        *)

\* The document as it is begun, with the hosts alone.
LEMMA BegunFacts ==
    ASSUME Sound(db), NEW mode \in Modes
    PROVE  /\ Begun(mode) \in Decoded /\ IsFiniteSet(Begun(mode).hosts)
           /\ Headed(Begun(mode), mode, db.hosts)
           /\ Begun(mode).hs = {} /\ Begun(mode).hc = {}
<1> DEFINE d == Begun(mode)
<1>1. /\ d = [mode |-> mode, key |-> IF mode = "instance_key" THEN Key ELSE "", valid |-> TRUE,
              hosts |-> Stripped(db.hosts), schedules |-> {}, channels |-> {}, rules |-> <<>>, hs |-> {}, hc |-> {}]
  BY DEF Begun, Stripped
<1>2. Stripped(db.hosts) \in SUBSET Entry /\ IsFiniteSet(Stripped(db.hosts))
  BY HostsMade, StrippedFacts
<1>3. <<>> \in Seq(RuleEntry)
  OBVIOUS
<1>4. (IF mode = "instance_key" THEN Key ELSE "") \in Keys \cup {""}
  BY BundleAssumption
<1> HIDE DEF d
<1>5. d \in Decoded
  BY <1>1, <1>2, <1>3, <1>4 DEF Decoded
<1>6. Headed(d, mode, db.hosts)
  BY <1>1 DEF Headed
<1>7. d.hosts = Stripped(db.hosts) /\ d.hs = {} /\ d.hc = {}
  BY <1>1
<1> QED BY <1>2, <1>5, <1>6, <1>7 DEF d

\* An export begins calm.
LEMMA ListHostsKeeps ==
    ASSUME TInv, NEW mode \in Modes, ListHosts(mode)
    PROVE  ExportTyped' /\ ExportCalm'
<1> DEFINE d == Begun(mode)
<1>1. /\ d \in Decoded /\ IsFiniteSet(d.hosts) /\ Headed(d, mode, db.hosts) /\ d.hs = {} /\ d.hc = {}
  BY BegunFacts DEF TInv, TypeOK
<1>2. db.hosts \in SUBSET HostRows /\ Sound(db)
  BY HostsMade DEF TInv, TypeOK
<1>3. /\ export' = [pc |-> IF db.hosts = {} THEN "schedules" ELSE "hs", mode |-> mode, listed |-> db.hosts,
                    left |-> db.hosts, part |-> d, calm |-> TRUE]
      /\ db' = db
  BY DEF ListHosts
<1> HIDE DEF d
<1>4. /\ export'.pc = (IF db.hosts = {} THEN "schedules" ELSE "hs") /\ export'.mode = mode
      /\ export'.listed = db.hosts /\ export'.left = db.hosts /\ export'.part = d
      /\ DOMAIN export' = {"pc", "mode", "listed", "left", "part", "calm"}
  BY <1>3
<1>5. ExportTyped'
  BY <1>1, <1>2, <1>4 DEF ExportTyped
<1>6. Scheduled' = {} /\ export'.listed \ export'.left = {}
  BY <1>4 DEF Scheduled
<1>7. \A links : NamedLinks(db, LinksOf(links, {})) = {}
  BY <1>2, LinksOfAll, NamedLinksOfUnion
<1>8. ExportCalm'
  <2>1. /\ export'.part.hs = NamedLinks(db, LinksOf(db.hs, {}))
        /\ export'.part.hc = NamedLinks(db, LinksOf(db.hc, {}))
    BY <1>1, <1>4, <1>7
  <2>2. export'.listed = db.hosts /\ Headed(export'.part, export'.mode, db.hosts) /\ export'.pc \in {"schedules", "hs"}
    BY <1>1, <1>4
  <2> QED BY <1>3, <1>6, <2>1, <2>2 DEF ExportCalm
<1> QED BY <1>5, <1>8

\* The names of a listed host's links are names.
LEMMA NamesRead ==
    ASSUME NEW h \in HostRows, NEW links \in SUBSET Links
    PROVE  {<<h.name, l[2]>> : l \in {k \in links : k[1] = h.id}} \in SUBSET (Names \X Names)
BY DEF HostRows, Links

\* The schedules of one more host are read.
LEMMA SchedulesForHostKeeps ==
    ASSUME TInv, SchedulesForHost
    PROVE  ExportTyped' /\ ExportCalm'
<1> DEFINE h == CurrentHost
           read == {<<h.name, l[2]>> : l \in {k \in db.hs : k[1] = h.id}}
           x == export.part.hs \cup read
<1>1. /\ Sound(db) /\ DOMAIN export = {"pc", "mode", "listed", "left", "part", "calm"} /\ export.pc = "hs"
      /\ export.mode \in Modes /\ export.listed \in SUBSET HostRows /\ export.left \subseteq export.listed
      /\ export.part \in Decoded /\ IsFiniteSet(export.part.hosts) /\ export.left # {}
  BY DEF TInv, TypeOK, ExportTyped, SchedulesForHost
<1>2. h \in export.left /\ h \in HostRows
  BY <1>1 DEF CurrentHost
<1>3. export' = [export EXCEPT !.pc = "hc", !.part.hs = x] /\ db' = db
  BY DEF SchedulesForHost
<1>4. read \in SUBSET (Names \X Names)
  <2>1. db.hs \in SUBSET Links
    BY <1>1, LinksMade
  <2> QED BY <1>2, <2>1, NamesRead
<1>5. x \in SUBSET (Names \X Names)
  BY <1>1, <1>4, DocumentFacts
<1> HIDE DEF x
<1>6. /\ DOMAIN export' = {"pc", "mode", "listed", "left", "part", "calm"} /\ export'.pc = "hc"
      /\ export'.mode = export.mode /\ export'.listed = export.listed /\ export'.left = export.left
      /\ export'.calm = export.calm /\ export'.part = [export.part EXCEPT !.hs = x]
  BY <1>1, <1>3
<1>7. /\ export'.part \in Decoded /\ export'.part.hosts = export.part.hosts /\ export'.part.hs = x
      /\ export'.part.hc = export.part.hc /\ export'.part.valid = export.part.valid
      /\ export'.part.mode = export.part.mode /\ export'.part.key = export.part.key
  BY <1>1, <1>5, <1>6 DEF Decoded
<1>8. ExportTyped'
  BY <1>1, <1>6, <1>7 DEF ExportTyped
<1>9. Scheduled = export.listed \ export.left /\ Scheduled' = (export.listed \ export.left) \cup {h}
  BY <1>1, <1>6 DEF Scheduled, CurrentHost
<1>10. ASSUME export'.calm PROVE ExportCalm'
  <2>1. /\ export.listed = db.hosts /\ Headed(export.part, export.mode, db.hosts)
        /\ export.part.hs = NamedLinks(db, LinksOf(db.hs, export.listed \ export.left))
        /\ export.part.hc = NamedLinks(db, LinksOf(db.hc, export.listed \ export.left))
    BY <1>1, <1>6, <1>9, <1>10 DEF TInv, ExportCalm
  <2>2. Headed(export'.part, export'.mode, db.hosts)
    BY <1>6, <1>7, <2>1 DEF Headed
  <2>3. h \in db.hosts
    BY <1>1, <1>2, <2>1
  <2>4. x = NamedLinks(db, LinksOf(db.hs, (export.listed \ export.left) \cup {h}))
    <3>1. NamedLinks(db, LinksOf(db.hs, (export.listed \ export.left) \cup {h}))
             = NamedLinks(db, LinksOf(db.hs, export.listed \ export.left)) \cup read
      <4> HIDE DEF h
      <4> QED BY <1>1, <2>3, LinksOfMore
    <3> QED BY <2>1, <3>1 DEF x
  <2> QED BY <1>3, <1>6, <1>7, <1>9, <2>1, <2>2, <2>4 DEF ExportCalm
<1>11. ASSUME ~export'.calm PROVE ExportCalm'
  BY <1>11 DEF ExportCalm
<1> QED BY <1>8, <1>10, <1>11

\* The channels of one more host are read.
LEMMA ChannelsForHostKeeps ==
    ASSUME TInv, ChannelsForHost
    PROVE  ExportTyped' /\ ExportCalm'
<1> DEFINE h == CurrentHost
           read == {<<h.name, l[2]>> : l \in {k \in db.hc : k[1] = h.id}}
           x == export.part.hc \cup read
           pc == IF export.left = {h} THEN "schedules" ELSE "hs"
           left == export.left \ {h}
<1>1. /\ Sound(db) /\ DOMAIN export = {"pc", "mode", "listed", "left", "part", "calm"} /\ export.pc = "hc"
      /\ export.mode \in Modes /\ export.listed \in SUBSET HostRows /\ export.left \subseteq export.listed
      /\ export.part \in Decoded /\ IsFiniteSet(export.part.hosts) /\ export.left # {}
  BY DEF TInv, TypeOK, ExportTyped, ChannelsForHost
<1>2. h \in export.left /\ h \in HostRows
  BY <1>1 DEF CurrentHost
<1>3. export' = [export EXCEPT !.pc = pc, !.left = left, !.part.hc = x] /\ db' = db
  BY DEF ChannelsForHost
<1>4. read \in SUBSET (Names \X Names)
  <2>1. db.hc \in SUBSET Links
    BY <1>1, LinksMade
  <2> QED BY <1>2, <2>1, NamesRead
<1>5. x \in SUBSET (Names \X Names)
  BY <1>1, <1>4, DocumentFacts
<1>6. (left = {}) <=> pc = "schedules"
  BY <1>2
<1>7. pc \in {"schedules", "hs"}
  OBVIOUS
<1> HIDE DEF x, pc
<1>8. /\ DOMAIN export' = {"pc", "mode", "listed", "left", "part", "calm"} /\ export'.pc = pc
      /\ export'.mode = export.mode /\ export'.listed = export.listed /\ export'.left = left
      /\ export'.calm = export.calm /\ export'.part = [export.part EXCEPT !.hc = x]
  BY <1>1, <1>3
<1>9. /\ export'.part \in Decoded /\ export'.part.hosts = export.part.hosts /\ export'.part.hs = export.part.hs
      /\ export'.part.hc = x /\ export'.part.valid = export.part.valid
      /\ export'.part.mode = export.part.mode /\ export'.part.key = export.part.key
  BY <1>1, <1>5, <1>8 DEF Decoded
<1>10. ExportTyped'
  BY <1>1, <1>6, <1>7, <1>8, <1>9 DEF ExportTyped
<1>11. /\ Scheduled = (export.listed \ export.left) \cup {h}
       /\ Scheduled' = export.listed \ left
       /\ export.listed \ left = (export.listed \ export.left) \cup {h}
  <2>1. Scheduled = (export.listed \ export.left) \cup {h}
    BY <1>1 DEF Scheduled
  <2>2. Scheduled' = export.listed \ left
    BY <1>7, <1>8 DEF Scheduled
  <2>3. export.listed \ left = (export.listed \ export.left) \cup {h}
    BY <1>1, <1>2
  <2> QED BY <2>1, <2>2, <2>3
<1>12. ASSUME export'.calm PROVE ExportCalm'
  <2>1. /\ export.listed = db.hosts /\ Headed(export.part, export.mode, db.hosts)
        /\ export.part.hs = NamedLinks(db, LinksOf(db.hs, Scheduled))
        /\ export.part.hc = NamedLinks(db, LinksOf(db.hc, export.listed \ export.left))
    BY <1>1, <1>8, <1>12 DEF TInv, ExportCalm
  <2>2. Headed(export'.part, export'.mode, db.hosts)
    BY <1>8, <1>9, <2>1 DEF Headed
  <2>3. h \in db.hosts
    BY <1>1, <1>2, <2>1
  <2>4. x = NamedLinks(db, LinksOf(db.hc, export.listed \ left))
    <3>1. NamedLinks(db, LinksOf(db.hc, (export.listed \ export.left) \cup {h}))
             = NamedLinks(db, LinksOf(db.hc, export.listed \ export.left)) \cup read
      BY <1>1, <2>3, LinksOfMore
    <3> QED BY <1>11, <2>1, <3>1 DEF x
  <2>5. Scheduled' = Scheduled
    BY <1>11
  <2>6. /\ export'.part.hs = NamedLinks(db, LinksOf(db.hs, Scheduled'))
        /\ export'.part.hc = NamedLinks(db, LinksOf(db.hc, export'.listed \ export'.left))
        /\ export'.listed = db.hosts
    BY <1>8, <1>9, <2>1, <2>4, <2>5
  <2>7. export'.pc \in {"schedules", "hs"}
    BY <1>7, <1>8
  <2> QED BY <1>3, <2>2, <2>6, <2>7 DEF ExportCalm
<1>13. ASSUME ~export'.calm PROVE ExportCalm'
  BY <1>13 DEF ExportCalm
<1> QED BY <1>10, <1>12, <1>13

\* The schedules are read when no host is left.
LEMMA ListSchedulesKeeps ==
    ASSUME TInv, ListSchedules
    PROVE  ExportTyped' /\ ExportCalm'
<1> DEFINE x == db.schedules
<1>1. /\ Sound(db) /\ DOMAIN export = {"pc", "mode", "listed", "left", "part", "calm"} /\ export.pc = "schedules"
      /\ export.mode \in Modes /\ export.listed \in SUBSET HostRows /\ export.left \subseteq export.listed
      /\ export.part \in Decoded /\ IsFiniteSet(export.part.hosts) /\ export.left = {}
  BY DEF TInv, TypeOK, ExportTyped, ListSchedules
<1>2. export' = [export EXCEPT !.pc = "channels", !.part.schedules = x] /\ db' = db
  BY DEF ListSchedules
<1>3. x \in SUBSET Entry
  BY <1>1, LinksMade
<1> HIDE DEF x
<1>4. /\ DOMAIN export' = {"pc", "mode", "listed", "left", "part", "calm"} /\ export'.pc = "channels"
      /\ export'.mode = export.mode /\ export'.listed = export.listed /\ export'.left = export.left
      /\ export'.calm = export.calm /\ export'.part = [export.part EXCEPT !.schedules = x]
  BY <1>1, <1>2
<1>5. /\ export'.part \in Decoded /\ export'.part.hosts = export.part.hosts /\ export'.part.hs = export.part.hs
      /\ export'.part.hc = export.part.hc /\ export'.part.valid = export.part.valid
      /\ export'.part.mode = export.part.mode /\ export'.part.key = export.part.key /\ export'.part.schedules = x
  BY <1>1, <1>3, <1>4 DEF Decoded
<1>6. ExportTyped'
  BY <1>1, <1>4, <1>5 DEF ExportTyped
<1>7. Scheduled' = Scheduled
  BY <1>1, <1>4 DEF Scheduled
<1>8. ASSUME export'.calm PROVE ExportCalm'
  <2>1. /\ export.listed = db.hosts /\ Headed(export.part, export.mode, db.hosts)
        /\ export.part.hs = NamedLinks(db, LinksOf(db.hs, Scheduled))
        /\ export.part.hc = NamedLinks(db, LinksOf(db.hc, export.listed \ export.left))
    BY <1>1, <1>4, <1>8 DEF TInv, ExportCalm
  <2>2. Headed(export'.part, export'.mode, db.hosts)
    BY <1>4, <1>5, <2>1 DEF Headed
  <2> QED BY <1>2, <1>4, <1>5, <1>7, <2>1, <2>2 DEF ExportCalm, x
<1>9. ASSUME ~export'.calm PROVE ExportCalm'
  BY <1>9 DEF ExportCalm
<1> QED BY <1>6, <1>8, <1>9

\* Nothing of an export is left.
LEMMA IdleExportKeeps == ASSUME export' = IdleExport PROVE ExportTyped' /\ ExportCalm'
<1>1. DOMAIN IdleExport = {"pc", "mode", "listed", "left", "part", "calm"} /\ IdleExport.pc = "none"
  BY DEF IdleExport
<1> QED BY <1>1 DEF ExportTyped, ExportCalm

\* The channels are read, or the export ends at one it cannot decrypt.
LEMMA ListChannelsKeeps ==
    ASSUME TInv, ListChannels
    PROVE  ExportTyped' /\ ExportCalm'
<1> DEFINE x == Packed(db.channels, export.mode)
<1>1. /\ Sound(db) /\ DOMAIN export = {"pc", "mode", "listed", "left", "part", "calm"} /\ export.pc = "channels"
      /\ export.mode \in Modes /\ export.listed \in SUBSET HostRows /\ export.left \subseteq export.listed
      /\ export.part \in Decoded /\ IsFiniteSet(export.part.hosts) /\ export.left = {}
  BY DEF TInv, TypeOK, ExportTyped, ListChannels
<1>2. CASE export' = IdleExport
  BY <1>2, IdleExportKeeps
<1>3. CASE export' # IdleExport
  <2>1. /\ export' = [export EXCEPT !.pc = "rules", !.part.channels = x] /\ db' = db
        /\ export.mode = "passphrase" => \A c \in db.channels : Decryptable(c)
    BY <1>3 DEF ListChannels, Packed
  <2>2. x \in SUBSET [name : Names, on : BOOLEAN, cipher : Ciphers]
    BY <1>1, <2>1, LinksMade, PackedTyped
  <2> HIDE DEF x
  <2>3. /\ DOMAIN export' = {"pc", "mode", "listed", "left", "part", "calm"} /\ export'.pc = "rules"
        /\ export'.mode = export.mode /\ export'.listed = export.listed /\ export'.left = export.left
        /\ export'.calm = export.calm /\ export'.part = [export.part EXCEPT !.channels = x]
    BY <1>1, <2>1
  <2>4. /\ export'.part \in Decoded /\ export'.part.hosts = export.part.hosts /\ export'.part.hs = export.part.hs
        /\ export'.part.hc = export.part.hc /\ export'.part.valid = export.part.valid
        /\ export'.part.mode = export.part.mode /\ export'.part.key = export.part.key
        /\ export'.part.schedules = export.part.schedules /\ export'.part.channels = x
    BY <1>1, <2>2, <2>3 DEF Decoded
  <2>5. ExportTyped'
    BY <1>1, <2>3, <2>4 DEF ExportTyped
  <2>6. Scheduled' = Scheduled
    BY <1>1, <2>3 DEF Scheduled
  <2>7. ASSUME export'.calm PROVE ExportCalm'
    <3>1. /\ export.listed = db.hosts /\ Headed(export.part, export.mode, db.hosts)
          /\ export.part.hs = NamedLinks(db, LinksOf(db.hs, Scheduled))
          /\ export.part.hc = NamedLinks(db, LinksOf(db.hc, export.listed \ export.left))
          /\ export.part.schedules = db.schedules
      BY <1>1, <2>3, <2>7 DEF TInv, ExportCalm
    <3>2. Headed(export'.part, export'.mode, db.hosts)
      BY <2>3, <2>4, <3>1 DEF Headed
    <3>3. export'.mode = "passphrase" => \A c \in db'.channels : Decryptable(c)
      BY <2>1, <2>3
    <3>4. export'.part.channels = Packed(db'.channels, export'.mode)
      BY <2>1, <2>3, <2>4 DEF x
    <3>5. /\ export'.listed = db'.hosts /\ Headed(export'.part, export'.mode, db'.hosts)
          /\ export'.part.hs = NamedLinks(db', LinksOf(db'.hs, Scheduled'))
          /\ export'.part.hc = NamedLinks(db', LinksOf(db'.hc, export'.listed \ export'.left))
          /\ export'.part.schedules = db'.schedules
      BY <2>1, <2>3, <2>4, <2>6, <3>1, <3>2
    <3> QED BY <3>3, <3>4, <3>5 DEF ExportCalm
  <2>8. ASSUME ~export'.calm PROVE ExportCalm'
    BY <2>8 DEF ExportCalm
  <2> QED BY <2>5, <2>7, <2>8
<1> QED BY <1>2, <1>3

\* The document an export ends with.
LEMMA ListRulesKeeps ==
    ASSUME TInv, ListRules
    PROVE  doc' # NoDocument /\ doc' \in Decoded /\ IsFiniteSet(doc'.hosts) /\ OriginWritten'
<1> DEFINE x == RuleEntries(db.rules, export.listed)
<1>1. /\ Sound(db) /\ export.pc = "rules" /\ export.left = {}
      /\ export.mode \in Modes /\ export.listed \in SUBSET HostRows
      /\ export.part \in Decoded /\ IsFiniteSet(export.part.hosts)
  BY DEF TInv, TypeOK, ExportTyped, ListRules
<1>2. doc' = [export.part EXCEPT !.rules = x] /\ db' = db /\ origin' = (IF export.calm THEN db ELSE NoTables)
  BY DEF ListRules
<1>3. x \in Seq(RuleEntry)
  BY <1>1, HostsMade, RuleEntriesFacts
<1> HIDE DEF x
<1>4. /\ doc' \in Decoded /\ doc'.hosts = export.part.hosts /\ doc'.hs = export.part.hs /\ doc'.hc = export.part.hc
      /\ doc'.valid = export.part.valid /\ doc'.mode = export.part.mode /\ doc'.key = export.part.key
      /\ doc'.schedules = export.part.schedules /\ doc'.channels = export.part.channels /\ doc'.rules = x
  BY <1>1, <1>2, <1>3 DEF Decoded
<1>5. doc' # NoDocument
  <2>1. \A d \in Decoded : "hosts" \in DOMAIN d
    BY DEF Decoded
  <2>2. "hosts" \notin DOMAIN NoDocument
    BY DEF NoDocument
  <2> QED BY <1>4, <2>1, <2>2
<1>6. ASSUME export.calm PROVE Sound(origin') /\ Written(origin', doc')
  <2>1. origin' = db
    BY <1>2, <1>6
  <2>2. /\ export.listed = db.hosts /\ Headed(export.part, export.mode, db.hosts)
        /\ export.part.hs = NamedLinks(db, LinksOf(db.hs, Scheduled))
        /\ export.part.hc = NamedLinks(db, LinksOf(db.hc, export.listed \ export.left))
        /\ export.part.schedules = db.schedules
        /\ export.part.channels = Packed(db.channels, export.mode)
        /\ export.mode = "passphrase" => \A c \in db.channels : Decryptable(c)
    BY <1>1, <1>6 DEF TInv, ExportCalm
  <2>3. Scheduled = db.hosts /\ export.listed \ export.left = db.hosts
    BY <1>1, <2>2 DEF Scheduled
  <2>4. LinksOf(db.hs, db.hosts) = db.hs /\ LinksOf(db.hc, db.hosts) = db.hc
    BY <1>1, LinksOfAll
  <2>5. doc'.mode = export.mode /\ Headed(doc', doc'.mode, db.hosts)
    BY <1>4, <2>2 DEF Headed
  <2>6. doc'.hs = NamedLinks(db, db.hs) /\ doc'.hc = NamedLinks(db, db.hc)
    BY <1>4, <2>2, <2>3, <2>4
  <2>7. doc'.rules = RuleEntries(db.rules, db.hosts)
    BY <1>4, <2>2 DEF x
  <2>8. Written(db, doc')
    BY <1>4, <2>2, <2>5, <2>6, <2>7 DEF Written
  <2> QED BY <1>1, <2>1, <2>8
<1>7. OriginWritten'
  <2>1. CASE export.calm
    BY <1>5, <1>6, <2>1 DEF OriginWritten
  <2>2. CASE ~export.calm
    BY <1>2, <2>2 DEF OriginWritten
  <2> QED BY <2>1, <2>2
<1>8. IsFiniteSet(doc'.hosts)
  BY <1>1, <1>4
<1>9. doc' \in Decoded
  BY <1>4
<1> QED BY <1>5, <1>7, <1>8, <1>9

\* The bound on changes.
LEMMA ChangeCounted ==
    ASSUME changes \in 0 .. MaxChanges, changes < MaxChanges, changes' = changes + 1
    PROVE  changes' \in 0 .. MaxChanges
<1>1. MaxChanges \in Nat
  BY BundleAssumption
<1> QED BY <1>1

\* Every step of an export.
LEMMA ExportTypes == ASSUME TInv, ExportStep PROVE TInv'
<1>1. UNCHANGED <<db, import, changes>>
  BY DEF ExportStep, ListHosts, SchedulesForHost, ChannelsForHost, ListSchedules, ListChannels, ListRules
<1>2. TypeOK' /\ (import'.pc # "none" => Importable(import'.from))
  BY <1>1 DEF TInv, TypeOK
<1>3. CASE ListRules
  <2>1. ExportTyped' /\ ExportCalm'
    BY <1>3, IdleExportKeeps DEF ListRules
  <2> QED BY <1>2, <1>3, <2>1, ListRulesKeeps DEF TInv
<1>4. CASE ~ListRules
  <2>1. UNCHANGED <<doc, origin>>
    BY <1>4 DEF ExportStep, ListHosts, SchedulesForHost, ChannelsForHost, ListSchedules, ListChannels
  <2>2. OriginWritten' /\ (doc' # NoDocument => doc' \in Decoded /\ IsFiniteSet(doc'.hosts))
    BY <2>1 DEF TInv, OriginWritten
  <2>3. ExportTyped' /\ ExportCalm'
    BY <1>4, ListHostsKeeps, SchedulesForHostKeeps, ChannelsForHostKeeps, ListSchedulesKeeps, ListChannelsKeeps
    DEF ExportStep
  <2> QED BY <1>2, <2>2, <2>3 DEF TInv
<1> QED BY <1>3, <1>4

\* An export that is told of a change is calm no more.
LEMMA DisturbedTyped == ASSUME ExportTyped, export' = Disturbed PROVE ExportTyped' /\ ExportCalm'
<1>1. /\ DOMAIN export' = DOMAIN export /\ export'.pc = export.pc /\ export'.mode = export.mode
      /\ export'.listed = export.listed /\ export'.left = export.left /\ export'.part = export.part
      /\ ~export'.calm
  BY DEF ExportTyped, Disturbed
<1> QED BY <1>1 DEF ExportTyped, ExportCalm

\* What the open transaction has made of the tables is what it commits.
LEMMA CommitSound == ASSUME TInv, Staged, Commit PROVE Sound(db')
<1>1. db' = Applied(db, import.from, import.mode)
  BY DEF Commit, Staged
<1>2. Sound(db) /\ Importable(import.from)
  BY DEF TInv, TypeOK, Commit
<1> QED BY <1>1, <1>2, AppliedFacts

\* Every stage of an import, its end and its failure.
LEMMA ImportTypes == ASSUME TInv, BInv, Staged, ImportStep PROVE TInv'
<1>1. UNCHANGED <<doc, origin>>
  BY DEF ImportStep, BeginImport, Stage, Wipe, UpsertHosts, UpsertSchedules, UpsertChannels, UpsertRules,
     LinkByNames, Commit, Rollback
<1>2. OriginWritten' /\ (doc' # NoDocument => doc' \in Decoded /\ IsFiniteSet(doc'.hosts))
  BY <1>1 DEF TInv, OriginWritten
<1>3. ASSUME UNCHANGED <<db, export>> PROVE ExportTyped' /\ ExportCalm'
  BY <1>3 DEF TInv, ExportTyped, ExportCalm, Scheduled, CurrentHost
<1>4. ASSUME NEW d \in Documents \cup ({doc} \ {NoDocument}), NEW mode, NEW dry, NEW passphrase,
             BeginImport(d, mode, dry, passphrase)
      PROVE  TInv'
  <2>1. UNCHANGED <<db, export>> /\ Validated(d) /\ changes' = changes + 1 /\ changes < MaxChanges
    BY <1>4 DEF BeginImport
  <2>2. import'.from = d
    BY <1>4 DEF BeginImport
  <2>3. d \in Decoded /\ IsFiniteSet(d.hosts) /\ Honest(d)
    BY InputsAssumption DEF TInv, BInv
  <2>4. TypeOK'
    BY <2>1, ChangeCounted DEF TInv, TypeOK
  <2> QED BY <1>2, <1>3, <2>1, <2>2, <2>3, <2>4 DEF TInv, Importable
<1>5. ASSUME NEW from, NEW to, NEW tx, from # "none", Stage(from, to, tx) PROVE TInv'
  <2>1. UNCHANGED <<db, export, changes>> /\ import'.from = import.from /\ import.pc # "none"
    BY <1>5 DEF Stage, Staged
  <2> QED BY <1>2, <1>3, <2>1 DEF TInv, TypeOK
<1>6. ASSUME Wipe \/ UpsertHosts \/ UpsertSchedules \/ UpsertChannels \/ UpsertRules \/ LinkByNames PROVE TInv'
  BY <1>5, <1>6 DEF Wipe, UpsertHosts, UpsertSchedules, UpsertChannels, UpsertRules, LinkByNames
<1>7. import' = IdleImport => import'.pc = "none"
  <2>1. IdleImport.pc = "none"
    BY DEF IdleImport
  <2> QED BY <2>1
<1>8. ASSUME Commit PROVE TInv'
  <2>1. Sound(db') /\ UNCHANGED changes /\ export' = Disturbed /\ import' = IdleImport
    BY <1>8, CommitSound DEF Commit
  <2>2. ExportTyped' /\ ExportCalm'
    BY <2>1, DisturbedTyped DEF TInv
  <2> QED BY <1>2, <1>7, <2>1, <2>2 DEF TInv, TypeOK
<1>9. ASSUME Rollback PROVE TInv'
  <2>1. UNCHANGED <<db, export, changes>> /\ import' = IdleImport
    BY <1>9 DEF Rollback
  <2> QED BY <1>2, <1>3, <1>7, <2>1 DEF TInv, TypeOK
<1> QED BY <1>4, <1>6, <1>8, <1>9 DEF ImportStep

\* Every change through the API.
LEMMA EditTypes == ASSUME TInv, EditStep PROVE TInv'
<1>1. PICK tables : Edit(tables) /\ Sound(tables)
  BY EditsAreSound DEF TInv, TypeOK, EditSound
<1>2. /\ Sound(db') /\ changes' = changes + 1 /\ changes < MaxChanges /\ export' = Disturbed
      /\ UNCHANGED <<import, doc, origin>>
  BY <1>1 DEF Edit
<1>3. ExportTyped' /\ ExportCalm'
  BY <1>2, DisturbedTyped DEF TInv
<1>4. TypeOK'
  BY <1>2, ChangeCounted DEF TInv, TypeOK
<1> QED BY <1>2, <1>3, <1>4 DEF TInv, OriginWritten

\* A crash leaves no export and no transaction.
LEMMA CrashTypes == ASSUME TInv, Crash PROVE TInv'
<1>1. /\ UNCHANGED <<db, doc, origin, changes>> /\ export' = IdleExport /\ import' = IdleImport
      /\ import'.pc = "none"
  BY DEF Crash, IdleImport
<1> QED BY <1>1, IdleExportKeeps DEF TInv, TypeOK, OriginWritten

\* The three invariants hold together: the commit rests on Staged and Honest.
LEMMA TInvInvariant == Spec => [](TInv /\ BInv /\ Staged)
<1>1. Init => TInv
  <2> SUFFICES ASSUME Init PROVE TInv
    OBVIOUS
  <2>1. TypeOK
    <3>1. Sound(db) /\ changes = 0
      BY InputsAssumption DEF Init
    <3>2. MaxChanges \in Nat
      BY BundleAssumption
    <3>3. 0 \in 0 .. MaxChanges
      BY <3>2
    <3> QED BY <3>1, <3>3 DEF TypeOK
  <2>2. ExportTyped /\ ExportCalm
    BY DEF Init, IdleExport, ExportTyped, ExportCalm
  <2>3. import.pc = "none" /\ doc = NoDocument /\ origin = NoTables
    BY DEF Init, IdleImport
  <2> QED BY <2>1, <2>2, <2>3 DEF TInv, OriginWritten
<1>2. Init => BInv /\ Staged
  BY BInvInit, StagedInit
<1>3. TInv /\ BInv /\ Staged /\ [Next]_vars => (TInv /\ BInv /\ Staged)'
  <2>1. TInv /\ UNCHANGED vars => TInv'
    BY DEF vars, TInv, TypeOK, OriginWritten, ExportTyped, ExportCalm, Scheduled, CurrentHost
  <2>2. TInv /\ BInv /\ Staged /\ Next => TInv'
    BY ExportTypes, ImportTypes, EditTypes, CrashTypes DEF Next
  <2> QED BY <2>1, <2>2, BInvStep, StagedStep
<1> QED BY <1>1, <1>2, <1>3, PTL DEF Spec

\* Through every edit with its cascades and every import, the tables keep what the
\* schema declares: unique keys and names, rules and links that refer to rows, and
\* no configuration beside needs_credentials (migrations, ApplyImport, the store).
THEOREM TablesStayConsistent == Spec => []TypeOK
BY TInvInvariant, PTL DEF TInv

\* An import applied to its own outcome changes nothing, in either mode and though
\* rule names may repeat in the tables (upsertHost, upsertRule, ApplyImport).
THEOREM MergesRepeat == Spec => []ImportIdempotent
<1>1. TInv /\ Staged => ImportIdempotent
  <2> SUFFICES ASSUME TInv, Staged, import.pc = "commit"
               PROVE  Applied(import.tx, import.from, "merge") = import.tx
    BY DEF ImportIdempotent
  <2>1. import.tx = Applied(db, import.from, import.mode)
    BY DEF Staged
  <2>2. Sound(db) /\ Importable(import.from)
    BY DEF TInv, TypeOK
  <2> QED BY <2>1, <2>2, MergedAgain
<1> QED BY <1>1, TInvInvariant, PTL

\* The tables change by an edit or by the whole of one import that is no dry run,
\* and what it makes of them is what an import promises, whichever stage fails and
\* whenever the process dies (Store.ApplyImport).
THEOREM ImportsDoAllOrNothing == Spec => ImportAllOrNothing
<1>1. TInv /\ [db' # db /\ ~Free => ~import.dry /\ db' = Applied(db, import.from, import.mode)]_vars
        => [db' # db /\ ~Free => /\ ~import.dry
                                 /\ Imported(db, import.from, import.mode, db')]_vars
  <2> SUFFICES ASSUME TInv, ~import.dry, db' = Applied(db, import.from, import.mode), ~Free
               PROVE  Imported(db, import.from, import.mode, db')
    OBVIOUS
  <2>1. Sound(db) /\ Importable(import.from)
    BY DEF TInv, TypeOK, Free
  <2>2. Imported(db, import.from, import.mode, Applied(db, import.from, import.mode))
    BY <2>1, AppliedIsImported
  <2> QED BY <2>2
<1> QED BY <1>1, TInvInvariant, ImportsAreAtomic, PTL DEF AppliedWhole, ImportAllOrNothing

-----------------------------------------------------------------------------
(* A document made while nothing changed.                                  *)

\* The names that rules and links of a document use are those of its entries.
LEMMA NamedLinksWithin ==
    ASSUME NEW t, Sound(t), NEW names, NEW links, links \subseteq IdsOf(t.hosts) \X names
    PROVE  \A l \in NamedLinks(t, links) : l[1] \in NamesOf(t.hosts) /\ l[2] \in names
<1>1. ASSUME NEW k \in links PROVE HostName(t.hosts, k[1]) \in NamesOf(t.hosts) /\ k[2] \in names
  <2>1. k[1] \in IdsOf(t.hosts) /\ k[2] \in names
    OBVIOUS
  <2>2. PICK h \in t.hosts : h.id = k[1]
    BY <2>1 DEF IdsOf
  <2>3. HostName(t.hosts, h.id) = h.name
    BY HostNameFacts
  <2> QED BY <2>1, <2>2, <2>3 DEF NamesOf
<1>2. \A l \in NamedLinks(t, links) : \E k \in links : l = <<HostName(t.hosts, k[1]), k[2]>>
  BY DEF NamedLinks
<1> QED BY <1>1, <1>2

\* Hosts keep their unique names in a document.
LEMMA StrippedDistinct ==
    ASSUME NEW hosts \in SUBSET HostRows, DistinctNames(hosts)
    PROVE  DistinctNames(Stripped(hosts))
<1>1. \A e \in Stripped(hosts) : \E h \in hosts : e = [name |-> h.name, value |-> h.value]
  BY DEF Stripped
<1>2. \A e \in Stripped(hosts) : \E h \in hosts : e = [name |-> h.name, value |-> h.value] /\ e.name = h.name
  BY <1>1
<1> QED BY <1>2 DEF DistinctNames

\* Channels keep their unique names in a document.
LEMMA PackedDistinct ==
    ASSUME NEW channels, DistinctNames(channels), NEW mode
    PROVE  DistinctNames(Packed(channels, mode)) /\ NamesOf(Packed(channels, mode)) = NamesOf(channels)
<1> DEFINE P(c) == [name |-> c.name, on |-> c.on, cipher |-> Carried(c, mode)]
<1>1. \A c : P(c).name = c.name
  OBVIOUS
<1>2. Packed(channels, mode) = {P(c) : c \in channels}
  BY DEF Packed
<1> HIDE DEF P
<1>3. DistinctNames(Packed(channels, mode))
  BY <1>1, <1>2 DEF DistinctNames
<1>4. NamesOf(Packed(channels, mode)) = NamesOf(channels)
  BY <1>1, <1>2 DEF NamesOf
<1> QED BY <1>3, <1>4

\* What was written is accepted, unless rules share a name.
LEMMA WrittenIsValid ==
    ASSUME NEW t, Sound(t), NEW d \in Decoded, Written(t, d), OneNamePerRule(d)
    PROVE  Validated(d) /\ Resolved(d, TRUE)
<1>1. /\ d.valid /\ d.key = (IF d.mode = "instance_key" THEN Key ELSE "") /\ d.hosts = Stripped(t.hosts)
      /\ d.schedules = t.schedules /\ d.channels = Packed(t.channels, d.mode)
      /\ d.rules = RuleEntries(t.rules, t.hosts)
      /\ d.hs = NamedLinks(t, t.hs) /\ d.hc = NamedLinks(t, t.hc)
  BY DEF Written, Headed
<1>2. /\ t.hosts \in SUBSET HostRows /\ IsFiniteSet(t.hosts) /\ DistinctNames(t.hosts)
      /\ t.rules \in SUBSET RuleRows /\ IsFiniteSet(t.rules)
  BY HostsMade
<1>3. \A r \in t.rules : r.host \in IdsOf(t.hosts) \cup {Global}
  BY HostsMade
<1>4. /\ DistinctNames(t.schedules) /\ DistinctNames(t.channels)
      /\ t.hs \subseteq (IdsOf(t.hosts) \X NamesOf(t.schedules))
      /\ t.hc \subseteq (IdsOf(t.hosts) \X NamesOf(t.channels))
  BY LinksMade
<1>5. DistinctNames(d.hosts) /\ NamesOf(d.hosts) = NamesOf(t.hosts)
  BY <1>1, <1>2, StrippedDistinct, StrippedFacts
<1>6. DistinctNames(d.channels) /\ NamesOf(d.channels) = NamesOf(t.channels)
  BY <1>1, <1>4, PackedDistinct
<1>7. \A r \in t.rules : HostName(t.hosts, r.host) \in NamesOf(t.hosts) \cup {NoHost}
  <2> SUFFICES ASSUME NEW r \in t.rules PROVE HostName(t.hosts, r.host) \in NamesOf(t.hosts) \cup {NoHost}
    OBVIOUS
  <2>1. CASE r.host = Global
    BY <2>1, NoHostFacts
  <2>2. CASE r.host # Global
    <3>1. PICK h \in t.hosts : h.id = r.host
      BY <1>3, <2>2 DEF IdsOf
    <3>2. HostName(t.hosts, h.id) = h.name
      BY HostNameFacts
    <3> QED BY <3>1, <3>2 DEF NamesOf
  <2> QED BY <2>1, <2>2
<1>8. \A i \in DOMAIN d.rules : d.rules[i].host \in NamesOf(d.hosts) \cup {NoHost}
  <2> SUFFICES ASSUME NEW i \in DOMAIN d.rules PROVE d.rules[i].host \in NamesOf(d.hosts) \cup {NoHost}
    OBVIOUS
  <2>1. PICK r \in t.rules : d.rules[i] = EntryOf(r, t.hosts)
    <3> DEFINE es == RuleEntries(t.rules, t.hosts)
    <3>1. \A k \in DOMAIN es : \E r \in t.rules : es[k] = EntryOf(r, t.hosts)
      BY <1>2, RuleEntriesFacts
    <3> HIDE DEF es
    <3>2. d.rules = es
      BY <1>1 DEF es
    <3> QED BY <3>1, <3>2
  <2>2. d.rules[i].host = HostName(t.hosts, r.host)
    BY <2>1 DEF EntryOf
  <2> QED BY <1>5, <1>7, <2>2
<1>9. /\ \A l \in d.hs : l[1] \in NamesOf(d.hosts) /\ l[2] \in NamesOf(d.schedules)
      /\ \A l \in d.hc : l[1] \in NamesOf(d.hosts) /\ l[2] \in NamesOf(d.channels)
  <2>1. \A l \in NamedLinks(t, t.hs) : l[1] \in NamesOf(t.hosts) /\ l[2] \in NamesOf(t.schedules)
    BY <1>4, NamedLinksWithin
  <2>2. \A l \in NamedLinks(t, t.hc) : l[1] \in NamesOf(t.hosts) /\ l[2] \in NamesOf(t.channels)
    BY <1>4, NamedLinksWithin
  <2> QED BY <1>1, <1>5, <1>6, <2>1, <2>2
<1>10. Validated(d)
  BY <1>1, <1>4, <1>5, <1>6, <1>8, <1>9 DEF Validated, OneNamePerRule
<1>11. Resolved(d, TRUE)
  BY <1>1 DEF Resolved
<1> QED BY <1>10, <1>11

\* What Export wrote while nothing changed, Import takes back, unless two rules
\* share a name (bundle.Export, validate, resolveChannels).
THEOREM QuietExportsAreAccepted == Spec => []QuietExportAccepted
<1>1. TInv => QuietExportAccepted
  <2> SUFFICES ASSUME TInv, doc # NoDocument, origin # NoTables, OneNamePerRule(doc)
               PROVE  Validated(doc) /\ Resolved(doc, TRUE)
    BY DEF QuietExportAccepted
  <2>1. Sound(origin) /\ Written(origin, doc) /\ doc \in Decoded
    BY DEF TInv, OriginWritten
  <2> QED BY <2>1, WrittenIsValid
<1> QED BY <1>1, TInvInvariant, PTL

-----------------------------------------------------------------------------
(* Migration.                                                              *)

\* An instance may start with empty tables.
LEMMA NoTablesSound == Sound(NoTables)
<1>1. /\ NoTables.hosts = {} /\ NoTables.schedules = {} /\ NoTables.channels = {} /\ NoTables.rules = {}
      /\ NoTables.hs = {} /\ NoTables.hc = {}
  BY DEF NoTables
<1>2. NoTables \in Tables
  BY DEF NoTables, Tables
<1>3. IsFiniteSet({})
  BY FS_EmptySet
<1>4. Consistent(NoTables)
  BY <1>1 DEF Consistent, DistinctIds, DistinctNames
<1> QED BY <1>1, <1>2, <1>3, <1>4 DEF Sound

\* The secret that was packed is the one that arrives.
LEMMA Unpacked ==
    ASSUME NEW c \in ChannelRows, NEW mode \in Modes, mode # "none", mode = "passphrase" => Decryptable(c)
    PROVE  LET r == Received([name |-> c.name, on |-> c.on, cipher |-> Carried(c, mode)], mode) IN
           r.name = c.name /\ r.on = c.on /\ r.config = c.config
<1>1. CASE mode = "instance_key"
  BY <1>1 DEF Received, Carried
<1>2. CASE mode = "passphrase"
  <2>1. c.config \in [key : Keys \cup {"passphrase"}, secret : Secrets] /\ c.config.key = Key
    BY <1>2, InTheClear
  <2>2. [[c.config EXCEPT !.key = "passphrase"] EXCEPT !.key = Key] = c.config
    BY <2>1
  <2> QED BY <1>2, <2>2 DEF Received, Carried
<1> QED BY <1>1, <1>2 DEF Modes

\* A fresh instance holds what the document says, name by name.
LEMMA Migrated ==
    ASSUME NEW t, Sound(t), NEW d, Importable(d), Written(t, d), d.mode # "none", NEW mode
    PROVE  Content(Applied(NoTables, d, mode)) = Content(t)
<1> DEFINE w == Start(NoTables, mode)
           c == BeforeRules(NoTables, d, mode)
           u == Applied(NoTables, d, mode)
<1>1. /\ w.hosts = {} /\ w.schedules = {} /\ w.channels = {} /\ w.rules = {} /\ w.hs = {} /\ w.hc = {}
  <2>1. /\ NoTables.hosts = {} /\ NoTables.schedules = {} /\ NoTables.channels = {} /\ NoTables.rules = {}
        /\ NoTables.hs = {} /\ NoTables.hc = {}
    BY DEF NoTables
  <2> QED BY <2>1, NoTablesSound, StartFacts
<1> HIDE DEF w, c, u
<1>2. /\ Sound(u)
      /\ HostsFrom(w.hosts, d.hosts, u.hosts)
      /\ u.schedules = Upserted(w.schedules, d.schedules)
      /\ u.channels = Upserted(w.channels, Arrived(d))
      /\ c.hosts = u.hosts /\ c.rules = w.rules /\ RulesFrom(c, d.rules, DOMAIN d.rules, u.rules)
      /\ u.hs = w.hs \cup Resolve(u, d.hs) /\ NamedLinks(u, Resolve(u, d.hs)) = d.hs
      /\ u.hc = w.hc \cup Resolve(u, d.hc) /\ NamedLinks(u, Resolve(u, d.hc)) = d.hc
  BY AppliedFacts, NoTablesSound DEF w, c, u
<1>3. /\ d.hosts = Stripped(t.hosts) /\ d.schedules = t.schedules /\ d.channels = Packed(t.channels, d.mode)
      /\ d.rules = RuleEntries(t.rules, t.hosts)
      /\ d.hs = NamedLinks(t, t.hs) /\ d.hc = NamedLinks(t, t.hc)
  BY DEF Written, Headed
<1>4. {[name |-> g.name, value |-> g.value] : g \in u.hosts} = Stripped(t.hosts)
  <2>1. \A e \in d.hosts : e = [name |-> e.name, value |-> e.value]
    <3>1. d.hosts \in SUBSET Entry
      BY DocumentFacts DEF Importable
    <3> QED BY <3>1 DEF Entry
  <2>2. \A e \in d.hosts : \E g \in u.hosts : g.name = e.name /\ g.value = e.value
    BY <1>2 DEF HostsFrom
  <2>3. \A g \in u.hosts : \E e \in d.hosts : g.name = e.name
    BY <1>1, <1>2 DEF HostsFrom, NamesOf
  <2>4. \A g \in u.hosts : \E e \in d.hosts : g.name = e.name /\ g.value = e.value
    BY <1>2, <2>2, <2>3 DEF HostsFrom, DistinctNames
  <2> QED BY <1>3, <2>1, <2>2, <2>4
<1>5. u.schedules = t.schedules
  BY <1>1, <1>2, <1>3 DEF Upserted
<1>6. {[name |-> k.name, on |-> k.on, config |-> k.config] : k \in u.channels}
         = {[name |-> k.name, on |-> k.on, config |-> k.config] : k \in t.channels}
  <2> DEFINE P(k) == [name |-> k.name, on |-> k.on, cipher |-> Carried(k, d.mode)]
             Q(k) == [name |-> k.name, on |-> k.on, config |-> k.config]
  <2>1. u.channels = {Received(P(k), d.mode) : k \in t.channels}
    <3>1. d.channels = {P(k) : k \in t.channels}
      BY <1>3 DEF Packed
    <3>2. u.channels = Arrived(d)
      BY <1>1, <1>2 DEF Upserted
    <3>3. Arrived(d) = {Received(e, d.mode) : e \in d.channels}
      BY DEF Arrived
    <3> HIDE DEF P
    <3> QED BY <3>1, <3>2, <3>3
  <2>2. ASSUME NEW k \in t.channels PROVE Q(Received(P(k), d.mode)) = Q(k)
    <3>1. k \in ChannelRows /\ d.mode \in Modes /\ (d.mode = "passphrase" => Decryptable(k))
      BY LinksMade, DocumentFacts DEF Importable, Written
    <3> QED BY <3>1, Unpacked
  <2> HIDE DEF P, Q
  <2>3. {Q(k) : k \in u.channels} = {Q(k) : k \in t.channels}
    BY <2>1, <2>2
  <2> QED BY <2>3 DEF Q
<1>7. {RuleByName(u, r) : r \in u.rules} = {RuleByName(t, r) : r \in t.rules}
  <2>1. NamesOf(d.hosts) \subseteq NamesOf(u.hosts)
    BY <1>2 DEF HostsFrom
  <2>2. ASSUME NEW i \in DOMAIN d.rules, NEW r, Holds(c, r, d.rules[i]) PROVE RuleByName(u, r) = d.rules[i]
    <3>1. Holds(u, r, d.rules[i])
      BY <1>2, <2>2, SameHosts
    <3> QED BY <1>2, <2>1, <3>1, HoldsByName
  <2>3. \A r \in u.rules : \E i \in DOMAIN d.rules : Holds(c, r, d.rules[i])
    BY <1>1, <1>2 DEF RulesFrom
  <2>4. \A i \in DOMAIN d.rules : \E r \in u.rules : Holds(c, r, d.rules[i])
    BY <1>2 DEF RulesFrom
  <2>5. {RuleByName(u, r) : r \in u.rules} = {d.rules[i] : i \in DOMAIN d.rules}
    BY <2>2, <2>3, <2>4
  <2>6. {d.rules[i] : i \in DOMAIN d.rules} = {EntryOf(r, t.hosts) : r \in t.rules}
    <3> DEFINE es == RuleEntries(t.rules, t.hosts)
    <3>1. t.rules \in SUBSET RuleRows /\ IsFiniteSet(t.rules) /\ t.hosts \in SUBSET HostRows
      BY HostsMade
    <3>2. {es[i] : i \in DOMAIN es} = {EntryOf(r, t.hosts) : r \in t.rules}
      BY <3>1, RuleEntriesFacts
    <3> HIDE DEF es
    <3>3. d.rules = es
      BY <1>3 DEF es
    <3> QED BY <3>2, <3>3
  <2>7. \A r : EntryOf(r, t.hosts) = RuleByName(t, r)
    BY DEF EntryOf, RuleByName
  <2> QED BY <2>5, <2>6, <2>7
<1>8. NamedLinks(u, u.hs) = NamedLinks(t, t.hs) /\ NamedLinks(u, u.hc) = NamedLinks(t, t.hc)
  BY <1>1, <1>2, <1>3
<1>9. Content(u) = Content(t)
  BY <1>4, <1>5, <1>6, <1>7, <1>8 DEF Content, Stripped
<1> QED BY <1>9 DEF u

\* A document with its secrets, made while nothing changed, brings a fresh instance
\* to the content of the exported one, in either mode (bundle.Export, Import).
THEOREM MigrationsKeepContent == Spec => []RoundTrip
<1>1. TInv /\ BInv => RoundTrip
  <2> SUFFICES ASSUME TInv, BInv, origin # NoTables, doc.mode # "none", OneNamePerRule(doc),
                      NEW mode \in {"merge", "replace"}
               PROVE  Content(Applied(NoTables, doc, mode)) = Content(origin)
    BY DEF RoundTrip
  <2>1. /\ doc # NoDocument /\ Sound(origin) /\ Written(origin, doc) /\ doc \in Decoded /\ IsFiniteSet(doc.hosts)
    BY DEF TInv, OriginWritten
  <2>2. Honest(doc)
    BY <2>1 DEF BInv
  <2>3. Importable(doc)
    BY <2>1, <2>2, WrittenIsValid DEF Importable
  <2> QED BY <2>1, <2>3, Migrated
<1> QED BY <1>1, TInvInvariant, PTL
=============================================================================
