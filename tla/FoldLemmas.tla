----------------------------- MODULE FoldLemmas -----------------------------
(***************************************************************************)
(* Induction over finite sets, and what a fold computes.  The theorems of  *)
(* the library speak of operators; here properties are sets and the step   *)
(* of a fold is a function, so that every fact is about values.            *)
(***************************************************************************)
EXTENDS Integers, FiniteSetsExt, FiniteSetTheorems, WellFoundedInduction, TLAPS

\* A set of finite sets that is not empty has a member that contains no other.
LEMMA SmallestMember ==
    ASSUME NEW S, IsFiniteSet(S), NEW T \in SUBSET (SUBSET S), T # {}
    PROVE  \E x \in T : \A y \in T : y \subseteq x => y = x
<1> DEFINE R == StrictSubsetOrdering(S)
<1>1. IsWellFoundedOn(R, FiniteSubsetsOf(S)) /\ FiniteSubsetsOf(S) = SUBSET S
  BY FS_StrictSubsetOrderingWellFounded, FS_FiniteSubsetsOfFinite
<1>2. PICK x \in T : \A y \in T : ~ (<<y, x>> \in R)
  <2> HIDE DEF R
  <2> QED BY <1>1, WFMin, Zenon
<1>3. ASSUME NEW y \in T, y \subseteq x PROVE y = x
  <2>1. <<y, x>>[1] = y /\ <<y, x>>[2] = x /\ <<y, x>> \in (SUBSET S) \X (SUBSET S)
    OBVIOUS
  <2> QED
    BY <2>1, <1>2, <1>3 DEF StrictSubsetOrdering
<1> QED
  BY <1>3

\* What holds of a set when it holds of its strict subsets holds of all.
LEMMA SubsetInduction ==
    ASSUME NEW S, IsFiniteSet(S), NEW T,
           \A s \in SUBSET S : (\A r \in SUBSET s : r # s => r \in T) => s \in T
    PROVE  SUBSET S \subseteq T
<1> DEFINE U == (SUBSET S) \ T
<1>1. SUFFICES ASSUME U # {} PROVE FALSE
  OBVIOUS
<1>2. PICK x \in U : \A y \in U : y \subseteq x => y = x
  <2>1. U \in SUBSET (SUBSET S)
    OBVIOUS
  <2> HIDE DEF U
  <2> QED BY <1>1, <2>1, SmallestMember
<1> QED BY <1>2

\* How a fold takes the elements of S one by one: pick[s] is the last of s.
IsFold(it, S, V, base, pick, step) ==
    /\ it \in [SUBSET S -> V]
    /\ \A s \in SUBSET S : it[s] = IF s = {} THEN base ELSE step[<<it[s \ {pick[s]}], pick[s]>>]

LEMMA FoldExists ==
    ASSUME NEW S, IsFiniteSet(S), NEW V, NEW base \in V, NEW step \in [V \X S -> V], NEW pick,
           \A s \in SUBSET S : s # {} => pick[s] \in s
    PROVE  \E it : IsFold(it, S, V, base, pick, step)
<1> DEFINE Next(g, s) == IF s = {} THEN base ELSE step[<<g[s \ {pick[s]}], pick[s]>>]
           Solves(g, s) == g \in [SUBSET s -> V] /\ \A r \in SUBSET s : g[r] = Next(g, r)
           T == {s \in SUBSET S : \E g : Solves(g, s)}
\* Two solutions agree where both are defined.
<1>1. ASSUME NEW a \in SUBSET S, NEW b \in SUBSET S, NEW g, NEW h, Solves(g, a), Solves(h, b)
      PROVE  \A s \in SUBSET S : s \subseteq a /\ s \subseteq b => g[s] = h[s]
  <2> DEFINE E == {s \in SUBSET S : s \subseteq a /\ s \subseteq b => g[s] = h[s]}
  <2>1. ASSUME NEW s \in SUBSET S, \A r \in SUBSET s : r # s => r \in E PROVE s \in E
    <3> SUFFICES ASSUME s \subseteq a, s \subseteq b PROVE g[s] = h[s]
      OBVIOUS
    <3>1. g[s] = Next(g, s) /\ h[s] = Next(h, s)
      BY <1>1
    <3>2. CASE s = {}
      BY <3>1, <3>2
    <3>3. CASE s # {}
      <4> DEFINE r == s \ {pick[s]}
      <4>1. r \in SUBSET s /\ r # s
        BY <3>3
      <4>2. g[r] = h[r]
        BY <4>1, <2>1
      <4> QED BY <3>1, <3>3, <4>2
    <3> QED BY <3>2, <3>3
  <2>2. SUBSET S \subseteq E
    <3> HIDE DEF E
    <3> QED BY <2>1, SubsetInduction
  <2> QED BY <2>2
<1>2. ASSUME NEW s \in SUBSET S, \A r \in SUBSET s : r # s => r \in T PROVE s \in T
  <2> DEFINE G(r) == CHOOSE g : Solves(g, r)
             last == Next([r \in SUBSET s |-> G(r)[r]], s)
             h == [r \in SUBSET s |-> IF r = s THEN last ELSE G(r)[r]]
  <2>1. \A r \in SUBSET s : r # s => Solves(G(r), r)
    <3> SUFFICES ASSUME NEW r \in SUBSET s, r # s PROVE Solves(G(r), r)
      OBVIOUS
    <3>1. \E g : Solves(g, r)
      BY <1>2
    <3> HIDE DEF Solves
    <3> QED BY <3>1
  <2>2. \A r \in SUBSET s : r # s => G(r)[r] \in V
    <3> SUFFICES ASSUME NEW r \in SUBSET s, r # s PROVE G(r)[r] \in V
      OBVIOUS
    <3>1. G(r) \in [SUBSET r -> V]
      BY <2>1
    <3> HIDE DEF G
    <3> QED BY <3>1
  <2>3. s # {} => s \ {pick[s]} \in SUBSET s /\ s \ {pick[s]} # s /\ pick[s] \in S
    OBVIOUS
  <2>4. last \in V
    <3> HIDE DEF G
    <3> QED BY <2>2, <2>3
  <2>5. h \in [SUBSET s -> V]
    <3> HIDE DEF G, last
    <3> QED BY <2>2, <2>4
  <2>6. ASSUME NEW r \in SUBSET s PROVE h[r] = Next(h, r)
    <3>1. CASE r = s
      <4>1. h[r] = last
        BY <3>1
      <4>2. s # {} => h[s \ {pick[s]}] = G(s \ {pick[s]})[s \ {pick[s]}]
        <5> HIDE DEF G, last
        <5> QED BY <2>3
      <4> HIDE DEF G, h
      <4> QED BY <3>1, <4>1, <4>2, <2>3
    <3>2. CASE r # s
      <4>1. h[r] = G(r)[r] /\ Solves(G(r), r)
        <5> HIDE DEF G, last, Solves
        <5> QED BY <3>2, <2>1
      <4>2. CASE r = {}
        <5> HIDE DEF G, h
        <5> QED BY <4>1, <4>2
      <4>3. CASE r # {}
        <5> DEFINE q == r \ {pick[r]}
        <5>1. q \in SUBSET r /\ q # r /\ q \in SUBSET s /\ q # s
          BY <4>3, <3>2
        <5>2. h[q] = G(q)[q] /\ Solves(G(q), q)
          <6> HIDE DEF G, last, Solves, q
          <6> QED BY <5>1, <2>1
        <5>3. G(q)[q] = G(r)[q]
          <6> HIDE DEF G, h, Solves
          <6> QED BY <4>1, <5>1, <5>2, <1>1
        <5>4. G(r)[r] = step[<<G(r)[q], pick[r]>>]
          <6> HIDE DEF G, h
          <6> QED BY <4>1, <4>3
        <5> HIDE DEF G, h
        <5> QED BY <4>1, <4>3, <5>2, <5>3, <5>4
      <4> QED BY <4>2, <4>3
    <3> QED BY <3>1, <3>2
  <2>7. Solves(h, s)
    <3> HIDE DEF h
    <3> QED BY <2>5, <2>6
  <2> HIDE DEF h, Solves
  <2> QED BY <2>7
<1>3. S \in T
  <2> HIDE DEF T
  <2>1. SUBSET S \subseteq T
    BY <1>2, SubsetInduction
  <2> QED BY <2>1
<1> QED
  <2>1. PICK g : Solves(g, S)
    BY <1>3
  <2> QED BY <2>1 DEF IsFold

\* What every step of a fold preserves holds of its outcome: T are the sets of
\* elements for whose fold it holds.
LEMMA FoldInduction ==
    ASSUME NEW S, IsFiniteSet(S), NEW pick, \A s \in SUBSET S : s # {} => pick[s] \in s, NEW T, {} \in T,
           \A s \in SUBSET S : s # {} /\ s \ {pick[s]} \in T => s \in T
    PROVE  S \in T
<1>1. ASSUME NEW s \in SUBSET S, \A r \in SUBSET s : r # s => r \in T PROVE s \in T
  <2>1. s # {} => s \ {pick[s]} \in SUBSET s /\ s \ {pick[s]} # s
    OBVIOUS
  <2> QED BY <1>1, <2>1
<1> QED BY <1>1, SubsetInduction

-----------------------------------------------------------------------------
(* The least and the greatest of a set of numbers.                         *)

LEMMA MaxOfSet ==
    ASSUME NEW S \in SUBSET Int, IsFiniteSet(S), S # {}
    PROVE  Max(S) \in S /\ \A x \in S : x <= Max(S)
<1> DEFINE T == {s \in SUBSET S : s # {} => \E m \in s : \A x \in s : x <= m}
<1>1. ASSUME NEW s \in SUBSET S, \A r \in SUBSET s : r # s => r \in T PROVE s \in T
  <2> SUFFICES ASSUME s # {} PROVE \E m \in s : \A x \in s : x <= m
    OBVIOUS
  <2>1. PICK y \in s : TRUE
    OBVIOUS
  <2>2. CASE s = {y}
    BY <2>2
  <2>3. CASE s # {y}
    <3>1. PICK m \in s \ {y} : \A x \in s \ {y} : x <= m
      <4>1. s \ {y} # {} /\ s \ {y} # s /\ s \ {y} \in SUBSET s
        BY <2>1, <2>3
      <4>2. s \ {y} \in T
        BY <1>1, <4>1
      <4> QED BY <4>1, <4>2
    <3>2. CASE y <= m
      BY <3>1, <3>2
    <3>3. CASE ~(y <= m)
      <4>1. \A x \in s : x <= y
        BY <3>1, <3>3
      <4> QED BY <4>1
    <3> QED BY <3>2, <3>3
  <2> QED BY <2>2, <2>3
<1>2. SUBSET S \subseteq T
  <2> HIDE DEF T
  <2> QED BY <1>1, SubsetInduction
<1>3. \E m \in S : \A x \in S : m >= x
  <2>1. PICK m \in S : \A x \in S : x <= m
    BY <1>2
  <2> QED BY <2>1
<1> QED BY <1>3 DEF Max

LEMMA MinOfSet ==
    ASSUME NEW S \in SUBSET Int, IsFiniteSet(S), S # {}
    PROVE  Min(S) \in S /\ \A x \in S : Min(S) <= x
<1> DEFINE T == {s \in SUBSET S : s # {} => \E m \in s : \A x \in s : m <= x}
<1>1. ASSUME NEW s \in SUBSET S, \A r \in SUBSET s : r # s => r \in T PROVE s \in T
  <2> SUFFICES ASSUME s # {} PROVE \E m \in s : \A x \in s : m <= x
    OBVIOUS
  <2>1. PICK y \in s : TRUE
    OBVIOUS
  <2>2. CASE s = {y}
    BY <2>2
  <2>3. CASE s # {y}
    <3>1. PICK m \in s \ {y} : \A x \in s \ {y} : m <= x
      <4>1. s \ {y} # {} /\ s \ {y} # s /\ s \ {y} \in SUBSET s
        BY <2>1, <2>3
      <4>2. s \ {y} \in T
        BY <1>1, <4>1
      <4> QED BY <4>1, <4>2
    <3>2. CASE m <= y
      BY <3>1, <3>2
    <3>3. CASE ~(m <= y)
      <4>1. \A x \in s : y <= x
        BY <3>1, <3>3
      <4> QED BY <4>1
    <3> QED BY <3>2, <3>3
  <2> QED BY <2>2, <2>3
<1>2. SUBSET S \subseteq T
  <2> HIDE DEF T
  <2> QED BY <1>1, SubsetInduction
<1>3. \E m \in S : \A x \in S : m =< x
  <2>1. PICK m \in S : \A x \in S : m <= x
    BY <1>2
  <2> QED BY <2>1
<1> QED BY <1>3 DEF Min

LEMMA ImageIsFinite ==
    ASSUME NEW S, IsFiniteSet(S), NEW f, DOMAIN f = S
    PROVE  IsFiniteSet({f[x] : x \in S})
<1> DEFINE T == {f[x] : x \in S}
           g == [x \in S |-> f[x]]
<1>1. g \in Surjection(S, T)
  BY DEF Surjection
<1> QED BY <1>1, FS_Surjection
=============================================================================
