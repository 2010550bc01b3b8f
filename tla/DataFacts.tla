----------------------------- MODULE DataFacts -----------------------------
(***************************************************************************)
(* Facts about numbers, finite sets and sequences that several of the      *)
(* proofs need.                                                            *)
(***************************************************************************)
EXTENDS Integers, Sequences, FiniteSets, SequencesExt, FiniteSetTheorems,
        SequenceTheorems,
        WellFoundedInduction, TLAPS

\* Induction, for a property given as the set of the numbers that have it.
LEMMA Induction ==
  ASSUME NEW S, 0 \in S, \A n \in Nat : n \in S => n + 1 \in S
  PROVE  Nat \subseteq S
<1> DEFINE R == OpToRel(<, Nat)
           T == Nat \ S
<1>1. SUFFICES ASSUME T # {} PROVE FALSE
  OBVIOUS
<1>2. PICK x \in T : \A y \in T : <<y, x>> \notin R
  <2>1. T \subseteq Nat
    OBVIOUS
  <2> HIDE DEF T
  <2>2. QED
    BY <1>1, <2>1, NatLessThanWellFounded, WFMin
<1>3. \A y \in T : ~(y < x)
  BY <1>2 DEF OpToRel
<1>4. x \in Nat /\ x # 0 /\ x \notin S
  OBVIOUS
<1>5. x - 1 \in Nat /\ x - 1 < x /\ x = (x - 1) + 1
  BY <1>4
<1>6. x - 1 \in S
  BY <1>3, <1>5
<1>7. QED
  BY <1>4, <1>5, <1>6

-----------------------------------------------------------------------------
(* The least and the greatest of a set of numbers                          *)

LEMMA MinIs ==
  ASSUME NEW S, S \subseteq Int, S # {}, NEW b \in Int, \A x \in S : b <= x
  PROVE  Min(S) \in S /\ \A x \in S : Min(S) <= x
<1> DEFINE T == {x - b : x \in S}
<1>1. T \subseteq Nat /\ T # {}
  <2>1. \A x \in S : x - b \in Nat
    OBVIOUS
  <2>2. PICK x \in S : TRUE
    OBVIOUS
  <2>3. x - b \in T
    OBVIOUS
  <2>4. QED
    BY <2>1, <2>3
<1>2. PICK t \in T : \A y \in T : <<y, t>> \notin OpToRel(<, Nat)
  <2> HIDE DEF T
  <2>1. QED
    BY <1>1, NatLessThanWellFounded, WFMin
<1>3. \A y \in T : t <= y
  <2> HIDE DEF T
  <2>1. \A y \in T : y \in Nat /\ t \in Nat /\ ~(y < t)
    BY <1>1, <1>2 DEF OpToRel
  <2>2. QED
    BY <2>1
<1>4. PICK m \in S : t = m - b
  OBVIOUS
<1>5. \A x \in S : m <= x
  <2>1. SUFFICES ASSUME NEW x \in S PROVE m <= x
    OBVIOUS
  <2>2. x - b \in T
    OBVIOUS
  <2>3. m - b <= x - b
    BY <1>3, <1>4, <2>2
  <2>4. m \in Int /\ x \in Int /\ b \in Int
    OBVIOUS
  <2> HIDE DEF T
  <2>5. QED
    BY <2>3, <2>4
<1>6. QED
  BY <1>5 DEF Min

LEMMA MaxIs ==
  ASSUME NEW S, S \subseteq Int, S # {}, NEW b \in Int, \A x \in S : x <= b
  PROVE  Max(S) \in S /\ \A x \in S : x <= Max(S)
<1> DEFINE T == {b - x : x \in S}
<1>1. T \subseteq Nat /\ T # {}
  <2>1. \A x \in S : b - x \in Nat
    OBVIOUS
  <2>2. PICK x \in S : TRUE
    OBVIOUS
  <2>3. b - x \in T
    OBVIOUS
  <2>4. QED
    BY <2>1, <2>3
<1>2. PICK t \in T : \A y \in T : <<y, t>> \notin OpToRel(<, Nat)
  <2> HIDE DEF T
  <2>1. QED
    BY <1>1, NatLessThanWellFounded, WFMin
<1>3. \A y \in T : t <= y
  <2> HIDE DEF T
  <2>1. \A y \in T : y \in Nat /\ t \in Nat /\ ~(y < t)
    BY <1>1, <1>2 DEF OpToRel
  <2>2. QED
    BY <2>1
<1>4. PICK m \in S : t = b - m
  OBVIOUS
<1>5. \A x \in S : x <= m
  <2>1. SUFFICES ASSUME NEW x \in S PROVE x <= m
    OBVIOUS
  <2>2. b - x \in T
    OBVIOUS
  <2>3. b - m <= b - x
    BY <1>3, <1>4, <2>2
  <2>4. m \in Int /\ x \in Int /\ b \in Int
    OBVIOUS
  <2> HIDE DEF T
  <2>5. QED
    BY <2>3, <2>4
<1>6. QED
  BY <1>5 DEF Max

\* Of two numbers.
LEMMA MinOfTwo ==
  ASSUME NEW a \in Int, NEW b \in Int
  PROVE  Min({a, b}) = IF a <= b THEN a ELSE b
<1> DEFINE l == IF a <= b THEN a ELSE b
<1>1. l \in Int /\ \A x \in {a, b} : l <= x
  OBVIOUS
<1>2. Min({a, b}) \in {a, b} /\ \A x \in {a, b} : Min({a, b}) <= x
  BY <1>1, MinIs, Zenon
<1>3. QED
  BY <1>2

LEMMA MaxOfTwo ==
  ASSUME NEW a \in Int, NEW b \in Int
  PROVE  Max({a, b}) = IF a <= b THEN b ELSE a
<1> DEFINE g == IF a <= b THEN b ELSE a
<1>1. g \in Int /\ \A x \in {a, b} : x <= g
  OBVIOUS
<1>2. Max({a, b}) \in {a, b} /\ \A x \in {a, b} : x <= Max({a, b})
  BY <1>1, MaxIs, Zenon
<1>3. QED
  BY <1>2

-----------------------------------------------------------------------------
(* Sums over finite sets                                                   *)

Pick(T) == CHOOSE x \in T : TRUE

\* g[T] is the sum of f over T, for the sets T of D; this is how MapThenSumSet adds.
Adds(g, f, D) ==
  /\ DOMAIN g = D
  /\ \A T \in D : g[T] = IF T = {} THEN 0 ELSE f[Pick(T)] + g[T \ {Pick(T)}]

Agree(f, e, T) == \A x \in T : f[x] = e[x]

LEMMA PickOne ==
  ASSUME NEW T, IsFiniteSet(T), T # {}
  PROVE  /\ Pick(T) \in T
         /\ IsFiniteSet(T \ {Pick(T)})
         /\ Cardinality(T) \in Nat
         /\ Cardinality(T \ {Pick(T)}) = Cardinality(T) - 1
<1>1. Pick(T) \in T
  BY DEF Pick
<1>2. QED
  BY <1>1, FS_RemoveElement, FS_CardinalityType

LEMMA SumExists ==
  ASSUME NEW S, IsFiniteSet(S), NEW f \in [S -> Nat]
  PROVE  \E g \in [SUBSET S -> Nat] : Adds(g, f, SUBSET S)
<1> DEFINE Upto(n) == {T \in SUBSET S : Cardinality(T) <= n}
           I == {n \in Nat : \E g \in [Upto(n) -> Nat] : Adds(g, f, Upto(n))}
<1>1. \A T \in SUBSET S : IsFiniteSet(T) /\ Cardinality(T) \in 0 .. Cardinality(S)
  BY FS_Subset, FS_CardinalityType
<1>2. 0 \in I
  <2>1. \A T \in Upto(0) : T = {}
    BY <1>1, FS_EmptySet
  <2>2. Adds([T \in Upto(0) |-> 0], f, Upto(0))
    BY <2>1 DEF Adds
  <2>3. QED
    BY <2>2
<1>3. ASSUME NEW n \in Nat, n \in I
      PROVE  n + 1 \in I
  <2>1. PICK g \in [Upto(n) -> Nat] : Adds(g, f, Upto(n))
    BY <1>3
  <2> DEFINE h == [T \in Upto(n + 1) |-> IF T = {} THEN 0 ELSE f[Pick(T)] + g[T \ {Pick(T)}]]
  <2>2. ASSUME NEW T \in Upto(n + 1), T # {}
        PROVE  Pick(T) \in S /\ T \ {Pick(T)} \in Upto(n)
    <3>1. T \in SUBSET S /\ Cardinality(T) <= n + 1 /\ IsFiniteSet(T)
      BY <1>1
    <3>2. Pick(T) \in T /\ Cardinality(T) \in Nat /\ Cardinality(T \ {Pick(T)}) = Cardinality(T) - 1
      BY <2>2, <3>1, PickOne
    <3>3. QED
      BY <3>1, <3>2
  <2>3. h \in [Upto(n + 1) -> Nat]
    <3>1. ASSUME NEW T \in Upto(n + 1) PROVE h[T] \in Nat
      <4>1. CASE T = {}
        BY <4>1
      <4>2. CASE T # {}
        <5>1. f[Pick(T)] \in Nat /\ g[T \ {Pick(T)}] \in Nat
          <6> HIDE DEF Upto
          <6>1. QED
            BY <2>2, <4>2
        <5>2. QED
          BY <4>2, <5>1
      <4>3. QED
        BY <4>1, <4>2
    <3>2. QED
      BY <3>1
  <2>4. ASSUME NEW T \in Upto(n)
        PROVE  T \in Upto(n + 1) /\ h[T] = g[T]
    <3>1. T \in Upto(n + 1)
      BY <1>1
    <3>2. QED
      BY <2>1, <3>1 DEF Adds
  <2>5. Adds(h, f, Upto(n + 1))
    <3>1. \A T \in Upto(n + 1) : T # {} => h[T \ {Pick(T)}] = g[T \ {Pick(T)}]
      <4> HIDE DEF Upto, h
      <4>1. QED
        BY <2>2, <2>4
    <3>2. QED
      BY <3>1 DEF Adds
  <2>6. QED
    <3>1. n + 1 \in Nat
      OBVIOUS
    <3> HIDE DEF Upto, h
    <3>2. QED
      BY <2>3, <2>5, <3>1
<1>4. Nat \subseteq I
  <2> HIDE DEF I
  <2>1. QED
    BY <1>2, <1>3, Induction
<1>5. Cardinality(S) \in Nat
  BY FS_CardinalityType
<1>6. Upto(Cardinality(S)) = SUBSET S
  BY <1>1
<1>7. QED
  BY <1>4, <1>5, <1>6

\* The sum of a subset is the same whatever larger set it is taken from.
LEMMA SumOnce ==
  ASSUME NEW S, IsFiniteSet(S), NEW T \in SUBSET S, NEW f, NEW g, NEW e, NEW h,
         Adds(g, f, SUBSET S), Adds(h, e, SUBSET T), Agree(f, e, T)
  PROVE  \A U \in SUBSET T : g[U] = h[U]
<1> DEFINE I == {n \in Nat : \A U \in SUBSET T : Cardinality(U) = n => g[U] = h[U]}
<1>1. \A U \in SUBSET T : IsFiniteSet(U) /\ Cardinality(U) \in Nat
  BY FS_Subset, FS_CardinalityType
<1>2. 0 \in I
  <2>1. \A U \in SUBSET T : Cardinality(U) = 0 => U = {}
    BY <1>1, FS_EmptySet
  <2>2. g[{}] = 0 /\ h[{}] = 0
    BY DEF Adds
  <2>3. QED
    BY <2>1, <2>2
<1>3. ASSUME NEW n \in Nat, n \in I
      PROVE  n + 1 \in I
  <2>1. SUFFICES ASSUME NEW U \in SUBSET T, Cardinality(U) = n + 1
                 PROVE  g[U] = h[U]
    OBVIOUS
  <2>2. U # {} /\ IsFiniteSet(U)
    BY <1>1, <2>1, FS_EmptySet
  <2>3. Pick(U) \in U /\ Cardinality(U \ {Pick(U)}) = n
    <3>1. Pick(U) \in U /\ Cardinality(U \ {Pick(U)}) = Cardinality(U) - 1
      BY <2>2, PickOne
    <3>2. QED
      BY <2>1, <3>1
  <2>4. g[U \ {Pick(U)}] = h[U \ {Pick(U)}]
    BY <1>3, <2>3
  <2>5. /\ g[U] = f[Pick(U)] + g[U \ {Pick(U)}]
        /\ h[U] = e[Pick(U)] + h[U \ {Pick(U)}]
    BY <2>2 DEF Adds
  <2>6. f[Pick(U)] = e[Pick(U)]
    BY <2>3 DEF Agree
  <2>7. QED
    BY <2>4, <2>5, <2>6
<1>4. Nat \subseteq I
  <2> HIDE DEF I
  <2>1. QED
    BY <1>2, <1>3, Induction
<1>5. QED
  BY <1>1, <1>4

\* It does not matter which element is added first.
AddsAny(g, f, S) == \A T \in SUBSET S : \A x \in T : g[T] = f[x] + g[T \ {x}]

LEMMA SumOfAny ==
  ASSUME NEW S, NEW f \in [S -> Nat], NEW g \in [SUBSET S -> Nat],
         IsFiniteSet(S), Adds(g, f, SUBSET S)
  PROVE  AddsAny(g, f, S)
<1> DEFINE I == {n \in Nat : \A T \in SUBSET S : Cardinality(T) = n =>
                               \A x \in T : g[T] = f[x] + g[T \ {x}]}
<1>1. \A T \in SUBSET S : IsFiniteSet(T) /\ Cardinality(T) \in Nat
  BY FS_Subset, FS_CardinalityType
<1>2. 0 \in I
  <2>1. \A T \in SUBSET S : Cardinality(T) = 0 => T = {}
    BY <1>1, FS_EmptySet
  <2>2. QED
    BY <2>1
<1>3. ASSUME NEW n \in Nat, n \in I
      PROVE  n + 1 \in I
  <2>1. SUFFICES ASSUME NEW T \in SUBSET S, Cardinality(T) = n + 1, NEW x \in T
                 PROVE  g[T] = f[x] + g[T \ {x}]
    OBVIOUS
  <2> DEFINE p == Pick(T)
  <2>2. IsFiniteSet(T) /\ T # {}
    BY <1>1
  <2>3. p \in T /\ Cardinality(T \ {p}) = n
    <3>1. p \in T /\ Cardinality(T \ {p}) = Cardinality(T) - 1
      BY <2>2, PickOne
    <3>2. QED
      BY <2>1, <3>1
  <2>4. Cardinality(T \ {x}) = n
    <3>1. Cardinality(T \ {x}) = Cardinality(T) - 1
      BY <2>1, <2>2, FS_RemoveElement
    <3>2. QED
      BY <2>1, <3>1
  <2>5. g[T] = f[p] + g[T \ {p}]
    BY <2>2 DEF Adds
  <2>6. CASE x = p
    BY <2>5, <2>6
  <2>7. CASE x # p
    <3> HIDE DEF p
    <3>1. x \in T \ {p} /\ p \in T \ {x} /\ (T \ {p}) \ {x} = (T \ {x}) \ {p}
      BY <2>3, <2>7
    <3>2. g[T \ {p}] = f[x] + g[(T \ {p}) \ {x}]
      BY <1>3, <2>3, <3>1
    <3>3. g[T \ {x}] = f[p] + g[(T \ {x}) \ {p}]
      BY <1>3, <2>4, <3>1
    <3>4. f[x] \in Nat /\ f[p] \in Nat /\ g[(T \ {x}) \ {p}] \in Nat
      BY <2>3
    <3>5. g[T] = f[p] + (f[x] + g[(T \ {x}) \ {p}])
      BY <2>5, <3>1, <3>2
    <3>6. QED
      BY <3>3, <3>4, <3>5
  <2>8. QED
    BY <2>6, <2>7
<1>4. Nat \subseteq I
  <2> HIDE DEF I
  <2>1. QED
    BY <1>2, <1>3, Induction
<1>5. QED
  BY <1>1, <1>4 DEF AddsAny

-----------------------------------------------------------------------------
(* Sequences of sequences                                                  *)

\* g collects the first m sequences of s, one after the other.
Collects(g, s, m) ==
  /\ DOMAIN g = 1 .. m
  /\ \A i \in 1 .. m : g[i] = IF i = 1 THEN s[i] ELSE g[i - 1] \o s[i]

LEMMA CollectsExists ==
  ASSUME NEW E, NEW s \in Seq(Seq(E))
  PROVE  \E g \in [1 .. Len(s) -> Seq(E)] : Collects(g, s, Len(s))
<1> DEFINE S == {m \in Nat : m <= Len(s) => \E g \in [1 .. m -> Seq(E)] : Collects(g, s, m)}
<1>1. Len(s) \in Nat /\ \A i \in 1 .. Len(s) : s[i] \in Seq(E)
  OBVIOUS
<1>2. 0 \in S
  <2>1. [i \in 1 .. 0 |-> <<>>] \in [1 .. 0 -> Seq(E)]
    OBVIOUS
  <2>2. Collects([i \in 1 .. 0 |-> <<>>], s, 0)
    BY DEF Collects
  <2>3. QED
    BY <2>1, <2>2
<1>3. ASSUME NEW m \in Nat, m \in S
      PROVE  m + 1 \in S
  <2>1. SUFFICES ASSUME m + 1 <= Len(s)
                 PROVE  \E g \in [1 .. m + 1 -> Seq(E)] : Collects(g, s, m + 1)
    OBVIOUS
  <2>2. m <= Len(s)
    BY <1>1, <2>1
  <2>3. PICK g \in [1 .. m -> Seq(E)] : Collects(g, s, m)
    BY <1>3, <2>2
  <2> DEFINE v == IF m = 0 THEN s[1] ELSE g[m] \o s[m + 1]
             h == [i \in 1 .. m + 1 |-> IF i = m + 1 THEN v ELSE g[i]]
  <2>4. v \in Seq(E)
    <3>1. s[m + 1] \in Seq(E) /\ s[1] \in Seq(E) /\ (m # 0 => m \in 1 .. m)
      BY <1>1, <2>1
    <3>2. m # 0 => g[m] \in Seq(E)
      BY <3>1
    <3>3. QED
      BY <3>1, <3>2
  <2>5. h \in [1 .. m + 1 -> Seq(E)]
    BY <2>4
  <2>6. ASSUME NEW i \in 1 .. m + 1
        PROVE  h[i] = IF i = 1 THEN s[i] ELSE h[i - 1] \o s[i]
    <3>1. CASE i = m + 1
      <4>1. h[i] = v
        BY <3>1
      <4>2. i # 1 => i - 1 = m /\ m # 0 /\ h[i - 1] = g[m]
        BY <3>1
      <4>3. i = 1 => m = 0
        BY <3>1
      <4>4. QED
        BY <3>1, <4>1, <4>2, <4>3
    <3>2. CASE i # m + 1
      <4>1. i \in 1 .. m /\ h[i] = g[i]
        BY <3>2
      <4>2. i # 1 => i - 1 \in 1 .. m /\ h[i - 1] = g[i - 1]
        BY <3>2
      <4>3. g[i] = IF i = 1 THEN s[i] ELSE g[i - 1] \o s[i]
        BY <2>3, <4>1 DEF Collects
      <4>4. QED
        BY <4>1, <4>2, <4>3
    <3>3. QED
      BY <3>1, <3>2
  <2>7. Collects(h, s, m + 1)
    BY <2>6 DEF Collects
  <2>8. QED
    BY <2>5, <2>7
<1>4. Nat \subseteq S
  <2> HIDE DEF S
  <2>1. QED
    BY <1>2, <1>3, Induction
<1>5. QED
  BY <1>1, <1>4

LEMMA CollectsOnce ==
  ASSUME NEW s, Len(s) \in Nat, NEW f, NEW g, Collects(f, s, Len(s)), Collects(g, s, Len(s))
  PROVE  \A i \in 1 .. Len(s) : f[i] = g[i]
<1> DEFINE S == {m \in Nat : m \in 1 .. Len(s) => f[m] = g[m]}
<1>1. 0 \in S
  OBVIOUS
<1>2. ASSUME NEW m \in Nat, m \in S
      PROVE  m + 1 \in S
  <2>1. SUFFICES ASSUME m + 1 \in 1 .. Len(s) PROVE f[m + 1] = g[m + 1]
    OBVIOUS
  <2>2. /\ f[m + 1] = IF m + 1 = 1 THEN s[m + 1] ELSE f[(m + 1) - 1] \o s[m + 1]
        /\ g[m + 1] = IF m + 1 = 1 THEN s[m + 1] ELSE g[(m + 1) - 1] \o s[m + 1]
    BY <2>1 DEF Collects
  <2>3. m + 1 # 1 => m \in 1 .. Len(s) /\ (m + 1) - 1 = m
    BY <2>1
  <2>4. QED
    BY <1>2, <2>2, <2>3
<1>3. Nat \subseteq S
  <2> HIDE DEF S
  <2>1. QED
    BY <1>1, <1>2, Induction
<1>4. QED
  BY <1>3

\* FlattenSeq is the last of the collections.
LEMMA FlattenIs ==
  ASSUME NEW E, NEW s \in Seq(Seq(E)), s # <<>>, NEW g, Collects(g, s, Len(s))
  PROVE  FlattenSeq(s) = g[Len(s)]
<1> DEFINE F(f) == [i \in 1 .. Len(s) |-> IF i = 1 THEN s[i] ELSE f[i - 1] \o s[i]]
           f == CHOOSE f : f = F(f)
<1>1. Len(s) \in Nat /\ Len(s) # 0
  OBVIOUS
<1>2. PICK h \in [1 .. Len(s) -> Seq(E)] : Collects(h, s, Len(s))
  BY CollectsExists
<1>3. h = F(h)
  BY <1>2 DEF Collects
<1>4. f = F(f)
  BY <1>3
<1>5. Collects(f, s, Len(s))
  <2> HIDE DEF f
  <2>1. DOMAIN f = 1 .. Len(s)
    BY <1>4
  <2>2. \A i \in 1 .. Len(s) : f[i] = F(f)[i]
    BY <1>4
  <2>3. QED
    BY <2>1, <2>2 DEF Collects
<1>6. FlattenSeq(s) = f[Len(s)]
  BY <1>1 DEF FlattenSeq
<1>7. QED
  <2> HIDE DEF f
  <2>1. QED
    BY <1>1, <1>5, <1>6, CollectsOnce

\* Flattening gives a sequence of the same elements.
LEMMA FlattenType ==
  ASSUME NEW E, NEW s \in Seq(Seq(E))
  PROVE  FlattenSeq(s) \in Seq(E)
<1>1. CASE s = <<>>
  BY <1>1 DEF FlattenSeq
<1>2. CASE s # <<>>
  <2>1. Len(s) \in 1 .. Len(s)
    BY <1>2
  <2>2. PICK g \in [1 .. Len(s) -> Seq(E)] : Collects(g, s, Len(s))
    BY CollectsExists
  <2>3. QED
    BY <1>2, <2>1, <2>2, FlattenIs, SMTT(30)
<1>3. QED
  BY <1>1, <1>2

\* A sequence put last comes last.
LEMMA FlattenAppend ==
  ASSUME NEW E, NEW s \in Seq(Seq(E)), NEW x \in Seq(E)
  PROVE  FlattenSeq(Append(s, x)) = FlattenSeq(s) \o x
<1> DEFINE n == Len(s)
           t == Append(s, x)
<1>1. /\ n \in Nat /\ t \in Seq(Seq(E)) /\ t # <<>> /\ Len(t) = n + 1 /\ t[n + 1] = x
      /\ \A i \in 1 .. n : t[i] = s[i]
  <2>1. /\ n \in Nat /\ t \in Seq(Seq(E)) /\ t # <<>> /\ Len(t) = n + 1
        /\ \A i \in 1 .. n + 1 : t[i] = IF i = n + 1 THEN x ELSE s[i]
    BY AppendProperties
  <2> HIDE DEF n, t
  <2>2. QED
    BY <2>1
<1>2. PICK g \in [1 .. Len(t) -> Seq(E)] : Collects(g, t, Len(t))
  BY <1>1, CollectsExists
<1>3. FlattenSeq(t) = g[n + 1]
  BY <1>1, <1>2, FlattenIs
<1>4. CASE s = <<>>
  <2>1. n = 0 /\ FlattenSeq(s) = <<>>
    BY <1>4 DEF FlattenSeq
  <2>2. g[1] = t[1]
    BY <1>1, <1>2, <2>1 DEF Collects
  <2>3. QED
    BY <1>1, <1>3, <2>1, <2>2
<1>5. CASE s # <<>>
  <2> DEFINE f == [i \in 1 .. n |-> g[i]]
  <2>1. n # 0
    BY <1>5
  <2>2. Collects(f, s, Len(s))
    <3>1. ASSUME NEW i \in 1 .. n
          PROVE  f[i] = IF i = 1 THEN s[i] ELSE f[i - 1] \o s[i]
      <4>1. f[i] = g[i] /\ t[i] = s[i] /\ i \in 1 .. Len(t)
        BY <1>1
      <4>2. g[i] = IF i = 1 THEN t[i] ELSE g[i - 1] \o t[i]
        BY <1>2, <4>1 DEF Collects
      <4>3. i # 1 => f[i - 1] = g[i - 1]
        BY <1>1
      <4>4. QED
        BY <4>1, <4>2, <4>3
    <3>2. QED
      BY <3>1 DEF Collects
  <2>3. FlattenSeq(s) = g[n]
    <3>1. n \in 1 .. n
      BY <1>1, <2>1
    <3> HIDE DEF n
    <3>2. FlattenSeq(s) = f[n]
      BY <1>5, <2>2, FlattenIs DEF n
    <3>3. QED
      BY <3>1, <3>2
  <2>4. g[n + 1] = g[n] \o t[n + 1]
    <3>1. n + 1 \in 1 .. Len(t) /\ n + 1 # 1 /\ (n + 1) - 1 = n
      BY <1>1, <2>1
    <3>2. QED
      BY <1>2, <3>1 DEF Collects
  <2>5. QED
    BY <1>1, <1>3, <2>3, <2>4
<1>6. QED
  BY <1>4, <1>5

\* The first sequence comes first.
LEMMA FlattenTail ==
  ASSUME NEW E, NEW s \in Seq(Seq(E)), s # <<>>
  PROVE  FlattenSeq(s) = Head(s) \o FlattenSeq(Tail(s))
<1> DEFINE n == Len(s)
           t == Tail(s)
<1>1. /\ n \in Nat /\ n # 0 /\ t \in Seq(Seq(E)) /\ Len(t) = n - 1 /\ Head(s) = s[1]
      /\ \A i \in 1 .. n - 1 : t[i] = s[i + 1]
      /\ \A i \in 1 .. n : s[i] \in Seq(E)
  OBVIOUS
<1>2. PICK f \in [1 .. Len(s) -> Seq(E)] : Collects(f, s, Len(s))
  BY CollectsExists
<1>3. PICK g \in [1 .. Len(t) -> Seq(E)] : Collects(g, t, Len(t))
  BY <1>1, CollectsExists
<1>4. FlattenSeq(s) = f[n]
  BY <1>1, <1>2, FlattenIs
<1>5. f[1] = s[1]
  BY <1>1, <1>2 DEF Collects
<1>6. CASE n = 1
  <2>1. t = <<>> /\ FlattenSeq(<<>>) = <<>>
    <3>1. FlattenSeq(<<>>) = <<>>
      BY EmptySeq DEF FlattenSeq
    <3>2. Len(t) = 0 /\ t \in Seq(Seq(E))
      BY <1>1, <1>6
    <3> HIDE DEF t, n
    <3>3. t = <<>>
      BY <3>2, EmptySeq
    <3>4. QED
      BY <3>1, <3>3
  <2>2. s[1] \in Seq(E)
    BY <1>1, <1>6
  <2>3. s[1] \o <<>> = s[1]
    BY <2>2
  <2>4. QED
    BY <1>1, <1>4, <1>5, <1>6, <2>1, <2>3
<1>7. CASE n # 1
  <2> DEFINE S == {m \in Nat : m \in 1 .. n - 1 => f[m + 1] = s[1] \o g[m]}
  <2>1. 0 \in S
    OBVIOUS
  <2>2. ASSUME NEW m \in Nat, m \in S
        PROVE  m + 1 \in S
    <3>1. SUFFICES ASSUME m + 1 \in 1 .. n - 1 PROVE f[(m + 1) + 1] = s[1] \o g[m + 1]
      <4>1. m + 1 \in Nat
        OBVIOUS
      <4> HIDE DEF n, t
      <4>2. QED
        BY <4>1
    <3> HIDE DEF n, t, S
    <3>2. f[(m + 1) + 1] = f[m + 1] \o s[m + 2]
      <4>1. m + 2 \in 1 .. Len(s) /\ m + 2 # 1 /\ (m + 2) - 1 = m + 1 /\ (m + 1) + 1 = m + 2
        BY <3>1, <1>1 DEF n
      <4>2. QED
        BY <1>2, <4>1 DEF Collects
    <3>3. t[m + 1] = s[m + 2] /\ s[m + 2] \in Seq(E) /\ s[1] \in Seq(E)
      <4>1. m + 2 \in 1 .. n /\ 1 \in 1 .. n /\ (m + 1) + 1 = m + 2
        BY <3>1, <1>1
      <4>2. QED
        BY <1>1, <3>1, <4>1
    <3>4. CASE m = 0
      <4>1. g[1] = t[1]
        <5>1. 1 \in 1 .. Len(t)
          BY <1>1, <3>1, <3>4
        <5>2. QED
          BY <1>3, <5>1 DEF Collects
      <4>2. f[m + 1] = s[1] /\ g[m + 1] = s[m + 2]
        BY <1>5, <3>3, <3>4, <4>1
      <4>3. QED
        BY <3>2, <4>2
    <3>5. CASE m # 0
      <4>1. m \in 1 .. n - 1 /\ m + 1 \in 1 .. Len(t) /\ m \in 1 .. Len(t)
        BY <1>1, <3>1, <3>5
      <4>2. g[m + 1] = g[m] \o t[m + 1]
        <5>1. m + 1 # 1 /\ (m + 1) - 1 = m
          BY <3>5
        <5>2. QED
          BY <1>3, <4>1, <5>1 DEF Collects
      <4>3. f[m + 1] = s[1] \o g[m] /\ g[m] \in Seq(E)
        BY <2>2, <4>1 DEF S
      <4>4. \A a, b, c \in Seq(E) : (a \o b) \o c = a \o (b \o c)
        BY ConcatAssociative, SMTT(30)
      <4>5. (s[1] \o g[m]) \o s[m + 2] = s[1] \o (g[m] \o s[m + 2])
        BY <3>3, <4>3, <4>4
      <4>6. QED
        BY <3>2, <3>3, <4>2, <4>3, <4>5
    <3>6. QED
      BY <3>4, <3>5
  <2>3. Nat \subseteq S
    <3> HIDE DEF S
    <3>1. QED
      BY <2>1, <2>2, Induction
  <2>4. n - 1 \in 1 .. n - 1 /\ n - 1 \in Nat /\ (n - 1) + 1 = n
    BY <1>1, <1>7
  <2>5. f[n] = s[1] \o g[n - 1]
    BY <2>3, <2>4
  <2>6. FlattenSeq(t) = g[n - 1]
    <3>1. Len(t) # 0 /\ Len(<<>>) = 0
      BY <1>1, <1>7
    <3>2. QED
      BY <1>1, <1>3, <3>1, FlattenIs
  <2>7. QED
    BY <1>1, <1>4, <2>5, <2>6
<1>8. QED
  BY <1>6, <1>7

\* The positions of blocks of one width.
LEMMA InBlocks ==
  ASSUME NEW m \in Nat, NEW w \in Nat, NEW i \in 1 .. m, NEW k \in 1 .. w
  PROVE  (i - 1) * w + k \in 1 .. m * w
<1> DEFINE a == (i - 1) * w
           r == (m - i) * w
           b == m * w
<1>1. a \in Nat /\ r \in Nat
  OBVIOUS
<1>2. a + w + r = b
  OBVIOUS
<1> HIDE DEF a, r, b
<1>3. a + k \in 1 .. b
  BY <1>1, <1>2
<1>4. QED
  BY <1>3 DEF a, b

\* Blocks of one width lie at its multiples.
LEMMA FlattenBlocks ==
  ASSUME NEW E, NEW s \in Seq(Seq(E)), NEW w \in Nat, \A i \in 1 .. Len(s) : Len(s[i]) = w
  PROVE  /\ Len(FlattenSeq(s)) = Len(s) * w
         /\ \A i \in 1 .. Len(s), k \in 1 .. w : FlattenSeq(s)[(i - 1) * w + k] = s[i][k]
<1> DEFINE Lies(t, i) == \A k \in 1 .. w : t[(i - 1) * w + k] = s[i][k]
<1>1. CASE s = <<>>
  BY <1>1 DEF FlattenSeq
<1>2. CASE s # <<>>
  <2>1. /\ Len(s) \in Nat /\ Len(s) \in 1 .. Len(s) /\ 1 \in 1 .. Len(s)
        /\ \A i \in 1 .. Len(s) : s[i] \in Seq(E)
    BY <1>2
  <2>2. PICK g \in [1 .. Len(s) -> Seq(E)] : Collects(g, s, Len(s))
    BY CollectsExists
  <2> DEFINE S == {m \in Nat : m \in 1 .. Len(s) =>
                     Len(g[m]) = m * w /\ \A i \in 1 .. m : Lies(g[m], i)}
  <2>3. 0 \in S
    OBVIOUS
  <2>4. ASSUME NEW m \in Nat, m \in S
        PROVE  m + 1 \in S
    <3>1. SUFFICES ASSUME m + 1 \in 1 .. Len(s)
                   PROVE  /\ Len(g[m + 1]) = (m + 1) * w
                          /\ \A i \in 1 .. m + 1 : Lies(g[m + 1], i)
      <4>1. m + 1 \in Nat
        OBVIOUS
      <4>2. QED
        BY <4>1
    <3>2. CASE m = 0
      <4>1. g[1] = s[1]
        BY <2>1, <2>2 DEF Collects
      <4>2. Len(g[1]) = w /\ (m + 1) * w = w /\ m + 1 = 1
        BY <2>1, <3>2, <4>1
      <4>3. \A k \in 1 .. w : (1 - 1) * w + k = k
        OBVIOUS
      <4>4. Lies(g[1], 1)
        BY <4>1, <4>3
      <4>5. Len(g[m + 1]) = (m + 1) * w
        BY <4>2
      <4>6. \A i \in 1 .. m + 1 : i = 1 /\ m + 1 = 1
        BY <4>2
      <4>7. QED
        <5> HIDE DEF Lies
        <5>1. QED
          BY <4>4, <4>5, <4>6
    <3>3. CASE m # 0
      <4>1. m \in 1 .. Len(s) /\ m + 1 # 1 /\ (m + 1) - 1 = m
        BY <3>1, <3>3
      <4>2. g[m + 1] = g[m] \o s[m + 1]
        BY <3>1, <4>1, <2>2 DEF Collects
      <4>3. Len(g[m]) = m * w /\ \A i \in 1 .. m : Lies(g[m], i)
        BY <2>4, <4>1
      <4>4. /\ g[m] \in Seq(E) /\ s[m + 1] \in Seq(E) /\ Len(s[m + 1]) = w /\ m * w \in Nat
            /\ (m + 1) * w = m * w + w
        <5>1. m * w \in Nat /\ (m + 1) * w = m * w + w
          OBVIOUS
        <5>2. g[m] \in Seq(E)
          BY <4>1
        <5>3. QED
          BY <2>1, <3>1, <5>1, <5>2
      <4>5. /\ Len(g[m + 1]) = m * w + w
            /\ \A n \in 1 .. m * w + w :
                 g[m + 1][n] = IF n <= m * w THEN g[m][n] ELSE s[m + 1][n - m * w]
        <5> DEFINE b == m * w
        <5>1. b \in Nat /\ Len(g[m]) = b
          BY <4>3, <4>4
        <5> HIDE DEF b
        <5>2. /\ Len(g[m + 1]) = b + w
              /\ \A n \in 1 .. b + w : g[m + 1][n] = IF n <= b THEN g[m][n] ELSE s[m + 1][n - b]
          <6>1. \A x, y \in Seq(E) :
                  /\ Len(x \o y) = Len(x) + Len(y)
                  /\ \A n \in 1 .. Len(x) + Len(y) :
                       (x \o y)[n] = IF n <= Len(x) THEN x[n] ELSE y[n - Len(x)]
            OBVIOUS
          <6>2. /\ Len(g[m + 1]) = Len(g[m]) + Len(s[m + 1])
                /\ \A n \in 1 .. Len(g[m]) + Len(s[m + 1]) :
                     g[m + 1][n] = IF n <= Len(g[m]) THEN g[m][n] ELSE s[m + 1][n - Len(g[m])]
            BY <4>2, <4>4, <6>1, ZenonT(40)
          <6>3. Len(g[m]) = b /\ Len(s[m + 1]) = w
            BY <4>4, <5>1
          <6>4. QED
            BY <6>2, <6>3, Zenon
        <5>3. QED
          BY <5>2 DEF b
      <4>6. ASSUME NEW i \in 1 .. m
            PROVE  Lies(g[m + 1], i)
        <5>1. \A k \in 1 .. w : (i - 1) * w + k \in 1 .. m * w
          BY InBlocks
        <5>2. \A n \in 1 .. m * w : n \in 1 .. m * w + w /\ n <= m * w
          <6>1. \A b \in Nat : \A n \in 1 .. b : n \in 1 .. b + w /\ n <= b
            OBVIOUS
          <6>2. QED
            BY <6>1, <4>4
        <5>3. Lies(g[m], i)
          BY <4>3
        <5>4. QED
          BY <4>5, <5>1, <5>2, <5>3
      <4>7. Lies(g[m + 1], m + 1)
        <5>1. ASSUME NEW k \in 1 .. w
              PROVE  /\ m * w + k \in 1 .. m * w + w
                     /\ ~(m * w + k <= m * w) /\ (m * w + k) - m * w = k
          <6>1. \A b \in Nat : b + k \in 1 .. b + w /\ ~(b + k <= b) /\ (b + k) - b = k
            OBVIOUS
          <6>2. QED
            BY <6>1, <4>4
        <5>2. \A k \in 1 .. w : g[m + 1][m * w + k] = s[m + 1][k]
          BY <4>5, <5>1
        <5>3. QED
          BY <4>1, <5>2
      <4>8. \A i \in 1 .. m + 1 : i \in 1 .. m \/ i = m + 1
        OBVIOUS
      <4>9. QED
        <5> HIDE DEF Lies
        <5>1. Len(g[m + 1]) = (m + 1) * w
          BY <4>4, <4>5
        <5>2. QED
          BY <4>6, <4>7, <4>8, <5>1
    <3>4. QED
      BY <3>2, <3>3
  <2>5. Nat \subseteq S
    <3> HIDE DEF S
    <3>1. QED
      BY <2>3, <2>4, Induction
  <2>6. Len(s) \in S
    BY <2>1, <2>5
  <2>7. FlattenSeq(s) = g[Len(s)]
    BY <1>2, <2>2, FlattenIs
  <2>8. QED
    BY <2>1, <2>6, <2>7
<1>3. QED
  BY <1>1, <1>2

\* What is left of a sequence of which some positions are kept.
Chosen(s, positions, t, m) ==
  /\ \A n \in DOMAIN t : \E i \in 1 .. m : i \in positions /\ t[n] = s[i]
  /\ \A i \in 1 .. m : i \in positions => \E n \in DOMAIN t : t[n] = s[i]
  /\ (1 .. m \subseteq positions) => Len(t) = m /\ \A n \in 1 .. m : t[n] = s[n]

LEMMA ChosenIs ==
  ASSUME NEW E, NEW s \in Seq(E), NEW positions
  PROVE  LET t == FlattenSeq([i \in DOMAIN s |-> IF i \in positions THEN <<s[i]>> ELSE <<>>])
         IN t \in Seq(E) /\ Chosen(s, positions, t, Len(s))
<1> DEFINE p == [i \in DOMAIN s |-> IF i \in positions THEN <<s[i]>> ELSE <<>>]
<1>1. DOMAIN s = 1 .. Len(s) /\ Len(s) \in Nat /\ \A i \in 1 .. Len(s) : s[i] \in E
  OBVIOUS
<1>2. /\ p \in Seq(Seq(E)) /\ Len(p) = Len(s)
      /\ \A i \in 1 .. Len(s) : p[i] = IF i \in positions THEN <<s[i]>> ELSE <<>>
  BY <1>1
<1> HIDE DEF p
<1>3. CASE s = <<>>
  <2>1. p = <<>>
    BY <1>2, <1>3
  <2>2. FlattenSeq(p) = <<>>
    BY <2>1 DEF FlattenSeq
  <2>3. Chosen(s, positions, <<>>, Len(s))
    BY <1>3 DEF Chosen
  <2>4. <<>> \in Seq(E)
    OBVIOUS
  <2>5. QED
    BY <2>2, <2>3, <2>4 DEF p
<1>4. CASE s # <<>>
  <2>1. Len(s) \in 1 .. Len(s) /\ p # <<>>
    BY <1>1, <1>2, <1>4
  <2>2. PICK g \in [1 .. Len(p) -> Seq(E)] : Collects(g, p, Len(p))
    BY <1>2, CollectsExists
  <2> DEFINE S == {m \in Nat : m \in 1 .. Len(s) => Chosen(s, positions, g[m], m)}
  <2>3. 0 \in S
    OBVIOUS
  <2>4. ASSUME NEW m \in Nat, m \in S
        PROVE  m + 1 \in S
    <3>1. SUFFICES ASSUME m + 1 \in 1 .. Len(s)
                   PROVE  Chosen(s, positions, g[m + 1], m + 1)
      <4>1. m + 1 \in Nat
        OBVIOUS
      <4>2. QED
        BY <4>1
    <3> DEFINE last == IF m + 1 \in positions THEN <<s[m + 1]>> ELSE <<>>
    <3>2. PICK f \in Seq(E) : /\ Chosen(s, positions, f, m)
                              /\ g[m + 1] = f \o last
      <4>1. CASE m = 0
        <5>1. g[1] = p[1] /\ p[1] = last /\ m + 1 = 1
          <6>1. 1 \in 1 .. Len(s) /\ 1 \in 1 .. Len(p)
            BY <1>1, <1>2, <2>1
          <6>2. g[1] = p[1]
            BY <2>2, <6>1 DEF Collects
          <6>3. QED
            BY <1>2, <4>1, <6>1, <6>2
        <5>2. <<>> \o last = last /\ <<>> \in Seq(E)
          BY <1>1, <3>1
        <5>3. Chosen(s, positions, <<>>, m)
          BY <4>1 DEF Chosen
        <5>4. Chosen(s, positions, <<>>, m) /\ g[m + 1] = <<>> \o last
          <6> HIDE DEF last
          <6>1. QED
            BY <5>1, <5>2, <5>3
        <5>5. QED
          BY <5>2, <5>4
      <4>2. CASE m # 0
        <5>1. m \in 1 .. Len(s) /\ m + 1 # 1 /\ (m + 1) - 1 = m
          BY <3>1, <4>2
        <5>2. g[m + 1] = g[m] \o p[m + 1] /\ p[m + 1] = last
          BY <1>2, <2>2, <3>1, <5>1 DEF Collects
        <5>3. g[m] \in Seq(E) /\ Chosen(s, positions, g[m], m)
          BY <1>2, <2>4, <5>1
        <5>4. QED
          BY <5>2, <5>3
      <4>3. QED
        BY <4>1, <4>2
    <3>3. \A i \in 1 .. m + 1 : i \in 1 .. m \/ i = m + 1
      OBVIOUS
    <3>4. \A i \in 1 .. m : i \in 1 .. m + 1
      OBVIOUS
    <3>5. CASE m + 1 \in positions
      <4>1. /\ Len(g[m + 1]) = Len(f) + 1 /\ DOMAIN g[m + 1] = 1 .. Len(f) + 1
            /\ DOMAIN f = 1 .. Len(f) /\ Len(f) \in Nat
            /\ \A n \in 1 .. Len(f) : g[m + 1][n] = f[n]
            /\ g[m + 1][Len(f) + 1] = s[m + 1]
        <5>1. last = <<s[m + 1]>> /\ s[m + 1] \in E
          BY <1>1, <3>1, <3>5
        <5>2. QED
          BY <3>2, <5>1
      <4>2. \A n \in DOMAIN g[m + 1] : \E i \in 1 .. m + 1 : i \in positions /\ g[m + 1][n] = s[i]
        <5>1. \A n \in DOMAIN g[m + 1] : n \in DOMAIN f \/ n = Len(f) + 1
          BY <4>1
        <5>2. \A n \in DOMAIN f : \E i \in 1 .. m : i \in positions /\ f[n] = s[i]
          BY <3>2 DEF Chosen
        <5>3. ASSUME NEW n \in DOMAIN g[m + 1]
              PROVE  \E i \in 1 .. m + 1 : i \in positions /\ g[m + 1][n] = s[i]
          <6>1. CASE n \in DOMAIN f
            BY <3>4, <4>1, <5>2, <6>1
          <6>2. CASE n = Len(f) + 1
            <7>1. m + 1 \in 1 .. m + 1
              OBVIOUS
            <7>2. QED
              BY <3>5, <4>1, <6>2, <7>1
          <6>3. QED
            BY <5>1, <6>1, <6>2
        <5>4. QED
          BY <5>3
      <4>3. \A i \in 1 .. m + 1 : i \in positions => \E n \in DOMAIN g[m + 1] : g[m + 1][n] = s[i]
        <5>1. Len(f) + 1 \in DOMAIN g[m + 1] /\ \A n \in DOMAIN f : n \in DOMAIN g[m + 1]
          BY <4>1
        <5>2. QED
          BY <3>2, <3>3, <4>1, <5>1 DEF Chosen
      <4>4. ASSUME 1 .. m + 1 \subseteq positions
            PROVE  Len(g[m + 1]) = m + 1 /\ \A n \in 1 .. m + 1 : g[m + 1][n] = s[n]
        <5>1. 1 .. m \subseteq positions
          BY <3>4, <4>4
        <5>2. Len(f) = m /\ \A n \in 1 .. m : f[n] = s[n]
          BY <3>2, <5>1 DEF Chosen
        <5>3. QED
          BY <3>3, <4>1, <5>2
      <4>5. QED
        BY <4>2, <4>3, <4>4 DEF Chosen
    <3>6. CASE m + 1 \notin positions
      <4>1. g[m + 1] = f
        BY <3>2, <3>6
      <4>2. m + 1 \in 1 .. m + 1
        OBVIOUS
      <4>3. QED
        BY <3>2, <3>3, <3>4, <3>6, <4>1, <4>2 DEF Chosen
    <3>7. QED
      BY <3>5, <3>6
  <2>5. Nat \subseteq S
    <3> HIDE DEF S
    <3>1. QED
      BY <2>3, <2>4, Induction
  <2>6. Len(s) \in S
    BY <2>1, <2>5
  <2>7. FlattenSeq(p) = g[Len(s)]
    BY <1>2, <2>1, <2>2, FlattenIs
  <2>8. g[Len(s)] \in Seq(E)
    BY <1>2, <2>1
  <2>9. QED
    BY <2>1, <2>6, <2>7, <2>8 DEF p
<1>5. QED
  BY <1>3, <1>4

-----------------------------------------------------------------------------
(* Ranks: how many numbers of a finite set are smaller                     *)

Below(S, x) == {y \in S : y < x}
Rank(S) == [x \in S |-> Cardinality(Below(S, x))]

\* The ranks of a finite set of numbers are 0, 1, ... up to its size, each once.
LEMMA RanksAreDense ==
  ASSUME NEW S \in SUBSET Nat, IsFiniteSet(S)
  PROVE  /\ Cardinality(S) \in Nat
         /\ Rank(S) \in Injection(S, 0..(Cardinality(S) - 1))
         /\ Rank(S) \in Surjection(S, 0..(Cardinality(S) - 1))
<1> DEFINE n == Cardinality(S)
<1>1. n \in Nat
  BY FS_CardinalityType
<1>2. ASSUME NEW x \in S
      PROVE  /\ IsFiniteSet(Below(S, x)) /\ Cardinality(Below(S, x)) \in Nat
             /\ Cardinality(Below(S, x)) < n
  <2>1. Below(S, x) \in SUBSET S /\ Below(S, x) # S
    BY DEF Below
  <2>2. IsFiniteSet(Below(S, x)) /\ Cardinality(Below(S, x)) <= n /\ Cardinality(Below(S, x)) # n
    BY <2>1, FS_Subset
  <2>3. QED
    BY <1>1, <2>2, FS_CardinalityType
<1>3. ASSUME NEW x \in S, NEW y \in S, x < y
      PROVE  Cardinality(Below(S, x)) < Cardinality(Below(S, y))
  <2>1. Below(S, x) \in SUBSET Below(S, y)
    <3>1. ASSUME NEW z \in S, z < x
          PROVE  z < y
      <4>1. x \in Nat /\ y \in Nat /\ z \in Nat
        OBVIOUS
      <4>2. QED
        BY <1>3, <3>1, <4>1
    <3>2. QED
      BY <3>1 DEF Below
  <2>2. x \in Below(S, y) /\ x \notin Below(S, x)
    BY <1>3 DEF Below
  <2>3. /\ Cardinality(Below(S, x)) <= Cardinality(Below(S, y))
        /\ Cardinality(Below(S, x)) # Cardinality(Below(S, y))
    BY <1>2, <2>1, <2>2, FS_Subset
  <2>4. QED
    BY <1>2, <2>3
<1>4. Rank(S) \in [S -> 0..(n - 1)]
  BY <1>1, <1>2 DEF Rank
<1>5. \A x, y \in S : Rank(S)[x] = Rank(S)[y] => x = y
  <2>1. ASSUME NEW x \in S, NEW y \in S, x # y
        PROVE  Rank(S)[x] # Rank(S)[y]
    <3>1. x < y \/ y < x
      BY <2>1
    <3>2. QED
      BY <1>2, <1>3, <3>1 DEF Rank
  <2>2. QED
    BY <2>1
<1>6. Rank(S) \in Injection(S, 0..(n - 1))
  BY <1>4, <1>5 DEF Injection, IsInjective
<1>7. IsFiniteSet(0..(n - 1)) /\ Cardinality(0..(n - 1)) = n
  <2>1. \A m \in Nat : IsFiniteSet(0..(m - 1)) /\ Cardinality(0..(m - 1)) = m
    BY FS_Interval
  <2>2. QED
    BY <1>1, <2>1
<1>8. Rank(S) \in Surjection(S, 0..(n - 1))
  BY <1>6, <1>7, FS_Injection
<1>9. QED
  BY <1>1, <1>6, <1>8

\* Every rank below the size is some member's.
LEMMA RankTaken ==
  ASSUME NEW S \in SUBSET Nat, IsFiniteSet(S), NEW r \in Nat, r < Cardinality(S)
  PROVE  \E x \in S : Cardinality(Below(S, x)) = r
<1>1. r \in 0..(Cardinality(S) - 1)
  BY RanksAreDense
<1>2. PICK x \in S : Rank(S)[x] = r
  BY <1>1, RanksAreDense DEF Surjection
<1>3. QED
  BY <1>2 DEF Rank

-----------------------------------------------------------------------------
(* Messages on their way through a bounded channel (mpsc::channel in       *)
(* keylens/src/browse.rs), of which the last one of a kind counts.         *)

\* No message after the first i is one of A.
Quiet(s, i, A) == \A j \in DOMAIN s : j > i => s[j] \notin A

\* Whether x will be in what is now N once the messages s have been taken, of which
\* those of A empty it and those of B put x there.
Will(x, N, s, A, B) ==
  (x \in N /\ Quiet(s, 0, A)) \/ \E i \in DOMAIN s : s[i] \in B /\ Quiet(s, i, A)

-----------------------------------------------------------------------------

\* A message sent last is taken last.
LEMMA WillAtEnd ==
  ASSUME NEW x, NEW N, NEW S, NEW s \in Seq(S), NEW u \in S, NEW A, NEW B
  PROVE  Will(x, N, Append(s, u), A, B) <=> u \in B \/ (u \notin A /\ Will(x, N, s, A, B))
<1> DEFINE n == Len(s) + 1
           e == Append(s, u)
<1>1. /\ n \in Nat \ {0} /\ DOMAIN s = 1..(n - 1) /\ DOMAIN e = 1..n
      /\ \A i \in 1..(n - 1) : e[i] = s[i]
      /\ e[n] = u
  OBVIOUS
<1> HIDE DEF n, e
<1>2. Quiet(e, n, A)
  BY <1>1 DEF Quiet
<1>3. \A i \in 0..(n - 1) : Quiet(e, i, A) <=> u \notin A /\ Quiet(s, i, A)
  <2> SUFFICES ASSUME NEW i \in 0..(n - 1) PROVE Quiet(e, i, A) <=> u \notin A /\ Quiet(s, i, A)
    OBVIOUS
  <2>1. \A j \in DOMAIN s : j \in DOMAIN e /\ e[j] = s[j]
    BY <1>1
  <2>2. \A j \in DOMAIN e : j = n \/ (j \in DOMAIN s /\ e[j] = s[j])
    BY <1>1
  <2>3. n > i /\ n \in DOMAIN e
    BY <1>1
  <2> QED BY <2>1, <2>2, <2>3, <1>1 DEF Quiet
<1>4. DOMAIN s \subseteq 0..(n - 1) /\ 0 \in 0..(n - 1)
  BY <1>1
<1>5. (\E i \in DOMAIN e : e[i] \in B /\ Quiet(e, i, A))
        <=> u \in B \/ (u \notin A /\ \E i \in DOMAIN s : s[i] \in B /\ Quiet(s, i, A))
  <2>1. \A i \in DOMAIN e : i = n \/ (i \in DOMAIN s /\ e[i] = s[i])
    BY <1>1
  <2>2. n \in DOMAIN e /\ DOMAIN s \subseteq DOMAIN e
    BY <1>1
  <2>3. \A i \in DOMAIN s : e[i] = s[i]
    BY <1>1
  <2> QED BY <2>1, <2>2, <2>3, <1>1, <1>2, <1>3, <1>4
<1> QED BY <1>3, <1>4, <1>5 DEF Will, e

\* To take the first message changes nothing of what will be.
LEMMA WillAtHead ==
  ASSUME NEW x, NEW N, NEW S, NEW s \in Seq(S), s # <<>>, NEW A, NEW B, NEW N1,
         x \in N1 <=> Head(s) \in B \/ (x \in N /\ Head(s) \notin A)
  PROVE  Will(x, N, s, A, B) <=> Will(x, N1, Tail(s), A, B)
<1> DEFINE n == Len(s)
           h == Head(s)
           r == Tail(s)
<1>1. /\ n \in Nat \ {0} /\ DOMAIN s = 1..n /\ DOMAIN r = 1..(n - 1)
      /\ \A i \in 1..(n - 1) : r[i] = s[i + 1]
      /\ s[1] = h
  OBVIOUS
<1> HIDE DEF n, h, r
<1>2. \A i \in DOMAIN r : i + 1 \in DOMAIN s /\ s[i + 1] = r[i] /\ i \in Nat
  BY <1>1
<1>3. \A i \in DOMAIN s : i # 1 => i - 1 \in DOMAIN r /\ r[i - 1] = s[i] /\ i \in Nat
  <2> SUFFICES ASSUME NEW i \in DOMAIN s, i # 1 PROVE i - 1 \in DOMAIN r /\ r[i - 1] = s[i] /\ i \in Nat
    OBVIOUS
  <2>1. i - 1 \in 1..(n - 1) /\ (i - 1) + 1 = i /\ i \in Nat
    BY <1>1
  <2> QED BY <2>1, <1>1
<1>4. ASSUME NEW m \in Nat PROVE Quiet(s, m + 1, A) <=> Quiet(r, m, A)
  <2>1. ASSUME Quiet(s, m + 1, A), NEW j \in DOMAIN r, j > m PROVE r[j] \notin A
    <3>1. j + 1 \in DOMAIN s /\ s[j + 1] = r[j] /\ j + 1 > m + 1
      BY <2>1, <1>2
    <3> QED BY <2>1, <3>1 DEF Quiet
  <2>2. ASSUME Quiet(r, m, A), NEW j \in DOMAIN s, j > m + 1 PROVE s[j] \notin A
    <3>1. j # 1
      BY <2>2
    <3>2. j - 1 \in DOMAIN r /\ r[j - 1] = s[j] /\ j \in Nat
      BY <3>1, <1>3
    <3>3. j - 1 > m
      BY <2>2, <3>2
    <3> QED BY <2>2, <3>2, <3>3 DEF Quiet
  <2> QED BY <2>1, <2>2 DEF Quiet
<1>5. Quiet(s, 0, A) <=> h \notin A /\ Quiet(r, 0, A)
  <2>1. Quiet(s, 0, A) <=> h \notin A /\ Quiet(s, 0 + 1, A)
    <3>1. 1 \in DOMAIN s /\ \A j \in DOMAIN s : j > 0 /\ (j = 1 \/ j > 0 + 1)
      BY <1>1
    <3> QED BY <3>1, <1>1 DEF Quiet
  <2> QED BY <2>1, <1>4
<1>6. (\E i \in DOMAIN s : s[i] \in B /\ Quiet(s, i, A))
        <=> (h \in B /\ Quiet(r, 0, A)) \/ \E i \in DOMAIN r : r[i] \in B /\ Quiet(r, i, A)
  <2>1. ASSUME NEW i \in DOMAIN s, s[i] \in B, Quiet(s, i, A)
        PROVE  (h \in B /\ Quiet(r, 0, A)) \/ \E j \in DOMAIN r : r[j] \in B /\ Quiet(r, j, A)
    <3>1. CASE i = 1
      <4>1. Quiet(s, 0 + 1, A)
        BY <2>1, <3>1
      <4> QED BY <2>1, <3>1, <4>1, <1>1, <1>4
    <3>2. CASE i # 1
      <4>1. i - 1 \in DOMAIN r /\ r[i - 1] = s[i] /\ i \in Nat
        BY <3>2, <1>3
      <4>2. i - 1 \in Nat /\ (i - 1) + 1 = i
        BY <4>1, <1>1
      <4>3. Quiet(r, i - 1, A)
        BY <2>1, <4>2, <1>4
      <4> QED BY <2>1, <4>1, <4>3
    <3> QED BY <3>1, <3>2
  <2>2. ASSUME h \in B, Quiet(r, 0, A) PROVE \E i \in DOMAIN s : s[i] \in B /\ Quiet(s, i, A)
    <3>1. 1 \in DOMAIN s /\ Quiet(s, 0 + 1, A) /\ 0 + 1 = 1
      BY <2>2, <1>1, <1>4
    <3> QED BY <2>2, <3>1, <1>1
  <2>3. ASSUME NEW j \in DOMAIN r, r[j] \in B, Quiet(r, j, A)
        PROVE  \E i \in DOMAIN s : s[i] \in B /\ Quiet(s, i, A)
    BY <2>3, <1>2, <1>4
  <2> QED BY <2>1, <2>2, <2>3
<1> QED BY <1>5, <1>6 DEF Will, h, r

LEMMA WillOfNone == 
  ASSUME NEW x, NEW N, NEW A, NEW B
  PROVE  Will(x, N, <<>>, A, B) <=> x \in N
  BY DEF Will, Quiet

LEMMA QuietAtBoth ==
  ASSUME NEW S, NEW s \in Seq(S), NEW A
  PROVE  /\ \A u \in S : Quiet(Append(s, u), 0, A) <=> u \notin A /\ Quiet(s, 0, A)
         /\ s # <<>> => (Quiet(s, 0, A) <=> Head(s) \notin A /\ Quiet(Tail(s), 0, A))
<1>1. \A q : /\ Will(0, {0}, q, A, {}) <=> Quiet(q, 0, A)
             /\ ~Will(0, {}, q, A, {})
  BY DEF Will
<1>2. ASSUME NEW u \in S PROVE Quiet(Append(s, u), 0, A) <=> u \notin A /\ Quiet(s, 0, A)
  BY <1>1, WillAtEnd
<1>3. ASSUME s # <<>> PROVE Quiet(s, 0, A) <=> Head(s) \notin A /\ Quiet(Tail(s), 0, A)
  <2>1. CASE Head(s) \in A
    <3>1. Will(0, {0}, s, A, {}) <=> Will(0, {}, Tail(s), A, {})
      BY <1>3, <2>1, WillAtHead
    <3> QED BY <3>1, <2>1, <1>1
  <2>2. CASE Head(s) \notin A
    <3>1. Will(0, {0}, s, A, {}) <=> Will(0, {0}, Tail(s), A, {})
      BY <1>3, <2>2, WillAtHead
    <3> QED BY <3>1, <2>2, <1>1
  <2> QED BY <2>1, <2>2
<1> QED BY <1>2, <1>3

\* The last message of A is one of B.
LastIs(s, A, B) == \E i \in DOMAIN s : s[i] \in B /\ Quiet(s, i, A)

LEMMA LastAtBoth ==
  ASSUME NEW S, NEW s \in Seq(S), NEW A, NEW B, B \subseteq A
  PROVE  /\ \A u \in S : LastIs(Append(s, u), A, B) <=> u \in B \/ (u \notin A /\ LastIs(s, A, B))
         /\ s # <<>> => (LastIs(s, A, B) <=>
                           (Head(s) \in B /\ Quiet(Tail(s), 0, A)) \/ LastIs(Tail(s), A, B))
         /\ LastIs(s, A, B) => s # <<>> /\ ~Quiet(s, 0, A)
<1>1. \A q : /\ Will(0, {}, q, A, B) <=> LastIs(q, A, B)
             /\ Will(0, {0}, q, A, B) <=> Quiet(q, 0, A) \/ LastIs(q, A, B)
  BY DEF Will, LastIs
<1>2. ASSUME NEW u \in S
      PROVE  LastIs(Append(s, u), A, B) <=> u \in B \/ (u \notin A /\ LastIs(s, A, B))
  BY <1>1, WillAtEnd
<1>3. ASSUME s # <<>>
      PROVE  LastIs(s, A, B) <=> (Head(s) \in B /\ Quiet(Tail(s), 0, A)) \/ LastIs(Tail(s), A, B)
  <2>1. CASE Head(s) \in B
    <3>1. Will(0, {}, s, A, B) <=> Will(0, {0}, Tail(s), A, B)
      BY <1>3, <2>1, WillAtHead
    <3> QED BY <3>1, <2>1, <1>1
  <2>2. CASE Head(s) \notin B
    <3>1. Will(0, {}, s, A, B) <=> Will(0, {}, Tail(s), A, B)
      BY <1>3, <2>2, WillAtHead
    <3> QED BY <3>1, <2>2, <1>1
  <2> QED BY <2>1, <2>2
<1>4. LastIs(s, A, B) => s # <<>> /\ ~Quiet(s, 0, A)
  BY DEF LastIs, Quiet
<1> QED BY <1>2, <1>3, <1>4

-----------------------------------------------------------------------------
(* Recursive functions                                                     *)

\* Phi gives a function's value at x from the values of the function at what is smaller.
Descends(P, V, size, Phi) ==
  /\ Phi \in [[P -> V] -> [P -> V]]
  /\ \A g, h \in [P -> V] : \A x \in P :
       (\A y \in P : size[y] < size[x] => g[y] = h[y]) => Phi[g][x] = Phi[h][x]

\* A function may be defined by recursion on what is smaller.
LEMMA Recursion ==
  ASSUME NEW P, NEW V, NEW size \in [P -> Nat], NEW m \in Nat, \A x \in P : size[x] <= m,
         NEW Phi, Descends(P, V, size, Phi), [P -> V] # {}
  PROVE  \E g \in [P -> V] : g = Phi[g]
<1> DEFINE Upto(n, g) == \A x \in P : size[x] < n => g[x] = Phi[g][x]
           S == {n \in Nat : \E g \in [P -> V] : Upto(n, g)}
<1>1. 0 \in S
  <2>1. PICK g \in [P -> V] : TRUE
    OBVIOUS
  <2>2. Upto(0, g)
    OBVIOUS
  <2>3. QED
    BY <2>2
<1>2. ASSUME NEW n \in Nat, n \in S
      PROVE  n + 1 \in S
  <2>1. PICK g \in [P -> V] : Upto(n, g)
    BY <1>2
  <2>2. Phi[g] \in [P -> V]
    BY DEF Descends
  <2>3. ASSUME NEW x \in P, size[x] < n + 1
        PROVE  Phi[g][x] = Phi[Phi[g]][x]
    <3>1. \A y \in P : size[y] < size[x] => size[y] < n
      BY <2>3
    <3>2. \A y \in P : size[y] < size[x] => g[y] = Phi[g][y]
      BY <2>1, <3>1
    <3>3. QED
      BY <2>2, <3>2 DEF Descends
  <2>4. Upto(n + 1, Phi[g])
    BY <2>3
  <2>5. QED
    BY <2>2, <2>4
<1>3. m + 1 \in S
  <2> HIDE DEF S
  <2>1. QED
    BY <1>1, <1>2, Induction
<1>4. PICK g \in [P -> V] : Upto(m + 1, g)
  BY <1>3
<1>5. \A x \in P : g[x] = Phi[g][x]
  <2>1. \A x \in P : size[x] < m + 1
    OBVIOUS
  <2>2. QED
    BY <1>4, <2>1
<1>6. QED
  BY <1>5 DEF Descends

-----------------------------------------------------------------------------
(* What a flattened sequence holds, and in which order                     *)

Laid(f, s, m) ==
  /\ \A a \in 1 .. m : \A k \in DOMAIN s[a] : \E i \in DOMAIN f : f[i] = s[a][k]
  /\ \A i \in DOMAIN f : \E a \in 1 .. m : \E k \in DOMAIN s[a] : f[i] = s[a][k]
  /\ \A i, j \in DOMAIN f : i < j =>
       \E a, b \in 1 .. m : \E k \in DOMAIN s[a], l \in DOMAIN s[b] :
         f[i] = s[a][k] /\ f[j] = s[b][l] /\ (a < b \/ (a = b /\ k < l))

LEMMA LaidBlock ==
  ASSUME NEW E, NEW f \in Seq(E), NEW m \in Nat, NEW s, NEW x \in Seq(E), s[m + 1] = x,
         Laid(f, s, m)
  PROVE  Laid(f \o x, s, m + 1)
<1> DEFINE g == f \o x
           n == Len(f)
<1>1. /\ n \in Nat /\ Len(x) \in Nat /\ DOMAIN f = 1 .. n /\ DOMAIN x = 1 .. Len(x)
      /\ DOMAIN g = 1 .. n + Len(x)
      /\ \A i \in 1 .. n : g[i] = f[i]
      /\ \A k \in DOMAIN x : n + k \in DOMAIN g /\ g[n + k] = x[k]
  OBVIOUS
<1>2. \A i \in DOMAIN g : i \in DOMAIN f \/ (i - n \in DOMAIN x /\ g[i] = x[i - n])
  <2>1. SUFFICES ASSUME NEW i \in DOMAIN g, i \notin DOMAIN f
                 PROVE  i - n \in DOMAIN x /\ g[i] = x[i - n]
    OBVIOUS
  <2>2. i \in Nat /\ i - n \in DOMAIN x /\ n + (i - n) = i
    BY <1>1, <2>1
  <2>3. QED
    BY <1>1, <2>2
<1> HIDE DEF g
<1>3. ASSUME NEW a \in 1 .. m + 1, NEW k \in DOMAIN s[a]
      PROVE  \E i \in DOMAIN g : g[i] = s[a][k]
  <2>1. CASE a \in 1 .. m
    <3>1. PICK i \in DOMAIN f : f[i] = s[a][k]
      BY <1>3, <2>1 DEF Laid
    <3>2. i \in DOMAIN g /\ g[i] = s[a][k]
      BY <1>1, <3>1
    <3>3. QED
      BY <3>2
  <2>2. CASE a = m + 1
    BY <1>1, <1>3, <2>2
  <2>3. QED
    BY <2>1, <2>2
<1>4. \A i \in DOMAIN f : \E a \in 1 .. m + 1 : \E k \in DOMAIN s[a] : g[i] = s[a][k]
  <2>1. SUFFICES ASSUME NEW i \in DOMAIN f
                 PROVE  \E a \in 1 .. m + 1 : \E k \in DOMAIN s[a] : g[i] = s[a][k]
    OBVIOUS
  <2>2. PICK a \in 1 .. m : \E k \in DOMAIN s[a] : f[i] = s[a][k]
    BY DEF Laid
  <2>3. a \in 1 .. m + 1
    OBVIOUS
  <2>4. QED
    BY <1>1, <2>2, <2>3
<1>5. m + 1 \in 1 .. m + 1
  OBVIOUS
<1>6. \A i \in DOMAIN g : \E a \in 1 .. m + 1 : \E k \in DOMAIN s[a] : g[i] = s[a][k]
  BY <1>2, <1>4, <1>5
<1>7. ASSUME NEW i \in DOMAIN g, NEW j \in DOMAIN g, i < j
      PROVE  \E a, b \in 1 .. m + 1 : \E k \in DOMAIN s[a], l \in DOMAIN s[b] :
               g[i] = s[a][k] /\ g[j] = s[b][l] /\ (a < b \/ (a = b /\ k < l))
  <2>1. CASE j \in DOMAIN f
    <3>1. i \in DOMAIN f
      BY <1>1, <1>7, <2>1
    <3>2. PICK a \in 1 .. m, b \in 1 .. m : \E k \in DOMAIN s[a], l \in DOMAIN s[b] :
             f[i] = s[a][k] /\ f[j] = s[b][l] /\ (a < b \/ (a = b /\ k < l))
      BY <1>7, <2>1, <3>1 DEF Laid
    <3>3. a \in 1 .. m + 1 /\ b \in 1 .. m + 1
      OBVIOUS
    <3>4. g[i] = f[i] /\ g[j] = f[j]
      BY <1>1, <2>1, <3>1
    <3>5. QED
      BY <3>2, <3>3, <3>4
  <2>2. CASE j \notin DOMAIN f /\ i \in DOMAIN f
    <3>1. j - n \in DOMAIN s[m + 1] /\ g[j] = s[m + 1][j - n]
      BY <1>2, <2>2
    <3>2. PICK a \in 1 .. m : \E k \in DOMAIN s[a] : f[i] = s[a][k]
      BY <2>2 DEF Laid
    <3>3. a \in 1 .. m + 1 /\ a < m + 1
      OBVIOUS
    <3>4. g[i] = f[i]
      BY <1>1, <2>2
    <3>5. QED
      BY <1>5, <3>1, <3>2, <3>3, <3>4
  <2>3. CASE j \notin DOMAIN f /\ i \notin DOMAIN f
    <3>1. /\ j - n \in DOMAIN s[m + 1] /\ g[j] = s[m + 1][j - n]
          /\ i - n \in DOMAIN s[m + 1] /\ g[i] = s[m + 1][i - n]
      BY <1>2, <2>3
    <3>2. i - n < j - n
      BY <1>1, <1>7
    <3>3. QED
      BY <1>5, <3>1, <3>2
  <2>4. QED
    BY <2>1, <2>2, <2>3
<1>8. QED
  BY <1>3, <1>6, <1>7 DEF Laid, g

LEMMA FlattenLaid ==
  ASSUME NEW E, NEW s \in Seq(Seq(E))
  PROVE  FlattenSeq(s) \in Seq(E) /\ Laid(FlattenSeq(s), s, Len(s))
<1> DEFINE t(n) == [i \in 1 .. n |-> s[i]]
           S == {n \in Nat : n <= Len(s) => Laid(FlattenSeq(t(n)), s, n)}
<1>1. Len(s) \in Nat /\ \A i \in 1 .. Len(s) : s[i] \in Seq(E)
  OBVIOUS
<1>2. \A n \in 0 .. Len(s) : t(n) \in Seq(Seq(E)) /\ Len(t(n)) = n
  BY <1>1
<1>3. 0 \in S
  <2>1. t(0) = <<>>
    OBVIOUS
  <2>2. FlattenSeq(t(0)) = <<>>
    BY <2>1 DEF FlattenSeq
  <2>3. QED
    BY <2>2 DEF Laid
<1>4. ASSUME NEW n \in Nat, n \in S
      PROVE  n + 1 \in S
  <2>1. SUFFICES ASSUME n + 1 <= Len(s) PROVE Laid(FlattenSeq(t(n + 1)), s, n + 1)
    OBVIOUS
  <2>2. n \in 0 .. Len(s) /\ n + 1 \in 1 .. Len(s)
    BY <1>1, <2>1
  <2>3. t(n) \in Seq(Seq(E)) /\ Len(t(n)) = n /\ s[n + 1] \in Seq(E)
    BY <1>1, <1>2, <2>2
  <2>4. t(n + 1) = Append(t(n), s[n + 1])
    BY <2>3
  <2>5. FlattenSeq(t(n + 1)) = FlattenSeq(t(n)) \o s[n + 1] /\ FlattenSeq(t(n)) \in Seq(E)
    <3> HIDE DEF t
    <3>1. QED
      BY <2>3, <2>4, FlattenAppend, FlattenType
  <2>6. Laid(FlattenSeq(t(n)), s, n)
    BY <1>4, <2>1, <2>2
  <2> HIDE DEF t
  <2>7. QED
    BY <2>3, <2>5, <2>6, LaidBlock
<1>5. Len(s) \in S
  <2> HIDE DEF S
  <2>1. QED
    BY <1>1, <1>3, <1>4, Induction
<1>6. t(Len(s)) = s
  BY <1>1
<1>7. Laid(FlattenSeq(s), s, Len(s))
  <2> HIDE DEF t
  <2>1. QED
    BY <1>1, <1>5, <1>6
<1>8. QED
  BY <1>7, FlattenType

=============================================================================
