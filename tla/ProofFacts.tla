----------------------------- MODULE ProofFacts -----------------------------
(***************************************************************************)
(* Facts about the operators the specifications are built from, which      *)
(* their proofs share: induction, functions defined by recursion, sums,    *)
(* filters and sequences.                                                  *)
(*                                                                         *)
(* Induction is stated over sets (the set of the values that have the      *)
(* property), so that a lemma can be applied with first-order reasoning    *)
(* only: it comes from the library's fact that the strict subset relation  *)
(* on finite sets is well-founded.                                         *)
(***************************************************************************)
EXTENDS Integers, SequencesExt, SeqFilter, FiniteSetTheorems, WellFoundedInduction, TLAPS

(***************************************************************************)
(* Induction                                                               *)
(***************************************************************************)
\* A set of naturals that is not empty has a least element.
LEMMA Least ==
  ASSUME NEW T, T \subseteq Nat, T # {}
  PROVE \E x \in T : \A y \in T : x <= y
<1>1. PICK m \in T : TRUE
  OBVIOUS
<1> DEFINE S == 1 .. m
           F == {1 .. k : k \in {j \in T : j <= m}}
<1>2. IsFiniteSet(S)
  BY FS_Interval
<1>3. F \subseteq FiniteSubsetsOf(S)
  <2> SUFFICES ASSUME NEW k \in T, k <= m PROVE 1 .. k \in FiniteSubsetsOf(S)
     OBVIOUS
  <2>1. 1 .. k \subseteq S
    OBVIOUS
  <2>2. IsFiniteSet(1 .. k)
    BY FS_Interval
  <2> QED BY <2>1, <2>2 DEF FiniteSubsetsOf
<1>4. IsWellFoundedOn(StrictSubsetOrdering(S), FiniteSubsetsOf(S))
  BY <1>2, FS_StrictSubsetOrderingWellFounded
<1>5. PICK I \in F : \A J \in F : ~ (<<J, I>> \in StrictSubsetOrdering(S))
  <2>1. 1 .. m \in F
    OBVIOUS
  <2> QED BY <2>1, <1>3, <1>4, WFMin
<1>6. PICK x \in T : x <= m /\ I = 1 .. x
  OBVIOUS
<1>7. ASSUME NEW y \in T, y < x PROVE FALSE
  <2>1. 1 .. y \in F
    BY <1>6, <1>7
  <2>2. <<1 .. y, I>> \in StrictSubsetOrdering(S)
    <3>1. 1 .. y \subseteq S /\ I \subseteq S
      BY <1>6, <1>7
    <3>2. 1 .. y \subseteq I
      BY <1>6, <1>7
    <3>3. x \in I /\ x \notin 1 .. y
      BY <1>6, <1>7
    <3> QED BY <3>1, <3>2, <3>3 DEF StrictSubsetOrdering
  <2> QED BY <2>1, <2>2, <1>5
<1> QED BY <1>7

\* Induction over the naturals, the property given by the set where it holds.
LEMMA NatInduct ==
  ASSUME NEW T, 0 \in T, \A n \in Nat : n \in T => n + 1 \in T
  PROVE  \A n \in Nat : n \in T
<1> DEFINE Missing == {n \in Nat : n \notin T}
<1>1. SUFFICES ASSUME Missing # {} PROVE FALSE
  OBVIOUS
<1>2. PICK x \in Missing : \A y \in Missing : x <= y
  BY <1>1, Least
<1>3. x # 0 /\ x - 1 \in Nat /\ x - 1 \notin Missing
  BY <1>2
<1>4. x \in T
  BY <1>3
<1> QED BY <1>4

\* Induction over the subsets of a finite set.
LEMMA SetInduct ==
  ASSUME NEW S, IsFiniteSet(S), NEW T, {} \in T,
         \A X \in SUBSET S : \A x \in S \ X : X \in T => X \cup {x} \in T
  PROVE  \A X \in SUBSET S : X \in T
<1> DEFINE Missing == {X \in SUBSET S : X \notin T}
<1>1. SUFFICES ASSUME Missing # {} PROVE FALSE
  OBVIOUS
<1>2. Missing \subseteq FiniteSubsetsOf(S)
  BY FS_Subset DEF FiniteSubsetsOf
<1>3. PICK X \in Missing : \A Y \in Missing : ~ (<<Y, X>> \in StrictSubsetOrdering(S))
  <2>1. IsWellFoundedOn(StrictSubsetOrdering(S), FiniteSubsetsOf(S))
    BY FS_StrictSubsetOrderingWellFounded
  <2> HIDE DEF Missing
  <2> QED BY <1>1, <1>2, <2>1, WFMin
<1>4. PICK x \in X : TRUE
  BY <1>3
<1>5. X \ {x} \in T
  <2>1. <<X \ {x}, X>> \in StrictSubsetOrdering(S)
    BY <1>3, <1>4 DEF StrictSubsetOrdering
  <2> QED BY <2>1, <1>3
<1>6. X = (X \ {x}) \cup {x} /\ X \ {x} \in SUBSET S /\ x \in S \ (X \ {x})
  BY <1>3, <1>4
<1> QED BY <1>3, <1>5, <1>6

\* The same, from all the smaller sets at once.
LEMMA SetStrongInduct ==
  ASSUME NEW S, IsFiniteSet(S), NEW T,
         \A X \in SUBSET S : (\A x \in X : X \ {x} \in T) => X \in T
  PROVE  \A X \in SUBSET S : X \in T
<1> DEFINE Missing == {X \in SUBSET S : X \notin T}
<1>1. SUFFICES ASSUME Missing # {} PROVE FALSE
  OBVIOUS
<1>2. Missing \subseteq FiniteSubsetsOf(S)
  BY FS_Subset DEF FiniteSubsetsOf
<1>3. PICK X \in Missing : \A Y \in Missing : ~ (<<Y, X>> \in StrictSubsetOrdering(S))
  <2>1. IsWellFoundedOn(StrictSubsetOrdering(S), FiniteSubsetsOf(S))
    BY FS_StrictSubsetOrderingWellFounded
  <2> HIDE DEF Missing
  <2> QED BY <1>1, <1>2, <2>1, WFMin
<1>4. ASSUME NEW x \in X
      PROVE  X \ {x} \in T
  <2>1. <<X \ {x}, X>> \in StrictSubsetOrdering(S)
    BY <1>3 DEF StrictSubsetOrdering
  <2> QED BY <2>1, <1>3
<1> QED BY <1>3, <1>4

(***************************************************************************)
(* Recursion                                                               *)
(***************************************************************************)
\* g is the function defined by recursion: c at 0 (at {}), and step above it.
UpTo(g, n, c, step) ==
  g = [i \in 0 .. n |-> IF i = 0 THEN c ELSE step[i][g[i - 1]]]
Down(g, S, c, ch, step) ==
  g = [X \in SUBSET S |-> IF X = {} THEN c ELSE step[X][g[X \ {ch[X]}]]]

\* Recursion along the naturals up to n: the function a recursive definition names.
LEMMA Recursion ==
  ASSUME NEW n \in Nat, NEW V, NEW c \in V, NEW step,
         \A i \in 1 .. n : \A v \in V : step[i][v] \in V
  PROVE  \E g \in [0 .. n -> V] : UpTo(g, n, c, step)
<1> DEFINE Good(g, k) == UpTo(g, k, c, step)
           T == {k \in Nat : k <= n => \E g \in [0 .. k -> V] : Good(g, k)}
<1> USE DEF UpTo
<1>1. 0 \in T
  <2> DEFINE g == [i \in 0 .. 0 |-> c]
  <2>1. g \in [0 .. 0 -> V] /\ Good(g, 0)
    OBVIOUS
  <2> QED BY <2>1
<1>2. \A k \in Nat : k \in T => k + 1 \in T
  <2> SUFFICES ASSUME NEW k \in Nat, k \in T, k + 1 <= n
               PROVE  k + 1 \in T
    <3>1. ASSUME NEW k \in Nat, ~ (k + 1 <= n) PROVE k + 1 \in T
      BY <3>1
    <3> HIDE DEF T
    <3> QED BY <3>1
  <2>1. PICK g \in [0 .. k -> V] : Good(g, k)
    OBVIOUS
  <2> DEFINE h == [i \in 0 .. k + 1 |-> IF i = k + 1 THEN step[i][g[i - 1]] ELSE g[i]]
  <2>2. h \in [0 .. k + 1 -> V]
    OBVIOUS
  <2>3. ASSUME NEW i \in 0 .. k + 1
        PROVE  h[i] = IF i = 0 THEN c ELSE step[i][h[i - 1]]
    <3>1. CASE i = k + 1
      <4>1. h[i - 1] = g[i - 1]
        BY <3>1
      <4> QED BY <4>1, <3>1
    <3>2. CASE i \in 0 .. k
      <4>1. g[i] = IF i = 0 THEN c ELSE step[i][g[i - 1]]
        BY <2>1, <3>2
      <4>2. h[i] = g[i] /\ (i # 0 => h[i - 1] = g[i - 1])
        BY <3>2
      <4> QED BY <4>1, <4>2
    <3> QED BY <3>1, <3>2
  <2>4. Good(h, k + 1)
    <3> HIDE DEF h
    <3> QED BY <2>2, <2>3
  <2>5. \E f \in [0 .. k + 1 -> V] : Good(f, k + 1)
    <3> HIDE DEF h, Good
    <3> QED BY <2>2, <2>4
  <2> QED BY <2>5
<1>3. n \in T
  <2> HIDE DEF T
  <2> QED BY <1>1, <1>2, NatInduct
<1> QED BY <1>3

\* Recursion along the subsets of a finite set, which removes ch[X] from X.
LEMMA SetRecursion ==
  ASSUME NEW S, IsFiniteSet(S), NEW V, NEW c \in V, NEW ch, NEW step,
         \A X \in SUBSET S : X # {} => ch[X] \in X,
         \A X \in SUBSET S : \A v \in V : X # {} => step[X][v] \in V
  PROVE  \E g \in [SUBSET S -> V] : Down(g, S, c, ch, step)
<1> DEFINE Small(k) == {X \in SUBSET S : Cardinality(X) <= k}
           Good(g, k) == \A X \in Small(k) :
                           g[X] = IF X = {} THEN c ELSE step[X][g[X \ {ch[X]}]]
           T == {k \in Nat : \E g \in [Small(k) -> V] : Good(g, k)}
<1>0. ASSUME NEW X \in SUBSET S
      PROVE  /\ Cardinality(X) \in Nat /\ (Cardinality(X) = 0 <=> X = {})
             /\ X # {} => Cardinality(X \ {ch[X]}) = Cardinality(X) - 1
  <2>1. IsFiniteSet(X)
    BY FS_Subset
  <2> QED BY <2>1, FS_CardinalityType, FS_EmptySet, FS_RemoveElement
<1>1. 0 \in T
  <2> DEFINE g == [X \in Small(0) |-> c]
  <2>1. ASSUME NEW X \in Small(0) PROVE X = {}
    <3>1. Cardinality(X) \in Nat /\ Cardinality(X) <= 0
      BY <1>0
    <3>2. Cardinality(X) = 0
      BY <3>1
    <3>3. X \in SUBSET S
      OBVIOUS
    <3> HIDE DEF Small
    <3> QED BY <3>2, <3>3, <1>0
  <2>2. g \in [Small(0) -> V] /\ Good(g, 0)
    BY <2>1
  <2> QED BY <2>2
<1>2. \A k \in Nat : k \in T => k + 1 \in T
  <2> SUFFICES ASSUME NEW k \in Nat, k \in T
               PROVE  k + 1 \in T
    <3> HIDE DEF T
    <3> QED OBVIOUS
  <2>1. PICK g \in [Small(k) -> V] : Good(g, k)
    OBVIOUS
  <2> DEFINE h == [X \in Small(k + 1) |->
                     IF Cardinality(X) <= k THEN g[X] ELSE step[X][g[X \ {ch[X]}]]]
  <2>2. ASSUME NEW X \in Small(k + 1), X # {}
        PROVE  X \ {ch[X]} \in Small(k)
    BY <1>0, <2>2
  <2>3. ASSUME NEW X \in Small(k + 1)
        PROVE  h[X] \in V /\ h[X] = IF X = {} THEN c ELSE step[X][h[X \ {ch[X]}]]
    <3>1. CASE X = {}
      <4>1. X \in Small(k) /\ Cardinality(X) <= k
        BY <3>1, <1>0
      <4> QED BY <4>1, <3>1, <2>1
    <3>2. CASE X # {} /\ Cardinality(X) <= k
      <4>1. h[X \ {ch[X]}] = g[X \ {ch[X]}] /\ h[X] = g[X]
        BY <2>2, <3>2, <1>0
      <4> QED BY <4>1, <3>2, <2>1
    <3>3. CASE X # {} /\ ~ (Cardinality(X) <= k)
      <4>1. h[X] = step[X][g[X \ {ch[X]}]]
        BY <3>3
      <4>2. X \ {ch[X]} \in Small(k) /\ X \ {ch[X]} \in Small(k + 1)
        BY <2>2, <3>3, <1>0
      <4>3. h[X \ {ch[X]}] = g[X \ {ch[X]}] /\ g[X \ {ch[X]}] \in V
        BY <4>2, <2>1
      <4> QED BY <4>1, <4>3, <3>3
    <3> QED BY <3>1, <3>2, <3>3
  <2>4. h \in [Small(k + 1) -> V]
    BY <2>3
  <2>5. Good(h, k + 1)
    BY <2>3
  <2>6. \E f \in [Small(k + 1) -> V] : Good(f, k + 1)
    <3> HIDE DEF h, Good, Small
    <3> QED BY <2>4, <2>5
  <2>7. k + 1 \in Nat
    OBVIOUS
  <2> HIDE DEF h, Good, Small
  <2> QED BY <2>6, <2>7
<1>3. Cardinality(S) \in T
  <2>1. Cardinality(S) \in Nat
    BY <1>0
  <2> HIDE DEF T
  <2> QED BY <1>1, <1>2, <2>1, NatInduct
<1>4. Small(Cardinality(S)) = SUBSET S
  BY <1>0, FS_Subset
<1>5. PICK g \in [SUBSET S -> V] : Good(g, Cardinality(S))
  BY <1>3, <1>4
<1>6. g = [X \in SUBSET S |-> IF X = {} THEN c ELSE step[X][g[X \ {ch[X]}]]]
  BY <1>4, <1>5
<1> QED BY <1>6 DEF Down

(***************************************************************************)
(* Division                                                                *)
(***************************************************************************)
LEMMA DivMod ==
  ASSUME NEW a \in Nat, NEW R \in Nat \ {0}
  PROVE  a \div R \in Nat /\ a % R \in 0 .. R - 1 /\ a = R * (a \div R) + (a % R)
OBVIOUS

LEMMA DivIs ==
  ASSUME NEW a \in Nat, NEW R \in Nat \ {0}, NEW q \in Nat, NEW x \in 0 .. R - 1, a = R * q + x
  PROVE  a \div R = q /\ a % R = x
<1> DEFINE p == a \div R
           y == a % R
<1>1. p \in Nat /\ y \in 0 .. R - 1 /\ a = R * p + y
  BY DivMod
<1> HIDE DEF p, y
<1>2. ~ (q < p)
  BY <1>1
<1>3. ~ (p < q)
  BY <1>1
<1>4. q = p
  BY <1>1, <1>2, <1>3
<1> QED BY <1>1, <1>4 DEF p, y

\* R times m is the least number whose quotient is m.
LEMMA DivAtLeast ==
  ASSUME NEW a \in Nat, NEW R \in Nat \ {0}, NEW m \in Int
  PROVE  a >= R * m <=> a \div R >= m
<1> DEFINE q == a \div R
           x == a % R
<1>1. q \in Nat /\ x \in 0 .. R - 1 /\ a = R * q + x
  BY DivMod
<1> HIDE DEF q, x
<1>2. q >= m => R * q >= R * m
  BY <1>1
<1>3. q < m => R * q + R <= R * m
  <2>1. q + 1 <= m => R * (q + 1) <= R * m
    BY <1>1
  <2> QED BY <1>1, <2>1
<1> QED BY <1>1, <1>2, <1>3 DEF q

LEMMA DivMono ==
  ASSUME NEW a \in Nat, NEW b \in Nat, NEW R \in Nat \ {0}, a <= b
  PROVE  a \div R <= b \div R
<1>1. a \div R \in Nat /\ b \div R \in Nat /\ R * (a \div R) \in Nat
  BY DivMod
<1>2. a >= R * (a \div R)
  BY <1>1, DivAtLeast
<1>3. b >= R * (a \div R)
  BY <1>1, <1>2
<1> QED BY <1>1, <1>3, DivAtLeast

LEMMA DivShift ==
  ASSUME NEW a \in Nat, NEW R \in Nat \ {0}, NEW m \in Nat
  PROVE  (R * m + a) \div R = m + (a \div R) /\ (R * m + a) % R = a % R
<1> DEFINE q == a \div R
           x == a % R
<1>1. q \in Nat /\ x \in 0 .. R - 1 /\ a = R * q + x
  BY DivMod
<1> HIDE DEF q, x
<1>2. R * m + a = R * (m + q) + x /\ R * m + a \in Nat /\ m + q \in Nat
  BY <1>1
<1>3. (R * m + a) \div R = m + q /\ (R * m + a) % R = x
  BY <1>1, <1>2, DivIs
<1> QED BY <1>3 DEF q, x

\* A number's group: the numbers with its quotient.
LEMMA DivSame ==
  ASSUME NEW a \in Nat, NEW b \in Nat, NEW R \in Nat \ {0}, a \div R = b \div R
  PROVE  a % R = b % R => a = b
BY DivMod

\* The last of a group, and the one after it.
LEMMA DivLast ==
  ASSUME NEW a \in Nat, NEW R \in Nat \ {0}
  PROVE  /\ (a + 1) % R = 0 <=> a = R * (a \div R) + R - 1
         /\ (a + 1) % R = 0 <=> (a + 1) \div R = (a \div R) + 1
         /\ (a + 1) % R # 0 <=> (a + 1) \div R = a \div R
<1> DEFINE q == a \div R
           x == a % R
<1>1. q \in Nat /\ x \in 0 .. R - 1 /\ a = R * q + x
  BY DivMod
<1> HIDE DEF q, x
<1>2. CASE x = R - 1
  <2>1. a + 1 = R * (q + 1) + 0
    BY <1>1, <1>2
  <2>2. (a + 1) % R = 0 /\ (a + 1) \div R = q + 1
    BY <1>1, <2>1, DivIs
  <2>3. a = R * q + R - 1
    BY <1>1, <1>2
  <2> QED BY <1>1, <2>2, <2>3 DEF q
<1>3. CASE x # R - 1
  <2>1. a + 1 = R * q + (x + 1) /\ x + 1 \in 0 .. R - 1 /\ x + 1 # 0
    BY <1>1, <1>3
  <2>2. (a + 1) % R = x + 1 /\ (a + 1) \div R = q
    BY <1>1, <2>1, DivIs
  <2>3. a # R * q + R - 1
    BY <1>1, <1>3
  <2> QED BY <1>1, <2>1, <2>2, <2>3 DEF q
<1> QED BY <1>2, <1>3

(***************************************************************************)
(* Sums                                                                    *)
(***************************************************************************)
\* g is the library's sum of w, on every subset of S.
SumsTo(g, w, S) ==
  /\ \A X \in SUBSET S : X # {} =>
       g[X] = w[CHOOSE x \in X : TRUE] + g[X \ {CHOOSE x \in X : TRUE}]
  /\ g[{}] = 0 /\ SumFunctionOnSet(w, S) = g[S]

\* What a sum is: the function that the library's fold names, on every subset.
LEMMA SumFold ==
  ASSUME NEW S, IsFiniteSet(S), NEW w, \A x \in S : w[x] \in Nat
  PROVE  \E g \in [SUBSET S -> Nat] : SumsTo(g, w, S)
<1> DEFINE ch == [X \in SUBSET S |-> CHOOSE x \in X : TRUE]
           step == [X \in SUBSET S |-> [v \in Nat |-> w[CHOOSE x \in X : TRUE] + v]]
           Eq(g) == g = [X \in SUBSET S |-> IF X = {} THEN 0
                           ELSE w[CHOOSE x \in X : TRUE] + g[X \ {CHOOSE x \in X : TRUE}]]
<1>1. \E g \in [SUBSET S -> Nat] : Down(g, S, 0, ch, step)
  <2>1. \A X \in SUBSET S : X # {} => ch[X] \in X
    OBVIOUS
  <2>2. \A X \in SUBSET S : \A v \in Nat : X # {} => step[X][v] \in Nat
    OBVIOUS
  <2>3. 0 \in Nat
    OBVIOUS
  <2> HIDE DEF ch, step
  <2> QED BY <2>1, <2>2, <2>3, SetRecursion
<1>2. PICK g \in [SUBSET S -> Nat] :
        g = [X \in SUBSET S |-> IF X = {} THEN 0 ELSE step[X][g[X \ {ch[X]}]]]
  BY <1>1 DEF Down
<1>3. Eq(g)
  <2>1. ASSUME NEW X \in SUBSET S
        PROVE  g[X] = IF X = {} THEN 0
                      ELSE w[CHOOSE x \in X : TRUE] + g[X \ {CHOOSE x \in X : TRUE}]
    <3>1. g[X] = IF X = {} THEN 0 ELSE step[X][g[X \ {ch[X]}]]
      <4> HIDE DEF ch, step
      <4> QED BY <1>2
    <3>2. ch[X] = CHOOSE x \in X : TRUE
      OBVIOUS
    <3>3. g[X \ {CHOOSE x \in X : TRUE}] \in Nat
      OBVIOUS
    <3>4. \A v \in Nat : step[X][v] = w[CHOOSE x \in X : TRUE] + v
      OBVIOUS
    <3> HIDE DEF ch, step
    <3> QED BY <3>1, <3>2, <3>3, <3>4
  <2> QED BY <2>1
<1> DEFINE it == CHOOSE f : Eq(f)
<1>4. Eq(it)
  <2> HIDE DEF Eq
  <2> QED BY <1>3
<1>5. SumFunctionOnSet(w, S) = it[S]
  BY DEF SumFunctionOnSet, FoldFunctionOnSet, MapThenFoldSet
<1>6. it \in [SUBSET S -> Nat]
  <2> DEFINE T == {X \in SUBSET S : it[X] \in Nat}
             N == {n \in Nat : \A X \in SUBSET S : Cardinality(X) = n => it[X] \in Nat}
  <2> HIDE DEF it
  <2>1. it[{}] = 0
    BY <1>4
  <2>2. ASSUME NEW X \in SUBSET S, X # {}
        PROVE  it[X] = w[CHOOSE x \in X : TRUE] + it[X \ {CHOOSE x \in X : TRUE}]
    BY <1>4, <2>2
  <2>3. ASSUME NEW X \in SUBSET S
        PROVE  /\ Cardinality(X) \in Nat /\ (Cardinality(X) = 0 <=> X = {})
               /\ \A x \in X : Cardinality(X \ {x}) = Cardinality(X) - 1
    <3>1. IsFiniteSet(X)
      BY FS_Subset
    <3> QED BY <3>1, FS_CardinalityType, FS_EmptySet, FS_RemoveElement
  <2>4. 0 \in N
    BY <2>1, <2>3
  <2>5. \A n \in Nat : n \in N => n + 1 \in N
    <3> SUFFICES ASSUME NEW n \in Nat, n \in N, NEW X \in SUBSET S, Cardinality(X) = n + 1
                 PROVE  it[X] \in Nat
      OBVIOUS
    <3>0. X # {}
      BY <2>3
    <3>1. PICK c : c \in X /\ c = CHOOSE x \in X : TRUE
      BY <3>0
    <3>2. Cardinality(X \ {c}) = Cardinality(X) - 1
      BY <2>3, <3>1
    <3>3. Cardinality(X \ {c}) = n
      BY <3>2
    <3>4. it[X \ {c}] \in Nat /\ w[c] \in Nat
      BY <3>1, <3>3
    <3>5. it[X] = w[c] + it[X \ {c}]
      BY <3>0, <3>1, <2>2
    <3> QED BY <3>4, <3>5
  <2>6. \A X \in SUBSET S : it[X] \in Nat
    <3>1. \A n \in Nat : n \in N
      <4> HIDE DEF N
      <4> QED BY <2>4, <2>5, NatInduct
    <3> QED BY <3>1, <2>3
  <2>7. it = [X \in SUBSET S |-> it[X]]
    BY <1>4
  <2> QED BY <2>6, <2>7
<1>7. it[{}] = 0 /\ \A X \in SUBSET S : X # {} =>
        it[X] = w[CHOOSE x \in X : TRUE] + it[X \ {CHOOSE x \in X : TRUE}]
  <2> HIDE DEF it
  <2> QED BY <1>4
<1> HIDE DEF it
<1> QED BY <1>5, <1>6, <1>7 DEF SumsTo

LEMMA SumNat ==
  ASSUME NEW S, IsFiniteSet(S), NEW w, \A x \in S : w[x] \in Nat
  PROVE  SumFunctionOnSet(w, S) \in Nat
<1>1. PICK g \in [SUBSET S -> Nat] : SumsTo(g, w, S)
  BY SumFold
<1>2. SumFunctionOnSet(w, S) = g[S]
  BY <1>1 DEF SumsTo
<1> QED BY <1>2

LEMMA SumEmpty ==
  ASSUME NEW w
  PROVE  SumFunctionOnSet(w, {}) = 0
<1>1. IsFiniteSet({}) /\ \A x \in {} : w[x] \in Nat
  BY FS_EmptySet
<1>2. \E g \in [SUBSET {} -> Nat] : SumsTo(g, w, {})
  BY <1>1, SumFold
<1> QED BY <1>2 DEF SumsTo

\* The sum over a set, from that over the set without its chosen element ...
LEMMA SumChoice ==
  ASSUME NEW S, IsFiniteSet(S), NEW w, \A x \in S : w[x] \in Nat, S # {}
  PROVE  \E x \in S : /\ x = CHOOSE y \in S : TRUE
                      /\ SumFunctionOnSet(w, S) = w[x] + SumFunctionOnSet(w, S \ {x})
<1>1. PICK c \in S : c = CHOOSE y \in S : TRUE
  OBVIOUS
<1> DEFINE R == S \ {c}
<1>2. IsFiniteSet(R) /\ R \subseteq S
  BY FS_Subset
<1>3. PICK g \in [SUBSET S -> Nat] : SumsTo(g, w, S)
  BY SumFold
<1>4. PICK h \in [SUBSET R -> Nat] : SumsTo(h, w, R)
  <2>1. \A x \in R : w[x] \in Nat
    OBVIOUS
  <2> HIDE DEF R
  <2> QED BY <1>2, <2>1, SumFold
<1> DEFINE T == {X \in SUBSET R : g[X] = h[X]}
<1>5. \A X \in SUBSET R : X \in T
  <2>1. ASSUME NEW X \in SUBSET R, \A x \in X : X \ {x} \in T
        PROVE  X \in T
    <3>1. CASE X = {}
      BY <3>1, <1>3, <1>4 DEF SumsTo
    <3>2. CASE X # {}
      <4>1. PICK d \in X : d = CHOOSE x \in X : TRUE
        BY <3>2
      <4>2. g[X \ {d}] = h[X \ {d}]
        BY <2>1
      <4>3. g[X] = w[d] + g[X \ {d}]
        BY <1>3, <4>1, <3>2 DEF SumsTo
      <4>4. h[X] = w[d] + h[X \ {d}]
        BY <1>4, <4>1, <3>2 DEF SumsTo
      <4> QED BY <4>2, <4>3, <4>4
    <3> QED BY <3>1, <3>2
  <2> HIDE DEF T, R
  <2> QED BY <1>2, <2>1, SetStrongInduct
<1>6. g[R] = h[R]
  BY <1>5
<1>7. g[S] = w[c] + g[R]
  BY <1>1, <1>3 DEF SumsTo
<1>8. SumFunctionOnSet(w, S) = g[S] /\ SumFunctionOnSet(w, R) = h[R]
  BY <1>3, <1>4 DEF SumsTo
<1> QED BY <1>1, <1>6, <1>7, <1>8

\* ... and so without any of its elements.
LEMMA SumRemove ==
  ASSUME NEW S, IsFiniteSet(S), NEW w, \A x \in S : w[x] \in Nat, NEW e \in S
  PROVE  SumFunctionOnSet(w, S) = w[e] + SumFunctionOnSet(w, S \ {e})
<1> DEFINE T == {X \in SUBSET S : \A x \in X :
                   SumFunctionOnSet(w, X) = w[x] + SumFunctionOnSet(w, X \ {x})}
<1>1. ASSUME NEW X \in SUBSET S, \A x \in X : X \ {x} \in T
      PROVE  X \in T
  <2> SUFFICES ASSUME NEW x \in X
               PROVE  SumFunctionOnSet(w, X) = w[x] + SumFunctionOnSet(w, X \ {x})
    OBVIOUS
  <2>1. \A Y \in SUBSET S : IsFiniteSet(Y) /\ \A y \in Y : w[y] \in Nat
    BY FS_Subset
  <2>2. PICK c \in X : SumFunctionOnSet(w, X) = w[c] + SumFunctionOnSet(w, X \ {c})
    <3>1. X # {} /\ IsFiniteSet(X) /\ \A y \in X : w[y] \in Nat
      BY <2>1
    <3> QED BY <3>1, SumChoice
  <2>3. CASE c = x
    BY <2>2, <2>3
  <2>4. CASE c # x
    <3>1. SumFunctionOnSet(w, X \ {c}) = w[x] + SumFunctionOnSet(w, (X \ {c}) \ {x})
      BY <1>1, <2>4
    <3>2. SumFunctionOnSet(w, X \ {x}) = w[c] + SumFunctionOnSet(w, (X \ {x}) \ {c})
      BY <1>1, <2>4
    <3>3. (X \ {c}) \ {x} = (X \ {x}) \ {c}
      OBVIOUS
    <3> DEFINE Y == (X \ {c}) \ {x}
               out == SumFunctionOnSet(w, Y)
               outc == SumFunctionOnSet(w, X \ {c})
               outx == SumFunctionOnSet(w, X \ {x})
               all == SumFunctionOnSet(w, X)
    <3>4. IsFiniteSet(Y) /\ (\A y \in Y : w[y] \in Nat) /\ w[c] \in Nat /\ w[x] \in Nat
      BY <2>1
    <3>5. out \in Nat
      <4> HIDE DEF Y
      <4> QED BY <3>4, SumNat
    <3>6. outc = w[x] + out /\ outx = w[c] + out /\ all = w[c] + outc
      BY <3>1, <3>2, <3>3, <2>2
    <3>7. all = w[x] + outx
      <4> HIDE DEF out, outc, outx, all
      <4> QED BY <3>4, <3>5, <3>6
    <3> QED BY <3>7
  <2> QED BY <2>3, <2>4
<1>2. \A X \in SUBSET S : X \in T
  <2> HIDE DEF T
  <2> QED BY <1>1, SetStrongInduct
<1> QED BY <1>2

LEMMA SumAdd ==
  ASSUME NEW S, IsFiniteSet(S), NEW w, \A x \in S : w[x] \in Nat,
         NEW e, e \notin S, w[e] \in Nat
  PROVE  SumFunctionOnSet(w, S \cup {e}) = w[e] + SumFunctionOnSet(w, S)
<1>1. IsFiniteSet(S \cup {e}) /\ (\A x \in S \cup {e} : w[x] \in Nat) /\ e \in S \cup {e}
  BY FS_AddElement
<1>2. (S \cup {e}) \ {e} = S
  OBVIOUS
<1> QED BY <1>1, <1>2, SumRemove

\* A sum depends only on the summands.
LEMMA SumSame ==
  ASSUME NEW S, IsFiniteSet(S), NEW w, NEW v, \A x \in S : w[x] \in Nat /\ v[x] = w[x]
  PROVE  SumFunctionOnSet(v, S) = SumFunctionOnSet(w, S)
<1> DEFINE T == {X \in SUBSET S : SumFunctionOnSet(v, X) = SumFunctionOnSet(w, X)}
<1>1. {} \in T
  BY SumEmpty
<1>2. ASSUME NEW X \in SUBSET S, NEW x \in S \ X, X \in T
      PROVE  X \cup {x} \in T
  <2>1. IsFiniteSet(X) /\ (\A y \in X : w[y] \in Nat) /\ w[x] \in Nat
          /\ (\A y \in X : v[y] \in Nat) /\ v[x] \in Nat /\ x \notin X
    BY FS_Subset
  <2>2. SumFunctionOnSet(w, X \cup {x}) = w[x] + SumFunctionOnSet(w, X)
    BY <2>1, SumAdd
  <2>3. SumFunctionOnSet(v, X \cup {x}) = v[x] + SumFunctionOnSet(v, X)
    BY <2>1, SumAdd
  <2> QED BY <1>2, <2>2, <2>3
<1>3. \A X \in SUBSET S : X \in T
  <2> HIDE DEF T
  <2> QED BY <1>1, <1>2, SetInduct
<1> QED BY <1>3

LEMMA SumUnion ==
  ASSUME NEW S, IsFiniteSet(S), NEW R, IsFiniteSet(R), S \cap R = {},
         NEW w, \A x \in S \cup R : w[x] \in Nat
  PROVE  SumFunctionOnSet(w, S \cup R) = SumFunctionOnSet(w, S) + SumFunctionOnSet(w, R)
<1> DEFINE T == {X \in SUBSET S : SumFunctionOnSet(w, X \cup R)
                                  = SumFunctionOnSet(w, X) + SumFunctionOnSet(w, R)}
<1>0. SumFunctionOnSet(w, R) \in Nat
  BY SumNat
<1>1. {} \in T
  <2>1. {} \cup R = R
    OBVIOUS
  <2> QED BY <1>0, <2>1, SumEmpty
<1>2. ASSUME NEW X \in SUBSET S, NEW x \in S \ X, X \in T
      PROVE  X \cup {x} \in T
  <2>1. IsFiniteSet(X) /\ (\A y \in X : w[y] \in Nat) /\ w[x] \in Nat
          /\ (\A y \in X \cup R : w[y] \in Nat) /\ x \notin X \cup R /\ x \notin X
          /\ IsFiniteSet(X \cup R)
    BY FS_Subset, FS_Union
  <2>2. SumFunctionOnSet(w, X \cup {x}) = w[x] + SumFunctionOnSet(w, X)
    BY <2>1, SumAdd
  <2>3. SumFunctionOnSet(w, (X \cup R) \cup {x}) = w[x] + SumFunctionOnSet(w, X \cup R)
    BY <2>1, SumAdd
  <2>4. (X \cup R) \cup {x} = (X \cup {x}) \cup R
    OBVIOUS
  <2>5. SumFunctionOnSet(w, X) \in Nat
    BY <2>1, SumNat
  <2> DEFINE x0 == SumFunctionOnSet(w, X)
             x1 == SumFunctionOnSet(w, X \cup {x})
             r0 == SumFunctionOnSet(w, X \cup R)
             r1 == SumFunctionOnSet(w, (X \cup {x}) \cup R)
             r == SumFunctionOnSet(w, R)
  <2>6. r0 = x0 + r
    BY <1>2
  <2>7. r1 = x1 + r
    <3>1. r1 = w[x] + r0
      BY <2>3, <2>4
    <3>2. x1 = w[x] + x0 /\ x0 \in Nat /\ r \in Nat /\ w[x] \in Nat
      BY <1>0, <2>1, <2>2, <2>5
    <3> HIDE DEF x0, x1, r0, r1, r
    <3> QED BY <2>6, <3>1, <3>2
  <2> QED BY <2>7
<1>3. \A X \in SUBSET S : X \in T
  <2> HIDE DEF T
  <2> QED BY <1>1, <1>2, SetInduct
<1> QED BY <1>3

(***************************************************************************)
(* Filters and sequences                                                   *)
(***************************************************************************)
LEMMA AppendNotEmpty ==
  ASSUME NEW S, NEW q \in Seq(S), NEW x
  PROVE  Append(q, x) # <<>>
<1>1. Len(Append(q, x)) = Len(q) + 1 /\ Len(q) \in Nat
  OBVIOUS
<1> QED BY <1>1

LEMMA ToSetAppend ==
  ASSUME NEW S, NEW q \in Seq(S), NEW x
  PROVE  ToSet(Append(q, x)) = ToSet(q) \cup {x}
<1> DEFINE a == Append(q, x)
<1>1. Len(a) = Len(q) + 1 /\ a[Len(q) + 1] = x /\ \A i \in 1 .. Len(q) : a[i] = q[i]
  OBVIOUS
<1>2. DOMAIN a = 1 .. Len(q) + 1 /\ DOMAIN q = 1 .. Len(q) /\ Len(q) \in Nat
  OBVIOUS
<1> HIDE DEF a
<1>3. ToSet(a) \subseteq ToSet(q) \cup {x}
  BY <1>1, <1>2 DEF ToSet
<1>4. ToSet(q) \cup {x} \subseteq ToSet(a)
  BY <1>1, <1>2 DEF ToSet
<1> QED BY <1>3, <1>4 DEF a

LEMMA InjectiveAppend ==
  ASSUME NEW S, NEW q \in Seq(S), NEW x, IsInjective(q), x \notin ToSet(q)
  PROVE  IsInjective(Append(q, x))
<1> DEFINE a == Append(q, x)
<1>1. a[Len(q) + 1] = x /\ \A i \in 1 .. Len(q) : a[i] = q[i]
  OBVIOUS
<1>2. DOMAIN a = 1 .. Len(q) + 1 /\ DOMAIN q = 1 .. Len(q) /\ Len(q) \in Nat
  OBVIOUS
<1>3. \A i \in 1 .. Len(q) : q[i] # x
  BY <1>2 DEF ToSet
<1> HIDE DEF a
<1>4. ASSUME NEW i \in DOMAIN a, NEW j \in DOMAIN a, a[i] = a[j] PROVE i = j
  <2>1. CASE i \in 1 .. Len(q) /\ j \in 1 .. Len(q)
    BY <1>1, <1>2, <1>4, <2>1 DEF IsInjective
  <2>2. CASE i = Len(q) + 1 \/ j = Len(q) + 1
    BY <1>1, <1>2, <1>3, <1>4, <2>2
  <2> QED BY <1>2, <2>1, <2>2
<1> QED BY <1>4 DEF a, IsInjective

LEMMA EmptyFacts == ToSet(<<>>) = {} /\ IsInjective(<<>>) /\ \A S : <<>> \in Seq(S)
BY DEF ToSet, IsInjective

\* Without keeps the elements outside R, in their order: it is the last of a
\* row of prefixes, each the one before or one element longer.
Prefixwise(p, s, R) ==
  /\ p[0] = <<>>
  /\ \A i \in 1 .. Len(s) :
       p[i] = IF s[i] \in R THEN p[i - 1] ELSE Append(p[i - 1], s[i])
  /\ Without(s, R) = p[Len(s)]

LEMMA WithoutPrefixes ==
  ASSUME NEW S, NEW s \in Seq(S), NEW R
  PROVE  \E p \in [0 .. Len(s) -> Seq(S)] : Prefixwise(p, s, R)
<1> DEFINE n == Len(s)
           V == Seq(S)
           step == [i \in 1 .. n |-> [v \in V |->
                      IF s[i] \in R THEN v ELSE Append(v, s[i])]]
           Eq(g) == g = [i \in 0 .. n |-> IF i = 0 THEN <<>>
                          ELSE IF s[i] \in R THEN g[i - 1] ELSE Append(g[i - 1], s[i])]
<1>1. \E g \in [0 .. n -> V] : UpTo(g, n, <<>>, step)
  <2>1. n \in Nat /\ <<>> \in V
    OBVIOUS
  <2>2. \A i \in 1 .. n : \A v \in V : step[i][v] \in V
    OBVIOUS
  <2> HIDE DEF step, V, n
  <2> QED BY <2>1, <2>2, Recursion
<1>2. PICK g \in [0 .. n -> V] : UpTo(g, n, <<>>, step)
  BY <1>1
<1>3. Eq(g)
  <2>1. ASSUME NEW i \in 0 .. n
        PROVE  g[i] = IF i = 0 THEN <<>>
                      ELSE IF s[i] \in R THEN g[i - 1] ELSE Append(g[i - 1], s[i])
    <3>1. g[i] = IF i = 0 THEN <<>> ELSE step[i][g[i - 1]]
      <4> HIDE DEF step
      <4> QED BY <1>2 DEF UpTo
    <3>2. CASE i = 0
      BY <3>1, <3>2
    <3>3. CASE i # 0
      <4>1. i \in 1 .. n /\ g[i - 1] \in V
        BY <3>3
      <4>2. step[i][g[i - 1]] = IF s[i] \in R THEN g[i - 1] ELSE Append(g[i - 1], s[i])
        BY <4>1
      <4> QED BY <3>1, <3>3, <4>2
    <3> QED BY <3>2, <3>3
  <2> QED BY <2>1
<1> DEFINE it == CHOOSE f : Eq(f)
<1>4. Eq(it)
  <2> HIDE DEF Eq
  <2> QED BY <1>3
<1>5. Without(s, R) = it[n]
  BY DEF Without
<1> HIDE DEF it
<1>8. it[0] = <<>> /\ \A i \in 1 .. n :
        it[i] = IF s[i] \in R THEN it[i - 1] ELSE Append(it[i - 1], s[i])
  <2>1. \A i \in 1 .. n : i \in 0 .. n /\ i # 0
    OBVIOUS
  <2>2. 0 \in 0 .. n
    OBVIOUS
  <2>3. ASSUME NEW i \in 0 .. n
        PROVE  it[i] = IF i = 0 THEN <<>>
                       ELSE IF s[i] \in R THEN it[i - 1] ELSE Append(it[i - 1], s[i])
    <3> DEFINE e(f, j) == IF j = 0 THEN <<>>
                          ELSE IF s[j] \in R THEN f[j - 1] ELSE Append(f[j - 1], s[j])
    <3>1. it = [j \in 0 .. n |-> e(it, j)]
      BY <1>4
    <3> HIDE DEF e
    <3>2. it[i] = e(it, i)
      BY <3>1
    <3> QED BY <3>2 DEF e
  <2> QED BY <2>1, <2>2, <2>3
<1>6. ASSUME NEW i \in 0 .. n PROVE it[i] \in V
  <2> DEFINE T == {k \in Nat : k <= n => it[k] \in V}
  <2>1. 0 \in T
    BY <1>4
  <2>2. \A k \in Nat : k \in T => k + 1 \in T
    <3> SUFFICES ASSUME NEW k \in Nat, it[k] \in V, k + 1 <= n
                 PROVE  it[k + 1] \in V
      OBVIOUS
    <3>1. it[k + 1] = IF s[k + 1] \in R THEN it[k] ELSE Append(it[k], s[k + 1])
      <4>1. k + 1 \in 1 .. n /\ (k + 1) - 1 = k
        OBVIOUS
      <4> QED BY <1>8, <4>1
    <3> QED BY <3>1
  <2>3. \A k \in Nat : k \in T
    <3> HIDE DEF T
    <3> QED BY <2>1, <2>2, NatInduct
  <2> QED BY <2>3
<1>7. it \in [0 .. n -> V]
  BY <1>4, <1>6
<1> QED BY <1>5, <1>7, <1>8 DEF Prefixwise

\* Its elements are those outside R, and they do not repeat if s has no repeats.
LEMMA WithoutKeeps ==
  ASSUME NEW S, NEW s \in Seq(S), NEW R
  PROVE  /\ Without(s, R) \in Seq(S)
         /\ ToSet(Without(s, R)) = ToSet(s) \ R
         /\ Len(Without(s, R)) <= Len(s)
         /\ IsInjective(s) => IsInjective(Without(s, R))
<1>1. PICK p \in [0 .. Len(s) -> Seq(S)] : Prefixwise(p, s, R)
  BY WithoutPrefixes
<1> DEFINE n == Len(s)
           Good(k) == /\ ToSet(p[k]) = {s[i] : i \in 1 .. k} \ R
                      /\ Len(p[k]) <= k
                      /\ IsInjective(s) => IsInjective(p[k])
           T == {k \in Nat : k <= n => Good(k)}
<1>2. 0 \in T
  BY <1>1 DEF Prefixwise, ToSet, IsInjective
<1>3. ASSUME NEW k \in Nat, k \in T PROVE k + 1 \in T
  <2> SUFFICES ASSUME k + 1 <= n PROVE Good(k + 1)
    OBVIOUS
  <2>1. p[k] \in Seq(S) /\ p[k + 1] \in Seq(S) /\ s[k + 1] \in S /\ n \in Nat
    OBVIOUS
  <2>2. Good(k)
    BY <1>3
  <2>3. {s[i] : i \in 1 .. k + 1} = {s[i] : i \in 1 .. k} \cup {s[k + 1]}
    <3>1. 1 .. k + 1 = 1 .. k \cup {k + 1}
      OBVIOUS
    <3> QED BY <3>1
  <2>4. CASE s[k + 1] \in R
    <3>1. p[k + 1] = p[k]
      BY <1>1, <2>4 DEF Prefixwise
    <3> QED BY <2>1, <2>2, <2>3, <2>4, <3>1
  <2>5. CASE s[k + 1] \notin R
    <3>1. p[k + 1] = Append(p[k], s[k + 1])
      <4>1. k + 1 \in 1 .. n /\ (k + 1) - 1 = k
        BY <2>1
      <4> QED BY <1>1, <2>5, <4>1 DEF Prefixwise
    <3>2. ToSet(p[k + 1]) = ToSet(p[k]) \cup {s[k + 1]}
      BY <2>1, <3>1, ToSetAppend
    <3>3. Len(p[k + 1]) <= k + 1
      BY <2>1, <2>2, <3>1
    <3>4. ASSUME IsInjective(s) PROVE IsInjective(p[k + 1])
      <4>1. s[k + 1] \notin {s[i] : i \in 1 .. k}
        BY <3>4 DEF IsInjective
      <4>2. s[k + 1] \notin ToSet(p[k]) /\ IsInjective(p[k])
        BY <2>2, <4>1, <3>4
      <4> QED BY <4>2, <2>1, <3>1 DEF IsInjective, ToSet
    <3> QED BY <2>2, <2>3, <2>5, <3>2, <3>3, <3>4
  <2> QED BY <2>4, <2>5
<1>4. \A k \in Nat : k \in T
  <2> HIDE DEF T
  <2> QED BY <1>2, <1>3, NatInduct
<1>5. Good(n)
  <2>1. n \in Nat
    OBVIOUS
  <2>2. n \in T
    <3> HIDE DEF T, n
    <3> QED BY <1>4, <2>1
  <2> QED BY <2>1, <2>2
<1>6. {s[i] : i \in 1 .. n} = ToSet(s)
  <2>1. DOMAIN s = 1 .. n
    OBVIOUS
  <2> QED BY <2>1 DEF ToSet
<1>7. Without(s, R) = p[n]
  BY <1>1 DEF Prefixwise
<1> QED BY <1>5, <1>6, <1>7

LEMMA ToSetConcat ==
  ASSUME NEW S, NEW q \in Seq(S), NEW r \in Seq(S)
  PROVE  /\ q \o r \in Seq(S) /\ Len(q \o r) = Len(q) + Len(r)
         /\ ToSet(q \o r) = ToSet(q) \cup ToSet(r)
<1> DEFINE a == q \o r
<1>1. Len(a) = Len(q) + Len(r) /\ a \in Seq(S) /\ DOMAIN a = 1 .. Len(q) + Len(r)
  OBVIOUS
<1>2. \A i \in 1 .. Len(q) : a[i] = q[i]
  OBVIOUS
<1>3. \A i \in 1 .. Len(r) : a[Len(q) + i] = r[i]
  OBVIOUS
<1>4. DOMAIN q = 1 .. Len(q) /\ DOMAIN r = 1 .. Len(r) /\ Len(q) \in Nat /\ Len(r) \in Nat
  OBVIOUS
<1> HIDE DEF a
<1>5. ToSet(a) \subseteq ToSet(q) \cup ToSet(r)
  <2> SUFFICES ASSUME NEW i \in 1 .. Len(q) + Len(r)
               PROVE  a[i] \in ToSet(q) \cup ToSet(r)
    BY <1>1 DEF ToSet
  <2>1. CASE i <= Len(q)
    BY <1>2, <1>4, <2>1 DEF ToSet
  <2>2. CASE ~ (i <= Len(q))
    <3>1. i - Len(q) \in 1 .. Len(r) /\ Len(q) + (i - Len(q)) = i
      BY <1>4, <2>2
    <3> QED BY <1>3, <1>4, <3>1 DEF ToSet
  <2> QED BY <2>1, <2>2
<1>6. ToSet(q) \subseteq ToSet(a)
  BY <1>1, <1>2, <1>4 DEF ToSet
<1>7. ToSet(r) \subseteq ToSet(a)
  <2> SUFFICES ASSUME NEW i \in 1 .. Len(r) PROVE r[i] \in ToSet(a)
    BY <1>4 DEF ToSet
  <2>1. Len(q) + i \in DOMAIN a
    BY <1>1, <1>4
  <2> QED BY <1>3, <2>1 DEF ToSet
<1> QED BY <1>1, <1>5, <1>6, <1>7 DEF a

LEMMA InjectiveConcat ==
  ASSUME NEW S, NEW q \in Seq(S), NEW r \in Seq(S),
         IsInjective(q), IsInjective(r), ToSet(q) \cap ToSet(r) = {}
  PROVE  IsInjective(q \o r)
<1> DEFINE a == q \o r
<1>1. DOMAIN a = 1 .. Len(q) + Len(r)
  OBVIOUS
<1>2. \A i \in 1 .. Len(q) : a[i] = q[i]
  OBVIOUS
<1>3. \A i \in 1 .. Len(q) + Len(r) : i > Len(q) =>
        i - Len(q) \in 1 .. Len(r) /\ a[i] = r[i - Len(q)]
  OBVIOUS
<1>4. DOMAIN q = 1 .. Len(q) /\ DOMAIN r = 1 .. Len(r) /\ Len(q) \in Nat /\ Len(r) \in Nat
  OBVIOUS
<1> HIDE DEF a
<1>5. ASSUME NEW i \in DOMAIN a, NEW j \in DOMAIN a, a[i] = a[j]
      PROVE  i = j
  <2>1. CASE i <= Len(q) /\ j <= Len(q)
    <3>1. i \in 1 .. Len(q) /\ j \in 1 .. Len(q)
      BY <1>1, <2>1
    <3> QED BY <1>2, <1>4, <1>5, <3>1 DEF IsInjective
  <2>2. CASE i > Len(q) /\ j > Len(q)
    <3>1. r[i - Len(q)] = r[j - Len(q)] /\ i - Len(q) \in 1 .. Len(r) /\ j - Len(q) \in 1 .. Len(r)
      BY <1>1, <1>3, <1>5, <2>2
    <3>2. i - Len(q) = j - Len(q)
      BY <3>1, <1>4 DEF IsInjective
    <3> QED BY <3>2, <1>1, <1>4
  <2>3. CASE i <= Len(q) /\ j > Len(q)
    <3>1. i \in 1 .. Len(q) /\ j - Len(q) \in 1 .. Len(r)
      BY <1>1, <1>3, <1>4, <2>3
    <3>2. a[i] \in ToSet(q) /\ a[j] \in ToSet(r)
      BY <1>1, <1>2, <1>3, <1>4, <2>3, <3>1 DEF ToSet
    <3> QED BY <3>2, <1>5
  <2>4. CASE i > Len(q) /\ j <= Len(q)
    <3>1. a[j] \in ToSet(q) /\ a[i] \in ToSet(r)
      BY <1>1, <1>2, <1>3, <1>4, <2>4 DEF ToSet
    <3> QED BY <3>1, <1>5
  <2> QED BY <2>1, <2>2, <2>3, <2>4, <1>1, <1>4
<1> QED BY <1>5 DEF a, IsInjective

LEMMA TailFacts ==
  ASSUME NEW S, NEW q \in Seq(S), q # <<>>
  PROVE  /\ Head(q) \in S /\ Tail(q) \in Seq(S) /\ Len(Tail(q)) = Len(q) - 1
         /\ ToSet(q) = ToSet(Tail(q)) \cup {Head(q)}
         /\ IsInjective(q) => IsInjective(Tail(q)) /\ Head(q) \notin ToSet(Tail(q))
<1> DEFINE a == Tail(q)
<1>1. Head(q) = q[1] /\ Head(q) \in S /\ a \in Seq(S) /\ Len(a) = Len(q) - 1 /\ Len(q) \in Nat \ {0}
  OBVIOUS
<1>2. \A i \in 1 .. Len(a) : a[i] = q[i + 1]
  OBVIOUS
<1>3. DOMAIN a = 1 .. Len(a) /\ DOMAIN q = 1 .. Len(q)
  BY <1>1
<1> HIDE DEF a
<1>4. \A i \in 1 .. Len(a) : i + 1 \in 1 .. Len(q) /\ i + 1 # 1
  BY <1>1
<1>5. \A i \in 1 .. Len(q) : i # 1 => i - 1 \in 1 .. Len(a) /\ (i - 1) + 1 = i
  BY <1>1
<1>6. ToSet(q) \subseteq ToSet(a) \cup {q[1]}
  <2> SUFFICES ASSUME NEW i \in 1 .. Len(q), i # 1 PROVE q[i] \in ToSet(a)
    BY <1>3 DEF ToSet
  <2>1. q[i] = a[i - 1] /\ i - 1 \in DOMAIN a
    BY <1>2, <1>3, <1>5
  <2> QED BY <2>1 DEF ToSet
<1>7. ToSet(a) \cup {q[1]} \subseteq ToSet(q)
  BY <1>1, <1>2, <1>3, <1>4 DEF ToSet
<1>8. ASSUME IsInjective(q) PROVE IsInjective(a) /\ q[1] \notin ToSet(a)
  <2>1. ASSUME NEW i \in DOMAIN a, NEW j \in DOMAIN a, a[i] = a[j] PROVE i = j
    <3>1. i + 1 = j + 1
      BY <1>2, <1>3, <1>4, <1>8, <2>1 DEF IsInjective
    <3> QED BY <3>1, <1>3, <1>1
  <2>2. ASSUME NEW i \in DOMAIN a PROVE a[i] # q[1]
    BY <1>1, <1>2, <1>3, <1>4, <1>8 DEF IsInjective
  <2> QED BY <2>1, <2>2 DEF IsInjective, ToSet
<1> QED BY <1>1, <1>6, <1>7, <1>8 DEF a

\* A sequence without repeats is as long as its set of elements.
LEMMA InjectiveLength ==
  ASSUME NEW S, NEW q \in Seq(S), IsInjective(q)
  PROVE  IsFiniteSet(ToSet(q)) /\ Cardinality(ToSet(q)) = Len(q)
<1>1. q \in Surjection(1 .. Len(q), ToSet(q)) /\ q \in Injection(1 .. Len(q), ToSet(q))
  BY DEF Surjection, Injection, IsInjective, ToSet
<1>2. IsFiniteSet(1 .. Len(q)) /\ Cardinality(1 .. Len(q)) = Len(q)
  <2> DEFINE n == Len(q)
  <2>1. n \in Nat /\ 1 \in Int /\ n \in Int
    OBVIOUS
  <2> HIDE DEF n
  <2>2. IsFiniteSet(1 .. n) /\ Cardinality(1 .. n) = IF 1 > n THEN 0 ELSE n - 1 + 1
    BY <2>1, FS_Interval
  <2> QED BY <2>1, <2>2 DEF n
<1> QED BY <1>1, <1>2, FS_Surjection

LEMMA ToSetFinite ==
  ASSUME NEW S, NEW q \in Seq(S)
  PROVE  IsFiniteSet(ToSet(q)) /\ ToSet(q) \subseteq S
<1>1. q \in Surjection(1 .. Len(q), ToSet(q)) /\ ToSet(q) \subseteq S
  BY DEF Surjection, ToSet
<1>2. IsFiniteSet(1 .. Len(q))
  BY FS_Interval
<1> QED BY <1>1, <1>2, FS_Surjection

\* An injection of as many places as a set has elements lists the set.
LEMMA ListsAll ==
  ASSUME NEW S, IsFiniteSet(S), NEW o \in [1 .. Cardinality(S) -> S],
         \A i, j \in 1 .. Cardinality(S) : o[i] = o[j] => i = j
  PROVE  o \in Seq(S) /\ Len(o) = Cardinality(S) /\ IsInjective(o) /\ ToSet(o) = S
<1> DEFINE n == Cardinality(S)
<1>1. n \in Nat /\ o \in [1 .. n -> S] /\ \A i, j \in 1 .. n : o[i] = o[j] => i = j
  BY FS_CardinalityType
<1>2. o \in Seq(S) /\ IsInjective(o)
  BY <1>1 DEF IsInjective
<1>3. IsFiniteSet(ToSet(o)) /\ Cardinality(ToSet(o)) = Len(o) /\ ToSet(o) \subseteq S
  BY <1>2, InjectiveLength, ToSetFinite
<1>4. Len(o) = n
  BY <1>1, <1>2
<1> QED
  BY <1>2, <1>3, <1>4, FS_Subset
=============================================================================
