------------------------------ MODULE SumFacts ------------------------------
(***************************************************************************)
(* Induction over the natural numbers and what follows from it about the   *)
(* library's folds: a sum over a finite set does not depend on the order   *)
(* the fold takes the elements in, grows by the weight of an element that  *)
(* is added and with the weights, and is the difference of the ends when   *)
(* its weights are the steps between; a finite set of integers has a       *)
(* largest and a least element.                                            *)
(*                                                                         *)
(* A weight is a function here, so that the lemmas can be instantiated; a  *)
(* sum of the library with a weight written as an expression is one of     *)
(* these by the lemma stated next to where it is used.                     *)
(***************************************************************************)
EXTENDS Integers, FiniteSetsExt, WellFoundedInduction, FiniteSetTheorems, TLAPS

-----------------------------------------------------------------------------
(* Induction *)

\* A set that holds zero and every successor of a number in it holds them all:
\* otherwise there is a least number outside.
LEMMA Induction ==
  ASSUME NEW S, 0 \in S, \A n \in Nat : n \in S => n + 1 \in S
  PROVE Nat \subseteq S
<1> DEFINE Rest == Nat \ S
           Less == OpToRel(<, Nat)
<1> SUFFICES ASSUME Rest # {} PROVE FALSE
  OBVIOUS
<1>1. IsWellFoundedOn(Less, Nat)
  BY NatLessThanWellFounded
<1>2. \A x, y \in Nat : y < x => <<y, x>> \in Less
  BY DEF OpToRel
<1>3. Rest \subseteq Nat
  OBVIOUS
<1> HIDE DEF Less, Rest
<1>4. PICK m \in Rest : \A n \in Rest : ~(<<n, m>> \in Less)
  BY <1>1, <1>3, WFMin
<1> USE DEF Rest
<1>5. m - 1 \in Nat /\ m - 1 < m /\ (m - 1) + 1 = m
  OBVIOUS
<1>6. m - 1 \in S
  BY <1>2, <1>3, <1>4, <1>5
<1> QED
  BY <1>5, <1>6

\* A set of natural numbers that is not empty has a least element.
LEMMA LeastExists ==
  ASSUME NEW S, S \subseteq Nat, S # {}
  PROVE  \E m \in S : \A n \in S : m <= n
<1> DEFINE Less == OpToRel(<, Nat)
<1>1. IsWellFoundedOn(Less, Nat)
  BY NatLessThanWellFounded
<1>2. \A x, y \in Nat : y < x => <<y, x>> \in Less
  BY DEF OpToRel
<1> HIDE DEF Less
<1>3. PICK m \in S : \A n \in S : ~(<<n, m>> \in Less)
  BY <1>1, WFMin
<1>4. \A n \in S : ~(n < m) /\ n \in Nat /\ m \in Nat
  BY <1>2, <1>3
<1> QED
  BY <1>4

-----------------------------------------------------------------------------
(* Sums over finite sets *)

\* The element of a set that the library's fold takes first.
FirstOf(s) == CHOOSE x \in s : TRUE

\* It is an element.
LEMMA FirstIsElement ==
  ASSUME NEW s, s # {} PROVE FirstOf(s) \in s
BY DEF FirstOf

\* f sums the weights of the subsets of S, as the fold of the library does.
Sums(f, w, S) ==
    f = [s \in SUBSET S |->
            IF s = {} THEN 0
            ELSE w[FirstOf(s)] + f[s \ {FirstOf(s)}]]

\* Taking an element out of a finite set leaves a smaller one.
LEMMA WithoutElement ==
  ASSUME NEW s, IsFiniteSet(s), NEW x \in s
  PROVE /\ IsFiniteSet(s \ {x}) /\ Cardinality(s) \in Nat \ {0} /\ Cardinality(s \ {x}) = Cardinality(s) - 1 
BY FS_RemoveElement, FS_CardinalityType, FS_EmptySet

\* Two such functions agree where both are defined.
LEMMA SumsAgree ==
  ASSUME NEW w, NEW S, IsFiniteSet(S), NEW T, T \subseteq S, NEW f, Sums(f, w, S), NEW g, Sums(g, w, T)
  PROVE  \A s \in SUBSET T : f[s] = g[s]
<1> DEFINE Agreed == {n \in Nat : \A s \in SUBSET T : Cardinality(s) = n => f[s] = g[s]}
<1>1. \A s \in SUBSET T : s \in SUBSET S /\ IsFiniteSet(s) /\ Cardinality(s) \in Nat
  BY FS_Subset, FS_CardinalityType
<1>2. 0 \in Agreed
  <2> SUFFICES ASSUME NEW s \in SUBSET T, Cardinality(s) = 0 PROVE f[s] = g[s]
    OBVIOUS
  <2>1. s = {}
    BY <1>1, FS_EmptySet
  <2> QED
    BY <1>1, <2>1 DEF Sums
<1>3. ASSUME NEW n \in Nat, n \in Agreed PROVE n + 1 \in Agreed
  <2> SUFFICES ASSUME NEW s \in SUBSET T, Cardinality(s) = n + 1 PROVE f[s] = g[s]
    OBVIOUS
  <2> DEFINE x == FirstOf(s)
  <2>1. s # {} /\ x \in s
    BY <1>1, FS_EmptySet, FirstIsElement
  <2>2. Cardinality(s \ {x}) = n /\ s \ {x} \in SUBSET T
    BY <1>1, <2>1, WithoutElement
  <2>3. f[s \ {x}] = g[s \ {x}]
    BY <1>3, <2>2
  <2>4. f[s] = w[x] + f[s \ {x}]
    BY <1>1, <2>1 DEF Sums
  <2>5. g[s] = w[x] + g[s \ {x}]
    BY <1>1, <2>1 DEF Sums
  <2> QED
    BY <2>3, <2>4, <2>5
<1> HIDE DEF Agreed
<1>4. Nat \subseteq Agreed
  BY <1>2, <1>3, Induction
<1> QED
  BY <1>1, <1>4 DEF Agreed

\* The sum of the weights of a set.
SumOver(w, s) == (CHOOSE f : Sums(f, w, s))[s]

\* There is such a function for every finite set, built from those of its
\* proper subsets.
LEMMA SumsExist ==
  ASSUME NEW w, NEW S, IsFiniteSet(S)
  PROVE \E f : Sums(f, w, S)
<1> DEFINE Done == {n \in Nat : \A T : IsFiniteSet(T) /\ Cardinality(T) <= n => \E f : Sums(f, w, T)}
<1>1. 0 \in Done
  <2> SUFFICES ASSUME NEW T, IsFiniteSet(T), Cardinality(T) <= 0 PROVE \E f : Sums(f, w, T)
    OBVIOUS
  <2>1. T = {}
    BY FS_EmptySet, FS_CardinalityType
  <2> DEFINE f == [s \in SUBSET T |-> 0]
  <2>2. SUBSET T = {{}}
    BY <2>1
  <2>3. Sums(f, w, T)
    BY <2>2 DEF Sums
  <2> QED
    BY <2>3
<1>2. ASSUME NEW n \in Nat, n \in Done PROVE n + 1 \in Done
  <2> SUFFICES ASSUME NEW T, IsFiniteSet(T), Cardinality(T) <= n + 1 PROVE \E f : Sums(f, w, T)
    OBVIOUS
  <2> DEFINE sum == [t \in SUBSET T |-> SumOver(w, t)]
             f == [t \in SUBSET T |-> IF t = {} THEN 0
                                      ELSE w[FirstOf(t)] + sum[t \ {FirstOf(t)}]]
  <2>1. ASSUME NEW t \in SUBSET T, t # T PROVE f[t] = sum[t]
    <3>1. IsFiniteSet(t) /\ Cardinality(t) <= n
      <4> HIDE DEF sum, f
      <4>1. IsFiniteSet(t) /\ Cardinality(t) <= Cardinality(T) /\ Cardinality(t) # Cardinality(T)
        BY <2>1, FS_Subset
      <4>2. Cardinality(t) \in Nat /\ Cardinality(T) \in Nat
        BY <4>1, FS_CardinalityType
      <4> QED
        BY <4>1, <4>2
    <3> DEFINE g == CHOOSE h : Sums(h, w, t)
    <3>2. Sums(g, w, t)
      BY <1>2, <3>1
    <3>3. sum[t] = g[t] /\ t \in SUBSET t
      BY DEF SumOver
    <3> HIDE DEF g
    <3>4. CASE t = {}
      BY <3>2, <3>3, <3>4 DEF Sums
    <3>5. CASE t # {}
      <4> DEFINE x == FirstOf(t)
                 u == t \ {x}
                 h == CHOOSE k : Sums(k, w, u)
      <4>1. x \in t
        BY <3>5, FirstIsElement
      <4>2. IsFiniteSet(u) /\ Cardinality(u) <= n /\ u \in SUBSET t /\ u \in SUBSET T
        <5> HIDE DEF sum, f, h
        <5>1. IsFiniteSet(u) /\ Cardinality(t) \in Nat \ {0} /\ Cardinality(u) = Cardinality(t) - 1
          BY <3>1, <4>1, WithoutElement
        <5>2. u \in SUBSET t /\ u \in SUBSET T
          OBVIOUS
        <5> QED
          BY <3>1, <5>1, <5>2
      <4>3. Sums(h, w, u)
        BY <1>2, <4>2
      <4>4. sum[u] = h[u] /\ u \in SUBSET u
        BY <4>2 DEF SumOver
      <4>5. g[u] = h[u]
        <5> HIDE DEF h, u
        <5> QED
          BY <3>1, <3>2, <4>2, <4>3, <4>4, SumsAgree
      <4>6. g[t] = w[x] + g[u]
        BY <3>2, <3>3, <3>5 DEF Sums
      <4>7. f[t] = w[x] + sum[u]
        BY <3>5
      <4> QED
        BY <3>3, <4>4, <4>5, <4>6, <4>7
    <3> QED
      BY <3>4, <3>5
  <2>2. Sums(f, w, T)
    <3>1. ASSUME NEW t \in SUBSET T PROVE
           f[t] = IF t = {} THEN 0
            ELSE w[FirstOf(t)] + f[t \ {FirstOf(t)}]
      <4>1. CASE t = {}
        BY <4>1
      <4>2. CASE t # {}
        <5> DEFINE x == FirstOf(t)
        <5>1. x \in t
          BY <4>2, FirstIsElement
        <5>2. t \ {x} \in SUBSET T /\ t \ {x} # T
          BY <5>1
        <5>3. f[t \ {x}] = sum[t \ {x}]
          <6> HIDE DEF f, sum, x
          <6> QED BY <2>1, <5>2
        <5>4. f[t] = w[x] + sum[t \ {x}]
          BY <4>2
        <5> HIDE DEF f, sum
        <5> QED BY <4>2, <5>3, <5>4
      <4> QED BY <4>1, <4>2
    <3>2. f = [t \in SUBSET T |-> f[t]]
      OBVIOUS
    <3> HIDE DEF f
    <3> QED
      BY <3>1, <3>2 DEF Sums
  <2> QED
    BY <2>2
<1> HIDE DEF Done
<1>3. Nat \subseteq Done
  BY <1>1, <1>2, Induction
<1>4. Cardinality(S) \in Done
  BY <1>3, FS_CardinalityType
<1> QED
  BY <1>4, FS_CardinalityType DEF Done

\* It depends on no more than the weights of the elements.
LEMMA SumSame ==
  ASSUME NEW S, IsFiniteSet(S), NEW u, NEW v, \A x \in S : u[x] = v[x]
  PROVE  SumOver(u, S) = SumOver(v, S)
<1> DEFINE f == CHOOSE h : Sums(h, u, S)
           g == CHOOSE h : Sums(h, v, S)
<1>1. Sums(f, u, S) /\ Sums(g, v, S)
  BY SumsExist
<1> HIDE DEF f, g
<1>2. \A t \in SUBSET S : t # {} => FirstOf(t) \in S
  BY FirstIsElement
<1>3. Sums(f, v, S)
  BY <1>1, <1>2 DEF Sums
<1>4. f[S] = g[S]
  BY <1>1, <1>3, SumsAgree
<1> QED
  BY <1>4 DEF SumOver, f, g

\* The fold of the library over all of a function is such a sum.
LEMMA FoldIsSum ==
    ASSUME NEW f, IsFiniteSet(DOMAIN f)
    PROVE  SumFunction(f) = SumOver(f, DOMAIN f)
<1> DEFINE S == DOMAIN f
           Folded(g) ==
              g = [t \in SUBSET S |->
                    IF t = {} THEN 0
                    ELSE f[CHOOSE x \in t : TRUE] + g[t \ {CHOOSE x \in t : TRUE}]]
           g == CHOOSE h : Folded(h)
           h == CHOOSE k : Sums(k, f, S)
<1>1. \A k : Folded(k) <=> Sums(k, f, S)
  BY DEF Sums, FirstOf
<1>2. Sums(h, f, S)
  <2> HIDE DEF S
  <2> QED BY SumsExist DEF S
<1>3. Folded(g)
  <2> HIDE DEF Folded, h
  <2>1. Folded(h)
    BY <1>1, <1>2
  <2> QED
    BY <2>1
<1>4. SumFunction(f) = g[S]
  BY DEF SumFunction, SumFunctionOnSet, FoldFunctionOnSet, MapThenFoldSet
<1> HIDE DEF Folded, g, h, S
<1>5. g[S] = h[S]
  BY <1>1, <1>2, <1>3, SumsAgree DEF S
<1>6. SumOver(f, S) = h[S]
  BY DEF SumOver, h
<1> QED
  BY <1>4, <1>5, <1>6 DEF S

LEMMA FoldIsSumOf ==
    ASSUME NEW S, IsFiniteSet(S), NEW f, DOMAIN f = S, NEW w, \A x \in S : f[x] = w[x]
    PROVE  SumFunction(f) = SumOver(w, S)
<1>1. SumFunction(f) = SumOver(f, S)
  BY FoldIsSum
<1>2. SumOver(f, S) = SumOver(w, S)
  BY SumSame
<1> QED
  BY <1>1, <1>2

\* The sum obeys the equation of the fold, ...
LEMMA SumEquation ==
  ASSUME NEW w, NEW S, IsFiniteSet(S)
  PROVE  SumOver(w, S) = IF S = {} THEN 0 ELSE w[FirstOf(S)] + SumOver(w, S \ {FirstOf(S)})
<1> DEFINE T == S \ {FirstOf(S)}
           g == CHOOSE f : Sums(f, w, S)
           h == CHOOSE f : Sums(f, w, T)
<1>1. Sums(g, w, S)
  BY SumsExist
<1>2. IsFiniteSet(T)
  BY FS_Subset
<1>3. Sums(h, w, T)
  BY <1>2, SumsExist
<1>4. SumOver(w, S) = g[S] /\ SumOver(w, T) = h[T]
  BY DEF SumOver
<1> HIDE DEF g, h
<1>5. h[T] = g[T]
  BY <1>1, <1>3, SumsAgree
<1>6. g[S] = IF S = {} THEN 0 ELSE w[FirstOf(S)] + g[T]
  BY <1>1 DEF Sums
<1> QED
  BY <1>4, <1>5, <1>6

\* A sum of integers is an integer.
LEMMA SumType ==
  ASSUME NEW w, NEW S, IsFiniteSet(S), \A x \in S : w[x] \in Int
  PROVE  SumOver(w, S) \in Int
<1> DEFINE Typed == {n \in Nat : \A T \in SUBSET S : Cardinality(T) = n => SumOver(w, T) \in Int}
<1>1. \A T \in SUBSET S : IsFiniteSet(T) /\ Cardinality(T) \in Nat
  BY FS_Subset, FS_CardinalityType
<1>2. 0 \in Typed
  <2> SUFFICES ASSUME NEW T \in SUBSET S, Cardinality(T) = 0 PROVE SumOver(w, T) \in Int
    OBVIOUS
  <2>1. T = {}
    BY <1>1, FS_EmptySet
  <2>2. SumOver(w, {}) = 0
    BY FS_EmptySet, SumEquation
  <2> QED
    BY <2>1, <2>2
<1>3. ASSUME NEW n \in Nat, n \in Typed PROVE n + 1 \in Typed
  <2> SUFFICES ASSUME NEW T \in SUBSET S, Cardinality(T) = n + 1 PROVE SumOver(w, T) \in Int
    OBVIOUS
  <2> DEFINE x == FirstOf(T)
  <2>1. T # {} /\ x \in T
    BY <1>1, FS_EmptySet, FirstIsElement
  <2>2. Cardinality(T \ {x}) = n /\ T \ {x} \in SUBSET S
    BY <1>1, <2>1, WithoutElement
  <2>3. SumOver(w, T \ {x}) \in Int /\ w[x] \in Int
    BY <1>3, <2>1, <2>2
  <2>4. SumOver(w, T) = w[x] + SumOver(w, T \ {x})
    BY <1>1, <2>1, SumEquation
  <2> QED
    BY <2>3, <2>4
<1> HIDE DEF Typed
<1>4. Nat \subseteq Typed
  BY <1>2, <1>3, Induction
<1> QED
  BY <1>1, <1>4 DEF Typed

\* ... whichever element is taken first.
LEMMA SumWithout ==
  ASSUME NEW w, NEW S, IsFiniteSet(S), \A x \in S : w[x] \in Int, NEW x \in S
  PROVE  SumOver(w, S) = w[x] + SumOver(w, S \ {x})
<1> DEFINE Free == {n \in Nat : \A T \in SUBSET S : Cardinality(T) = n =>
                        \A y \in T : SumOver(w, T) = w[y] + SumOver(w, T \ {y})}
<1>1. \A T \in SUBSET S : IsFiniteSet(T) /\ Cardinality(T) \in Nat /\ SumOver(w, T) \in Int
  BY FS_Subset, FS_CardinalityType, SumType
<1>2. 0 \in Free
  BY <1>1, FS_EmptySet
<1>3. ASSUME NEW n \in Nat, n \in Free PROVE n + 1 \in Free
  <2> SUFFICES ASSUME NEW T \in SUBSET S, Cardinality(T) = n + 1, NEW y \in T
               PROVE  SumOver(w, T) = w[y] + SumOver(w, T \ {y})
    OBVIOUS
  <2> DEFINE a == FirstOf(T)
  <2>1. a \in T
    BY FirstIsElement
  <2>2. SumOver(w, T) = w[a] + SumOver(w, T \ {a})
    BY <1>1, <2>1, SumEquation
  <2>3. CASE y # a
    <3> DEFINE both == (T \ {a}) \ {y}
    <3> HIDE DEF a
    <3>1. /\ Cardinality(T \ {a}) = n /\ T \ {a} \in SUBSET S /\ y \in T \ {a}
          /\ Cardinality(T \ {y}) = n /\ T \ {y} \in SUBSET S /\ a \in T \ {y}
      BY <1>1, <2>1, <2>3, WithoutElement
    <3>2. (T \ {y}) \ {a} = both /\ both \in SUBSET S
      OBVIOUS
    <3>3. SumOver(w, T \ {a}) = w[y] + SumOver(w, both)
      BY <1>3, <3>1
    <3>4. SumOver(w, T \ {y}) = w[a] + SumOver(w, both)
      BY <1>3, <3>1, <3>2
    <3>5. w[a] \in Int /\ w[y] \in Int /\ SumOver(w, both) \in Int
      BY <1>1, <2>1, <3>2
    <3> HIDE DEF both
    <3> QED
      BY <2>2, <3>3, <3>4, <3>5
  <2> QED
    BY <2>2, <2>3
<1> HIDE DEF Free
<1>4. Nat \subseteq Free
  BY <1>2, <1>3, Induction
<1> QED
  BY <1>1, <1>4 DEF Free

\* There is nothing in the sum of nothing.
LEMMA SumOfNone == ASSUME NEW w PROVE SumOver(w, {}) = 0
BY FS_EmptySet, SumEquation

\* The sum of differences is the difference of the sums.
LEMMA SumMinus ==
  ASSUME NEW S, IsFiniteSet(S), NEW u, NEW v, NEW w,
         \A x \in S : u[x] \in Int /\ v[x] \in Int /\ w[x] = u[x] - v[x]
  PROVE  SumOver(w, S) = SumOver(u, S) - SumOver(v, S)
<1> DEFINE Fits == {n \in Nat : \A T \in SUBSET S : Cardinality(T) = n =>
                        SumOver(w, T) = SumOver(u, T) - SumOver(v, T)}
<1>1. \A T \in SUBSET S : IsFiniteSet(T) /\ Cardinality(T) \in Nat
  BY FS_Subset, FS_CardinalityType
<1>2. 0 \in Fits
  <2> SUFFICES ASSUME NEW T \in SUBSET S, Cardinality(T) = 0
               PROVE  SumOver(w, T) = SumOver(u, T) - SumOver(v, T)
    OBVIOUS
  <2>1. T = {}
    BY <1>1, FS_EmptySet
  <2>2. SumOver(w, {}) = 0 /\ SumOver(u, {}) = 0 /\ SumOver(v, {}) = 0
    BY SumOfNone
  <2> QED
    BY <2>1, <2>2
<1>3. ASSUME NEW n \in Nat, n \in Fits PROVE n + 1 \in Fits
  <2> SUFFICES ASSUME NEW T \in SUBSET S, Cardinality(T) = n + 1
               PROVE  SumOver(w, T) = SumOver(u, T) - SumOver(v, T)
    OBVIOUS
  <2> DEFINE x == FirstOf(T)
  <2>1. IsFiniteSet(T) /\ T # {} /\ x \in T /\ x \in S
    BY <1>1, FS_EmptySet, FirstIsElement
  <2>2. Cardinality(T \ {x}) = n /\ T \ {x} \in SUBSET S /\ IsFiniteSet(T \ {x})
    BY <1>1, <2>1, WithoutElement
  <2>3. SumOver(w, T \ {x}) = SumOver(u, T \ {x}) - SumOver(v, T \ {x})
    BY <1>3, <2>2
  <2>4. SumOver(w, T) = w[x] + SumOver(w, T \ {x})
    BY <2>1, SumEquation
  <2>5. SumOver(u, T) = u[x] + SumOver(u, T \ {x})
    BY <2>1, SumEquation
  <2>6. SumOver(v, T) = v[x] + SumOver(v, T \ {x})
    BY <2>1, SumEquation
  <2>7. SumOver(u, T \ {x}) \in Int
    BY <2>2, SumType
  <2>8. SumOver(v, T \ {x}) \in Int
    BY <2>2, SumType
  <2>9. u[x] \in Int /\ v[x] \in Int /\ w[x] = u[x] - v[x]
    BY <2>1
  <2> QED
    BY <2>3, <2>4, <2>5, <2>6, <2>7, <2>8, <2>9
<1> HIDE DEF Fits
<1>4. Nat \subseteq Fits
  BY <1>2, <1>3, Induction
<1> QED
  BY <1>1, <1>4 DEF Fits

\* Larger weights have the larger sum.
LEMMA SumRises ==
  ASSUME NEW S, IsFiniteSet(S), NEW u, NEW v,
         \A x \in S : u[x] \in Int /\ v[x] \in Int /\ u[x] <= v[x]
  PROVE  SumOver(u, S) <= SumOver(v, S)
<1> DEFINE Rises == {n \in Nat : \A T \in SUBSET S : Cardinality(T) = n =>
                        SumOver(u, T) <= SumOver(v, T)}
<1>1. \A T \in SUBSET S : IsFiniteSet(T) /\ Cardinality(T) \in Nat
  BY FS_Subset, FS_CardinalityType
<1>2. 0 \in Rises
  <2> SUFFICES ASSUME NEW T \in SUBSET S, Cardinality(T) = 0
               PROVE  SumOver(u, T) <= SumOver(v, T)
    OBVIOUS
  <2>1. T = {}
    BY <1>1, FS_EmptySet
  <2>2. SumOver(u, {}) = 0 /\ SumOver(v, {}) = 0
    BY SumOfNone
  <2> QED
    BY <2>1, <2>2
<1>3. ASSUME NEW n \in Nat, n \in Rises PROVE n + 1 \in Rises
  <2> SUFFICES ASSUME NEW T \in SUBSET S, Cardinality(T) = n + 1
               PROVE  SumOver(u, T) <= SumOver(v, T)
    OBVIOUS
  <2> DEFINE x == FirstOf(T)
  <2>1. IsFiniteSet(T) /\ T # {} /\ x \in T /\ x \in S
    BY <1>1, FS_EmptySet, FirstIsElement
  <2>2. Cardinality(T \ {x}) = n /\ T \ {x} \in SUBSET S /\ IsFiniteSet(T \ {x})
    BY <1>1, <2>1, WithoutElement
  <2>3. SumOver(u, T \ {x}) <= SumOver(v, T \ {x})
    BY <1>3, <2>2
  <2>5. SumOver(u, T) = u[x] + SumOver(u, T \ {x})
    BY <2>1, SumEquation
  <2>6. SumOver(v, T) = v[x] + SumOver(v, T \ {x})
    BY <2>1, SumEquation
  <2>7. SumOver(u, T \ {x}) \in Int
    BY <2>2, SumType
  <2>8. SumOver(v, T \ {x}) \in Int
    BY <2>2, SumType
  <2>9. u[x] \in Int /\ v[x] \in Int /\ u[x] <= v[x]
    BY <2>1
  <2> QED
    BY <2>3, <2>5, <2>6, <2>7, <2>8, <2>9
<1> HIDE DEF Rises
<1>4. Nat \subseteq Rises
  BY <1>2, <1>3, Induction
<1> QED
  BY <1>1, <1>4 DEF Rises

\* Weights that are not negative have such a sum.
LEMMA SumOfNaturals ==
  ASSUME NEW w, NEW S, IsFiniteSet(S), \A x \in S : w[x] \in Nat
  PROVE  SumOver(w, S) \in Nat
<1> DEFINE o == [x \in S |-> 0]
<1>1. \A x \in S : /\ w[x] \in Int /\ o[x] \in Int
                    /\ o[x] = w[x] - w[x] /\ o[x] <= w[x]
  OBVIOUS
<1> HIDE DEF o
<1>2. SumOver(w, S) \in Int
  BY <1>1, SumType
<1>3. SumOver(o, S) = SumOver(w, S) - SumOver(w, S)
  BY <1>1, SumMinus
<1>4. SumOver(o, S) <= SumOver(w, S)
  BY <1>1, SumRises
<1> QED
  BY <1>2, <1>3, <1>4

\* The steps of a function add up to what it rises by.
LEMMA SumOfSteps ==
  ASSUME NEW m \in Int, NEW n \in Int, m <= n, NEW f, NEW w,
         \A x \in m .. n : f[x] \in Int,
         \A x \in m .. n - 1 : w[x] = f[x + 1] - f[x]
  PROVE  SumOver(w, m .. n - 1) = f[n] - f[m]
<1> DEFINE Fits == {k \in Nat : m + k <= n => SumOver(w, m .. m + k - 1) = f[m + k] - f[m]}
<1>1. 0 \in Fits
  <2>1. m .. m + 0 - 1 = {} /\ m + 0 = m /\ m \in m .. n
    OBVIOUS
  <2>2. SumOver(w, {}) = 0
    BY SumOfNone
  <2>3. f[m] - f[m] = 0
    BY <2>1
  <2> QED
    BY <2>1, <2>2, <2>3
<1>2. ASSUME NEW k \in Nat, k \in Fits PROVE k + 1 \in Fits
  <2> SUFFICES ASSUME m + (k + 1) <= n
               PROVE  SumOver(w, m .. m + (k + 1) - 1) = f[m + (k + 1)] - f[m]
    OBVIOUS
  <2> DEFINE S == m .. m + (k + 1) - 1
             T == m .. m + k - 1
             x == m + k
  <2>1. /\ x \in S /\ S \ {x} = T /\ x \in m .. n - 1 /\ x + 1 = m + (k + 1)
        /\ x \in m .. n /\ x + 1 \in m .. n /\ m \in m .. n
        /\ \A y \in S : y \in m .. n - 1 /\ y \in m .. n /\ y + 1 \in m .. n
    OBVIOUS
  <2>2. IsFiniteSet(S)
    <3>1. m \in Int /\ m + (k + 1) - 1 \in Int
      OBVIOUS
    <3> QED
      BY <3>1, FS_Interval
  <2>3. SumOver(w, T) = f[x] - f[m]
    BY <1>2
  <2> HIDE DEF S, T, x
  <2>4. \A y \in S : w[y] \in Int
    BY <2>1
  <2>5. SumOver(w, S) = w[x] + SumOver(w, T)
    <3>1. x \in S /\ S \ {x} = T
      BY <2>1
    <3>2. SumOver(w, S) = w[x] + SumOver(w, S \ {x})
      BY <2>2, <2>4, <3>1, SumWithout
    <3> QED
      BY <3>1, <3>2
  <2>6. w[x] = f[x + 1] - f[x] /\ f[x + 1] \in Int /\ f[x] \in Int /\ f[m] \in Int
    BY <2>1
  <2>7. SumOver(w, S) = f[x + 1] - f[m]
    BY <2>3, <2>5, <2>6
  <2>8. f[x + 1] = f[m + (k + 1)]
    BY <2>1
  <2>9. SumOver(w, S) = f[m + (k + 1)] - f[m]
    BY <2>7, <2>8
  <2> QED
    BY <2>9 DEF S
<1> HIDE DEF Fits
<1>3. Nat \subseteq Fits
  BY <1>1, <1>2, Induction
<1>4. n - m \in Nat /\ m + (n - m) = n
  OBVIOUS
<1>5. n - m \in Fits
  BY <1>3, <1>4
<1> QED
  BY <1>4, <1>5 DEF Fits

-----------------------------------------------------------------------------
(* Largest and least elements *)

\* Every finite set of integers has a largest element, and Max is it.
LEMMA MaxIsLargest ==
  ASSUME NEW S, S \subseteq Int, IsFiniteSet(S), S # {}
  PROVE  Max(S) \in S /\ \A x \in S : x <= Max(S)
<1> DEFINE Topped == {n \in Nat : \A T \in SUBSET S :
                        Cardinality(T) = n + 1 => \E m \in T : \A x \in T : m >= x}
<1>1. \A T \in SUBSET S : IsFiniteSet(T) /\ Cardinality(T) \in Nat
  BY FS_Subset, FS_CardinalityType
<1>2. 0 \in Topped
  <2> SUFFICES ASSUME NEW T \in SUBSET S, Cardinality(T) = 1
               PROVE  \E m \in T : \A x \in T : m >= x
    OBVIOUS
  <2>1. PICK m : T = {m}
    BY <1>1, FS_Singleton
  <2> QED
    BY <2>1
<1>3. ASSUME NEW n \in Nat, n \in Topped PROVE n + 1 \in Topped
  <2> SUFFICES ASSUME NEW T \in SUBSET S, Cardinality(T) = n + 2
               PROVE  \E m \in T : \A x \in T : m >= x
    OBVIOUS
  <2>1. PICK y \in T : TRUE
    <3>1. T # {}
      BY FS_EmptySet
    <3> QED
      BY <3>1
  <2>2. Cardinality(T \ {y}) = n + 1 /\ T \ {y} \in SUBSET S
    BY <1>1, WithoutElement
  <2>3. PICK m \in T \ {y} : \A x \in T \ {y} : m >= x
    BY <1>3, <2>2
  <2>4. y \in Int /\ m \in Int /\ T \subseteq Int
    OBVIOUS
  <2>5. CASE m >= y
    BY <2>3, <2>5
  <2>6. CASE y > m
    BY <2>3, <2>4, <2>6
  <2> QED
    BY <2>4, <2>5, <2>6
<1> HIDE DEF Topped
<1>4. Nat \subseteq Topped
  BY <1>2, <1>3, Induction
<1>5. Cardinality(S) \in Nat \ {0}
  BY <1>1, FS_EmptySet
<1>6. Cardinality(S) - 1 \in Topped /\ (Cardinality(S) - 1) + 1 = Cardinality(S)
  BY <1>4, <1>5
<1>7. \E m \in S : \A x \in S : m >= x
  BY <1>6 DEF Topped
<1> QED
  BY <1>7 DEF Max

\* Likewise the least.
LEMMA MinIsLeast ==
  ASSUME NEW S, S \subseteq Int, IsFiniteSet(S), S # {}
  PROVE  Min(S) \in S /\ \A x \in S : Min(S) <= x
<1> DEFINE opposite == [x \in S |-> 0 - x]
           T == {0 - x : x \in S}
<1>1. opposite \in Surjection(S, T)
  BY DEF Surjection
<1>2. T \subseteq Int /\ T # {}
  <2>1. \A x \in S : x \in Int /\ 0 - x \in Int
    OBVIOUS
  <2>2. T \subseteq Int
    BY <2>1
  <2>3. PICK x \in S : TRUE
    OBVIOUS
  <2>4. 0 - x \in T
    BY <2>3
  <2> HIDE DEF T
  <2> QED
    BY <2>2, <2>4
<1>3. IsFiniteSet(T)
  BY <1>1, FS_Surjection
<1>4. Max(T) \in T /\ \A y \in T : y <= Max(T)
  BY <1>2, <1>3, MaxIsLargest
<1>5. PICK m \in S : Max(T) = 0 - m
  BY <1>4
<1>6. ASSUME NEW x \in S PROVE m <= x
  <2>1. 0 - x <= 0 - m
    BY <1>4, <1>5
  <2> QED
    BY <2>1
<1> QED
  BY <1>6 DEF Min

-----------------------------------------------------------------------------
(* Quotients *)

\* A quotient lies less than one below what is divided.
LEMMA QuotientBounds ==
    ASSUME NEW a \in Int, NEW d \in Int, d > 0
    PROVE  a \div d \in Int /\ d * (a \div d) <= a /\ a < d * (a \div d) + d
<1>1. a \div d \in Int /\ a >= d * (a \div d)
  OBVIOUS
<1>2. a < d * (a \div d) + d
  OBVIOUS
<1> QED
  BY <1>1, <1>2

\* A larger number has no smaller a quotient.
LEMMA QuotientRises ==
    ASSUME NEW a \in Nat, NEW b \in Nat, a <= b, NEW d \in Nat, d > 0
    PROVE  a \div d <= b \div d
<1> DEFINE x == a \div d
           y == b \div d
<1>1. /\ x \in Int /\ d * x <= a
      /\ y \in Int /\ b < d * y + d
  <2>1. a \in Int /\ b \in Int /\ d \in Int
    OBVIOUS
  <2> QED
    BY <2>1, QuotientBounds
<1> HIDE DEF x, y
<1>5. ASSUME x >= y + 1 PROVE FALSE
  <2>1. d * x >= d * (y + 1)
    BY <1>1, <1>5
  <2>2. d * (y + 1) = d * y + d
    BY <1>1
  <2> DEFINE u == d * x
             v == d * y
  <2>3. u \in Int /\ v \in Int
    BY <1>1
  <2>4. u >= v + d /\ u <= a /\ b < v + d
    BY <1>1, <2>1, <2>2
  <2> HIDE DEF u, v
  <2> QED
    BY <2>3, <2>4
<1>6. x <= y
  BY <1>1, <1>5
<1> QED
  BY <1>6 DEF x, y

-----------------------------------------------------------------------------
(* Ranks *)

IsStrictOrder(R, S) ==
    /\ \A x \in S : <<x, x>> \notin R
    /\ \A x, y, z \in S : <<x, y>> \in R /\ <<y, z>> \in R => <<x, z>> \in R
    /\ \A x, y \in S : x = y \/ <<x, y>> \in R \/ <<y, x>> \in R

RankIn(R, S, r) == Cardinality({x \in S : <<x, r>> \in R})

\* The elements of a finite set in a strict order have the ranks below its
\* size, each of them once.
LEMMA RanksAreTaken ==
    ASSUME NEW S, IsFiniteSet(S), NEW R, IsStrictOrder(R, S)
    PROVE  /\ \A i \in 1 .. Cardinality(S) : \E r \in S : RankIn(R, S, r) = i - 1
           /\ \A r, t \in S : <<r, t>> \in R => RankIn(R, S, r) < RankIn(R, S, t)
<1>0. /\ \A x \in S : <<x, x>> \notin R
      /\ \A x, y, z \in S : <<x, y>> \in R /\ <<y, z>> \in R => <<x, z>> \in R
      /\ \A x, y \in S : x = y \/ <<x, y>> \in R \/ <<y, x>> \in R
  BY DEF IsStrictOrder
<1> DEFINE n == Cardinality(S)
           Below(r) == {x \in S : <<x, r>> \in R}
           rank == [r \in S |-> Cardinality(Below(r))]
<1>1. n \in Nat
  BY FS_CardinalityType
<1>2. ASSUME NEW r \in S PROVE Below(r) \in SUBSET S /\ IsFiniteSet(Below(r)) /\ rank[r] = Cardinality(Below(r)) /\ rank[r] \in Nat
  <2>1. Below(r) \in SUBSET S /\ rank[r] = Cardinality(Below(r))
    OBVIOUS
  <2>2. IsFiniteSet(Below(r))
    BY <2>1, FS_Subset
  <2> QED
    BY <2>1, <2>2, FS_CardinalityType
<1>3. ASSUME NEW r \in S PROVE rank[r] \in 0 .. n - 1
  <2>1. Below(r) # S
    BY <1>0
  <2>2. Cardinality(Below(r)) <= n /\ (n = Cardinality(Below(r)) => S = Below(r))
    BY <1>2, FS_Subset
  <2> HIDE DEF Below, n, rank
  <2> QED
    BY <1>1, <1>2, <2>1, <2>2
<1>4. ASSUME NEW r \in S, NEW t \in S, <<r, t>> \in R PROVE rank[r] < rank[t]
  <2>1. Below(r) \in SUBSET Below(t) /\ Below(r) # Below(t)
    <3>1. \A x \in S : <<x, r>> \in R => <<x, t>> \in R
      BY <1>0, <1>4
    <3>2. r \in Below(t) /\ r \notin Below(r)
      BY <1>0, <1>4
    <3> QED
      BY <3>1, <3>2
  <2>2. Cardinality(Below(r)) <= Cardinality(Below(t)) /\ (Cardinality(Below(t)) = Cardinality(Below(r)) => Below(t) = Below(r))
    BY <1>2, <2>1, FS_Subset
  <2> HIDE DEF Below, n, rank
  <2> QED
    BY <1>2, <2>1, <2>2
<1>5. IsFiniteSet(0 .. n - 1) /\ Cardinality(0 .. n - 1) = n
  <2>1. 0 \in Int /\ n - 1 \in Int
    BY <1>1
  <2> HIDE DEF n
  <2> QED
    BY <1>1, <2>1, FS_Interval
<1>6. rank \in Injection(S, 0 .. n - 1)
  <2>1. rank \in [S -> 0 .. n - 1]
    <3>1. DOMAIN rank = S /\ rank = [r \in S |-> rank[r]]
      OBVIOUS
    <3> HIDE DEF rank, n
    <3> QED
      BY <1>3, <3>1
  <2>2. \A r, t \in S : rank[r] = rank[t] => r = t
    <3> SUFFICES ASSUME NEW r \in S, NEW t \in S, rank[r] = rank[t], r # t PROVE FALSE
      OBVIOUS
    <3> HIDE DEF rank
    <3>1. rank[r] \in Nat /\ rank[t] \in Nat
      BY <1>2
    <3>2. CASE <<r, t>> \in R
      BY <1>4, <3>1, <3>2
    <3>3. CASE <<t, r>> \in R
      BY <1>4, <3>1, <3>3
    <3> QED
      BY <1>0, <3>2, <3>3
  <2> DEFINE T == 0 .. n - 1
  <2> HIDE DEF rank, T
  <2>3. rank \in [S -> T]
    BY <2>1 DEF T
  <2>4. rank \in Injection(S, T)
    BY <2>2, <2>3 DEF Injection, IsInjective
  <2> QED
    BY <2>4 DEF T
<1>7. rank \in Surjection(S, 0 .. n - 1)
  <2> DEFINE T == 0 .. n - 1
  <2> HIDE DEF rank, T
  <2>1. rank \in Injection(S, T) /\ IsFiniteSet(T) /\ Cardinality(S) = Cardinality(T)
    BY <1>5, <1>6 DEF T
  <2>2. rank \in Surjection(S, T)
    BY <2>1, FS_Injection
  <2> QED
    BY <2>2 DEF T
<1>8. ASSUME NEW i \in 1 .. n PROVE \E r \in S : Cardinality(Below(r)) = i - 1
  <2>1. i - 1 \in 0 .. n - 1
    BY <1>1
  <2>2. \E r \in S : rank[r] = i - 1
    <3> HIDE DEF rank, n
    <3> QED
      BY <1>7, <2>1 DEF Surjection
  <2> HIDE DEF rank, Below
  <2> QED
    BY <1>2, <2>2
<1>9. \A r, t \in S : <<r, t>> \in R => Cardinality(Below(r)) < Cardinality(Below(t))
  <2> HIDE DEF rank, Below
  <2> QED
    BY <1>2, <1>4
<1> QED
  BY <1>8, <1>9 DEF RankIn

\* s lists the elements of S, each before those that R puts behind it.
Lists(s, n, R, S) ==
    /\ s \in [1 .. n -> S]
    /\ \A r \in S : \E i \in 1 .. n : s[i] = r
    /\ \A i, j \in 1 .. n : i < j => <<s[i], s[j]>> \in R

\* Listed by their ranks they are.
LEMMA RankedLists ==
    ASSUME NEW S, IsFiniteSet(S), NEW R, IsStrictOrder(R, S),
           NEW n, n = Cardinality(S), NEW s \in [1 .. n -> S],
           \A i \in 1 .. n : RankIn(R, S, s[i]) = i - 1
    PROVE  n \in Nat /\ Lists(s, n, R, S)
<1>1. n \in Nat
  BY FS_CardinalityType
<1>2. \A x \in S : <<x, x>> \notin R
  BY DEF IsStrictOrder
<1>3. \A r, t \in S : <<r, t>> \in R => RankIn(R, S, r) < RankIn(R, S, t)
  BY RanksAreTaken
<1>4. ASSUME NEW i \in 1 .. n, NEW j \in 1 .. n, i < j PROVE <<s[i], s[j]>> \in R
  <2>1. s[i] \in S /\ s[j] \in S /\ RankIn(R, S, s[i]) = i - 1 /\ RankIn(R, S, s[j]) = j - 1 /\ i \in Int /\ j \in Int
    OBVIOUS
  <2>2. s[i] # s[j]
    BY <1>4, <2>1
  <2>3. <<s[j], s[i]>> \notin R
    BY <1>3, <1>4, <2>1
  <2> QED
    BY <2>1, <2>2, <2>3 DEF IsStrictOrder
<1>5. s \in Surjection(1 .. n, S)
  <2>1. \A i, j \in 1 .. n : s[i] = s[j] => i = j
    <3> SUFFICES ASSUME NEW i \in 1 .. n, NEW j \in 1 .. n, s[i] = s[j], i # j PROVE FALSE
      OBVIOUS
    <3>1. i < j \/ j < i
      BY <1>1
    <3> QED
      BY <1>2, <1>4, <3>1
  <2>2. s \in Injection(1 .. n, S)
    BY <2>1 DEF Injection, IsInjective
  <2>3. Cardinality(1 .. n) = n
    BY <1>1, FS_Interval
  <2> DEFINE T == 1 .. n
  <2> HIDE DEF T
  <2>4. s \in Injection(T, S) /\ Cardinality(T) = Cardinality(S)
    BY <2>2, <2>3 DEF T
  <2>5. s \in Surjection(T, S)
    BY <2>4, FS_Injection
  <2> QED
    BY <2>5 DEF T
<1>6. \A r \in S : \E i \in 1 .. n : s[i] = r
  BY <1>5 DEF Surjection
<1> QED
  BY <1>1, <1>4, <1>6 DEF Lists

\* In a list, an element has as many before it as its place tells.
LEMMA ListedAreRanked ==
    ASSUME NEW S, NEW R, IsStrictOrder(R, S), NEW n \in Nat, NEW s, Lists(s, n, R, S), NEW i \in 1 .. n
    PROVE  RankIn(R, S, s[i]) = i - 1
<1> DEFINE Before == {x \in S : <<x, s[i]>> \in R}
           J == 1 .. i - 1
           f == [j \in J |-> s[j]]
<1>1. s \in [1 .. n -> S] /\ J \subseteq 1 .. n /\ i \in Nat /\ i - 1 \in Nat
  BY DEF Lists
<1>2. \A x \in S : <<x, x>> \notin R
  BY DEF IsStrictOrder
<1>3. \A x, y \in S : <<x, y>> \in R => <<y, x>> \notin R
  BY <1>2 DEF IsStrictOrder
<1>4. \A j \in 1 .. n : s[j] \in S /\ (<<s[j], s[i]>> \in R <=> j < i)
  <2> TAKE j \in 1 .. n
  <2>1. s[j] \in S /\ s[i] \in S /\ (j < i \/ j = i \/ i < j)
    BY <1>1
  <2>2. j < i => <<s[j], s[i]>> \in R
    BY DEF Lists
  <2>3. i < j => <<s[i], s[j]>> \in R
    BY DEF Lists
  <2> QED
    BY <1>2, <1>3, <2>1, <2>2, <2>3
<1>5. f \in Surjection(J, Before)
  <2>1. \A j \in J : s[j] \in Before
    BY <1>1, <1>4
  <2>2. \A x \in Before : \E j \in J : s[j] = x
    <3> TAKE x \in Before
    <3>1. PICK j \in 1 .. n : s[j] = x
      BY DEF Lists
    <3>2. j < i
      BY <1>4, <3>1
    <3> QED
      BY <1>1, <3>1, <3>2
  <2> HIDE DEF Before, J
  <2> QED
    BY <2>1, <2>2 DEF Surjection
<1>6. f \in Injection(J, Before)
  <2>1. \A j, k \in J : s[j] = s[k] => j = k
    <3> SUFFICES ASSUME NEW j \in J, NEW k \in J, s[j] = s[k], j # k PROVE FALSE
      OBVIOUS
    <3>1. j \in 1 .. n /\ k \in 1 .. n /\ (j < k \/ k < j) /\ s[j] \in S
      BY <1>1
    <3>2. <<s[j], s[j]>> \in R
      BY <3>1 DEF Lists
    <3> QED
      BY <1>2, <3>1, <3>2
  <2>2. f \in [J -> Before]
    BY <1>5 DEF Surjection
  <2> HIDE DEF Before, J
  <2> QED
    BY <2>1, <2>2 DEF Injection, IsInjective
<1>7. IsFiniteSet(J) /\ Cardinality(J) = i - 1
  BY <1>1, FS_Interval
<1> HIDE DEF Before, J, f
<1>8. Cardinality(Before) = Cardinality(J)
  BY <1>5, <1>6, <1>7, FS_Surjection
<1> QED
  BY <1>7, <1>8 DEF RankIn, Before

\* So there is one list only.
LEMMA ListsAgree ==
    ASSUME NEW S, NEW R, IsStrictOrder(R, S),
           NEW m \in Nat, NEW s, Lists(s, m, R, S), NEW n \in Nat, NEW t, Lists(t, n, R, S)
    PROVE  s = t
<1>1. ASSUME NEW a \in Nat, NEW u, Lists(u, a, R, S), NEW b \in Nat, NEW v, Lists(v, b, R, S), NEW i \in 1 .. a
      PROVE  i \in 1 .. b /\ u[i] = v[i]
  <2>1. u[i] \in S
    BY <1>1 DEF Lists
  <2>2. RankIn(R, S, u[i]) = i - 1
    BY <1>1, ListedAreRanked
  <2>3. PICK k \in 1 .. b : v[k] = u[i]
    BY <1>1, <2>1 DEF Lists
  <2>4. RankIn(R, S, v[k]) = k - 1
    BY <1>1, ListedAreRanked
  <2>5. k = i
    BY <2>2, <2>3, <2>4
  <2> QED
    BY <2>3, <2>5
<1>2. m = n
  <2>1. \A i \in 1 .. m : i \in 1 .. n
    BY <1>1
  <2>2. \A i \in 1 .. n : i \in 1 .. m
    BY <1>1
  <2>3. m > 0 => m <= n
    BY <2>1
  <2>4. n > 0 => n <= m
    BY <2>2
  <2> QED
    BY <2>3, <2>4
<1>3. \A i \in 1 .. m : s[i] = t[i]
  BY <1>1
<1> QED
  BY <1>2, <1>3 DEF Lists

\* A set that is listed is finite, and has as many elements.
LEMMA ListedIsFinite ==
    ASSUME NEW S, NEW R, IsStrictOrder(R, S), NEW n \in Nat, NEW s, Lists(s, n, R, S)
    PROVE  IsFiniteSet(S) /\ Cardinality(S) = n
<1> DEFINE T == 1 .. n
<1>1. IsFiniteSet(T) /\ Cardinality(T) = n
  BY FS_Interval
<1>2. s \in Surjection(T, S)
  BY DEF Surjection, Lists
<1>3. s \in Injection(T, S)
  <2>1. \A j, k \in T : s[j] = s[k] => j = k
    <3> SUFFICES ASSUME NEW j \in T, NEW k \in T, s[j] = s[k], j # k PROVE FALSE
      OBVIOUS
    <3>1. (j < k \/ k < j) /\ s[j] \in S
      BY DEF Lists
    <3> QED
      BY <3>1 DEF Lists, IsStrictOrder
  <2> QED
    BY <2>1 DEF Injection, IsInjective, Lists
<1> HIDE DEF T
<1> QED
  BY <1>1, <1>2, <1>3, FS_Surjection

-----------------------------------------------------------------------------
(* Subsets and squares *)

\* What holds of no elements, and of some when it holds of all but one of them,
\* holds of all elements of a finite set.
LEMMA SubsetInduction ==
  ASSUME NEW S, IsFiniteSet(S), NEW F, {} \in F,
         \A T \in SUBSET S : \A x \in T : T \ {x} \in F => T \in F
  PROVE  S \in F
<1> DEFINE Done == {n \in Nat : \A T \in SUBSET S : Cardinality(T) = n => T \in F}
<1>1. \A T \in SUBSET S : IsFiniteSet(T) /\ Cardinality(T) \in Nat
  BY FS_Subset, FS_CardinalityType
<1>2. 0 \in Done
  BY <1>1, FS_EmptySet
<1>3. ASSUME NEW n \in Nat, n \in Done PROVE n + 1 \in Done
  <2> SUFFICES ASSUME NEW T \in SUBSET S, Cardinality(T) = n + 1 PROVE T \in F
    OBVIOUS
  <2>1. PICK x \in T : TRUE
    BY <1>1, FS_EmptySet
  <2>2. Cardinality(T \ {x}) = n /\ T \ {x} \in SUBSET S
    BY <1>1, <2>1, WithoutElement
  <2>3. T \ {x} \in F
    BY <1>3, <2>2
  <2> QED
    BY <2>1, <2>3
<1> HIDE DEF Done
<1>4. Nat \subseteq Done
  BY <1>2, <1>3, Induction
<1> QED
  BY <1>1, <1>4 DEF Done

\* No number is so far from all elements that squares of distances are negative.
LEMMA SquaresAreNotNegative ==
  ASSUME NEW a \in Int PROVE a * a >= 0
<1>1. CASE a >= 0
  BY <1>1
<1>2. CASE a < 0
  <2> DEFINE b == -a
  <2>1. b \in Int /\ b >= 0 /\ a * a = b * b
    BY <1>2
  <2> HIDE DEF b
  <2> QED
    BY <2>1
<1> QED
  BY <1>1, <1>2

AreSquares(v, w, S) == \A x \in S : v[x] = w[x] * w[x]

LEMMA DistancesAdd ==
  ASSUME NEW S, IsFiniteSet(S), NEW w, NEW v, \A x \in S : w[x] \in Int /\ v[x] \in Int, AreSquares(v, w, S), NEW c \in Int
  PROVE  SumOver(v, S) - 2 * (c * SumOver(w, S)) + Cardinality(S) * (c * c) >= 0
<1> DEFINE Far(T) == SumOver(v, T) - 2 * (c * SumOver(w, T)) + Cardinality(T) * (c * c) >= 0
           F == {T \in SUBSET S : Far(T)}
<1>1. \A T \in SUBSET S : IsFiniteSet(T) /\ Cardinality(T) \in Nat
  BY FS_Subset, FS_CardinalityType
<1>2. {} \in F
  <2>1. SumOver(v, {}) = 0 /\ SumOver(w, {}) = 0 /\ Cardinality({}) = 0
    BY SumOfNone, FS_EmptySet
  <2>2. 0 - 2 * (c * 0) + 0 * (c * c) >= 0
    OBVIOUS
  <2> QED
    BY <2>1, <2>2
<1>3. ASSUME NEW T \in SUBSET S, NEW x \in T, T \ {x} \in F PROVE T \in F
  <2> DEFINE U == T \ {x}
             q == SumOver(v, U)
             s == SumOver(w, U)
             n == Cardinality(U)
             a == w[x]
  <2>1. /\ IsFiniteSet(T) /\ IsFiniteSet(U) /\ n \in Nat /\ Cardinality(T) = n + 1
        /\ U \in SUBSET S
    BY <1>1, WithoutElement
  <2>2. a \in Int /\ v[x] = a * a /\ a * a \in Int
    BY DEF AreSquares
  <2>3. \A y \in T : w[y] \in Int /\ v[y] \in Int
    OBVIOUS
  <2>4. SumOver(w, T) = a + s
    BY <2>1, <2>3, SumWithout
  <2>5. SumOver(v, T) = v[x] + q
    BY <2>1, <2>3, SumWithout
  <2>6. s \in Int
    BY <2>1, <2>3, SumType
  <2>7. q \in Int
    BY <2>1, <2>3, SumType
  <2>8. q - 2 * (c * s) + n * (c * c) >= 0
    BY <1>3
  <2> HIDE DEF U, q, s, n, a
  <2>9. (a - c) * (a - c) >= 0
    <3>1. a - c \in Int
      BY <2>2
    <3> QED
      BY <3>1, SquaresAreNotNegative
  <2>10. (a * a + q) - 2 * (c * (a + s)) + (n + 1) * (c * c)
            = (q - 2 * (c * s) + n * (c * c)) + (a - c) * (a - c)
    <3> DEFINE aa == a * a
               ac == a * c
               cc == c * c
               cs == c * s
               ncc == n * cc
    <3>1. aa \in Int /\ ac \in Int /\ cc \in Int /\ cs \in Int /\ ncc \in Int
      BY <2>1, <2>2, <2>6
    <3>2. (a - c) * (a - c) = aa - 2 * ac + cc
      BY <2>2
    <3>3. c * (a + s) = ac + cs
      BY <2>2, <2>6
    <3>4. (n + 1) * cc = ncc + cc
      <4> HIDE DEF cc
      <4> QED
        BY <2>1, <3>1
    <3> HIDE DEF aa, ac, cc, cs, ncc
    <3>5. (aa + q) - 2 * (ac + cs) + (ncc + cc) = (q - 2 * cs + ncc) + (aa - 2 * ac + cc)
      BY <2>7, <3>1
    <3> QED
      BY <3>2, <3>3, <3>4, <3>5 DEF aa, cc, cs, ncc
  <2>11. (a * a + q) - 2 * (c * (a + s)) + (n + 1) * (c * c) >= 0
    <3> DEFINE k == q - 2 * (c * s) + n * (c * c)
               l == (a - c) * (a - c)
    <3>1. k \in Int /\ l \in Int
      BY <2>1, <2>2, <2>6, <2>7
    <3> HIDE DEF k, l
    <3>2. k >= 0 /\ l >= 0
      BY <2>8, <2>9 DEF k, l
    <3>3. k + l >= 0
      BY <3>1, <3>2
    <3> QED
      BY <2>10, <3>3 DEF k, l
  <2>12. Far(T)
    BY <2>1, <2>2, <2>4, <2>5, <2>11
  <2> QED
    BY <2>12
<1> HIDE DEF F
<1>4. S \in F
  BY <1>2, <1>3, SubsetInduction
<1> QED
  BY <1>4 DEF F

\* The square of a sum is no more than the squares, as often as there are
\* elements: a variance is not negative.
LEMMA SquareOfSum ==
  ASSUME NEW S, IsFiniteSet(S), NEW w, NEW v, \A x \in S : w[x] \in Int /\ v[x] \in Int, AreSquares(v, w, S)
  PROVE  Cardinality(S) * SumOver(v, S) >= SumOver(w, S) * SumOver(w, S)
<1> DEFINE Fits(T) == Cardinality(T) * SumOver(v, T) >= SumOver(w, T) * SumOver(w, T)
           F == {T \in SUBSET S : Fits(T)}
<1>1. \A T \in SUBSET S : IsFiniteSet(T) /\ Cardinality(T) \in Nat
  BY FS_Subset, FS_CardinalityType
<1>2. {} \in F
  <2>1. SumOver(v, {}) = 0 /\ SumOver(w, {}) = 0 /\ Cardinality({}) = 0
    BY SumOfNone, FS_EmptySet
  <2>2. 0 * 0 >= 0 * 0
    OBVIOUS
  <2> QED
    BY <2>1, <2>2
<1>3. ASSUME NEW T \in SUBSET S, NEW x \in T, T \ {x} \in F PROVE T \in F
  <2> DEFINE U == T \ {x}
             q == SumOver(v, U)
             s == SumOver(w, U)
             n == Cardinality(U)
             a == w[x]
  <2>1. /\ IsFiniteSet(T) /\ IsFiniteSet(U) /\ n \in Nat /\ Cardinality(T) = n + 1
        /\ U \in SUBSET S
    BY <1>1, WithoutElement
  <2>2. a \in Int /\ v[x] = a * a /\ a * a \in Int
    BY DEF AreSquares
  <2>3. \A y \in T : w[y] \in Int /\ v[y] \in Int
    OBVIOUS
  <2>4. SumOver(w, T) = a + s
    BY <2>1, <2>3, SumWithout
  <2>5. SumOver(v, T) = v[x] + q
    BY <2>1, <2>3, SumWithout
  <2>6. s \in Int
    BY <2>1, <2>3, SumType
  <2>7. q \in Int
    BY <2>1, <2>3, SumType
  <2>8. n * q >= s * s
    BY <1>3
  <2>9. q - 2 * (a * s) + n * (a * a) >= 0
    <3>1. (\A y \in U : w[y] \in Int /\ v[y] \in Int) /\ AreSquares(v, w, U)
      BY DEF AreSquares
    <3> HIDE DEF U, a
    <3> QED
      BY <2>1, <2>2, <3>1, DistancesAdd
  <2> HIDE DEF U, q, s, n, a
  <2>10. (n + 1) * (a * a + q) - (a + s) * (a + s)
            = (n * q - s * s) + (q - 2 * (a * s) + n * (a * a))
    <3> DEFINE aa == a * a
               as == a * s
               ss == s * s
               nq == n * q
               naa == n * aa
    <3>1. aa \in Int /\ as \in Int /\ ss \in Int /\ nq \in Int /\ naa \in Int
      BY <2>1, <2>2, <2>6, <2>7
    <3>2. (a + s) * (a + s) = aa + 2 * as + ss
      BY <2>2, <2>6
    <3>3. (n + 1) * (aa + q) = naa + nq + aa + q
      <4> HIDE DEF aa
      <4> QED
        BY <2>1, <2>7, <3>1
    <3> HIDE DEF aa, as, ss, nq, naa
    <3>5. (naa + nq + aa + q) - (aa + 2 * as + ss) = (nq - ss) + (q - 2 * as + naa)
      BY <2>7, <3>1
    <3> QED
      BY <3>2, <3>3, <3>5 DEF aa, as, ss, nq, naa
  <2>11. (n + 1) * (a * a + q) >= (a + s) * (a + s)
    <3> DEFINE k == n * q - s * s
               l == q - 2 * (a * s) + n * (a * a)
               y == (n + 1) * (a * a + q)
               z == (a + s) * (a + s)
    <3>1. k \in Int /\ l \in Int /\ y \in Int /\ z \in Int
      BY <2>1, <2>2, <2>6, <2>7
    <3>2. k >= 0
      <4> DEFINE u == n * q
                 t == s * s
      <4>1. u \in Int /\ t \in Int
        BY <2>1, <2>6, <2>7
      <4> HIDE DEF u, t
      <4>2. u >= t
        BY <2>8 DEF u, t
      <4>3. u - t >= 0
        BY <4>1, <4>2
      <4> QED
        BY <4>3 DEF u, t
    <3>3. y - z = k + l
      BY <2>10
    <3>4. l >= 0
      BY <2>9
    <3> HIDE DEF k, l, y, z
    <3>5. y >= z
      BY <3>1, <3>2, <3>3, <3>4
    <3> QED
      BY <3>5 DEF y, z
  <2>12. Fits(T)
    BY <2>1, <2>2, <2>4, <2>5, <2>11
  <2> QED
    BY <2>12
<1> HIDE DEF F
<1>4. S \in F
  BY <1>2, <1>3, SubsetInduction
<1> QED
  BY <1>4 DEF F

\* Weights of one element at least, all of them positive, have a positive sum.
LEMMA SumIsPositive ==
  ASSUME NEW S, IsFiniteSet(S), NEW w, \A x \in S : w[x] \in Nat \ {0}, S # {}
  PROVE  SumOver(w, S) > 0
<1>1. PICK x \in S : TRUE
  OBVIOUS
<1> DEFINE T == S \ {x}
<1>2. IsFiniteSet(T) /\ \A y \in T : w[y] \in Nat
  BY FS_Subset
<1> HIDE DEF T
<1>3. SumOver(w, T) \in Nat
  BY <1>2, SumOfNaturals
<1>4. SumOver(w, S) = w[x] + SumOver(w, T)
  BY <1>1, SumWithout DEF T
<1> QED
  BY <1>1, <1>3, <1>4

-----------------------------------------------------------------------------
(* Sums by parts, over sets numbered by others, and of ones.              *)

\* The sum over a set numbered once each by another.
LEMMA SumOverNumbered ==
  ASSUME NEW S, IsFiniteSet(S), NEW f, \A x, y \in S : f[x] = f[y] => x = y,
         NEW w, NEW v, \A x \in S : w[f[x]] \in Int /\ v[x] = w[f[x]]
  PROVE  SumOver(v, S) = SumOver(w, {f[x] : x \in S})
<1> DEFINE Image(T) == {f[x] : x \in T}
           F == {T \in SUBSET S : SumOver(v, T) = SumOver(w, Image(T))}
<1>1. {} \in F
  BY SumOfNone
<1>2. ASSUME NEW T \in SUBSET S, NEW x \in T, T \ {x} \in F PROVE T \in F
  <2>1. IsFiniteSet(T) /\ IsFiniteSet(Image(T))
    <3>1. IsFiniteSet(T)
      BY FS_Subset
    <3> DEFINE g == [y \in T |-> f[y]]
    <3>2. g \in Surjection(T, Image(T))
      BY DEF Surjection
    <3> QED
      BY <3>1, <3>2, FS_Surjection
  <2>2. \A y \in T : v[y] \in Int
    OBVIOUS
  <2>3. SumOver(v, T) = v[x] + SumOver(v, T \ {x})
    BY <2>1, <2>2, SumWithout
  <2>4. f[x] \in Image(T) /\ \A y \in Image(T) : w[y] \in Int
    OBVIOUS
  <2>5. SumOver(w, Image(T)) = w[f[x]] + SumOver(w, Image(T) \ {f[x]})
    <3> HIDE DEF Image
    <3> QED
      BY <2>1, <2>4, SumWithout
  <2>6. Image(T) \ {f[x]} = Image(T \ {x})
    OBVIOUS
  <2>7. SumOver(v, T \ {x}) = SumOver(w, Image(T \ {x}))
    BY <1>2
  <2> QED
    BY <2>3, <2>5, <2>6, <2>7
<1> HIDE DEF F
<1>3. S \in F
  BY <1>1, <1>2, SubsetInduction
<1> QED
  BY <1>3 DEF F

\* A sum by parts: of those that have each of some keys.
LEMMA SumOfParts ==
  ASSUME NEW S, IsFiniteSet(S), NEW w, \A x \in S : w[x] \in Int,
         NEW C, IsFiniteSet(C), NEW key, \A x \in S : key[x] \in C,
         NEW part, \A c \in C : part[c] = SumOver(w, {x \in S : key[x] = c})
  PROVE  SumOver(w, S) = SumOver(part, C)
<1> DEFINE Of(c, T) == {x \in T : key[x] = c}
           Parts(T) == [c \in C |-> SumOver(w, Of(c, T))]
           F == {T \in SUBSET S : SumOver(w, T) = SumOver(Parts(T), C)}
<1>1. {} \in F
  <2> DEFINE none == Parts({})
  <2>1. \A c \in C : none[c] = 0
    <3>1. \A c : Of(c, {}) = {}
      OBVIOUS
    <3> QED
      BY <3>1, SumOfNone
  <2> DEFINE f == [c \in C |-> 0]
  <2>2. \A c \in C : f[c] \in Int /\ none[c] = f[c] - f[c]
    BY <2>1
  <2>3. SumOver(none, C) = SumOver(f, C) - SumOver(f, C)
    <3> HIDE DEF none, f
    <3> QED
      BY <2>2, SumMinus
  <2>4. SumOver(f, C) \in Int
    BY SumType
  <2>5. SumOver(none, C) = 0
    <3> HIDE DEF none, f
    <3> QED
      BY <2>3, <2>4
  <2> QED
    BY <2>5, SumOfNone
<1>2. ASSUME NEW T \in SUBSET S, NEW x \in T, T \ {x} \in F PROVE T \in F
  <2> DEFINE U == T \ {x}
             k == key[x]
             before == Parts(U)
             after == Parts(T)
  <2>1. IsFiniteSet(T) /\ k \in C /\ w[x] \in Int
    BY FS_Subset
  <2>2. \A c : IsFiniteSet(Of(c, T)) /\ IsFiniteSet(Of(c, U))
    BY <2>1, FS_Subset
  <2>3. SumOver(w, T) = w[x] + SumOver(w, U)
    BY <2>1, SumWithout
  <2>4. ASSUME NEW c \in C \ {k} PROVE after[c] = before[c]
    <3>1. Of(c, T) = Of(c, U)
      OBVIOUS
    <3> QED
      BY <3>1
  <2>5. after[k] = w[x] + before[k]
    <3> DEFINE A == Of(k, T)
    <3>1. x \in A /\ A \ {x} = Of(k, U) /\ IsFiniteSet(A) /\ \A y \in A : w[y] \in Int
      BY <2>2
    <3>2. SumOver(w, A) = w[x] + SumOver(w, A \ {x})
      <4> HIDE DEF A
      <4> QED
        BY <3>1, SumWithout
    <3> QED
      BY <2>1, <3>1, <3>2
  <2>6. \A c \in C : after[c] \in Int /\ before[c] \in Int
    <3>1. ASSUME NEW c \in C PROVE SumOver(w, Of(c, T)) \in Int /\ SumOver(w, Of(c, U)) \in Int
      <4>1. (\A y \in Of(c, T) : w[y] \in Int) /\ \A y \in Of(c, U) : w[y] \in Int
        OBVIOUS
      <4> HIDE DEF Of, U
      <4> QED
        BY <2>2, <4>1, SumType
    <3> QED
      BY <3>1
  <2> HIDE DEF after, before, U, k
  <2>7. SumOver(after, C) = after[k] + SumOver(after, C \ {k})
    BY <2>1, <2>6, SumWithout
  <2>8. SumOver(before, C) = before[k] + SumOver(before, C \ {k})
    BY <2>1, <2>6, SumWithout
  <2>9. SumOver(after, C \ {k}) = SumOver(before, C \ {k})
    <3>1. IsFiniteSet(C \ {k})
      BY FS_Subset
    <3> QED
      BY <2>4, <3>1, SumSame
  <2>10. SumOver(before, C \ {k}) \in Int
    <3>1. IsFiniteSet(C \ {k})
      BY FS_Subset
    <3> QED
      BY <2>6, <3>1, SumType
  <2>11. SumOver(w, U) = SumOver(before, C)
    BY <1>2 DEF U, before
  <2>12. SumOver(w, T) = SumOver(after, C)
    BY <2>1, <2>3, <2>5, <2>6, <2>7, <2>8, <2>9, <2>10, <2>11
  <2> QED
    BY <2>12 DEF after
<1> HIDE DEF F
<1>3. S \in F
  BY <1>1, <1>2, SubsetInduction
<1> DEFINE all == Parts(S)
<1>4. SumOver(w, S) = SumOver(all, C)
  BY <1>3 DEF F
<1>5. \A c \in C : all[c] = part[c]
  OBVIOUS
<1> HIDE DEF all
<1>6. SumOver(all, C) = SumOver(part, C)
  BY <1>5, SumSame
<1> QED
  BY <1>4, <1>6

\* A count is a sum of ones.
LEMMA CountIsSum ==
  ASSUME NEW S, IsFiniteSet(S), NEW T \in SUBSET S,
         NEW w, \A x \in S : w[x] = IF x \in T THEN 1 ELSE 0
  PROVE  SumOver(w, S) = Cardinality(T)
<1> DEFINE F == {U \in SUBSET S : SumOver(w, U) = Cardinality(U \cap T)}
<1>1. {} \in F
  <2>1. {} \cap T = {}
    OBVIOUS
  <2> QED
    BY <2>1, SumOfNone, FS_EmptySet
<1>2. ASSUME NEW U \in SUBSET S, NEW x \in U, U \ {x} \in F PROVE U \in F
  <2> DEFINE V == U \ {x}
             A == U \cap T
             B == V \cap T
  <2>1. IsFiniteSet(U) /\ IsFiniteSet(A) /\ IsFiniteSet(B)
    BY FS_Subset
  <2>2. SumOver(w, U) = w[x] + SumOver(w, V)
    BY <2>1, SumWithout
  <2>3. SumOver(w, V) = Cardinality(B)
    BY <1>2
  <2>4. x \in T => x \in A /\ B = A \ {x} /\ w[x] = 1
    OBVIOUS
  <2>5. x \notin T => B = A /\ w[x] = 0
    OBVIOUS
  <2> HIDE DEF V, A, B
  <2>6. Cardinality(A) \in Nat /\ Cardinality(B) \in Nat
    BY <2>1, FS_CardinalityType
  <2>7. Cardinality(A) = w[x] + Cardinality(B)
    BY <2>1, <2>4, <2>5, <2>6, WithoutElement
  <2>8. SumOver(w, U) = Cardinality(A)
    BY <2>2, <2>3, <2>7
  <2> QED
    BY <2>8 DEF A
<1> HIDE DEF F
<1>3. S \in F
  BY <1>1, <1>2, SubsetInduction
<1>4. S \cap T = T
  OBVIOUS
<1> QED
  BY <1>3, <1>4 DEF F

\* The sum over a part.
LEMMA SumOfSome ==
  ASSUME NEW S, IsFiniteSet(S), NEW T \in SUBSET S, NEW w, \A x \in S : w[x] \in Int,
         NEW v, \A x \in S : v[x] = IF x \in T THEN w[x] ELSE 0
  PROVE  SumOver(v, S) = SumOver(w, T)
<1> DEFINE F == {U \in SUBSET S : SumOver(v, U) = SumOver(w, U \cap T)}
<1>1. {} \in F
  <2>1. {} \cap T = {}
    OBVIOUS
  <2> QED
    BY <2>1, SumOfNone
<1>2. ASSUME NEW U \in SUBSET S, NEW x \in U, U \ {x} \in F PROVE U \in F
  <2> DEFINE V == U \ {x}
             A == U \cap T
             B == V \cap T
  <2>1. IsFiniteSet(U) /\ IsFiniteSet(A) /\ IsFiniteSet(B)
    BY FS_Subset
  <2>2. v[x] \in Int /\ \A y \in U : v[y] \in Int
    OBVIOUS
  <2>3. SumOver(v, U) = v[x] + SumOver(v, V)
    BY <2>1, <2>2, SumWithout
  <2>4. SumOver(v, V) = SumOver(w, B)
    BY <1>2
  <2>5. x \in T => x \in A /\ B = A \ {x} /\ v[x] = w[x]
    OBVIOUS
  <2>6. x \notin T => B = A /\ v[x] = 0
    OBVIOUS
  <2>7. (\A y \in A : w[y] \in Int) /\ \A y \in B : w[y] \in Int
    OBVIOUS
  <2> HIDE DEF V, A, B
  <2>8. SumOver(w, A) \in Int /\ SumOver(w, B) \in Int
    BY <2>1, <2>7, SumType
  <2>9. x \in T => SumOver(w, A) = w[x] + SumOver(w, B)
    BY <2>1, <2>5, <2>7, SumWithout
  <2>10. SumOver(w, A) = v[x] + SumOver(w, B)
    BY <2>5, <2>6, <2>8, <2>9
  <2>11. SumOver(v, U) = SumOver(w, A)
    BY <2>3, <2>4, <2>10
  <2> QED
    BY <2>11 DEF A
<1> HIDE DEF F
<1>3. S \in F
  BY <1>1, <1>2, SubsetInduction
<1>4. S \cap T = T
  OBVIOUS
<1> QED
  BY <1>3, <1>4 DEF F

\* Amounts over a part come to no more than over the whole.
LEMMA SomeSumToLess ==
  ASSUME NEW S, IsFiniteSet(S), NEW T \in SUBSET S, NEW w, \A x \in S : w[x] \in Nat
  PROVE  SumOver(w, T) <= SumOver(w, S)
<1> DEFINE v == [x \in S |-> IF x \in T THEN w[x] ELSE 0]
<1>1. \A x \in S : v[x] \in Int /\ w[x] \in Int /\ v[x] <= w[x] /\ v[x] = IF x \in T THEN w[x] ELSE 0
  OBVIOUS
<1> HIDE DEF v
<1>2. SumOver(v, S) = SumOver(w, T)
  BY <1>1, SumOfSome
<1>3. SumOver(v, S) <= SumOver(w, S)
  BY <1>1, SumRises
<1> QED
  BY <1>2, <1>3

-----------------------------------------------------------------------------
(* Sums both ways *)

LEMMA SumOfZeros ==
  ASSUME NEW S, IsFiniteSet(S), NEW z, \A x \in S : z[x] = 0
  PROVE  SumOver(z, S) = 0
<1>1. SumOver(z, S) = SumOver(z, S) - SumOver(z, S)
  <2>1. \A x \in S : z[x] \in Int /\ z[x] = z[x] - z[x]
    OBVIOUS
  <2> QED
    BY <2>1, SumMinus
<1>2. SumOver(z, S) \in Int
  BY SumType
<1> QED
  BY <1>1, <1>2

\* u sums the rows of the table w, and v its columns, which z lists.
SumBothWays(A, B, w, z, u, v) ==
    /\ IsFiniteSet(A) /\ IsFiniteSet(B)
    /\ \A a \in A : \A b \in B : w[a][b] \in Int /\ z[b][a] = w[a][b]
    /\ \A a \in A : u[a] = SumOver(w[a], B)
    /\ \A b \in B : v[b] = SumOver(z[b], A)

\* A sum of sums may be taken in either order.
LEMMA SumsSwap ==
  ASSUME NEW A, NEW B, NEW w, NEW z, NEW u, NEW v, SumBothWays(A, B, w, z, u, v)
  PROVE  SumOver(u, A) = SumOver(v, B)
<1>0. /\ IsFiniteSet(A) /\ IsFiniteSet(B)
      /\ \A a \in A : \A b \in B : w[a][b] \in Int /\ z[b][a] = w[a][b]
      /\ \A a \in A : u[a] = SumOver(w[a], B)
      /\ \A b \in B : v[b] = SumOver(z[b], A)
  BY DEF SumBothWays
<1> USE <1>0
<1> DEFINE Row(b) == z[b]
           Column(T) == [b \in B |-> SumOver(Row(b), T)]
           F == {T \in SUBSET A : SumOver(u, T) = SumOver(Column(T), B)}
<1>1. \A b \in B : \A a \in A : Row(b)[a] = w[a][b] /\ Row(b)[a] \in Int
  OBVIOUS
<1>2. \A a \in A : u[a] \in Int
  BY SumType
<1>3. \A b \in B : v[b] = SumOver(Row(b), A)
  OBVIOUS
<1> HIDE DEF Row
<1>4. \A T : \A b \in B : Column(T)[b] = SumOver(Row(b), T)
  OBVIOUS
<1> HIDE DEF Column
<1>5. {} \in F
  <2>1. \A b \in B : Column({})[b] = 0
    BY <1>4, SumOfNone
  <2> QED
    BY <2>1, SumOfNone, SumOfZeros
<1>6. ASSUME NEW T \in SUBSET A, NEW x \in T, T \ {x} \in F PROVE T \in F
  <2> DEFINE U == T \ {x}
  <2>1. IsFiniteSet(T) /\ U \in SUBSET A /\ IsFiniteSet(U)
    BY FS_Subset
  <2>2. SumOver(u, T) = u[x] + SumOver(u, U)
    BY <1>2, <2>1, SumWithout
  <2> HIDE DEF U
  <2>3. ASSUME NEW b \in B
        PROVE  /\ Column(T)[b] \in Int /\ w[x][b] \in Int
               /\ Column(U)[b] = Column(T)[b] - w[x][b]
    <3>1. \A a \in T : Row(b)[a] \in Int
      BY <1>1
    <3>2. \A a \in U : Row(b)[a] \in Int
      BY <1>1, <2>1
    <3>3. SumOver(Row(b), T) = Row(b)[x] + SumOver(Row(b), U)
      BY <2>1, <3>1, SumWithout DEF U
    <3>4. SumOver(Row(b), T) \in Int /\ SumOver(Row(b), U) \in Int
      BY <2>1, <3>1, <3>2, SumType
    <3> QED
      BY <1>1, <1>4, <3>3, <3>4
  <2>4. SumOver(Column(U), B) = SumOver(Column(T), B) - SumOver(w[x], B)
    BY <2>3, SumMinus
  <2>5. SumOver(u, U) = SumOver(Column(U), B)
    BY <1>6 DEF U
  <2>6. SumOver(Column(T), B) \in Int /\ SumOver(w[x], B) \in Int
    BY <2>3, SumType
  <2> QED
    BY <2>2, <2>4, <2>5, <2>6
<1>7. A \in F
  <2> HIDE DEF F
  <2> QED
    BY <1>5, <1>6, SubsetInduction
<1>8. \A b \in B : Column(A)[b] = v[b]
  BY <1>3, <1>4
<1> QED
  BY <1>7, <1>8, SumSame
=============================================================================
