------------------------------ MODULE Induction ------------------------------
(***************************************************************************)
(* Induction over the naturals, recursive functions and sums over finite   *)
(* sets.  A set of numbers stands for the predicate and a function for the *)
(* step, so that nothing here has an operator for a parameter.             *)
(***************************************************************************)
EXTENDS FiniteSetTheorems, WellFoundedInduction, TLAPS

\* A set of naturals that is not empty has a least element.
LEMMA Least ==
  ASSUME NEW T \in SUBSET Nat, T # {}
  PROVE  \E x \in T : \A y \in T : x <= y
<1> DEFINE R == {p \in Nat \X Nat : p[1] < p[2]}
<1>1. IsWellFoundedOn(R, Nat)
  BY NatLessThanWellFounded DEF OpToRel
<1> HIDE DEF R
<1>2. PICK x \in T : \A y \in T : ~(<<y, x>> \in R)
  BY <1>1, WFMin
<1> USE DEF R
<1>3. \A y \in T : ~(y < x)
  BY <1>2
<1> QED
  BY <1>3

\* Induction: a set that holds zero and the successor of each natural it
\* holds, holds all of them.
LEMMA Induction ==
  ASSUME NEW T, 0 \in T, \A n \in Nat : n \in T => n + 1 \in T
  PROVE  Nat \subseteq T
<1> SUFFICES ASSUME Nat \ T # {} PROVE FALSE
  OBVIOUS
<1>1. PICK x \in Nat \ T : \A y \in Nat \ T : x <= y
  BY Least
<1>2. x - 1 \in Nat /\ x - 1 \in T
  BY <1>1
<1> QED
  BY <1>1, <1>2

\* A function on the naturals may be given by its value at zero and its step.
Approximates(g, n, S, c, step) ==
  /\ g \in [0 .. n -> S]
  /\ g[0] = c
  /\ \A k \in 0 .. n - 1 : g[k + 1] = step[<<k, g[k]>>]

\* There is one for every beginning of the naturals,
LEMMA ApproximationExists ==
  ASSUME NEW S, NEW c \in S, NEW step \in [Nat \X S -> S], NEW n \in Nat
  PROVE  \E g : Approximates(g, n, S, c, step)
<1> DEFINE T == {m \in Nat : \E g : Approximates(g, m, S, c, step)}
<1>1. 0 \in T
  <2>1. Approximates([k \in 0 .. 0 |-> c], 0, S, c, step)
    BY DEF Approximates
  <2> QED
    BY <2>1
<1>2. \A m \in Nat : m \in T => m + 1 \in T
  <2> SUFFICES ASSUME NEW m \in Nat, m \in T PROVE m + 1 \in T
    OBVIOUS
  <2>1. PICK g : Approximates(g, m, S, c, step)
    OBVIOUS
  <2> DEFINE h == [k \in 0 .. m + 1 |-> IF k = m + 1 THEN step[<<m, g[m]>>] ELSE g[k]]
  <2>2. g[m] \in S /\ step[<<m, g[m]>>] \in S
    BY <2>1 DEF Approximates
  <2>3. h \in [0 .. m + 1 -> S] /\ h[0] = c
    BY <2>1, <2>2 DEF Approximates
  <2>4. ASSUME NEW k \in 0 .. (m + 1) - 1
        PROVE  h[k + 1] = step[<<k, h[k]>>]
    <3>1. CASE k = m
      <4>1. h[m + 1] = step[<<m, g[m]>>] /\ h[m] = g[m]
        OBVIOUS
      <4> QED
        BY <3>1, <4>1
    <3>2. CASE k # m
      <4>1. k \in 0 .. m - 1 /\ h[k] = g[k] /\ h[k + 1] = g[k + 1]
        BY <3>2
      <4> QED
        BY <2>1, <4>1 DEF Approximates
    <3> QED
      BY <3>1, <3>2
  <2> HIDE DEF h
  <2>5. Approximates(h, m + 1, S, c, step)
    BY <2>3, <2>4 DEF Approximates
  <2> QED
    BY <2>5
<1> HIDE DEF T
<1>3. n \in T
  BY <1>1, <1>2, Induction
<1> QED
  BY <1>3 DEF T

\* and two of them agree where both are defined.
LEMMA ApproximationsAgree ==
  ASSUME NEW S, NEW c, NEW step, NEW m \in Nat, NEW n \in Nat, NEW g, NEW h,
         Approximates(g, m, S, c, step), Approximates(h, n, S, c, step),
         NEW i \in Nat, i <= m, i <= n
  PROVE  g[i] = h[i]
<1> DEFINE T == {k \in Nat : k <= m /\ k <= n => g[k] = h[k]}
<1>1. 0 \in T
  BY DEF Approximates
<1>2. \A k \in Nat : k \in T => k + 1 \in T
  <2> SUFFICES ASSUME NEW k \in Nat, k \in T, k + 1 <= m, k + 1 <= n
               PROVE  g[k + 1] = h[k + 1]
    OBVIOUS
  <2>1. g[k] = h[k] /\ k \in 0 .. m - 1 /\ k \in 0 .. n - 1
    OBVIOUS
  <2> QED
    BY <2>1 DEF Approximates
<1> HIDE DEF T
<1>3. i \in T
  BY <1>1, <1>2, Induction
<1> QED
  BY <1>3 DEF T

IsStep(step, S) == step \in [Nat \X S -> S]
IsRecursive(g, S, c, step) ==
  /\ g \in [Nat -> S]
  /\ g[0] = c
  /\ \A n \in Nat : g[n + 1] = step[<<n, g[n]>>]

\* Recursion: there is a function with that value at zero and that step.
LEMMA Recursion ==
  ASSUME NEW S, NEW c \in S, NEW step, IsStep(step, S)
  PROVE  \E g : IsRecursive(g, S, c, step)
<1> step \in [Nat \X S -> S]
  BY DEF IsStep
<1> DEFINE a == [n \in Nat |-> CHOOSE h : Approximates(h, n, S, c, step)]
<1>1. ASSUME NEW n \in Nat
      PROVE  Approximates(a[n], n, S, c, step)
  <2>1. \E h : Approximates(h, n, S, c, step)
    BY ApproximationExists
  <2>2. Approximates(CHOOSE h : Approximates(h, n, S, c, step), n, S, c, step)
    BY <2>1
  <2> QED
    BY <2>2
<1> HIDE DEF a
<1> DEFINE g == [n \in Nat |-> a[n][n]]
<1>2. g \in [Nat -> S] /\ g[0] = c
  BY <1>1 DEF Approximates
<1>3. ASSUME NEW n \in Nat
      PROVE  g[n + 1] = step[<<n, g[n]>>]
  <2>1. n + 1 \in Nat /\ n <= n + 1 /\ n <= n /\ n \in 0 .. (n + 1) - 1
    OBVIOUS
  <2>2. Approximates(a[n], n, S, c, step) /\ Approximates(a[n + 1], n + 1, S, c, step)
    BY <1>1, <2>1
  <2>3. a[n + 1][n] = a[n][n]
    <3>1. PICK m \in Nat : m = n + 1
      BY <2>1
    <3>2. PICK h, k : h = a[m] /\ k = a[n]
      OBVIOUS
    <3>3. Approximates(h, m, S, c, step) /\ Approximates(k, n, S, c, step) /\ n <= m
      BY <2>1, <2>2, <3>1, <3>2
    <3>4. h[n] = k[n]
      BY ONLY <2>1, <3>3, n \in Nat, m \in Nat, ApproximationsAgree
    <3> QED
      BY <3>1, <3>2, <3>4
  <2>4. a[n + 1][n + 1] = step[<<n, a[n + 1][n]>>]
    BY <2>1, <2>2 DEF Approximates
  <2>5. g[n + 1] = a[n + 1][n + 1] /\ g[n] = a[n][n]
    OBVIOUS
  <2> HIDE DEF g
  <2> QED
    BY <2>3, <2>4, <2>5
<1> HIDE DEF g
<1>4. IsRecursive(g, S, c, step)
  BY <1>2, <1>3 DEF IsRecursive
<1> QED
  BY <1>4

-----------------------------------------------------------------------------
(* Sums over finite sets, as MapThenSumSet of FiniteSetsExt forms them.     *)

IsSum(sum, f, D) ==
  sum = [s \in SUBSET D |->
           IF s = {} THEN 0
           ELSE f[CHOOSE x \in s : TRUE] + sum[s \ {CHOOSE x \in s : TRUE}]]

\* Its equation has a solution: the sets of n elements are summed in n rounds.
LEMMA SumExists ==
  ASSUME NEW D, IsFiniteSet(D), NEW f, \A x \in D : f[x] \in Nat
  PROVE  \E sum : IsSum(sum, f, D)
<1> DEFINE pick == [s \in SUBSET D |-> CHOOSE x \in s : TRUE]
<1>1. \A s \in SUBSET D : s # {} => pick[s] \in s /\ pick[s] \in D
  OBVIOUS
<1> DEFINE S == [SUBSET D -> Nat]
           zero == [s \in SUBSET D |-> 0]
           round(g) == [s \in SUBSET D |->
                          IF s = {} THEN 0 ELSE f[pick[s]] + g[s \ {pick[s]}]]
           step == [p \in Nat \X S |-> round(p[2])]
<1> HIDE DEF pick
<1>2. zero \in S
  OBVIOUS
<1>3. ASSUME NEW g \in S
      PROVE  round(g) \in S
  <2>1. ASSUME NEW s \in SUBSET D, s # {}
        PROVE  f[pick[s]] + g[s \ {pick[s]}] \in Nat
    BY <1>1, <2>1
  <2> QED
    BY <2>1
<1> HIDE DEF S, round, zero
<1>4. IsStep(step, S)
  BY <1>3 DEF IsStep
<1>5. \A g \in S, n \in Nat : step[<<n, g>>] = round(g)
  OBVIOUS
<1> HIDE DEF step
<1>6. PICK rounds : IsRecursive(rounds, S, zero, step)
  BY ONLY <1>2, <1>4, Recursion
<1> DEFINE sum == [s \in SUBSET D |-> rounds[Cardinality(s)][s]]
<1>7. ASSUME NEW s \in SUBSET D
      PROVE  sum[s] = IF s = {} THEN 0 ELSE f[pick[s]] + sum[s \ {pick[s]}]
  <2>1. CASE s = {}
    <3>1. Cardinality(s) = 0
      BY <2>1, FS_EmptySet
    <3> QED
      BY <1>6, <2>1, <3>1 DEF zero, IsRecursive
  <2>2. CASE s # {}
    <3>1. IsFiniteSet(s) /\ pick[s] \in s
      BY <1>1, <2>2, FS_Subset
    <3>2. PICK n \in Nat : n = Cardinality(s \ {pick[s]}) /\ Cardinality(s) = n + 1
      <4>1. /\ IsFiniteSet(s \ {pick[s]})
            /\ Cardinality(s \ {pick[s]}) = Cardinality(s) - 1
        BY ONLY <3>1, FS_RemoveElement
      <4>2. Cardinality(s) \in Nat /\ Cardinality(s \ {pick[s]}) \in Nat
        BY <3>1, <4>1, FS_CardinalityType
      <4> QED
        BY <4>1, <4>2
    <3>3. rounds[n] \in S /\ rounds[n + 1] = round(rounds[n])
      BY <1>5, <1>6 DEF IsRecursive
    <3>4. sum[s] = rounds[n + 1][s]
      BY <3>2
    <3>5. sum[s \ {pick[s]}] = rounds[n][s \ {pick[s]}]
      BY <3>2
    <3> HIDE DEF sum
    <3>6. sum[s] = f[pick[s]] + rounds[n][s \ {pick[s]}]
      BY <2>2, <3>3, <3>4 DEF round
    <3> QED
      BY <2>2, <3>5, <3>6
  <2> QED
    BY <2>1, <2>2
<1>8. sum = [s \in SUBSET D |-> sum[s]]
  OBVIOUS
<1> HIDE DEF sum
<1>9. sum = [s \in SUBSET D |-> IF s = {} THEN 0 ELSE f[pick[s]] + sum[s \ {pick[s]}]]
  BY <1>7, <1>8
<1>10. IsSum(sum, f, D)
  BY <1>9 DEF IsSum, pick
<1> QED
  BY <1>10

\* What a solution is at a set, and that it is a natural.
LEMMA SumType ==
  ASSUME NEW D, IsFiniteSet(D), NEW f, \A x \in D : f[x] \in Nat,
         NEW sum, IsSum(sum, f, D), NEW s \in SUBSET D
  PROVE  sum[s] \in Nat
<1> DEFINE T == {n \in Nat : \A t \in SUBSET D : Cardinality(t) = n => sum[t] \in Nat}
<1>1. 0 \in T
  <2>1. ASSUME NEW t \in SUBSET D, Cardinality(t) = 0
        PROVE  sum[t] \in Nat
    <3>1. t = {}
      BY <2>1, FS_Subset, FS_EmptySet
    <3> QED
      BY <3>1 DEF IsSum
  <2> QED
    BY <2>1
<1>2. \A n \in Nat : n \in T => n + 1 \in T
  <2> SUFFICES ASSUME NEW n \in Nat, n \in T,
                      NEW t \in SUBSET D, Cardinality(t) = n + 1
               PROVE  sum[t] \in Nat
    OBVIOUS
  <2>1. IsFiniteSet(t) /\ t # {}
    BY FS_Subset, FS_EmptySet
  <2>2. PICK x \in t : x = CHOOSE y \in t : TRUE
    BY <2>1
  <2>3. Cardinality(t \ {x}) = n
    <3>1. Cardinality(t \ {x}) = Cardinality(t) - 1
      BY ONLY <2>1, <2>2, FS_RemoveElement
    <3> QED
      BY <3>1
  <2>4. sum[t] = f[x] + sum[t \ {x}]
    BY <2>1, <2>2 DEF IsSum
  <2>5. sum[t \ {x}] \in Nat
    BY <2>3
  <2>6. f[x] \in Nat
    OBVIOUS
  <2> QED
    BY <2>4, <2>5, <2>6
<1> HIDE DEF T
<1>3. IsFiniteSet(s) /\ Cardinality(s) \in Nat
  BY FS_Subset, FS_CardinalityType
<1>4. Cardinality(s) \in T
  BY <1>1, <1>2, <1>3, Induction
<1> QED
  BY <1>4 DEF T

TakesOut(sum, f, s) == \A x \in s : sum[s] = f[x] + sum[s \ {x}]

\* The order in which CHOOSE takes the elements out makes no difference.
LEMMA SumTakesOut ==
  ASSUME NEW D, IsFiniteSet(D), NEW f, \A x \in D : f[x] \in Nat,
         NEW sum, IsSum(sum, f, D), NEW s \in SUBSET D
  PROVE  TakesOut(sum, f, s)
<1> DEFINE T == {n \in Nat : \A t \in SUBSET D :
                               Cardinality(t) = n => TakesOut(sum, f, t)}
<1>1. 0 \in T
  <2>1. \A t \in SUBSET D : Cardinality(t) = 0 => t = {}
    BY FS_Subset, FS_EmptySet
  <2> QED
    BY <2>1 DEF TakesOut
<1>2. ASSUME NEW n \in Nat, n \in T,
             NEW t \in SUBSET D, Cardinality(t) = n + 1
      PROVE  TakesOut(sum, f, t)
  <2> SUFFICES ASSUME NEW y \in t PROVE sum[t] = f[y] + sum[t \ {y}]
    BY DEF TakesOut
  <2>1. IsFiniteSet(t)
    BY FS_Subset
  <2> n \in T /\ Cardinality(t) = n + 1
    BY <1>2
  <2>2. PICK c \in t : c = CHOOSE z \in t : TRUE
    OBVIOUS
  <2>3. sum[t] = f[c] + sum[t \ {c}]
    BY <2>2 DEF IsSum
  <2>4. CASE y = c
    BY <2>3, <2>4
  <2>5. CASE y # c
    <3>1. Cardinality(t \ {c}) = n /\ Cardinality(t \ {y}) = n
      <4>1. /\ Cardinality(t \ {c}) = Cardinality(t) - 1
            /\ Cardinality(t \ {y}) = Cardinality(t) - 1
        BY ONLY <2>1, c \in t, y \in t, FS_RemoveElement
      <4> QED
        BY <4>1
    <3>2. sum[t \ {c}] = f[y] + sum[(t \ {c}) \ {y}]
      BY <2>5, <3>1 DEF TakesOut
    <3>3. sum[t \ {y}] = f[c] + sum[(t \ {y}) \ {c}]
      BY <2>5, <3>1 DEF TakesOut
    <3>4. (t \ {c}) \ {y} = (t \ {y}) \ {c}
      OBVIOUS
    <3>5. PICK a \in Nat : a = sum[(t \ {c}) \ {y}]
      <4>1. (t \ {c}) \ {y} \in SUBSET D
        OBVIOUS
      <4> QED
        BY <4>1, SumType
    <3>6. f[c] \in Nat /\ f[y] \in Nat
      OBVIOUS
    <3>7. sum[t] = f[c] + (f[y] + a) /\ sum[t \ {y}] = f[c] + a
      BY ONLY <2>3, <3>2, <3>3, <3>4, <3>5
    <3> QED
      BY ONLY <3>5, <3>6, <3>7
  <2> QED
    BY <2>4, <2>5
<1>3. \A n \in Nat : n \in T => n + 1 \in T
  BY <1>2
<1> HIDE DEF T
<1>4. Cardinality(s) \in Nat
  BY FS_Subset, FS_CardinalityType
<1>5. Cardinality(s) \in T
  BY <1>1, <1>3, <1>4, Induction
<1> QED
  BY <1>5 DEF T

\* So the sum over an interval grows by what is added at its end.
LEMMA SumOfInterval ==
  ASSUME NEW n \in Nat, NEW f, \A k \in 1 .. n : f[k] \in Nat,
         NEW sum, IsSum(sum, f, 1 .. n)
  PROVE  /\ sum[{}] = 0
         /\ \A k \in 1 .. n : sum[1 .. k] = f[k] + sum[1 .. k - 1]
<1>1. IsFiniteSet(1 .. n)
  BY FS_Interval
<1>2. sum[{}] = 0
  BY DEF IsSum
<1>3. ASSUME NEW k \in 1 .. n
      PROVE  sum[1 .. k] = f[k] + sum[1 .. k - 1]
  <2>1. (1 .. k) \ {k} = 1 .. k - 1 /\ k \in 1 .. k /\ 1 .. k \in SUBSET (1 .. n)
    OBVIOUS
  <2>2. PICK s \in SUBSET (1 .. n) : s = 1 .. k
    BY <2>1
  <2>3. PICK D : D = 1 .. n
    OBVIOUS
  <2>4. IsFiniteSet(D) /\ (\A d \in D : f[d] \in Nat) /\ IsSum(sum, f, D)
    BY <1>1, <2>3
  <2>5. k \in s /\ s \in SUBSET D
    BY <2>1, <2>2, <2>3
  <2>6. TakesOut(sum, f, s)
    BY ONLY <2>4, <2>5, SumTakesOut
  <2> QED
    BY <2>1, <2>2, <2>6 DEF TakesOut
<1> QED
  BY <1>2, <1>3
=============================================================================
