---------------------------- MODULE LeastElements ----------------------------
(***************************************************************************)
(* Facts about numbers which the proofs about the other modules share:     *)
(* least and greatest elements of sets of them, and what follows for       *)
(* induction and for functions defined step by step.                       *)
(***************************************************************************)
EXTENDS Integers, FiniteSetsExt, NaturalsInduction, WellFoundedInduction, TLAPS

\* The order of the naturals as a set of pairs.
Less == {ss \in Nat \X Nat : ss[1] < ss[2]}

\* Its pairs are the pairs of naturals in order.
LEMMA LessPairs == ASSUME NEW x \in Nat, NEW y \in Nat, y < x PROVE <<y, x>> \in Less
<1>1. <<y, x>> \in Nat \X Nat
  OBVIOUS
<1>2. <<y, x>>[1] < <<y, x>>[2]
  OBVIOUS
<1>. QED BY Zenon, <1>1, <1>2 DEF Less

\* A nonempty set of naturals has a least element.
LEMMA LeastNat ==
    ASSUME NEW T \in SUBSET Nat, T # {}
    PROVE  \E x \in T : \A y \in T : x <= y
<1>1. OpToRel(<, Nat) = Less
  BY Zenon DEF OpToRel, Less
<1>2. IsWellFoundedOn(Less, Nat)
  BY Zenon, <1>1, NatLessThanWellFounded
<1>3. PICK x \in T : \A y \in T : <<y, x>> \notin Less
  BY <1>2, WFMin
<1>4. \A y \in T : ~(y < x)
  BY <1>3, LessPairs
<1>. QED BY <1>4

\* It is what Min picks.
LEMMA MinIn ==
    ASSUME NEW T \in SUBSET Nat, T # {}
    PROVE  Min(T) \in T /\ \A y \in T : Min(T) <= y
BY LeastNat DEF Min

\* A nonempty bounded set of naturals has a greatest element, which Max picks.
LEMMA MaxIn ==
    ASSUME NEW n \in Nat, NEW T \in SUBSET (0 .. n), T # {}
    PROVE  Max(T) \in T /\ \A y \in T : y <= Max(T)
<1>. DEFINE U == {n - x : x \in T}
<1>1. U \in SUBSET Nat /\ U # {}
  <2>1. \A x \in T : n - x \in Nat
    OBVIOUS
  <2>. QED BY <2>1
<1>2. PICK u \in U : \A v \in U : u <= v
  BY <1>1, LeastNat
<1>3. PICK x \in T : u = n - x
  OBVIOUS
<1>4. \A y \in T : x >= y
  <2>. SUFFICES ASSUME NEW y \in T PROVE x >= y
    OBVIOUS
  <2>1. n - y \in U
    OBVIOUS
  <2>2. n - x <= n - y
    BY <1>2, <1>3, <2>1
  <2>. QED BY <2>2
<1>. QED BY <1>4 DEF Max

\* Induction up to n, on the set of the numbers that have the property.
LEMMA CountUp ==
    ASSUME NEW n \in Nat, NEW P, 0 \in P, \A i \in 1 .. n : i - 1 \in P => i \in P
    PROVE  \A i \in 0 .. n : i \in P
<1>. SUFFICES ASSUME \E i \in 0 .. n : i \notin P PROVE FALSE
  OBVIOUS
<1>1. PICK i \in {j \in 0 .. n : j \notin P} : \A j \in {k \in 0 .. n : k \notin P} : i <= j
  <2>. DEFINE T == {j \in 0 .. n : j \notin P}
  <2>1. T \in SUBSET Nat /\ T # {}
    OBVIOUS
  <2>. QED BY <2>1, LeastNat
<1>2. i # 0 /\ i \in 1 .. n
  BY <1>1
<1>3. i - 1 \in 0 .. n /\ i - 1 < i
  BY <1>2
<1>4. i - 1 \in P
  BY <1>1, <1>3
<1>. QED BY <1>1, <1>2, <1>4

\* A function defined from its value before exists.
Stepwise(f, n, a, step) == f[0] = a /\ \A i \in 1 .. n : f[i] = step[i][f[i - 1]]

LEMMA StepByStep ==
    ASSUME NEW n \in Nat, NEW S, NEW a \in S, NEW step \in [1 .. n -> [S -> S]]
    PROVE  \E f \in [0 .. n -> S] : Stepwise(f, n, a, step)
<1>. DEFINE Some(m) == \E f \in [0 .. m -> S] :
                          f[0] = a /\ \A i \in 1 .. m : f[i] = step[i][f[i - 1]]
            P == {m \in 0 .. n : Some(m)}
<1>1. 0 \in P
  <2>1. [i \in 0 .. 0 |-> a] \in [0 .. 0 -> S] /\ [i \in 0 .. 0 |-> a][0] = a
    OBVIOUS
  <2>2. \A i \in 1 .. 0 : FALSE
    OBVIOUS
  <2>3. Some(0)
    <3>. WITNESS [i \in 0 .. 0 |-> a] \in [0 .. 0 -> S]
    <3>. QED BY <2>1, <2>2
  <2>. QED BY <2>3
<1>2. ASSUME NEW m \in 1 .. n, m - 1 \in P PROVE m \in P
  <2>1. PICK f \in [0 .. m - 1 -> S] :
           f[0] = a /\ \A i \in 1 .. m - 1 : f[i] = step[i][f[i - 1]]
    BY <1>2
  <2>. DEFINE g == [i \in 0 .. m |-> IF i = m THEN step[m][f[m - 1]] ELSE f[i]]
  <2>2. m - 1 \in 0 .. m - 1 /\ m # 0
    OBVIOUS
  <2>3. m \in 1 .. n /\ f[m - 1] \in S /\ step[m][f[m - 1]] \in S
    BY <2>2
  <2>4. g \in [0 .. m -> S] /\ g[0] = a
    BY <2>1, <2>2, <2>3
  <2>5. g[m] = step[m][f[m - 1]] /\ \A i \in 0 .. m - 1 : g[i] = f[i]
    OBVIOUS
  <2>. HIDE DEF g
  <2>6. \A i \in 1 .. m : g[i] = step[i][g[i - 1]]
    <3>. SUFFICES ASSUME NEW i \in 1 .. m PROVE g[i] = step[i][g[i - 1]]
      OBVIOUS
    <3>1. i - 1 \in 0 .. m - 1 /\ g[i - 1] = f[i - 1]
      BY <2>5
    <3>2. CASE i = m
      BY <2>5, <3>1, <3>2
    <3>3. CASE i # m
      <4>1. i \in 1 .. m - 1 /\ i \in 0 .. m - 1
        BY <3>3
      <4>. QED BY <2>1, <2>5, <3>1, <4>1
    <3>. QED BY <3>2, <3>3
  <2>7. Some(m)
    BY <2>4, <2>6
  <2>8. m \in 0 .. n
    OBVIOUS
  <2>. HIDE DEF Some
  <2>. QED BY <2>7, <2>8
<1>. HIDE DEF P
<1>3. n \in 0 .. n
  OBVIOUS
<1>4. \A i \in 0 .. n : i \in P
  BY <1>1, <1>2, CountUp, Zenon
<1>. QED BY <1>3, <1>4 DEF P, Stepwise
==============================================================================
