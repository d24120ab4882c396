-------------------------- MODULE InductionLemmas --------------------------
(***************************************************************************)
(* Induction and definition by recursion over an interval of numbers, for   *)
(* sets and functions rather than for operators: what the proofs about the  *)
(* loops of the code (over routes, middlewares, lines, characters) rest on. *)
(***************************************************************************)
EXTENDS Integers, WellFoundedInduction, TLAPS

\* A set of numbers that is not empty has a least member.
LEMMA LeastNumber ==
  ASSUME NEW T, T \subseteq Nat, T # {}
  PROVE  \E n \in T : \A m \in T : n <= m
<1> DEFINE R == OpToRel(<, Nat)
<1>1. IsWellFoundedOn(R, Nat) BY NatLessThanWellFounded
<1>2. \A x, y \in Nat : x < y => <<x, y>> \in R BY DEF OpToRel
<1> HIDE DEF R
<1>3. PICK n \in T : \A m \in T : ~(<<m, n>> \in R) BY <1>1, WFMin
<1>4. \A m \in T : ~(m < n) BY <1>2, <1>3
<1>5. QED BY <1>4

\* A set with 0, and with the successor of each number below n that it has.
LEMMA InductionUpTo ==
  ASSUME NEW n \in Nat, NEW T, 0 \in T, \A i \in 0..(n - 1) : i \in T => i + 1 \in T
  PROVE  0..n \subseteq T
<1> DEFINE Outside == {i \in 0..n : i \notin T}
<1> SUFFICES ASSUME Outside # {} PROVE FALSE OBVIOUS
<1>1. Outside \subseteq Nat OBVIOUS
<1>2. \A i \in Outside : i \in 1..n /\ i \notin T OBVIOUS
<1>3. \A i \in 0..n : i \notin Outside => i \in T OBVIOUS
<1> HIDE DEF Outside
<1>4. PICK m \in Outside : \A k \in Outside : m <= k BY <1>1, LeastNumber
<1>5. m - 1 \in 0..(n - 1) /\ m - 1 \in 0..n BY <1>2
<1>6. m - 1 \notin Outside
  <2>1. m \in Nat /\ ~(m <= m - 1) BY <1>2
  <2>2. QED BY <1>4, <2>1
<1>7. m - 1 \in T BY <1>3, <1>5, <1>6
<1>8. m \in T
  <2>1. (m - 1) + 1 = m BY <1>2
  <2>2. QED BY <1>5, <1>7, <2>1
<1>9. QED BY <1>2, <1>8

\* A set with n, and with the predecessor of each number it has, down to 0.
LEMMA InductionDownFrom ==
  ASSUME NEW n \in Nat, NEW T, n \in T, \A i \in 1..n : i \in T => i - 1 \in T
  PROVE  0..n \subseteq T
<1> DEFINE Mirror == {i \in 0..n : n - i \in T}
<1>1. 0 \in Mirror OBVIOUS
<1>2. ASSUME NEW i \in 0..(n - 1), i \in Mirror PROVE i + 1 \in Mirror
  <2>1. n - i \in 1..n /\ n - i \in T BY <1>2
  <2>2. (n - i) - 1 \in T BY <2>1
  <2>3. (n - i) - 1 = n - (i + 1) OBVIOUS
  <2>4. QED BY <2>2, <2>3
<1>3. 0..n \subseteq Mirror
  <2> HIDE DEF Mirror
  <2>1. QED BY <1>1, <1>2, InductionUpTo
<1>4. ASSUME NEW i \in 0..n PROVE i \in T
  <2>1. n - i \in 0..n OBVIOUS
  <2>2. n - i \in Mirror BY <2>1, <1>3
  <2>3. n - (n - i) = i OBVIOUS
  <2>4. QED BY <2>2, <2>3
<1>5. QED BY <1>4

\* What makes a value of the turn of a loop and of the value before it.
Turns(n, S) == [(1..n) \X S -> S]

\* The values of a loop exist, from the first one and each from the one before.
LEMMA Iteration ==
  ASSUME NEW n \in Nat, NEW S, NEW first \in S, NEW Step \in Turns(n, S)
  PROVE  \E f \in [0..n -> S] : f[0] = first /\ \A i \in 1..n : f[i] = Step[<<i, f[i - 1]>>]
<1> DEFINE Upto(k) == {f \in [0..k -> S] :
                         f[0] = first /\ \A i \in 1..k : f[i] = Step[<<i, f[i - 1]>>]}
           T == {k \in 0..n : Upto(k) # {}}
<1> USE DEF Turns
<1>1. 0 \in T
  <2>1. [i \in 0..0 |-> first] \in [0..0 -> S] OBVIOUS
  <2>2. [i \in 0..0 |-> first] \in Upto(0) BY <2>1
  <2>3. QED BY <2>2
<1>2. ASSUME NEW k \in 0..(n - 1), k \in T PROVE k + 1 \in T
  <2>1. PICK f \in [0..k -> S] : f[0] = first /\ \A i \in 1..k : f[i] = Step[<<i, f[i - 1]>>]
    BY <1>2
  <2> DEFINE g == [i \in 0..(k + 1) |-> IF i = k + 1 THEN Step[<<k + 1, f[k]>>] ELSE f[i]]
  <2>2. Step[<<k + 1, f[k]>>] \in S
    <3>1. <<k + 1, f[k]>> \in (1..n) \X S OBVIOUS
    <3>2. QED BY <3>1
  <2>3. g \in [0..(k + 1) -> S]
    <3>1. \A i \in 0..(k + 1) : i # k + 1 => f[i] \in S OBVIOUS
    <3>2. QED BY <2>2, <3>1
  <2>4. g[0] = first BY <2>1
  <2>5. ASSUME NEW i \in 1..(k + 1) PROVE g[i] = Step[<<i, g[i - 1]>>]
    <3>1. i - 1 \in 0..(k + 1) /\ i - 1 # k + 1 /\ g[i - 1] = f[i - 1] OBVIOUS
    <3>2. CASE i = k + 1
      <4>1. g[i] = Step[<<k + 1, f[k]>>] /\ i - 1 = k BY <3>2
      <4>2. QED BY <3>1, <3>2, <4>1
    <3>3. CASE i # k + 1
      <4>1. i \in 1..k /\ g[i] = f[i] BY <3>3
      <4>2. QED BY <2>1, <3>1, <4>1
    <3>4. QED BY <3>2, <3>3
  <2> HIDE DEF g
  <2>6. g \in Upto(k + 1) BY <2>3, <2>4, <2>5
  <2>7. k + 1 \in 0..n OBVIOUS
  <2>8. QED BY <2>6, <2>7
<1>3. n \in T
  <2> HIDE DEF T
  <2>1. 0..n \subseteq T BY <1>1, <1>2, InductionUpTo
  <2>2. QED BY <2>1
<1>4. QED BY <1>3


\* The values of a loop whose turn is a function of what the turn before has left.
Runs(n, S, first, Step) ==
  {f \in [0..n -> S] : f = [i \in 0..n |-> IF i = 0 THEN first ELSE Step[f[i - 1]]]}

\* They exist.
LEMMA LoopExists ==
  ASSUME NEW n \in Nat, NEW S, NEW first \in S, NEW Step, Step \in [S -> S]
  PROVE  Runs(n, S, first, Step) # {}
<1> DEFINE G == [x \in (1..n) \X S |-> Step[x[2]]]
<1>1. G \in Turns(n, S)
  <2>1. \A x \in (1..n) \X S : x[2] \in S OBVIOUS
  <2>2. QED BY <2>1 DEF Turns
<1>2. \A i \in 1..n, x \in S : G[<<i, x>>] = Step[x] OBVIOUS
<1> HIDE DEF G
<1>3. PICK f \in [0..n -> S] : f[0] = first /\ \A i \in 1..n : f[i] = G[<<i, f[i - 1]>>]
  BY <1>1, Iteration
<1>4. \A i \in 0..n : i # 0 => i \in 1..n /\ f[i - 1] \in S
  <2>1. \A i \in 0..n : i # 0 => i \in 1..n /\ i - 1 \in 0..n OBVIOUS
  <2>2. QED BY <2>1
<1>5. \A i \in 0..n : i # 0 => f[i] = Step[f[i - 1]] BY <1>2, <1>3, <1>4
<1>6. f = [i \in 0..n |-> f[i]] OBVIOUS
<1>7. f = [i \in 0..n |-> IF i = 0 THEN first ELSE Step[f[i - 1]]] BY <1>3, <1>5, <1>6
<1>8. QED BY <1>7 DEF Runs

\* Where a loop is over there is nothing left.
Over(f, n, S, Step, left) == f[n] \in S /\ left[f[n]] = 0

\* It is over after as many turns as it had left.
LEMMA LoopEnds ==
  ASSUME NEW n \in Nat, NEW S, NEW Step, NEW left, NEW f,
         Step \in [S -> S], left \in [S -> Nat], f[0] \in S, left[f[0]] <= n,
         \A i \in 1..n : f[i - 1] \in S => f[i] = Step[f[i - 1]],
         \A x \in S : left[Step[x]] = 0 \/ left[Step[x]] < left[x]
  PROVE  Over(f, n, S, Step, left)
<1> DEFINE T == {i \in 0..n : f[i] \in S /\ left[f[i]] <= n - i}
<1>1. 0 \in T OBVIOUS
<1>2. ASSUME NEW i \in 0..(n - 1), i \in T PROVE i + 1 \in T
  <2>1. i + 1 \in 1..n /\ i + 1 \in 0..n /\ (i + 1) - 1 = i OBVIOUS
  <2>2. f[i] \in S /\ left[f[i]] <= n - i BY <1>2
  <2>3. f[i + 1] = Step[f[i]] BY <2>1, <2>2
  <2>4. /\ Step[f[i]] \in S /\ left[f[i]] \in Nat /\ left[Step[f[i]]] \in Nat
        /\ left[Step[f[i]]] = 0 \/ left[Step[f[i]]] < left[f[i]]
    BY <2>2
  <2>5. left[f[i + 1]] <= n - (i + 1) BY <2>2, <2>3, <2>4
  <2>6. QED BY <2>1, <2>3, <2>4, <2>5
<1>3. \A i \in T : f[i] \in S /\ left[f[i]] <= n - i OBVIOUS
<1> HIDE DEF T
<1>4. 0..n \subseteq T BY <1>1, <1>2, InductionUpTo
<1>5. n \in T BY <1>4
<1>6. left[f[n]] \in Nat /\ left[f[n]] <= n - n BY <1>3, <1>5
<1>7. QED BY <1>3, <1>5, <1>6 DEF Over
=============================================================================
