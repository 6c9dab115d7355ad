------------------------------ MODULE Recursion ------------------------------
(***************************************************************************)
(* Induction over data, in a form that needs no operator as a parameter:   *)
(* it is about a set of natural numbers and about functions that give the  *)
(* step of a recursion for each of its arguments.                          *)
(***************************************************************************)
EXTENDS Integers, WellFoundedInduction, TLAPS

\* A set that has 0 and with a number its successor has all natural numbers.
LEMMA SetInduction ==
    ASSUME NEW S, 0 \in S, \A n \in Nat : n \in S => n + 1 \in S
    PROVE  Nat \subseteq S
<1> DEFINE less == {ss \in Nat \X Nat : ss[1] < ss[2]}
<1>1. IsWellFoundedOn(less, Nat)
  BY NatLessThanWellFounded DEF OpToRel
<1> SUFFICES ASSUME Nat \ S # {}  PROVE FALSE
  OBVIOUS
<1>2. PICK x \in Nat \ S : \A y \in Nat \ S : ~(<<y, x>> \in less)
  BY <1>1, WFMin
<1>3. x # 0 /\ x - 1 \in Nat /\ x - 1 + 1 = x
  BY <1>2
<1>4. <<x - 1, x>> \in less
  BY <1>3
<1>5. x - 1 \in S
  BY <1>2, <1>3, <1>4
<1> QED
  BY <1>2, <1>3, <1>5

\* Some function begins with a and takes the given steps.
LEMMA RecursionExists ==
    ASSUME NEW A, NEW a \in A, NEW n \in Nat, NEW step \in [1..n -> [A -> A]]
    PROVE  \E f \in [0..n -> A] : f[0] = a /\ \A k \in 1..n : f[k] = step[k][f[k - 1]]
<1> DEFINE Solves(f, m) == f[0] = a /\ \A k \in 1..m : f[k] = step[k][f[k - 1]]
           S == {m \in Nat : m <= n => \E f \in [0..m -> A] : Solves(f, m)}
<1>1. 0 \in S
  <2> DEFINE f == [k \in 0..0 |-> a]
  <2>1. f \in [0..0 -> A] /\ Solves(f, 0)
    OBVIOUS
  <2> QED
    BY <2>1
<1>2. ASSUME NEW m \in Nat, m \in S  PROVE m + 1 \in S
  <2> SUFFICES ASSUME m + 1 <= n  PROVE \E f \in [0..(m + 1) -> A] : Solves(f, m + 1)
    OBVIOUS
  <2>1. PICK f \in [0..m -> A] : Solves(f, m)
    BY <1>2
  <2> DEFINE g == [k \in 0..(m + 1) |-> IF k = m + 1 THEN step[m + 1][f[m]] ELSE f[k]]
  <2>2. f[m] \in A /\ step[m + 1] \in [A -> A]
    OBVIOUS
  <2>3. g \in [0..(m + 1) -> A]
    BY <2>2
  <2>4. Solves(g, m + 1)
    BY <2>1
  <2> QED
    BY <2>3, <2>4
<1>3. n \in S
  <2> HIDE DEF S
  <2> QED
    BY <1>1, <1>2, SetInduction
<1> QED
  BY <1>3

\* Two functions that begin alike and whose steps are alike are equal.
LEMMA RecursionsAgree ==
    ASSUME NEW n \in Nat, NEW f, NEW g, f[0] = g[0],
           \A k \in 1..n : f[k - 1] = g[k - 1] => f[k] = g[k]
    PROVE  \A k \in 0..n : f[k] = g[k]
<1> DEFINE S == {k \in Nat : k <= n => f[k] = g[k]}
<1>1. 0 \in S
  OBVIOUS
<1>2. ASSUME NEW k \in Nat, k \in S  PROVE k + 1 \in S
  <2> SUFFICES ASSUME k + 1 <= n  PROVE f[k + 1] = g[k + 1]
    OBVIOUS
  <2>1. f[k] = g[k]
    BY <1>2
  <2>2. k + 1 \in 1..n /\ (k + 1) - 1 = k
    OBVIOUS
  <2> QED
    BY <2>1, <2>2
<1>3. \A k \in Nat : k \in S
  <2> HIDE DEF S
  <2> QED
    BY <1>1, <1>2, SetInduction
<1> QED
  BY <1>3

\* A set of numbers that is not empty has a least one.
LEMMA LeastExists ==
    ASSUME NEW S, S \subseteq Nat, S # {}
    PROVE  \E n \in S : \A m \in S : n <= m
<1> DEFINE T == {k \in Nat : (\E m \in S : m <= k) => \E n \in S : \A m \in S : n <= m}
<1>1. 0 \in T
  OBVIOUS
<1>2. ASSUME NEW k \in Nat, k \in T  PROVE k + 1 \in T
  <2> SUFFICES ASSUME NEW x \in S, x <= k + 1, ~(\E m \in S : m <= k)
               PROVE  \A m \in S : x <= m
    BY <1>2
  <2> QED
    OBVIOUS
<1>3. Nat \subseteq T
  <2> HIDE DEF T
  <2> QED
    BY <1>1, <1>2, SetInduction
<1>4. PICK x \in S : x \in Nat
  OBVIOUS
<1> QED
  BY <1>3, <1>4

=============================================================================
