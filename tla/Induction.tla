----------------------------- MODULE Induction -----------------------------
(***************************************************************************)
(* Induction over the natural numbers in a form that has a set where the   *)
(* library's theorems have a predicate, and the functions defined by       *)
(* iterating a step: replaying a log, reading bytes, parsing a stream.     *)
(***************************************************************************)
EXTENDS Integers, WellFoundedInduction, TLAPS

LOCAL LessThan == OpToRel(<, Nat)

\* The library's well-founded order of the natural numbers, as a set of pairs.
LEMMA LessThanWellFounded == IsWellFoundedOn(LessThan, Nat)
BY NatLessThanWellFounded, Zenon DEF LessThan

\* Which pairs those are.
LEMMA LessThanPairs == \A m, n \in Nat : m < n => <<m, n>> \in LessThan
BY DEF LessThan, OpToRel

\* A set that holds 0, and the successor of each of its natural numbers, holds
\* all of them.
LEMMA SetInduction ==
    ASSUME NEW S, 0 \in S, \A n \in Nat : n \in S => n + 1 \in S
    PROVE  Nat \subseteq S
<1>1. SUFFICES ASSUME Nat \ S # {} PROVE FALSE
  OBVIOUS
<1>2. PICK n \in Nat \ S : \A m \in Nat \ S : ~(<<m, n>> \in LessThan)
  BY <1>1, LessThanWellFounded, WFMin
<1>3. n - 1 \in Nat \ S
  BY <1>2
<1>4. <<n - 1, n>> \in LessThan
  BY <1>3, LessThanPairs
<1> QED
  BY <1>2, <1>3, <1>4

\* A non-empty set of natural numbers has a least element.
LEMMA LeastExists ==
    ASSUME NEW S, S \subseteq Nat, S # {}
    PROVE  \E least \in S : \A n \in S : least <= n
<1>1. PICK n \in S : \A m \in S : ~(<<m, n>> \in LessThan)
  BY LessThanWellFounded, WFMin
<1>2. \A m \in S : ~(m < n)
  BY <1>1, LessThanPairs
<1> QED
  BY <1>2

\* A non-empty set of natural numbers below a bound has a greatest element.
LEMMA GreatestExists ==
    ASSUME NEW S, S \subseteq Nat, S # {}, NEW b \in Nat, \A n \in S : n <= b
    PROVE  \E greatest \in S : \A n \in S : n <= greatest
<1> DEFINE Bounds == {c \in Nat : \A n \in S : n <= c}
<1>1. b \in Bounds
  OBVIOUS
<1>2. PICK c \in Bounds : \A d \in Bounds : c <= d
  BY <1>1, LeastExists
<1>3. ASSUME c \notin S PROVE FALSE
  <2>1. PICK n \in S : TRUE
    OBVIOUS
  <2>2. \A m \in S : m <= c - 1
    BY <1>2, <1>3
  <2>3. c - 1 \in Bounds
    BY <1>2, <2>1, <2>2
  <2> QED
    BY <1>2, <2>3
<1> QED
  BY <1>2, <1>3

----------------------------------------------------------------------------
\* at begins with base, and each next value is the step's from the one before.
Iterates(base, step, n, at) ==
    \A i \in 0..n : at[i] = IF i = 0 THEN base ELSE step[<<i, at[i - 1]>>]

\* A step that stays within a set can be iterated any number of times.
LEMMA IterationExists ==
    ASSUME NEW D, NEW base \in D, NEW step \in [Nat \X D -> D]
    PROVE  \A n \in Nat : \E at \in [0..n -> D] : Iterates(base, step, n, at)
<1> DEFINE Holding == {n \in Nat : \E at \in [0..n -> D] : Iterates(base, step, n, at)}
<1>1. 0 \in Holding
  <2> DEFINE at == [i \in 0..0 |-> base]
  <2>1. at \in [0..0 -> D] /\ Iterates(base, step, 0, at)
    BY DEF Iterates
  <2> QED
    BY <2>1
<1>2. ASSUME NEW n \in Nat, n \in Holding PROVE n + 1 \in Holding
  <2>1. PICK at \in [0..n -> D] : Iterates(base, step, n, at)
    BY <1>2
  <2> DEFINE next == [i \in 0..(n + 1) |-> IF i = n + 1 THEN step[<<i, at[n]>>] ELSE at[i]]
  <2>2. next \in [0..(n + 1) -> D]
    <3>1. at[n] \in D /\ \A i \in 0..n : at[i] \in D
      OBVIOUS
    <3>2. step[<<n + 1, at[n]>>] \in D
      BY <3>1
    <3> QED
      BY <3>1, <3>2
  <2>3. ASSUME NEW i \in 0..(n + 1)
        PROVE  next[i] = IF i = 0 THEN base ELSE step[<<i, next[i - 1]>>]
    <3>1. CASE i = n + 1
      <4>1. next[i] = step[<<i, at[n]>>] /\ next[i - 1] = at[n] /\ i # 0
        BY <3>1
      <4> QED
        BY <4>1
    <3>2. CASE i \in 1..n
      <4>1. next[i] = at[i] /\ next[i - 1] = at[i - 1]
        BY <3>2
      <4> QED
        BY <2>1, <3>2, <4>1 DEF Iterates
    <3>3. CASE i = 0
      <4>1. next[0] = at[0] /\ 0 \in 0..n
        BY <3>3
      <4>2. at[0] = base
        BY <2>1, <4>1 DEF Iterates
      <4> HIDE DEF next
      <4> QED
        BY <3>3, <4>1, <4>2
    <3> QED
      BY <3>1, <3>2, <3>3
  <2>4. Iterates(base, step, n + 1, next)
    <3> HIDE DEF next
    <3> QED
      BY <2>3 DEF Iterates
  <2> HIDE DEF next
  <2> QED
    BY <2>2, <2>4
<1> HIDE DEF Holding
<1>3. Nat \subseteq Holding
  BY <1>1, <1>2, SetInduction
<1> QED
  BY <1>3 DEF Holding

\* and in one way only.
LEMMA IterationUnique ==
    ASSUME NEW base, NEW step, NEW n \in Nat, NEW at, NEW bt,
           Iterates(base, step, n, at), Iterates(base, step, n, bt)
    PROVE  \A i \in 0..n : at[i] = bt[i]
<1> DEFINE Holding == {i \in Nat : i <= n => at[i] = bt[i]}
<1>1. 0 \in Holding
  <2>1. 0 \in 0..n
    OBVIOUS
  <2>2. at[0] = base /\ bt[0] = base
    BY <2>1 DEF Iterates
  <2> QED
    BY <2>2
<1>2. ASSUME NEW i \in Nat, i \in Holding PROVE i + 1 \in Holding
  <2>1. SUFFICES ASSUME i + 1 <= n PROVE at[i + 1] = bt[i + 1]
    OBVIOUS
  <2>2. at[i] = bt[i]
    BY <1>2, <2>1
  <2>3. i + 1 \in 0..n /\ i + 1 # 0 /\ (i + 1) - 1 = i
    BY <2>1
  <2>4. at[i + 1] = step[<<i + 1, at[i]>>] /\ bt[i + 1] = step[<<i + 1, bt[i]>>]
    BY <2>3 DEF Iterates
  <2> QED
    BY <2>2, <2>4
<1> HIDE DEF Holding
<1>3. Nat \subseteq Holding
  BY <1>1, <1>2, SetInduction
<1> QED
  BY <1>3 DEF Holding
=============================================================================
