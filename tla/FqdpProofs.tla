----------------------------- MODULE FqdpProofs -----------------------------
(***************************************************************************)
(* Proofs about Fqdp, for every set of connections, every stream of bytes, *)
(* every radix, field size and limit: the frames of a stream are answered  *)
(* in order, each once, whatever the pieces it arrives in, and what the    *)
(* server writes parses into its answers.                                  *)
(***************************************************************************)
EXTENDS Fqdp, Induction, SequenceTheorems, TLAPS

----------------------------------------------------------------------------
(* Numbers and bytes *)

\* A function on the first n positive numbers is a sequence.
LEMMA SequenceOf ==
    ASSUME NEW S, NEW n \in Nat, NEW f \in [1..n -> S]
    PROVE  f \in Seq(S) /\ Len(f) = n
OBVIOUS

\* The digits of a number are a quotient and a remainder.
LEMMA Division ==
    ASSUME NEW n \in Nat
    PROVE  /\ n = Radix * (n \div Radix) + (n % Radix)
           /\ n \div Radix \in Nat /\ n % Radix \in Byte
BY WireAssumption DEF Byte

\* A number with one digit more has a quotient as large as it may be, at most,
LEMMA QuotientBound ==
    ASSUME NEW n \in Nat, NEW l \in Nat, n <= Radix * l + (Radix - 1)
    PROVE  n \div Radix <= l
<1>1. Radix \in Nat \ {0}
  BY WireAssumption
<1> QED BY <1>1

\* and is what its quotient and its last digit say.
LEMMA Digits ==
    ASSUME NEW n \in Nat, NEW digit \in Byte
    PROVE  /\ Radix * n + digit \in Nat
           /\ (Radix * n + digit) \div Radix = n /\ (Radix * n + digit) % Radix = digit
           /\ \A l \in Nat : n <= l => Radix * n + digit <= Radix * l + (Radix - 1)
<1>1. Radix \in Nat \ {0} /\ digit \in 0..(Radix - 1)
  BY WireAssumption DEF Byte
<1>2. (Radix * n + digit) \div Radix = n
  BY <1>1
<1>3. (Radix * n + digit) % Radix = digit
  BY <1>1
<1>4. ASSUME NEW l \in Nat, n <= l
      PROVE  Radix * n + digit <= Radix * l + (Radix - 1)
  BY <1>1, <1>4
<1> QED BY <1>1, <1>2, <1>3, <1>4

\* BigEndian adds the bytes from the left, each time shifting what it has.
BigEndianStep(bytes) ==
    [p \in Nat \X Nat |-> Radix * p[2] + (IF p[1] \in 1..Len(bytes) THEN bytes[p[1]] ELSE 0)]
LEMMA BigEndianIterates ==
    ASSUME NEW bytes \in Seq(Byte)
    PROVE  \E at \in [0..Len(bytes) -> Nat] :
               /\ at[0] = 0
               /\ \A i \in 1..Len(bytes) : at[i] = Radix * at[i - 1] + bytes[i]
               /\ BigEndian(bytes) = at[Len(bytes)]
<1> DEFINE n == Len(bytes)
           step == BigEndianStep(bytes)
<1>1. n \in Nat /\ Radix \in Nat /\ \A i \in 1..n : bytes[i] \in Nat
  BY WireAssumption, LenProperties, ElementOfSeq DEF Byte
<1>2. step \in [Nat \X Nat -> Nat]
  BY <1>1 DEF BigEndianStep
<1>3. PICK at \in [0..n -> Nat] : Iterates(0, step, n, at)
  <2> HIDE DEF n, step
  <2> QED BY <1>1, <1>2, IterationExists
<1>4. at[0] = 0
  <2> 0 \in 0..n
    BY <1>1
  <2> HIDE DEF n, step
  <2> QED BY <1>3 DEF Iterates
<1>5. ASSUME NEW i \in 1..n
      PROVE  at[i] = Radix * at[i - 1] + bytes[i]
  <2>1. i \in 0..n /\ i # 0 /\ i \in Nat /\ at[i - 1] \in Nat
    BY <1>1
  <2>2. at[i] = step[<<i, at[i - 1]>>]
    <3> HIDE DEF n, step
    <3> QED BY <1>3, <2>1 DEF Iterates
  <2> QED BY <2>1, <2>2 DEF BigEndianStep
<1> DEFINE Sums(f) == f = [i \in 0..n |-> IF i = 0 THEN 0 ELSE Radix * f[i - 1] + bytes[i]]
           sums == CHOOSE f : Sums(f)
<1> HIDE DEF n, step
<1>6. Sums(at)
  BY <1>1, <1>4, <1>5
<1>7. Sums(sums)
  BY <1>6
<1>8. BigEndian(bytes) = sums[n]
  BY DEF BigEndian, n
<1> HIDE DEF sums
<1>9. \A i \in 0..n : sums[i] = IF i = 0 THEN 0 ELSE Radix * sums[i - 1] + bytes[i]
  BY <1>7
<1> HIDE DEF Sums
<1>10. sums[n] = at[n]
  <2> DEFINE Holding == {i \in Nat : i <= n => sums[i] = at[i]}
  <2>1. 0 \in Holding
    BY <1>1, <1>4, <1>9
  <2>2. ASSUME NEW i \in Nat, i \in Holding
        PROVE  i + 1 \in Holding
    <3>1. SUFFICES ASSUME i + 1 <= n
                   PROVE  sums[i + 1] = at[i + 1]
      OBVIOUS
    <3>2. sums[i] = at[i] /\ i + 1 \in 1..n /\ i + 1 \in 0..n /\ (i + 1) - 1 = i
      BY <1>1, <2>2, <3>1
    <3>3. sums[i + 1] = Radix * sums[i] + bytes[i + 1]
      BY <1>9, <3>2
    <3> QED BY <1>5, <3>2, <3>3
  <2> HIDE DEF Holding
  <2>3. Nat \subseteq Holding
    BY <2>1, <2>2, SetInduction
  <2> QED BY <1>1, <2>3 DEF Holding
<1> QED BY <1>4, <1>5, <1>8, <1>10 DEF n

\* No bytes are the number 0, and one byte more is the next digit.
LEMMA BigEndianDigits ==
    /\ BigEndian(<<>>) = 0
    /\ \A bytes \in Seq(Byte), byte \in Byte :
           /\ BigEndian(bytes) \in Nat
           /\ BigEndian(Append(bytes, byte)) = Radix * BigEndian(bytes) + byte
<1>1. BigEndian(<<>>) = 0
  <2>1. <<>> \in Seq(Byte) /\ Len(<<>>) = 0
    BY EmptySeq
  <2> QED BY <2>1, BigEndianIterates
<1>2. ASSUME NEW bytes \in Seq(Byte), NEW byte \in Byte
      PROVE  /\ BigEndian(bytes) \in Nat
             /\ BigEndian(Append(bytes, byte)) = Radix * BigEndian(bytes) + byte
  <2> DEFINE n == Len(bytes)
             more == Append(bytes, byte)
  <2>1. /\ n \in Nat /\ more \in Seq(Byte) /\ Len(more) = n + 1
        /\ \A i \in 1..n : more[i] = bytes[i]
        /\ more[n + 1] = byte
    BY LenProperties, AppendProperties
  <2>2. PICK at \in [0..n -> Nat] :
          /\ at[0] = 0
          /\ \A i \in 1..n : at[i] = Radix * at[i - 1] + bytes[i]
          /\ BigEndian(bytes) = at[n]
    BY BigEndianIterates
  <2> HIDE DEF n, more
  <2>3. PICK bt \in [0..(n + 1) -> Nat] :
          /\ bt[0] = 0
          /\ \A i \in 1..(n + 1) : bt[i] = Radix * bt[i - 1] + more[i]
          /\ BigEndian(more) = bt[n + 1]
    BY <2>1, BigEndianIterates
  <2>4. bt[n] = at[n]
    <3> DEFINE step == BigEndianStep(bytes)
    <3>1. ASSUME NEW f, NEW m \in {n, n + 1}, f \in [0..m -> Nat], f[0] = 0,
                 \A i \in 1..n : f[i] = Radix * f[i - 1] + bytes[i]
          PROVE  Iterates(0, step, n, f)
      <4> SUFFICES ASSUME NEW i \in 0..n
                   PROVE  f[i] = IF i = 0 THEN 0 ELSE step[<<i, f[i - 1]>>]
        BY DEF Iterates
      <4>1. CASE i = 0
        BY <3>1, <4>1
      <4>2. CASE i # 0
        <5>1. i \in 1..n /\ i \in Nat /\ i - 1 \in 0..m
          BY <2>1, <4>2
        <5>2. f[i - 1] \in Nat
          BY <3>1, <5>1
        <5> QED BY <3>1, <4>2, <5>1, <5>2 DEF BigEndianStep, n
      <4> QED BY <4>1, <4>2
    <3> HIDE DEF step
    <3>2. Iterates(0, step, n, at)
      BY <2>2, <3>1
    <3>3. \A i \in 1..n : bt[i] = Radix * bt[i - 1] + bytes[i]
      BY <2>1, <2>3
    <3>4. Iterates(0, step, n, bt)
      BY <2>3, <3>1, <3>3
    <3>5. n \in 0..n
      BY <2>1
    <3> QED BY <2>1, <3>2, <3>4, <3>5, IterationUnique
  <2>5. bt[n + 1] = Radix * bt[n] + byte
    <3>1. n + 1 \in 1..(n + 1) /\ (n + 1) - 1 = n
      BY <2>1
    <3> QED BY <2>1, <2>3, <3>1
  <2>6. at[n] \in Nat
    BY <2>1, <2>2
  <2> QED BY <2>2, <2>3, <2>4, <2>5, <2>6 DEF more
<1> QED BY <1>1, <1>2

\* A shift divides by the radix as often as it says.
ShiftedStep == [p \in Nat \X Nat |-> p[2] \div Radix]
LEMMA ShiftedIterates ==
    ASSUME NEW n \in Nat, NEW k \in Nat
    PROVE  \E at \in [0..k -> Nat] : Iterates(n, ShiftedStep, k, at) /\ Shifted(n, k) = at[k]
<1>1. ShiftedStep \in [Nat \X Nat -> Nat]
  <2>1. \A p \in Nat \X Nat : p[2] \div Radix \in Nat
    BY Division
  <2> QED BY <2>1 DEF ShiftedStep
<1>2. PICK at \in [0..k -> Nat] : Iterates(n, ShiftedStep, k, at)
  BY <1>1, IterationExists
<1>3. \A i \in 0..k : at[i] = IF i = 0 THEN n ELSE at[i - 1] \div Radix
  <2> SUFFICES ASSUME NEW i \in 0..k
               PROVE  at[i] = IF i = 0 THEN n ELSE at[i - 1] \div Radix
    OBVIOUS
  <2>1. i # 0 => i \in Nat /\ at[i - 1] \in Nat
    OBVIOUS
  <2> QED BY <1>2, <2>1 DEF Iterates, ShiftedStep
<1> DEFINE Shifts(f) == f = [j \in 0..k |-> IF j = 0 THEN n ELSE f[j - 1] \div Radix]
           shifted == CHOOSE f : Shifts(f)
<1>4. Shifts(at)
  BY <1>3
<1>5. Shifts(shifted)
  BY <1>4
<1>6. Shifted(n, k) = shifted[k]
  BY DEF Shifted
<1> HIDE DEF shifted
<1>7. \A i \in 0..k : shifted[i] = IF i = 0 THEN n ELSE shifted[i - 1] \div Radix
  BY <1>5
<1> HIDE DEF Shifts
<1>8. shifted[k] = at[k]
  <2> DEFINE Holding == {i \in Nat : i <= k => shifted[i] = at[i]}
  <2>1. 0 \in Holding
    BY <1>3, <1>7
  <2>2. ASSUME NEW i \in Nat, i \in Holding
        PROVE  i + 1 \in Holding
    <3>1. SUFFICES ASSUME i + 1 <= k
                   PROVE  shifted[i + 1] = at[i + 1]
      OBVIOUS
    <3>2. shifted[i] = at[i] /\ i + 1 \in 0..k /\ i + 1 # 0 /\ (i + 1) - 1 = i
      BY <2>2, <3>1
    <3> QED BY <1>3, <1>7, <3>2
  <2> HIDE DEF Holding
  <2>3. Nat \subseteq Holding
    BY <2>1, <2>2, SetInduction
  <2> QED BY <2>3 DEF Holding
<1> QED BY <1>2, <1>6, <1>8

\* Shifting once more is dividing the result, or shifting the quotient.
LEMMA ShiftedNext ==
    ASSUME NEW k \in Nat
    PROVE  \A n \in Nat :
               /\ Shifted(n, 0) = n /\ Shifted(n, k) \in Nat
               /\ Shifted(n, k + 1) = Shifted(n, k) \div Radix
               /\ Shifted(n, k + 1) = Shifted(n \div Radix, k)
<1>1. ASSUME NEW n \in Nat
      PROVE  Shifted(n, 0) = n
  <2>1. PICK at \in [0..0 -> Nat] : Iterates(n, ShiftedStep, 0, at) /\ Shifted(n, 0) = at[0]
    BY ShiftedIterates
  <2>2. 0 \in 0..0
    OBVIOUS
  <2> QED BY <2>1, <2>2 DEF Iterates
<1>2. ASSUME NEW n \in Nat, NEW j \in Nat
      PROVE  Shifted(n, j) \in Nat /\ Shifted(n, j + 1) = Shifted(n, j) \div Radix
  <2>1. PICK at \in [0..j -> Nat] : Iterates(n, ShiftedStep, j, at) /\ Shifted(n, j) = at[j]
    BY ShiftedIterates
  <2>2. j + 1 \in Nat
    OBVIOUS
  <2>3. PICK bt \in [0..(j + 1) -> Nat] :
          Iterates(n, ShiftedStep, j + 1, bt) /\ Shifted(n, j + 1) = bt[j + 1]
    BY <2>2, ShiftedIterates
  <2>4. Iterates(n, ShiftedStep, j, bt)
    <3>1. \A i \in 0..j : i \in 0..(j + 1)
      OBVIOUS
    <3> QED BY <2>3, <3>1 DEF Iterates
  <2>5. bt[j] = at[j] /\ at[j] \in Nat
    BY <2>1, <2>4, IterationUnique
  <2>6. bt[j + 1] = ShiftedStep[<<j + 1, bt[j]>>]
    <3>1. j + 1 \in 0..(j + 1) /\ j + 1 # 0 /\ (j + 1) - 1 = j
      OBVIOUS
    <3> QED BY <2>3, <3>1 DEF Iterates
  <2>7. ShiftedStep[<<j + 1, bt[j]>>] = bt[j] \div Radix
    BY <2>5 DEF ShiftedStep
  <2> QED BY <2>1, <2>3, <2>5, <2>6, <2>7
<1>3. ASSUME NEW n \in Nat
      PROVE  Shifted(n, k + 1) = Shifted(n \div Radix, k)
  <2> DEFINE q == n \div Radix
             Holding == {j \in Nat : Shifted(n, j + 1) = Shifted(q, j)}
  <2>1. q \in Nat
    BY Division
  <2>2. 0 \in Holding
    BY <1>1, <1>2, <2>1
  <2>3. ASSUME NEW j \in Nat, j \in Holding
        PROVE  j + 1 \in Holding
    <3>1. Shifted(n, (j + 1) + 1) = Shifted(n, j + 1) \div Radix
      BY <1>2
    <3>2. Shifted(q, j + 1) = Shifted(q, j) \div Radix
      BY <1>2, <2>1
    <3> QED BY <2>3, <3>1, <3>2
  <2> HIDE DEF Holding
  <2>4. Nat \subseteq Holding
    BY <2>2, <2>3, SetInduction
  <2> QED BY <2>4 DEF Holding
<1> QED BY <1>1, <1>2, <1>3

\* The bytes of a number in a field: its last digit last, after those of the
\* quotient.
LEMMA PutUintDigits ==
    ASSUME NEW n \in Nat, NEW size \in Nat
    PROVE  /\ PutUint(n, size) \in Seq(Byte) /\ Len(PutUint(n, size)) = size
           /\ PutUint(n, size + 1) = Append(PutUint(n \div Radix, size), n % Radix)
<1>1. ASSUME NEW m \in Nat, NEW s \in Nat
      PROVE  /\ PutUint(m, s) \in Seq(Byte) /\ Len(PutUint(m, s)) = s
             /\ \A i \in 1..s : PutUint(m, s)[i] = Shifted(m, s - i) % Radix
  <2>1. \A i \in 1..s : Shifted(m, s - i) % Radix \in Byte
    <3> SUFFICES ASSUME NEW i \in 1..s
                 PROVE  Shifted(m, s - i) % Radix \in Byte
      OBVIOUS
    <3>1. s - i \in Nat
      OBVIOUS
    <3>2. Shifted(m, s - i) \in Nat
      BY <3>1, ShiftedNext
    <3> QED BY <3>2, Division
  <2> DEFINE put == [i \in 1..s |-> Shifted(m, s - i) % Radix]
  <2>2. put \in [1..s -> Byte]
    BY <2>1
  <2>3. PutUint(m, s) = put
    BY DEF PutUint
  <2> HIDE DEF put
  <2>4. put \in Seq(Byte) /\ Len(put) = s
    BY <2>2, SequenceOf
  <2> QED BY <2>3, <2>4 DEF put
<1> DEFINE q == n \div Radix
           r == n % Radix
           more == Append(PutUint(q, size), r)
           put == PutUint(n, size + 1)
<1>2. q \in Nat /\ r \in Byte
  BY Division
<1>3. /\ PutUint(q, size) \in Seq(Byte) /\ Len(PutUint(q, size)) = size
      /\ \A i \in 1..size : PutUint(q, size)[i] = Shifted(q, size - i) % Radix
  BY <1>1, <1>2
<1>4. /\ put \in Seq(Byte) /\ Len(put) = size + 1
      /\ \A i \in 1..(size + 1) : put[i] = Shifted(n, (size + 1) - i) % Radix
  BY <1>1
<1>5. /\ more \in Seq(Byte) /\ Len(more) = size + 1
      /\ \A i \in 1..size : more[i] = PutUint(q, size)[i]
      /\ more[size + 1] = r
  BY <1>2, <1>3, AppendProperties
<1>6. ASSUME NEW i \in 1..(size + 1)
      PROVE  put[i] = more[i]
  <2>1. CASE i = size + 1
    <3>1. (size + 1) - i = 0 /\ Shifted(n, 0) = n
      BY <2>1, ShiftedNext
    <3> QED BY <1>4, <1>5, <2>1, <3>1
  <2>2. CASE i \in 1..size
    <3>1. size - i \in Nat /\ (size + 1) - i = (size - i) + 1
      BY <2>2
    <3>2. Shifted(n, (size - i) + 1) = Shifted(q, size - i)
      BY <3>1, ShiftedNext
    <3> QED BY <1>3, <1>4, <1>5, <2>2, <3>1, <3>2
  <2>3. i = size + 1 \/ i \in 1..size
    OBVIOUS
  <2> QED BY <2>1, <2>2, <2>3
<1> HIDE DEF put, more
<1>7. put = more
  BY <1>4, <1>5, <1>6, SeqEqual
<1> QED BY <1>1, <1>7 DEF put, more

\* A field of no bytes has none.
LEMMA PutNothing == PutUint(0, 0) = <<>>
<1>1. PutUint(0, 0) \in Seq(Byte) /\ Len(PutUint(0, 0)) = 0
  BY PutUintDigits
<1> QED BY <1>1, EmptySeq

\* The largest number of a field, digit by digit.
LEMMA LargestDigits ==
    /\ Largest(0) = 0
    /\ \A size \in Nat : /\ Largest(size) \in Nat
                         /\ Largest(size + 1) = Radix * Largest(size) + (Radix - 1)
<1> DEFINE all(size) == [i \in 1..size |-> Radix - 1]
<1>1. Radix - 1 \in Byte
  BY WireAssumption DEF Byte
<1>2. ASSUME NEW size \in Nat
      PROVE  /\ all(size) \in Seq(Byte) /\ Len(all(size)) = size
             /\ \A i \in 1..size : all(size)[i] = Radix - 1
  BY <1>1
<1>3. Largest(0) = 0
  <2>1. all(0) = <<>>
    BY <1>2, EmptySeq
  <2> QED BY <2>1, BigEndianDigits DEF Largest
<1>4. ASSUME NEW size \in Nat
      PROVE  /\ Largest(size) \in Nat
             /\ Largest(size + 1) = Radix * Largest(size) + (Radix - 1)
  <2> DEFINE more == Append(all(size), Radix - 1)
  <2>1. /\ more \in Seq(Byte) /\ Len(more) = size + 1
        /\ \A i \in 1..size : more[i] = Radix - 1
        /\ more[size + 1] = Radix - 1
    BY <1>1, <1>2, AppendProperties
  <2>2. /\ all(size + 1) \in Seq(Byte) /\ Len(all(size + 1)) = size + 1
        /\ \A i \in 1..(size + 1) : all(size + 1)[i] = Radix - 1
    BY <1>2
  <2>3. all(size) \in Seq(Byte)
    BY <1>2
  <2> HIDE DEF more, all
  <2>4. all(size + 1) = more
    <3>1. \A i \in 1..(size + 1) : i \in 1..size \/ i = size + 1
      OBVIOUS
    <3>2. \A i \in 1..Len(all(size + 1)) : all(size + 1)[i] = more[i]
      BY <2>1, <2>2, <3>1
    <3> QED BY <2>1, <2>2, <3>2, SeqEqual
  <2>5. BigEndian(all(size)) \in Nat /\ BigEndian(more) = Radix * BigEndian(all(size)) + (Radix - 1)
    BY <1>1, <2>3, BigEndianDigits DEF more
  <2> QED BY <2>4, <2>5 DEF Largest, all
<1> QED BY <1>3, <1>4

\* Reading what was written gives the number back, if the field can hold it.
LEMMA PutThenRead ==
    ASSUME NEW size \in Nat
    PROVE  \A n \in 0..Largest(size) : BigEndian(PutUint(n, size)) = n
<1> DEFINE Holding == {s \in Nat : \A n \in 0..Largest(s) : BigEndian(PutUint(n, s)) = n}
<1>1. 0 \in Holding
  BY PutNothing, BigEndianDigits, LargestDigits
<1>2. ASSUME NEW s \in Nat, s \in Holding
      PROVE  s + 1 \in Holding
  <2> SUFFICES ASSUME NEW n \in 0..Largest(s + 1)
               PROVE  BigEndian(PutUint(n, s + 1)) = n
    OBVIOUS
  <2> DEFINE q == n \div Radix
             r == n % Radix
  <2>1. /\ Largest(s) \in Nat /\ Largest(s + 1) = Radix * Largest(s) + (Radix - 1)
        /\ Radix \in Nat \ {0}
    BY LargestDigits, WireAssumption
  <2>2. n \in Nat /\ n <= Radix * Largest(s) + (Radix - 1)
    BY <2>1
  <2>3. n = Radix * q + r /\ q \in Nat /\ r \in Byte
    BY <2>2, Division
  <2>4. q <= Largest(s)
    BY <2>1, <2>2, QuotientBound
  <2>5. PutUint(n, s + 1) = Append(PutUint(q, s), r) /\ PutUint(q, s) \in Seq(Byte)
    BY <2>2, <2>3, PutUintDigits
  <2> HIDE DEF q, r
  <2>6. BigEndian(PutUint(q, s)) = q
    BY <1>2, <2>1, <2>3, <2>4
  <2> QED BY <2>3, <2>5, <2>6, BigEndianDigits
<1> HIDE DEF Holding
<1>3. Nat \subseteq Holding
  BY <1>1, <1>2, SetInduction
<1> QED BY <1>3 DEF Holding

\* Writing what was read gives the bytes back.
LEMMA ReadThenPut ==
    ASSUME NEW bytes \in Seq(Byte)
    PROVE  /\ BigEndian(bytes) \in 0..Largest(Len(bytes))
           /\ PutUint(BigEndian(bytes), Len(bytes)) = bytes
<1> DEFINE Fits(b) == /\ BigEndian(b) \in 0..Largest(Len(b))
                      /\ PutUint(BigEndian(b), Len(b)) = b
           Holding == {n \in Nat : \A b \in Seq(Byte) : Len(b) = n => Fits(b)}
<1>1. 0 \in Holding
  <2> SUFFICES ASSUME NEW b \in Seq(Byte), Len(b) = 0
               PROVE  Fits(b)
    OBVIOUS
  <2>1. b = <<>>
    BY EmptySeq
  <2> QED BY <2>1, PutNothing, BigEndianDigits, LargestDigits
<1>2. ASSUME NEW n \in Nat, n \in Holding
      PROVE  n + 1 \in Holding
  <2> SUFFICES ASSUME NEW b \in Seq(Byte), Len(b) = n + 1
               PROVE  Fits(b)
    OBVIOUS
  <2>1. b # <<>>
    BY EmptySeq
  <2>2. PICK front \in Seq(Byte), byte \in Byte : b = Append(front, byte)
    BY <2>1, SequenceEmptyOrAppend
  <2>3. Len(front) = n
    BY <2>2, AppendProperties, LenProperties
  <2>4. Fits(front)
    BY <1>2, <2>3
  <2> DEFINE m == BigEndian(front)
             l == Largest(n)
  <2>5. /\ m \in Nat /\ m <= l /\ l \in Nat /\ Largest(n + 1) = Radix * l + (Radix - 1)
        /\ PutUint(m, n) = front /\ BigEndian(b) = Radix * m + byte
    BY <2>2, <2>3, <2>4, BigEndianDigits, LargestDigits
  <2> HIDE DEF m, l
  <2>6. Radix * m + byte <= Radix * l + (Radix - 1)
    BY <2>5, Digits
  <2>7. (Radix * m + byte) \div Radix = m /\ (Radix * m + byte) % Radix = byte
    BY <2>5, Digits
  <2>8. Radix * m + byte \in Nat
    BY <2>5, Digits
  <2>9. PutUint(Radix * m + byte, n + 1) = Append(front, byte)
    BY <2>5, <2>7, <2>8, PutUintDigits
  <2> QED BY <2>2, <2>5, <2>6, <2>8, <2>9
<1> HIDE DEF Holding
<1>3. Nat \subseteq Holding
  BY <1>1, <1>2, SetInduction
<1> QED BY <1>3, LenProperties DEF Holding

\* So the number that some bytes stand for is the one that is read from them,
LEMMA NumberIsRead ==
    ASSUME NEW bytes \in Seq(Byte)
    PROVE  Number(bytes) = BigEndian(bytes) /\ Number(bytes) \in Nat
<1> DEFINE size == Len(bytes)
<1>1. size \in Nat
  BY LenProperties
<1>2. BigEndian(bytes) \in 0..Largest(size) /\ PutUint(BigEndian(bytes), size) = bytes
  BY ReadThenPut
<1>3. Number(bytes) \in 0..Largest(size) /\ PutUint(Number(bytes), size) = bytes
  BY <1>2 DEF Number
<1> HIDE DEF size
<1>4. BigEndian(PutUint(Number(bytes), size)) = Number(bytes)
  BY <1>1, <1>3, PutThenRead
<1> QED BY <1>1, <1>3, <1>4

\* and the number that was written into them.
LEMMA NumberIsWritten ==
    ASSUME NEW size \in Nat, NEW n \in 0..Largest(size)
    PROVE  /\ PutUint(n, size) \in Seq(Byte) /\ Len(PutUint(n, size)) = size
           /\ Number(PutUint(n, size)) = n
<1>1. n \in Nat
  BY LargestDigits
<1> QED BY <1>1, PutUintDigits, PutThenRead, NumberIsRead

----------------------------------------------------------------------------
(* Parsing *)

Parse == [at : Nat, frames : Seq(Seq(Byte))]
Nothing == [at |-> 0, frames |-> <<>>]

\* The length of the frame that begins at an offset, where it ends, its bytes,
\* and whether it is there and not too long.
Size(bytes, at) == BigEndian(SubSeq(bytes, at + 1, at + LengthSize))
End(bytes, at) == at + LengthSize + Size(bytes, at)
Payload(bytes, at) == SubSeq(bytes, at + LengthSize + 1, End(bytes, at))
Complete(bytes, at) ==
    /\ at + LengthSize <= Len(bytes) /\ Size(bytes, at) <= MaximumFrameSize
    /\ End(bytes, at) <= Len(bytes)
Frames(bytes, parsed) ==
    IF Size(bytes, parsed.at) = 0 THEN parsed.frames
    ELSE Append(parsed.frames, Payload(bytes, parsed.at))

\* A piece of a sequence of bytes.
LEMMA Piece ==
    ASSUME NEW bytes \in Seq(Byte), NEW m \in Nat \ {0}, NEW n \in Nat, n <= Len(bytes), m <= n + 1
    PROVE  /\ SubSeq(bytes, m, n) \in Seq(Byte)
           /\ Len(SubSeq(bytes, m, n)) = (n - m) + 1
           /\ \A i \in 1..((n - m) + 1) : SubSeq(bytes, m, n)[i] = bytes[(m + i) - 1]
<1>1. Len(bytes) \in Nat /\ \A i \in 1..Len(bytes) : bytes[i] \in Byte
  BY LenProperties, ElementOfSeq
<1>2. \A i \in m..n : bytes[i] \in Byte
  BY <1>1
<1>3. /\ SubSeq(bytes, m, n) \in Seq(Byte)
      /\ Len(SubSeq(bytes, m, n)) = IF m <= n THEN (n - m) + 1 ELSE 0
      /\ \A i \in 1..((n - m) + 1) : SubSeq(bytes, m, n)[i] = bytes[(m + i) - 1]
  BY <1>2, SubSeqProperties
<1> QED BY <1>3

\* One turn of the parse: a frame that is complete is passed, and kept if it is
\* not empty; otherwise the parse stays where it is.
LEMMA OneFrame ==
    ASSUME NEW bytes \in Seq(Byte), NEW parsed \in Parse
    PROVE  /\ OneFrameMore(bytes, parsed) =
                  IF Complete(bytes, parsed.at)
                  THEN [at |-> End(bytes, parsed.at), frames |-> Frames(bytes, parsed)]
                  ELSE parsed
           /\ OneFrameMore(bytes, parsed) \in Parse
           /\ Complete(bytes, parsed.at) =>
                  /\ Size(bytes, parsed.at) \in Nat /\ End(bytes, parsed.at) \in Nat
                  /\ Payload(bytes, parsed.at) \in Seq(Byte)
                  /\ Len(Payload(bytes, parsed.at)) = Size(bytes, parsed.at)
<1> DEFINE at == parsed.at
           lengthEnd == at + LengthSize
           field == SubSeq(bytes, at + 1, lengthEnd)
           size == Number(field)
           end == lengthEnd + size
<1>1. /\ at \in Nat /\ LengthSize \in Nat \ {0} /\ lengthEnd \in Nat /\ Len(bytes) \in Nat
      /\ MaximumFrameSize \in Nat /\ parsed.frames \in Seq(Seq(Byte))
  BY WireAssumption, LenProperties DEF Parse
<1>2. OneFrameMore(bytes, parsed) =
        IF Len(bytes) < lengthEnd \/ size > MaximumFrameSize \/ Len(bytes) < end THEN parsed
        ELSE [at |-> end, frames |-> IF size = 0 THEN parsed.frames
                                     ELSE Append(parsed.frames, SubSeq(bytes, lengthEnd + 1, end))]
  BY DEF OneFrameMore
<1>3. CASE Len(bytes) < lengthEnd
  BY <1>1, <1>2, <1>3 DEF Complete
<1>4. CASE ~(Len(bytes) < lengthEnd)
  <2>1. field \in Seq(Byte)
    BY <1>1, <1>4, Piece
  <2>2. size = Size(bytes, at) /\ size \in Nat
    BY <2>1, NumberIsRead DEF Size
  <2> HIDE DEF size, field
  <2>3. end = End(bytes, at) /\ end \in Nat
    BY <1>1, <2>2 DEF End
  <2>4. Complete(bytes, at) <=> ~(size > MaximumFrameSize \/ Len(bytes) < end)
    BY <1>1, <1>4, <2>2, <2>3 DEF Complete
  <2>5. CASE ~Complete(bytes, at)
    BY <1>2, <2>4, <2>5
  <2>6. CASE Complete(bytes, at)
    <3> DEFINE piece == SubSeq(bytes, lengthEnd + 1, end)
    <3>1. end <= Len(bytes) /\ end = lengthEnd + size /\ lengthEnd + 1 <= end + 1
      BY <1>1, <2>2, <2>3, <2>4, <2>6
    <3>2. Payload(bytes, at) = piece
      BY <2>3 DEF Payload
    <3>3. OneFrameMore(bytes, parsed) =
            [at |-> end, frames |-> IF size = 0 THEN parsed.frames ELSE Append(parsed.frames, piece)]
      <4> DEFINE stays == Len(bytes) < lengthEnd \/ size > MaximumFrameSize \/ Len(bytes) < end
      <4>1. ~stays
        BY <1>4, <2>4, <2>6
      <4>2. OneFrameMore(bytes, parsed) =
              IF stays THEN parsed
              ELSE [at |-> end, frames |-> IF size = 0 THEN parsed.frames ELSE Append(parsed.frames, piece)]
        BY <1>2
      <4> HIDE DEF stays, end, piece
      <4> QED BY <4>1, <4>2
    <3>4. lengthEnd + 1 \in Nat \ {0} /\ lengthEnd \in Nat /\ size \in Nat /\ end \in Nat
      BY <1>1, <2>2, <2>3, SMTT(30)
    <3> HIDE DEF end, lengthEnd
    <3>5. piece \in Seq(Byte) /\ Len(piece) = (end - (lengthEnd + 1)) + 1
      BY <3>1, <3>4, Piece
    <3>6. Len(piece) = size
      BY <3>1, <3>4, <3>5
    <3> HIDE DEF piece
    <3>7. Frames(bytes, parsed) = IF size = 0 THEN parsed.frames ELSE Append(parsed.frames, piece)
      BY <2>2, <3>2 DEF Frames
    <3>8. Frames(bytes, parsed) \in Seq(Seq(Byte))
      BY <1>1, <3>5, <3>7, AppendProperties
    <3> QED BY <2>2, <2>3, <2>6, <3>2, <3>3, <3>4, <3>5, <3>6, <3>7, <3>8 DEF Parse
  <2> QED BY <2>5, <2>6
<1> QED BY <1>3, <1>4

\* A parse of n turns is one of a turn less, and a turn more.
ParseStep(bytes) == [p \in Nat \X Parse |-> OneFrameMore(bytes, p[2])]
LEMMA ParsedIterates ==
    ASSUME NEW bytes \in Seq(Byte), NEW n \in Nat
    PROVE  \E at \in [0..n -> Parse] :
               Iterates(Nothing, ParseStep(bytes), n, at) /\ Parsed(bytes, n) = at[n]
<1> DEFINE step == ParseStep(bytes)
<1>1. Nothing \in Parse
  BY EmptySeq DEF Nothing, Parse
<1>2. step \in [Nat \X Parse -> Parse]
  <2>1. \A p \in Nat \X Parse : OneFrameMore(bytes, p[2]) \in Parse
    BY OneFrame
  <2> QED BY <2>1 DEF ParseStep
<1>3. PICK at \in [0..n -> Parse] : Iterates(Nothing, step, n, at)
  <2> HIDE DEF step
  <2> QED BY <1>1, <1>2, IterationExists
<1>4. \A i \in 0..n : at[i] = IF i = 0 THEN Nothing ELSE OneFrameMore(bytes, at[i - 1])
  <2> SUFFICES ASSUME NEW i \in 0..n
               PROVE  at[i] = IF i = 0 THEN Nothing ELSE OneFrameMore(bytes, at[i - 1])
    OBVIOUS
  <2>1. i # 0 => i \in Nat /\ at[i - 1] \in Parse
    OBVIOUS
  <2>2. at[i] = IF i = 0 THEN Nothing ELSE step[<<i, at[i - 1]>>]
    <3> HIDE DEF step
    <3> QED BY <1>3 DEF Iterates
  <2> QED BY <2>1, <2>2 DEF ParseStep
<1> DEFINE Parses(f) == f = [i \in 0..n |-> IF i = 0 THEN Nothing ELSE OneFrameMore(bytes, f[i - 1])]
           parses == CHOOSE f : Parses(f)
<1>5. Parses(at)
  BY <1>4
<1>6. Parses(parses)
  BY <1>5
<1>7. Parsed(bytes, n) = parses[n]
  BY DEF Parsed, Nothing
<1> HIDE DEF parses, step
<1>8. \A i \in 0..n : parses[i] = IF i = 0 THEN Nothing ELSE OneFrameMore(bytes, parses[i - 1])
  BY <1>6
<1> HIDE DEF Parses
<1>9. parses[n] = at[n]
  <2> DEFINE Holding == {i \in Nat : i <= n => parses[i] = at[i]}
  <2>1. 0 \in Holding
    BY <1>4, <1>8
  <2>2. ASSUME NEW i \in Nat, i \in Holding
        PROVE  i + 1 \in Holding
    <3>1. SUFFICES ASSUME i + 1 <= n
                   PROVE  parses[i + 1] = at[i + 1]
      OBVIOUS
    <3>2. parses[i] = at[i] /\ i + 1 \in 0..n /\ i + 1 # 0 /\ (i + 1) - 1 = i
      BY <2>2, <3>1
    <3> QED BY <1>4, <1>8, <3>2
  <2> HIDE DEF Holding
  <2>3. Nat \subseteq Holding
    BY <2>1, <2>2, SetInduction
  <2> QED BY <2>3 DEF Holding
<1> QED BY <1>3, <1>7, <1>9 DEF step

LEMMA ParsedNext ==
    ASSUME NEW bytes \in Seq(Byte), NEW n \in Nat
    PROVE  /\ Parsed(bytes, 0) = Nothing /\ Parsed(bytes, n) \in Parse
           /\ Parsed(bytes, n + 1) = OneFrameMore(bytes, Parsed(bytes, n))
<1> DEFINE step == ParseStep(bytes)
<1>1. Parsed(bytes, 0) = Nothing
  <2>1. PICK at \in [0..0 -> Parse] : Iterates(Nothing, step, 0, at) /\ Parsed(bytes, 0) = at[0]
    BY ParsedIterates
  <2>2. 0 \in 0..0
    OBVIOUS
  <2> QED BY <2>1, <2>2 DEF Iterates
<1>2. PICK at \in [0..n -> Parse] : Iterates(Nothing, step, n, at) /\ Parsed(bytes, n) = at[n]
  BY ParsedIterates
<1>3. n + 1 \in Nat
  OBVIOUS
<1>4. PICK bt \in [0..(n + 1) -> Parse] :
        Iterates(Nothing, step, n + 1, bt) /\ Parsed(bytes, n + 1) = bt[n + 1]
  BY <1>3, ParsedIterates
<1> HIDE DEF step
<1>5. Iterates(Nothing, step, n, bt)
  <2>1. \A i \in 0..n : i \in 0..(n + 1)
    OBVIOUS
  <2> QED BY <1>4, <2>1 DEF Iterates
<1>6. bt[n] = at[n] /\ at[n] \in Parse
  BY <1>2, <1>5, IterationUnique
<1>7. bt[n + 1] = step[<<n + 1, bt[n]>>]
  <2>1. n + 1 \in 0..(n + 1) /\ n + 1 # 0 /\ (n + 1) - 1 = n
    OBVIOUS
  <2> QED BY <1>4, <2>1 DEF Iterates
<1>8. step[<<n + 1, bt[n]>>] = OneFrameMore(bytes, bt[n])
  BY <1>6 DEF step, ParseStep
<1> QED BY <1>1, <1>2, <1>4, <1>6, <1>7, <1>8


\* The parse never passes the end, nor does it yield more frames than it has
\* turns or bytes; a frame it yields is not empty.
LEMMA ParsedAdvances ==
    ASSUME NEW bytes \in Seq(Byte)
    PROVE  \A n \in Nat :
               LET p == Parsed(bytes, n) IN
               /\ p \in Parse /\ p.at <= Len(bytes)
               /\ Len(p.frames) <= n /\ Len(p.frames) <= p.at
               /\ \A i \in 1..Len(p.frames) : p.frames[i] \in Seq(Byte) /\ Len(p.frames[i]) >= 1
<1> DEFINE Good(p, n) == /\ p \in Parse /\ p.at <= Len(bytes)
                         /\ Len(p.frames) <= n /\ Len(p.frames) <= p.at
                         /\ \A i \in 1..Len(p.frames) :
                                p.frames[i] \in Seq(Byte) /\ Len(p.frames[i]) >= 1
           Holding == {n \in Nat : Good(Parsed(bytes, n), n)}
<1>1. Len(bytes) \in Nat /\ LengthSize \in Nat \ {0}
  BY LenProperties, WireAssumption
<1>2. 0 \in Holding
  <2>1. Parsed(bytes, 0) = Nothing /\ Nothing \in Parse
    BY ParsedNext
  <2>2. Nothing.at = 0 /\ Nothing.frames = <<>> /\ Len(<<>>) = 0
    BY DEF Nothing
  <2> QED BY <1>1, <2>1, <2>2
<1>3. ASSUME NEW n \in Nat, n \in Holding
      PROVE  n + 1 \in Holding
  <2> DEFINE p == Parsed(bytes, n)
             next == OneFrameMore(bytes, p)
  <2>1. Good(p, n) /\ Parsed(bytes, n + 1) = next
    BY <1>3, ParsedNext
  <2> HIDE DEF p
  <2>2. p.at \in Nat /\ p.frames \in Seq(Seq(Byte)) /\ Len(p.frames) \in Nat
    BY <2>1, LenProperties DEF Parse
  <2>3. next \in Parse
    BY <2>1, OneFrame
  <2>4. CASE ~Complete(bytes, p.at)
    <3>1. next = p
      BY <2>1, <2>4, OneFrame
    <3>2. Good(p, n + 1)
      BY <2>1, <2>2
    <3> QED BY <2>1, <3>1, <3>2
  <2>5. CASE Complete(bytes, p.at)
    <3> DEFINE size == Size(bytes, p.at)
               end == End(bytes, p.at)
               payload == Payload(bytes, p.at)
               frames == Frames(bytes, p)
    <3>1. /\ size \in Nat /\ end \in Nat /\ payload \in Seq(Byte) /\ Len(payload) = size
          /\ next = [at |-> end, frames |-> frames]
      BY <2>1, <2>5, OneFrame
    <3>2. end = p.at + LengthSize + size /\ end <= Len(bytes)
      BY <2>5 DEF End, Complete
    <3>3. frames = IF size = 0 THEN p.frames ELSE Append(p.frames, payload)
      BY DEF Frames
    <3> HIDE DEF size, end, payload, frames
    <3>4. Len(frames) <= n + 1 /\ Len(frames) <= end
      <4>1. Len(frames) \in {Len(p.frames), Len(p.frames) + 1}
        BY <2>2, <3>1, <3>3, AppendProperties
      <4> QED BY <1>1, <2>1, <2>2, <3>1, <3>2, <4>1
    <3>5. \A i \in 1..Len(frames) : frames[i] \in Seq(Byte) /\ Len(frames[i]) >= 1
      <4>1. CASE size = 0
        BY <2>1, <3>3, <4>1
      <4>2. CASE size # 0
        <5>1. /\ Len(frames) = Len(p.frames) + 1 /\ frames[Len(p.frames) + 1] = payload
              /\ \A i \in 1..Len(p.frames) : frames[i] = p.frames[i]
          BY <2>2, <3>1, <3>3, <4>2, AppendProperties
        <5>2. \A i \in 1..(Len(p.frames) + 1) : i \in 1..Len(p.frames) \/ i = Len(p.frames) + 1
          BY <2>2
        <5>3. Len(payload) >= 1
          BY <3>1, <4>2
        <5> QED BY <2>1, <3>1, <5>1, <5>2, <5>3
      <4> QED BY <4>1, <4>2
    <3>6. next.at = end /\ next.frames = frames
      BY <3>1
    <3> HIDE DEF next
    <3>7. Good(next, n + 1)
      BY <2>3, <3>2, <3>4, <3>5, <3>6
    <3> HIDE DEF Good
    <3>8. n + 1 \in Nat
      OBVIOUS
    <3> QED BY <2>1, <3>7, <3>8
  <2> QED BY <2>4, <2>5
<1> HIDE DEF Holding
<1>4. Nat \subseteq Holding
  BY <1>2, <1>3, SetInduction
<1> QED BY <1>4 DEF Holding

\* More turns of the parse keep the frames there are.
LEMMA ParsedGrows ==
    ASSUME NEW bytes \in Seq(Byte), NEW n \in Nat, NEW m \in Nat, n <= m
    PROVE  /\ Len(Parsed(bytes, n).frames) <= Len(Parsed(bytes, m).frames)
           /\ \A i \in 1..Len(Parsed(bytes, n).frames) :
                  Parsed(bytes, m).frames[i] = Parsed(bytes, n).frames[i]
<1> DEFINE old == Parsed(bytes, n).frames
           new(j) == Parsed(bytes, n + j).frames
           Holding == {j \in Nat : /\ Len(old) <= Len(new(j))
                                   /\ \A i \in 1..Len(old) : new(j)[i] = old[i]}
<1>1. old \in Seq(Seq(Byte)) /\ Len(old) \in Nat
  BY ParsedNext, LenProperties DEF Parse
<1>2. 0 \in Holding
  <2>1. n + 0 = n
    OBVIOUS
  <2> QED BY <1>1, <2>1
<1>3. ASSUME NEW j \in Nat, j \in Holding
      PROVE  j + 1 \in Holding
  <2> DEFINE p == Parsed(bytes, n + j)
             next == OneFrameMore(bytes, p)
  <2>1. n + j \in Nat /\ n + (j + 1) = (n + j) + 1
    OBVIOUS
  <2>2. p \in Parse /\ Parsed(bytes, n + (j + 1)) = next
    BY <2>1, ParsedNext
  <2>3. /\ Len(old) <= Len(p.frames)
        /\ \A i \in 1..Len(old) : p.frames[i] = old[i]
    BY <1>3
  <2> HIDE DEF old, p
  <2>4. p.frames \in Seq(Seq(Byte)) /\ Len(p.frames) \in Nat
    BY <2>2, LenProperties DEF Parse
  <2>5. /\ Len(p.frames) <= Len(next.frames)
        /\ \A i \in 1..Len(p.frames) : next.frames[i] = p.frames[i]
    <3>1. CASE ~Complete(bytes, p.at)
      <4>1. next = p
        BY <2>2, <3>1, OneFrame
      <4> QED BY <2>4, <4>1
    <3>2. CASE Complete(bytes, p.at)
      <4>1. Payload(bytes, p.at) \in Seq(Byte) /\ next.frames = Frames(bytes, p)
        BY <2>2, <3>2, OneFrame
      <4>2. next.frames = p.frames \/ next.frames = Append(p.frames, Payload(bytes, p.at))
        BY <4>1 DEF Frames
      <4> HIDE DEF next
      <4> QED BY <2>4, <4>1, <4>2, AppendProperties
    <3> QED BY <3>1, <3>2
  <2> HIDE DEF next
  <2>6. Len(next.frames) \in Nat
    <3>1. next \in Parse
      BY <2>2, OneFrame DEF next
    <3> QED BY <3>1, LenProperties DEF Parse
  <2>7. Len(old) <= Len(next.frames) /\ \A i \in 1..Len(old) : next.frames[i] = old[i]
    BY <1>1, <2>3, <2>4, <2>5, <2>6
  <2> QED BY <2>2, <2>7
<1> HIDE DEF Holding
<1>4. Nat \subseteq Holding
  BY <1>2, <1>3, SetInduction
<1>5. m - n \in Nat /\ n + (m - n) = m
  OBVIOUS
<1>6. m - n \in Holding
  BY <1>4, <1>5
<1> QED BY <1>5, <1>6 DEF Holding

\* A parse that has reached the end stays there.
LEMMA ParsedEnds ==
    ASSUME NEW bytes \in Seq(Byte), NEW n \in Nat, Parsed(bytes, n).at = Len(bytes),
           NEW m \in Nat, n <= m
    PROVE  Parsed(bytes, m) = Parsed(bytes, n)
<1> DEFINE p == Parsed(bytes, n)
           Holding == {j \in Nat : Parsed(bytes, n + j) = p}
<1>1. 0 \in Holding
  OBVIOUS
<1>2. ASSUME NEW j \in Nat, j \in Holding
      PROVE  j + 1 \in Holding
  <2>1. n + j \in Nat /\ n + (j + 1) = (n + j) + 1
    OBVIOUS
  <2>2. p \in Parse /\ Parsed(bytes, n + (j + 1)) = OneFrameMore(bytes, p)
    BY <1>2, <2>1, ParsedNext
  <2>3. ~Complete(bytes, p.at)
    BY LenProperties, WireAssumption DEF Complete
  <2> HIDE DEF p
  <2>4. OneFrameMore(bytes, p) = p
    BY <2>2, <2>3, OneFrame
  <2> QED BY <2>2, <2>4
<1> HIDE DEF Holding
<1>3. Nat \subseteq Holding
  BY <1>1, <1>2, SetInduction
<1>4. m - n \in Nat /\ n + (m - n) = m
  OBVIOUS
<1>5. m - n \in Holding
  BY <1>3, <1>4
<1> QED BY <1>4, <1>5 DEF Holding

\* What the front of a concatenation holds, and what its rest does.
LEMMA PieceOfFront ==
    ASSUME NEW bytes \in Seq(Byte), NEW more \in Seq(Byte),
           NEW m \in Nat \ {0}, NEW n \in Nat, n <= Len(bytes), m <= n + 1
    PROVE  SubSeq(bytes \o more, m, n) = SubSeq(bytes, m, n)
<1>1. /\ bytes \o more \in Seq(Byte) /\ Len(bytes \o more) = Len(bytes) + Len(more)
      /\ Len(bytes) \in Nat /\ Len(more) \in Nat
      /\ \A i \in 1..Len(bytes) : (bytes \o more)[i] = bytes[i]
  BY ConcatProperties, LenProperties
<1> DEFINE long == bytes \o more
           size == (n - m) + 1
<1> HIDE DEF long
<1>2. n <= Len(long)
  BY <1>1 DEF long
<1>3. /\ SubSeq(long, m, n) \in Seq(Byte) /\ Len(SubSeq(long, m, n)) = size
      /\ \A i \in 1..size : SubSeq(long, m, n)[i] = long[(m + i) - 1]
  BY <1>1, <1>2, Piece DEF long
<1>4. /\ SubSeq(bytes, m, n) \in Seq(Byte) /\ Len(SubSeq(bytes, m, n)) = size
      /\ \A i \in 1..size : SubSeq(bytes, m, n)[i] = bytes[(m + i) - 1]
  BY Piece
<1>5. \A i \in 1..size : (m + i) - 1 \in 1..Len(bytes)
  BY <1>1
<1>6. \A i \in 1..size : long[(m + i) - 1] = bytes[(m + i) - 1]
  BY <1>1, <1>5 DEF long
<1> HIDE DEF size
<1>7. \A i \in 1..Len(SubSeq(long, m, n)) : SubSeq(long, m, n)[i] = SubSeq(bytes, m, n)[i]
  BY <1>3, <1>4, <1>6
<1>8. SubSeq(long, m, n) = SubSeq(bytes, m, n)
  BY <1>3, <1>4, <1>7, SeqEqual
<1> QED BY <1>8 DEF long

LEMMA PieceOfRest ==
    ASSUME NEW bytes \in Seq(Byte), NEW more \in Seq(Byte),
           NEW m \in Nat \ {0}, NEW n \in Nat, n <= Len(more), m <= n + 1
    PROVE  SubSeq(bytes \o more, Len(bytes) + m, Len(bytes) + n) = SubSeq(more, m, n)
<1> DEFINE long == bytes \o more
           size == (n - m) + 1
           mm == Len(bytes) + m
           nn == Len(bytes) + n
<1>1. /\ bytes \o more \in Seq(Byte) /\ Len(bytes \o more) = Len(bytes) + Len(more)
      /\ Len(bytes) \in Nat /\ Len(more) \in Nat
      /\ \A i \in (Len(bytes) + 1)..(Len(bytes) + Len(more)) :
             (bytes \o more)[i] = more[i - Len(bytes)]
  BY ConcatProperties, LenProperties
<1> HIDE DEF long
<1>2. nn <= Len(long) /\ mm \in Nat \ {0} /\ nn \in Nat /\ mm <= nn + 1 /\ (nn - mm) + 1 = size
  BY <1>1 DEF long
<1> HIDE DEF mm, nn
<1>3. /\ SubSeq(long, mm, nn) \in Seq(Byte) /\ Len(SubSeq(long, mm, nn)) = size
      /\ \A i \in 1..size : SubSeq(long, mm, nn)[i] = long[(mm + i) - 1]
  <2> HIDE DEF size
  <2> QED BY <1>1, <1>2, Piece DEF long
<1>4. /\ SubSeq(more, m, n) \in Seq(Byte) /\ Len(SubSeq(more, m, n)) = size
      /\ \A i \in 1..size : SubSeq(more, m, n)[i] = more[(m + i) - 1]
  BY Piece
<1>5. \A i \in 1..size : /\ (mm + i) - 1 \in (Len(bytes) + 1)..(Len(bytes) + Len(more))
                         /\ ((mm + i) - 1) - Len(bytes) = (m + i) - 1
  BY <1>1 DEF mm
<1>6. \A i \in 1..size : long[(mm + i) - 1] = more[(m + i) - 1]
  <2> HIDE DEF size
  <2> QED BY <1>1, <1>5 DEF long
<1> HIDE DEF size
<1>7. \A i \in 1..Len(SubSeq(long, mm, nn)) : SubSeq(long, mm, nn)[i] = SubSeq(more, m, n)[i]
  BY <1>3, <1>4, <1>6
<1>8. SubSeq(long, mm, nn) = SubSeq(more, m, n)
  BY <1>3, <1>4, <1>7, SeqEqual
<1> QED BY <1>8 DEF long, mm, nn

\* A frame that is complete stays what it is when more bytes follow.
LEMMA CompleteKept ==
    ASSUME NEW bytes \in Seq(Byte), NEW more \in Seq(Byte), NEW at \in Nat, Complete(bytes, at)
    PROVE  /\ Complete(bytes \o more, at) /\ Size(bytes \o more, at) = Size(bytes, at)
           /\ End(bytes \o more, at) = End(bytes, at)
           /\ Payload(bytes \o more, at) = Payload(bytes, at)
<1> DEFINE long == bytes \o more
           lengthEnd == at + LengthSize
           end == End(bytes, at)
<1>1. /\ LengthSize \in Nat \ {0} /\ Len(bytes) \in Nat /\ Len(more) \in Nat
      /\ Len(long) = Len(bytes) + Len(more)
  BY WireAssumption, LenProperties, ConcatProperties
<1>2. lengthEnd <= Len(bytes) /\ end <= Len(bytes) /\ lengthEnd \in Nat
  BY <1>1 DEF Complete
<1>3. Size(bytes, at) \in Nat /\ end \in Nat /\ end = lengthEnd + Size(bytes, at)
  <2> DEFINE parsed == [at |-> at, frames |-> <<>>]
  <2>1. parsed \in Parse /\ parsed.at = at
    BY EmptySeq DEF Parse
  <2> HIDE DEF parsed
  <2> QED BY <2>1, OneFrame DEF End
<1>4. SubSeq(long, at + 1, lengthEnd) = SubSeq(bytes, at + 1, lengthEnd)
  <2>1. at + 1 \in Nat \ {0} /\ at + 1 <= lengthEnd + 1
    BY <1>1
  <2> HIDE DEF lengthEnd
  <2> QED BY <1>2, <2>1, PieceOfFront
<1>5. Size(long, at) = Size(bytes, at) /\ End(long, at) = end
  BY <1>4 DEF Size, End
<1>6. SubSeq(long, lengthEnd + 1, end) = SubSeq(bytes, lengthEnd + 1, end)
  <2>1. lengthEnd + 1 \in Nat \ {0} /\ lengthEnd + 1 <= end + 1
    BY <1>2, <1>3
  <2> HIDE DEF lengthEnd, end
  <2> QED BY <1>2, <1>3, <2>1, PieceOfFront
<1>7. Payload(long, at) = Payload(bytes, at)
  BY <1>5, <1>6 DEF Payload
<1>8. Complete(long, at)
  <2>1. Size(bytes, at) <= MaximumFrameSize
    BY DEF Complete
  <2>2. lengthEnd <= Len(long) /\ end <= Len(long)
    BY <1>1, <1>2, <1>3
  <2> QED BY <1>5, <2>1, <2>2 DEF Complete
<1> QED BY <1>5, <1>7, <1>8

\* If each turn of a parse yields a frame, then so it does when more follows.
LEMMA ParsedKept ==
    ASSUME NEW bytes \in Seq(Byte), NEW more \in Seq(Byte)
    PROVE  \A n \in Nat : Len(Parsed(bytes, n).frames) = n =>
               Parsed(bytes \o more, n) = Parsed(bytes, n)
<1> DEFINE long == bytes \o more
           Holding == {n \in Nat : Len(Parsed(bytes, n).frames) = n =>
                                       Parsed(long, n) = Parsed(bytes, n)}
<1>1. long \in Seq(Byte)
  BY ConcatProperties
<1> HIDE DEF long
<1>2. 0 \in Holding
  BY <1>1, ParsedNext
<1>3. ASSUME NEW n \in Nat, n \in Holding
      PROVE  n + 1 \in Holding
  <2> DEFINE p == Parsed(bytes, n)
             next == OneFrameMore(bytes, p)
  <2>1. /\ p \in Parse /\ Len(p.frames) <= n /\ Parsed(bytes, n + 1) = next
        /\ p.at \in Nat /\ p.frames \in Seq(Seq(Byte)) /\ Len(p.frames) \in Nat
    BY ParsedAdvances, ParsedNext, LenProperties DEF Parse
  <2>2. SUFFICES ASSUME Len(next.frames) = n + 1
                 PROVE  Parsed(long, n + 1) = next
    BY <2>1
  <2>3. Len(p.frames) = n => Parsed(long, n) = p
    BY <1>3
  <2> HIDE DEF p
  <2>4. Complete(bytes, p.at)
    <3>1. SUFFICES ASSUME ~Complete(bytes, p.at)
                   PROVE  FALSE
      OBVIOUS
    <3>2. next = p
      BY <2>1, <3>1, OneFrame
    <3> HIDE DEF next
    <3> QED BY <2>1, <2>2, <3>2
  <2>5. /\ Payload(bytes, p.at) \in Seq(Byte)
        /\ next = [at |-> End(bytes, p.at), frames |-> Frames(bytes, p)]
    BY <2>1, <2>4, OneFrame
  <2>6. Len(p.frames) = n
    <3>1. next.frames = Frames(bytes, p)
      BY <2>5
    <3>2. next.frames = p.frames \/ next.frames = Append(p.frames, Payload(bytes, p.at))
      BY <3>1 DEF Frames
    <3> HIDE DEF next
    <3>3. Len(next.frames) = Len(p.frames) \/ Len(next.frames) = Len(p.frames) + 1
      BY <2>1, <2>5, <3>2, AppendProperties
    <3> QED BY <2>1, <2>2, <3>3
  <2>7. Parsed(long, n) = p /\ Parsed(long, n + 1) = OneFrameMore(long, p)
    BY <1>1, <2>3, <2>6, ParsedNext
  <2>8. /\ Complete(long, p.at) /\ Size(long, p.at) = Size(bytes, p.at)
        /\ End(long, p.at) = End(bytes, p.at) /\ Payload(long, p.at) = Payload(bytes, p.at)
    BY <2>1, <2>4, CompleteKept DEF long
  <2>9. Frames(long, p) = Frames(bytes, p)
    BY <2>8 DEF Frames
  <2>10. OneFrameMore(long, p) = [at |-> End(long, p.at), frames |-> Frames(long, p)]
    BY <1>1, <2>1, <2>8, OneFrame
  <2> QED BY <2>5, <2>7, <2>8, <2>9, <2>10
<1> HIDE DEF Holding
<1>4. Nat \subseteq Holding
  BY <1>2, <1>3, SetInduction
<1> QED BY <1>4 DEF Holding, long

----------------------------------------------------------------------------
(* Answers *)

\* A frame is answered as the message that it is says.
LEMMA DispatchCode ==
    ASSUME NEW frame \in Seq(Byte), Len(frame) >= 1
    PROVE  Dispatch(frame) = CodeOf(frame) /\ Dispatch(frame) \in ErrorCode
<1> DEFINE payload == Tail(frame)
           at == TokenLengthAt + TokenLengthSize
           tokenAt == 1 + TokenLengthAt + TokenLengthSize
           ours == SubSeq(payload, TokenLengthAt + 1, at)
           theirs == SubSeq(frame, 2 + TokenLengthAt, tokenAt)
<1>1. frame # <<>> /\ Len(frame) \in Nat
  BY EmptySeq, LenProperties
<1>2. /\ payload \in Seq(Byte) /\ Len(payload) = Len(frame) - 1
      /\ \A i \in 1..Len(payload) : payload[i] = frame[i + 1]
  BY <1>1, HeadTailProperties
<1>3. TokenLengthAt \in Nat /\ TokenLengthSize \in Nat
  BY WireAssumption
<1>4. Dispatch(frame) \in ErrorCode
  <2> HIDE DEF payload
  <2> QED BY DEF Dispatch, handleHandshake, ErrorCode
<1>5. CASE frame[1] # MessageTypeHandshake
  BY <1>4, <1>5 DEF Dispatch, CodeOf
<1>6. CASE frame[1] = MessageTypeHandshake
  <2>1. Dispatch(frame) = IF Len(payload) < at THEN ErrInvalidHandshakePayload
                          ELSE IF Len(payload) < at + BigEndian(ours) THEN ErrHandshakeTokenTruncated
                          ELSE ErrHandshakeNotImplemented
    BY <1>6 DEF Dispatch, handleHandshake, TokenTruncated
  <2>2. CodeOf(frame) = IF Len(frame) < tokenAt THEN ErrInvalidHandshakePayload
                        ELSE IF tokenAt + Number(theirs) <= Len(frame)
                        THEN ErrHandshakeNotImplemented ELSE ErrHandshakeTokenTruncated
    BY <1>6 DEF CodeOf
  <2>3. Len(payload) < at <=> Len(frame) < tokenAt
    BY <1>1, <1>2, <1>3
  <2>4. CASE Len(frame) < tokenAt
    <3> HIDE DEF payload, ours, at, theirs, tokenAt
    <3> QED BY <1>4, <2>1, <2>2, <2>3, <2>4
  <2>5. CASE ~(Len(frame) < tokenAt)
    <3>1. /\ ours \in Seq(Byte) /\ Len(ours) = TokenLengthSize
          /\ \A i \in 1..TokenLengthSize : ours[i] = payload[(TokenLengthAt + 1 + i) - 1]
      <4>1. /\ TokenLengthAt + 1 \in Nat \ {0} /\ at \in Nat /\ at <= Len(payload)
            /\ TokenLengthAt + 1 <= at + 1 /\ (at - (TokenLengthAt + 1)) + 1 = TokenLengthSize
        BY <1>1, <1>2, <1>3, <2>5
      <4> HIDE DEF payload, at
      <4> QED BY <1>2, <4>1, Piece
    <3>2. /\ theirs \in Seq(Byte) /\ Len(theirs) = TokenLengthSize
          /\ \A i \in 1..TokenLengthSize : theirs[i] = frame[(2 + TokenLengthAt + i) - 1]
      <4>1. /\ 2 + TokenLengthAt \in Nat \ {0} /\ tokenAt \in Nat /\ tokenAt <= Len(frame)
            /\ 2 + TokenLengthAt <= tokenAt + 1 /\ (tokenAt - (2 + TokenLengthAt)) + 1 = TokenLengthSize
        BY <1>1, <1>3, <2>5
      <4> HIDE DEF tokenAt
      <4> QED BY <4>1, Piece
    <3>3. ASSUME NEW i \in 1..TokenLengthSize
          PROVE  ours[i] = theirs[i]
      <4> DEFINE j == (TokenLengthAt + 1 + i) - 1
      <4>1. j \in 1..Len(payload) /\ j + 1 = (2 + TokenLengthAt + i) - 1
        BY <1>1, <1>2, <1>3, <2>5
      <4>2. payload[j] = frame[j + 1]
        BY <1>2, <4>1
      <4>3. ours[i] = payload[j] /\ theirs[i] = frame[j + 1]
        <5> HIDE DEF ours, theirs, payload
        <5> QED BY <3>1, <3>2, <4>1
      <4> QED BY <4>2, <4>3
    <3> HIDE DEF ours, theirs
    <3>4. ours = theirs
      BY <3>1, <3>2, <3>3, SeqEqual
    <3>5. BigEndian(ours) = Number(theirs) /\ Number(theirs) \in Nat
      BY <3>2, <3>4, NumberIsRead
    <3>6. Len(payload) < at + BigEndian(ours) <=> ~(tokenAt + Number(theirs) <= Len(frame))
      BY <1>1, <1>2, <1>3, <3>5
    <3> HIDE DEF payload, at, tokenAt
    <3> QED BY <1>4, <2>1, <2>2, <2>3, <2>5, <3>6
  <2> QED BY <2>4, <2>5
<1> QED BY <1>5, <1>6

\* Putting bytes after bytes.
LEMMA Joining ==
    ASSUME NEW a \in Seq(Byte), NEW b \in Seq(Byte)
    PROVE  /\ a \o b \in Seq(Byte) /\ Len(a \o b) = Len(a) + Len(b)
           /\ \A i \in 1..Len(a) : (a \o b)[i] = a[i]
           /\ \A i \in 1..Len(b) : (a \o b)[Len(a) + i] = b[i]
           /\ \A c \in Seq(Byte) : (a \o b) \o c = a \o (b \o c)
<1>1. /\ a \o b \in Seq(Byte) /\ Len(a \o b) = Len(a) + Len(b)
      /\ \A i \in 1..(Len(a) + Len(b)) :
             (a \o b)[i] = IF i <= Len(a) THEN a[i] ELSE b[i - Len(a)]
  BY ConcatProperties
<1>2. Len(a) \in Nat /\ Len(b) \in Nat
  BY LenProperties
<1>3. \A c \in Seq(Byte) : (a \o b) \o c = a \o (b \o c)
  BY ConcatAssociative
<1> DEFINE ab == a \o b
<1> HIDE DEF ab
<1>4. \A i \in 1..Len(a) : ab[i] = a[i]
  BY <1>1, <1>2 DEF ab
<1>5. ASSUME NEW i \in 1..Len(b)
      PROVE  ab[Len(a) + i] = b[i]
  <2>1. /\ Len(a) + i \in 1..(Len(a) + Len(b)) /\ ~(Len(a) + i <= Len(a))
        /\ (Len(a) + i) - Len(a) = i
    BY <1>2
  <2>2. ab[Len(a) + i] = IF Len(a) + i <= Len(a) THEN a[Len(a) + i] ELSE b[(Len(a) + i) - Len(a)]
    BY <1>1, <2>1, Zenon DEF ab
  <2> QED BY <2>1, <2>2
<1> QED BY <1>1, <1>3, <1>4, <1>5 DEF ab

\* Three pieces joined are the same bytes, whichever two are joined first.
LEMMA Regrouped ==
    ASSUME NEW a \in Seq(Byte), NEW b \in Seq(Byte), NEW c \in Seq(Byte)
    PROVE  (a \o b) \o c = a \o (b \o c)
BY ConcatAssociative

\* An Error frame is its length and, as long as that says, its type, its code
\* and the rest.
LEMMA ErrorFrame ==
    ASSUME NEW code \in ErrorCode
    PROVE  LET e == sendError(code)
               total == TotalLength(TextLength[code])
           IN  /\ e \in Seq(Byte) /\ total \in Nat /\ total >= 1 /\ total <= MaximumFrameSize
               /\ Len(e) = LengthSize + total
               /\ Number(SubSeq(e, 1, LengthSize)) = total
               /\ e[LengthSize + 1] = MessageTypeError
               /\ LengthSize + 1 + CodeSize <= Len(e)
               /\ Number(SubSeq(e, LengthSize + 2, LengthSize + 1 + CodeSize)) = code
<1> DEFINE text == TextLength[code]
           total == TotalLength(text)
           e1 == PutUint(total, LengthSize)
           e2 == <<MessageTypeError>>
           e3 == PutUint(code, CodeSize)
           e4 == PutUint(text, CodeSize)
           e5 == [i \in 1..text |-> 0]
           e == sendError(code)
<1>1. /\ code \in 0..Largest(CodeSize) /\ text \in 0..Largest(CodeSize)
      /\ total <= MaximumFrameSize /\ total <= Largest(LengthSize)
  BY ErrorAssumption
<1>2. /\ LengthSize \in Nat \ {0} /\ CodeSize \in Nat /\ MaximumFrameSize \in Nat
      /\ MessageTypeError \in Byte /\ Radix \in Nat \ {0}
      /\ Largest(CodeSize) \in Nat /\ Largest(LengthSize) \in Nat
  BY WireAssumption, LargestDigits
<1>3. text \in Nat /\ total = 1 + CodeSize + CodeSize + text
  BY <1>1, <1>2 DEF TotalLength
<1> HIDE DEF text
<1>4. total \in Nat /\ total >= 1 /\ total \in 0..Largest(LengthSize)
  BY <1>1, <1>2, <1>3
<1> HIDE DEF total
<1>5. e = (((e1 \o e2) \o e3) \o e4) \o e5
  BY DEF sendError, text, total
<1>6. e1 \in Seq(Byte) /\ Len(e1) = LengthSize /\ Number(e1) = total
  BY <1>2, <1>4, NumberIsWritten
<1>7. e2 \in Seq(Byte) /\ Len(e2) = 1 /\ e2[1] = MessageTypeError
  BY <1>2
<1>8. e3 \in Seq(Byte) /\ Len(e3) = CodeSize /\ Number(e3) = code
  BY <1>1, <1>2, NumberIsWritten
<1>9. e4 \in Seq(Byte) /\ Len(e4) = CodeSize
  BY <1>1, <1>2, NumberIsWritten
<1>10. e5 \in Seq(Byte) /\ Len(e5) = text
  <2>1. 0 \in Byte
    BY <1>2 DEF Byte
  <2> QED BY <1>3, <2>1
<1> HIDE DEF e1, e2, e3, e4, e5
<1> DEFINE f2 == e1 \o e2
           f3 == f2 \o e3
           f4 == f3 \o e4
<1>11. f2 \in Seq(Byte) /\ Len(f2) = LengthSize + 1 /\ f2[LengthSize + 1] = MessageTypeError
  <2>1. /\ f2 \in Seq(Byte) /\ Len(f2) = Len(e1) + Len(e2)
        /\ \A i \in 1..Len(e2) : f2[Len(e1) + i] = e2[i]
    BY <1>6, <1>7, Joining
  <2>2. 1 \in 1..Len(e2)
    BY <1>7
  <2> HIDE DEF f2
  <2> QED BY <1>6, <1>7, <2>1, <2>2
<1> HIDE DEF f2
<1>12. f3 \in Seq(Byte) /\ Len(f3) = LengthSize + 1 + CodeSize
  BY <1>2, <1>8, <1>11, ConcatProperties
<1> HIDE DEF f3
<1>13. f4 \in Seq(Byte) /\ Len(f4) = LengthSize + 1 + CodeSize + CodeSize
  BY <1>2, <1>9, <1>12, ConcatProperties
<1> HIDE DEF f4
<1>14. e = f4 \o e5
  BY <1>5 DEF f4, f3, f2
<1>15. e \in Seq(Byte) /\ Len(e) = LengthSize + total
  <2>1. f4 \o e5 \in Seq(Byte) /\ Len(f4 \o e5) = Len(f4) + Len(e5)
    BY <1>10, <1>13, ConcatProperties
  <2> HIDE DEF e
  <2> QED BY <1>2, <1>3, <1>10, <1>13, <1>14, <2>1
<1> HIDE DEF e
\* The same bytes, cut after the length and after the code.
<1> DEFINE rest3 == e4 \o e5
           rest2 == e3 \o rest3
           rest1 == e2 \o rest2
<1>16. rest3 \in Seq(Byte) /\ rest2 \in Seq(Byte) /\ rest1 \in Seq(Byte)
  <2>1. rest3 \in Seq(Byte)
    BY <1>9, <1>10, ConcatProperties
  <2> HIDE DEF rest3
  <2>2. rest2 \in Seq(Byte)
    BY <1>8, <2>1, ConcatProperties
  <2> HIDE DEF rest2
  <2>3. rest1 \in Seq(Byte)
    BY <1>7, <2>2, ConcatProperties
  <2> QED BY <2>1, <2>2, <2>3
<1>17. e = f3 \o rest3 /\ e = f2 \o rest2 /\ e = e1 \o rest1
  <2>1. e = f3 \o rest3
    <3>1. (f3 \o e4) \o e5 = f3 \o (e4 \o e5)
      BY <1>9, <1>10, <1>12, Regrouped, ZenonT(30)
    <3> QED BY <1>14, <3>1, Zenon DEF f4
  <2> HIDE DEF rest3
  <2>2. e = f2 \o rest2
    <3>1. (f2 \o e3) \o rest3 = f2 \o (e3 \o rest3)
      BY <1>8, <1>11, <1>16, Regrouped, ZenonT(30)
    <3> QED BY <2>1, <3>1 DEF f3
  <2> HIDE DEF rest2
  <2>3. e = e1 \o rest1
    <3>1. (e1 \o e2) \o rest2 = e1 \o (e2 \o rest2)
      BY <1>6, <1>7, <1>16, Regrouped, ZenonT(30)
    <3> QED BY <2>2, <3>1 DEF f2
  <2> QED BY <2>1, <2>2, <2>3 DEF rest2, rest3
<1> HIDE DEF rest1, rest2, rest3
<1>18. Number(SubSeq(e, 1, LengthSize)) = total
  <2>1. SubSeq(e1 \o rest1, 1, LengthSize) = SubSeq(e1, 1, LengthSize)
    BY <1>2, <1>6, <1>16, PieceOfFront
  <2>2. SubSeq(e1, 1, LengthSize) = e1
    BY <1>6, SubSeqFull
  <2> QED BY <1>6, <1>17, <2>1, <2>2
<1>19. e[LengthSize + 1] = MessageTypeError
  <2>1. \A i \in 1..Len(f2) : (f2 \o rest2)[i] = f2[i]
    BY <1>11, <1>16, ConcatProperties
  <2>2. LengthSize + 1 \in 1..Len(f2)
    BY <1>2, <1>11
  <2> QED BY <1>11, <1>17, <2>1, <2>2
<1>20. SubSeq(e, LengthSize + 2, LengthSize + 1 + CodeSize) = e3
  <2>1. Len(f2) + 1 = LengthSize + 2 /\ Len(f2) + CodeSize = LengthSize + 1 + CodeSize
    BY <1>2, <1>11
  <2>2. Len(rest2) >= CodeSize
    <3>1. Len(rest2) = CodeSize + Len(rest3) /\ Len(rest3) \in Nat
      BY <1>8, <1>16, ConcatProperties, LenProperties DEF rest2
    <3> QED BY <1>2, <3>1
  <2>3. SubSeq(f2 \o rest2, Len(f2) + 1, Len(f2) + CodeSize) = SubSeq(rest2, 1, CodeSize)
    BY <1>2, <1>11, <1>16, <2>2, PieceOfRest, SMTT(30)
  <2>4. SubSeq(e3 \o rest3, 1, CodeSize) = SubSeq(e3, 1, CodeSize)
    BY <1>2, <1>8, <1>16, PieceOfFront
  <2>5. SubSeq(e3, 1, CodeSize) = e3
    BY <1>8, SubSeqFull
  <2> QED BY <1>17, <2>1, <2>3, <2>4, <2>5 DEF rest2
<1>21. LengthSize + 1 + CodeSize <= Len(e)
  BY <1>2, <1>3, <1>15
<1> QED BY <1>1, <1>4, <1>8, <1>15, <1>18, <1>19, <1>20, <1>21 DEF e, total, text

\* What a client reads in a frame.
Told(frame) == <<frame[1], Number(SubSeq(frame, 2, 1 + CodeSize))>>
\* Some bytes are as many frames, in which a client reads the first codes.
Written(bytes, codes, n) ==
    /\ n \in 0..Len(codes)
    /\ Parsed(bytes, n).at = Len(bytes) /\ Len(Parsed(bytes, n).frames) = n
    /\ \A i \in 1..n : Told(Parsed(bytes, n).frames[i]) = <<MessageTypeError, codes[i]>>

\* One Error frame more tells one code more,
LEMMA WrittenOnceMore ==
    ASSUME NEW bytes \in Seq(Byte), NEW codes \in Seq(ErrorCode), NEW code \in ErrorCode,
           Written(bytes, codes, Len(codes))
    PROVE  Written(bytes \o sendError(code), Append(codes, code), Len(codes) + 1)
<1> DEFINE n == Len(codes)
           more == Append(codes, code)
           e == sendError(code)
           total == TotalLength(TextLength[code])
           long == bytes \o e
           p == Parsed(bytes, n)
           at == p.at
           payload == Payload(long, at)
           next == Parsed(long, n + 1)
<1>1. /\ n \in Nat /\ more \in Seq(ErrorCode) /\ Len(more) = n + 1
      /\ \A i \in 1..n : more[i] = codes[i]
      /\ more[n + 1] = code
  BY LenProperties, AppendProperties
<1> HIDE DEF more
<1>2. /\ e \in Seq(Byte) /\ total \in Nat /\ total >= 1 /\ total <= MaximumFrameSize
      /\ Len(e) = LengthSize + total
      /\ Number(SubSeq(e, 1, LengthSize)) = total
      /\ e[LengthSize + 1] = MessageTypeError
      /\ LengthSize + 1 + CodeSize <= Len(e)
      /\ Number(SubSeq(e, LengthSize + 2, LengthSize + 1 + CodeSize)) = code
  BY ErrorFrame
<1> HIDE DEF e, total
<1>3. /\ LengthSize \in Nat \ {0} /\ CodeSize \in Nat /\ MaximumFrameSize \in Nat
      /\ Len(bytes) \in Nat /\ long \in Seq(Byte) /\ Len(long) = Len(bytes) + LengthSize + total
  <2>1. long \in Seq(Byte) /\ Len(long) = Len(bytes) + Len(e)
    BY <1>2, Joining
  <2>2. Len(bytes) \in Nat
    BY LenProperties
  <2> HIDE DEF long
  <2> QED BY <1>2, <2>1, <2>2, WireAssumption
<1>4. /\ at = Len(bytes) /\ Len(p.frames) = n
      /\ \A i \in 1..n : Told(p.frames[i]) = <<MessageTypeError, codes[i]>>
  BY DEF Written
<1>5. p \in Parse /\ p.frames \in Seq(Seq(Byte)) /\ Parsed(long, n) = p
  BY <1>1, <1>2, <1>4, ParsedNext, ParsedKept DEF Parse
<1>6. next = OneFrameMore(long, p)
  BY <1>1, <1>3, <1>5, ParsedNext
<1> HIDE DEF p
<1>7. Size(long, at) = total
  <2>1. SubSeq(long, Len(bytes) + 1, Len(bytes) + LengthSize) = SubSeq(e, 1, LengthSize)
    BY <1>2, <1>3, PieceOfRest
  <2>2. SubSeq(long, at + 1, at + LengthSize) = SubSeq(e, 1, LengthSize)
    BY <1>4, <2>1
  <2>3. Size(long, at) = BigEndian(SubSeq(long, at + 1, at + LengthSize))
    BY DEF Size
  <2>4. BigEndian(SubSeq(e, 1, LengthSize)) = total
    <3>1. SubSeq(e, 1, LengthSize) \in Seq(Byte)
      BY <1>2, <1>3, Piece
    <3> QED BY <1>2, <3>1, NumberIsRead
  <2> HIDE DEF long, at
  <2> QED BY <2>2, <2>3, <2>4
<1> HIDE DEF long
<1>8. End(long, at) = Len(long)
  BY <1>2, <1>3, <1>4, <1>7 DEF End
<1>9. Complete(long, at)
  BY <1>2, <1>3, <1>4, <1>7, <1>8 DEF Complete
<1>10. /\ payload \in Seq(Byte) /\ Len(payload) = total
       /\ next = [at |-> End(long, at), frames |-> Frames(long, p)]
  BY <1>3, <1>5, <1>6, <1>7, <1>9, OneFrame
<1>11. next.at = Len(long) /\ next.frames = Append(p.frames, payload)
  <2>1. next.frames = Frames(long, p) /\ next.at = End(long, at)
    BY <1>10
  <2>2. Size(long, at) # 0
    BY <1>2, <1>7
  <2> HIDE DEF next, payload
  <2> QED BY <1>8, <2>1, <2>2 DEF Frames, payload
<1>12. payload = SubSeq(e, LengthSize + 1, Len(e))
  <2>1. SubSeq(long, Len(bytes) + (LengthSize + 1), Len(bytes) + Len(e))
          = SubSeq(e, LengthSize + 1, Len(e))
    <3>1. LengthSize + 1 \in Nat \ {0} /\ Len(e) \in Nat /\ LengthSize + 1 <= Len(e) + 1
      BY <1>2, <1>3
    <3> DEFINE m == LengthSize + 1
               l == Len(e)
    <3>2. m \in Nat \ {0} /\ l \in Nat /\ l <= Len(e) /\ m <= l + 1
      BY <3>1
    <3> HIDE DEF m, l, n, p, at, payload, next
    <3>3. SubSeq(bytes \o e, Len(bytes) + m, Len(bytes) + l) = SubSeq(e, m, l)
      BY <1>2, <3>2, PieceOfRest
    <3> QED BY <3>3 DEF m, l, long
  <2>2. at + LengthSize + 1 = Len(bytes) + (LengthSize + 1) /\ Len(long) = Len(bytes) + Len(e)
    BY <1>2, <1>3, <1>4
  <2>3. payload = SubSeq(long, at + LengthSize + 1, Len(long))
    BY <1>8 DEF Payload
  <2> HIDE DEF payload, at
  <2> QED BY <2>1, <2>2, <2>3
<1> HIDE DEF payload, next
<1>13. Told(payload) = <<MessageTypeError, code>>
  <2>1. \A i \in 1..total : payload[i] = e[LengthSize + i]
    <3>1. /\ LengthSize + 1 \in Nat \ {0} /\ Len(e) \in Nat /\ LengthSize + 1 <= Len(e) + 1
          /\ (Len(e) - (LengthSize + 1)) + 1 = total
      BY <1>2, <1>3
    <3>2. \A i \in 1..total : payload[i] = e[(LengthSize + 1 + i) - 1]
      BY <1>2, <1>12, <3>1, Piece
    <3>3. \A i \in 1..total : (LengthSize + 1 + i) - 1 = LengthSize + i
      BY <1>2, <1>3
    <3> QED BY <3>2, <3>3
  <2>2. payload[1] = MessageTypeError
    <3>1. 1 \in 1..total
      BY <1>2
    <3> QED BY <1>2, <2>1, <3>1
  <2>3. SubSeq(payload, 2, 1 + CodeSize) = SubSeq(e, LengthSize + 2, LengthSize + 1 + CodeSize)
    <3> DEFINE ours == SubSeq(payload, 2, 1 + CodeSize)
               theirs == SubSeq(e, LengthSize + 2, LengthSize + 1 + CodeSize)
    <3>1. /\ 2 \in Nat \ {0} /\ 1 + CodeSize \in Nat /\ 1 + CodeSize <= Len(payload)
          /\ 2 <= (1 + CodeSize) + 1 /\ ((1 + CodeSize) - 2) + 1 = CodeSize
      BY <1>2, <1>3, <1>10
    <3>2. /\ ours \in Seq(Byte) /\ Len(ours) = CodeSize
          /\ \A i \in 1..CodeSize : ours[i] = payload[(2 + i) - 1]
      BY <1>10, <3>1, Piece
    <3>3. /\ LengthSize + 2 \in Nat \ {0} /\ LengthSize + 1 + CodeSize \in Nat
          /\ LengthSize + 1 + CodeSize <= Len(e) /\ LengthSize + 2 <= (LengthSize + 1 + CodeSize) + 1
          /\ ((LengthSize + 1 + CodeSize) - (LengthSize + 2)) + 1 = CodeSize
      BY <1>2, <1>3
    <3>4. /\ theirs \in Seq(Byte) /\ Len(theirs) = CodeSize
          /\ \A i \in 1..CodeSize : theirs[i] = e[(LengthSize + 2 + i) - 1]
      BY <1>2, <3>3, Piece, SMTT(30)
    <3>5. ASSUME NEW i \in 1..CodeSize
          PROVE  ours[i] = theirs[i]
      <4>1. /\ (2 + i) - 1 \in 1..total
            /\ LengthSize + ((2 + i) - 1) = (LengthSize + 2 + i) - 1
        BY <1>2, <1>3
      <4> HIDE DEF ours, theirs
      <4> QED BY <2>1, <3>2, <3>4, <4>1
    <3> HIDE DEF ours, theirs
    <3>6. ours = theirs
      BY <3>2, <3>4, <3>5, SeqEqual
    <3> QED BY <3>6 DEF ours, theirs
  <2> QED BY <1>2, <2>2, <2>3 DEF Told
<1>14. /\ Len(next.frames) = n + 1 /\ next.frames[n + 1] = payload
       /\ \A i \in 1..n : next.frames[i] = p.frames[i]
  BY <1>4, <1>5, <1>10, <1>11, AppendProperties
<1>15. ASSUME NEW i \in 1..(n + 1)
       PROVE  Told(next.frames[i]) = <<MessageTypeError, more[i]>>
  <2>1. i \in 1..n \/ i = n + 1
    BY <1>1
  <2> QED BY <1>1, <1>4, <1>13, <1>14, <2>1
<1>16. n + 1 \in 0..Len(more)
  BY <1>1
<1> HIDE DEF n
<1>17. Written(long, more, n + 1)
  BY <1>11, <1>14, <1>15, <1>16 DEF Written, next
<1> QED BY <1>17 DEF long, more, e, n

\* and a code that is not written leaves those that were.
LEMMA WrittenKept ==
    ASSUME NEW bytes, NEW codes \in Seq(ErrorCode), NEW code \in ErrorCode, NEW n,
           Written(bytes, codes, n)
    PROVE  Written(bytes, Append(codes, code), n)
<1> DEFINE more == Append(codes, code)
<1>1. /\ Len(codes) \in Nat /\ Len(more) = Len(codes) + 1
      /\ \A i \in 1..Len(codes) : more[i] = codes[i]
  BY LenProperties, AppendProperties
<1> HIDE DEF more
<1>2. n \in 0..Len(more) /\ \A i \in 1..n : more[i] = codes[i]
  BY <1>1 DEF Written
<1>3. Written(bytes, more, n)
  BY <1>2 DEF Written
<1> QED BY <1>3 DEF more

\* A client finds those codes in the bytes.
LEMMA WrittenIsTold ==
    ASSUME NEW bytes \in Seq(Byte), NEW codes \in Seq(ErrorCode), NEW n, Written(bytes, codes, n)
    PROVE  LET frames == FramesOf(bytes) IN
           /\ Len(frames) = n /\ frames \in Seq(Seq(Byte))
           /\ \A i \in 1..n : Told(frames[i]) = <<MessageTypeError, codes[i]>>
<1>1. n \in Nat /\ Len(bytes) \in Nat
  BY LenProperties DEF Written
<1>2. n <= Len(bytes)
  BY <1>1, ParsedAdvances DEF Written
<1>3. Parsed(bytes, Len(bytes)) = Parsed(bytes, n)
  BY <1>1, <1>2, ParsedEnds DEF Written
<1>4. Parsed(bytes, n).frames \in Seq(Seq(Byte))
  BY <1>1, ParsedNext DEF Parse
<1> QED BY <1>3, <1>4 DEF Written, FramesOf

----------------------------------------------------------------------------
(* Reading *)

\* The frames of the first n turns of a parse have been answered with these codes.
Answered(bytes, codes, n) ==
    /\ n \in Nat /\ n <= Parsed(bytes, n).at
    /\ Len(codes) = Len(Parsed(bytes, n).frames)
    /\ \A i \in 1..Len(codes) : codes[i] = CodeOf(Parsed(bytes, n).frames[i])
\* Between two frames, in the length of the one at an offset, in its payload, or
\* at its end: what has been read of it.
Reading(bytes, at, phase, done, got, size) ==
    /\ phase = "none" => at = 0 /\ done = 0 /\ got = <<>>
    /\ phase = "length" =>
           /\ size = LengthSize /\ Len(got) < size /\ done = at + Len(got)
           /\ got = SubSeq(bytes, at + 1, done)
    /\ phase = "payload" =>
           /\ size = Size(bytes, at) /\ size \in 1..MaximumFrameSize /\ Len(got) < size
           /\ done = at + LengthSize + Len(got)
           /\ got = SubSeq(bytes, at + LengthSize + 1, done)
    /\ phase = "frame" =>
           /\ Complete(bytes, at) /\ Size(bytes, at) # 0
           /\ done = End(bytes, at) /\ got = Payload(bytes, at)

\* What arrives is appended to what had.
LEMMA Arriving ==
    ASSUME NEW bytes \in Seq(Byte), NEW at \in Nat, NEW got \in Seq(Byte), NEW n \in Nat,
           got = SubSeq(bytes, at + 1, at + Len(got)), at + Len(got) + n <= Len(bytes)
    PROVE  LET more == got \o SubSeq(bytes, at + Len(got) + 1, at + Len(got) + n) IN
           /\ more \in Seq(Byte) /\ Len(more) = Len(got) + n
           /\ more = SubSeq(bytes, at + 1, at + Len(got) + n)
<1> DEFINE m == at + 1
           k == at + Len(got)
           l == k + n
<1>1. Len(got) \in Nat /\ Len(bytes) \in Nat
  BY LenProperties
<1>2. /\ m \in 1..(Len(bytes) + 1) /\ k \in (m - 1)..Len(bytes) /\ l \in k..Len(bytes)
      /\ m \in Nat \ {0} /\ l \in Nat /\ l <= Len(bytes) /\ m <= l + 1
      /\ (l - m) + 1 = Len(got) + n
  BY <1>1
<1>3. SubSeq(bytes, m, k) = got
  OBVIOUS
<1> HIDE DEF m, k, l
<1>4. SubSeq(bytes, m, k) \o SubSeq(bytes, k + 1, l) = SubSeq(bytes, m, l)
  BY <1>2, ConcatAdjacentSubSeq
<1>5. SubSeq(bytes, m, l) \in Seq(Byte) /\ Len(SubSeq(bytes, m, l)) = Len(got) + n
  BY <1>2, Piece
<1>6. got \o SubSeq(bytes, k + 1, l) = SubSeq(bytes, m, l)
  BY <1>3, <1>4
<1> QED BY <1>5, <1>6 DEF m, k, l

\* A frame whose length is 0 is one turn of the parse, and no frame.
LEMMA EmptySkipped ==
    ASSUME NEW bytes \in Seq(Byte), NEW codes, NEW n, Answered(bytes, codes, n),
           Parsed(bytes, n).at + LengthSize <= Len(bytes), Size(bytes, Parsed(bytes, n).at) = 0
    PROVE  /\ Answered(bytes, codes, n + 1)
           /\ Parsed(bytes, n + 1).at = Parsed(bytes, n).at + LengthSize
<1> DEFINE p == Parsed(bytes, n)
           next == Parsed(bytes, n + 1)
<1>1. n \in Nat /\ n + 1 \in Nat /\ LengthSize \in Nat \ {0} /\ MaximumFrameSize \in Nat
  BY WireAssumption DEF Answered
<1>2. p \in Parse /\ next = OneFrameMore(bytes, p)
  BY <1>1, ParsedNext
<1>3. p.at \in Nat
  BY <1>2 DEF Parse
<1>4. n <= p.at /\ Len(codes) = Len(p.frames) /\ \A i \in 1..Len(codes) : codes[i] = CodeOf(p.frames[i])
  BY DEF Answered
<1>5. p.at + LengthSize <= Len(bytes) /\ Size(bytes, p.at) = 0
  OBVIOUS
<1> HIDE DEF p
<1>6. End(bytes, p.at) = p.at + LengthSize
  BY <1>1, <1>3, <1>5 DEF End
<1>7. Complete(bytes, p.at)
  BY <1>1, <1>5, <1>6 DEF Complete
<1>8. Frames(bytes, p) = p.frames
  BY <1>5 DEF Frames
<1>9. next = [at |-> p.at + LengthSize, frames |-> p.frames]
  BY <1>2, <1>6, <1>7, <1>8, OneFrame
<1>10. next.at = p.at + LengthSize /\ next.frames = p.frames
  BY <1>9
<1> HIDE DEF next
<1>11. n + 1 <= next.at
  BY <1>1, <1>3, <1>4, <1>10
<1>12. Answered(bytes, codes, n + 1)
  BY <1>1, <1>4, <1>10, <1>11 DEF Answered, next
<1> QED BY <1>10, <1>12 DEF next, p

\* A frame that has been read is one turn of the parse, and the next to answer.
LEMMA FrameAnswered ==
    ASSUME NEW bytes \in Seq(Byte), NEW codes \in Seq(ErrorCode), NEW n, Answered(bytes, codes, n),
           Complete(bytes, Parsed(bytes, n).at), Size(bytes, Parsed(bytes, n).at) # 0
    PROVE  LET payload == Payload(bytes, Parsed(bytes, n).at)
               code == Dispatch(payload)
           IN  /\ code \in ErrorCode /\ Answered(bytes, Append(codes, code), n + 1)
               /\ Parsed(bytes, n + 1).at = End(bytes, Parsed(bytes, n).at)
<1> DEFINE p == Parsed(bytes, n)
           next == Parsed(bytes, n + 1)
           payload == Payload(bytes, p.at)
           code == Dispatch(payload)
           more == Append(codes, code)
           end == End(bytes, p.at)
<1>1. n \in Nat /\ n + 1 \in Nat /\ LengthSize \in Nat \ {0}
  BY WireAssumption DEF Answered
<1>2. p \in Parse /\ next = OneFrameMore(bytes, p)
  BY <1>1, ParsedNext
<1>3. p.at \in Nat /\ p.frames \in Seq(Seq(Byte)) /\ Len(p.frames) \in Nat
  BY <1>2, LenProperties DEF Parse
<1>4. n <= p.at /\ Len(codes) = Len(p.frames) /\ \A i \in 1..Len(codes) : codes[i] = CodeOf(p.frames[i])
  BY DEF Answered
<1>5. Complete(bytes, p.at) /\ Size(bytes, p.at) # 0
  OBVIOUS
<1> HIDE DEF p
<1>6. /\ payload \in Seq(Byte) /\ Len(payload) = Size(bytes, p.at) /\ Size(bytes, p.at) \in Nat
      /\ end \in Nat
      /\ next = [at |-> end, frames |-> Frames(bytes, p)]
  BY <1>2, <1>5, OneFrame
<1>7. end = p.at + LengthSize + Size(bytes, p.at)
  BY DEF End
<1>8. next.at = end /\ next.frames = Append(p.frames, payload)
  <2>1. Frames(bytes, p) = Append(p.frames, payload)
    BY <1>5 DEF Frames
  <2> HIDE DEF payload, end
  <2> QED BY <1>6, <2>1
<1> HIDE DEF payload, end, next
<1>9. code = CodeOf(payload) /\ code \in ErrorCode
  BY <1>5, <1>6, DispatchCode
<1> HIDE DEF code
<1>10. /\ Len(next.frames) = Len(p.frames) + 1 /\ next.frames[Len(p.frames) + 1] = payload
       /\ \A i \in 1..Len(p.frames) : next.frames[i] = p.frames[i]
  BY <1>3, <1>6, <1>8, AppendProperties
<1>11. /\ Len(more) = Len(codes) + 1 /\ more[Len(codes) + 1] = code
       /\ \A i \in 1..Len(codes) : more[i] = codes[i]
  BY <1>9, AppendProperties
<1> HIDE DEF more
<1>12. ASSUME NEW i \in 1..Len(more)
       PROVE  more[i] = CodeOf(next.frames[i])
  <2>1. i \in 1..Len(p.frames) \/ i = Len(p.frames) + 1
    BY <1>3, <1>4, <1>11
  <2> QED BY <1>4, <1>9, <1>10, <1>11, <2>1
<1>13. n + 1 <= next.at
  BY <1>1, <1>3, <1>4, <1>6, <1>7, <1>8
<1>14. Len(more) = Len(next.frames)
  BY <1>4, <1>10, <1>11
<1>15. Answered(bytes, more, n + 1)
  BY <1>1, <1>12, <1>13, <1>14 DEF Answered, next
<1> QED BY <1>8, <1>9, <1>15 DEF more, code, payload, end, next, p

\* Nothing has been answered of a stream at first.
LEMMA AnsweredFirst ==
    ASSUME NEW bytes \in Seq(Byte)
    PROVE  Answered(bytes, <<>>, 0) /\ Parsed(bytes, 0).at = 0
<1>1. Parsed(bytes, 0).at = 0 /\ Parsed(bytes, 0).frames = <<>>
  BY ParsedNext DEF Nothing
<1> QED BY <1>1 DEF Answered

\* The frames that have been answered are the first of the stream's.
LEMMA AnsweredIsPrefix ==
    ASSUME NEW bytes \in Seq(Byte), NEW codes \in Seq(ErrorCode), NEW n, Answered(bytes, codes, n)
    PROVE  IsPrefix(codes, Codes(bytes))
<1> DEFINE p == Parsed(bytes, n)
           all == FramesOf(bytes)
           whole == Codes(bytes)
<1>1. n \in Nat /\ Len(bytes) \in Nat /\ Len(codes) \in Nat
  BY LenProperties DEF Answered
<1>2. p.at <= Len(bytes) /\ p.at \in Nat /\ n <= p.at
  BY <1>1, ParsedAdvances DEF Answered, Parse
<1>3. n <= Len(bytes)
  BY <1>1, <1>2
<1>4. /\ Len(p.frames) <= Len(all)
      /\ \A i \in 1..Len(p.frames) : all[i] = p.frames[i]
  BY <1>1, <1>3, ParsedGrows DEF FramesOf
<1>5. all \in Seq(Seq(Byte))
  BY <1>1, ParsedNext DEF FramesOf, Parse
<1>6. /\ Len(codes) = Len(p.frames)
      /\ \A i \in 1..Len(codes) : codes[i] = CodeOf(p.frames[i])
  BY DEF Answered
<1>7. whole = [i \in 1..Len(all) |-> CodeOf(all[i])]
  <2>1. DOMAIN all = 1..Len(all)
    BY <1>5, LenProperties
  <2> HIDE DEF all
  <2> QED BY <2>1 DEF Codes, all
<1> HIDE DEF all, p
<1>8. Len(all) \in Nat
  BY <1>5, LenProperties
<1> DEFINE C == {CodeOf(all[i]) : i \in 1..Len(all)}
<1>9. [i \in 1..Len(all) |-> CodeOf(all[i])] \in [1..Len(all) -> C]
  OBVIOUS
<1> HIDE DEF C
<1>10. whole \in [1..Len(all) -> C] /\ \A i \in 1..Len(all) : whole[i] = CodeOf(all[i])
  <2> HIDE DEF whole
  <2> QED BY <1>7, <1>9
<1> HIDE DEF whole
<1>11. whole \in Seq(C) /\ Len(whole) = Len(all)
  BY <1>8, <1>10, SequenceOf
<1>12. Len(codes) <= Len(whole) /\ \A i \in 1..Len(codes) : whole[i] = codes[i]
  BY <1>1, <1>4, <1>6, <1>8, <1>10, <1>11
<1>13. codes \in Seq(C)
  <2>1. \A i \in 1..Len(codes) : codes[i] \in C
    BY <1>1, <1>8, <1>10, <1>11, <1>12
  <2> QED BY <1>1, <2>1
<1>14. SubSeq(codes, 1, Len(codes)) = SubSeq(whole, 1, Len(codes))
  BY <1>1, <1>11, <1>12, <1>13
<1> QED BY <1>12, <1>14 DEF IsPrefix, whole

----------------------------------------------------------------------------
(* The invariant *)

TypeInv ==
    /\ client \in [Conn -> {"idle", "connecting", "refused", "open", "closed", "reset"}]
    /\ stream \in [Conn -> Seq(Byte)] /\ sent \in [Conn -> Nat]
    /\ served \in [Conn -> {"none", "length", "payload", "frame", "ended"}]
    /\ read \in [Conn -> Nat] /\ buffer \in [Conn -> Seq(Byte)] /\ length \in [Conn -> Nat]
    /\ written \in [Conn -> Seq(Byte)] /\ answered \in [Conn -> Seq(ErrorCode)]
\* The clients that have not been accepted yet, and may be.
Waiting == {"idle", "connecting"}
\* Nobody is served before it is accepted; what has been read is what the answers
\* are to, and the part of a frame that follows; and what has been written is
\* those answers, all of them unless the client reset the connection.
ConnInv(c) ==
    /\ client[c] \in Waiting => served[c] = "none"
    /\ read[c] <= sent[c] /\ sent[c] <= Len(stream[c])
    /\ \E n \in Nat :
           /\ Answered(stream[c], answered[c], n)
           /\ Reading(stream[c], Parsed(stream[c], n).at, served[c], read[c], buffer[c], length[c])
    /\ \E n \in Nat :
           /\ Written(written[c], answered[c], n)
           /\ client[c] # "reset" => n = Len(answered[c])
IInv == TypeInv /\ \A c \in Conn : ConnInv(c)

LEMMA InitIInv == Init => IInv
<1> SUFFICES ASSUME Init
             PROVE  IInv
  OBVIOUS
<1>1. <<>> \in Seq(Byte) /\ <<>> \in Seq(ErrorCode)
  BY EmptySeq
<1>2. TypeInv
  BY <1>1, WireAssumption DEF Init, TypeInv
<1>3. ASSUME NEW c \in Conn
      PROVE  ConnInv(c)
  <2>1. /\ stream[c] \in Seq(Byte) /\ read[c] = 0 /\ sent[c] = 0 /\ served[c] = "none"
        /\ buffer[c] = <<>> /\ answered[c] = <<>> /\ written[c] = <<>>
    BY <1>2 DEF Init, TypeInv
  <2>2. Answered(stream[c], <<>>, 0) /\ Parsed(stream[c], 0).at = 0
    BY <2>1, AnsweredFirst
  <2>3. Reading(stream[c], 0, "none", 0, <<>>, length[c])
    BY DEF Reading
  <2>4. Written(<<>>, <<>>, 0)
    <3>1. \A bytes \in Seq(Byte) : Parsed(bytes, 0) = Nothing
      BY ParsedNext
    <3>2. Parsed(<<>>, 0).at = 0 /\ Parsed(<<>>, 0).frames = <<>>
      <4>1. Parsed(<<>>, 0) = Nothing
        BY <1>1, <3>1, Zenon
      <4>2. Nothing.at = 0 /\ Nothing.frames = <<>>
        BY DEF Nothing
      <4> QED BY <4>1, <4>2, Zenon
    <3> QED BY <3>2 DEF Written
  <2>5. Len(stream[c]) \in Nat /\ Len(answered[c]) = 0
    BY <2>1, LenProperties
  <2> QED BY <2>1, <2>2, <2>3, <2>4, <2>5 DEF ConnInv
<1> QED BY <1>2, <1>3 DEF IInv

\* A connection whose server does nothing, while its client may go or send.
LEMMA ServerIdle ==
    ASSUME NEW c, ConnInv(c),
           stream'[c] = stream[c], read'[c] = read[c], served'[c] = served[c],
           buffer'[c] = buffer[c], length'[c] = length[c],
           written'[c] = written[c], answered'[c] = answered[c],
           read[c] <= sent'[c], sent'[c] <= Len(stream[c]),
           client'[c] # "reset" => client[c] # "reset",
           client'[c] \in Waiting => client[c] \in Waiting
    PROVE  ConnInv(c)'
BY DEF ConnInv

\* A connection that nothing is done to.
LEMMA Untouched ==
    ASSUME NEW c, ConnInv(c), client'[c] = client[c], sent'[c] = sent[c],
           stream'[c] = stream[c], read'[c] = read[c], served'[c] = served[c],
           buffer'[c] = buffer[c], length'[c] = length[c],
           written'[c] = written[c], answered'[c] = answered[c]
    PROVE  ConnInv(c)'
BY DEF ConnInv

\* A connection of which its server reads more: it reads what it wants.
LEMMA MoreRead ==
    ASSUME IInv, NEW c \in Conn, served[c] \in {"length", "payload"}, Available(c) > 0
    PROVE  LET bytes == buffer[c] \o SubSeq(stream[c], read[c] + 1, read[c] + Available(c)) IN
           /\ Available(c) \in Nat /\ read[c] + Available(c) <= sent[c]
           /\ Len(bytes) = Len(buffer[c]) + Available(c) /\ Len(bytes) <= length[c]
           /\ bytes \in Seq(Byte)
           /\ \A at \in Nat :
                  /\ read[c] = at + Len(buffer[c])
                  /\ buffer[c] = SubSeq(stream[c], at + 1, read[c])
                  => bytes = SubSeq(stream[c], at + 1, read[c] + Available(c))
<1> DEFINE n == Available(c)
           got == buffer[c]
           s == stream[c]
           bytes == got \o SubSeq(s, read[c] + 1, read[c] + n)
<1>1. /\ got \in Seq(Byte) /\ s \in Seq(Byte) /\ Len(got) \in Nat /\ Len(s) \in Nat
      /\ read[c] \in Nat /\ sent[c] \in Nat /\ length[c] \in Nat
  BY LenProperties DEF IInv, TypeInv
<1>2. read[c] <= sent[c] /\ sent[c] <= Len(s)
  BY DEF IInv, ConnInv
<1>3. n = IF sent[c] - read[c] < length[c] - Len(got) THEN sent[c] - read[c] ELSE length[c] - Len(got)
  BY DEF Available, Wanted
<1>4. n \in Nat /\ read[c] + n <= sent[c] /\ Len(got) + n <= length[c] /\ n > 0
  BY <1>1, <1>2, <1>3
<1> HIDE DEF n
<1>5. SubSeq(s, read[c] + 1, read[c] + n) \in Seq(Byte) /\ Len(SubSeq(s, read[c] + 1, read[c] + n)) = n
  <2> DEFINE m == read[c] + 1
             l == read[c] + n
  <2> HIDE DEF s, got
  <2>1. m \in Nat \ {0} /\ l \in Nat /\ l <= Len(s) /\ m <= l + 1 /\ (l - m) + 1 = n
    <3>1. m = read[c] + 1 /\ l = read[c] + n
      OBVIOUS
    <3>2. l <= Len(s)
      <4> HIDE DEF m, l
      <4> QED BY <1>1, <1>2, <1>4, <3>1
    <3> HIDE DEF m, l, bytes
    <3>3. read[c] \in Nat /\ n \in Nat
      BY <1>1, <1>4
    <3>4. m \in Nat \ {0}
      BY <3>1, <3>3
    <3>5. l \in Nat /\ m <= l + 1 /\ (l - m) + 1 = n
      BY <3>1, <3>3
    <3> QED BY <3>2, <3>4, <3>5
  <2> HIDE DEF m, l
  <2>2. SubSeq(s, m, l) \in Seq(Byte) /\ Len(SubSeq(s, m, l)) = n
    BY <1>1, <2>1, Piece
  <2> QED BY <2>2 DEF m, l
<1>6. bytes \in Seq(Byte) /\ Len(bytes) = Len(got) + n
  <2> DEFINE new == SubSeq(s, read[c] + 1, read[c] + n)
  <2> HIDE DEF new, got
  <2>1. got \o new \in Seq(Byte) /\ Len(got \o new) = Len(got) + Len(new)
    BY <1>1, <1>5, Joining DEF new
  <2> QED BY <1>5, <2>1 DEF new
<1>7. ASSUME NEW at \in Nat, read[c] = at + Len(got), got = SubSeq(s, at + 1, read[c])
      PROVE  bytes = SubSeq(s, at + 1, read[c] + n)
  <2>1. at + Len(got) + n <= Len(s)
    BY <1>1, <1>2, <1>4, <1>7
  <2>2. got = SubSeq(s, at + 1, at + Len(got))
    BY <1>7
  <2> HIDE DEF s, got, bytes
  <2>3. got \o SubSeq(s, at + Len(got) + 1, at + Len(got) + n) = SubSeq(s, at + 1, at + Len(got) + n)
    BY <1>1, <1>4, <2>1, <2>2, Arriving
  <2> QED BY <1>7, <2>3 DEF bytes
<1> QED BY <1>4, <1>6, <1>7 DEF n

LEMMA ReadInv ==
    ASSUME IInv, NEW c \in Conn, Read(c)
    PROVE  TypeInv' /\ ConnInv(c)'
<1> DEFINE n == Available(c)
           got == buffer[c]
           s == stream[c]
           done == read[c] + n
           bytes == got \o SubSeq(s, read[c] + 1, done)
           size == BigEndian(bytes)
<1>1. TypeInv /\ ConnInv(c)
  BY DEF IInv
<1>2. served[c] \in {"length", "payload"} /\ n > 0
  BY DEF Read
<1>3. /\ n \in Nat /\ done <= sent[c] /\ bytes \in Seq(Byte)
      /\ Len(bytes) = Len(got) + n /\ Len(bytes) <= length[c]
      /\ \A at \in Nat : read[c] = at + Len(got) /\ got = SubSeq(s, at + 1, read[c])
                         => bytes = SubSeq(s, at + 1, done)
  BY <1>2, MoreRead
<1>4. /\ read' = [read EXCEPT ![c] = done]
      /\ UNCHANGED <<client, stream, sent, written, answered>>
      /\ IF Len(bytes) < length[c]
         THEN buffer' = [buffer EXCEPT ![c] = bytes] /\ UNCHANGED <<served, length>>
         ELSE IF served[c] = "length" THEN ReadLength(c, bytes) ELSE ReadPayload(c, bytes)
  BY DEF Read, peers, accepting
<1>5. size \in Nat
  BY <1>3, NumberIsRead
<1>6. /\ got \in Seq(Byte) /\ s \in Seq(Byte) /\ Len(got) \in Nat /\ Len(s) \in Nat
      /\ read[c] \in Nat /\ sent[c] \in Nat /\ length[c] \in Nat
      /\ LengthSize \in Nat \ {0} /\ MaximumFrameSize \in Nat
  BY <1>1, WireAssumption, LenProperties DEF TypeInv
<1>7. <<>> \in Seq(Byte) /\ Len(<<>>) = 0
  BY EmptySeq
<1>8. done \in Nat
  BY <1>3, <1>6
<1> HIDE DEF n, done, bytes, size
<1>9. TypeInv'
  <2>1. read' \in [Conn -> Nat]
    BY <1>1, <1>4, <1>8 DEF TypeInv
  <2>2. /\ served' \in [Conn -> {"none", "length", "payload", "frame", "ended"}]
        /\ buffer' \in [Conn -> Seq(Byte)] /\ length' \in [Conn -> Nat]
    <3>1. CASE Len(bytes) < length[c]
      BY <1>1, <1>3, <1>4, <3>1 DEF TypeInv
    <3>2. CASE ~(Len(bytes) < length[c]) /\ served[c] = "length"
      <4>1. ReadLength(c, bytes)
        BY <1>4, <3>2
      <4> QED BY <1>1, <1>5, <1>6, <1>7, <4>1, ZenonT(30) DEF TypeInv, ReadLength, NextFrame, Return, size
    <3>3. CASE ~(Len(bytes) < length[c]) /\ served[c] # "length"
      <4>1. ReadPayload(c, bytes)
        BY <1>4, <3>3
      <4> QED BY <1>1, <1>3, <4>1 DEF TypeInv, ReadPayload
    <3> QED BY <3>1, <3>2, <3>3
  <2> QED BY <1>1, <1>4, <2>1, <2>2 DEF TypeInv
<1>10. PICK k \in Nat : /\ Answered(s, answered[c], k)
                        /\ Reading(s, Parsed(s, k).at, served[c], read[c], got, length[c])
  BY <1>1 DEF ConnInv
<1> DEFINE at == Parsed(s, k).at
<1>11. at \in Nat
  BY <1>6, <1>10, ParsedNext DEF Parse
<1> HIDE DEF at
<1>12. /\ sent[c] <= Len(s)
       /\ \E m \in Nat : /\ Written(written[c], answered[c], m)
                         /\ client[c] # "reset" => m = Len(answered[c])
  BY <1>1 DEF ConnInv
<1>13. read'[c] = done
  BY <1>1, <1>4 DEF TypeInv
<1>14. client[c] \notin Waiting
  BY <1>1, <1>2 DEF ConnInv
<1>15. SUFFICES \E m \in Nat :
                   /\ Answered(s, answered[c], m)
                   /\ Reading(s, Parsed(s, m).at, served'[c], done, buffer'[c], length'[c])
  <2> HIDE DEF s, got
  <2>1. /\ read'[c] <= sent'[c] /\ sent'[c] <= Len(stream'[c])
        /\ \E m \in Nat : /\ Written(written'[c], answered'[c], m)
                          /\ client'[c] # "reset" => m = Len(answered'[c])
    BY <1>3, <1>4, <1>12, <1>13 DEF s
  <2>2. stream'[c] = s /\ answered'[c] = answered[c]
    BY <1>4 DEF s
  <2> QED BY <1>4, <1>9, <1>13, <1>14, <2>1, <2>2 DEF ConnInv
<1>16. CASE served[c] = "length"
  <2>1. /\ length[c] = LengthSize /\ read[c] = at + Len(got)
        /\ got = SubSeq(s, at + 1, read[c])
    BY <1>10, <1>16 DEF Reading, at
  <2>2. bytes = SubSeq(s, at + 1, done) /\ done = at + Len(bytes)
    <3> HIDE DEF s, got
    <3>1. bytes = SubSeq(s, at + 1, done)
      BY <1>3, <1>11, <2>1
    <3>2. done = at + Len(bytes)
      <4>1. read[c] = at + Len(got) /\ done = read[c] + n /\ Len(bytes) = Len(got) + n
        BY <1>3, <2>1 DEF done
      <4> HIDE DEF done, bytes
      <4> QED BY <1>3, <1>6, <1>11, <4>1
    <3> QED BY <3>1, <3>2
  <2>3. CASE Len(bytes) < length[c]
    <3>1. buffer'[c] = bytes /\ served'[c] = "length" /\ length'[c] = LengthSize
      BY <1>1, <1>4, <1>16, <2>1, <2>3 DEF TypeInv
    <3>2. Reading(s, at, "length", done, bytes, LengthSize)
      BY <2>1, <2>2, <2>3 DEF Reading
    <3> QED BY <1>10, <3>1, <3>2 DEF at
  <2>4. CASE ~(Len(bytes) < length[c])
    <3>1. done = at + LengthSize /\ at + LengthSize <= Len(s)
      <4> HIDE DEF s, got
      <4>1. Len(bytes) = LengthSize
        BY <1>3, <1>6, <2>1, <2>4
      <4>2. done <= sent[c] /\ sent[c] <= Len(s)
        BY <1>3, <1>12
      <4> QED BY <1>6, <1>8, <1>11, <2>2, <4>1, <4>2
    <3>2. size = Size(s, at)
      BY <2>2, <3>1 DEF Size, size
    <3>3. ReadLength(c, bytes)
      BY <1>4, <1>16, <2>4
    <3>4. CASE size = 0
      <4>1. served'[c] = "length" /\ buffer'[c] = <<>> /\ length'[c] = LengthSize
        BY <1>1, <3>3, <3>4 DEF ReadLength, NextFrame, TypeInv, size
      <4>2. Answered(s, answered[c], k + 1) /\ Parsed(s, k + 1).at = done
        BY <1>6, <1>10, <3>1, <3>2, <3>4, EmptySkipped DEF at
      <4>3. Reading(s, done, "length", done, <<>>, LengthSize)
        <5>1. SubSeq(s, done + 1, done) = <<>>
          BY <1>8, SubSeqEmpty
        <5> QED BY <1>6, <1>7, <1>8, <5>1 DEF Reading
      <4>4. k + 1 \in Nat
        OBVIOUS
      <4> QED BY <4>1, <4>2, <4>3, <4>4
    <3>5. CASE size # 0 /\ TooLong(size)
      <4>1. served'[c] = "ended"
        BY <1>1, <3>3, <3>5 DEF ReadLength, Return, TypeInv, size
      <4>2. Reading(s, at, "ended", done, buffer'[c], length'[c])
        BY DEF Reading
      <4> QED BY <1>10, <4>1, <4>2 DEF at
    <3>6. CASE size # 0 /\ ~TooLong(size)
      <4>1. served'[c] = "payload" /\ buffer'[c] = <<>> /\ length'[c] = size
        BY <1>1, <3>3, <3>6 DEF ReadLength, TypeInv, size
      <4>2. size \in 1..MaximumFrameSize
        BY <1>5, <1>6, <3>6 DEF TooLong
      <4>3. SubSeq(s, at + LengthSize + 1, done) = <<>>
        BY <1>6, <1>8, <1>11, <3>1, SubSeqEmpty
      <4>4. Reading(s, at, "payload", done, <<>>, size)
        BY <1>6, <1>7, <1>11, <3>1, <3>2, <4>2, <4>3 DEF Reading
      <4> QED BY <1>10, <4>1, <4>4 DEF at
    <3> QED BY <3>4, <3>5, <3>6
  <2> QED BY <2>3, <2>4
<1>17. CASE served[c] = "payload"
  <2> DEFINE from == at + LengthSize
  <2>1. /\ length[c] = Size(s, at) /\ length[c] \in 1..MaximumFrameSize
        /\ read[c] = from + Len(got) /\ got = SubSeq(s, from + 1, read[c])
    BY <1>10, <1>17 DEF Reading, at
  <2>2. from \in Nat
    BY <1>6, <1>11
  <2>3. bytes = SubSeq(s, from + 1, done) /\ done = from + Len(bytes)
    <3> HIDE DEF from, s, got
    <3>1. bytes = SubSeq(s, from + 1, done)
      BY <1>3, <2>1, <2>2
    <3>2. done = from + Len(bytes)
      <4>1. read[c] = from + Len(got) /\ done = read[c] + n /\ Len(bytes) = Len(got) + n
        BY <1>3, <2>1 DEF done
      <4> HIDE DEF done, bytes
      <4> QED BY <1>3, <1>6, <2>2, <4>1
    <3> QED BY <3>1, <3>2
  <2>4. CASE Len(bytes) < length[c]
    <3>1. buffer'[c] = bytes /\ served'[c] = "payload" /\ length'[c] = length[c]
      BY <1>1, <1>4, <1>17, <2>4 DEF TypeInv
    <3>2. Reading(s, at, "payload", done, bytes, length[c])
      BY <2>1, <2>3, <2>4 DEF Reading
    <3> QED BY <1>10, <3>1, <3>2 DEF at
  <2>5. CASE ~(Len(bytes) < length[c])
    <3>1. ReadPayload(c, bytes)
      BY <1>4, <1>17, <2>5
    <3>2. served'[c] = "frame" /\ buffer'[c] = bytes
      BY <1>1, <3>1 DEF ReadPayload, TypeInv
    <3>3. done = End(s, at)
      <4>1. Len(bytes) = length[c]
        BY <1>3, <1>6, <2>5, SMTT(30)
      <4> QED BY <2>1, <2>3, <4>1 DEF End
    <3>4. bytes = Payload(s, at)
      BY <2>3, <3>3 DEF Payload
    <3>5. Complete(s, at) /\ Size(s, at) # 0
      <4>1. from <= Len(s) /\ done <= Len(s)
        <5> HIDE DEF from, s, got
        <5>1. done <= sent[c] /\ sent[c] <= Len(s) /\ Len(bytes) \in Nat
          BY <1>3, <1>12, LenProperties
        <5> QED BY <1>6, <1>8, <2>2, <2>3, <5>1
      <4>2. Size(s, at) <= MaximumFrameSize /\ Size(s, at) # 0
        BY <2>1
      <4> QED BY <3>3, <4>1, <4>2 DEF Complete
    <3>6. Reading(s, at, "frame", done, bytes, length'[c])
      BY <3>3, <3>4, <3>5 DEF Reading
    <3> QED BY <1>10, <3>2, <3>6 DEF at
  <2> QED BY <2>4, <2>5
<1> QED BY <1>2, <1>9, <1>16, <1>17

LEMMA AnswerInv ==
    ASSUME IInv, NEW c \in Conn, Answer(c)
    PROVE  TypeInv' /\ ConnInv(c)'
<1> DEFINE s == stream[c]
           codes == answered[c]
           code == Dispatch(buffer[c])
           bytes == written[c]
<1>1. TypeInv /\ ConnInv(c)
  BY DEF IInv
<1>2. /\ served[c] = "frame"
      /\ IF client[c] # "reset" THEN written' = [written EXCEPT ![c] = bytes \o sendError(code)]
         ELSE UNCHANGED written
      /\ answered' = [answered EXCEPT ![c] = Append(codes, code)]
      /\ NextFrame(c) /\ UNCHANGED <<client, stream, sent, read>>
  BY DEF Answer, peers, accepting
<1>3. /\ s \in Seq(Byte) /\ codes \in Seq(ErrorCode) /\ bytes \in Seq(Byte)
      /\ read[c] \in Nat /\ LengthSize \in Nat \ {0} /\ Len(codes) \in Nat
  BY <1>1, WireAssumption, LenProperties DEF TypeInv
<1>4. PICK k \in Nat : /\ Answered(s, codes, k)
                       /\ Reading(s, Parsed(s, k).at, served[c], read[c], buffer[c], length[c])
  BY <1>1 DEF ConnInv
<1> DEFINE at == Parsed(s, k).at
<1>5. /\ Complete(s, at) /\ Size(s, at) # 0
      /\ read[c] = End(s, at) /\ buffer[c] = Payload(s, at)
  <2> HIDE DEF at
  <2> QED BY <1>2, <1>4 DEF Reading, at
<1>6. /\ code \in ErrorCode /\ Answered(s, Append(codes, code), k + 1)
      /\ Parsed(s, k + 1).at = read[c]
  <2>1. /\ Dispatch(Payload(s, at)) \in ErrorCode
        /\ Answered(s, Append(codes, Dispatch(Payload(s, at))), k + 1)
        /\ Parsed(s, k + 1).at = End(s, at)
    <3> HIDE DEF s, codes
    <3> QED BY <1>3, <1>4, <1>5, FrameAnswered
  <2> QED BY <1>5, <2>1
<1> HIDE DEF at, code
<1>7. <<>> \in Seq(Byte) /\ Len(<<>>) = 0
  BY EmptySeq
<1>8. served'[c] = "length" /\ buffer'[c] = <<>> /\ length'[c] = LengthSize
  BY <1>1, <1>2 DEF NextFrame, TypeInv
<1>9. Append(codes, code) \in Seq(ErrorCode) /\ Len(Append(codes, code)) = Len(codes) + 1
  BY <1>3, <1>6, AppendProperties
<1>10. bytes \o sendError(code) \in Seq(Byte)
  <2>1. sendError(code) \in Seq(Byte)
    BY <1>6, ErrorFrame
  <2> HIDE DEF bytes
  <2> QED BY <1>3, <2>1, Joining
<1>11. answered'[c] = Append(codes, code)
  BY <1>1, <1>2 DEF TypeInv
<1>12. TypeInv'
  <2>1. /\ served' \in [Conn -> {"none", "length", "payload", "frame", "ended"}]
        /\ buffer' \in [Conn -> Seq(Byte)] /\ length' \in [Conn -> Nat]
    BY <1>1, <1>2, <1>3, <1>7 DEF TypeInv, NextFrame
  <2>2. written' \in [Conn -> Seq(Byte)] /\ answered' \in [Conn -> Seq(ErrorCode)]
    BY <1>1, <1>2, <1>9, <1>10 DEF TypeInv
  <2> QED BY <1>1, <1>2, <2>1, <2>2 DEF TypeInv
<1>13. Reading(s, read[c], "length", read[c], <<>>, LengthSize)
  <2>1. SubSeq(s, read[c] + 1, read[c]) = <<>>
    BY <1>3, SubSeqEmpty
  <2> QED BY <1>3, <1>7, <2>1 DEF Reading
<1>14. \E n \in Nat : /\ Answered(stream'[c], answered'[c], n)
                      /\ Reading(stream'[c], Parsed(stream'[c], n).at, served'[c], read'[c],
                                 buffer'[c], length'[c])
  <2>1. stream'[c] = s /\ read'[c] = read[c]
    BY <1>2
  <2>2. k + 1 \in Nat
    OBVIOUS
  <2> QED BY <1>6, <1>8, <1>11, <1>13, <2>1, <2>2
<1>15. PICK m \in Nat : Written(bytes, codes, m) /\ (client[c] # "reset" => m = Len(codes))
  BY <1>1 DEF ConnInv
<1>16. \E n \in Nat : /\ Written(written'[c], answered'[c], n)
                      /\ client'[c] # "reset" => n = Len(answered'[c])
  <2>1. CASE client[c] = "reset"
    <3>1. written'[c] = bytes /\ client'[c] = "reset"
      BY <1>2, <2>1
    <3>2. Written(bytes, Append(codes, code), m)
      <4> HIDE DEF bytes, codes
      <4> QED BY <1>3, <1>6, <1>15, WrittenKept
    <3> QED BY <1>11, <3>1, <3>2
  <2>2. CASE client[c] # "reset"
    <3>1. written'[c] = bytes \o sendError(code)
      BY <1>1, <1>2, <2>2 DEF TypeInv
    <3>2. Written(bytes \o sendError(code), Append(codes, code), Len(codes) + 1)
      <4>1. Written(bytes, codes, Len(codes))
        BY <1>15, <2>2
      <4> HIDE DEF bytes, codes
      <4> QED BY <1>3, <1>6, <4>1, WrittenOnceMore
    <3>3. Len(codes) + 1 \in Nat
      BY <1>3
    <3> QED BY <1>9, <1>11, <3>1, <3>2, <3>3
  <2> QED BY <2>1, <2>2
<1>17. read'[c] <= sent'[c] /\ sent'[c] <= Len(stream'[c])
  BY <1>1, <1>2 DEF ConnInv
<1>18. client'[c] \notin Waiting
  BY <1>1, <1>2 DEF ConnInv
<1> QED BY <1>12, <1>14, <1>16, <1>17, <1>18 DEF ConnInv

\* What each action does to a connection it is not about.
LEMMA OthersKept ==
    ASSUME IInv, NEW c \in Conn, NEW d \in Conn, d # c,
           \/ Accept(c) \/ Read(c) \/ ReadFails(c) \/ Answer(c)
           \/ Connect(c) \/ Send(c) \/ Close(c) \/ Reset(c) \/ Take(c)
    PROVE  ConnInv(d)'
<1>1. TypeInv /\ ConnInv(d)
  BY DEF IInv
<1> DEFINE Kept == /\ client'[d] = client[d] /\ sent'[d] = sent[d]
                   /\ stream'[d] = stream[d] /\ read'[d] = read[d] /\ served'[d] = served[d]
                   /\ buffer'[d] = buffer[d] /\ length'[d] = length[d]
                   /\ written'[d] = written[d] /\ answered'[d] = answered[d]
<1>2. CASE Accept(c)
  <2>1. Kept
    BY <1>1, <1>2 DEF Accept, TypeInv
  <2> QED BY <1>1, <2>1, Untouched
<1>3. CASE Read(c)
  <2>1. /\ read' = [read EXCEPT ![c] = @ + Available(c)]
        /\ UNCHANGED <<client, sent, stream, written, answered>>
    BY <1>3 DEF Read, peers
  <2>2. served'[d] = served[d] /\ buffer'[d] = buffer[d] /\ length'[d] = length[d]
    <3> DEFINE bytes == buffer[c] \o SubSeq(stream[c], read[c] + 1, read[c] + Available(c))
    <3>1. \/ buffer' = [buffer EXCEPT ![c] = bytes] /\ UNCHANGED <<served, length>>
          \/ ReadLength(c, bytes) \/ ReadPayload(c, bytes)
      BY <1>3 DEF Read
    <3> HIDE DEF bytes
    <3> QED BY <1>1, <3>1 DEF ReadLength, ReadPayload, NextFrame, Return, TypeInv
  <2>3. Kept
    BY <1>1, <2>1, <2>2 DEF TypeInv
  <2> QED BY <1>1, <2>3, Untouched
<1>4. CASE ReadFails(c)
  <2>1. Kept
    BY <1>1, <1>4 DEF ReadFails, Return, peers, TypeInv
  <2> QED BY <1>1, <2>1, Untouched
<1>5. CASE Answer(c)
  <2>1. Kept
    BY <1>1, <1>5 DEF Answer, NextFrame, peers, TypeInv
  <2> QED BY <1>1, <2>1, Untouched
<1>6. CASE Connect(c)
  <2>1. Kept
    BY <1>1, <1>6 DEF Connect, serving, TypeInv
  <2> QED BY <1>1, <2>1, Untouched
<1>7. CASE Send(c)
  <2>1. Kept
    BY <1>1, <1>7 DEF Send, serving, TypeInv
  <2> QED BY <1>1, <2>1, Untouched
<1>8. CASE Close(c)
  <2>1. Kept
    BY <1>1, <1>8 DEF Close, serving, TypeInv
  <2> QED BY <1>1, <2>1, Untouched
<1>9. CASE Reset(c)
  <2>1. Kept
    BY <1>1, <1>9 DEF Reset, serving, TypeInv
  <2> QED BY <1>1, <2>1, Untouched
<1>10. CASE Take(c)
  <2>1. Kept
    BY <1>10 DEF Take, accepting, serving
  <2> QED BY <1>1, <2>1, Untouched
<1> QED BY <1>2, <1>3, <1>4, <1>5, <1>6, <1>7, <1>8, <1>9, <1>10

\* The steps that are about no connection refuse clients, at most.
LEMMA LoopInv ==
    ASSUME IInv, Cancel \/ CloseListener \/ AcceptFails \/ CheckDone
    PROVE  IInv'
<1>1. TypeInv /\ \A c \in Conn : ConnInv(c)
  BY DEF IInv
<1>2. UNCHANGED <<stream, sent, serving>> /\ (UNCHANGED client \/ Refuse)
  <2>1. CASE Cancel
    BY <2>1 DEF Cancel, peers
  <2>2. CASE CloseListener
    BY <2>2 DEF CloseListener
  <2>3. CASE AcceptFails
    BY <2>3 DEF AcceptFails, peers
  <2>4. CASE CheckDone
    BY <2>4 DEF CheckDone
  <2> QED BY <2>1, <2>2, <2>3, <2>4
<1>3. /\ client' \in [Conn -> {"idle", "connecting", "refused", "open", "closed", "reset"}]
      /\ \A c \in Conn : /\ client'[c] # "reset" => client[c] # "reset"
                         /\ client'[c] \in Waiting => client[c] \in Waiting
  BY <1>1, <1>2 DEF Refuse, TypeInv, Waiting
<1>4. TypeInv'
  BY <1>1, <1>2, <1>3 DEF TypeInv, serving
<1>5. ASSUME NEW c \in Conn
      PROVE  ConnInv(c)'
  <2>1. read[c] <= sent[c] /\ sent[c] <= Len(stream[c]) /\ ConnInv(c)
    BY <1>1 DEF ConnInv
  <2>2. /\ stream'[c] = stream[c] /\ read'[c] = read[c] /\ served'[c] = served[c]
        /\ buffer'[c] = buffer[c] /\ length'[c] = length[c]
        /\ written'[c] = written[c] /\ answered'[c] = answered[c] /\ sent'[c] = sent[c]
    BY <1>2 DEF serving
  <2> QED BY <1>3, <2>1, <2>2, ServerIdle
<1> QED BY <1>4, <1>5 DEF IInv

\* The end of the process ends every connection that was accepted.
LEMMA ExitInv ==
    ASSUME IInv, Exit
    PROVE  IInv'
<1>1. TypeInv /\ \A c \in Conn : ConnInv(c)
  BY DEF IInv
<1>2. /\ client' = [c \in Conn |->
                     IF client[c] = "connecting" THEN "refused"
                     ELSE IF client[c] \in {"open", "closed"} THEN "reset" ELSE client[c]]
      /\ served' = [c \in Conn |-> IF served[c] = "none" THEN "none" ELSE "ended"]
      /\ buffer' = [c \in Conn |-> <<>>]
      /\ UNCHANGED <<stream, sent, read, length, written, answered>>
  BY DEF Exit
<1>3. TypeInv'
  <2>1. <<>> \in Seq(Byte)
    BY EmptySeq
  <2> QED BY <1>1, <1>2, <2>1 DEF TypeInv
<1>4. ASSUME NEW c \in Conn
      PROVE  ConnInv(c)'
  <2>1. /\ client'[c] # "reset" => client[c] # "reset"
        /\ client'[c] \in Waiting => client[c] \in Waiting
        /\ served'[c] = IF served[c] = "none" THEN "none" ELSE "ended"
        /\ buffer'[c] = <<>>
    BY <1>1, <1>2 DEF TypeInv, Waiting
  <2>2. client'[c] \in Waiting => served'[c] = "none"
    BY <1>1, <2>1 DEF ConnInv
  <2>3. PICK n \in Nat :
          /\ Answered(stream[c], answered[c], n)
          /\ Reading(stream[c], Parsed(stream[c], n).at, served[c], read[c], buffer[c], length[c])
    BY <1>1 DEF ConnInv
  <2> DEFINE at == Parsed(stream[c], n).at
  <2>4. Reading(stream[c], at, served'[c], read[c], buffer'[c], length[c])
    <3> HIDE DEF at
    <3>1. Reading(stream[c], at, served[c], read[c], buffer[c], length[c])
      BY <2>3 DEF at
    <3> QED BY <2>1, <3>1 DEF Reading
  <2>5. \E m \in Nat : /\ Written(written[c], answered[c], m)
                       /\ client'[c] # "reset" => m = Len(answered[c])
    BY <1>1, <2>1 DEF ConnInv
  <2>6. read[c] <= sent[c] /\ sent[c] <= Len(stream[c])
    BY <1>1 DEF ConnInv
  <2> QED BY <1>2, <2>2, <2>3, <2>4, <2>5, <2>6 DEF ConnInv
<1> QED BY <1>3, <1>4 DEF IInv

\* What each action does to the connection it is about.
LEMMA StepInv ==
    ASSUME IInv, NEW c \in Conn,
           \/ Accept(c) \/ Read(c) \/ ReadFails(c) \/ Answer(c)
           \/ Connect(c) \/ Send(c) \/ Close(c) \/ Reset(c) \/ Take(c)
    PROVE  TypeInv' /\ ConnInv(c)'
<1>1. TypeInv /\ ConnInv(c)
  BY DEF IInv
<1>2. /\ read[c] <= sent[c] /\ sent[c] <= Len(stream[c]) /\ stream[c] \in Seq(Byte)
      /\ read[c] \in Nat /\ sent[c] \in Nat /\ Len(stream[c]) \in Nat
      /\ LengthSize \in Nat \ {0}
  BY <1>1, LenProperties, WireAssumption DEF ConnInv, TypeInv
<1>3. PICK k \in Nat :
        /\ Answered(stream[c], answered[c], k)
        /\ Reading(stream[c], Parsed(stream[c], k).at, served[c], read[c], buffer[c], length[c])
  BY <1>1 DEF ConnInv
<1>4. \E n \in Nat : /\ Written(written[c], answered[c], n)
                     /\ client[c] # "reset" => n = Len(answered[c])
  BY <1>1 DEF ConnInv
<1> DEFINE at == Parsed(stream[c], k).at
<1> HIDE DEF at
<1>5. CASE Accept(c)
  <2>1. TypeInv'
    BY <1>1, <1>2, <1>5 DEF Accept, TypeInv
  <2>2. /\ client[c] = "connecting" /\ client'[c] = "open"
        /\ served'[c] = "length" /\ length'[c] = LengthSize
        /\ UNCHANGED <<stream, sent, read, buffer, written, answered>>
    BY <1>1, <1>5 DEF Accept, TypeInv
  <2>3. served[c] = "none"
    BY <1>1, <2>2 DEF ConnInv, Waiting
  <2>4. at = 0 /\ read[c] = 0 /\ buffer[c] = <<>>
    BY <1>3, <2>3 DEF Reading, at
  <2>5. Reading(stream[c], at, "length", read[c], buffer[c], LengthSize)
    <3>1. Len(<<>>) = 0 /\ SubSeq(stream[c], 1, 0) = <<>>
      BY <1>2, EmptySeq, SubSeqEmpty
    <3> QED BY <1>2, <2>4, <3>1 DEF Reading
  <2>6. client'[c] \notin Waiting
    BY <2>2 DEF Waiting
  <2> QED BY <1>2, <1>3, <1>4, <2>1, <2>2, <2>5, <2>6 DEF ConnInv, at
<1>6. CASE Read(c)
  BY <1>6, ReadInv
<1>7. CASE ReadFails(c)
  <2>1. <<>> \in Seq(Byte)
    BY EmptySeq
  <2>2. TypeInv'
    BY <1>1, <1>7, <2>1 DEF ReadFails, Return, peers, TypeInv
  <2>3. served'[c] = "ended" /\ UNCHANGED <<client, stream, sent, read, written, answered>>
    BY <1>1, <1>7 DEF ReadFails, Return, peers, TypeInv
  <2>4. Reading(stream[c], at, "ended", read[c], buffer'[c], length'[c])
    BY DEF Reading
  <2>5. client[c] \notin Waiting
    BY <1>1, <1>7 DEF ReadFails, ConnInv
  <2> QED BY <1>2, <1>3, <1>4, <2>2, <2>3, <2>4, <2>5 DEF ConnInv, at
<1>8. CASE Answer(c)
  BY <1>8, AnswerInv
<1> DEFINE Idle == /\ stream'[c] = stream[c] /\ read'[c] = read[c] /\ served'[c] = served[c]
                   /\ buffer'[c] = buffer[c] /\ length'[c] = length[c]
                   /\ written'[c] = written[c] /\ answered'[c] = answered[c]
                   /\ read[c] <= sent'[c] /\ sent'[c] <= Len(stream[c])
                   /\ client'[c] # "reset" => client[c] # "reset"
                   /\ client'[c] \in Waiting => client[c] \in Waiting
<1>9. CASE Connect(c)
  <2>1. TypeInv'
    BY <1>1, <1>9 DEF Connect, serving, TypeInv
  <2>2. Idle
    BY <1>1, <1>2, <1>9 DEF Connect, serving, TypeInv, Waiting
  <2> QED BY <1>1, <2>1, <2>2, ServerIdle
<1>10. CASE Send(c)
  <2>1. PICK n \in (sent[c] + 1)..Len(stream[c]) : sent' = [sent EXCEPT ![c] = n]
    BY <1>10 DEF Send
  <2>2. n \in Nat /\ read[c] <= n /\ n <= Len(stream[c])
    BY <1>2
  <2>3. TypeInv'
    BY <1>1, <1>10, <2>1, <2>2 DEF Send, serving, TypeInv
  <2>4. Idle
    BY <1>1, <1>10, <2>1, <2>2 DEF Send, serving, TypeInv, Waiting
  <2> QED BY <1>1, <2>3, <2>4, ServerIdle
<1>11. CASE Close(c)
  <2>1. TypeInv'
    BY <1>1, <1>11 DEF Close, serving, TypeInv
  <2>2. Idle
    BY <1>1, <1>2, <1>11 DEF Close, serving, TypeInv, Waiting
  <2> QED BY <1>1, <2>1, <2>2, ServerIdle
<1>12. CASE Reset(c)
  <2>1. PICK n \in read[c]..sent[c] : sent' = [sent EXCEPT ![c] = n]
    BY <1>12 DEF Reset
  <2>2. n \in Nat /\ read[c] <= n /\ n <= Len(stream[c])
    BY <1>2
  <2>3. TypeInv'
    BY <1>1, <1>12, <2>1, <2>2 DEF Reset, serving, TypeInv
  <2>4. Idle
    BY <1>1, <1>12, <2>1, <2>2 DEF Reset, serving, TypeInv, Waiting
  <2> QED BY <1>1, <2>3, <2>4, ServerIdle
<1>13. CASE Take(c)
  <2>1. UNCHANGED <<client, stream, sent, served, read, buffer, length, written, answered>>
    BY <1>13 DEF Take, accepting, serving
  <2>2. TypeInv'
    BY <1>1, <2>1 DEF TypeInv
  <2>3. Idle
    BY <1>2, <2>1
  <2> QED BY <1>1, <2>2, <2>3, ServerIdle
<1> QED BY <1>5, <1>6, <1>7, <1>8, <1>9, <1>10, <1>11, <1>12, <1>13

LEMMA NextIInv == IInv /\ [Next]_vars => IInv'
<1> SUFFICES ASSUME IInv, [Next]_vars
             PROVE  IInv'
  OBVIOUS
<1>1. CASE Cancel \/ CloseListener \/ AcceptFails \/ CheckDone
  BY <1>1, LoopInv
<1>2. ASSUME NEW c \in Conn,
             \/ Accept(c) \/ Read(c) \/ ReadFails(c) \/ Answer(c)
             \/ Connect(c) \/ Send(c) \/ Close(c) \/ Reset(c) \/ Take(c)
      PROVE  IInv'
  <2>1. TypeInv' /\ ConnInv(c)'
    BY <1>2, StepInv
  <2>2. \A d \in Conn : d # c => ConnInv(d)'
    BY <1>2, OthersKept
  <2> QED BY <2>1, <2>2 DEF IInv
<1>3. CASE UNCHANGED vars
  <2>1. /\ UNCHANGED <<client, stream, sent>>
        /\ UNCHANGED <<served, read, buffer, length, written, answered>>
    BY <1>3 DEF vars, peers, serving
  <2>2. TypeInv /\ \A c \in Conn : ConnInv(c)
    BY DEF IInv
  <2>3. TypeInv'
    BY <2>1, <2>2 DEF TypeInv
  <2>4. \A c \in Conn : ConnInv(c)'
    BY <2>1, <2>2, Untouched
  <2> QED BY <2>3, <2>4 DEF IInv
<1>4. CASE Exit
  BY <1>4, ExitInv
<1> QED BY <1>1, <1>2, <1>3, <1>4 DEF Next

LEMMA IInvInOrder == IInv => AnswersInOrder
<1> SUFFICES ASSUME IInv, NEW c \in Conn
             PROVE  LET errorFrames == [i \in DOMAIN answered[c] |-> <<MessageTypeError, answered[c][i]>>]
                    IN  /\ IsPrefix(answered[c], Codes(stream[c]))
                        /\ IsPrefix(Answers(c), errorFrames)
                        /\ client[c] # "reset" => Answers(c) = errorFrames
  BY DEF AnswersInOrder
<1> DEFINE codes == answered[c]
           errorFrames == [i \in DOMAIN codes |-> <<MessageTypeError, codes[i]>>]
           frames == FramesOf(written[c])
           answers == Answers(c)
<1>1. /\ codes \in Seq(ErrorCode) /\ stream[c] \in Seq(Byte) /\ written[c] \in Seq(Byte)
      /\ Len(codes) \in Nat /\ ConnInv(c)
  BY LenProperties DEF IInv, TypeInv
<1>2. IsPrefix(codes, Codes(stream[c]))
  <2>1. PICK k \in Nat : Answered(stream[c], codes, k)
    BY <1>1 DEF ConnInv
  <2> QED BY <1>1, <2>1, AnsweredIsPrefix
<1>3. PICK n \in Nat : Written(written[c], codes, n) /\ (client[c] # "reset" => n = Len(codes))
  BY <1>1 DEF ConnInv
<1>4. /\ Len(frames) = n /\ frames \in Seq(Seq(Byte))
      /\ \A i \in 1..n : Told(frames[i]) = <<MessageTypeError, codes[i]>>
  <2> HIDE DEF codes
  <2> QED BY <1>1, <1>3, WrittenIsTold
<1>5. n <= Len(codes)
  BY <1>3 DEF Written
<1>6. answers = [i \in 1..n |-> Told(frames[i])]
  <2>1. DOMAIN frames = 1..n
    BY <1>4, LenProperties
  <2>2. answers = [i \in DOMAIN frames |-> Told(frames[i])]
    BY DEF Answers, Told
  <2> HIDE DEF answers, frames
  <2> QED BY <2>1, <2>2
<1>7. errorFrames = [i \in 1..Len(codes) |-> <<MessageTypeError, codes[i]>>]
  <2>1. DOMAIN codes = 1..Len(codes)
    BY <1>1, LenProperties
  <2> HIDE DEF codes
  <2> QED BY <2>1
<1> HIDE DEF frames, codes, answers, errorFrames
<1>8. answers = [i \in 1..n |-> <<MessageTypeError, codes[i]>>]
  BY <1>4, <1>6
<1> DEFINE Pair == {MessageTypeError} \X ErrorCode
<1>9. \A i \in 1..Len(codes) : <<MessageTypeError, codes[i]>> \in Pair
  BY <1>1, ElementOfSeq
<1> HIDE DEF Pair
<1>10. \A i \in 1..n : <<MessageTypeError, codes[i]>> \in Pair
  BY <1>1, <1>5, <1>9
<1>11. errorFrames \in [1..Len(codes) -> Pair] /\ answers \in [1..n -> Pair]
  BY <1>7, <1>8, <1>9, <1>10
<1>12. /\ errorFrames \in Seq(Pair) /\ Len(errorFrames) = Len(codes)
       /\ answers \in Seq(Pair) /\ Len(answers) = n
  BY <1>1, <1>11, SequenceOf
<1>13. \A i \in 1..n : answers[i] = errorFrames[i]
  BY <1>1, <1>5, <1>7, <1>8
<1>14. IsPrefix(answers, errorFrames)
  <2>1. SubSeq(answers, 1, n) = SubSeq(errorFrames, 1, n)
    BY <1>1, <1>5, <1>12, <1>13
  <2> QED BY <1>5, <1>12, <2>1 DEF IsPrefix
<1>15. client[c] # "reset" => answers = errorFrames
  BY <1>3, <1>7, <1>8
<1> QED BY <1>2, <1>14, <1>15 DEF answers, errorFrames, codes

\* However the stream of a connection is cut into pieces, its frames are
\* answered in order, each once, with the error it calls for; and what the
\* server writes is frames by the same rules, in which the client reads those
\* answers (readFrame, serveConnection, sendError).
THEOREM AnswersAlwaysInOrder == Spec => []AnswersInOrder
<1> HIDE DEF Fairness
<1> QED BY InitIInv, NextIInv, IInvInOrder, PTL DEF Spec
=============================================================================
