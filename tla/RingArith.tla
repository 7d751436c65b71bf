----------------------------- MODULE RingArith ------------------------------
(***************************************************************************)
(* Facts about positions and the slots of a ring they fall on, used in the *)
(* proofs about the rings.                                                 *)
(***************************************************************************)
EXTENDS Integers, Sequences, TLAPS

(* A position falls on one of the k slots. *)
LEMMA ModRange ==
  ASSUME NEW k \in Nat, k > 0, NEW a \in Nat
  PROVE  a % k \in 0 .. k - 1
BY SMT

(* The definition of remainder and quotient. *)
LEMMA DivMod ==
  ASSUME NEW k \in Nat, k > 0, NEW a \in Nat
  PROVE  /\ a \div k \in Nat
         /\ a = k * (a \div k) + (a % k)
BY SMT

(* Quotient and remainder are unique. *)
LEMMA ModUnique ==
  ASSUME NEW k \in Nat, k > 0, NEW a \in Nat, NEW p \in Nat, NEW r \in 0 .. k - 1,
         a = k * p + r
  PROVE  a % k = r
<1> DEFINE q == a \div k
           s == a % k
<1>1. q \in Nat /\ a = k * q + s
  BY DivMod
<1>2. s \in 0 .. k - 1
  BY ModRange
<1>3. k * p \in Nat /\ k * q \in Nat
  BY <1>1, SMT
<1> HIDE DEF q, s
<1>4. ~ (p < q)
  <2>1. p < q => k * p + k <= k * q
    BY <1>1, SMT
  <2> QED BY <2>1, <1>1, <1>2, <1>3, SMT
<1>5. ~ (q < p)
  <2>1. q < p => k * q + k <= k * p
    BY <1>1, SMT
  <2> QED BY <2>1, <1>1, <1>2, <1>3, SMT
<1>6. s = r
  BY <1>1, <1>2, <1>3, <1>4, <1>5, SMT
<1> QED BY <1>6 DEF s

(* One lap later the same slot comes round again. *)
LEMMA ModShift ==
  ASSUME NEW k \in Nat, k > 0, NEW a \in Nat
  PROVE  (a + k) % k = a % k
<1> DEFINE p == a \div k
<1>1. p \in Nat /\ a = k * p + (a % k) /\ a % k \in 0 .. k - 1
  BY DivMod, ModRange
<1>2. a + k = k * (p + 1) + (a % k)
  BY <1>1, SMT
<1> QED BY <1>1, <1>2, ModUnique, a + k \in Nat, p + 1 \in Nat, ZenonT(40)

(* Any k consecutive positions meet every slot. *)
LEMMA ModCover ==
  ASSUME NEW k \in Nat, k > 0, NEW a \in Nat, NEW c \in Nat
  PROVE  \E q \in c .. c + k - 1 : q % k = a % k
<1> DEFINE d == c \div k
           r == a % k
           q == IF r >= c % k THEN k * d + r ELSE k * (d + 1) + r
<1>1. d \in Nat /\ c = k * d + (c % k) /\ c % k \in 0 .. k - 1 /\ r \in 0 .. k - 1
  BY DivMod, ModRange
<1>2. k * d \in Nat /\ k * (d + 1) = k * d + k
  BY <1>1, SMT
<1>3. q \in c .. c + k - 1 /\ q \in Nat
  BY <1>1, <1>2, SMT
<1>4. q % k = r
  BY <1>1, <1>3, ModUnique, d + 1 \in Nat, ZenonT(40)
<1> QED BY <1>3, <1>4

(* Different positions of the same slot are at least one lap apart. *)
LEMMA ModApart ==
  ASSUME NEW k \in Nat, k > 0, NEW a \in Nat, NEW b \in Nat,
         a % k = b % k, a < b
  PROVE  a + k <= b
<1> DEFINE p == a \div k
           q == b \div k
<1>1. p \in Nat /\ q \in Nat /\ a = k * p + (a % k) /\ b = k * q + (b % k)
  BY DivMod
<1>2. a % k \in Int
  BY ModRange
<1>3. k * p < k * q
  BY <1>1, <1>2, SMT
<1>4. p < q
  BY <1>1, <1>3, SMT
<1>5. k * (p + 1) <= k * q
  BY <1>1, <1>4, SMT
<1> QED BY <1>1, <1>2, <1>5, SMT

(* Nor does a whole number of laps move a position to another slot. *)
LEMMA ModMultiple ==
  ASSUME NEW k \in Nat, k > 0, NEW m \in Nat, m % k = 0, NEW a \in Nat
  PROVE  (a + m) % k = a % k
<1> DEFINE p == a \div k
           q == m \div k
<1>1. /\ p \in Nat /\ a = k * p + (a % k) /\ a % k \in 0 .. k - 1
      /\ q \in Nat /\ m = k * q
  BY DivMod, ModRange
<1>2. p + q \in Nat /\ k * (p + q) = k * p + k * q
  BY <1>1, SMT
<1>3. a + m = k * (p + q) + (a % k) /\ a + m \in Nat
  BY <1>1, <1>2, SMT
<1> QED BY <1>1, <1>2, <1>3, ModUnique, ZenonT(40)

(* What the remainder is for a value at most one modulus out of range: an  *)
(* unsigned index after one addition or one subtraction.                   *)
LEMMA WrapOnce ==
  ASSUME NEW m \in Nat, m > 0, NEW a \in Int, -m <= a, a < 2 * m
  PROVE  a % m = IF a < 0 THEN a + m ELSE IF a < m THEN a ELSE a - m
BY SMT

(* A function on 1 .. n + 1 that agrees with a sequence of n elements is   *)
(* the sequence with its last value appended.                              *)
LEMMA AppendTo ==
  ASSUME NEW n \in Nat, NEW S, NEW q \in [1 .. n -> S], NEW r \in [1 .. n + 1 -> S],
         \A i \in 1 .. n : r[i] = q[i]
  PROVE  r = Append(q, r[n + 1]) /\ Len(q) = n
<1> DEFINE e == r[n + 1]
           a == Append(q, e)
<1>1. q \in Seq(S) /\ Len(q) = n /\ r \in Seq(S) /\ Len(r) = n + 1 /\ e \in S
  OBVIOUS
<1> HIDE DEF e
<1>2. a \in Seq(S) /\ Len(a) = n + 1 /\ a[n + 1] = e /\ \A i \in 1 .. n : a[i] = q[i]
  BY <1>1
<1>3. \A i \in 1 .. n + 1 : i \in 1 .. n \/ i = n + 1
  OBVIOUS
<1>4. \A i \in 1 .. n + 1 : r[i] = a[i]
  BY <1>2, <1>3 DEF e
<1> HIDE DEF a
<1>5. r = a
  <2>1. a \in [1 .. n + 1 -> S]
    BY <1>2
  <2> QED BY <1>4, <2>1
<1> QED BY <1>1, <1>5 DEF a, e

(* A function that is a sequence of n elements moved down by one is its    *)
(* tail.                                                                   *)
LEMMA TailOf ==
  ASSUME NEW n \in Nat, n > 0, NEW S, NEW q \in [1 .. n -> S], NEW r \in [1 .. n - 1 -> S],
         \A i \in 1 .. n - 1 : r[i] = q[i + 1]
  PROVE  r = Tail(q) /\ q # <<>> /\ Head(q) = q[1]
<1> DEFINE t == Tail(q)
<1>1. /\ q \in Seq(S) /\ Len(q) = n /\ q # <<>> /\ Head(q) = q[1]
      /\ r \in Seq(S) /\ Len(r) = n - 1
  OBVIOUS
<1>2. t \in Seq(S) /\ Len(t) = n - 1 /\ \A i \in 1 .. n - 1 : t[i] = q[i + 1]
  BY <1>1
<1> HIDE DEF t
<1>3. r = t
  <2>1. t \in [1 .. n - 1 -> S]
    BY <1>2
  <2> QED BY <1>2, <2>1
<1> QED BY <1>1, <1>3 DEF t

(* Sequences of the same length with the same elements are the same. *)
LEMMA SameElements ==
  ASSUME NEW S, NEW q \in Seq(S), NEW r \in Seq(S),
         Len(q) = Len(r), \A i \in 1 .. Len(q) : q[i] = r[i]
  PROVE  q = r
<1> DEFINE n == Len(q)
<1>1. n \in Nat /\ q \in [1 .. n -> S] /\ r \in [1 .. n -> S]
  OBVIOUS
<1> QED BY <1>1

(* The elements of a concatenation. *)
LEMMA Concatenation ==
  ASSUME NEW S, NEW q \in Seq(S), NEW r \in Seq(S)
  PROVE  /\ q \o r \in Seq(S) /\ Len(q \o r) = Len(q) + Len(r)
         /\ \A i \in 1 .. Len(q) + Len(r) :
              (q \o r)[i] = IF i <= Len(q) THEN q[i] ELSE r[i - Len(q)]
OBVIOUS
=============================================================================
