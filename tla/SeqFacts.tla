--------------------------------- MODULE SeqFacts ---------------------------------
(***************************************************************************)
(* Facts about sequences used as FIFOs and queues, whatever they hold,     *)
(* induction over the natural numbers, and the blocks numbers fall into:   *)
(* what the proofs about the SPI, I2C and USB drivers rest on.             *)
(***************************************************************************)
EXTENDS Integers, Sequences, SequenceTheorems, FiniteSetTheorems, TLAPS

-----------------------------------------------------------------------------
(* Induction.  The library's theorem is about an operator; this one is      *)
(* about a set, which the provers can be given.                             *)

(* A set of numbers has a least one: the initial segments that end in the   *)
(* set are finite sets, and finite sets are well-founded by inclusion.      *)
LEMMA LeastNatural ==
  ASSUME NEW T \in SUBSET Nat, T # {}
  PROVE  \E x \in T : \A y \in T : x <= y
<1> DEFINE Segments == {0 .. x : x \in T}
<1>1. Segments \subseteq FiniteSubsetsOf(Nat) /\ Segments # {}
  <2>1. \A x \in T : 0 .. x \in SUBSET Nat /\ IsFiniteSet(0 .. x)
    BY FS_Interval
  <2>2. QED
    BY <2>1 DEF FiniteSubsetsOf
<1>2. PICK u \in Segments : \A v \in Segments : ~ (<<v, u>> \in StrictSubsetOrdering(Nat))
  BY <1>1, WFMin, FS_StrictSubsetOrderingWellFounded
<1>3. PICK x \in T : u = 0 .. x
  BY <1>2
<1>4. ASSUME NEW y \in T PROVE x <= y
  <2> SUFFICES ASSUME y < x PROVE FALSE
    OBVIOUS
  <2>1. /\ 0 .. y \in SUBSET Nat /\ 0 .. x \in SUBSET Nat
        /\ 0 .. y \subseteq 0 .. x /\ 0 .. y # 0 .. x
    BY <1>3, <1>4
  <2>2. <<0 .. y, 0 .. x>> \in StrictSubsetOrdering(Nat)
    BY <2>1 DEF StrictSubsetOrdering
  <2>3. QED
    BY <1>2, <1>3, <1>4, <2>2
<1>5. QED
  BY <1>3, <1>4

(* A set that has 0, and n + 1 with every n, has every number.              *)
LEMMA Induct ==
  ASSUME NEW S, 0 \in S, \A n \in Nat : n \in S => n + 1 \in S
  PROVE  Nat \subseteq S
<1> SUFFICES ASSUME Nat \ S # {} PROVE FALSE
  OBVIOUS
<1>1. PICK x \in Nat \ S : \A y \in Nat \ S : x <= y
  BY LeastNatural
<1>2. x # 0 /\ x - 1 \in Nat /\ (x - 1) + 1 = x
  BY <1>1
<1>3. x - 1 \in S
  BY <1>1, <1>2
<1>4. QED
  BY <1>1, <1>2, <1>3

-----------------------------------------------------------------------------
(* Sequences.                                                               *)

(* A sequence, of whatever it holds.                                        *)
IsSeq(s) == s \in Seq({s[i] : i \in DOMAIN s})

(* A sequence over any set is one.                                          *)
LEMMA SeqIsSeq ==
  ASSUME NEW S, NEW s \in Seq(S) PROVE IsSeq(s) /\ Len(s) \in Nat
BY DEF IsSeq

(* So is a function on 1 .. n.                                              *)
LEMMA FunctionIsSeq ==
  ASSUME NEW S, NEW n \in Nat, NEW f \in [1 .. n -> S] PROVE IsSeq(f)
<1>1. f \in Seq(S)
  OBVIOUS
<1>2. QED
  BY <1>1, SeqIsSeq

(* An element comes in at the end.                                          *)
LEMMA PushSeq ==
  ASSUME NEW s, IsSeq(s), NEW w
  PROVE  /\ IsSeq(Append(s, w)) /\ Len(Append(s, w)) = Len(s) + 1
         /\ \A i \in 1 .. Len(s) : Append(s, w)[i] = s[i]
         /\ Append(s, w)[Len(s) + 1] = w
<1> DEFINE S == {s[i] : i \in DOMAIN s} \cup {w}
           t == Append(s, w)
<1>1. s \in Seq(S) /\ w \in S
  BY DEF IsSeq
<1>2. /\ t \in Seq(S) /\ Len(t) = Len(s) + 1
      /\ \A i \in 1 .. Len(s) : t[i] = s[i]
      /\ t[Len(s) + 1] = w
  BY <1>1, AppendProperties, LenProperties
<1>3. IsSeq(t)
  BY <1>2, SeqIsSeq
<1>4. QED
  BY <1>2, <1>3

(* One goes out at the front.                                               *)
LEMMA PopSeq ==
  ASSUME NEW s, IsSeq(s), s # <<>>
  PROVE  /\ IsSeq(Tail(s)) /\ Len(Tail(s)) = Len(s) - 1 /\ Len(s) >= 1
         /\ \A i \in 1 .. Len(s) - 1 : Tail(s)[i] = s[i + 1]
<1> DEFINE S == {s[i] : i \in DOMAIN s}
           t == Tail(s)
<1>1. s \in Seq(S)
  BY DEF IsSeq
<1>2. /\ t \in Seq(S) /\ Len(t) = Len(s) - 1 /\ Len(s) \in Nat \ {0}
      /\ \A i \in 1 .. Len(s) - 1 : t[i] = s[i + 1]
  BY <1>1, HeadTailProperties, EmptySeq
<1>3. IsSeq(t)
  BY <1>2, SeqIsSeq
<1>4. QED
  BY <1>2, <1>3

(* A concatenation is not shorter than its first part.                      *)
LEMMA ConcatSeq ==
  ASSUME NEW S, NEW s \in Seq(S), NEW t \in Seq(S)
  PROVE  s \o t \in Seq(S) /\ Len(s) \in Nat /\ Len(s \o t) \in Nat /\ Len(s \o t) >= Len(s)
<1>1. s \o t \in Seq(S) /\ Len(s \o t) = Len(s) + Len(t)
  BY ConcatProperties
<1>2. Len(s) \in Nat /\ Len(t) \in Nat
  BY LenProperties
<1>3. QED
  BY <1>1, <1>2

(* A FIFO is empty exactly when its length is 0.                            *)
LEMMA LengthOfSeq ==
  /\ IsSeq(<<>>) /\ Len(<<>>) = 0
  /\ \A s : IsSeq(s) => Len(s) \in Nat /\ (Len(s) = 0 <=> s = <<>>)
<1>1. IsSeq(<<>>) /\ Len(<<>>) = 0
  BY DEF IsSeq
<1>2. ASSUME NEW s, IsSeq(s) PROVE Len(s) \in Nat /\ (Len(s) = 0 <=> s = <<>>)
  <2> DEFINE S == {s[i] : i \in DOMAIN s}
  <2>1. s \in Seq(S)
    BY <1>2 DEF IsSeq
  <2>2. QED
    BY <1>1, <2>1, EmptySeq
<1>3. QED
  BY <1>1, <1>2

-----------------------------------------------------------------------------
(* Blocks: the numbers with one quotient.                                   *)

(* A number between 0 and b - 1 that differs from a by a multiple of b.     *)
LEMMA Quotient ==
  ASSUME NEW a \in Int, NEW b \in Nat \ {0}, NEW q \in Int, NEW r \in 0 .. b - 1, a = b * q + r
  PROVE  a \div b = q /\ a % b = r
<1> DEFINE y == a \div b
           x == q - y
           e == a % b
<1>1. e \in 0 .. b - 1 /\ a = b * y + e /\ y \in Int
  OBVIOUS
<1>2. x \in Int /\ b * x = e - r /\ y = q - x
  BY <1>1
<1> HIDE DEF x, e, y
<1>3. ~(x >= 1)
  <2> SUFFICES ASSUME x >= 1 PROVE FALSE
    OBVIOUS
  <2>1. b * x >= b
    BY <1>2
  <2> QED BY <1>1, <1>2, <2>1
<1>4. ~(x <= -1)
  <2> SUFFICES ASSUME x <= -1 PROVE FALSE
    OBVIOUS
  <2>1. b * x <= -b
    BY <1>2
  <2> QED BY <1>1, <1>2, <2>1
<1>5. x = 0
  BY <1>2, <1>3, <1>4
<1>6. e = r /\ y = q
  BY <1>1, <1>2, <1>5
<1> QED BY <1>6 DEF e, y

(* Quotient and remainder.                                                  *)
LEMMA Division ==
  ASSUME NEW a \in Int, NEW b \in Nat \ {0}
  PROVE  a \div b \in Int /\ a % b \in 0 .. b - 1 /\ a = b * (a \div b) + (a % b)
OBVIOUS

(* The numbers that have a quotient are the b from its multiple on.         *)
LEMMA SameQuotient ==
  ASSUME NEW a \in Int, NEW b \in Nat \ {0}, a % b = 0, NEW i \in Int
  PROVE  /\ (i \div b = a \div b) <=> (a <= i /\ i < a + b)
         /\ a <= i /\ i < a + b => (i - a) % b = i - a
<1> DEFINE q == a \div b
           p == i \div b
           r == i % b
<1>1. q \in Int /\ a = b * q
  BY Division
<1>2. p \in Int /\ r \in 0 .. b - 1 /\ i = b * p + r
  BY Division
<1>3. ASSUME p = q PROVE a <= i /\ i < a + b
  <2> HIDE DEF p, q, r
  <2> QED BY <1>1, <1>2, <1>3
<1>4. ASSUME a <= i, i < a + b PROVE i \div b = q /\ (i - a) % b = i - a
  <2>1. i - a \in 0 .. b - 1 /\ i = b * q + (i - a) /\ i - a = b * 0 + (i - a) /\ i - a \in Int
    <3> HIDE DEF p, q, r
    <3> QED BY <1>1, <1>4
  <2>2. i \div b = q
    <3> HIDE DEF q
    <3> QED BY <1>1, <2>1, Quotient
  <2>3. (i - a) % b = i - a
    <3> HIDE DEF q
    <3> DEFINE k == i - a
    <3>1. k \in 0 .. b - 1 /\ k = b * 0 + k /\ k \in Int
      BY <2>1
    <3> HIDE DEF k
    <3>2. k % b = k
      BY <3>1, Quotient
    <3> QED BY <3>2 DEF k
  <2> QED BY <2>2, <2>3
<1> QED BY <1>3, <1>4

(* Multiples add up.                                                        *)
LEMMA MultiplesAdd ==
  ASSUME NEW a \in Int, NEW c \in Int, NEW b \in Nat \ {0}, a % b = 0, c % b = 0
  PROVE  (a + c) % b = 0
<1> DEFINE p == a \div b
           q == c \div b
<1>1. p \in Int /\ a = b * p /\ q \in Int /\ c = b * q
  BY Division
<1> HIDE DEF p, q
<1>2. a + c = b * (p + q) + 0 /\ p + q \in Int /\ a + c \in Int /\ 0 \in 0 .. b - 1
  BY <1>1
<1>3. (a + c) % b = 0
  BY <1>2, Quotient
<1> QED BY <1>3

LEMMA MultipleOfItself ==
  ASSUME NEW b \in Nat \ {0} PROVE b % b = 0 /\ 0 % b = 0
<1>1. b = b * 1 + 0 /\ 0 = b * 0 + 0 /\ 0 \in 0 .. b - 1
  OBVIOUS
<1> QED BY <1>1, Quotient

(* Between multiples there is room for one more.                            *)
LEMMA MultiplesApart ==
  ASSUME NEW a \in Int, NEW c \in Int, NEW b \in Nat \ {0}, a % b = 0, c % b = 0, a < c
  PROVE  a + b <= c
<1> DEFINE p == a \div b
           q == c \div b
<1>1. p \in Int /\ a = b * p /\ q \in Int /\ c = b * q
  BY Division
<1> HIDE DEF p, q
<1>2. p < q
  <2> SUFFICES ASSUME q <= p PROVE FALSE
    BY <1>1
  <2>1. b * q <= b * p
    BY <1>1
  <2> QED BY <1>1, <2>1
<1>3. p + 1 <= q
  BY <1>1, <1>2
<1>4. b * (p + 1) <= b * q
  BY <1>1, <1>3
<1>5. b * (p + 1) = b * p + b
  BY <1>1
<1> QED BY <1>1, <1>4, <1>5

(* Quotients grow with the number.                                          *)
LEMMA QuotientGrows ==
  ASSUME NEW i \in Int, NEW j \in Int, NEW b \in Nat \ {0}, i <= j
  PROVE  i \div b <= j \div b
<1> DEFINE p == i \div b
           q == j \div b
<1>1. p \in Int /\ i = b * p + (i % b) /\ i % b \in 0 .. b - 1
  BY Division
<1>2. q \in Int /\ j = b * q + (j % b) /\ j % b \in 0 .. b - 1
  BY Division
<1> SUFFICES ASSUME q < p PROVE FALSE
  BY <1>1, <1>2
<1> DEFINE r == i % b
           s == j % b
<1> HIDE DEF p, q, r, s
<1>3. q + 1 <= p
  BY <1>1, <1>2
<1>4. b * (q + 1) <= b * p /\ b * (q + 1) = b * q + b
  BY <1>1, <1>2, <1>3
<1>5. i = b * p + r /\ r >= 0 /\ j = b * q + s /\ s < b
  BY <1>1, <1>2 DEF p, q, r, s
<1> QED BY <1>1, <1>2, <1>4, <1>5

(* A block lies in a larger one whose size is a multiple.                   *)
LEMMA SameBlock ==
  ASSUME NEW i \in Int, NEW j \in Int, NEW b \in Nat \ {0}, NEW c \in Nat \ {0},
         c % b = 0, i \div b = j \div b
  PROVE  i \div c = j \div c
<1> DEFINE m == c \div b
           p == i \div b
           q == i \div c
           r == i % c
<1>1. m \in Int /\ c = b * m
  BY Division
<1>2. m >= 1
  <2> HIDE DEF m
  <2> SUFFICES ASSUME m <= 0 PROVE FALSE
    BY <1>1
  <2>1. b * m <= 0
    BY <1>1
  <2> QED BY <1>1, <2>1
<1>3. p \in Int /\ i = b * p + (i % b) /\ i % b \in 0 .. b - 1 /\ j = b * p + (j % b) /\ j % b \in 0 .. b - 1
  BY Division
<1>4. q \in Int /\ r \in 0 .. c - 1 /\ i = c * q + r
  BY Division
<1> DEFINE s == i % b
           t == j % b
<1>5. i = b * p + s /\ s \in 0 .. b - 1 /\ j = b * p + t /\ t \in 0 .. b - 1 /\ p \in Int
  BY <1>3
<1> HIDE DEF m, p, q, r, s, t
<1> DEFINE u == p - m * q
<1>6. u \in Int /\ b * u = b * p - c * q
  <2>1. b * (p - m * q) = b * p - b * (m * q) /\ b * (m * q) = (b * m) * q
    BY <1>1, <1>4, <1>5
  <2> QED BY <1>1, <1>4, <1>5, <2>1
<1>7. b * u = r - s
  BY <1>1, <1>4, <1>5, <1>6
<1> HIDE DEF u
<1>8. u >= 0
  <2> SUFFICES ASSUME u <= -1 PROVE FALSE
    BY <1>6
  <2>1. b * u <= -b
    BY <1>6
  <2> QED BY <1>4, <1>5, <1>7, <2>1
<1>9. u <= m - 1
  <2> SUFFICES ASSUME u >= m PROVE FALSE
    BY <1>1, <1>6
  <2>1. b * u >= b * m
    BY <1>1, <1>6
  <2> QED BY <1>1, <1>4, <1>5, <1>7, <2>1
<1>10. b * u >= 0 /\ b * u <= b * (m - 1) /\ b * (m - 1) = b * m - b
  BY <1>1, <1>6, <1>8, <1>9
<1>11. b * u + t \in 0 .. c - 1 /\ j = c * q + (b * u + t)
  BY <1>1, <1>4, <1>5, <1>6, <1>10
<1> DEFINE v == b * u + t
<1>12. v \in 0 .. c - 1 /\ j = c * q + v
  BY <1>11
<1> HIDE DEF v
<1>13. j \div c = q
  BY <1>4, <1>12, Quotient
<1> QED BY <1>13 DEF q

(* The blocks that some numbers in a row lie in are blocks in a row.        *)
LEMMA BlocksInRow ==
  ASSUME NEW b \in Nat \ {0}, NEW a \in Int, NEW n \in Nat \ {0}, NEW i \in Int
  PROVE  (\E j \in a .. a + n - 1 : i \div b = j \div b)
           <=> i \div b \in a \div b .. (a + n - 1) \div b
<1> DEFINE z == a + n - 1
           p == i \div b
           lo == a \div b
           hi == z \div b
<1>1. z \in Int /\ p \in Int /\ lo \in Int /\ hi \in Int /\ a <= z
  BY Division
<1>2. ASSUME NEW j \in a .. z, p = j \div b PROVE p \in lo .. hi
  <2>1. j \in Int /\ a <= j /\ j <= z
    BY <1>1
  <2>2. lo <= j \div b /\ j \div b <= hi
    <3> HIDE DEF z
    <3> QED BY <1>1, <2>1, QuotientGrows
  <2> HIDE DEF z, p, lo, hi
  <2> QED BY <1>1, <1>2, <2>2
<1>3. ASSUME p \in lo .. hi PROVE \E j \in a .. z : p = j \div b
  <2>1. CASE p = lo
    <3>1. a \in a .. z
      BY <1>1
    <3> QED BY <2>1, <3>1
  <2>2. CASE p # lo
    <3> DEFINE j == b * p
    <3>1. j \in Int
      BY <1>1
    <3>2. j = b * p + 0 /\ 0 \in 0 .. b - 1
      BY <1>1
    <3>3. j \div b = p
      <4> HIDE DEF p, j
      <4> QED BY <1>1, <3>1, <3>2, Quotient
    <3>4. a <= j
      <4> SUFFICES ASSUME j <= a PROVE FALSE
        BY <3>1
      <4>1. j \div b <= a \div b
        <5> HIDE DEF j
        <5> QED BY <3>1, QuotientGrows
      <4> HIDE DEF p, lo, j
      <4>2. p <= lo
        BY <3>3, <4>1 DEF lo
      <4> QED BY <1>1, <1>3, <2>2, <4>2
    <3>5. j <= z
      <4>1. hi \in Int /\ z = b * hi + (z % b) /\ z % b \in 0 .. b - 1
        <5> HIDE DEF z
        <5> QED BY <1>1, Division
      <4> DEFINE r == z % b
      <4>2. z = b * hi + r /\ r >= 0 /\ r \in Int
        BY <4>1
      <4> HIDE DEF p, hi, r, z
      <4>3. b * p <= b * hi
        BY <1>1, <1>3, <4>1
      <4> QED BY <1>1, <4>1, <4>2, <4>3
    <3> HIDE DEF j, p, z
    <3>6. j \in a .. z
      BY <1>1, <3>1, <3>4, <3>5
    <3> QED BY <3>3, <3>6, Zenon
  <2> QED BY <2>1, <2>2
<1> HIDE DEF p, lo, hi, z
<1>4. (\E j \in a .. z : p = j \div b) <=> p \in lo .. hi
  BY <1>2, <1>3
<1> QED BY <1>4 DEF p, lo, hi, z
=============================================================================
