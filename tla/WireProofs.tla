----------------------------- MODULE WireProofs -----------------------------
(***************************************************************************)
(* Proofs about Wire, for every value of its constants: process() finds     *)
(* the packets that the relay wrote in the bytes that they were encoded to. *)
(***************************************************************************)
EXTENDS Wire, TotalsProofs

Byte   == 0 .. 2 * Base - 1
String == Seq(Byte)

-----------------------------------------------------------------------------
(* Sequences.                                                              *)

\* The first element of a sequence and what follows it.
LEMMA FirstOf ==
  ASSUME NEW S, NEW b \in S, NEW t \in Seq(S)
  PROVE  /\ <<b>> \o t \in Seq(S) /\ <<b>> \o t # <<>>
         /\ Head(<<b>> \o t) = b /\ Tail(<<b>> \o t) = t
<1> DEFINE s == <<b>> \o t
<1>1. <<b>> \in Seq(S) /\ Len(<<b>>) = 1
  OBVIOUS
<1>2. s \in Seq(S) /\ Len(s) = Len(t) + 1 /\ Len(t) \in Nat
  BY <1>1, ConcatProperties
<1>3. s # <<>>
  BY <1>2
<1>4. s[1] = b /\ \A i \in 1 .. Len(t) : s[i + 1] = t[i]
  <2>1. \A i \in 1 .. Len(<<b>>) + Len(t) :
          s[i] = IF i <= Len(<<b>>) THEN <<b>>[i] ELSE t[i - Len(<<b>>)]
    BY <1>1, ConcatProperties
  <2> QED BY <1>1, <1>2, <2>1
<1> HIDE DEF s
<1>5. Head(s) = s[1]
  BY <1>2, <1>3
<1>6. Tail(s) \in Seq(S) /\ Len(Tail(s)) = Len(t)
      /\ \A i \in 1 .. Len(Tail(s)) : Tail(s)[i] = s[i + 1]
  BY <1>2, <1>3, HeadTailProperties
<1>7. Tail(s) = t
  BY <1>4, <1>6, SeqEqual
<1> QED BY <1>2, <1>3, <1>4, <1>5, <1>7 DEF s

\* f has, for every k, what follows the first k of the strings p.
Rests(f, p, S, n) ==
  /\ f \in [0 .. n -> Seq(S)] /\ f[n] = <<>>
  /\ \A k \in 1 .. n : f[k - 1] = p[k] \o f[k]

\* flat is the concatenation of longer and longer prefixes of the strings p.
Flat(flat, p, n) ==
  flat = [i \in 1 .. n |-> IF i = 1 THEN p[i] ELSE flat[i - 1] \o p[i]]

\* The recursive definition behind FlattenSeq is well founded.
LEMMA FlatExists ==
  ASSUME NEW S, NEW p \in Seq(Seq(S))
  PROVE  \E f : Flat(f, p, Len(p))
<1> DEFINE G == {n \in Nat : n <= Len(p) => \E f : Flat(f, p, n)}
<1>1. 0 \in G
  <2>1. Flat([i \in 1 .. 0 |-> p[i]], p, 0)
    BY DEF Flat
  <2> QED BY <2>1
<1>2. ASSUME NEW n \in Nat, n \in G PROVE n + 1 \in G
  <2> SUFFICES ASSUME n + 1 <= Len(p) PROVE \E f : Flat(f, p, n + 1)
    OBVIOUS
  <2>1. PICK f : Flat(f, p, n)
    BY <1>2
  <2> DEFINE g == [i \in 1 .. n + 1 |-> IF i = n + 1
                     THEN IF i = 1 THEN p[i] ELSE f[i - 1] \o p[i] ELSE f[i]]
  <2>2. ASSUME NEW i \in 1 .. n + 1
        PROVE  g[i] = IF i = 1 THEN p[i] ELSE g[i - 1] \o p[i]
    <3>1. CASE i = n + 1
      <4>1. i # 1 => g[i - 1] = f[i - 1]
        BY <3>1
      <4>2. g[i] = IF i = 1 THEN p[i] ELSE f[i - 1] \o p[i]
        BY <3>1
      <4> QED BY <4>1, <4>2
    <3>2. CASE i # n + 1
      <4>1. i \in 1 .. n /\ g[i] = f[i] /\ (i # 1 => g[i - 1] = f[i - 1])
        BY <3>2
      <4>2. f[i] = IF i = 1 THEN p[i] ELSE f[i - 1] \o p[i]
        BY <2>1, <4>1 DEF Flat
      <4> QED BY <4>1, <4>2
    <3> QED BY <3>1, <3>2
  <2>3. Flat(g, p, n + 1)
    <3>1. g = [i \in 1 .. n + 1 |-> g[i]]
      OBVIOUS
    <3> HIDE DEF g
    <3> QED BY <2>2, <3>1 DEF Flat
  <2> QED BY <2>3
<1> HIDE DEF G
<1>3. \A n \in Nat : n \in G
  BY <1>1, <1>2, SetInduction
<1> QED BY <1>3 DEF G

\* The first of the rests is the whole concatenation.
LEMMA RestsOfFlat ==
  ASSUME NEW S, NEW p \in Seq(Seq(S)), NEW flat, Flat(flat, p, Len(p))
  PROVE  \A n \in Nat : n \in 1 .. Len(p) => \E f : Rests(f, p, S, n) /\ f[0] = flat[n]
<1> DEFINE G == {n \in Nat : n \in 1 .. Len(p) =>
                               \E f : Rests(f, p, S, n) /\ f[0] = flat[n]}
<1>a. \A a, b, c \in Seq(S) : (a \o b) \o c = a \o (b \o c)
  BY ConcatAssociative
<1>1. 0 \in G
  OBVIOUS
<1>2. ASSUME NEW n \in Nat, n \in G PROVE n + 1 \in G
  <2> SUFFICES ASSUME n + 1 \in 1 .. Len(p)
               PROVE  \E f : Rests(f, p, S, n + 1) /\ f[0] = flat[n + 1]
    OBVIOUS
  <2>0. p[n + 1] \in Seq(S)
    OBVIOUS
  <2>e. <<>> \in Seq(S) /\ p[n + 1] \o <<>> = p[n + 1]
    BY <2>0, ConcatEmptySeq
  <2>1. CASE n = 0
    <3> DEFINE f == [k \in 0 .. 1 |-> IF k = 0 THEN p[1] ELSE <<>>]
    <3>1. f \in [0 .. 1 -> Seq(S)] /\ f[0] = p[1] /\ f[1] = <<>>
      BY <2>0, <2>e, <2>1
    <3> HIDE DEF f
    <3>2. f[0] = p[1] \o f[1]
      BY <2>1, <2>e, <3>1
    <3>3. ASSUME NEW k \in 1 .. 1 PROVE f[k - 1] = p[k] \o f[k]
      <4>1. k = 1 /\ k - 1 = 0
        OBVIOUS
      <4> QED BY <3>2, <4>1
    <3>4. flat[1] = p[1]
      BY <2>1 DEF Flat
    <3>5. Rests(f, p, S, 1)
      BY <3>1, <3>3 DEF Rests
    <3> QED BY <2>1, <3>1, <3>4, <3>5
  <2>2. CASE n # 0
    <3>1. PICK f : Rests(f, p, S, n) /\ f[0] = flat[n]
      BY <1>2, <2>2
    <3>q. PICK q \in Seq(S) : q = p[n + 1]
      BY <2>0
    <3> DEFINE g == [k \in 0 .. n + 1 |-> IF k = n + 1 THEN <<>> ELSE f[k] \o q]
    <3>2. \A k \in 0 .. n : f[k] \in Seq(S) /\ f[k] \o q \in Seq(S)
      <4>1. \A k \in 0 .. n : f[k] \in Seq(S)
        BY <3>1 DEF Rests
      <4> QED BY <4>1, ConcatProperties
    <3>3. g \in [0 .. n + 1 -> Seq(S)] /\ g[n + 1] = <<>> /\ g[0] = f[0] \o q
          /\ \A k \in 0 .. n : g[k] = f[k] \o q
      <4>1. ASSUME NEW k \in 0 .. n PROVE g[k] = f[k] \o q
        BY <4>1
      <4>2. g[n + 1] = <<>>
        OBVIOUS
      <4>3. \A k \in 0 .. n + 1 : g[k] \in Seq(S)
        <5>1. \A k \in 0 .. n + 1 : k = n + 1 \/ k \in 0 .. n
          OBVIOUS
        <5> HIDE DEF g
        <5> QED BY <2>e, <3>2, <4>1, <4>2, <5>1
      <4>4. g = [k \in 0 .. n + 1 |-> g[k]]
        OBVIOUS
      <4> HIDE DEF g
      <4>5. g \in [0 .. n + 1 -> Seq(S)]
        BY <4>3, <4>4
      <4>6. g[0] = f[0] \o q
        BY <4>1
      <4> QED BY <4>1, <4>2, <4>5, <4>6
    <3> HIDE DEF g
    <3>4. ASSUME NEW k \in 1 .. n + 1 PROVE g[k - 1] = p[k] \o g[k]
      <4>1. CASE k = n + 1
        <5>1. g[k - 1] = f[n] \o q /\ f[n] = <<>> /\ g[k] = <<>>
          <6>1. f[n] = <<>>
            BY <3>1 DEF Rests
          <6>2. k - 1 = n /\ n \in 0 .. n
            BY <4>1
          <6> QED BY <3>3, <4>1, <6>1, <6>2
        <5>2. <<>> \o q = q
          BY ConcatEmptySeq
        <5> QED BY <2>e, <3>q, <4>1, <5>1, <5>2
      <4>2. CASE k # n + 1
        <5>1. k \in 1 .. n /\ k \in 0 .. n /\ k - 1 \in 0 .. n /\ k \in 1 .. Len(p)
          BY <4>2
        <5>2. g[k - 1] = f[k - 1] \o q /\ g[k] = f[k] \o q
          BY <3>3, <5>1
        <5>3. f[k - 1] = p[k] \o f[k] /\ f[k] \in Seq(S) /\ p[k] \in Seq(S)
          <6>1. f[k] \in Seq(S) /\ p[k] \in Seq(S)
            BY <3>2, <5>1
          <6> QED BY <3>1, <5>1, <6>1 DEF Rests
        <5>4. (p[k] \o f[k]) \o q = p[k] \o (f[k] \o q)
          BY <1>a, <5>3, Zenon
        <5> QED BY <5>2, <5>3, <5>4
      <4> QED BY <4>1, <4>2
    <3>5. flat[n + 1] = flat[n] \o q
      <4>1. \A i \in 1 .. Len(p) : flat[i] = IF i = 1 THEN p[i] ELSE flat[i - 1] \o p[i]
        BY DEF Flat
      <4>2. n + 1 # 1 /\ n + 1 - 1 = n
        BY <2>2
      <4>3. PICK i \in 1 .. Len(p) : i = n + 1 /\ i # 1 /\ i - 1 = n
        BY <4>2
      <4>4. flat[i] = flat[i - 1] \o p[i]
        BY <4>1, <4>3
      <4> QED BY <3>q, <4>3, <4>4
    <3>6. Rests(g, p, S, n + 1)
      BY <3>3, <3>4 DEF Rests
    <3> QED BY <3>1, <3>3, <3>5, <3>6
  <2> QED BY <2>1, <2>2
<1> HIDE DEF G
<1>3. \A n \in Nat : n \in G
  BY <1>1, <1>2, SetInduction
<1> QED BY <1>3 DEF G

\* What FlattenSeq computes: the strings can be taken off its front one by one.
LEMMA FlattenRests ==
  ASSUME NEW S, NEW p \in Seq(Seq(S))
  PROVE  \E f : Rests(f, p, S, Len(p)) /\ f[0] = FlattenSeq(p)
<1>1. CASE Len(p) = 0
  <2>1. FlattenSeq(p) = p /\ p = <<>>
    BY <1>1 DEF FlattenSeq
  <2> DEFINE f == [k \in 0 .. 0 |-> <<>>]
  <2>2. Rests(f, p, S, 0) /\ f[0] = <<>>
    BY DEF Rests
  <2> QED BY <1>1, <2>1, <2>2
<1>2. CASE Len(p) # 0
  <2> DEFINE P(g) == g = [i \in 1 .. Len(p) |-> IF i = 1 THEN p[i] ELSE g[i - 1] \o p[i]]
  <2>1. PICK f : P(f)
    BY FlatExists DEF Flat
  <2>2. FlattenSeq(p) = (CHOOSE g : P(g))[Len(p)]
    BY <1>2 DEF FlattenSeq
  <2> HIDE DEF P
  <2>3. P(CHOOSE g : P(g))
    BY <2>1, Zenon
  <2> DEFINE h == CHOOSE g : P(g)
  <2>4. P(h)
    BY <2>3
  <2>5. FlattenSeq(p) = h[Len(p)]
    BY <2>2
  <2> HIDE DEF h
  <2>6. Flat(h, p, Len(p))
    BY <2>4 DEF P, Flat
  <2>7. Len(p) \in Nat /\ Len(p) \in 1 .. Len(p)
    BY <1>2
  <2> QED BY <2>5, <2>6, <2>7, RestsOfFlat
<1> QED BY <1>1, <1>2

-----------------------------------------------------------------------------
(* Digits.                                                                 *)

\* A number of more than one digit: its last digit and the rest of it.
LEMMA SplitNumber ==
  ASSUME NEW v \in Nat, NEW B \in Nat, B > 1
  PROVE  /\ v % B \in 0 .. B - 1 /\ v \div B \in Nat
         /\ v = B * (v \div B) + (v % B)
         /\ v >= B => v \div B >= 1 /\ v \div B < v
<1>1. v % B \in 0 .. B - 1 /\ v \div B \in Nat /\ v = B * (v \div B) + (v % B)
  BY DivMod
<1>2. PICK d \in Nat, w \in Nat : d < B /\ w = v \div B /\ v = B * w + d
  <2>1. PICK d \in Nat : d = v % B /\ d < B
    BY <1>1
  <2>2. PICK w \in Nat : w = v \div B
    BY <1>1
  <2>3. v = B * w + d
    BY <1>1, <2>1, <2>2, Zenon
  <2> QED BY <2>1, <2>2, <2>3, Zenon
<1>3. v >= B => w >= 1
  <2>1. w = 0 => B * w = 0
    OBVIOUS
  <2> QED BY <1>2, <2>1
<1>4. B * w >= 2 * w
  OBVIOUS
<1>5. v >= B => w < v
  BY <1>2, <1>3, <1>4
<1> QED BY <1>1, <1>2, <1>3, <1>5

\* A digit below the base is found again under the continuation flag.
LEMMA DigitOfByte ==
  ASSUME NEW B \in Nat, NEW d \in 0 .. B - 1
  PROVE  (B + d) % B = d /\ d % B = d
<1>1. B >= 1 /\ d \in Nat /\ d < B
  OBVIOUS
<1>2. PICK r \in Nat, q \in Nat :
        r < B /\ r = (B + d) % B /\ B + d = B * q + r
  <2>1. PICK v \in Nat : v = B + d
    BY <1>1
  <2>2. v % B \in 0 .. B - 1 /\ v \div B \in Nat /\ v = B * (v \div B) + (v % B)
    BY <1>1, DivMod
  <2> QED BY <2>1, <2>2
<1>3. q # 0
  <2>1. q = 0 => B * q = 0
    OBVIOUS
  <2> QED BY <1>1, <1>2, <2>1
<1>4. ~(q >= 2)
  <2>1. q >= 2 => B * q >= B * 2
    BY <1>1
  <2> QED BY <1>1, <1>2, <2>1
<1>5. q = 1
  BY <1>3, <1>4
<1>6. r = d
  BY <1>1, <1>2, <1>5
<1>7. d % B = d
  BY <1>1, SmallMod
<1> QED BY <1>2, <1>6, <1>7

\* The last digit of n is read.
LEMMA LastDigit ==
  ASSUME NEW m \in Nat, NEW c \in Nat, NEW v \in Nat, NEW n \in Nat, NEW W \in Nat,
         m + c * v = n, n < W
  PROVE  (m + v * c) % W = n
<1>1. v * c = c * v
  OBVIOUS
<1> QED BY <1>1, SmallMod

\* Another digit of n is read, and the rest of n is still to come.  Neither the
\* number nor the weight of the next digit leaves the width of the integer.
LEMMA MoreDigits ==
  ASSUME NEW m \in Nat, NEW c \in Nat, NEW d \in Nat, NEW w \in Nat, NEW B \in Nat,
         NEW n \in Nat, NEW W \in Nat,
         m + c * (B * w + d) = n, n < W, w >= 1, c >= 1, B >= 1
  PROVE  /\ (m + d * c) % W \in 0 .. n /\ (c * B) % W \in 1 .. W - 1
         /\ ((m + d * c) % W) + ((c * B) % W) * w = n
<1>1. PICK x \in Nat : x = d * c
  OBVIOUS
<1>2. PICK y \in Nat : y = c * B
  OBVIOUS
<1>3. PICK z \in Nat : z = y * w
  OBVIOUS
<1>4. c * (B * w + d) = z + x
  <2>1. c * (B * w + d) = c * (B * w) + c * d
    OBVIOUS
  <2>2. c * (B * w) = (c * B) * w
    OBVIOUS
  <2> QED BY <1>1, <1>2, <1>3, <2>1, <2>2
<1>5. y >= 1
  BY <1>2
<1>6. z >= y
  BY <1>3, <1>5
<1>7. m + x <= n /\ y <= n /\ m + x + z = n
  BY <1>4, <1>6
<1>8. (m + x) % W = m + x /\ y % W = y
  BY <1>7, SmallMod
<1> QED BY <1>1, <1>2, <1>3, <1>5, <1>7, <1>8

\* f encodes the numbers below k.
Code(f, n) == IF Continues(n) THEN <<Base + (n % Base)>> \o f[n \div Base] ELSE <<n>>
Coder(f, k) ==
  /\ f \in [0 .. k - 1 -> String]
  /\ \A n \in 0 .. k - 1 : f[n] = Code(f, n)

\* The numbers that follow the first digit of n are smaller than n.
LEMMA CodeStep ==
  ASSUME NEW n \in Nat
  PROVE  /\ Continues(n) => /\ n \div Base \in 0 .. n - 1 /\ n \div Base >= 1
                            /\ n % Base \in 0 .. Base - 1
                            /\ Base + (n % Base) \in Byte
                            /\ n = Base * (n \div Base) + (n % Base)
         /\ ~Continues(n) => n \in Byte /\ n < Base /\ <<n>> \in String
<1> USE WireAssumption
<1>1. Base \in Nat /\ Base > 1
  OBVIOUS
<1>2. CASE Continues(n)
  <2>1. n >= Base
    BY <1>2 DEF Continues
  <2>2. /\ n % Base \in 0 .. Base - 1 /\ n \div Base \in Nat
        /\ n = Base * (n \div Base) + (n % Base)
        /\ n \div Base >= 1 /\ n \div Base < n
    BY <1>1, <2>1, SplitNumber
  <2>3. PICK d \in 0 .. Base - 1 : d = n % Base
    BY <2>2
  <2>4. Base + d \in Byte
    BY <1>1 DEF Byte
  <2>5. PICK w \in Nat : w = n \div Base /\ w >= 1 /\ w < n
    BY <2>2
  <2>6. w \in 0 .. n - 1
    BY <2>5
  <2> QED BY <1>2, <2>2, <2>3, <2>4, <2>5, <2>6
<1>3. CASE ~Continues(n)
  <2>1. n < Base
    BY <1>1, <1>3 DEF Continues
  <2>2. n \in Byte
    BY <1>1, <2>1 DEF Byte
  <2> QED BY <1>3, <2>1, <2>2 DEF String
<1> QED BY <1>2, <1>3

\* The encoding of a number is a string of bytes.
LEMMA CodeType ==
  ASSUME NEW k \in Nat, NEW f \in [0 .. k - 1 -> String], NEW n \in 0 .. k
  PROVE  Code(f, n) \in String
<1>1. CASE Continues(n)
  <2>1. n \div Base \in 0 .. k - 1 /\ Base + (n % Base) \in Byte
    <3>1. n \in Nat /\ 0 .. n - 1 \subseteq 0 .. k - 1
      OBVIOUS
    <3>2. n \div Base \in 0 .. n - 1 /\ Base + (n % Base) \in Byte
      BY <1>1, <3>1, CodeStep
    <3> QED BY <3>1, <3>2
  <2>2. PICK w \in 0 .. k - 1 : w = n \div Base
    BY <2>1
  <2>3. PICK b \in Byte : b = Base + (n % Base)
    BY <2>1
  <2>4. f[w] \in Seq(Byte)
    BY DEF String
  <2>5. <<b>> \o f[w] \in Seq(Byte)
    BY <2>4, FirstOf
  <2> QED BY <1>1, <2>2, <2>3, <2>5 DEF Code, String
<1>2. CASE ~Continues(n)
  BY <1>2, CodeStep DEF Code
<1> QED BY <1>1, <1>2

\* sendVarint ends: there is an encoder for every bound on the numbers.
LEMMA CoderExists == \A k \in Nat : \E f : Coder(f, k)
<1> DEFINE G == {k \in Nat : \E f : Coder(f, k)}
<1>1. 0 \in G
  <2>1. Coder([n \in 0 .. 0 - 1 |-> <<>>], 0)
    BY DEF Coder
  <2> QED BY <2>1
<1>2. ASSUME NEW k \in Nat, k \in G PROVE k + 1 \in G
  <2>1. PICK f : Coder(f, k)
    BY <1>2
  <2> DEFINE g == [n \in 0 .. k + 1 - 1 |-> IF n = k THEN Code(f, k) ELSE f[n]]
  <2>2. f \in [0 .. k - 1 -> String] /\ k + 1 - 1 = k
    BY <2>1 DEF Coder
  <2>3. Code(f, k) \in String
    BY <2>2, CodeType
  <2>4. g[k] = Code(f, k) /\ \A n \in 0 .. k - 1 : g[n] = f[n]
    BY <2>2
  <2>5. g \in [0 .. k + 1 - 1 -> String]
    BY <2>2, <2>3
  <2> HIDE DEF g
  <2>6. ASSUME NEW n \in 0 .. k + 1 - 1 PROVE g[n] = Code(g, n)
    <3>1. g[n] = Code(f, n)
      <4>1. CASE n = k
        BY <2>4, <4>1
      <4>2. CASE n # k
        <5>1. n \in 0 .. k - 1
          BY <4>2
        <5> QED BY <2>1, <2>4, <5>1 DEF Coder
      <4> QED BY <4>1, <4>2
    <3>2. Continues(n) => g[n \div Base] = f[n \div Base]
      <4>1. n \in Nat
        OBVIOUS
      <4>2. Continues(n) => n \div Base \in 0 .. n - 1
        BY <4>1, CodeStep
      <4>3. 0 .. n - 1 \subseteq 0 .. k - 1
        OBVIOUS
      <4> QED BY <2>4, <4>2, <4>3
    <3> QED BY <3>1, <3>2 DEF Code
  <2>7. Coder(g, k + 1)
    BY <2>5, <2>6 DEF Coder
  <2> QED BY <2>7
<1> HIDE DEF G
<1>3. \A k \in Nat : k \in G
  BY <1>1, <1>2, SetInduction
<1> QED BY <1>3 DEF G

\* The recursive definition of sendVarint is well founded.
LEMMA VarintDef ==
  ASSUME NEW n \in 0 .. Word - 1
  PROVE  SendVarint[n] \in String /\ SendVarint[n] = Code(SendVarint, n)
<1> DEFINE P(g) == g = [i \in 0 .. Word - 1 |->
             IF Continues(i) THEN <<Base + (i % Base)>> \o g[i \div Base] ELSE <<i>>]
<1>1. PICK f : Coder(f, Word)
  BY WireAssumption, CoderExists
<1>2. P(f)
  <2>1. f = [i \in 0 .. Word - 1 |-> f[i]]
    BY <1>1 DEF Coder
  <2>2. \A i \in 0 .. Word - 1 :
          f[i] = IF Continues(i) THEN <<Base + (i % Base)>> \o f[i \div Base] ELSE <<i>>
    BY <1>1 DEF Coder, Code
  <2> QED BY <2>1, <2>2
<1>3. SendVarint = CHOOSE g : P(g)
  BY DEF SendVarint
<1> HIDE DEF P
<1>4. P(CHOOSE g : P(g))
  BY <1>2, Zenon
<1>5. PICK g : g = SendVarint
  OBVIOUS
<1>6. P(g)
  BY <1>3, <1>4, <1>5
<1>7. \A i \in 0 .. Word - 1 : g[i] = Code(g, i)
  BY <1>6 DEF P, Code
<1> DEFINE G == {i \in Nat : \A j \in 0 .. i : j < Word => g[j] \in String}
<1>8. 0 \in G
  <2>1. \A j \in 0 .. 0 : j = 0
    OBVIOUS
  <2>2. ~Continues(0)
    BY WireAssumption DEF Continues
  <2>3. Code(g, 0) = <<0>> /\ <<0>> \in String
    BY <2>2, CodeStep DEF Code
  <2>4. 0 \in 0 .. Word - 1
    BY WireAssumption
  <2> QED BY <1>7, <2>1, <2>3, <2>4
<1>9. ASSUME NEW i \in Nat, i \in G PROVE i + 1 \in G
  <2> SUFFICES ASSUME i + 1 < Word PROVE g[i + 1] \in String
    <3>1. \A j \in 0 .. i + 1 : j = i + 1 \/ j \in 0 .. i
      OBVIOUS
    <3> QED BY <1>9, <3>1
  <2>1. PICK m \in Nat : m = i + 1
    OBVIOUS
  <2>2. m \in 0 .. Word - 1 /\ 0 .. m - 1 = 0 .. i
    BY <2>1, WireAssumption
  <2>3. g[m] = Code(g, m)
    BY <1>7, <2>2
  <2>4. CASE Continues(m)
    <3>1. m \div Base \in 0 .. m - 1 /\ Base + (m % Base) \in Byte
      BY <2>4, CodeStep
    <3>2. PICK w \in 0 .. i : w = m \div Base
      BY <2>2, <3>1
    <3>3. PICK b \in Byte : b = Base + (m % Base)
      BY <3>1
    <3>4. w < Word
      BY WireAssumption
    <3>5. g[w] \in Seq(Byte)
      BY <1>9, <3>4 DEF String
    <3>6. <<b>> \o g[w] \in Seq(Byte)
      BY <3>5, FirstOf
    <3> QED BY <2>1, <2>3, <2>4, <3>2, <3>3, <3>6 DEF Code, String
  <2>5. CASE ~Continues(m)
    BY <2>1, <2>3, <2>5, CodeStep DEF Code
  <2> QED BY <2>4, <2>5
<1> HIDE DEF G
<1>10. \A i \in Nat : i \in G
  BY <1>8, <1>9, SetInduction
<1>11. g[n] \in String
  <2>1. n \in Nat /\ n \in 0 .. n /\ n < Word
    BY WireAssumption
  <2> QED BY <1>10, <2>1 DEF G
<1> QED BY <1>5, <1>7, <1>11

-----------------------------------------------------------------------------
(* Fields and packets.                                                     *)

Blob  == {d \in String : Len(d) < Word}
Field == ({"varint"} \X (0 .. Word - 1)) \cup ({"bool"} \X BOOLEAN)
           \cup ({"binary"} \X Blob) \cup ({"raw"} \X Byte)

\* An integer, and the length of a binary with its content behind it.
Amount(f)  == IF f[1] = "varint" THEN f[2] ELSE Len(f[2])
Payload(f) == IF f[1] = "varint" THEN <<>> ELSE f[2]

\* An integer, or the length of a binary, comes first in its field.
LEMMA IntegerFirst ==
  ASSUME NEW f \in Field, f[1] \in {"varint", "binary"}
  PROVE  /\ Amount(f) \in 0 .. Word - 1 /\ Payload(f) \in String
         /\ SendField(f) = SendVarint[Amount(f)] \o Payload(f)
         /\ SendField(f) \in String
         /\ f[1] = "varint" => f = <<"varint", Amount(f)>> /\ Payload(f) = <<>>
         /\ f[1] = "binary" => f = <<"binary", Payload(f)>> /\ Amount(f) = Len(Payload(f))
<1>1. CASE f[1] = "varint"
  <2>1. f[2] \in 0 .. Word - 1 /\ f = <<"varint", f[2]>>
    BY <1>1 DEF Field
  <2>2. Amount(f) = f[2] /\ Payload(f) = <<>> /\ SendField(f) = SendVarint[f[2]]
    BY <1>1 DEF Amount, Payload, SendField
  <2>3. SendVarint[f[2]] \in String
    BY <2>1, VarintDef
  <2>4. SendVarint[f[2]] \o <<>> = SendVarint[f[2]]
    BY <2>3, ConcatEmptySeq DEF String
  <2>5. <<>> \in String
    BY DEF String
  <2> QED BY <1>1, <2>1, <2>2, <2>3, <2>4, <2>5
<1>2. CASE f[1] = "binary"
  <2>1. f[2] \in Blob /\ f = <<"binary", f[2]>>
    BY <1>2 DEF Field
  <2>2. f[2] \in String /\ Len(f[2]) \in 0 .. Word - 1
    BY <2>1, WireAssumption DEF Blob, String
  <2>3. Amount(f) = Len(f[2]) /\ Payload(f) = f[2]
    BY <1>2 DEF Amount, Payload
  <2>4. SendField(f) = SendVarint[Len(f[2])] \o f[2]
    BY <1>2 DEF SendField, SendBinary
  <2>5. SendVarint[Len(f[2])] \in String
    BY <2>2, VarintDef
  <2>6. SendVarint[Len(f[2])] \o f[2] \in String
    BY <2>2, <2>5, ConcatProperties DEF String
  <2> QED BY <1>2, <2>1, <2>2, <2>3, <2>4, <2>6
<1> QED BY <1>1, <1>2

\* The other fields are a byte.
LEMMA ByteField ==
  ASSUME NEW f \in Field, f[1] \notin {"varint", "binary"}
  PROVE  /\ SendField(f) \in String
         /\ f[1] = "raw" => f[2] \in Byte /\ SendField(f) = <<f[2]>>
         /\ f[1] = "bool" => \E b \in {0, 1} : SendField(f) = <<b>> /\ f = <<"bool", b = 1>>
<1>0. 0 \in Byte /\ 1 \in Byte
  BY WireAssumption DEF Byte
<1>1. CASE f[1] = "raw"
  <2>1. f[2] \in Byte
    BY <1>1 DEF Field
  <2>2. SendField(f) = <<f[2]>>
    BY <1>1 DEF SendField
  <2> QED BY <1>1, <2>1, <2>2 DEF String
<1>2. CASE f[1] = "bool"
  <2>1. f[2] \in BOOLEAN /\ f = <<"bool", f[2]>>
    BY <1>2 DEF Field
  <2>2. SendField(f) = SendBool(f[2])
    BY <1>2 DEF SendField
  <2>3. CASE f[2] = TRUE
    <3>1. SendField(f) = <<1>> /\ f = <<"bool", 1 = 1>>
      BY <2>1, <2>2, <2>3 DEF SendBool
    <3> QED BY <1>0, <1>2, <3>1 DEF String
  <2>4. CASE f[2] = FALSE
    <3>1. SendField(f) = <<0>> /\ f = <<"bool", 0 = 1>>
      BY <2>1, <2>2, <2>4 DEF SendBool
    <3> QED BY <1>0, <1>2, <3>1 DEF String
  <2> QED BY <2>1, <2>3, <2>4
<1>3. f[1] \in {"raw", "bool"}
  BY DEF Field
<1> QED BY <1>1, <1>2, <1>3

\* A field is sent as a string of bytes.
LEMMA FieldString == \A f \in Field : SendField(f) \in String
BY IntegerFirst, ByteField

FieldStrings(p) == [i \in DOMAIN p.args |-> SendField(p.args[i])]
OpByte(p)       == IF p.op = None THEN <<>> ELSE <<Op[p.op]>>

\* What follows the first fields of a packet.
FieldRest(p) ==
  CHOOSE f : /\ Rests(f, FieldStrings(p), Byte, Len(p.args))
             /\ f[0] = FlattenSeq(FieldStrings(p))

\* What is left of a packet after k fields is the next field and the rest.
LEMMA FieldsCut ==
  ASSUME NEW p, p.args \in Seq(Field)
  PROVE  /\ \A k \in 0 .. Len(p.args) : FieldRest(p)[k] \in String
         /\ FieldRest(p)[Len(p.args)] = <<>>
         /\ \A k \in 1 .. Len(p.args) :
              FieldRest(p)[k - 1] = SendField(p.args[k]) \o FieldRest(p)[k]
         /\ SendPacket(p) = OpByte(p) \o FieldRest(p)[0]
<1> DEFINE n == Len(p.args)
           P(f) == Rests(f, FieldStrings(p), Byte, n) /\ f[0] = FlattenSeq(FieldStrings(p))
<1>1. n \in Nat /\ DOMAIN p.args = 1 .. n /\ \A i \in 1 .. n : p.args[i] \in Field
  OBVIOUS
<1>2. FieldStrings(p) = [i \in 1 .. n |-> SendField(p.args[i])]
  BY <1>1 DEF FieldStrings
<1>3. \A i \in 1 .. n : SendField(p.args[i]) \in Seq(Byte)
  BY <1>1, FieldString DEF String
<1>4. FieldStrings(p) \in Seq(Seq(Byte)) /\ Len(FieldStrings(p)) = n
  BY <1>1, <1>2, <1>3, IsASeq
<1>5. \E f : P(f)
  BY <1>4, FlattenRests
<1> HIDE DEF P
<1>6. P(CHOOSE f : P(f))
  BY <1>5, Zenon
<1>7. PICK f : P(f) /\ f = FieldRest(p)
  BY <1>6 DEF FieldRest, P
<1>8. Rests(f, FieldStrings(p), Byte, n) /\ f[0] = FlattenSeq(FieldStrings(p))
  BY <1>7 DEF P
<1>9. \A k \in 1 .. n : FieldStrings(p)[k] = SendField(p.args[k])
  BY <1>2
<1>10. /\ \A k \in 0 .. n : f[k] \in String
       /\ f[n] = <<>>
       /\ \A k \in 1 .. n : f[k - 1] = SendField(p.args[k]) \o f[k]
  BY <1>8, <1>9 DEF Rests, String
<1>11. SendPacket(p) = OpByte(p) \o f[0]
  BY <1>8 DEF SendPacket, OpByte, FieldStrings
<1> QED BY <1>7, <1>10, <1>11

-----------------------------------------------------------------------------
(* What the relay may write.                                               *)

Ops == {"init", "deny", "close", "broadcast", "request", "reply", "publish",
        "tunInit", "tunConfirm", "tunAllow", "tunTransfer", "tunClose"}

\* Opcodes are different bytes, and other than the one no packet begins with.
LEMMA OpFacts ==
  /\ DOMAIN Op = Ops /\ None \notin Ops
  /\ \A o \in Ops : Op[o] \in Byte /\ Op[o] # 2 * Base - 1
  /\ \A o, q \in Ops : Op[o] = Op[q] => o = q
<1>1. DOMAIN Op = Ops
  BY DEF Op, Ops
<1>2. /\ Op["init"] = 0 /\ Op["deny"] = 1 /\ Op["close"] = 2 /\ Op["broadcast"] = 3
      /\ Op["request"] = 4 /\ Op["reply"] = 5 /\ Op["publish"] = 8 /\ Op["tunInit"] = 9
      /\ Op["tunConfirm"] = 10 /\ Op["tunAllow"] = 11 /\ Op["tunTransfer"] = 12
      /\ Op["tunClose"] = 13
  BY DEF Op
<1>3. None \notin Ops
  BY <1>1, WireAssumption
<1>4. \A o \in Ops : Op[o] \in 0 .. 13
  BY <1>2 DEF Ops
<1>5. 0 .. 13 \subseteq Byte /\ \A i \in 0 .. 13 : i # 2 * Base - 1
  <2>1. Base \in Nat /\ Base >= 8
    BY WireAssumption
  <2>2. PICK n \in Nat : n = 2 * Base - 1 /\ n >= 15
    BY <2>1
  <2> QED BY <2>2 DEF Byte
<1>6. \A o, q \in Ops : Op[o] = Op[q] => o = q
  BY <1>2 DEF Ops
<1> QED BY <1>1, <1>3, <1>4, <1>5, <1>6

\* Handshakes, good and bad, and what may follow one.
Greetings == BadHandshakes \cup Answers({<<"binary", Magic>>})
Sendable  == Greetings \cup Packets

\* Packets that process() begins to read: it knows their opcode.
Misplaced == {Packet("init", <<>>), Packet("close", <<>>),
              Packet(None, <<<<"raw", 2 * Base - 1>>>>)}
Readable  == Sendable \ Misplaced

IsVarint(f) == f \in Field /\ f[1] = "varint"
IsBinary(f) == f \in Field /\ f[1] = "binary"
IsBool(f)   == f \in Field /\ f[1] = "bool"

\* The fields of a packet of each kind, as the relay writes them.
ReplyShape(a) ==
  /\ Len(a) \in {2, 4} /\ IsVarint(a[1])
  /\ Len(a) = 2 => \/ a[2] = Yes
                   \/ a[2] = <<"raw", 2>> /\ Packet("reply", a) \in Violations
  /\ Len(a) = 4 => /\ a[2] = No /\ IsBool(a[3]) /\ IsBinary(a[4])
                   /\ a[4][2] # None
ConfirmShape(a) ==
  /\ Len(a) \in {2, 3} /\ IsVarint(a[1])
  /\ Len(a) = 2 => a[2] = Yes
  /\ Len(a) = 3 => a[2] = No /\ IsVarint(a[3])
Shape(o, a) ==
  \/ o \in {"init", "deny", "publish"} /\ Len(a) = 2 /\ IsBinary(a[1]) /\ IsBinary(a[2])
  \/ o \in {"close", "broadcast"} /\ Len(a) = 1 /\ IsBinary(a[1])
  \/ o = "request" /\ Len(a) = 3 /\ IsVarint(a[1]) /\ IsBinary(a[2]) /\ IsVarint(a[3])
  \/ o \in {"tunInit", "tunAllow"} /\ Len(a) = 2 /\ IsVarint(a[1]) /\ IsVarint(a[2])
  \/ o = "tunTransfer" /\ Len(a) = 3 /\ IsVarint(a[1]) /\ IsVarint(a[2]) /\ IsBinary(a[3])
  \/ o = "tunClose" /\ Len(a) = 2 /\ IsVarint(a[1]) /\ IsBinary(a[2])
  \/ o = "reply" /\ ReplyShape(a)
  \/ o = "tunConfirm" /\ ConfirmShape(a)

\* The fields that packets are made of, with their kinds and values.
LEMMA FieldsOfWire ==
  /\ \A f \in Varints : IsVarint(f)
  /\ \A f \in Binaries : IsBinary(f) /\ f[2] # None
  /\ IsBool(Yes) /\ IsBool(No) /\ Yes[2] = TRUE /\ No[2] = FALSE /\ Yes # No
  /\ <<"binary", <<>>>> \in Binaries /\ <<"binary", Magic>> \in Binaries
  /\ <<"raw", 2>> \in Field /\ <<"raw", 2 * Base - 1>> \in Field
<1> USE WireAssumption
<1>1. \A d \in Blobs : d \in Blob /\ d # None
  BY DEF Blob, String, Byte
<1>2. \A f \in Varints : IsVarint(f)
  BY DEF Varints, IsVarint, Field
<1>3. \A f \in Binaries : IsBinary(f) /\ f[2] # None
  BY <1>1 DEF Binaries, IsBinary, Field
<1>4. IsBool(Yes) /\ IsBool(No)
  BY DEF IsBool, Field, Yes, No
<1>7. Yes[2] = TRUE /\ No[2] = FALSE
  BY DEF Yes, No
<1>8. Yes # No
  BY <1>7, Zenon
<1>5. <<"binary", <<>>>> \in Binaries /\ <<"binary", Magic>> \in Binaries
  BY DEF Binaries
<1>6. <<"raw", 2>> \in Field /\ <<"raw", 2 * Base - 1>> \in Field
  BY DEF Field, Byte
<1> QED BY <1>2, <1>3, <1>4, <1>5, <1>6, <1>7, <1>8

WellFormed(p) ==
  /\ p.op \in Ops /\ p.args \in Seq(Field) /\ p = Packet(p.op, p.args)
  /\ Shape(p.op, p.args)

\* The packets that All makes of an opcode and a set of tuples.
LEMMA AllPackets ==
  ASSUME NEW o, NEW T, NEW p \in All(o, T)
  PROVE  p.op = o /\ p.args \in T /\ p = Packet(p.op, p.args)
BY DEF All, Packet

\* A pair is a sequence of its two fields.
LEMMA Pairs ==
  ASSUME NEW S, NEW X, NEW Y, X \subseteq S, Y \subseteq S, NEW a \in X \X Y
  PROVE  a \in Seq(S) /\ Len(a) = 2 /\ Len(a) \notin {1, 3, 4} /\ a[1] \in X /\ a[2] \in Y
<1>1. PICK x \in X, y \in Y : a = <<x, y>>
  OBVIOUS
<1>2. x \in S /\ y \in S
  OBVIOUS
<1> QED BY <1>1, <1>2

\* A triple is a sequence of its three fields.
LEMMA Triples ==
  ASSUME NEW S, NEW X, NEW Y, NEW Z, X \subseteq S, Y \subseteq S, Z \subseteq S,
         NEW a \in X \X Y \X Z
  PROVE  /\ a \in Seq(S) /\ Len(a) = 3 /\ Len(a) \notin {1, 2, 4}
         /\ a[1] \in X /\ a[2] \in Y /\ a[3] \in Z
<1>1. PICK x \in X, y \in Y, z \in Z : a = <<x, y, z>>
  OBVIOUS
<1>2. x \in S /\ y \in S /\ z \in S
  OBVIOUS
<1> QED BY <1>1, <1>2

\* So is a tuple of four.
LEMMA Quadruples ==
  ASSUME NEW S, NEW X, NEW Y, NEW Z, NEW V,
         X \subseteq S, Y \subseteq S, Z \subseteq S, V \subseteq S,
         NEW a \in X \X Y \X Z \X V
  PROVE  /\ a \in Seq(S) /\ Len(a) = 4 /\ Len(a) \notin {1, 2, 3}
         /\ a[1] \in X /\ a[2] \in Y /\ a[3] \in Z /\ a[4] \in V
<1>1. PICK x \in X, y \in Y, z \in Z, v \in V : a = <<x, y, z, v>>
  OBVIOUS
<1>2. x \in S /\ y \in S /\ z \in S /\ v \in S
  OBVIOUS
<1> QED BY <1>1, <1>2

\* The fields of the relay's packets are fields of the protocol.
LEMMA FieldSets ==
  /\ Varints \subseteq Field /\ Binaries \subseteq Field
  /\ {Yes} \subseteq Field /\ {No} \subseteq Field /\ {<<"raw", 2>>} \subseteq Field
BY FieldsOfWire, Zenon DEF IsBool, IsVarint, IsBinary

\* The relay's replies have the fields that procReply reads.
LEMMA ReplyWellFormed ==
  ASSUME NEW p \in Replies
  PROVE  WellFormed(p)
<1>p. PICK a : a = p.args
  OBVIOUS
<1>1. CASE p \in All("reply", Varints \X {Yes})
  <2>1. p.op = "reply" /\ a \in Varints \X {Yes} /\ p = Packet(p.op, a)
    BY <1>1, <1>p, AllPackets
  <2>2. a \in Seq(Field) /\ Len(a) = 2 /\ Len(a) # 4 /\ a[1] \in Varints /\ a[2] = Yes
    BY <2>1, FieldSets, Pairs
  <2>3. ReplyShape(a)
    BY <2>2, FieldsOfWire, Zenon DEF ReplyShape
  <2> QED BY <1>p, <2>1, <2>2, <2>3 DEF WellFormed, Shape, Ops
<1>2. CASE p \in All("reply", Varints \X {No} \X {Yes, No} \X Binaries)
  <2>1. PICK F : F = {Yes, No}
    OBVIOUS
  <2>2. F \subseteq Field
    BY <2>1, FieldSets
  <2>3. /\ p.op = "reply" /\ p = Packet(p.op, a)
        /\ a \in Varints \X {No} \X F \X Binaries
    BY <1>2, <1>p, <2>1, AllPackets
  <2>4. /\ a \in Seq(Field) /\ Len(a) = 4 /\ Len(a) # 2
        /\ a[1] \in Varints /\ a[2] = No /\ a[3] \in F /\ a[4] \in Binaries
    BY <2>2, <2>3, FieldSets, Quadruples
  <2>5. IsBool(a[3])
    BY <2>1, <2>4, FieldsOfWire, Zenon
  <2>6. ReplyShape(a)
    BY <2>4, <2>5, FieldsOfWire, Zenon DEF ReplyShape
  <2> QED BY <1>p, <2>3, <2>4, <2>6 DEF WellFormed, Shape, Ops
<1> QED BY <1>1, <1>2, Zenon DEF Replies

\* Events and requests have the fields that their proc functions read.
LEMMA EventWellFormed ==
  ASSUME NEW p \in Events
  PROVE  WellFormed(p)
<1>p. PICK a : a = p.args
  OBVIOUS
<1>1. ASSUME NEW o \in {"close", "broadcast"}, p \in All(o, {<<d>> : d \in Binaries})
      PROVE  WellFormed(p)
  <2>1. p.op = o /\ p = Packet(p.op, a) /\ a \in {<<d>> : d \in Binaries}
    BY <1>p, <1>1, AllPackets
  <2>2. PICK d \in Binaries : a = <<d>>
    BY <2>1
  <2>3. d \in Field /\ IsBinary(d)
    BY FieldSets, FieldsOfWire
  <2>4. a \in Seq(Field) /\ Len(a) = 1 /\ a[1] = d
    BY <2>2, <2>3
  <2> QED BY <1>p, <2>1, <2>3, <2>4 DEF WellFormed, Ops, Shape
<1>2. CASE p \in All("publish", Binaries \X Binaries)
  <2>1. p.op = "publish" /\ p = Packet(p.op, a) /\ a \in Binaries \X Binaries
    BY <1>p, <1>2, AllPackets
  <2>2. a \in Seq(Field) /\ Len(a) = 2 /\ a[1] \in Binaries /\ a[2] \in Binaries
    BY <2>1, FieldSets, Pairs
  <2> QED BY <1>p, <2>1, <2>2, FieldsOfWire DEF WellFormed, Ops, Shape
<1>3. CASE p \in All("request", Varints \X Binaries \X Varints)
  <2>1. p.op = "request" /\ p = Packet(p.op, a) /\ a \in Varints \X Binaries \X Varints
    BY <1>p, <1>3, AllPackets
  <2>2. /\ a \in Seq(Field) /\ Len(a) = 3
        /\ a[1] \in Varints /\ a[2] \in Binaries /\ a[3] \in Varints
    BY <2>1, FieldSets, Triples
  <2> QED BY <1>p, <2>1, <2>2, FieldsOfWire DEF WellFormed, Ops, Shape
<1> QED BY <1>1, <1>2, <1>3, Zenon DEF Events

\* Tunnel packets have the fields that their proc functions read.
LEMMA TunnelWellFormed ==
  ASSUME NEW p \in TunnelEvents
  PROVE  WellFormed(p)
<1>p. PICK a : a = p.args
  OBVIOUS
<1>1. ASSUME NEW o \in {"tunInit", "tunAllow"}, p \in All(o, Varints \X Varints)
      PROVE  WellFormed(p)
  <2>1. p.op = o /\ p = Packet(p.op, a) /\ a \in Varints \X Varints
    BY <1>p, <1>1, AllPackets
  <2>2. a \in Seq(Field) /\ Len(a) = 2 /\ a[1] \in Varints /\ a[2] \in Varints
    BY <2>1, FieldSets, Pairs
  <2> QED BY <1>p, <2>1, <2>2, FieldsOfWire DEF WellFormed, Ops, Shape
<1>2. CASE p \in All("tunConfirm", Varints \X {Yes})
  <2>1. p.op = "tunConfirm" /\ p = Packet(p.op, a) /\ a \in Varints \X {Yes}
    BY <1>p, <1>2, AllPackets
  <2>2. a \in Seq(Field) /\ Len(a) = 2 /\ Len(a) # 3 /\ a[1] \in Varints /\ a[2] = Yes
    BY <2>1, FieldSets, Pairs
  <2> QED BY <1>p, <2>1, <2>2, FieldsOfWire DEF WellFormed, Ops, Shape, ConfirmShape
<1>3. CASE p \in All("tunConfirm", Varints \X {No} \X Varints)
  <2>1. p.op = "tunConfirm" /\ p = Packet(p.op, a) /\ a \in Varints \X {No} \X Varints
    BY <1>p, <1>3, AllPackets
  <2>2. /\ a \in Seq(Field) /\ Len(a) = 3 /\ Len(a) # 2
        /\ a[1] \in Varints /\ a[2] = No /\ a[3] \in Varints
    BY <2>1, FieldSets, Triples
  <2> QED BY <1>p, <2>1, <2>2, FieldsOfWire DEF WellFormed, Ops, Shape, ConfirmShape
<1>4. CASE p \in All("tunTransfer", Varints \X Varints \X Binaries)
  <2>1. p.op = "tunTransfer" /\ p = Packet(p.op, a) /\ a \in Varints \X Varints \X Binaries
    BY <1>p, <1>4, AllPackets
  <2>2. /\ a \in Seq(Field) /\ Len(a) = 3
        /\ a[1] \in Varints /\ a[2] \in Varints /\ a[3] \in Binaries
    BY <2>1, FieldSets, Triples
  <2> QED BY <1>p, <2>1, <2>2, FieldsOfWire DEF WellFormed, Ops, Shape
<1>5. CASE p \in All("tunClose", Varints \X Binaries)
  <2>1. p.op = "tunClose" /\ p = Packet(p.op, a) /\ a \in Varints \X Binaries
    BY <1>p, <1>5, AllPackets
  <2>2. a \in Seq(Field) /\ Len(a) = 2 /\ a[1] \in Varints /\ a[2] \in Binaries
    BY <2>1, FieldSets, Pairs
  <2> QED BY <1>p, <2>1, <2>2, FieldsOfWire DEF WellFormed, Ops, Shape
<1> QED BY <1>1, <1>2, <1>3, <1>4, <1>5, Zenon DEF TunnelEvents

\* Every packet that process() begins to read has its shape.
LEMMA PacketShape ==
  ASSUME NEW p \in Readable
  PROVE  WellFormed(p)
<1>1. CASE p \in Greetings
  <2>1. \E o \in {"init", "deny"}, m \in Binaries :
          p = Packet(o, <<m, <<"binary", <<>>>>>>)
    <3>1. p # Packet("close", <<>>)
      BY DEF Readable, Misplaced
    <3>2. \E magics : magics \subseteq Binaries /\ p \in Answers(magics)
      BY <1>1, <3>1, FieldsOfWire, Zenon DEF Greetings, BadHandshakes
    <3>3. PICK magics : magics \subseteq Binaries /\ p \in Answers(magics)
      BY <3>2
    <3>4. PICK o \in {"init", "deny"}, m \in magics : p = Packet(o, <<m, <<"binary", <<>>>>>>)
      BY <3>3 DEF Answers
    <3> QED BY <3>3, <3>4
  <2> QED BY <2>1, FieldSets, FieldsOfWire DEF WellFormed, Packet, Ops, Shape
<1>2. CASE p \in Violations
  <2>1. p \in All("reply", Varints \X {<<"raw", 2>>})
    BY <1>2, Zenon DEF Violations, Readable, Misplaced
  <2>p. PICK a : a = p.args
    OBVIOUS
  <2>2. p.op = "reply" /\ a \in Varints \X {<<"raw", 2>>} /\ p = Packet(p.op, a)
    BY <2>1, <2>p, AllPackets
  <2>3. /\ a \in Seq(Field) /\ Len(a) = 2 /\ Len(a) # 4
        /\ a[1] \in Varints /\ a[2] = <<"raw", 2>>
    BY <2>2, FieldSets, Pairs
  <2>4. ReplyShape(a)
    BY <1>2, <2>2, <2>3, FieldsOfWire, Zenon DEF ReplyShape
  <2> QED BY <2>p, <2>2, <2>3, <2>4 DEF WellFormed, Shape, Ops
<1>3. p \in Greetings \/ p \in Violations \/ p \in Replies \/ p \in Events \/ p \in TunnelEvents
  BY Zenon DEF Readable, Sendable, Packets
<1> QED BY <1>1, <1>2, <1>3, ReplyWellFormed, EventWellFormed, TunnelWellFormed

\* An answer to the handshake accepts or denies, after one of the magics.
LEMMA AnswerFields ==
  ASSUME NEW magics, NEW p \in Answers(magics)
  PROVE  p.op \in {"init", "deny"} /\ p.args[1] \in magics
<1>1. PICK o \in {"init", "deny"}, m \in magics : p = Packet(o, <<m, <<"binary", <<>>>>>>)
  BY DEF Answers
<1> QED BY <1>1 DEF Packet

\* A handshake is told from a bad one by its magic; neither comes later.
LEMMA Handshakes ==
  ASSUME NEW p \in Readable
  PROVE  /\ p \in Packets => p.op \notin {"init", "deny"}
         /\ p \in Greetings => p.op \in {"init", "deny"}
         /\ p.op \in {"init", "deny"} /\ p.args[1] # <<"binary", Magic>>
              => p \in BadHandshakes
         /\ p.op \in {"init", "deny"} /\ p \in BadHandshakes
              => p.args[1] # <<"binary", Magic>>
<1>1. p \in Greetings \/ p \in Packets
  BY DEF Readable, Sendable
<1>2. ASSUME p \in Packets PROVE p.op \notin {"init", "deny"}
  <2>1. p \in Replies => p.op = "reply"
    BY AllPackets DEF Replies
  <2>2. p \in Events => p.op \in {"close", "broadcast", "publish", "request"}
    BY AllPackets DEF Events
  <2>3. p \in TunnelEvents =>
          p.op \in {"tunInit", "tunConfirm", "tunAllow", "tunTransfer", "tunClose"}
    BY AllPackets DEF TunnelEvents
  <2>4. p \in Violations => p.op = "reply"
    <3>1. p \in Violations => p \in All("reply", Varints \X {<<"raw", 2>>})
      BY Zenon DEF Violations, Readable, Misplaced
    <3> QED BY <3>1, AllPackets
  <2>5. p \in Replies \/ p \in Events \/ p \in TunnelEvents \/ p \in Violations
    BY <1>2, Zenon DEF Packets
  <2> QED BY <2>1, <2>2, <2>3, <2>4, <2>5
<1>4. p # Packet("close", <<>>)
  BY DEF Readable, Misplaced
<1>5. p \in BadHandshakes => p \in Answers(Binaries \ {<<"binary", Magic>>})
  BY <1>4, Zenon DEF BadHandshakes
<1>6. p \in Greetings => p \in BadHandshakes \/ p \in Answers({<<"binary", Magic>>})
  BY Zenon DEF Greetings
<1>7. p \in BadHandshakes =>
        p.op \in {"init", "deny"} /\ p.args[1] # <<"binary", Magic>>
  <2> DEFINE bad == Binaries \ {<<"binary", Magic>>}
  <2>1. p \in BadHandshakes => p \in Answers(bad)
    BY <1>5
  <2>2. \A x \in bad : x # <<"binary", Magic>>
    OBVIOUS
  <2> HIDE DEF bad
  <2> QED BY <2>1, <2>2, AnswerFields
<1>8. p \in Greetings /\ p \notin BadHandshakes =>
        p.op \in {"init", "deny"} /\ p.args[1] = <<"binary", Magic>>
  BY <1>6, AnswerFields
<1> QED BY <1>1, <1>2, <1>7, <1>8, Zenon

\* Of a packet that is handled, no field is a byte without a meaning.
LEMMA GoodPacket ==
  ASSUME NEW p \in Readable, \A i \in DOMAIN p.args : p.args[i][1] \in Kinds,
         p.op \in {"init", "deny"} => p.args[1] = <<"binary", Magic>>
  PROVE  p \notin Violations \cup BadHandshakes
<1>1. ASSUME p \in Violations PROVE FALSE
  <2>1. p \in All("reply", Varints \X {<<"raw", 2>>})
    BY <1>1, Zenon DEF Violations, Readable, Misplaced
  <2>2. p.args \in Varints \X {<<"raw", 2>>}
    BY <2>1, AllPackets
  <2>3. p.args \in Seq(Field) /\ Len(p.args) = 2 /\ p.args[2] = <<"raw", 2>>
    BY <2>2, FieldSets, Pairs
  <2>4. 2 \in DOMAIN p.args
    BY <2>3
  <2>5. p.args[2][1] = "raw"
    BY <2>3
  <2> QED BY <2>4, <2>5 DEF Kinds
<1>2. ASSUME p \in BadHandshakes PROVE FALSE
  <2>1. p \in Greetings
    BY <1>2 DEF Greetings
  <2> QED BY <1>2, <2>1, Handshakes
<1> QED BY <1>1, <1>2

\* A packet out of its place is a violation of the protocol.
LEMMA MisplacedIsBad == Misplaced \subseteq Violations \cup BadHandshakes
BY Zenon DEF Misplaced, Violations, BadHandshakes

-----------------------------------------------------------------------------
(* The fields that the proc functions read are the ones that were written.  *)

\* What has been read of the packet p is a prefix of its fields.
ReadSoFar(p) ==
  /\ op = p.op /\ Len(args) \in Nat /\ Len(args) <= Len(p.args)
  /\ args \in Seq(Field)
  /\ \A i \in 1 .. Len(args) : args[i] = p.args[i] /\ args[i][1] \in Kinds

\* The fields that the code expects are the fields that were sent.
LEMMA LayoutFits ==
  ASSUME NEW p \in Readable, ReadSoFar(p)
  PROVE  /\ Len(args) = Len(p.args) => Len(args) = Len(Layout)
         /\ Len(args) < Len(p.args) =>
              /\ Len(args) # Len(Layout)
              /\ \/ Layout[Len(args) + 1] = p.args[Len(args) + 1][1]
                 \/ /\ Layout[Len(args) + 1] = "bool" /\ p \in Violations
                    /\ p.args[Len(args) + 1] = <<"raw", 2>>
<1>1. WellFormed(p)
  BY PacketShape
<1>2. PICK a \in Seq(Field) : a = p.args
  BY <1>1 DEF WellFormed
<1>3. PICK k \in Nat : k = Len(args)
  BY DEF ReadSoFar
<1>4. /\ Shape(op, a) /\ p = Packet(op, a) /\ Len(a) \in Nat /\ k <= Len(a)
      /\ \A i \in 1 .. k : args[i] = a[i] /\ args[i][1] \in Kinds
  BY <1>1, <1>2, <1>3 DEF ReadSoFar, WellFormed
<1> DEFINE Goal == /\ k = Len(a) => k = Len(Layout)
                   /\ k < Len(a) =>
                        /\ k # Len(Layout)
                        /\ \/ Layout[k + 1] = a[k + 1][1]
                           \/ /\ Layout[k + 1] = "bool" /\ p \in Violations
                              /\ a[k + 1] = <<"raw", 2>>
<1>5. CASE op \in {"init", "deny", "publish"}
  <2>1. Layout = <<"binary", "binary">>
    BY <1>5 DEF Layout
  <2>2. Len(a) = 2 /\ a[1][1] = "binary" /\ a[2][1] = "binary"
    BY <1>4, <1>5 DEF Shape, IsBinary
  <2>3. Goal
    BY <1>4, <2>1, <2>2
  <2> QED BY <1>2, <1>3, <2>3
<1>6. CASE op \in {"close", "broadcast"}
  <2>1. Layout = <<"binary">>
    BY <1>6 DEF Layout
  <2>2. Len(a) = 1 /\ a[1][1] = "binary"
    BY <1>4, <1>6 DEF Shape, IsBinary
  <2>3. Goal
    BY <1>4, <2>1, <2>2
  <2> QED BY <1>2, <1>3, <2>3
<1>7. CASE op = "request"
  <2>1. Layout = <<"varint", "binary", "varint">>
    BY <1>7 DEF Layout
  <2>2. Len(a) = 3 /\ a[1][1] = "varint" /\ a[2][1] = "binary" /\ a[3][1] = "varint"
    BY <1>4, <1>7 DEF Shape, IsBinary, IsVarint
  <2>3. Goal
    BY <1>4, <2>1, <2>2
  <2> QED BY <1>2, <1>3, <2>3
<1>8. CASE op \in {"tunInit", "tunAllow"}
  <2>1. Layout = <<"varint", "varint">>
    BY <1>8 DEF Layout
  <2>2. Len(a) = 2 /\ a[1][1] = "varint" /\ a[2][1] = "varint"
    BY <1>4, <1>8 DEF Shape, IsVarint
  <2>3. Goal
    BY <1>4, <2>1, <2>2
  <2> QED BY <1>2, <1>3, <2>3
<1>9. CASE op = "tunTransfer"
  <2>1. Layout = <<"varint", "varint", "binary">>
    BY <1>9 DEF Layout
  <2>2. Len(a) = 3 /\ a[1][1] = "varint" /\ a[2][1] = "varint" /\ a[3][1] = "binary"
    BY <1>4, <1>9 DEF Shape, IsBinary, IsVarint
  <2>3. Goal
    BY <1>4, <2>1, <2>2
  <2> QED BY <1>2, <1>3, <2>3
<1>10. CASE op = "tunClose"
  <2>1. Layout = <<"varint", "binary">>
    BY <1>10 DEF Layout
  <2>2. Len(a) = 2 /\ a[1][1] = "varint" /\ a[2][1] = "binary"
    BY <1>4, <1>10 DEF Shape, IsBinary, IsVarint
  <2>3. Goal
    BY <1>4, <2>1, <2>2
  <2> QED BY <1>2, <1>3, <2>3
<1>y. Yes[1] = "bool" /\ No[1] = "bool" /\ Yes # No /\ "raw" \notin Kinds
      /\ <<"raw", 2>>[1] = "raw"
  BY FieldsOfWire DEF Yes, No, Kinds
<1>11. CASE op = "reply"
  <2>1. ReplyShape(a)
    BY <1>4, <1>11 DEF Shape
  <2>2. CASE k < 2
    <3>1. ~TimedOut
      BY <1>3, <2>2 DEF TimedOut
    <3>2. Layout = <<"varint", "bool", "bool", "binary">>
      BY <1>11, <3>1 DEF Layout
    <3>3. Len(a) \in {2, 4} /\ a[1][1] = "varint"
      BY <2>1 DEF ReplyShape, IsVarint
    <3>4. a[2] = Yes \/ a[2] = No \/ (a[2] = <<"raw", 2>> /\ p \in Violations)
      BY <1>4, <1>11, <2>1, <3>3 DEF ReplyShape
    <3>5. CASE k = 0
      BY <1>2, <1>3, <3>2, <3>3, <3>5
    <3>6. CASE k = 1
      BY <1>2, <1>3, <1>y, <3>2, <3>3, <3>4, <3>6
    <3> QED BY <2>2, <3>5, <3>6
  <2>3. CASE k >= 2
    <3>1. args[2] = a[2] /\ a[2][1] \in Kinds
      BY <1>4, <2>3
    <3>2. CASE Len(a) = 2
      <4>1. a[2] = Yes /\ k = 2
        BY <1>4, <1>y, <2>1, <2>3, <3>1, <3>2 DEF ReplyShape
      <4>2. TimedOut
        BY <1>3, <2>3, <3>1, <4>1 DEF TimedOut
      <4>3. Layout = <<"varint", "bool">>
        BY <1>11, <4>2 DEF Layout
      <4> QED BY <1>2, <1>3, <3>2, <4>1, <4>3
    <3>3. CASE Len(a) = 4
      <4>1. a[2] = No /\ a[3][1] = "bool" /\ a[4][1] = "binary"
        BY <2>1, <3>3 DEF ReplyShape, IsBool, IsBinary
      <4>2. ~TimedOut
        BY <1>y, <3>1, <4>1 DEF TimedOut
      <4>3. Layout = <<"varint", "bool", "bool", "binary">>
        BY <1>11, <4>2 DEF Layout
      <4>4. k \in {2, 3, 4}
        BY <1>4, <2>3, <3>3
      <4>5. k = Len(a) => k = Len(Layout)
        BY <3>3, <4>3
      <4>6. k < Len(a) => k # Len(Layout) /\ Layout[k + 1] = a[k + 1][1]
        BY <3>3, <4>1, <4>3, <4>4
      <4> QED BY <1>2, <1>3, <4>5, <4>6
    <3> QED BY <2>1, <3>2, <3>3 DEF ReplyShape
  <2> QED BY <2>2, <2>3
<1>12. CASE op = "tunConfirm"
  <2>1. ConfirmShape(a)
    BY <1>4, <1>12 DEF Shape
  <2>2. CASE k < 2
    <3>1. ~TimedOut
      BY <1>3, <2>2 DEF TimedOut
    <3>2. Layout = <<"varint", "bool", "varint">>
      BY <1>12, <3>1 DEF Layout
    <3>3. Len(a) \in {2, 3} /\ a[1][1] = "varint"
      BY <2>1 DEF ConfirmShape, IsVarint
    <3>4. a[2] = Yes \/ a[2] = No
      BY <2>1, <3>3 DEF ConfirmShape
    <3>5. CASE k = 0
      BY <1>2, <1>3, <3>2, <3>3, <3>5
    <3>6. CASE k = 1
      BY <1>2, <1>3, <1>y, <3>2, <3>3, <3>4, <3>6
    <3> QED BY <2>2, <3>5, <3>6
  <2>3. CASE k >= 2
    <3>1. args[2] = a[2]
      BY <1>4, <2>3
    <3>2. CASE Len(a) = 2
      <4>1. a[2] = Yes /\ k = 2
        BY <1>4, <2>1, <2>3, <3>2 DEF ConfirmShape
      <4>2. TimedOut
        BY <1>3, <2>3, <3>1, <4>1 DEF TimedOut
      <4>3. Layout = <<"varint", "bool">>
        BY <1>12, <4>2 DEF Layout
      <4> QED BY <1>2, <1>3, <3>2, <4>1, <4>3
    <3>3. CASE Len(a) = 3
      <4>1. a[2] = No /\ a[3][1] = "varint"
        BY <2>1, <3>3 DEF ConfirmShape, IsVarint
      <4>2. ~TimedOut
        BY <1>y, <3>1, <4>1 DEF TimedOut
      <4>3. Layout = <<"varint", "bool", "varint">>
        BY <1>12, <4>2 DEF Layout
      <4>4. k \in {2, 3}
        BY <1>4, <2>3, <3>3
      <4>5. k = Len(a) => k = Len(Layout)
        BY <3>3, <4>3
      <4>6. k < Len(a) => k # Len(Layout) /\ Layout[k + 1] = a[k + 1][1]
        BY <3>3, <4>1, <4>3, <4>4
      <4> QED BY <1>2, <1>3, <4>5, <4>6
    <3> QED BY <2>1, <3>2, <3>3 DEF ConfirmShape
  <2> QED BY <2>2, <2>3
<1> QED BY <1>4, <1>5, <1>6, <1>7, <1>8, <1>9, <1>10, <1>11, <1>12 DEF Shape

-----------------------------------------------------------------------------
(* The stream.                                                             *)

\* A handshake comes first, packets follow.
SentOK(s) ==
  /\ s \in Seq(Sendable) /\ Len(s) >= 1
  /\ s[1] \in Greetings /\ \A i \in 2 .. Len(s) : s[i] \in Packets

\* What the relay writes is a handshake, and packets after a good one.
LEMMA SentIsOK == Init => SentOK(sent)
<1> SUFFICES ASSUME Init PROVE SentOK(sent)
  OBVIOUS
<1>0. Greetings \subseteq Sendable /\ Packets \subseteq Sendable
  BY DEF Sendable
<1>1. Accept \in Greetings
  <2>1. Accept \in Answers({<<"binary", Magic>>})
    BY DEF Accept, Answers
  <2> QED BY <2>1 DEF Greetings
<1>2. CASE \E h \in Greetings : sent = <<h>>
  BY <1>0, <1>2 DEF SentOK
<1>3. CASE \E s \in [1 .. MaxPackets -> Packets] : sent = <<Accept>> \o s
  <2>1. PICK s \in [1 .. MaxPackets -> Packets] : sent = <<Accept>> \o s
    BY <1>3
  <2>2. MaxPackets \in Nat
    BY WireAssumption
  <2>3. s \in Seq(Packets) /\ Len(s) = MaxPackets /\ \A i \in 1 .. MaxPackets : s[i] \in Packets
    BY <2>2
  <2>4. s \in Seq(Sendable)
    BY <1>0, <2>3, SeqMonotonic
  <2>5. <<Accept>> \in Seq(Sendable) /\ Len(<<Accept>>) = 1 /\ <<Accept>>[1] = Accept
    BY <1>0, <1>1
  <2>6. /\ sent \in Seq(Sendable) /\ Len(sent) = MaxPackets + 1
        /\ \A i \in 1 .. MaxPackets + 1 :
             sent[i] = IF i <= 1 THEN <<Accept>>[i] ELSE s[i - 1]
    <3>1. /\ <<Accept>> \o s \in Seq(Sendable)
          /\ Len(<<Accept>> \o s) = Len(<<Accept>>) + Len(s)
          /\ \A i \in 1 .. Len(<<Accept>>) + Len(s) :
               (<<Accept>> \o s)[i] =
                 IF i <= Len(<<Accept>>) THEN <<Accept>>[i] ELSE s[i - Len(<<Accept>>)]
      BY <2>4, <2>5, ConcatProperties
    <3> QED BY <2>1, <2>2, <2>3, <2>5, <3>1
  <2>7. sent[1] = Accept
    BY <2>2, <2>5, <2>6
  <2>8. ASSUME NEW i \in 2 .. Len(sent) PROVE sent[i] \in Packets
    <3>1. i \in 1 .. MaxPackets + 1 /\ ~(i <= 1) /\ i - 1 \in 1 .. MaxPackets
      BY <2>2, <2>6
    <3> QED BY <2>3, <2>6, <3>1
  <2> QED BY <1>1, <2>2, <2>6, <2>7, <2>8 DEF SentOK
<1>4. \/ sent \in {<<h>> : h \in Greetings}
      \/ sent \in {<<Accept>> \o s : s \in [1 .. MaxPackets -> Packets]}
  BY DEF Init, Greetings
<1> QED BY <1>2, <1>3, <1>4, Zenon

\* A packet is sent as its opcode followed by its fields.
LEMMA SendableString ==
  ASSUME NEW p \in Sendable
  PROVE  /\ p.args \in Seq(Field) /\ OpByte(p) \in String
         /\ FieldRest(p)[0] \in String /\ SendPacket(p) \in String
         /\ SendPacket(p) = OpByte(p) \o FieldRest(p)[0]
<1>1. p.args \in Seq(Field) /\ p.op \in Ops \cup {None}
  <2>1. CASE p \in Readable
    BY <2>1, PacketShape DEF WellFormed
  <2>2. CASE p \in Misplaced
    <3>1. PICK raw \in Field : raw = <<"raw", 2 * Base - 1>>
      BY FieldsOfWire
    <3>2. p \in {Packet("init", <<>>), Packet("close", <<>>), Packet(None, <<raw>>)}
      BY <2>2, <3>1 DEF Misplaced
    <3>3. p.op \in {"init", "close", None} /\ (p.args = <<>> \/ p.args = <<raw>>)
      BY <3>2 DEF Packet
    <3>4. p.args \in Seq(Field)
      <4>1. <<>> \in Seq(Field) /\ <<raw>> \in Seq(Field)
        OBVIOUS
      <4> QED BY <3>3, <4>1, Zenon
    <3> QED BY <3>3, <3>4 DEF Ops
  <2> QED BY <2>1, <2>2 DEF Readable
<1>2. OpByte(p) \in String
  BY <1>1, OpFacts DEF OpByte, String
<1>3. /\ FieldRest(p)[0] \in String /\ SendPacket(p) = OpByte(p) \o FieldRest(p)[0]
  <2>1. 0 \in 0 .. Len(p.args)
    BY <1>1
  <2> QED BY <1>1, <2>1, FieldsCut
<1>4. OpByte(p) \o FieldRest(p)[0] \in String
  BY <1>2, <1>3, ConcatProperties DEF String
<1> QED BY <1>1, <1>2, <1>3, <1>4

PacketStrings(s) == [i \in DOMAIN s |-> SendPacket(s[i])]

\* What follows the first packets of what was sent.
PacketRest(s) ==
  CHOOSE f : /\ Rests(f, PacketStrings(s), Byte, Len(s))
             /\ f[0] = FlattenSeq(PacketStrings(s))

\* What is left of the stream after k packets is the next packet and the rest.
LEMMA PacketsCut ==
  ASSUME NEW s \in Seq(Sendable)
  PROVE  /\ \A k \in 0 .. Len(s) : PacketRest(s)[k] \in String
         /\ PacketRest(s)[Len(s)] = <<>>
         /\ \A k \in 1 .. Len(s) : PacketRest(s)[k - 1] = SendPacket(s[k]) \o PacketRest(s)[k]
         /\ PacketRest(s)[0] = FlattenSeq(PacketStrings(s))
<1> DEFINE n == Len(s)
           P(f) == Rests(f, PacketStrings(s), Byte, n) /\ f[0] = FlattenSeq(PacketStrings(s))
<1>1. n \in Nat /\ DOMAIN s = 1 .. n /\ \A i \in 1 .. n : s[i] \in Sendable
  OBVIOUS
<1>2. PacketStrings(s) = [i \in 1 .. n |-> SendPacket(s[i])]
  BY <1>1 DEF PacketStrings
<1>3. \A i \in 1 .. n : SendPacket(s[i]) \in Seq(Byte)
  BY <1>1, SendableString DEF String
<1>4. PacketStrings(s) \in Seq(Seq(Byte)) /\ Len(PacketStrings(s)) = n
  BY <1>1, <1>2, <1>3, IsASeq
<1>5. \E f : P(f)
  BY <1>4, FlattenRests
<1> HIDE DEF P
<1>6. P(CHOOSE f : P(f))
  BY <1>5, Zenon
<1>7. PICK f : P(f) /\ f = PacketRest(s)
  BY <1>6 DEF PacketRest, P
<1>8. Rests(f, PacketStrings(s), Byte, n) /\ f[0] = FlattenSeq(PacketStrings(s))
  BY <1>7 DEF P
<1>9. \A k \in 1 .. n : PacketStrings(s)[k] = SendPacket(s[k])
  BY <1>2
<1>10. /\ \A k \in 0 .. n : f[k] \in String
       /\ f[n] = <<>>
       /\ \A k \in 1 .. n : f[k - 1] = SendPacket(s[k]) \o f[k]
  BY <1>8, <1>9 DEF Rests, String
<1> QED BY <1>7, <1>8, <1>10

\* The packet being read, what follows it, and what follows its k-th field.
Current == sent[Len(handled) + 1]
After   == PacketRest(sent)[Len(handled) + 1]
Rest(k) == FieldRest(Current)[k] \o After
Here    == Current.args[Len(args) + 1]

Between == num = 0 /\ scale = 1 /\ size = None

\* In the middle of an integer: v is what its next digits stand for.
InNumber ==
  /\ Len(args) < Len(Current.args) /\ Here[1] \in {"varint", "binary"}
  /\ size = None /\ num \in 0 .. Word - 1 /\ scale \in 1 .. Word - 1
  /\ \E v \in 0 .. Word - 1 :
       /\ num + scale * v = Amount(Here)
       /\ stream = SendVarint[v] \o (Payload(Here) \o Rest(Len(args) + 1))

\* Between the length of a binary and its content.
InBinary ==
  /\ Len(args) < Len(Current.args) /\ Here[1] = "binary"
  /\ num = 0 /\ scale = 1 /\ size = Amount(Here)
  /\ stream = Payload(Here) \o Rest(Len(args) + 1)

\* procInit reads on after the magic only if it is the right one.
MagicFirst ==
  op \in {"init", "deny"} /\ Len(args) >= 2 => args[1] = <<"binary", Magic>>

\* What is left of the stream is what process() has not read yet of what was sent.
CutInv ==
  /\ op = None =>
       /\ Len(handled) <= Len(sent) /\ Between /\ args = <<>>
       /\ stream = PacketRest(sent)[Len(handled)]
  /\ op # None =>
       /\ Len(handled) < Len(sent) /\ Current \in Readable /\ ReadSoFar(Current)
       /\ (Between /\ stream = Rest(Len(args))) \/ InNumber \/ InBinary
       /\ MagicFirst

\* What a packet is to its handler.
Dispatched(p) == Packet(p.op, Converted(p.op, p.args))

\* A reply is taken for a timeout.
LooksTimedOut(p) == p.args[2] = Yes \/ EmptyFault(p)

Genuine(i) ==
  sent[i].op = "reply" => (results[i] = "timeout" <=> LooksTimedOut(sent[i]))

\* What the handlers have seen.
HandledInv ==
  /\ SentOK(sent)
  /\ handled \in Seq({Dispatched(p) : p \in Sendable})
  /\ results \in Seq({"timeout", "fault", "reply", None})
  /\ Len(results) = Len(handled)
  /\ \A i \in 1 .. Len(handled) :
       /\ handled[i] = Dispatched(sent[i])
       /\ sent[i] \notin Violations \cup BadHandshakes
       /\ i > 1 => ~Final(sent[i - 1])
       /\ Genuine(i)
  /\ phase \in {"init", "open", "violation", "broken", "denied", "closed", "dropped"}
  /\ phase = "init" => Len(handled) = 0
  /\ phase = "open" => Len(handled) >= 1
  /\ Reading => \A i \in 1 .. Len(handled) : ~Final(sent[i])
  /\ NoFalseAlarm

WireInv == HandledInv /\ CutInv

\* The invariant holds initially: the whole stream is left to read.
LEMMA InitWireInv == Init => WireInv
<1> SUFFICES ASSUME Init PROVE WireInv
  OBVIOUS
<1>1. SentOK(sent) /\ sent \in Seq(Sendable) /\ Len(sent) \in Nat
  BY SentIsOK DEF SentOK
<1>2. handled = <<>> /\ results = <<>> /\ Len(handled) = 0 /\ Len(results) = 0
  BY DEF Init
<1>3. stream = PacketRest(sent)[0]
  <2>1. stream = FlattenSeq(PacketStrings(sent))
    BY DEF Init, PacketStrings
  <2> QED BY <1>1, <2>1, PacketsCut
<1>4. HandledInv
  BY <1>1, <1>2 DEF HandledInv, Init, NoFalseAlarm
<1>5. CutInv
  BY <1>1, <1>2, <1>3 DEF CutInv, Init, Between
<1> QED BY <1>4, <1>5 DEF WireInv

-----------------------------------------------------------------------------
(* One step of process().                                                  *)

\* The packet being read, in a state where its opcode has been read.
LEMMA CurrentPacket ==
  ASSUME WireInv, op # None
  PROVE  /\ Len(handled) \in Nat /\ Len(handled) + 1 \in 1 .. Len(sent)
         /\ Current \in Readable /\ Current \in Sendable /\ ReadSoFar(Current)
         /\ Current.args \in Seq(Field) /\ Current.op \in Ops
         /\ After \in String
         /\ \A k \in 0 .. Len(Current.args) : Rest(k) \in String
         /\ Rest(Len(Current.args)) = After
         /\ \A k \in 1 .. Len(Current.args) :
              Rest(k - 1) = SendField(Current.args[k]) \o Rest(k)
<1>1. Len(handled) \in Nat /\ sent \in Seq(Sendable) /\ Len(sent) \in Nat
  BY DEF WireInv, HandledInv, SentOK
<1>2. /\ Len(handled) < Len(sent) /\ Current \in Readable /\ ReadSoFar(Current)
  BY DEF WireInv, CutInv
<1>3. Len(handled) + 1 \in 1 .. Len(sent) /\ Len(handled) + 1 \in 0 .. Len(sent)
  BY <1>1, <1>2
<1>4. After \in String
  BY <1>1, <1>3, PacketsCut DEF After
<1>5. Current.args \in Seq(Field) /\ Current.op \in Ops
  BY <1>2, PacketShape DEF WellFormed
<1>6. PICK p : p = Current
  OBVIOUS
<1>7. PICK n \in Nat : n = Len(p.args)
  BY <1>5, <1>6
<1>8. /\ \A k \in 0 .. n : FieldRest(p)[k] \in String
      /\ FieldRest(p)[n] = <<>>
      /\ \A k \in 1 .. n : FieldRest(p)[k - 1] = SendField(p.args[k]) \o FieldRest(p)[k]
  BY <1>5, <1>6, <1>7, FieldsCut
<1>9. \A k \in 0 .. n : Rest(k) \in String
  BY <1>4, <1>6, <1>8, ConcatProperties DEF Rest, String
<1>10. Rest(n) = After
  BY <1>4, <1>6, <1>8, ConcatEmptySeq DEF Rest, String
<1>11. ASSUME NEW k \in 1 .. n PROVE Rest(k - 1) = SendField(p.args[k]) \o Rest(k)
  <2>1. k \in 0 .. n /\ p.args[k] \in Field
    BY <1>5, <1>6, <1>7
  <2>2. PICK a \in Seq(Byte), b \in Seq(Byte), c \in Seq(Byte) :
          a = SendField(p.args[k]) /\ b = FieldRest(p)[k] /\ c = After
    BY <1>4, <1>8, <2>1, FieldString DEF String
  <2>3. (a \o b) \o c = a \o (b \o c)
    BY ConcatAssociative
  <2>4. FieldRest(p)[k - 1] = a \o b
    BY <1>8, <2>2
  <2> QED BY <1>6, <2>2, <2>3, <2>4 DEF Rest
<1>12. Current \in Sendable
  BY <1>2 DEF Readable
<1> QED BY <1>1, <1>2, <1>3, <1>4, <1>5, <1>6, <1>7, <1>9, <1>10, <1>11, <1>12

\* The next field is the one the code expects, or the byte of a bad reply.
LEMMA NextField ==
  ASSUME WireInv, NEW kind \in Kinds, Expects(kind)
  PROVE  /\ op # None /\ Reading /\ Len(args) < Len(Current.args)
         /\ Len(args) \in Nat /\ Len(args) + 1 \in 1 .. Len(Current.args)
         /\ Len(args) + 1 \in 0 .. Len(Current.args)
         /\ Here \in Field
         /\ \/ Here[1] = kind
            \/ kind = "bool" /\ Here = <<"raw", 2>> /\ Current \in Violations
         /\ Rest(Len(args)) = SendField(Here) \o Rest(Len(args) + 1)
         /\ Rest(Len(args) + 1) \in String
<1>1. op # None /\ Reading /\ Len(args) # Len(Layout) /\ Layout[Len(args) + 1] = kind
  BY DEF Expects, Complete
<1>2. /\ Current \in Readable /\ ReadSoFar(Current) /\ Current.args \in Seq(Field)
      /\ \A k \in 0 .. Len(Current.args) : Rest(k) \in String
      /\ \A k \in 1 .. Len(Current.args) :
              Rest(k - 1) = SendField(Current.args[k]) \o Rest(k)
  BY <1>1, CurrentPacket
<1>3. Len(args) \in Nat /\ Len(args) <= Len(Current.args) /\ Len(Current.args) \in Nat
  BY <1>2 DEF ReadSoFar
<1>4. Len(args) < Len(Current.args)
  BY <1>1, <1>2, <1>3, LayoutFits
<1>5. \/ Here[1] = kind
      \/ kind = "bool" /\ Here = <<"raw", 2>> /\ Current \in Violations
  BY <1>1, <1>2, <1>4, LayoutFits DEF Here
<1>6. PICK k \in Nat : k = Len(args)
  BY <1>3
<1>7. k + 1 \in 1 .. Len(Current.args) /\ k + 1 \in 0 .. Len(Current.args) /\ k + 1 - 1 = k
  BY <1>3, <1>4, <1>6
<1>8. Here \in Field
  BY <1>2, <1>6, <1>7 DEF Here
<1>9. Rest(k) = SendField(Current.args[k + 1]) \o Rest(k + 1)
  <2>1. Rest(k + 1 - 1) = SendField(Current.args[k + 1]) \o Rest(k + 1)
    BY <1>2, <1>7
  <2> QED BY <1>7, <2>1
<1>10. Rest(k + 1) \in String
  BY <1>2, <1>7
<1> QED BY <1>1, <1>4, <1>5, <1>6, <1>7, <1>8, <1>9, <1>10 DEF Here

\* A field was read: the packet goes on with the next one.
LEMMA FieldRead ==
  ASSUME WireInv, NEW kind \in Kinds, Expects(kind), Here[1] = kind,
         args' = Append(args, Here), stream' = Rest(Len(args) + 1), Between',
         UNCHANGED <<sent, phase, op, handled, results>>
  PROVE  CutInv'
<1>1. /\ op # None /\ Len(args) \in Nat /\ Len(args) + 1 \in 1 .. Len(Current.args)
      /\ Here \in Field
  BY NextField
<1>2. Current \in Readable /\ ReadSoFar(Current) /\ Len(handled) < Len(sent)
  BY <1>1, CurrentPacket DEF WireInv, CutInv
<1>3. args \in Seq(Field) /\ \A i \in 1 .. Len(args) : args[i] = Current.args[i] /\ args[i][1] \in Kinds
  BY <1>2 DEF ReadSoFar
<1>4. /\ args' \in Seq(Field) /\ Len(args') = Len(args) + 1
      /\ args'[Len(args) + 1] = Here /\ \A i \in 1 .. Len(args) : args'[i] = args[i]
  BY <1>1, <1>3
<1>5. Current' = Current
  BY DEF Current
<1>6. PICK k \in Nat : k = Len(args)
  BY <1>1
<1>7. /\ Len(args') = k + 1 /\ k + 1 \in 1 .. Len(Current.args)
      /\ args'[k + 1] = Current.args[k + 1] /\ args'[k + 1][1] \in Kinds
      /\ \A i \in 1 .. k : args'[i] = Current.args[i] /\ args'[i][1] \in Kinds
  BY <1>1, <1>3, <1>4, <1>6 DEF Here
<1>8. \A i \in 1 .. k + 1 : args'[i] = Current.args[i] /\ args'[i][1] \in Kinds
  <2>1. \A i \in 1 .. k + 1 : i = k + 1 \/ i \in 1 .. k
    OBVIOUS
  <2> QED BY <1>7, <2>1
<1>9. ReadSoFar(Current)'
  BY <1>2, <1>4, <1>5, <1>7, <1>8 DEF ReadSoFar
<1>10. stream' = FieldRest(Current')[Len(args')] \o After'
  BY <1>5, <1>6, <1>7 DEF Rest, After
<1>11. MagicFirst'
  <2>1. CASE k = 0
    BY <1>7, <2>1 DEF MagicFirst
  <2>2. CASE k = 1
    <3>1. ~WrongMagic
      BY DEF Expects
    <3> QED BY <1>4, <1>6, <2>2, <3>1 DEF WrongMagic, MagicFirst
  <2>3. CASE k >= 2
    <3>1. MagicFirst
      BY <1>1 DEF WireInv, CutInv
    <3>2. args'[1] = args[1]
      BY <1>4, <1>6, <2>3
    <3> QED BY <1>6, <2>3, <3>1, <3>2 DEF MagicFirst
  <2> QED BY <2>1, <2>2, <2>3
<1> QED BY <1>1, <1>2, <1>5, <1>9, <1>10, <1>11 DEF CutInv, Rest

\* A failed read changes the phase only.
LEMMA FailInv ==
  ASSUME WireInv, NEW end, Fail(end)
  PROVE  CutInv'
<1>1. UNCHANGED <<sent, stream, op, args, num, scale, size, handled, results>>
  BY DEF Fail
<1>2. /\ Current' = Current /\ After' = After /\ Here' = Here
      /\ FieldRest(Current)' = FieldRest(Current) /\ ReadSoFar(Current)' = ReadSoFar(Current)
      /\ MagicFirst' = MagicFirst /\ Between' = Between
  BY <1>1 DEF Current, After, Here, ReadSoFar, MagicFirst, Between
<1>3. InNumber' = InNumber
  BY <1>1, <1>2 DEF InNumber, Rest
<1>4. InBinary' = InBinary
  BY <1>1, <1>2 DEF InBinary, Rest
<1>5. (stream = Rest(Len(args)))' = (stream = Rest(Len(args)))
  BY <1>1, <1>2 DEF Rest
<1>6. CutInv
  BY DEF WireInv
<1> QED BY <1>1, <1>2, <1>3, <1>4, <1>5, <1>6 DEF CutInv

\* recvBool reads one byte, the whole field, and blames the relay for a bad one.
LEMMA RecvBoolInv ==
  ASSUME WireInv, RecvBool
  PROVE  CutInv' /\ NoFalseAlarm'
<1>1. Expects("bool") /\ stream # <<>> /\ "bool" \in Kinds
  BY DEF RecvBool, Kinds
<1>2. /\ op # None /\ Reading /\ Here \in Field
      /\ Here[1] = "bool" \/ (Here = <<"raw", 2>> /\ Current \in Violations)
      /\ Rest(Len(args)) = SendField(Here) \o Rest(Len(args) + 1)
      /\ Rest(Len(args) + 1) \in String
  BY <1>1, NextField
<1>3. Here[1] \notin {"varint", "binary"}
  BY <1>2
<1>4. Between /\ stream = SendField(Here) \o Rest(Len(args) + 1)
  BY <1>2, <1>3 DEF WireInv, CutInv, InNumber, InBinary
<1>5. PICK rest \in Seq(Byte) : rest = Rest(Len(args) + 1)
  BY <1>2 DEF String
<1>6. CASE Here[1] = "bool"
  <2>1. PICK b \in {0, 1} : SendField(Here) = <<b>> /\ Here = <<"bool", b = 1>>
    BY <1>2, <1>3, <1>6, ByteField
  <2>2. b \in Byte
    BY WireAssumption DEF Byte
  <2>3. Head(stream) = b /\ Tail(stream) = rest
    BY <1>4, <1>5, <2>1, <2>2, FirstOf
  <2>4. /\ args' = Append(args, <<"bool", Head(stream) = 1>>) /\ stream' = Tail(stream)
        /\ UNCHANGED <<sent, phase, op, num, scale, size, handled, results>>
    BY <2>3 DEF RecvBool
  <2>5. args' = Append(args, Here)
    BY <2>1, <2>3, <2>4, Zenon
  <2>6. Between'
    BY <1>4, <2>4 DEF Between
  <2>7. CutInv'
    BY <1>1, <1>5, <1>6, <2>3, <2>4, <2>5, <2>6, FieldRead
  <2>8. NoFalseAlarm'
    BY <1>2, <2>4 DEF NoFalseAlarm, Reading
  <2> QED BY <2>7, <2>8
<1>7. CASE Here[1] # "bool"
  <2>1. Here = <<"raw", 2>> /\ Current \in Violations
    BY <1>2, <1>7
  <2>2. Here[1] = "raw" /\ Here[2] = 2
    BY <2>1
  <2>3. SendField(Here) = <<2>> /\ 2 \in Byte
    BY <1>2, <1>3, <2>2, ByteField
  <2>4. Head(stream) = 2
    BY <1>4, <1>5, <2>3, FirstOf
  <2>5. Fail("violation")
    BY <2>4 DEF RecvBool
  <2>6. CutInv'
    BY <2>5, FailInv
  <2>7. NoFalseAlarm'
    BY <2>1, <2>5 DEF NoFalseAlarm, Fail, Current
  <2> QED BY <2>6, <2>7
<1> QED BY <1>6, <1>7

\* Where an integer is expected, the stream is inside of one.
LEMMA AtNumber ==
  ASSUME WireInv, Expects("varint") \/ (Expects("binary") /\ size = None)
  PROVE  /\ InNumber /\ Here \in Field /\ Rest(Len(args) + 1) \in String
         /\ Expects("varint") => Here[1] = "varint"
         /\ Expects("binary") => Here[1] = "binary"
<1>1. PICK kind \in {"varint", "binary"} :
        Expects(kind) /\ (kind = "binary" => size = None)
  OBVIOUS
<1>2. kind \in Kinds /\ kind # "bool"
  BY DEF Kinds
<1>3. /\ op # None /\ Here \in Field /\ Here[1] = kind /\ Len(args) < Len(Current.args)
      /\ Rest(Len(args)) = SendField(Here) \o Rest(Len(args) + 1)
      /\ Rest(Len(args) + 1) \in String
  BY <1>1, <1>2, NextField
<1>4. ~InBinary
  <2>1. Amount(Here) \in Nat
    BY <1>3, IntegerFirst, WireAssumption
  <2>2. kind = "binary" => size # Amount(Here)
    BY <1>1, <2>1, WireAssumption
  <2> QED BY <1>3, <2>2 DEF InBinary
<1>5. ASSUME Between, stream = Rest(Len(args)) PROVE InNumber
  <2>1. PICK r \in Seq(Byte) : r = Rest(Len(args) + 1)
    BY <1>3 DEF String
  <2>2. /\ Amount(Here) \in 0 .. Word - 1 /\ Payload(Here) \in String
        /\ SendField(Here) = SendVarint[Amount(Here)] \o Payload(Here)
    BY <1>3, IntegerFirst
  <2>3. PICK v \in 0 .. Word - 1 : v = Amount(Here)
    BY <2>2
  <2>4. PICK d \in Seq(Byte), c \in Seq(Byte) : d = Payload(Here) /\ c = SendVarint[v]
    BY <2>2, VarintDef DEF String
  <2>5. (c \o d) \o r = c \o (d \o r)
    BY ConcatAssociative
  <2>6. stream = SendVarint[v] \o (Payload(Here) \o Rest(Len(args) + 1))
    BY <1>3, <1>5, <2>1, <2>2, <2>3, <2>4, <2>5
  <2>7. num = 0 /\ scale = 1 /\ size = None
    BY <1>5 DEF Between
  <2>8. num + scale * v = Amount(Here) /\ num \in 0 .. Word - 1 /\ scale \in 1 .. Word - 1
    BY <2>3, <2>7, WireAssumption
  <2> QED BY <1>3, <2>6, <2>7, <2>8 DEF InNumber
<1>6. InNumber
  BY <1>3, <1>4, <1>5 DEF WireInv, CutInv
<1>7. Expects("varint") => kind = "varint"
  BY <1>1 DEF Expects
<1>8. Expects("binary") => kind = "binary"
  BY <1>1 DEF Expects
<1> QED BY <1>3, <1>6, <1>7, <1>8

\* The next byte of an integer: the last digit, or one that others follow.
LEMMA NumberStep ==
  ASSUME InNumber, Here \in Field, Rest(Len(args) + 1) \in String
  PROVE  /\ stream # <<>>
         /\ Head(stream) < Base =>
              /\ Digit = Amount(Here)
              /\ Tail(stream) = Payload(Here) \o Rest(Len(args) + 1)
         /\ Head(stream) >= Base =>
              /\ Digit \in 0 .. Word - 1 /\ (scale * Base) % Word \in 1 .. Word - 1
              /\ \E w \in 0 .. Word - 1 :
                   /\ Digit + ((scale * Base) % Word) * w = Amount(Here)
                   /\ Tail(stream) = SendVarint[w] \o (Payload(Here) \o Rest(Len(args) + 1))
<1>1. PICK v \in 0 .. Word - 1 :
        /\ num + scale * v = Amount(Here)
        /\ stream = SendVarint[v] \o (Payload(Here) \o Rest(Len(args) + 1))
  BY DEF InNumber
<1>2. Amount(Here) \in 0 .. Word - 1 /\ Payload(Here) \in String
  BY IntegerFirst DEF InNumber
<1>3. Payload(Here) \o Rest(Len(args) + 1) \in String
  BY <1>2, ConcatProperties DEF String
<1>4. PICK r \in Seq(Byte) : r = Payload(Here) \o Rest(Len(args) + 1)
  BY <1>3 DEF String
<1>5. PICK n \in Nat : n = Amount(Here) /\ n < Word
  BY <1>2, WireAssumption
<1>6. PICK m \in Nat, c \in Nat : m = num /\ c = scale /\ c >= 1
  BY DEF InNumber
<1>7. m + c * v = n /\ v \in Nat /\ Word \in Nat /\ Base \in Nat /\ Base >= 1
  BY <1>1, <1>5, <1>6, WireAssumption
<1>8. SendVarint[v] = Code(SendVarint, v)
  BY VarintDef
<1>9. CASE Continues(v)
  <2>1. /\ v \div Base \in 0 .. v - 1 /\ v \div Base >= 1 /\ v % Base \in 0 .. Base - 1
        /\ Base + (v % Base) \in Byte /\ v = Base * (v \div Base) + (v % Base)
    BY <1>7, <1>9, CodeStep
  <2>2. PICK d \in 0 .. Base - 1 : d = v % Base
    BY <2>1
  <2>3. PICK w \in Nat : w = v \div Base /\ w \in 0 .. v - 1 /\ w >= 1
    BY <2>1
  <2>4. w \in 0 .. Word - 1
    BY <2>3, WireAssumption
  <2>5. PICK b \in Byte : b = Base + d
    BY <2>1, <2>2
  <2>6. PICK s \in Seq(Byte) : s = SendVarint[w]
    BY <2>4, VarintDef DEF String
  <2>7. SendVarint[v] = <<b>> \o s
    BY <1>8, <1>9, <2>2, <2>3, <2>5, <2>6 DEF Code
  <2>8. <<b>> \in Seq(Byte) /\ (<<b>> \o s) \o r = <<b>> \o (s \o r) /\ s \o r \in Seq(Byte)
    BY ConcatAssociative, ConcatProperties
  <2>9. stream = <<b>> \o (s \o r)
    BY <1>1, <1>4, <2>7, <2>8
  <2>10. stream # <<>> /\ Head(stream) = b /\ Tail(stream) = s \o r
    BY <2>8, <2>9, FirstOf
  <2>11. b >= Base /\ b % Base = d
    <3>1. (Base + d) % Base = d
      BY <1>7, DigitOfByte
    <3>2. Base + d >= Base
      BY <1>7
    <3> QED BY <2>5, <3>1, <3>2
  <2>12. v = Base * w + d /\ d \in Nat
    BY <1>7, <2>1, <2>2, <2>3
  <2>13. /\ (m + d * c) % Word \in 0 .. n /\ (c * Base) % Word \in 1 .. Word - 1
         /\ ((m + d * c) % Word) + ((c * Base) % Word) * w = n
    <3>1. m + c * (Base * w + d) = n
      BY <1>7, <2>12
    <3>2. d \in Nat /\ n < Word /\ w >= 1 /\ c >= 1 /\ Base >= 1 /\ Word \in Nat
          /\ Base \in Nat
      BY <1>5, <1>6, <1>7, <2>3, <2>12
    <3> QED BY <3>1, <3>2, MoreDigits
  <2>14. Digit = (m + d * c) % Word
    BY <1>6, <2>10, <2>11 DEF Digit
  <2>15. ~(Head(stream) < Base)
    <3>1. b \in Nat
      BY <1>7, <2>5
    <3> QED BY <1>7, <2>10, <2>11, <3>1
  <2>16. Digit \in 0 .. Word - 1
    <3>1. PICK x \in 0 .. n : x = (m + d * c) % Word
      BY <2>13
    <3> QED BY <1>5, <1>7, <2>14, <3>1
  <2>17. Digit + ((scale * Base) % Word) * w = Amount(Here)
    BY <1>5, <1>6, <2>13, <2>14
  <2> QED BY <1>4, <1>6, <2>4, <2>6, <2>10, <2>13, <2>15, <2>16, <2>17
<1>10. CASE ~Continues(v)
  <2>1. v \in Byte /\ v < Base /\ SendVarint[v] = <<v>>
    BY <1>7, <1>8, <1>10, CodeStep DEF Code
  <2>2. stream # <<>> /\ Head(stream) = v /\ Tail(stream) = r
    BY <1>1, <1>4, <2>1, FirstOf
  <2>3. v % Base = v
    BY <1>7, <2>1, SmallMod
  <2>4. (m + v * c) % Word = n
    BY <1>5, <1>7, LastDigit
  <2>5. Digit = n
    BY <1>6, <2>2, <2>3, <2>4 DEF Digit
  <2>6. ~(Head(stream) >= Base)
    BY <1>7, <2>1, <2>2
  <2> QED BY <1>4, <1>5, <2>2, <2>5, <2>6
<1> QED BY <1>9, <1>10

\* recvVarint reads a digit that others follow.
LEMMA RecvVarintMoreInv ==
  ASSUME WireInv, RecvVarintMore
  PROVE  CutInv'
<1>1. /\ Expects("varint") \/ (Expects("binary") /\ size = None)
      /\ Head(stream) >= Base /\ num' = Digit /\ scale' = (scale * Base) % Word
      /\ stream' = Tail(stream)
      /\ UNCHANGED <<sent, phase, op, args, size, handled, results>>
  BY DEF RecvVarintMore
<1>2. InNumber /\ Here \in Field /\ Rest(Len(args) + 1) \in String
  BY <1>1, AtNumber
<1>3. op # None
  BY <1>1 DEF Expects
<1>4. /\ Current' = Current /\ After' = After /\ Here' = Here
      /\ FieldRest(Current)' = FieldRest(Current) /\ ReadSoFar(Current)' = ReadSoFar(Current)
  BY <1>1 DEF Current, After, Here, ReadSoFar
<1>m. MagicFirst' = MagicFirst
  BY <1>1 DEF MagicFirst
<1>5. /\ Digit \in 0 .. Word - 1 /\ (scale * Base) % Word \in 1 .. Word - 1
      /\ \E w \in 0 .. Word - 1 :
           /\ Digit + ((scale * Base) % Word) * w = Amount(Here)
           /\ Tail(stream) = SendVarint[w] \o (Payload(Here) \o Rest(Len(args) + 1))
  BY <1>1, <1>2, NumberStep
<1>6. /\ num' \in 0 .. Word - 1 /\ scale' \in 1 .. Word - 1
      /\ \E w \in 0 .. Word - 1 :
           /\ num' + scale' * w = Amount(Here)
           /\ stream' = SendVarint[w] \o (Payload(Here) \o Rest(Len(args) + 1))
  BY <1>1, <1>5
<1>7. Rest(Len(args) + 1) = (FieldRest(Current)[Len(args) + 1] \o After)
  BY DEF Rest
<1>8. InNumber'
  BY <1>1, <1>2, <1>4, <1>6, <1>7 DEF InNumber, Rest
<1>9. /\ Current \in Readable /\ ReadSoFar(Current) /\ Len(handled) < Len(sent)
      /\ MagicFirst
  BY <1>3, CurrentPacket DEF WireInv, CutInv
<1> QED BY <1>1, <1>3, <1>4, <1>m, <1>8, <1>9 DEF CutInv

\* recvVarint reads the last digit, and has the integer that was sent.
LEMMA RecvVarintInv ==
  ASSUME WireInv, RecvVarint
  PROVE  CutInv'
<1>1. /\ Expects("varint") /\ Head(stream) < Base
      /\ args' = Append(args, <<"varint", Digit>>) /\ num' = 0 /\ scale' = 1
      /\ stream' = Tail(stream)
      /\ UNCHANGED <<sent, phase, op, size, handled, results>>
  BY DEF RecvVarint, Fresh
<1>2. InNumber /\ Here \in Field /\ Rest(Len(args) + 1) \in String /\ Here[1] = "varint"
  BY <1>1, AtNumber
<1>3. Digit = Amount(Here) /\ Tail(stream) = Payload(Here) \o Rest(Len(args) + 1)
  BY <1>1, <1>2, NumberStep
<1>4. Here = <<"varint", Amount(Here)>> /\ Payload(Here) = <<>>
  BY <1>2, IntegerFirst
<1>5. args' = Append(args, Here)
  BY <1>1, <1>3, <1>4
<1>6. stream' = Rest(Len(args) + 1)
  BY <1>1, <1>2, <1>3, <1>4, ConcatEmptySeq DEF String
<1>7. Between'
  BY <1>1, <1>2 DEF Between, InNumber
<1>8. "varint" \in Kinds
  BY DEF Kinds
<1> QED BY <1>1, <1>2, <1>5, <1>6, <1>7, <1>8, FieldRead

\* recvBinary reads the length of the binary that was sent.
LEMMA RecvSizeInv ==
  ASSUME WireInv, RecvSize
  PROVE  CutInv'
<1>1. /\ Expects("binary") /\ size = None /\ Head(stream) < Base
      /\ size' = Digit /\ num' = 0 /\ scale' = 1
      /\ stream' = Tail(stream)
      /\ UNCHANGED <<sent, phase, op, args, handled, results>>
  BY DEF RecvSize, Fresh
<1>2. InNumber /\ Here \in Field /\ Rest(Len(args) + 1) \in String /\ Here[1] = "binary"
  BY <1>1, AtNumber
<1>3. Digit = Amount(Here) /\ Tail(stream) = Payload(Here) \o Rest(Len(args) + 1)
  BY <1>1, <1>2, NumberStep
<1>4. /\ Current' = Current /\ After' = After /\ Here' = Here
      /\ FieldRest(Current)' = FieldRest(Current) /\ ReadSoFar(Current)' = ReadSoFar(Current)
  BY <1>1 DEF Current, After, Here, ReadSoFar
<1>m. MagicFirst' = MagicFirst
  BY <1>1 DEF MagicFirst
<1>5. InBinary'
  BY <1>1, <1>2, <1>3, <1>4 DEF InBinary, InNumber, Rest
<1>6. op # None
  BY <1>1 DEF Expects
<1>7. /\ Current \in Readable /\ ReadSoFar(Current) /\ Len(handled) < Len(sent)
      /\ MagicFirst
  BY <1>6, CurrentPacket DEF WireInv, CutInv
<1> QED BY <1>1, <1>4, <1>m, <1>5, <1>6, <1>7 DEF CutInv

\* recvBinary reads as many bytes as the binary has.
LEMMA RecvBinaryInv ==
  ASSUME WireInv, RecvBinary
  PROVE  CutInv'
<1>1. /\ Expects("binary") /\ size # None
      /\ args' = Append(args, <<"binary", SubSeq(stream, 1, size)>>)
      /\ stream' = SubSeq(stream, size + 1, Len(stream)) /\ size' = None
      /\ UNCHANGED <<sent, phase, op, num, scale, handled, results>>
  BY DEF RecvBinary
<1>2. "binary" \in Kinds /\ "binary" # "bool"
  BY DEF Kinds
<1>3. /\ op # None /\ Here \in Field /\ Here[1] = "binary"
      /\ Rest(Len(args) + 1) \in String
  BY <1>1, <1>2, NextField
<1>4. InBinary
  BY <1>1, <1>3 DEF WireInv, CutInv, Between, InNumber
<1>5. /\ Here = <<"binary", Payload(Here)>> /\ Amount(Here) = Len(Payload(Here))
      /\ Payload(Here) \in String
  BY <1>3, IntegerFirst
<1>6. PICK d \in Seq(Byte), r \in Seq(Byte) : d = Payload(Here) /\ r = Rest(Len(args) + 1)
  BY <1>3, <1>5 DEF String
<1>7. stream = d \o r /\ size = Len(d) /\ num = 0 /\ scale = 1
  BY <1>4, <1>5, <1>6 DEF InBinary
<1>8. SubSeq(d \o r, 1, Len(d)) = d
  BY SubSeqOfConcat1, SubSeqFull
<1>9. SubSeq(d \o r, Len(d) + 1, Len(d \o r)) = r
  BY SubSeqOfConcat2, SubSeqFull, ConcatProperties
<1>10. args' = Append(args, Here) /\ stream' = Rest(Len(args) + 1)
  BY <1>1, <1>5, <1>6, <1>7, <1>8, <1>9
<1>11. Between'
  BY <1>1, <1>7 DEF Between
<1> QED BY <1>1, <1>2, <1>3, <1>10, <1>11, FieldRead

\* Which packets cannot come where.
LEMMA NotThere ==
  Packet("init", <<>>) \notin Greetings /\ Packet("close", <<>>) \notin Packets
<1>1. ASSUME Packet("init", <<>>) \in Greetings PROVE FALSE
  <2>1. PICK p : p = Packet("init", <<>>)
    OBVIOUS
  <2>2. p.op = "init" /\ p.args = <<>>
    BY <2>1 DEF Packet
  <2>3. p # Packet("close", <<>>)
    BY <2>2 DEF Packet
  <2>4. \E magics : p \in Answers(magics)
    BY <1>1, <2>1, <2>3, Zenon DEF Greetings, BadHandshakes
  <2>5. PICK magics : p \in Answers(magics)
    BY <2>4
  <2>6. PICK o \in {"init", "deny"}, m \in magics : p = Packet(o, <<m, <<"binary", <<>>>>>>)
    BY <2>5 DEF Answers
  <2>7. p.args = <<m, <<"binary", <<>>>>>>
    BY <2>6 DEF Packet
  <2> QED BY <2>2, <2>7
<1>2. ASSUME Packet("close", <<>>) \in Packets PROVE FALSE
  <2>1. PICK p : p = Packet("close", <<>>)
    OBVIOUS
  <2>2. p.op = "close" /\ p.args = <<>>
    BY <2>1 DEF Packet
  <2>3. p \notin Replies
    BY <2>2, AllPackets DEF Replies
  <2>4. p \notin TunnelEvents
    BY <2>2, AllPackets DEF TunnelEvents
  <2>5. p \notin Violations
    <3>1. "close" # None
      BY OpFacts DEF Ops
    <3>2. p # Packet("init", <<>>) /\ p # Packet(None, <<<<"raw", 2 * Base - 1>>>>)
      BY <2>2, <3>1 DEF Packet
    <3>3. p \notin All("reply", Varints \X {<<"raw", 2>>})
      BY <2>2, AllPackets
    <3> QED BY <3>2, <3>3, Zenon DEF Violations
  <2>6. p \in Events
    BY <1>2, <2>1, <2>3, <2>4, <2>5, Zenon DEF Packets
  <2> DEFINE one == {<<d>> : d \in Binaries}
  <2>7. p \in All("close", one)
    BY <2>2, <2>6, AllPackets DEF Events
  <2>8. p.args \in one
    BY <2>7, AllPackets
  <2> QED BY <2>2, <2>8
<1> QED BY <1>1, <1>2

\* process() and procInit read an opcode, and blame the relay only for a bad one.
LEMMA RecvOpInv ==
  ASSUME WireInv, RecvOp
  PROVE  CutInv' /\ NoFalseAlarm'
<1>1. /\ Reading /\ op = None /\ stream # <<>>
      /\ args = <<>> /\ Between /\ stream = PacketRest(sent)[Len(handled)]
      /\ Len(handled) <= Len(sent)
  BY DEF RecvOp, WireInv, CutInv
<1>2. sent \in Seq(Sendable) /\ Len(sent) \in Nat /\ Len(handled) \in Nat
  BY DEF WireInv, HandledInv, SentOK
<1>3. PICK h \in Nat : h = Len(handled)
  BY <1>2
<1>4. h # Len(sent)
  BY <1>1, <1>2, <1>3, PacketsCut
<1>5. h + 1 \in 1 .. Len(sent) /\ h + 1 \in 0 .. Len(sent) /\ h + 1 - 1 = h /\ h < Len(sent)
  BY <1>1, <1>2, <1>3, <1>4
<1>6. PICK p \in Sendable : p = Current /\ p = sent[h + 1]
  BY <1>2, <1>3, <1>5 DEF Current
<1>7. After \in String /\ PacketRest(sent)[h] = SendPacket(p) \o After
  <2>1. PICK k \in 1 .. Len(sent) : k = h + 1
    BY <1>5
  <2>2. k - 1 = h /\ k \in 0 .. Len(sent)
    BY <1>5, <2>1
  <2>3. PacketRest(sent)[k] \in String
    BY <1>2, <2>2, PacketsCut
  <2>4. PacketRest(sent)[k - 1] = SendPacket(sent[k]) \o PacketRest(sent)[k]
    BY <1>2, PacketsCut
  <2>5. After = PacketRest(sent)[k]
    BY <1>3, <2>1 DEF After
  <2>6. p = sent[k]
    BY <1>6, <2>1
  <2> QED BY <2>2, <2>3, <2>4, <2>5, <2>6
<1>8. /\ p.args \in Seq(Field) /\ OpByte(p) \in String
      /\ FieldRest(p)[0] \in String /\ SendPacket(p) = OpByte(p) \o FieldRest(p)[0]
  BY SendableString
<1>9. Rest(0) \in String /\ stream = OpByte(p) \o Rest(0)
  <2>1. PICK a \in Seq(Byte), b \in Seq(Byte), c \in Seq(Byte) :
          a = OpByte(p) /\ b = FieldRest(p)[0] /\ c = After
    BY <1>7, <1>8 DEF String
  <2>2. (a \o b) \o c = a \o (b \o c) /\ b \o c \in Seq(Byte)
    BY ConcatAssociative, ConcatProperties
  <2>3. Rest(0) = b \o c
    BY <1>6, <2>1 DEF Rest
  <2> QED BY <1>1, <1>3, <1>7, <1>8, <2>1, <2>2, <2>3 DEF String
<1>10. \/ phase = "init" /\ p \in Greetings
       \/ phase = "open" /\ p \in Packets
  <2>1. CASE phase = "init"
    <3>1. h = 0
      BY <1>3, <2>1 DEF WireInv, HandledInv
    <3> QED BY <1>6, <2>1, <3>1 DEF WireInv, HandledInv, SentOK
  <2>2. CASE phase = "open"
    <3>1. h >= 1
      BY <1>3, <2>2 DEF WireInv, HandledInv
    <3>2. h + 1 \in 2 .. Len(sent)
      BY <1>5, <3>1
    <3> QED BY <1>6, <2>2, <3>2 DEF WireInv, HandledInv, SentOK
  <2> QED BY <1>1, <2>1, <2>2 DEF Reading
<1>11. CASE p \in Readable
  <2>1. p.op \in Ops
    BY <1>11, PacketShape DEF WellFormed
  <2>2. OpByte(p) = <<Op[p.op]>> /\ Op[p.op] \in Byte
    BY <2>1, OpFacts DEF OpByte
  <2>3. Head(stream) = Op[p.op] /\ Tail(stream) = Rest(0)
    BY <1>9, <2>2, FirstOf DEF String
  <2>4. IF phase = "init" THEN p.op \in {"init", "deny"} ELSE p.op \notin {"init", "deny"}
    BY <1>10, <1>11, Handshakes
  <2>5. p.op \in Known(Head(stream))
    BY <2>1, <2>3, <2>4, OpFacts DEF Known
  <2>6. \A o \in Known(Head(stream)) : o = p.op
    <3>1. \A o \in Known(Head(stream)) : o \in Ops /\ Op[o] = Op[p.op]
      BY <2>3, OpFacts DEF Known, Ops
    <3> QED BY <2>1, <3>1, OpFacts
  <2>7. /\ op' = p.op /\ stream' = Rest(0)
        /\ UNCHANGED <<sent, phase, args, num, scale, size, handled, results>>
    BY <2>3, <2>5, <2>6 DEF RecvOp
  <2>8. op' # None
    BY <2>1, <2>7, OpFacts
  <2>9. Current' = p /\ After' = After /\ args' = <<>> /\ Len(args') = 0
    BY <1>1, <1>6, <2>7 DEF Current, After
  <2>10. ReadSoFar(Current)'
    BY <1>8, <2>7, <2>9 DEF ReadSoFar
  <2>11. Between' /\ MagicFirst'
    BY <1>1, <2>7, <2>9 DEF Between, MagicFirst
  <2>12. (stream = Rest(Len(args)))'
    BY <1>6, <2>7, <2>9 DEF Rest
  <2>13. CutInv'
    BY <1>3, <1>5, <1>11, <2>7, <2>8, <2>9, <2>10, <2>11, <2>12 DEF CutInv
  <2>14. NoFalseAlarm'
    BY <1>1, <2>7 DEF NoFalseAlarm, Reading
  <2> QED BY <2>13, <2>14
<1>12. CASE p \in Misplaced
  <2>1. Known(Head(stream)) = {}
    <3>1. CASE p = Packet("init", <<>>)
      <4>1. phase = "open" /\ phase # "init"
        BY <1>10, <3>1, NotThere
      <4>2. p.op = "init" /\ "init" \in Ops
        BY <3>1 DEF Packet, Ops
      <4>3. OpByte(p) = <<Op["init"]>> /\ Op["init"] \in Byte
        BY <4>2, OpFacts DEF OpByte
      <4>4. Head(stream) = Op["init"]
        BY <1>9, <4>3, FirstOf DEF String
      <4> QED BY <4>1, <4>2, <4>4, OpFacts DEF Known
    <3>2. CASE p = Packet("close", <<>>)
      <4>1. phase = "init"
        BY <1>10, <3>2, NotThere
      <4>2. p.op = "close" /\ "close" \in Ops /\ "init" \in Ops /\ "deny" \in Ops
        BY <3>2 DEF Packet, Ops
      <4>3. OpByte(p) = <<Op["close"]>> /\ Op["close"] \in Byte
        BY <4>2, OpFacts DEF OpByte
      <4>4. Head(stream) = Op["close"]
        BY <1>9, <4>3, FirstOf DEF String
      <4> QED BY <4>1, <4>2, <4>4, OpFacts DEF Known
    <3>3. CASE p = Packet(None, <<<<"raw", 2 * Base - 1>>>>)
      <4>1. PICK last \in Byte : last = 2 * Base - 1
        BY WireAssumption DEF Byte
      <4>2. p.op = None /\ p.args = <<<<"raw", last>>>>
        BY <3>3, <4>1 DEF Packet
      <4>3. OpByte(p) = <<>>
        BY <4>2 DEF OpByte
      <4>4. stream = Rest(0)
        BY <1>9, <4>3, ConcatEmptySeq DEF String
      <4>5. <<"raw", last>> \in Field
        BY <4>1, FieldsOfWire
      <4>6. SendField(<<"raw", last>>) = <<last>>
        BY <4>5, ByteField
      <4>7. Len(p.args) = 1 /\ p.args[1] = <<"raw", last>> /\ 1 - 1 = 0
        BY <4>2
      <4>8. FieldRest(p)[1 - 1] = SendField(p.args[1]) \o FieldRest(p)[1] /\ FieldRest(p)[1] = <<>>
        <5>1. 1 \in 1 .. Len(p.args)
          BY <4>7
        <5> QED BY <1>8, <4>7, <5>1, FieldsCut
      <4>9. FieldRest(p)[0] = <<last>> \o <<>>
        BY <4>6, <4>7, <4>8
      <4>10. FieldRest(p)[0] = <<last>>
        BY <4>9
      <4>11. Head(stream) = last
        BY <1>6, <1>7, <4>4, <4>10, FirstOf DEF Rest, String
      <4>12. \A o \in Ops : Op[o] # last
        BY <4>1, OpFacts
      <4>13. {"init", "deny"} \subseteq Ops
        BY DEF Ops
      <4> QED BY <4>11, <4>12, <4>13, OpFacts DEF Known
    <3> QED BY <1>12, <3>1, <3>2, <3>3 DEF Misplaced
  <2>2. Fail("violation")
    BY <2>1 DEF RecvOp
  <2>3. Current' \in Violations \cup BadHandshakes
    BY <1>6, <1>12, <2>2, MisplacedIsBad DEF Fail, Current
  <2>4. NoFalseAlarm'
    BY <2>3 DEF NoFalseAlarm, Current
  <2> QED BY <2>2, <2>4, FailInv
<1> QED BY <1>11, <1>12 DEF Readable

\* A packet that is complete is the one that was sent, and nothing else was read.
LEMMA AtEnd ==
  ASSUME WireInv, op # None, Complete
  PROVE  /\ args = Current.args /\ Packet(op, args) = Current
         /\ Between /\ stream = After
         /\ Current \notin Violations \cup BadHandshakes
<1>1. /\ Len(handled) \in Nat /\ Len(handled) + 1 \in 1 .. Len(sent)
      /\ Current \in Readable /\ ReadSoFar(Current) /\ Current.args \in Seq(Field)
      /\ Rest(Len(Current.args)) = After
  BY CurrentPacket
<1>2. /\ Len(args) \in Nat /\ Len(args) <= Len(Current.args) /\ args \in Seq(Field)
      /\ \A i \in 1 .. Len(args) : args[i] = Current.args[i] /\ args[i][1] \in Kinds
      /\ op = Current.op
  BY <1>1 DEF ReadSoFar
<1>3. Len(args) = Len(Current.args)
  <2>1. ~(Len(args) < Len(Current.args))
    BY <1>1, LayoutFits DEF Complete
  <2>2. Len(Current.args) \in Nat
    BY <1>1
  <2> QED BY <1>2, <2>1, <2>2
<1>4. args = Current.args
  BY <1>1, <1>2, <1>3, SeqEqual
<1>5. WellFormed(Current)
  BY <1>1, PacketShape
<1>6. Packet(op, args) = Current
  BY <1>2, <1>4, <1>5 DEF WellFormed
<1>7. Between /\ stream = After
  <2>1. ~(Len(args) < Len(Current.args))
    BY <1>2, <1>3
  <2>2. ~InNumber /\ ~InBinary
    BY <2>1 DEF InNumber, InBinary
  <2>3. Rest(Len(args)) = After
    BY <1>1, <1>3
  <2> QED BY <2>2, <2>3 DEF WireInv, CutInv
<1>8. op \in {"init", "deny"} => Current.args[1] = <<"binary", Magic>>
  <2>1. op \in {"init", "deny"} => Len(args) = 2
    BY <1>2, <1>4, <1>5 DEF WellFormed, Shape
  <2>2. MagicFirst
    BY DEF WireInv, CutInv
  <2> QED BY <1>4, <2>1, <2>2 DEF MagicFirst
<1>9. \A i \in DOMAIN Current.args : Current.args[i][1] \in Kinds
  BY <1>2, <1>4
<1>10. Current \notin Violations \cup BadHandshakes
  BY <1>1, <1>2, <1>8, <1>9, GoodPacket
<1> QED BY <1>4, <1>6, <1>7, <1>10

\* handleReply takes for a timeout what the relay sent as one, and a failure
\* with an empty text.
LEMMA ResultGenuine ==
  ASSUME WireInv, op # None, Complete
  PROVE  /\ Result \in {"timeout", "fault", "reply", None}
         /\ op = "reply" => (Result = "timeout" <=> LooksTimedOut(Current))
<1>1. CASE op # "reply"
  BY <1>1 DEF Result
<1>2. CASE op = "reply"
  <2>1. args = Current.args /\ Current \notin Violations /\ Packet(op, args) = Current
    BY AtEnd
  <2>2. ReplyShape(args)
    <3>1. WellFormed(Current) /\ op = Current.op
      BY CurrentPacket, PacketShape DEF ReadSoFar
    <3> QED BY <1>2, <2>1, <3>1 DEF WellFormed, Shape
  <2>3. CASE Len(args) = 2
    <3>1. args[2] = Yes
      BY <1>2, <2>1, <2>2, <2>3 DEF ReplyShape
    <3>2. TimedOut
      BY <2>3, <3>1 DEF TimedOut
    <3>3. Result = "timeout"
      BY <1>2, <3>2 DEF Result, HandleReply
    <3> QED BY <2>1, <3>1, <3>3 DEF LooksTimedOut
  <2>4. CASE Len(args) = 4
    <3>1. args[2] = No /\ IsBool(args[3]) /\ IsBinary(args[4]) /\ args[4][2] # None
      BY <2>2, <2>4 DEF ReplyShape
    <3>2. args[2] # Yes /\ ~TimedOut
      BY <3>1, FieldsOfWire DEF TimedOut
    <3>3. LooksTimedOut(Current) <=> args[3] = No /\ args[4] = <<"binary", <<>>>>
      BY <2>1, <2>4, <3>2 DEF LooksTimedOut, EmptyFault
    <3>4. args[4] = <<"binary", <<>>>> <=> args[4][2] = <<>>
      <4>1. \E d : args[4] = <<"binary", d>>
        BY <3>1 DEF IsBinary, Field
      <4> QED BY <4>1
    <3>5. args[3] = Yes \/ args[3] = No
      <4>1. PICK b \in BOOLEAN : args[3] = <<"bool", b>>
        BY <3>1 DEF IsBool, Field
      <4>2. b = TRUE \/ b = FALSE
        OBVIOUS
      <4> QED BY <4>1, <4>2, Zenon DEF Yes, No
    <3>6. CASE args[3] = Yes
      <4>1. args[3][2] /\ args[3] # No
        BY <3>6, FieldsOfWire, Zenon
      <4>2. Result = HandleReply(args[4][2], <<>>)
        BY <1>2, <3>2, <4>1 DEF Result
      <4>3. Result = "reply"
        BY <3>1, <4>2 DEF HandleReply
      <4> QED BY <3>3, <4>1, <4>3
    <3>7. CASE args[3] = No
      <4>1. ~args[3][2]
        BY <3>7, FieldsOfWire, Zenon
      <4>2. Result = HandleReply(None, args[4][2])
        BY <1>2, <3>2, <4>1 DEF Result
      <4>3. Result \in {"timeout", "fault"} /\ (Result = "timeout" <=> args[4][2] = <<>>)
        BY <4>2 DEF HandleReply
      <4> QED BY <3>3, <3>4, <3>7, <4>3
    <3> QED BY <3>5, <3>6, <3>7
  <2> QED BY <2>2, <2>3, <2>4 DEF ReplyShape
<1> QED BY <1>1, <1>2

\* A complete packet is dispatched to its handler.
LEMMA HandleInv ==
  ASSUME WireInv, Handle
  PROVE  WireInv'
<1>1. /\ Reading /\ Complete /\ op # None
      /\ handled' = Append(handled, Packet(op, Converted(op, args)))
      /\ results' = Append(results, Result)
      /\ phase' = NextPhase /\ op' = None /\ args' = <<>>
      /\ UNCHANGED <<sent, stream, num, scale, size>>
  BY DEF Handle, Complete
<1>2. /\ args = Current.args /\ Packet(op, args) = Current
      /\ Between /\ stream = After /\ Current \notin Violations \cup BadHandshakes
  BY <1>1, AtEnd
<1>3. /\ Len(handled) \in Nat /\ Len(handled) + 1 \in 1 .. Len(sent)
      /\ Current \in Readable /\ Current \in Sendable /\ op = Current.op
  BY <1>1, CurrentPacket DEF ReadSoFar
<1>4. /\ Result \in {"timeout", "fault", "reply", None}
      /\ op = "reply" => (Result = "timeout" <=> LooksTimedOut(Current))
  BY <1>1, ResultGenuine
<1>5. HandledInv
  BY DEF WireInv
<1>6. PICK h \in Nat : h = Len(handled) /\ h + 1 \in 1 .. Len(sent)
  BY <1>3
<1>7. Current = sent[h + 1]
  BY <1>6 DEF Current
<1>8. /\ handled' \in Seq({Dispatched(p) : p \in Sendable}) /\ Len(handled') = h + 1
      /\ handled'[h + 1] = Dispatched(Current) /\ \A i \in 1 .. h : handled'[i] = handled[i]
  <2>1. PICK D : D = {Dispatched(p) : p \in Sendable}
    OBVIOUS
  <2>2. PICK g \in D : g = Dispatched(Current)
    BY <1>3, <2>1
  <2>3. handled' = Append(handled, g)
    BY <1>1, <1>2, <1>3, <2>2 DEF Dispatched
  <2>4. handled \in Seq(D)
    BY <1>5, <2>1 DEF HandledInv
  <2> QED BY <1>6, <2>1, <2>2, <2>3, <2>4
<1>9. /\ results' \in Seq({"timeout", "fault", "reply", None}) /\ Len(results') = h + 1
      /\ results'[h + 1] = Result /\ \A i \in 1 .. h : results'[i] = results[i]
  BY <1>1, <1>4, <1>5, <1>6 DEF HandledInv
<1>10. CutInv'
  <2>1. stream' = PacketRest(sent)[h + 1]
    BY <1>1, <1>2, <1>6 DEF After
  <2>2. Between'
    BY <1>1, <1>2 DEF Between
  <2>3. h + 1 <= Len(sent)
    BY <1>6
  <2> QED BY <1>1, <1>8, <2>1, <2>2, <2>3 DEF CutInv
<1>11. \/ phase = "init" /\ op \in {"init", "deny"}
       \/ phase = "open" /\ op \notin {"init", "deny"}
  <2>1. CASE phase = "init"
    <3>1. h = 0 /\ sent[1] \in Greetings
      BY <1>5, <1>6, <2>1 DEF HandledInv, SentOK
    <3>2. Current \in Greetings
      BY <1>7, <3>1
    <3> QED BY <1>3, <2>1, <3>2, Handshakes
  <2>2. CASE phase = "open"
    <3>1. h + 1 \in 2 .. Len(sent)
      BY <1>5, <1>6, <2>2 DEF HandledInv
    <3>2. Current \in Packets
      BY <1>5, <1>7, <3>1 DEF HandledInv, SentOK
    <3> QED BY <1>3, <2>2, <3>2, Handshakes
  <2> QED BY <1>1, <2>1, <2>2 DEF Reading
<1>12. /\ phase' \in {"open", "denied", "closed", "dropped"}
       /\ phase' = "open" => op \notin {"deny", "close"}
  <2>1. CASE op = "init"
    BY <1>1, <2>1 DEF NextPhase
  <2>2. CASE op = "deny"
    BY <1>1, <2>2 DEF NextPhase
  <2>3. CASE op = "close"
    BY <1>1, <2>3 DEF NextPhase
  <2>4. CASE op \notin {"init", "deny", "close"}
    BY <1>1, <1>11, <2>4 DEF NextPhase
  <2> QED BY <2>1, <2>2, <2>3, <2>4
<1>13. phase' = "open" => ~Final(sent[h + 1])
  BY <1>3, <1>7, <1>12 DEF Final
<1>14. \A i \in 1 .. h : ~Final(sent[i])
  BY <1>1, <1>5, <1>6 DEF HandledInv
<1>15. ASSUME NEW i \in 1 .. h + 1
       PROVE  /\ handled'[i] = Dispatched(sent[i])
              /\ sent[i] \notin Violations \cup BadHandshakes
              /\ i > 1 => ~Final(sent[i - 1])
              /\ Genuine(i)'
              /\ phase' = "open" => ~Final(sent[i])
  <2>1. i > 1 => ~Final(sent[i - 1])
    <3>1. i > 1 => i - 1 \in 1 .. h
      OBVIOUS
    <3> QED BY <1>14, <3>1
  <2>2. CASE i \in 1 .. h
    <3>1. /\ handled[i] = Dispatched(sent[i])
          /\ sent[i] \notin Violations \cup BadHandshakes /\ Genuine(i)
      BY <1>5, <1>6, <2>2 DEF HandledInv
    <3>2. Genuine(i)'
      BY <1>1, <1>8, <1>9, <2>2, <3>1 DEF Genuine
    <3> QED BY <1>8, <1>14, <2>1, <2>2, <3>1, <3>2
  <2>3. CASE i = h + 1
    <3>1. handled'[i] = Dispatched(sent[i]) /\ sent[i] \notin Violations \cup BadHandshakes
      BY <1>2, <1>7, <1>8, <2>3
    <3>2. sent'[i].op = op /\ results'[i] = Result /\ sent'[i] = Current
      BY <1>1, <1>3, <1>7, <1>9, <2>3
    <3>3. Genuine(i)'
      BY <1>4, <3>2 DEF Genuine, LooksTimedOut, EmptyFault
    <3> QED BY <1>13, <2>1, <2>3, <3>1, <3>3
  <2> QED BY <2>2, <2>3
<1>16. HandledInv'
  <2>1. SentOK(sent')
    BY <1>1, <1>5 DEF HandledInv
  <2>2. Reading' => phase' = "open"
    BY <1>12 DEF Reading
  <2>3. NoFalseAlarm'
    BY <1>12 DEF NoFalseAlarm
  <2> QED BY <1>1, <1>6, <1>8, <1>9, <1>12, <1>15, <2>1, <2>2, <2>3 DEF HandledInv
<1> QED BY <1>10, <1>16 DEF WireInv

\* The parts of the invariant about the handlers when nothing is dispatched.
LEMMA NothingHandled ==
  ASSUME WireInv, NoFalseAlarm', UNCHANGED <<sent, handled, results>>,
         phase' = phase \/ phase' \in {"violation", "broken"}
  PROVE  HandledInv'
<1>1. \A i \in 1 .. Len(handled) : Genuine(i)' = Genuine(i)
  BY DEF Genuine
<1>2. Reading' => Reading
  BY DEF Reading
<1>3. /\ phase' \in {"init", "open", "violation", "broken", "denied", "closed", "dropped"}
      /\ phase' = "init" => phase = "init"
      /\ phase' = "open" => phase = "open"
  BY DEF WireInv, HandledInv
<1> QED BY <1>1, <1>2, <1>3 DEF WireInv, HandledInv

\* Every step of the reader keeps the invariant.
LEMMA NextWireInv == WireInv /\ [Next]_vars => WireInv'
<1> SUFFICES ASSUME WireInv, [Next]_vars PROVE WireInv'
  OBVIOUS
<1>0. NoFalseAlarm
  BY DEF WireInv, HandledInv
<1>1. CASE RecvOp
  <2>1. UNCHANGED <<sent, handled, results>> /\ (phase' = phase \/ phase' = "violation")
    BY <1>1 DEF RecvOp, Fail
  <2> QED BY <1>1, <2>1, RecvOpInv, NothingHandled DEF WireInv
<1>2. CASE RecvBool
  <2>1. UNCHANGED <<sent, handled, results>> /\ (phase' = phase \/ phase' = "violation")
    BY <1>2 DEF RecvBool, Fail
  <2> QED BY <1>2, <2>1, RecvBoolInv, NothingHandled DEF WireInv
<1>3. CASE RecvVarintMore
  <2>1. UNCHANGED <<sent, handled, results, phase>>
    BY <1>3 DEF RecvVarintMore
  <2>2. NoFalseAlarm'
    BY <1>0, <2>1 DEF NoFalseAlarm
  <2> QED BY <1>3, <2>1, <2>2, RecvVarintMoreInv, NothingHandled DEF WireInv
<1>4. CASE RecvVarint
  <2>1. UNCHANGED <<sent, handled, results, phase>>
    BY <1>4 DEF RecvVarint
  <2>2. NoFalseAlarm'
    BY <1>0, <2>1 DEF NoFalseAlarm
  <2> QED BY <1>4, <2>1, <2>2, RecvVarintInv, NothingHandled DEF WireInv
<1>5. CASE RecvSize
  <2>1. UNCHANGED <<sent, handled, results, phase>>
    BY <1>5 DEF RecvSize
  <2>2. NoFalseAlarm'
    BY <1>0, <2>1 DEF NoFalseAlarm
  <2> QED BY <1>5, <2>1, <2>2, RecvSizeInv, NothingHandled DEF WireInv
<1>6. CASE RecvBinary
  <2>1. UNCHANGED <<sent, handled, results, phase>>
    BY <1>6 DEF RecvBinary
  <2>2. NoFalseAlarm'
    BY <1>0, <2>1 DEF NoFalseAlarm
  <2> QED BY <1>6, <2>1, <2>2, RecvBinaryInv, NothingHandled DEF WireInv
<1>7. CASE Reject
  <2>1. op # None /\ WrongMagic /\ Fail("violation")
    BY <1>7 DEF Reject
  <2>2. /\ Current \in Readable /\ op = Current.op
        /\ \A i \in 1 .. Len(args) : args[i] = Current.args[i]
    BY <2>1, CurrentPacket DEF ReadSoFar
  <2>3. op \in {"init", "deny"} /\ Current.args[1] # <<"binary", Magic>>
    BY <2>1, <2>2 DEF WrongMagic
  <2>4. Current \in BadHandshakes
    BY <2>2, <2>3, Handshakes
  <2>5. NoFalseAlarm'
    BY <2>1, <2>4 DEF NoFalseAlarm, Fail, Current
  <2>6. UNCHANGED <<sent, handled, results>> /\ phase' = "violation"
    BY <2>1 DEF Fail
  <2> QED BY <2>1, <2>5, <2>6, FailInv, NothingHandled DEF WireInv
<1>8. CASE ReadFails
  <2>1. Fail("broken")
    BY <1>8 DEF ReadFails
  <2>2. UNCHANGED <<sent, handled, results>> /\ phase' = "broken"
    BY <2>1 DEF Fail
  <2>3. NoFalseAlarm'
    BY <2>2 DEF NoFalseAlarm
  <2> QED BY <2>1, <2>2, <2>3, FailInv, NothingHandled DEF WireInv
<1>9. CASE Handle
  BY <1>9, HandleInv
<1>10. CASE UNCHANGED vars
  <2>1. Fail(phase) /\ UNCHANGED <<sent, handled, results, phase>>
    BY <1>10 DEF Fail, vars
  <2>2. NoFalseAlarm'
    BY <1>0, <2>1 DEF NoFalseAlarm
  <2> QED BY <2>1, <2>2, FailInv, NothingHandled DEF WireInv
<1> QED BY <1>1, <1>2, <1>3, <1>4, <1>5, <1>6, <1>7, <1>8, <1>9, <1>10 DEF Next, Step

\* What process() has not read yet is the rest of what the relay wrote, cut at
\* the place where the code is: in a packet, in a field and in an integer.
THEOREM WireInvariant == Spec => []WireInv
BY InitWireInv, NextWireInv, PTL DEF Spec

-----------------------------------------------------------------------------
\* Integers never leave their width while they are read, and nothing of one
\* is left over for the next: recvVarint of proto.go starts from zero.
THEOREM WireTypeCorrect == Spec => []TypeOK
<1>1. WireInv => TypeOK
  <2> SUFFICES ASSUME WireInv PROVE TypeOK
    OBVIOUS
  <2>1. /\ phase \in {"init", "open", "violation", "broken", "denied", "closed", "dropped"}
        /\ Len(results) = Len(handled)
    BY DEF WireInv, HandledInv
  <2>2. 0 \in 0 .. Word - 1 /\ 1 \in 0 .. Word - 1 /\ 1 .. Word - 1 \subseteq 0 .. Word - 1
    BY WireAssumption
  <2>3. CASE op = None
    <3>1. args = <<>> /\ num = 0 /\ scale = 1 /\ size = None
      BY <2>3 DEF WireInv, CutInv, Between
    <3> QED BY <2>1, <2>2, <2>3, <3>1 DEF TypeOK
  <2>4. CASE op # None
    <3>1. /\ Current.op \in Ops /\ Current.args \in Seq(Field) /\ ReadSoFar(Current)
      BY <2>4, CurrentPacket
    <3>2. op \in DOMAIN Op /\ \A i \in DOMAIN args : args[i][1] \in Kinds
      BY <3>1, OpFacts DEF ReadSoFar
    <3>3. CASE Between
      BY <2>1, <2>2, <2>4, <3>2, <3>3 DEF TypeOK, Between
    <3>4. CASE InNumber
      BY <2>1, <2>2, <2>4, <3>2, <3>4 DEF TypeOK, InNumber
    <3>5. CASE InBinary
      <4>1. Len(args) + 1 \in 1 .. Len(Current.args)
        BY <3>1, <3>5 DEF ReadSoFar, InBinary
      <4>2. Here \in Field
        BY <3>1, <4>1 DEF Here
      <4>3. Amount(Here) \in 0 .. Word - 1
        BY <3>5, <4>2, IntegerFirst DEF InBinary
      <4> QED BY <2>1, <2>2, <2>4, <3>2, <3>5, <4>3 DEF TypeOK, InBinary
    <3> QED BY <2>4, <3>3, <3>4, <3>5 DEF WireInv, CutInv
  <2> QED BY <2>3, <2>4
<1> QED BY <1>1, WireInvariant, PTL

\* A conversion keeps the number of fields and conveys each of them.
LEMMA FieldsConveyed ==
  ASSUME NEW p \in Readable
  PROVE  LET q == Dispatched(p)
         IN  /\ q.op = p.op /\ Len(q.args) = Len(p.args)
             /\ \A j \in DOMAIN p.args : Conveyed(p.op, j, p.args[j], q.args[j])
<1>1. p.args \in Seq(Field) /\ Shape(p.op, p.args)
  BY PacketShape DEF WellFormed
<1>2. PICK n \in Nat : n = Len(p.args) /\ DOMAIN p.args = 1 .. n
  BY <1>1
<1>3. PICK b : b = Converted(p.op, p.args)
  OBVIOUS
<1>4. /\ DOMAIN b = 1 .. n
      /\ \A j \in 1 .. n : b[j] =
           IF IsTimeout(p.op, j) THEN <<"varint", Milliseconds(p.args[j][2])>>
           ELSE IF IsInt(p.op, j) THEN <<"varint", Signed(p.args[j][2])>> ELSE p.args[j]
  BY <1>2, <1>3 DEF Converted
<1>5. Len(b) = n
  <2>1. b = [j \in 1 .. n |-> b[j]]
    BY <1>2, <1>3, <1>4 DEF Converted
  <2> QED BY <1>2, <2>1
<1>6. Dispatched(p).op = p.op /\ Dispatched(p).args = b
  BY <1>3 DEF Dispatched, Packet
<1>7. ASSUME NEW j \in 1 .. n PROVE Conveyed(p.op, j, p.args[j], b[j])
  <2>1. PICK f \in Field : f = p.args[j]
    BY <1>1, <1>2
  <2>2. CASE IsTimeout(p.op, j)
    <3>1. IsVarint(f)
      BY <1>1, <2>1, <2>2 DEF IsTimeout, Shape
    <3>2. PICK v \in Nat : f[2] = v
      BY <3>1 DEF IsVarint, Field
    <3>3. b[j] = <<"varint", Milliseconds(v)>>
      BY <1>4, <2>1, <2>2, <3>2
    <3>4. PICK t \in Nat : t = v * Milli
      BY WireAssumption
    <3>5. 2 * t < Word => Milliseconds(v) = t
      <4>1. ASSUME 2 * t < Word PROVE t % Word = t
        <5>1. Word \in Nat /\ t < Word
          BY <4>1, WireAssumption
        <5> QED BY <5>1, SmallMod
      <4> QED BY <3>4, <4>1 DEF Milliseconds, Signed
    <3> QED BY <2>1, <2>2, <3>2, <3>3, <3>4, <3>5 DEF Conveyed
  <2>3. CASE IsInt(p.op, j)
    <3>0. ~IsTimeout(p.op, j)
      BY <2>3 DEF IsInt, IsTimeout
    <3>1. IsVarint(f)
      <4>1. CASE p.op = "tunConfirm" /\ j = 3
        <5>1. ConfirmShape(p.args)
          BY <1>1, <4>1 DEF Shape
        <5>2. n = 2 \/ n = 3
          BY <1>2, <5>1 DEF ConfirmShape
        <5>3. n >= 3
          BY <4>1
        <5>4. n = 3
          BY <5>2, <5>3
        <5>5. Len(p.args) = 3
          BY <1>2, <5>4, Zenon
        <5> QED BY <2>1, <4>1, <5>1, <5>5 DEF ConfirmShape
      <4>2. CASE p.op \in {"tunInit", "tunAllow", "tunTransfer"} /\ j = 2
        BY <1>1, <2>1, <4>2 DEF Shape
      <4> QED BY <2>3, <4>1, <4>2 DEF IsInt
    <3>2. PICK v \in 0 .. Word - 1 : f = <<"varint", v>>
      BY <3>1 DEF IsVarint, Field
    <3>3. b[j] = <<"varint", Signed(v)>>
      <4>1. f[2] = v
        BY <3>2
      <4>2. b[j] = <<"varint", Signed(f[2])>>
        BY <1>4, <2>1, <2>3, <3>0
      <4> QED BY <4>1, <4>2
    <3>4. IF 2 * v < Word THEN Signed(v) = v ELSE Signed(v) < 0 /\ 2 * v >= Word
      BY WireAssumption DEF Signed
    <3> QED BY <2>1, <2>3, <3>0, <3>2, <3>3, <3>4 DEF Conveyed
  <2>4. CASE ~IsTimeout(p.op, j) /\ ~IsInt(p.op, j)
    BY <1>4, <2>4 DEF Conveyed
  <2> QED BY <2>2, <2>3, <2>4
<1> QED BY <1>2, <1>5, <1>6, <1>7

\* What is neither a violation nor a bad handshake is a packet to be read.
LEMMA HandledReadable ==
  ASSUME WireInv, NEW i \in 1 .. Len(handled)
  PROVE  sent[i] \in Readable
<1>1. PICK h \in Nat : h = Len(handled)
  BY DEF WireInv, HandledInv
<1>2. Len(handled) <= Len(sent)
  BY CurrentPacket DEF WireInv, CutInv
<1>3. sent[i] \in Sendable
  BY <1>1, <1>2 DEF WireInv, HandledInv, SentOK
<1>4. sent[i] \notin Misplaced
  BY MisplacedIsBad DEF WireInv, HandledInv
<1> QED BY <1>3, <1>4 DEF Readable

\* The handlers of events.go see the packets that the relay wrote, in order,
\* with every value that the type it is converted to can hold, and nothing
\* after the connection ended.
THEOREM HandlersSeeWhatWasSent == Spec => []Framing
<1>1. WireInv => Framing
  <2> SUFFICES ASSUME WireInv, NEW i \in DOMAIN handled
               PROVE  /\ handled[i].op = sent[i].op
                      /\ Len(handled[i].args) = Len(sent[i].args)
                      /\ \A j \in DOMAIN sent[i].args :
                           Conveyed(sent[i].op, j, sent[i].args[j], handled[i].args[j])
                      /\ sent[i] \notin Violations \cup BadHandshakes
                      /\ i > 1 => ~Final(sent[i - 1])
    BY DEF Framing
  <2>1. i \in 1 .. Len(handled)
    BY DEF WireInv, HandledInv
  <2>2. handled[i] = Dispatched(sent[i])
    BY <2>1 DEF WireInv, HandledInv
  <2>3. sent[i] \in Readable
    BY <2>1, HandledReadable
  <2>4. /\ sent[i] \notin Violations \cup BadHandshakes
        /\ i > 1 => ~Final(sent[i - 1])
    BY <2>1 DEF WireInv, HandledInv
  <2> QED BY <2>2, <2>3, <2>4, FieldsConveyed
<1> QED BY <1>1, WireInvariant, PTL

\* process() reports a protocol violation only if the relay committed one.
THEOREM AlarmsAreTrue == Spec => []NoFalseAlarm
<1>1. WireInv => NoFalseAlarm
  BY DEF WireInv, HandledInv
<1> QED BY <1>1, WireInvariant, PTL

\* A reply that this binding sent does not look like a timeout.
LEMMA OwnRepliesGenuine ==
  ASSUME NEW p \in Readable, OwnReply(p)
  PROVE  ~LooksTimedOut(p)
<1>0. p.args \in Seq(Field)
  BY PacketShape DEF WellFormed
<1>1. PICK r \in Blobs, f \in Blobs : p.args = <<p.args[1], No>> \o SendReply(r, f)
  BY DEF OwnReply
<1>2. f = <<>> => SendReply(r, f) = <<Yes, <<"binary", r>>>>
  BY Zenon DEF SendReply
<1>3. f # <<>> => SendReply(r, f) = <<No, <<"binary", f>>>>
  BY Zenon DEF SendReply
<1>4. PICK c, d : SendReply(r, f) = <<c, d>> /\ (c = Yes \/ d # <<"binary", <<>>>>)
  <2>1. f # <<>> => <<"binary", f>> # <<"binary", <<>>>>
    OBVIOUS
  <2> QED BY <1>2, <1>3, <2>1, Zenon
<1>5. PICK x : x = p.args[1]
  OBVIOUS
<1>6. p.args = <<x, No>> \o <<c, d>>
  BY <1>1, <1>4, <1>5, Zenon
<1>7. PICK a : a = p.args /\ a = <<x, No>> \o <<c, d>>
  BY <1>6
<1>8. PICK S : S = {x, No, c, d}
  OBVIOUS
<1>9. <<x, No>> \in Seq(S) /\ <<c, d>> \in Seq(S)
  BY <1>8
<1>10. a[2] = No /\ a[3] = c /\ a[4] = d
  BY <1>7, <1>9, ConcatProperties
<1>11. a[2] # Yes
  BY <1>10, FieldsOfWire
<1>12. ~(a[3] = No /\ a[4] = <<"binary", <<>>>>)
  BY <1>4, <1>10, FieldsOfWire, Zenon
<1> QED BY <1>7, <1>11, <1>12, Zenon DEF LooksTimedOut, EmptyFault

\* handleReply takes for a timeout what the relay flags as one and a failure
\* with an empty text, whoever sent it, and nothing that this binding sends.
THEOREM TimeoutsAreGenuine == Spec => []TimeoutsGenuine
<1>1. WireInv => TimeoutsGenuine
  <2> SUFFICES ASSUME WireInv, NEW i \in DOMAIN handled, sent[i].op = "reply"
               PROVE  /\ results[i] = "timeout" <=> sent[i].args[2] = Yes \/ EmptyFault(sent[i])
                      /\ OwnReply(sent[i]) => results[i] # "timeout"
    BY DEF TimeoutsGenuine
  <2>1. i \in 1 .. Len(handled)
    BY DEF WireInv, HandledInv
  <2>2. results[i] = "timeout" <=> LooksTimedOut(sent[i])
    BY <2>1 DEF WireInv, HandledInv, Genuine
  <2>3. OwnReply(sent[i]) => ~LooksTimedOut(sent[i])
    BY <2>1, HandledReadable, OwnRepliesGenuine
  <2> QED BY <2>2, <2>3 DEF LooksTimedOut
<1> QED BY <1>1, WireInvariant, PTL
=============================================================================
