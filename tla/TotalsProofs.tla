---------------------------- MODULE TotalsProofs ----------------------------
(***************************************************************************)
(* What Total computes for every sequence of numbers, and remainders.       *)
(* Induction over the naturals is taken in the form of a set: the smallest  *)
(* number outside of the set would be a contradiction.                     *)
(***************************************************************************)
EXTENDS Totals, Integers, SequenceTheorems, WellFoundedInduction, TLAPS

\* A nonempty set of naturals has a smallest element.
LEMMA SmallestNat ==
  ASSUME NEW T, T \subseteq Nat, T # {}
  PROVE  \E x \in T : \A y \in T : x <= y
<1>1. IsWellFoundedOn(OpToRel(<, Nat), Nat)
  BY NatLessThanWellFounded
<1>2. PICK x \in T : \A y \in T : ~(<<y, x>> \in OpToRel(<, Nat))
  BY <1>1, WFMin
<1>3. \A y \in T : ~(y < x)
  BY <1>2 DEF OpToRel
<1> QED BY <1>3

\* A set with 0 and with the successor of each of its numbers has them all.
LEMMA SetInduction ==
  ASSUME NEW G, 0 \in G, \A n \in Nat : n \in G => n + 1 \in G
  PROVE  \A n \in Nat : n \in G
<1> DEFINE T == Nat \ G
<1> SUFFICES ASSUME T # {} PROVE FALSE
  OBVIOUS
<1>1. PICK x \in T : \A y \in T : x <= y
  BY SmallestNat
<1>2. x # 0 /\ x - 1 \in Nat /\ x - 1 \notin T
  BY <1>1
<1> QED BY <1>2

\* f has the sums of the first k prefixes of s.
Sums(f, s, k) ==
  /\ f \in [0 .. k -> Nat] /\ f[0] = 0
  /\ \A i \in 1 .. k : f[i] = f[i - 1] + s[i]

LEMMA SumsExist ==
  ASSUME NEW s \in Seq(Nat)
  PROVE  \E f : Sums(f, s, Len(s))
<1> DEFINE G == {k \in Nat : k <= Len(s) => \E f : Sums(f, s, k)}
<1>1. 0 \in G
  <2>1. Sums([i \in 0 .. 0 |-> 0], s, 0)
    BY DEF Sums
  <2> QED BY <2>1
<1>2. ASSUME NEW k \in Nat, k \in G PROVE k + 1 \in G
  <2> SUFFICES ASSUME k + 1 <= Len(s) PROVE \E f : Sums(f, s, k + 1)
    OBVIOUS
  <2>1. PICK f : Sums(f, s, k)
    BY <1>2
  <2> DEFINE g == [i \in 0 .. k + 1 |-> IF i = k + 1 THEN f[k] + s[k + 1] ELSE f[i]]
  <2>2. s[k + 1] \in Nat /\ f[k] \in Nat
    BY <2>1 DEF Sums
  <2>3. g \in [0 .. k + 1 -> Nat] /\ g[0] = 0
    BY <2>1, <2>2 DEF Sums
  <2>4. \A i \in 1 .. k + 1 : g[i] = g[i - 1] + s[i]
    BY <2>1, <2>2 DEF Sums
  <2> QED BY <2>3, <2>4 DEF Sums
<1> HIDE DEF G
<1>3. \A k \in Nat : k \in G
  BY <1>1, <1>2, SetInduction
<1> QED BY <1>3 DEF G

\* Sums that take the same steps stay as far apart as they were.
LEMMA SumsAgree ==
  ASSUME NEW c \in Nat, NEW s \in Seq(Nat), NEW f, NEW g,
         Sums(f, s, Len(s)), g[0] = c,
         \A i \in 1 .. Len(s) : g[i] = g[i - 1] + s[i]
  PROVE  \A i \in 0 .. Len(s) : g[i] = f[i] + c
<1> DEFINE G == {i \in Nat : i <= Len(s) => g[i] = f[i] + c}
<1>1. 0 \in G
  BY DEF Sums
<1>2. ASSUME NEW i \in Nat, i \in G PROVE i + 1 \in G
  <2> SUFFICES ASSUME i + 1 <= Len(s) PROVE g[i + 1] = f[i + 1] + c
    OBVIOUS
  <2>1. i + 1 \in 1 .. Len(s) /\ i + 1 - 1 = i /\ i <= Len(s)
    OBVIOUS
  <2>2. g[i + 1] = g[i] + s[i + 1] /\ g[i] = f[i] + c
    BY <1>2, <2>1
  <2>3. f[i + 1] = f[i] + s[i + 1] /\ f[i] \in Nat
    <3>1. i \in 0 .. Len(s) /\ f \in [0 .. Len(s) -> Nat]
      BY <2>1 DEF Sums
    <3>2. \A j \in 1 .. Len(s) : f[j] = f[j - 1] + s[j]
      BY DEF Sums
    <3>3. f[i + 1] = f[i + 1 - 1] + s[i + 1]
      BY <2>1, <3>2
    <3> QED BY <2>1, <3>1, <3>3
  <2>4. s[i + 1] \in Nat
    BY <2>1
  <2> QED BY <2>2, <2>3, <2>4
<1> HIDE DEF G
<1>3. \A i \in Nat : i \in G
  BY <1>1, <1>2, SetInduction
<1> QED BY <1>3 DEF G

LEMMA SumsUnique ==
  ASSUME NEW s \in Seq(Nat), NEW f, NEW g,
         Sums(f, s, Len(s)), g[0] = 0,
         \A i \in 1 .. Len(s) : g[i] = g[i - 1] + s[i]
  PROVE  \A i \in 0 .. Len(s) : g[i] = f[i] /\ f[i] \in Nat
<1>1. \A i \in 0 .. Len(s) : g[i] = f[i] + 0
  BY SumsAgree
<1>2. \A i \in 0 .. Len(s) : f[i] \in Nat
  BY DEF Sums
<1> QED BY <1>1, <1>2

\* The recursive definition is well founded.
LEMMA PrefixSumsDef ==
  ASSUME NEW s \in Seq(Nat)
  PROVE  Sums(PrefixSums(s), s, Len(s))
<1> DEFINE P(g) == g = [n \in 0 .. Len(s) |-> IF n = 0 THEN 0 ELSE g[n - 1] + s[n]]
<1>1. PICK f : Sums(f, s, Len(s))
  BY SumsExist
<1>2. P(f)
  BY <1>1 DEF Sums
<1>3. PrefixSums(s) = CHOOSE g : P(g)
  BY DEF PrefixSums
<1> HIDE DEF P
<1>4. P(CHOOSE g : P(g))
  BY <1>2, Zenon
<1> DEFINE g == PrefixSums(s)
<1>5. P(g)
  BY <1>3, <1>4
<1> HIDE DEF g
<1>6. /\ DOMAIN g = 0 .. Len(s) /\ g[0] = 0
      /\ g = [n \in DOMAIN g |-> g[n]]
      /\ \A i \in 1 .. Len(s) : g[i] = g[i - 1] + s[i]
  BY <1>5 DEF P
<1>7. \A i \in 0 .. Len(s) : g[i] \in Nat
  <2>1. g[0] = 0 /\ \A i \in 1 .. Len(s) : g[i] = g[i - 1] + s[i]
    BY <1>6
  <2>2. \A i \in 0 .. Len(s) : g[i] = f[i] /\ f[i] \in Nat
    BY <1>1, <2>1, SumsUnique
  <2> QED BY <2>2
<1> QED BY <1>6, <1>7 DEF Sums, g

-----------------------------------------------------------------------------
LEMMA TotalType ==
  ASSUME NEW s \in Seq(Nat)
  PROVE  Total(s) \in Nat
BY PrefixSumsDef DEF Total, Sums

LEMMA TotalEmpty == Total(<<>>) = 0
<1>1. <<>> \in Seq(Nat) /\ Len(<<>>) = 0
  OBVIOUS
<1>2. Sums(PrefixSums(<<>>), <<>>, 0)
  BY <1>1, PrefixSumsDef
<1> QED BY <1>1, <1>2 DEF Total, Sums

\* A number more at the end is added.
LEMMA TotalAppend ==
  ASSUME NEW s \in Seq(Nat), NEW t \in Seq(Nat), Len(t) = Len(s) + 1,
         \A i \in 1 .. Len(s) : t[i] = s[i]
  PROVE  Total(t) = Total(s) + t[Len(t)]
<1> DEFINE f == PrefixSums(s)
           g == PrefixSums(t)
           n == Len(s)
<1>1. n \in Nat /\ Len(t) = n + 1
  OBVIOUS
<1>2. Sums(f, s, n) /\ Sums(g, t, Len(t))
  BY PrefixSumsDef
<1>3. Total(s) = f[n] /\ Total(t) = g[Len(t)]
  BY DEF Total
<1> HIDE DEF f, g
<1>4. f[n] \in Nat
  BY <1>3, TotalType
<1>5. g[0] = 0 /\ \A i \in 1 .. Len(t) : g[i] = g[i - 1] + t[i]
  BY <1>2 DEF Sums
<1>6. ASSUME NEW i \in 1 .. n PROVE g[i] = g[i - 1] + s[i]
  <2>1. i \in 1 .. Len(t) /\ t[i] = s[i]
    BY <1>1
  <2> QED BY <1>5, <2>1
<1>7. \A i \in 0 .. Len(s) : g[i] = f[i]
  BY <1>2, <1>5, <1>6, SumsUnique
<1>8. g[n] = f[n]
  BY <1>1, <1>7
<1>9. g[n + 1] = g[n + 1 - 1] + t[n + 1]
  BY <1>1, <1>5
<1> QED BY <1>1, <1>3, <1>8, <1>9

\* A number less at the front is subtracted.
LEMMA TotalTail ==
  ASSUME NEW s \in Seq(Nat), NEW t \in Seq(Nat), Len(s) = Len(t) + 1,
         \A i \in 1 .. Len(t) : t[i] = s[i + 1]
  PROVE  Total(s) = s[1] + Total(t)
<1> DEFINE f == PrefixSums(t)
           g == PrefixSums(s)
           n == Len(t)
           h == [i \in 0 .. n |-> g[i + 1]]
<1>1. n \in Nat /\ Len(s) = n + 1 /\ s[1] \in Nat
  OBVIOUS
<1>2. Sums(f, t, n) /\ Sums(g, s, Len(s))
  BY PrefixSumsDef
<1>3. Total(t) = f[n] /\ Total(s) = g[Len(s)]
  BY DEF Total
<1> HIDE DEF f, g
<1>4. f[n] \in Nat
  BY <1>1, <1>2 DEF Sums
<1>5. g[0] = 0 /\ \A i \in 1 .. Len(s) : g[i] = g[i - 1] + s[i]
  BY <1>2 DEF Sums
<1>6. h[0] = s[1] /\ h[n] = g[n + 1]
  <2>1. g[1] = g[1 - 1] + s[1]
    BY <1>1, <1>5
  <2> QED BY <1>1, <1>5, <2>1
<1>7. ASSUME NEW i \in 1 .. n PROVE h[i] = h[i - 1] + t[i]
  <2>1. i + 1 \in 1 .. Len(s) /\ t[i] = s[i + 1]
    BY <1>1
  <2>2. g[i + 1] = g[i + 1 - 1] + s[i + 1]
    BY <1>5, <2>1
  <2>3. h[i] = g[i + 1] /\ h[i - 1] = g[i]
    BY <1>1
  <2> QED BY <2>1, <2>2, <2>3
<1> HIDE DEF h
<1>8. \A i \in 0 .. n : h[i] = f[i] + s[1]
  BY <1>1, <1>2, <1>6, <1>7, SumsAgree
<1>9. h[n] = f[n] + s[1]
  BY <1>1, <1>8
<1> QED BY <1>1, <1>3, <1>4, <1>6, <1>9

-----------------------------------------------------------------------------
(* Remainders.                                                             *)

\* Quotient and remainder of an integer.
LEMMA IntDivMod ==
  ASSUME NEW v \in Int, NEW B \in Nat, B > 0
  PROVE  v % B \in 0 .. B - 1 /\ v \div B \in Int /\ v = B * (v \div B) + (v % B)
<1>1. v % B \in 0 .. B - 1
  OBVIOUS
<1>2. v \div B \in Int
  OBVIOUS
<1>3. v = B * (v \div B) + (v % B)
  OBVIOUS
<1> QED BY <1>1, <1>2, <1>3

\* A multiple of W has no remainder.
LEMMA MultipleMod ==
  ASSUME NEW W \in Nat, W > 0, NEW k \in Int
  PROVE  (W * k) % W = 0
<1>1. PICK x \in Int : x = W * k
  OBVIOUS
<1>2. x % W \in 0 .. W - 1 /\ x \div W \in Int /\ x = W * (x \div W) + (x % W)
  BY IntDivMod
<1>3. PICK r \in Nat, q \in Int : r = x % W /\ q = x \div W /\ r < W /\ x = W * q + r
  BY <1>2
<1>4. r = W * (k - q)
  BY <1>1, <1>3
<1>5. k - q >= 1 => W * (k - q) >= W
  OBVIOUS
<1>6. k - q <= -1 => W * (k - q) <= -W
  OBVIOUS
<1>7. k - q = 0
  BY <1>3, <1>4, <1>5, <1>6
<1>8. r = 0
  BY <1>4, <1>7
<1> QED BY <1>1, <1>3, <1>8

\* Quotient and remainder of a natural number.
LEMMA DivMod ==
  ASSUME NEW v \in Nat, NEW B \in Nat, B > 0
  PROVE  v % B \in 0 .. B - 1 /\ v \div B \in Nat /\ v = B * (v \div B) + (v % B)
<1>1. v % B \in 0 .. B - 1
  OBVIOUS
<1>2. v \div B \in Nat
  OBVIOUS
<1>3. v = B * (v \div B) + (v % B)
  OBVIOUS
<1> QED BY <1>1, <1>2, <1>3

\* What fits into a word is unchanged when it is taken modulo the word.
LEMMA SmallMod ==
  ASSUME NEW W \in Nat, NEW x \in Nat, x < W
  PROVE  x % W = x
<1>1. W > 0
  OBVIOUS
<1>2. x % W \in 0 .. W - 1 /\ x \div W \in Nat /\ x = W * (x \div W) + (x % W)
  BY <1>1, DivMod
<1>3. PICK r \in Nat, q \in Nat : r = x % W /\ q = x \div W /\ x = W * q + r
  BY <1>2
<1>4. q >= 1 => W * q >= W
  BY <1>1
<1>5. q = 0
  BY <1>3, <1>4
<1>6. W * q = 0
  BY <1>5
<1> QED BY <1>3, <1>6
=============================================================================
