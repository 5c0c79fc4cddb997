---------------------------- MODULE PipelineProofs ----------------------------
(***************************************************************************)
(* What lookups find, what the loops over providers and proposals make of  *)
(* it, and what ranking keeps, for any dictionaries, providers, limits and *)
(* codes.                                                                  *)
(***************************************************************************)
EXTENDS CandidatePipeline, FiniteSetTheorems, SequenceTheorems, WellFoundedInduction,
        TLAPS

-----------------------------------------------------------------------------
(* Induction and counting.                                                 *)

\* Induction, for a set of numbers.
LEMMA NatInduct ==
    ASSUME NEW S, 0 \in S, \A n \in Nat : n \in S => n + 1 \in S
    PROVE  Nat \subseteq S
  <1>. SUFFICES ASSUME Nat \ S # {} PROVE FALSE
    OBVIOUS
  <1>1. PICK x \in Nat \ S : \A y \in Nat \ S : <<y, x>> \notin OpToRel(<, Nat)
    BY NatLessThanWellFounded, WFMin
  <1>2. x - 1 \in Nat \ S
    OBVIOUS
  <1>3. <<x - 1, x>> \in OpToRel(<, Nat)
    BY <1>2 DEF OpToRel
  <1>. QED
    BY <1>1, <1>2, <1>3

\* The first n positions are n in number.
LEMMA Positions ==
    ASSUME NEW n \in Nat
    PROVE  IsFiniteSet(1..n) /\ Cardinality(1..n) = n
  <1>1. IsFiniteSet(1..n) /\ Cardinality(1..n) = IF 1 > n THEN 0 ELSE n - 1 + 1
    BY FS_Interval
  <1>. QED
    BY <1>1

\* A set of positions closed downwards is the first so many.
LEMMA InitialSegment ==
    ASSUME NEW n \in Nat, NEW S \in SUBSET (1..n),
           \A i \in 1..n, j \in S : i <= j => i \in S
    PROVE  Cardinality(S) \in 0..n /\ S = 1..Cardinality(S)
  <1>1. IsFiniteSet(1..n) /\ Cardinality(1..n) = n
    BY Positions
  <1>2. IsFiniteSet(S) /\ Cardinality(S) \in Nat /\ Cardinality(S) <= n
    BY <1>1, FS_Subset, FS_CardinalityType
  <1>3. PICK m : m = Cardinality(S)
    OBVIOUS
  <1>4. ASSUME NEW i \in S, i > m
        PROVE  FALSE
    <2>1. 1..i \in SUBSET S
      BY <1>4
    <2>2. i \in Nat /\ Cardinality(1..i) = i
      BY <1>4, Positions
    <2>. QED
      BY <1>2, <1>3, <1>4, <2>1, <2>2, FS_Subset
  <1>5. S \in SUBSET (1..m)
    BY <1>2, <1>3, <1>4
  <1>6. IsFiniteSet(1..m) /\ Cardinality(1..m) = m
    BY <1>2, <1>3, Positions
  <1>7. S = 1..m
    BY <1>3, <1>5, <1>6, FS_Subset
  <1>. QED
    BY <1>2, <1>3, <1>7

\* An order, as the pairs it relates.
StrictOrder(R, S) ==
    /\ \A x \in S : <<x, x>> \notin R
    /\ \A x, y, z \in S : <<x, y>> \in R /\ <<y, z>> \in R => <<x, z>> \in R
    /\ \A x, y \in S : x # y => <<x, y>> \in R \/ <<y, x>> \in R

RankIn(R, S, x) == Cardinality({y \in S : <<y, x>> \in R})

\* In a finite ordered set the elements have the ranks from 0 on, each its own.
LEMMA Ranks ==
    ASSUME NEW S, IsFiniteSet(S), NEW R, StrictOrder(R, S)
    PROVE  /\ Cardinality(S) \in Nat
           /\ \A x \in S : RankIn(R, S, x) \in 0..(Cardinality(S) - 1)
           /\ \A x, y \in S : <<x, y>> \in R <=> RankIn(R, S, x) < RankIn(R, S, y)
           /\ \A x, y \in S : RankIn(R, S, x) = RankIn(R, S, y) => x = y
           /\ \A k \in 0..(Cardinality(S) - 1) : \E x \in S : RankIn(R, S, x) = k
  <1>. DEFINE n == Cardinality(S)
              Under(x) == {y \in S : <<y, x>> \in R}
  <1>1. n \in Nat
    BY FS_CardinalityType
  <1>2. \A x \in S : IsFiniteSet(Under(x)) /\ Cardinality(Under(x)) \in Nat
    BY FS_Subset, FS_CardinalityType
  <1>3. ASSUME NEW x \in S
        PROVE  Cardinality(Under(x)) \in 0..(n - 1)
    <2>1. Under(x) \in SUBSET S /\ Under(x) # S
      BY DEF StrictOrder
    <2>2. Cardinality(Under(x)) <= n /\ Cardinality(Under(x)) # n
      BY <2>1, FS_Subset
    <2>. QED
      BY <1>1, <1>2, <2>2
  <1>4. ASSUME NEW x \in S, NEW y \in S, <<x, y>> \in R
        PROVE  Cardinality(Under(x)) < Cardinality(Under(y))
    <2>1. Under(x) \in SUBSET Under(y)
      BY <1>4 DEF StrictOrder
    <2>2. x \in Under(y) /\ x \notin Under(x)
      BY <1>4 DEF StrictOrder
    <2>3. /\ Cardinality(Under(x)) <= Cardinality(Under(y))
          /\ Cardinality(Under(y)) # Cardinality(Under(x))
      BY <1>2, <2>1, <2>2, FS_Subset
    <2>. QED
      BY <1>2, <2>3
  <1>5. \A x \in S : RankIn(R, S, x) = Cardinality(Under(x))
    BY DEF RankIn
  <1>. HIDE DEF Under
  <1>6. \A x, y \in S : <<x, y>> \in R <=> RankIn(R, S, x) < RankIn(R, S, y)
    <2>. SUFFICES ASSUME NEW x \in S, NEW y \in S
                  PROVE  <<x, y>> \in R <=> RankIn(R, S, x) < RankIn(R, S, y)
      OBVIOUS
    <2>1. <<x, y>> \in R \/ x = y \/ <<y, x>> \in R
      BY DEF StrictOrder
    <2>2. <<x, x>> \notin R
      BY DEF StrictOrder
    <2>3. Cardinality(Under(x)) \in Nat /\ Cardinality(Under(y)) \in Nat
      BY <1>2
    <2>. QED
      BY <1>4, <1>5, <2>1, <2>2, <2>3
  <1>7. \A x, y \in S : RankIn(R, S, x) = RankIn(R, S, y) => x = y
    <2>. SUFFICES ASSUME NEW x \in S, NEW y \in S, RankIn(R, S, x) = RankIn(R, S, y)
                  PROVE  x = y
      OBVIOUS
    <2>1. RankIn(R, S, x) \in Nat
      BY <1>2, <1>5
    <2>2. <<x, y>> \notin R /\ <<y, x>> \notin R
      BY <1>6, <2>1
    <2>. QED
      BY <2>2 DEF StrictOrder
  <1>8. \A k \in 0..(n - 1) : \E x \in S : RankIn(R, S, x) = k
    <2>. DEFINE f == [x \in S |-> RankIn(R, S, x) + 1]
    <2>1. f \in [S -> 1..n]
      BY <1>1, <1>3, <1>5
    <2>2. \A x \in S, y \in S : f[x] = f[y] => x = y
      BY <1>3, <1>5, <1>7
    <2>3. IsFiniteSet(1..n) /\ Cardinality(1..n) = n
      BY <1>1, Positions
    <2>4. \A t \in 1..n : \E x \in S : f[x] = t
      <3>1. IsFiniteSet(S) /\ Cardinality(S) = Cardinality(1..n)
        BY <2>3
      <3>. DEFINE T == 1..n
      <3>2. /\ IsFiniteSet(T) /\ Cardinality(S) = Cardinality(T) /\ f \in [S -> T]
        BY <2>1, <2>3, <3>1
      <3>. HIDE DEF f, T
      <3>3. f \in Injection(S, T)
        BY <2>2, <3>2 DEF Injection, IsInjective
      <3>4. f \in Surjection(S, T)
        BY <3>2, <3>3, FS_Injection
      <3>5. \A t \in T : \E x \in S : f[x] = t
        BY <3>4 DEF Surjection
      <3>. QED
        BY <3>5 DEF T
    <2>. QED
      <3>. SUFFICES ASSUME NEW k \in 0..(n - 1) PROVE \E x \in S : RankIn(R, S, x) = k
        OBVIOUS
      <3>1. k + 1 \in 1..n
        BY <1>1
      <3>2. PICK x \in S : f[x] = k + 1
        BY <2>4, <3>1
      <3>3. RankIn(R, S, x) \in Int
        BY <1>3, <1>5
      <3>. QED
        BY <3>2, <3>3
  <1>. QED
    BY <1>1, <1>3, <1>5, <1>6, <1>7, <1>8

-----------------------------------------------------------------------------
(* Texts as Rust compares them.                                            *)

\* The first n bytes agree, and there s ends or has the lower byte.
LowerAt(s, t, n) ==
    /\ n \in 0..Len(s) /\ n < Len(t)
    /\ \A i \in 1..n : s[i] = t[i]
    /\ n = Len(s) \/ s[n + 1] < t[n + 1]

Lower(s, t) == \E n \in Nat : LowerAt(s, t, n)

\* A byte string is a sequence of numbers.
LEMMA BytesFacts ==
    ASSUME NEW s \in Bytes
    PROVE  Len(s) \in Nat /\ DOMAIN s = 1..Len(s) /\ \A i \in 1..Len(s) : s[i] \in Int
  <1>1. s \in Seq(0..255)
    BY DEF Bytes
  <1>2. \A i \in 1..Len(s) : s[i] \in 0..255
    BY <1>1, ElementOfSeq
  <1>3. \A byte \in 0..255 : byte \in Int
    OBVIOUS
  <1>4. \A i \in 1..Len(s) : s[i] \in Int
    BY <1>2, <1>3, Zenon
  <1>. QED
    BY <1>1, <1>4, LenProperties

\* Nothing is lower than itself.
LEMMA LowerDiffers ==
    ASSUME NEW s \in Bytes, NEW t \in Bytes, Lower(s, t)
    PROVE  s # t
  <1>. SUFFICES ASSUME s = t PROVE FALSE
    OBVIOUS
  <1>1. PICK n \in Nat : LowerAt(s, t, n)
    BY DEF Lower
  <1>2. n \in 0..Len(s) /\ n < Len(s) /\ (n = Len(s) \/ s[n + 1] < s[n + 1])
    BY <1>1 DEF LowerAt
  <1>3. n + 1 \in 1..Len(s) /\ n # Len(s)
    BY <1>2, BytesFacts
  <1>4. s[n + 1] \in Int
    BY <1>3, BytesFacts
  <1>. QED
    BY <1>2, <1>3, <1>4

\* Where s has the lower byte, or has ended.
LEMMA LowerByte ==
    ASSUME NEW s \in Bytes, NEW t \in Bytes, NEW n \in Nat, LowerAt(s, t, n)
    PROVE  /\ Len(s) \in Nat /\ Len(t) \in Nat /\ n <= Len(s) /\ n < Len(t)
           /\ n + 1 \in 1..Len(t) /\ t[n + 1] \in Int
           /\ n < Len(s) => /\ n + 1 \in 1..Len(s)
                            /\ s[n + 1] \in Int /\ s[n + 1] < t[n + 1]
           /\ \A i \in 1..n : s[i] = t[i]
  <1>1. Len(s) \in Nat /\ Len(t) \in Nat
    BY BytesFacts
  <1>2. /\ n <= Len(s) /\ n < Len(t) /\ n + 1 \in 1..Len(t)
        /\ n = Len(s) \/ s[n + 1] < t[n + 1]
        /\ \A i \in 1..n : s[i] = t[i]
    BY <1>1 DEF LowerAt
  <1>3. n < Len(s) => n + 1 \in 1..Len(s)
    BY <1>1
  <1>4. t[n + 1] \in Int /\ (n < Len(s) => s[n + 1] \in Int)
    BY <1>2, <1>3, BytesFacts
  <1>. QED
    BY <1>1, <1>2, <1>3, <1>4

\* Of two byte strings only one is the lower.
LEMMA LowerOneWay ==
    ASSUME NEW s \in Bytes, NEW t \in Bytes, Lower(s, t)
    PROVE  ~Lower(t, s)
  <1>. SUFFICES ASSUME Lower(t, s) PROVE FALSE
    OBVIOUS
  <1>1. PICK n \in Nat : LowerAt(s, t, n)
    BY DEF Lower
  <1>2. PICK m \in Nat : LowerAt(t, s, m)
    BY DEF Lower
  <1>3. CASE n < m
    <2>1. n + 1 \in 1..m
      BY <1>3
    <2>2. s[n + 1] < t[n + 1] /\ s[n + 1] \in Int /\ t[n + 1] \in Int
      BY <1>1, <1>2, <1>3, <2>1, LowerByte
    <2>3. t[n + 1] = s[n + 1]
      BY <1>2, <2>1, LowerByte
    <2>. QED
      BY <2>2, <2>3
  <1>4. CASE m < n
    <2>1. m + 1 \in 1..n
      BY <1>4
    <2>. QED
      BY <1>1, <1>2, <1>4, <2>1, LowerByte
  <1>5. CASE n = m
    BY <1>1, <1>2, <1>5, LowerByte
  <1>. QED
    BY <1>3, <1>4, <1>5

\* What is lower than a lower one is lower.
LEMMA LowerTransitive ==
    ASSUME NEW s \in Bytes, NEW t \in Bytes, NEW u \in Bytes, Lower(s, t), Lower(t, u)
    PROVE  Lower(s, u)
  <1>1. PICK n \in Nat : LowerAt(s, t, n)
    BY DEF Lower
  <1>2. PICK m \in Nat : LowerAt(t, u, m)
    BY DEF Lower
  <1>3. Len(s) \in Nat /\ Len(t) \in Nat /\ Len(u) \in Nat
    BY BytesFacts
  <1>4. CASE n < m
    <2>1. n + 1 \in 1..m
      BY <1>4
    <2>2. LowerAt(s, u, n)
      BY <1>1, <1>2, <1>3, <1>4, <2>1 DEF LowerAt
    <2>. QED
      BY <2>2 DEF Lower
  <1>5. CASE m < n
    <2>1. m + 1 \in 1..n
      BY <1>5
    <2>2. LowerAt(s, u, m)
      BY <1>1, <1>2, <1>3, <1>5, <2>1 DEF LowerAt
    <2>. QED
      BY <2>2 DEF Lower
  <1>6. CASE n = m
    <2>1. n < Len(t) /\ n < Len(u) /\ n <= Len(s) /\ (n < Len(s) => s[n + 1] < u[n + 1])
      BY <1>1, <1>2, <1>6, LowerByte
    <2>2. \A i \in 1..n : s[i] = u[i]
      BY <1>1, <1>2, <1>6 DEF LowerAt
    <2>3. LowerAt(s, u, n)
      BY <1>3, <2>1, <2>2 DEF LowerAt
    <2>. QED
      BY <2>3 DEF Lower
  <1>. QED
    BY <1>4, <1>5, <1>6

\* Two texts that differ do so first at some place: one is the lower.
LEMMA LowerTotal ==
    ASSUME NEW s \in Bytes, NEW t \in Bytes, s # t
    PROVE  Lower(s, t) \/ Lower(t, s)
  <1>. SUFFICES ASSUME ~Lower(s, t), ~Lower(t, s) PROVE FALSE
    OBVIOUS
  <1>. DEFINE Agree == {n \in Nat : n <= Len(s) /\ n <= Len(t) /\ \A i \in 1..n : s[i] = t[i]}
  <1>1. Len(s) \in Nat /\ Len(t) \in Nat
    BY BytesFacts
  <1>2. 0 \in Agree
    BY <1>1
  <1>3. ASSUME NEW n \in Nat, n \in Agree
        PROVE  n + 1 \in Agree
    <2>1. ~LowerAt(s, t, n) /\ ~LowerAt(t, s, n)
      BY DEF Lower
    <2>2. ~(n = Len(s) /\ n = Len(t))
      BY <1>3, SeqEqual, BytesFacts DEF Bytes
    <2>3. n < Len(s) /\ n < Len(t)
      BY <1>1, <1>3, <2>1, <2>2 DEF LowerAt
    <2>4. s[n + 1] = t[n + 1]
      <3>1. n + 1 \in 1..Len(s) /\ n + 1 \in 1..Len(t)
        BY <1>1, <2>3
      <3>2. s[n + 1] \in Int /\ t[n + 1] \in Int
        BY <3>1, BytesFacts
      <3>3. ~(s[n + 1] < t[n + 1]) /\ ~(t[n + 1] < s[n + 1])
        BY <1>1, <1>3, <2>1, <2>3 DEF LowerAt
      <3>. QED
        BY <3>2, <3>3
    <2>. QED
      BY <1>1, <1>3, <2>3, <2>4
  <1>4. Nat \subseteq Agree
    <2>. HIDE DEF Agree
    <2>. QED
      BY <1>2, <1>3, NatInduct
  <1>5. Len(s) + 1 \in Agree
    <2>1. Len(s) + 1 \in Nat
      BY <1>1
    <2>. HIDE DEF Agree
    <2>. QED
      BY <1>4, <2>1
  <1>. QED
    BY <1>1, <1>5

\* What a comparison of texts says.
LEMMA Comparison ==
    ASSUME NEW s \in Bytes, NEW t \in Bytes
    PROVE  /\ CompareBytes(s, t) \in {-1, 0, 1}
           /\ CompareBytes(s, t) = 0 <=> s = t
           /\ CompareBytes(s, t) < 0 <=> Lower(s, t)
           /\ CompareBytes(s, t) > 0 <=> Lower(t, s)
  <1>1. Len(s) \in Nat
    BY BytesFacts
  <1>2. Lower(s, t) <=> \E n \in 0..Len(s) :
               /\ n < Len(t)
               /\ \A i \in 1..n : s[i] = t[i]
               /\ n = Len(s) \/ s[n + 1] < t[n + 1]
    BY <1>1 DEF Lower, LowerAt
  <1>3. CompareBytes(s, t) = IF s = t THEN 0 ELSE IF Lower(s, t) THEN -1 ELSE 1
    BY <1>2 DEF CompareBytes
  <1>. QED
    BY <1>3, LowerDiffers, LowerOneWay, LowerTotal

\* A text begins with its prefixes, and so does what lies between the two.
LEMMA PrefixFacts ==
    ASSUME NEW s \in Bytes, NEW t \in Bytes
    PROVE  IsPrefix(s, t) <=> Len(s) <= Len(t) /\ \A i \in 1..Len(s) : s[i] = t[i]
  <1>1. Len(s) \in Nat /\ Len(t) \in Nat /\ s \in Seq(0..255) /\ t \in Seq(0..255)
    BY BytesFacts DEF Bytes
  <1>2. SubSeq(s, 1, Len(s)) = s
    BY <1>1, SubSeqFull
  <1>3. ASSUME Len(s) <= Len(t)
        PROVE  /\ SubSeq(t, 1, Len(s)) \in Seq(0..255)
               /\ Len(SubSeq(t, 1, Len(s))) = Len(s)
               /\ \A i \in 1..Len(s) : SubSeq(t, 1, Len(s))[i] = t[i]
    <2>. DEFINE k == Len(s)
    <2>1. k \in 0..Len(t) /\ 1 \in 1..Len(t) + 1
      BY <1>1, <1>3
    <2>. HIDE DEF k
    <2>2. /\ SubSeq(t, 1, k) \in Seq(0..255)
          /\ Len(SubSeq(t, 1, k)) = IF 1 <= k THEN k - 1 + 1 ELSE 0
          /\ \A i \in 1..(k - 1 + 1) : SubSeq(t, 1, k)[i] = t[1 + i - 1]
      <3>1. \A i \in 1..k : t[i] \in 0..255
        <4>1. \A i \in 1..k : i \in 1..Len(t)
          BY <1>1, <2>1
        <4>2. \A i \in 1..Len(t) : t[i] \in 0..255
          BY <1>1, ElementOfSeq
        <4>. QED
          BY <4>1, <4>2, Zenon
      <3>2. 1 \in Int /\ k \in Int
        BY <1>1, <2>1
      <3>. QED
        BY <3>1, <3>2, SubSeqProperties
    <2>. QED
      BY <1>1, <2>1, <2>2 DEF k
  <1>4. ASSUME Len(s) <= Len(t)
        PROVE  s = SubSeq(t, 1, Len(s)) <=> \A i \in 1..Len(s) : s[i] = t[i]
    <2>. DEFINE u == SubSeq(t, 1, Len(s))
    <2>1. /\ u \in Seq(0..255) /\ Len(u) = Len(s)
          /\ \A i \in 1..Len(s) : u[i] = t[i]
      BY <1>3, <1>4
    <2>. HIDE DEF u
    <2>2. s = u <=> \A i \in 1..Len(s) : s[i] = u[i]
      BY <1>1, <2>1, SeqEqual
    <2>. QED
      BY <2>1, <2>2 DEF u
  <1>. QED
    BY <1>2, <1>4 DEF IsPrefix

\* A prefix is not higher than what it begins.
LEMMA PrefixNotHigher ==
    ASSUME NEW p \in Bytes, NEW s \in Bytes, IsPrefix(p, s)
    PROVE  ~Lower(s, p)
  <1>1. Len(p) \in Nat /\ Len(s) \in Nat
    BY BytesFacts
  <1>2. CASE p = s
    BY <1>2, LowerDiffers
  <1>3. CASE p # s
    <2>1. Len(p) < Len(s)
      <3>. SUFFICES ASSUME Len(p) = Len(s) PROVE FALSE
        BY <1>1, PrefixFacts
      <3>. QED
        BY <1>3, PrefixFacts, SeqEqual DEF Bytes
    <2>2. LowerAt(p, s, Len(p))
      BY <1>1, <2>1, PrefixFacts DEF LowerAt
    <2>. QED
      BY <1>1, <2>2, LowerOneWay DEF Lower
  <1>. QED
    BY <1>2, <1>3

\* What lies between a prefix and a code it begins begins with it too.
LEMMA BetweenPrefixes ==
    ASSUME NEW p \in Bytes, NEW s \in Bytes, NEW t \in Bytes,
           ~Lower(s, p), ~Lower(t, s), IsPrefix(p, t)
    PROVE  IsPrefix(p, s)
  <1>1. Len(p) \in Nat /\ Len(s) \in Nat /\ Len(t) \in Nat
    BY BytesFacts
  <1>2. CASE s = t
    BY <1>2
  <1>3. CASE s = p
    BY <1>1, <1>3, PrefixFacts
  <1>4. CASE s # t /\ s # p
    <2>1. PICK n \in Nat : LowerAt(s, t, n)
      BY <1>4, LowerTotal DEF Lower
    <2>2. PICK m \in Nat : LowerAt(p, s, m)
      BY <1>4, LowerTotal DEF Lower
    <2>3. Len(p) <= Len(t) /\ \A i \in 1..Len(p) : p[i] = t[i]
      BY PrefixFacts
    <2>4. m = Len(p)
      <3>. SUFFICES ASSUME m < Len(p) PROVE FALSE
        BY <1>1, <2>2 DEF LowerAt
      <3>1. m + 1 \in 1..Len(p) /\ m + 1 \in 1..Len(s) /\ m + 1 \in 1..Len(t)
        BY <1>1, <2>2, <2>3 DEF LowerAt
      <3>2. p[m + 1] < s[m + 1] /\ p[m + 1] = t[m + 1]
        BY <2>2, <2>3, <3>1, LowerByte
      <3>3. p[m + 1] \in Int /\ s[m + 1] \in Int
        BY <2>2, <3>1, LowerByte
      <3>4. n <= m
        <4>. SUFFICES ASSUME m + 1 \in 1..n PROVE FALSE
          OBVIOUS
        <4>. QED
          BY <2>1, <3>2, <3>3 DEF LowerAt
      <3>5. CASE n = m
        <4>1. s[m + 1] < t[m + 1]
          BY <1>1, <2>1, <3>1, <3>5, LowerByte
        <4>. QED
          BY <3>2, <3>3, <4>1
      <3>6. CASE n < m
        <4>1. n + 1 \in 1..m /\ n + 1 \in 1..Len(p) /\ n + 1 \in 1..Len(s)
          BY <1>1, <3>1, <3>6
        <4>2. s[n + 1] < t[n + 1] /\ s[n + 1] \in Int
          BY <1>1, <2>1, <4>1, LowerByte
        <4>3. p[n + 1] = s[n + 1] /\ p[n + 1] = t[n + 1]
          BY <2>2, <2>3, <4>1 DEF LowerAt
        <4>. QED
          BY <4>2, <4>3
      <3>. QED
        BY <3>4, <3>5, <3>6
    <2>. QED
      BY <1>1, <2>2, <2>4, PrefixFacts DEF LowerAt
  <1>. QED
    BY <1>2, <1>3, <1>4

-----------------------------------------------------------------------------
(* The orders of the entries of a dictionary and of proposals.             *)

\* What comparing one key after another says.
LEMMA ThreeKeys ==
    ASSUME NEW a \in Int, NEW b \in Int, NEW c \in Int
    PROVE  IsLess(<<a, b, c>>) <=> a < 0 \/ (a = 0 /\ (b < 0 \/ (b = 0 /\ c < 0)))
  <1>. DEFINE k == <<a, b, c>>
  <1>1. DOMAIN k = {1, 2, 3} /\ k[1] = a /\ k[2] = b /\ k[3] = c
    OBVIOUS
  <1>2. 1..(1 - 1) = {} /\ 1..(2 - 1) = {1} /\ 1..(3 - 1) = {1, 2}
    OBVIOUS
  <1>. HIDE DEF k
  <1>3. IsLess(k) <=> \/ k[1] < 0
                      \/ k[2] < 0 /\ k[1] = 0
                      \/ k[3] < 0 /\ k[1] = 0 /\ k[2] = 0
    BY <1>1, <1>2 DEF IsLess
  <1>4. IsLess(k) <=> a < 0 \/ (a = 0 /\ (b < 0 \/ (b = 0 /\ c < 0)))
    BY <1>1, <1>3
  <1>. QED
    BY <1>4 DEF k

\* then_with, spelled out for the orders of four keys.
LEMMA FourKeys ==
    ASSUME NEW a \in Int, NEW b \in Int, NEW c \in Int, NEW d \in Int
    PROVE  IsLess(<<a, b, c, d>>)
             <=> a < 0 \/ (a = 0 /\ (b < 0 \/ (b = 0 /\ (c < 0 \/ (c = 0 /\ d < 0)))))
  <1>. DEFINE k == <<a, b, c, d>>
  <1>1. DOMAIN k = {1, 2, 3, 4} /\ k[1] = a /\ k[2] = b /\ k[3] = c /\ k[4] = d
    OBVIOUS
  <1>2. /\ 1..(1 - 1) = {} /\ 1..(2 - 1) = {1} /\ 1..(3 - 1) = {1, 2}
        /\ 1..(4 - 1) = {1, 2, 3}
    OBVIOUS
  <1>. HIDE DEF k
  <1>3. IsLess(k) <=> \/ k[1] < 0
                      \/ k[2] < 0 /\ k[1] = 0
                      \/ k[3] < 0 /\ k[1] = 0 /\ k[2] = 0
                      \/ k[4] < 0 /\ k[1] = 0 /\ k[2] = 0 /\ k[3] = 0
    BY <1>1, <1>2 DEF IsLess
  <1>4. IsLess(k) <=> a < 0 \/ (a = 0 /\ (b < 0 \/ (b = 0 /\ (c < 0 \/ (c = 0 /\ d < 0)))))
    BY <1>1, <1>3
  <1>. QED
    BY <1>4 DEF k

\* The same for six.
LEMMA SixKeys ==
    ASSUME NEW a, NEW b, NEW c, NEW d, NEW e, NEW f
    PROVE  IsLess(<<a, b, c, d, e, f>>)
             <=> a < 0 \/ (a = 0 /\ (b < 0 \/ (b = 0 /\ (c < 0 \/ (c = 0 /\
                   (d < 0 \/ (d = 0 /\ (e < 0 \/ (e = 0 /\ f < 0)))))))))
  <1>. DEFINE k == <<a, b, c, d, e, f>>
  <1>1. /\ DOMAIN k = {1, 2, 3, 4, 5, 6}
        /\ k[1] = a /\ k[2] = b /\ k[3] = c /\ k[4] = d /\ k[5] = e /\ k[6] = f
    OBVIOUS
  <1>2. /\ 1..(1 - 1) = {} /\ 1..(2 - 1) = {1} /\ 1..(3 - 1) = {1, 2}
        /\ 1..(4 - 1) = {1, 2, 3} /\ 1..(5 - 1) = {1, 2, 3, 4}
        /\ 1..(6 - 1) = {1, 2, 3, 4, 5}
    OBVIOUS
  <1>. HIDE DEF k
  <1>3. IsLess(k) <=>
            \/ k[1] < 0
            \/ k[2] < 0 /\ k[1] = 0
            \/ k[3] < 0 /\ k[1] = 0 /\ k[2] = 0
            \/ k[4] < 0 /\ k[1] = 0 /\ k[2] = 0 /\ k[3] = 0
            \/ k[5] < 0 /\ k[1] = 0 /\ k[2] = 0 /\ k[3] = 0 /\ k[4] = 0
            \/ k[6] < 0 /\ k[1] = 0 /\ k[2] = 0 /\ k[3] = 0 /\ k[4] = 0 /\ k[5] = 0
    BY <1>1, <1>2 DEF IsLess
  <1>4. IsLess(k) <=> a < 0 \/ (a = 0 /\ (b < 0 \/ (b = 0 /\ (c < 0 \/ (c = 0 /\
                   (d < 0 \/ (d = 0 /\ (e < 0 \/ (e = 0 /\ f < 0)))))))))
    BY <1>1, <1>3
  <1>. QED
    BY <1>4 DEF k

\* The order of a dictionary, key by key.
LEMMA EntryKeys ==
    ASSUME NEW x \in Entry, NEW y \in Entry
    PROVE  EntryPrecedes(x, y) <=>
             \/ Lower(x.input_code, y.input_code)
             \/ /\ x.input_code = y.input_code
                /\ \/ x.lexeme_id < y.lexeme_id
                   \/ /\ x.lexeme_id = y.lexeme_id
                      /\ \/ Lower(x.text, y.text)
                         \/ x.text = y.text /\ x.base_frequency > y.base_frequency
  <1>1. /\ x.input_code \in Bytes /\ y.input_code \in Bytes
        /\ x.text \in Bytes /\ y.text \in Bytes
        /\ x.lexeme_id \in Int /\ y.lexeme_id \in Int
        /\ x.base_frequency \in Int /\ y.base_frequency \in Int
    BY DEF Entry
  <1>. DEFINE a == CompareBytes(x.input_code, y.input_code)
              b == x.lexeme_id - y.lexeme_id
              c == CompareBytes(x.text, y.text)
              d == y.base_frequency - x.base_frequency
  <1>2. /\ a \in Int /\ (a < 0 <=> Lower(x.input_code, y.input_code))
        /\ a = 0 <=> x.input_code = y.input_code
    BY <1>1, Comparison
  <1>3. /\ c \in Int /\ (c < 0 <=> Lower(x.text, y.text))
        /\ c = 0 <=> x.text = y.text
    BY <1>1, Comparison
  <1>4. /\ b \in Int /\ (b < 0 <=> x.lexeme_id < y.lexeme_id)
        /\ b = 0 <=> x.lexeme_id = y.lexeme_id
        /\ d \in Int /\ (d < 0 <=> x.base_frequency > y.base_frequency)
    BY <1>1
  <1>5. EntryPrecedes(x, y) <=> IsLess(<<a, b, c, d>>)
    BY DEF EntryPrecedes, Compare
  <1>. HIDE DEF a, b, c, d
  <1>6. IsLess(<<a, b, c, d>>)
             <=> a < 0 \/ (a = 0 /\ (b < 0 \/ (b = 0 /\ (c < 0 \/ (c = 0 /\ d < 0)))))
    BY <1>2, <1>3, <1>4, FourKeys
  <1>. QED
    BY <1>2, <1>3, <1>4, <1>5, <1>6

\* EntryPrecedes is an order: its entries can differ only by what it compares.
LEMMA EntryOrder ==
    ASSUME NEW x \in Entry, NEW y \in Entry, NEW z \in Entry
    PROVE  /\ ~EntryPrecedes(x, x)
           /\ EntryPrecedes(x, y) /\ EntryPrecedes(y, z) => EntryPrecedes(x, z)
           /\ EntryPrecedes(x, y) \/ x = y \/ EntryPrecedes(y, x)
  <1>1. \A e \in Entry :
           /\ e.input_code \in Bytes /\ e.text \in Bytes
           /\ e.lexeme_id \in Int /\ e.base_frequency \in Int
    BY DEF Entry
  <1>2. /\ ~Lower(x.input_code, x.input_code) /\ ~Lower(x.text, x.text)
    BY <1>1, LowerDiffers
  <1>3. ~EntryPrecedes(x, x)
    BY <1>1, <1>2, EntryKeys
  <1>4. /\ Lower(x.input_code, y.input_code) /\ Lower(y.input_code, z.input_code)
             => Lower(x.input_code, z.input_code)
        /\ Lower(x.text, y.text) /\ Lower(y.text, z.text) => Lower(x.text, z.text)
    BY <1>1, LowerTransitive
  <1>5. EntryPrecedes(x, y) /\ EntryPrecedes(y, z) => EntryPrecedes(x, z)
    BY <1>1, <1>4, EntryKeys
  <1>6. /\ Lower(x.input_code, y.input_code) \/ x.input_code = y.input_code
             \/ Lower(y.input_code, x.input_code)
        /\ Lower(x.text, y.text) \/ x.text = y.text \/ Lower(y.text, x.text)
    BY <1>1, LowerTotal
  <1>7. x.input_code = y.input_code /\ x.lexeme_id = y.lexeme_id /\ x.text = y.text
            /\ x.base_frequency = y.base_frequency => x = y
    BY DEF Entry
  <1>8. EntryPrecedes(x, y) \/ x = y \/ EntryPrecedes(y, x)
    BY <1>1, <1>6, <1>7, EntryKeys
  <1>. QED
    BY <1>3, <1>5, <1>8

\* Of two proposals of one text, which is kept.
LEMMA CanonicalKeys ==
    ASSUME NEW p \in Proposal, NEW q \in Proposal
    PROVE  canonical_precedes(p, q) <=>
             \/ KindOrder(p) > KindOrder(q)
             \/ /\ KindOrder(p) = KindOrder(q)
                /\ \/ p.base_frequency > q.base_frequency
                   \/ p.base_frequency = q.base_frequency /\ p.lexeme_id < q.lexeme_id
  <1>1. /\ p.lexeme_id \in Int /\ q.lexeme_id \in Int
        /\ p.base_frequency \in Int /\ q.base_frequency \in Int
    BY DEF Proposal
  <1>2. KindOrder(p) \in Int /\ KindOrder(q) \in Int
    BY DEF KindOrder
  <1>. DEFINE a == KindOrder(q) - KindOrder(p)
              b == q.base_frequency - p.base_frequency
              c == p.lexeme_id - q.lexeme_id
  <1>3. /\ a \in Int /\ (a < 0 <=> KindOrder(p) > KindOrder(q))
        /\ a = 0 <=> KindOrder(p) = KindOrder(q)
        /\ b \in Int /\ (b < 0 <=> p.base_frequency > q.base_frequency)
        /\ b = 0 <=> p.base_frequency = q.base_frequency
        /\ c \in Int /\ (c < 0 <=> p.lexeme_id < q.lexeme_id)
    BY <1>1, <1>2
  <1>4. canonical_precedes(p, q) <=> IsLess(<<a, b, c>>)
    BY DEF canonical_precedes, Compare
  <1>. HIDE DEF a, b, c
  <1>5. IsLess(<<a, b, c>>) <=> a < 0 \/ (a = 0 /\ (b < 0 \/ (b = 0 /\ c < 0)))
    BY <1>3, ThreeKeys
  <1>. QED
    BY <1>3, <1>4, <1>5

\* The order of display, without the scores: an exact match comes before any other,
\* whatever the frequencies, and a score never contradicts a frequency.
LEMMA RankedKeys ==
    ASSUME NEW p \in Proposal, NEW q \in Proposal
    PROVE  compare_ranked(p, q) <=>
             \/ KindOrder(p) > KindOrder(q)
             \/ /\ KindOrder(p) = KindOrder(q)
                /\ \/ p.base_frequency > q.base_frequency
                   \/ /\ p.base_frequency = q.base_frequency
                      /\ \/ Lower(p.input_code, q.input_code)
                         \/ /\ p.input_code = q.input_code
                            /\ \/ Lower(p.text, q.text)
                               \/ p.text = q.text /\ p.lexeme_id < q.lexeme_id
  <1>1. /\ p.lexeme_id \in Int /\ q.lexeme_id \in Int
        /\ p.base_frequency \in Nat /\ q.base_frequency \in Nat
        /\ p.input_code \in Bytes /\ q.input_code \in Bytes
        /\ p.text \in Bytes /\ q.text \in Bytes
    BY DEF Proposal
  <1>2. KindOrder(p) \in Int /\ KindOrder(q) \in Int
    BY DEF KindOrder
  <1>. DEFINE s == score(q) - score(p)
              a == KindOrder(q) - KindOrder(p)
              b == q.base_frequency - p.base_frequency
              c == CompareBytes(p.input_code, q.input_code)
              d == CompareBytes(p.text, q.text)
              e == p.lexeme_id - q.lexeme_id
  <1>3. /\ a \in Int /\ (a < 0 <=> KindOrder(p) > KindOrder(q))
        /\ a = 0 <=> KindOrder(p) = KindOrder(q)
        /\ b \in Int /\ (b < 0 <=> p.base_frequency > q.base_frequency)
        /\ b = 0 <=> p.base_frequency = q.base_frequency
        /\ e \in Int /\ (e < 0 <=> p.lexeme_id < q.lexeme_id)
    BY <1>1, <1>2
  <1>4. /\ c \in Int /\ (c < 0 <=> Lower(p.input_code, q.input_code))
        /\ c = 0 <=> p.input_code = q.input_code
        /\ d \in Int /\ (d < 0 <=> Lower(p.text, q.text))
        /\ d = 0 <=> p.text = q.text
    BY <1>1, Comparison
  <1>5. /\ s \in Int
        /\ s < 0 => a < 0 \/ (a = 0 /\ b < 0)
        /\ a < 0 => s < 0
        /\ a = 0 /\ b < 0 => s <= 0
        /\ a = 0 /\ b = 0 => s = 0
    <2>. DEFINE M  == MAX_FREQUENCY_SCORE
                B  == EXACT_MATCH_BONUS
                fp == p.base_frequency
                fq == q.base_frequency
                cp == IF fp > M THEN M ELSE fp
                cq == IF fq > M THEN M ELSE fq
                bp == IF KindOrder(p) = 1 THEN B ELSE 0
                bq == IF KindOrder(q) = 1 THEN B ELSE 0
    <2>1. score(p) = bp + cp + 100 /\ score(q) = bq + cq + 100
      BY DEF score, KindOrder, SystemDictionaryPriority
    <2>2. M \in Nat /\ B \in Nat /\ B > M
      BY SMT DEF MAX_FREQUENCY_SCORE, EXACT_MATCH_BONUS
    <2>3. KindOrder(p) \in {0, 1} /\ KindOrder(q) \in {0, 1}
      BY DEF KindOrder
    <2>4. fp \in Nat /\ fq \in Nat
      BY <1>1
    <2>. HIDE DEF M, B, fp, fq
    <2>5. /\ cp \in Nat /\ cq \in Nat /\ cp <= M /\ cq <= M
          /\ (fp > fq => cp >= cq) /\ (fp = fq => cp = cq) /\ (cp > cq => fp > fq)
      BY <2>2, <2>4, SMT
    <2>6. /\ bp \in {0, B} /\ bq \in {0, B}
          /\ KindOrder(p) > KindOrder(q) <=> bp = B /\ bq = 0
          /\ KindOrder(p) < KindOrder(q) <=> bp = 0 /\ bq = B
      BY <2>2, <2>3, SMT
    <2>7. b = fq - fp /\ (b < 0 <=> fp > fq) /\ (b = 0 <=> fp = fq)
      BY <2>4, SMT DEF fp, fq
    <2>8. s = (bq + cq + 100) - (bp + cp + 100)
      BY <2>1
    <2>9. /\ a < 0 <=> bp = B /\ bq = 0
          /\ a = 0 <=> bp = bq
          /\ a > 0 <=> bp = 0 /\ bq = B
      BY <2>2, <2>3, <2>6, SMT
    <2>. HIDE DEF a, b, s, cp, cq, bp, bq
    <2>. QED
      BY <2>2, <2>5, <2>6, <2>7, <2>8, <2>9, SMT
  <1>6. compare_ranked(p, q) <=> IsLess(<<s, a, b, c, d, e>>)
    <2>1. /\ s = Compare(score(q), score(p)) /\ a = Compare(KindOrder(q), KindOrder(p))
          /\ b = Compare(q.base_frequency, p.base_frequency)
          /\ e = Compare(p.lexeme_id, q.lexeme_id)
      BY DEF Compare
    <2>2. c = CompareBytes(p.input_code, q.input_code) /\ d = CompareBytes(p.text, q.text)
      OBVIOUS
    <2>. HIDE DEF s, a, b, c, d, e
    <2>. QED
      BY <2>1, <2>2, SMT DEF compare_ranked
  <1>. HIDE DEF s, a, b, c, d, e
  <1>7. IsLess(<<s, a, b, c, d, e>>)
             <=> s < 0 \/ (s = 0 /\ (a < 0 \/ (a = 0 /\ (b < 0 \/ (b = 0 /\
                   (c < 0 \/ (c = 0 /\ (d < 0 \/ (d = 0 /\ e < 0)))))))))
    BY SixKeys, SMT
  <1>. QED
    BY <1>3, <1>4, <1>5, <1>6, <1>7

\* compare_ranked puts proposals of different texts into one order.
LEMMA RankedOrder ==
    ASSUME NEW p \in Proposal, NEW q \in Proposal, NEW r \in Proposal
    PROVE  /\ ~compare_ranked(p, p)
           /\ compare_ranked(p, q) /\ compare_ranked(q, r) => compare_ranked(p, r)
           /\ p.text # q.text => compare_ranked(p, q) \/ compare_ranked(q, p)
  <1>1. \A e \in Proposal :
           /\ e.input_code \in Bytes /\ e.text \in Bytes
           /\ e.lexeme_id \in Int /\ e.base_frequency \in Int /\ KindOrder(e) \in Int
    BY DEF Proposal, KindOrder
  <1>2. ~Lower(p.input_code, p.input_code) /\ ~Lower(p.text, p.text)
    BY <1>1, LowerDiffers
  <1>3. ~compare_ranked(p, p)
    BY <1>1, <1>2, RankedKeys
  <1>4. /\ Lower(p.input_code, q.input_code) /\ Lower(q.input_code, r.input_code)
             => Lower(p.input_code, r.input_code)
        /\ Lower(p.text, q.text) /\ Lower(q.text, r.text) => Lower(p.text, r.text)
    BY <1>1, LowerTransitive
  <1>5. compare_ranked(p, q) /\ compare_ranked(q, r) => compare_ranked(p, r)
    BY <1>1, <1>4, RankedKeys
  <1>6. /\ Lower(p.input_code, q.input_code) \/ p.input_code = q.input_code
             \/ Lower(q.input_code, p.input_code)
        /\ p.text # q.text => Lower(p.text, q.text) \/ Lower(q.text, p.text)
    BY <1>1, LowerTotal
  <1>7. p.text # q.text => compare_ranked(p, q) \/ compare_ranked(q, p)
    BY <1>1, <1>6, RankedKeys
  <1>. QED
    BY <1>3, <1>5, <1>7

-----------------------------------------------------------------------------
(* The entries of a dictionary in order.                                   *)

Rearrangements(n) ==
    {at \in [1..n -> 1..n] :
        /\ \A i, j \in 1..n : at[i] = at[j] => i = j
        /\ \A k \in 1..n : \E i \in 1..n : at[i] = k}

Sorted(d) == \A i, j \in DOMAIN d : i < j => ~EntryPrecedes(d[j], d[i])

\* The entry at one place stands before that at another, in a stable sort.
StandsBefore(entries, i, j) ==
    \/ EntryPrecedes(entries[i], entries[j])
    \/ i < j /\ ~EntryPrecedes(entries[j], entries[i])

\* With the place to decide between equals, the entries are in one order.
LEMMA StableOrder ==
    ASSUME NEW entries \in Seq(Entry), NEW n, n = Len(entries), NEW R,
           R = {p \in (1..n) \X (1..n) : StandsBefore(entries, p[1], p[2])}
    PROVE  /\ StrictOrder(R, 1..n)
           /\ \A i, j \in 1..n : <<i, j>> \in R <=> StandsBefore(entries, i, j)
  <1>1. \A i \in 1..n : entries[i] \in Entry
    BY ElementOfSeq
  <1>2. \A i, j \in 1..n : <<i, j>> \in R <=> StandsBefore(entries, i, j)
    OBVIOUS
  <1>3. \A i \in 1..n : ~StandsBefore(entries, i, i)
    BY <1>1, EntryOrder DEF StandsBefore
  <1>4. ASSUME NEW i \in 1..n, NEW j \in 1..n, NEW k \in 1..n,
               StandsBefore(entries, i, j), StandsBefore(entries, j, k)
        PROVE  StandsBefore(entries, i, k)
    <2>1. PICK x \in Entry : x = entries[i]
      BY <1>1
    <2>2. PICK y \in Entry : y = entries[j]
      BY <1>1
    <2>3. PICK z \in Entry : z = entries[k]
      BY <1>1
    <2>4. /\ EntryPrecedes(x, y) /\ EntryPrecedes(y, z) => EntryPrecedes(x, z)
          /\ EntryPrecedes(z, x) /\ EntryPrecedes(x, y) => EntryPrecedes(z, y)
          /\ EntryPrecedes(y, z) /\ EntryPrecedes(z, x) => EntryPrecedes(y, x)
          /\ EntryPrecedes(x, y) \/ x = y \/ EntryPrecedes(y, x)
          /\ EntryPrecedes(y, z) \/ y = z \/ EntryPrecedes(z, y)
          /\ EntryPrecedes(x, z) \/ x = z \/ EntryPrecedes(z, x)
          /\ ~EntryPrecedes(x, x) /\ ~EntryPrecedes(y, y) /\ ~EntryPrecedes(z, z)
      BY EntryOrder
    <2>5. i < j /\ j < k => i < k
      OBVIOUS
    <2>. QED
      BY <1>4, <2>1, <2>2, <2>3, <2>4, <2>5 DEF StandsBefore
  <1>5. ASSUME NEW i \in 1..n, NEW j \in 1..n, i # j
        PROVE  StandsBefore(entries, i, j) \/ StandsBefore(entries, j, i)
    BY <1>5 DEF StandsBefore
  <1>. QED
    BY <1>2, <1>3, <1>4, <1>5 DEF StrictOrder

\* A dictionary holds the entries it was given, sorted.
LEMMA DictionarySorts ==
    ASSUME NEW entries \in Seq(Entry)
    PROVE  /\ Dictionary(entries) \in Seq(Entry)
           /\ Len(Dictionary(entries)) = Len(entries)
           /\ Sorted(Dictionary(entries))
           /\ \E at \in Rearrangements(Len(entries)) :
                 \A k \in 1..Len(entries) : Dictionary(entries)[k] = entries[at[k]]
  <1>. DEFINE n == Len(entries)
              R == {p \in (1..n) \X (1..n) : StandsBefore(entries, p[1], p[2])}
              Place(i) == Cardinality({j \in DOMAIN entries :
                              \/ EntryPrecedes(entries[j], entries[i])
                              \/ j <= i /\ ~EntryPrecedes(entries[i], entries[j])})
              at == [k \in 1..n |-> CHOOSE i \in 1..n : Place(i) = k]
              d  == [k \in 1..n |-> entries[at[k]]]
  <1>1. n \in Nat /\ DOMAIN entries = 1..n /\ \A i \in 1..n : entries[i] \in Entry
    BY LenProperties, ElementOfSeq
  <1>2. Dictionary(entries) = d
    BY <1>1 DEF Dictionary
  <1>3. StrictOrder(R, 1..n) /\ \A i, j \in 1..n : <<i, j>> \in R <=> StandsBefore(entries, i, j)
    BY StableOrder
  <1>4. IsFiniteSet(1..n) /\ Cardinality(1..n) = n
    BY <1>1, Positions
  <1>. HIDE DEF R
  <1>5. ASSUME NEW i \in 1..n
        PROVE  Place(i) = RankIn(R, 1..n, i) + 1
    <2>. DEFINE Under == {j \in 1..n : <<j, i>> \in R}
    <2>1. {j \in DOMAIN entries :
              \/ EntryPrecedes(entries[j], entries[i])
              \/ j <= i /\ ~EntryPrecedes(entries[i], entries[j])} = Under \cup {i}
      <3>1. ~EntryPrecedes(entries[i], entries[i])
        BY <1>1, EntryOrder
      <3>2. ASSUME NEW j \in 1..n
            PROVE  j \in Under \/ j = i
                     <=> \/ EntryPrecedes(entries[j], entries[i])
                         \/ j <= i /\ ~EntryPrecedes(entries[i], entries[j])
        <4>1. j <= i <=> j < i \/ j = i
          OBVIOUS
        <4>. QED
          BY <1>3, <3>1, <4>1 DEF StandsBefore
      <3>. QED
        BY <1>1, <3>2
    <2>2. Under \in SUBSET (1..n) /\ i \notin Under
      BY <1>3 DEF StrictOrder
    <2>3. IsFiniteSet(Under)
      BY <1>4, <2>2, FS_Subset
    <2>4. Cardinality(Under \cup {i}) = Cardinality(Under) + 1
      BY <2>2, <2>3, FS_AddElement
    <2>. QED
      BY <2>1, <2>4 DEF RankIn
  <1>6. /\ \A i \in 1..n : RankIn(R, 1..n, i) \in 0..(n - 1)
        /\ \A i, j \in 1..n : <<i, j>> \in R <=> RankIn(R, 1..n, i) < RankIn(R, 1..n, j)
        /\ \A i, j \in 1..n : RankIn(R, 1..n, i) = RankIn(R, 1..n, j) => i = j
        /\ \A k \in 0..(n - 1) : \E i \in 1..n : RankIn(R, 1..n, i) = k
    BY <1>3, <1>4, Ranks, SMTT(40)
  <1>. HIDE DEF Place
  <1>7. ASSUME NEW k \in 1..n
        PROVE  at[k] \in 1..n /\ RankIn(R, 1..n, at[k]) = k - 1
    <2>1. k - 1 \in 0..(n - 1)
      BY <1>1
    <2>2. PICK i \in 1..n : RankIn(R, 1..n, i) = k - 1
      BY <1>6, <2>1
    <2>3. Place(i) = k
      BY <1>5, <2>2
    <2>4. at[k] \in 1..n /\ Place(at[k]) = k
      BY <2>3
    <2>5. RankIn(R, 1..n, at[k]) \in Int /\ RankIn(R, 1..n, at[k]) + 1 = k
      BY <1>5, <1>6, <2>4
    <2>. QED
      BY <2>4, <2>5
  <1>8. at \in [1..n -> 1..n]
    BY <1>7
  <1>. HIDE DEF at
  <1>9. at \in Rearrangements(n)
    <2>1. ASSUME NEW i \in 1..n, NEW j \in 1..n, at[i] = at[j]
          PROVE  i = j
      <3>1. i - 1 = j - 1
        BY <1>7, <2>1
      <3>. QED
        BY <3>1
    <2>2. ASSUME NEW k \in 1..n
          PROVE  \E i \in 1..n : at[i] = k
      <3>1. PICK r \in 0..(n - 1) : r = RankIn(R, 1..n, k)
        BY <1>6
      <3>2. r + 1 \in 1..n /\ (r + 1) - 1 = r
        BY <1>1
      <3>3. at[r + 1] \in 1..n /\ RankIn(R, 1..n, at[r + 1]) = r
        BY <1>7, <3>2
      <3>. QED
        BY <1>6, <3>1, <3>2, <3>3
    <2>. QED
      BY <1>8, <2>1, <2>2 DEF Rearrangements
  <1>10. d \in Seq(Entry) /\ Len(d) = n /\ \A k \in 1..n : d[k] = entries[at[k]]
    <2>1. \A k \in 1..n : entries[at[k]] \in Entry
      BY <1>1, <1>7
    <2>. QED
      BY <1>1, <2>1, IsASeq
  <1>11. Sorted(d)
    <2>1. DOMAIN d = 1..n
      OBVIOUS
    <2>2. ASSUME NEW i \in 1..n, NEW j \in 1..n, i < j
          PROVE  ~EntryPrecedes(d[j], d[i])
      <3>1. RankIn(R, 1..n, at[i]) < RankIn(R, 1..n, at[j])
        BY <1>7, <2>2
      <3>2. StandsBefore(entries, at[i], at[j])
        BY <1>3, <1>6, <1>7, <3>1
      <3>3. entries[at[i]] \in Entry /\ entries[at[j]] \in Entry
        BY <1>1, <1>7
      <3>. QED
        BY <1>10, <3>2, <3>3, EntryOrder DEF StandsBefore
    <2>. QED
      BY <2>1, <2>2 DEF Sorted
  <1>. QED
    BY <1>2, <1>9, <1>10, <1>11

\* Of two sorted arrangements of the same entries, none is ahead at any place.
LEMMA NeitherAhead ==
    ASSUME NEW d \in Seq(Entry), NEW e \in Seq(Entry), NEW n, n = Len(d), n = Len(e),
           Sorted(d), Sorted(e), NEW g \in Rearrangements(n),
           \A k \in 1..n : e[k] = d[g[k]], NEW k \in 1..n
    PROVE  ~EntryPrecedes(e[k], d[k])
  <1>. SUFFICES ASSUME EntryPrecedes(e[k], d[k]) PROVE FALSE
    OBVIOUS
  <1>1. /\ n \in Nat /\ DOMAIN d = 1..n /\ DOMAIN e = 1..n
        /\ \A i \in 1..n : d[i] \in Entry /\ e[i] \in Entry
    BY LenProperties, ElementOfSeq
  <1>2. \A i \in 1..n : g[i] \in 1..n
    BY DEF Rearrangements
  <1>3. ASSUME NEW i \in 1..k
        PROVE  i \in 1..n /\ g[i] \in 1..(k - 1)
    <2>1. i \in 1..n /\ (i < k \/ i = k)
      BY <1>1
    <2>2. ~EntryPrecedes(e[k], e[i])
      BY <1>1, <2>1, EntryOrder DEF Sorted
    <2>3. EntryPrecedes(e[i], d[k])
      BY <1>1, <2>1, <2>2, EntryOrder
    <2>4. EntryPrecedes(d[g[i]], d[k])
      BY <2>1, <2>3
    <2>5. g[i] \in 1..n /\ g[i] # k /\ ~(k < g[i])
      BY <1>1, <1>2, <2>1, <2>4, EntryOrder DEF Sorted
    <2>. QED
      BY <1>1, <2>1, <2>5
  <1>. DEFINE S == 1..k
              T == 1..(k - 1)
              f == [i \in S |-> g[i]]
  <1>4. f \in [S -> T]
    BY <1>3
  <1>5. IsFiniteSet(S) /\ IsFiniteSet(T) /\ Cardinality(T) < Cardinality(S)
    <2>1. k \in Nat /\ k - 1 \in Nat
      BY <1>1
    <2>. QED
      BY <2>1, Positions
  <1>6. \E x, y \in S : x # y /\ f[x] = f[y]
    <2>. HIDE DEF S, T, f
    <2>. QED
      BY <1>4, <1>5, FS_PigeonHole
  <1>7. PICK x \in 1..k, y \in 1..k : x # y /\ g[x] = g[y]
    BY <1>6
  <1>. QED
    BY <1>3, <1>7 DEF Rearrangements

\* The order in which a dictionary is given its entries does not show.
LEMMA OrderHidden ==
    ASSUME NEW entries \in Seq(Entry), NEW others \in Seq(Entry), NEW n,
           n = Len(entries), n = Len(others), NEW f \in Rearrangements(n),
           \A k \in 1..n : others[k] = entries[f[k]]
    PROVE  Dictionary(others) = Dictionary(entries)
  <1>1. PICK d, e : d = Dictionary(entries) /\ e = Dictionary(others)
    OBVIOUS
  <1>2. /\ d \in Seq(Entry) /\ Len(d) = n /\ Sorted(d)
        /\ e \in Seq(Entry) /\ Len(e) = n /\ Sorted(e)
        /\ \E at \in Rearrangements(n) : \A k \in 1..n : d[k] = entries[at[k]]
        /\ \E at \in Rearrangements(n) : \A k \in 1..n : e[k] = others[at[k]]
    <2>1. /\ d \in Seq(Entry) /\ Len(d) = n /\ Sorted(d)
          /\ \E at \in Rearrangements(n) : \A k \in 1..n : d[k] = entries[at[k]]
      <3>1. d \in Seq(Entry) /\ Len(d) = n /\ Sorted(d)
        BY <1>1, DictionarySorts
      <3>2. PICK at \in Rearrangements(Len(entries)) :
                   \A k \in 1..Len(entries) : Dictionary(entries)[k] = entries[at[k]]
        BY DictionarySorts, Zenon
      <3>3. at \in Rearrangements(n) /\ \A k \in 1..n : d[k] = entries[at[k]]
        BY <1>1, <3>2
      <3>. QED
        BY <3>1, <3>3, Zenon
    <2>2. /\ e \in Seq(Entry) /\ Len(e) = n /\ Sorted(e)
          /\ \E at \in Rearrangements(n) : \A k \in 1..n : e[k] = others[at[k]]
      <3>1. e \in Seq(Entry) /\ Len(e) = n /\ Sorted(e)
        BY <1>1, DictionarySorts
      <3>2. PICK at \in Rearrangements(Len(others)) :
                   \A k \in 1..Len(others) : Dictionary(others)[k] = others[at[k]]
        BY DictionarySorts, Zenon
      <3>3. at \in Rearrangements(n) /\ \A k \in 1..n : e[k] = others[at[k]]
        BY <1>1, <3>2
      <3>. QED
        BY <3>1, <3>3, Zenon
    <2>. QED
      BY <2>1, <2>2
  <1>3. PICK a \in Rearrangements(n), b \in Rearrangements(n) :
               \A k \in 1..n : d[k] = entries[a[k]] /\ e[k] = others[b[k]]
    <2>1. PICK a \in Rearrangements(n) : \A k \in 1..n : d[k] = entries[a[k]]
      BY <1>2, Zenon
    <2>2. PICK b \in Rearrangements(n) : \A k \in 1..n : e[k] = others[b[k]]
      BY <1>2, Zenon
    <2>. QED
      BY <2>1, <2>2, ZenonT(40)
  <1>4. /\ \A k \in 1..n : f[k] \in 1..n /\ a[k] \in 1..n /\ b[k] \in 1..n
        /\ \A k \in 1..n : \E i \in 1..n : a[i] = k
        /\ \A k \in 1..n : \E i \in 1..n : b[i] = k
        /\ \A k \in 1..n : \E i \in 1..n : f[i] = k
        /\ \A i, j \in 1..n : a[i] = a[j] => i = j
        /\ \A i, j \in 1..n : b[i] = b[j] => i = j
        /\ \A i, j \in 1..n : f[i] = f[j] => i = j
    BY DEF Rearrangements
  <1>5. \A k \in 1..n : e[k] = entries[f[b[k]]]
    BY <1>3, <1>4
  <1>. DEFINE g == [k \in 1..n |-> CHOOSE i \in 1..n : a[i] = f[b[k]]]
              h == [k \in 1..n |-> CHOOSE i \in 1..n : f[b[i]] = a[k]]
  <1>6. \A k \in 1..n : g[k] \in 1..n /\ a[g[k]] = f[b[k]]
    BY <1>4
  <1>7. \A k \in 1..n : h[k] \in 1..n /\ f[b[h[k]]] = a[k]
    <2>. SUFFICES ASSUME NEW k \in 1..n
                  PROVE  \E i \in 1..n : f[b[i]] = a[k]
      OBVIOUS
    <2>1. PICK j \in 1..n : f[j] = a[k]
      BY <1>4
    <2>2. PICK i \in 1..n : b[i] = j
      BY <1>4
    <2>. QED
      BY <2>1, <2>2
  <1>8. g \in [1..n -> 1..n] /\ h \in [1..n -> 1..n]
    BY <1>6, <1>7
  <1>. HIDE DEF g, h
  <1>9. g \in Rearrangements(n)
    <2>1. ASSUME NEW i \in 1..n, NEW j \in 1..n, g[i] = g[j]
          PROVE  i = j
      <3>1. f[b[i]] = f[b[j]]
        BY <1>6, <2>1
      <3>2. b[i] = b[j]
        <4>1. PICK x \in 1..n, y \in 1..n : x = b[i] /\ y = b[j]
          BY <1>4
        <4>2. f[x] = f[y]
          BY <3>1, <4>1
        <4>3. \A u, v \in 1..n : f[u] = f[v] => u = v
          BY <1>4
        <4>. QED
          BY <4>1, <4>2, <4>3
      <3>. QED
        BY <1>4, <3>2
    <2>2. ASSUME NEW k \in 1..n
          PROVE  g[h[k]] = k
      <3>1. h[k] \in 1..n /\ f[b[h[k]]] = a[k]
        BY <1>7
      <3>2. g[h[k]] \in 1..n /\ a[g[h[k]]] = a[k]
        BY <1>6, <3>1
      <3>. QED
        BY <1>4, <3>2, Zenon
    <2>. QED
      BY <1>7, <1>8, <2>1, <2>2 DEF Rearrangements
  <1>10. h \in Rearrangements(n)
    <2>1. ASSUME NEW i \in 1..n, NEW j \in 1..n, h[i] = h[j]
          PROVE  i = j
      <3>1. a[i] = a[j]
        BY <1>7, <2>1
      <3>. QED
        BY <1>4, <3>1
    <2>2. ASSUME NEW k \in 1..n
          PROVE  h[g[k]] = k
      <3>0. g[k] \in 1..n /\ h[g[k]] \in 1..n
        BY <1>6, <1>7
      <3>1. f[b[h[g[k]]]] = f[b[k]]
        BY <1>6, <1>7, <3>0
      <3>2. b[h[g[k]]] = b[k]
        <4>1. PICK x \in 1..n, y \in 1..n : x = b[h[g[k]]] /\ y = b[k]
          BY <1>4, <3>0
        <4>2. f[x] = f[y]
          BY <3>1, <4>1
        <4>3. \A u, v \in 1..n : f[u] = f[v] => u = v
          BY <1>4
        <4>. QED
          BY <4>1, <4>2, <4>3
      <3>. QED
        BY <1>4, <1>6, <1>7, <3>2, ZenonT(40)
    <2>. QED
      BY <1>6, <1>8, <2>1, <2>2 DEF Rearrangements
  <1>11. \A k \in 1..n : e[k] = d[g[k]] /\ d[k] = e[h[k]]
    <2>. SUFFICES ASSUME NEW k \in 1..n
                  PROVE  e[k] = d[g[k]] /\ d[k] = e[h[k]]
      OBVIOUS
    <2>1. g[k] \in 1..n /\ a[g[k]] = f[b[k]] /\ h[k] \in 1..n /\ f[b[h[k]]] = a[k]
      BY <1>6, <1>7
    <2>2. d[g[k]] = entries[a[g[k]]] /\ d[k] = entries[a[k]]
      BY <1>3, <2>1
    <2>3. e[k] = entries[f[b[k]]] /\ e[h[k]] = entries[f[b[h[k]]]]
      BY <1>5, <2>1
    <2>. QED
      BY <2>1, <2>2, <2>3
  <1>12. \A k \in 1..n : e[k] = d[k]
    <2>. SUFFICES ASSUME NEW k \in 1..n PROVE e[k] = d[k]
      OBVIOUS
    <2>1. ~EntryPrecedes(e[k], d[k])
      BY <1>2, <1>9, <1>11, NeitherAhead
    <2>2. ~EntryPrecedes(d[k], e[k])
      BY <1>2, <1>10, <1>11, NeitherAhead
    <2>3. e[k] \in Entry /\ d[k] \in Entry
      BY <1>2, ElementOfSeq
    <2>. QED
      BY <2>1, <2>2, <2>3, EntryOrder
  <1>13. e = d
    BY <1>2, <1>12, SeqEqual
  <1>. QED
    BY <1>1, <1>13

-----------------------------------------------------------------------------
(* The lookups.                                                            *)

\* Which entries match.
Hits(entries, code) == {i \in DOMAIN entries : IsPrefix(code, entries[i].input_code)}

\* After the first b entries of a dictionary come x of one code, the first of m that it
\* begins.
Laid(d, code, b, x, m) ==
    /\ x <= m /\ b + m <= Len(d)
    /\ \A i \in 1..Len(d) : d[i].input_code = code <=> i \in (b + 1)..(b + x)
    /\ \A i \in 1..Len(d) : IsPrefix(code, d[i].input_code) <=> i \in (b + 1)..(b + m)

\* In a sorted dictionary the lower codes come first, then the code itself, then the
\* longer codes it begins.
LEMMA Ranges ==
    ASSUME NEW d \in Seq(Entry), Sorted(d), NEW code \in Bytes, NEW n, n = Len(d)
    PROVE  /\ Below(d, code) \in 0..n
           /\ \A i, j \in 1..n : i < j => ~Lower(d[j].input_code, d[i].input_code)
           /\ \E x \in Nat, m \in Nat :
                 /\ Laid(d, code, Below(d, code), x, m)
                 /\ Cardinality({i \in DOMAIN d : d[i].input_code = code}) = x
                 /\ Cardinality({i \in DOMAIN d :
                                    /\ i > Below(d, code)
                                    /\ \A j \in (Below(d, code) + 1)..i :
                                          IsPrefix(code, d[j].input_code)}) = m
  <1>. DEFINE c(i) == d[i].input_code
              B == {i \in 1..n : Lower(c(i), code)}
              X == {i \in 1..n : ~Lower(code, c(i))}
              M == {i \in 1..n : Lower(c(i), code) \/ IsPrefix(code, c(i))}
              b == Cardinality(B)
              x == Cardinality(X) - b
              m == Cardinality(M) - b
  <1>1. n \in Nat /\ DOMAIN d = 1..n /\ \A i \in 1..n : d[i] \in Entry /\ c(i) \in Bytes
    <2>1. n \in Nat /\ DOMAIN d = 1..n /\ \A i \in 1..n : d[i] \in Entry
      BY LenProperties, ElementOfSeq
    <2>2. \A e \in Entry : e.input_code \in Bytes
      BY DEF Entry
    <2>. QED
      BY <2>1, <2>2
  <1>2. Below(d, code) = b
    <2>1. {i \in DOMAIN d : CompareBytes(d[i].input_code, code) < 0} = B
      BY <1>1, Comparison
    <2>. QED
      BY <2>1 DEF Below
  <1>3. \A i, j \in 1..n : i < j => ~Lower(c(j), c(i))
    BY <1>1, EntryKeys DEF Sorted
  <1>. HIDE DEF c
  <1>4. \A i, j \in 1..n : i <= j => c(i) = c(j) \/ Lower(c(i), c(j))
    <2>1. \A i, j \in 1..n : i <= j => i = j \/ i < j
      OBVIOUS
    <2>. QED
      BY <1>1, <1>3, <2>1, LowerTotal
  <1>5. b \in 0..n /\ B = 1..b
    <2>1. \A i \in 1..n, j \in B : i <= j => i \in B
      BY <1>1, <1>4, LowerTransitive
    <2>2. B \in SUBSET (1..n)
      OBVIOUS
    <2>. HIDE DEF B
    <2>. QED
      BY <1>1, <2>1, <2>2, InitialSegment
  <1>6. Cardinality(X) \in 0..n /\ X = 1..Cardinality(X)
    <2>1. \A i \in 1..n, j \in X : i <= j => i \in X
      BY <1>1, <1>4, LowerTransitive
    <2>2. X \in SUBSET (1..n)
      OBVIOUS
    <2>. HIDE DEF X
    <2>. QED
      BY <1>1, <2>1, <2>2, InitialSegment
  <1>7. Cardinality(M) \in 0..n /\ M = 1..Cardinality(M)
    <2>1. ASSUME NEW i \in 1..n, NEW j \in M, i <= j
          PROVE  i \in M
      <3>1. c(i) = c(j) \/ Lower(c(i), c(j))
        BY <1>4, <2>1
      <3>2. ~Lower(c(j), c(i))
        BY <1>1, <3>1, LowerDiffers, LowerOneWay
      <3>3. CASE Lower(c(j), code)
        BY <1>1, <3>1, <3>3, LowerTransitive
      <3>4. CASE IsPrefix(code, c(j)) /\ ~Lower(c(i), code)
        BY <1>1, <3>2, <3>4, BetweenPrefixes
      <3>. QED
        BY <2>1, <3>3, <3>4
    <2>2. M \in SUBSET (1..n)
      OBVIOUS
    <2>. HIDE DEF M
    <2>. QED
      BY <1>1, <2>1, <2>2, InitialSegment
  <1>8. B \in SUBSET X /\ X \in SUBSET M
    <2>1. \A i \in 1..n : ~(Lower(c(i), code) /\ Lower(code, c(i)))
      BY <1>1, LowerOneWay
    <2>2. \A i \in 1..n : Lower(code, c(i)) \/ Lower(c(i), code) \/ c(i) = code
      BY <1>1, LowerTotal
    <2>3. IsPrefix(code, code)
      BY PrefixFacts, BytesFacts
    <2>. QED
      BY <2>1, <2>2, <2>3
  <1>9. x \in Nat /\ m \in Nat /\ x <= m /\ b + m <= n
    <2>1. ASSUME NEW k \in Nat, NEW l \in Nat, 1..k \in SUBSET (1..l)
          PROVE  k <= l
      <3>1. k = 0 \/ k \in 1..k
        OBVIOUS
      <3>. QED
        BY <2>1, <3>1
    <2>2. b <= Cardinality(X) /\ Cardinality(X) <= Cardinality(M)
      <3>. DEFINE u == Cardinality(X)
                  v == Cardinality(M)
      <3>1. b \in Nat /\ u \in Nat /\ v \in Nat
        BY <1>1, <1>5, <1>6, <1>7
      <3>2. 1..b \in SUBSET (1..u) /\ 1..u \in SUBSET (1..v)
        BY <1>5, <1>6, <1>7, <1>8, Zenon
      <3>. HIDE DEF B, X, M, b, u, v
      <3>3. b <= u /\ u <= v
        BY <2>1, <3>1, <3>2
      <3>. QED
        BY <3>3 DEF u, v
    <2>. HIDE DEF b
    <2>. QED
      BY <1>1, <1>5, <1>6, <1>7, <2>2
  <1>10. ASSUME NEW i \in 1..n
         PROVE  c(i) = code <=> i \in (b + 1)..(b + x)
    <2>1. c(i) = code <=> i \in X /\ i \notin B
      BY <1>1, LowerTotal, LowerDiffers
    <2>. HIDE DEF B, X
    <2>. QED
      BY <1>1, <1>5, <1>6, <2>1
  <1>11. ASSUME NEW i \in 1..n
         PROVE  IsPrefix(code, c(i)) <=> i \in (b + 1)..(b + m)
    <2>1. IsPrefix(code, c(i)) <=> i \in M /\ i \notin B
      BY <1>1, PrefixNotHigher
    <2>. HIDE DEF B, M
    <2>. QED
      BY <1>1, <1>5, <1>7, <2>1
  <1>. HIDE DEF x, m, b
  <1>12. ASSUME NEW k \in Nat
         PROVE  Cardinality((b + 1)..(b + k)) = k
    BY <1>1, <1>5, FS_Interval
  <1>13. Cardinality({i \in DOMAIN d : c(i) = code}) = x
    <2>1. {i \in DOMAIN d : c(i) = code} = (b + 1)..(b + x)
      BY <1>1, <1>5, <1>9, <1>10
    <2>. QED
      BY <1>9, <1>12, <2>1
  <1>14. Cardinality({i \in DOMAIN d :
                         i > b /\ \A j \in (b + 1)..i : IsPrefix(code, c(j))}) = m
    <2>1. {i \in DOMAIN d : i > b /\ \A j \in (b + 1)..i : IsPrefix(code, c(j))}
            = (b + 1)..(b + m)
      <3>1. ASSUME NEW i \in 1..n
            PROVE  (i > b /\ \A j \in (b + 1)..i : IsPrefix(code, c(j)))
                      <=> i \in (b + 1)..(b + m)
        <4>1. ASSUME i > b, \A j \in (b + 1)..i : IsPrefix(code, c(j))
              PROVE  i \in (b + 1)..(b + m)
          <5>1. i \in (b + 1)..i
            BY <1>1, <1>5, <4>1
          <5>. QED
            BY <1>11, <4>1, <5>1
        <4>2. ASSUME i \in (b + 1)..(b + m), NEW j \in (b + 1)..i
              PROVE  IsPrefix(code, c(j))
          <5>1. j \in 1..n /\ j \in (b + 1)..(b + m)
            BY <1>1, <1>5, <1>9, <4>2
          <5>. QED
            BY <1>11, <5>1
        <4>3. i \in (b + 1)..(b + m) => i > b
          BY <1>1, <1>5
        <4>. QED
          BY <4>1, <4>2, <4>3
      <3>2. (b + 1)..(b + m) \in SUBSET (1..n)
        BY <1>1, <1>5, <1>9
      <3>. QED
        BY <1>1, <3>1, <3>2
    <2>. QED
      BY <1>9, <1>12, <2>1
  <1>15. Laid(d, code, b, x, m)
    BY <1>9, <1>10, <1>11 DEF c, Laid
  <1>. QED
    BY <1>1, <1>2, <1>3, <1>5, <1>9, <1>13, <1>14, <1>15 DEF c

\* A piece of a dictionary.
LEMMA Piece ==
    ASSUME NEW d \in Seq(Entry), NEW b \in Nat, NEW k \in Nat, b + k <= Len(d)
    PROVE  /\ SubSeq(d, b + 1, b + k) \in Seq(Entry)
           /\ Len(SubSeq(d, b + 1, b + k)) = k
           /\ \A i \in 1..k : SubSeq(d, b + 1, b + k)[i] = d[b + i]
  <1>. DEFINE m == b + 1
              n == b + k
  <1>1. m \in Int /\ n \in Int
    OBVIOUS
  <1>2. \A i \in m..n : d[i] \in Entry
    <2>1. \A i \in m..n : i \in 1..Len(d)
      BY LenProperties
    <2>2. \A i \in 1..Len(d) : d[i] \in Entry
      BY ElementOfSeq
    <2>. QED
      BY <2>1, <2>2, Zenon
  <1>3. /\ (IF m <= n THEN n - m + 1 ELSE 0) = k /\ n - m + 1 = k
        /\ \A i \in 1..k : m + i - 1 = b + i
    OBVIOUS
  <1>. HIDE DEF m, n
  <1>4. /\ SubSeq(d, m, n) \in Seq(Entry)
        /\ Len(SubSeq(d, m, n)) = IF m <= n THEN n - m + 1 ELSE 0
        /\ \A i \in 1..(n - m + 1) : SubSeq(d, m, n)[i] = d[m + i - 1]
    BY <1>1, <1>2, SubSeqProperties
  <1>. QED
    BY <1>3, <1>4 DEF m, n

\* What the lookups of a code cut out of the dictionary.
CutOut(entries, code, d, b, x, m) ==
    \A limit \in Nat :
        /\ lookup_prefix(entries, code, limit) = SubSeq(d, b + 1, b + Smaller(m, limit))
        /\ lookup_exact(entries, code, limit) = SubSeq(d, b + 1, b + Smaller(x, limit))

\* Both lookups take their piece of the sorted entries.
LEMMA Layout ==
    ASSUME NEW entries \in Seq(Entry), NEW code \in Bytes, code # <<>>,
           NEW d, d = Dictionary(entries)
    PROVE  \E b \in Nat, x \in Nat, m \in Nat :
              Laid(d, code, b, x, m) /\ CutOut(entries, code, d, b, x, m)
  <1>1. d \in Seq(Entry) /\ Sorted(d) /\ Len(d) \in Nat
    BY DictionarySorts, LenProperties
  <1>. DEFINE X    == {i \in DOMAIN d : d[i].input_code = code}
              M(c) == {i \in DOMAIN d :
                          /\ i > c
                          /\ \A j \in (c + 1)..i : IsPrefix(code, d[j].input_code)}
  <1>2. PICK b \in Nat : b = Below(d, code)
    BY <1>1, Ranges
  <1>3. \E x \in Nat, m \in Nat :
           /\ Laid(d, code, Below(d, code), x, m)
           /\ Cardinality(X) = x /\ Cardinality(M(Below(d, code))) = m
    BY <1>1, Ranges
  <1>4. PICK x \in Nat, m \in Nat :
           Laid(d, code, b, x, m) /\ Cardinality(X) = x /\ Cardinality(M(b)) = m
    <2>. HIDE DEF X, M
    <2>. QED
      BY <1>2, <1>3
  <1>5. ASSUME NEW limit \in Nat
        PROVE  /\ lookup_prefix(entries, code, limit)
                    = SubSeq(d, b + 1, b + Smaller(m, limit))
               /\ lookup_exact(entries, code, limit)
                    = SubSeq(d, b + 1, b + Smaller(x, limit))
    <2>1. lookup_prefix(entries, code, limit)
            = SubSeq(d, b + 1, b + Smaller(Cardinality(M(b)), limit))
      BY <1>2 DEF lookup_prefix
    <2>2. lookup_exact(entries, code, limit)
            = SubSeq(d, b + 1, b + Smaller(Cardinality(X), limit))
      BY <1>2 DEF lookup_exact
    <2>. HIDE DEF M, X
    <2>. QED
      BY <1>4, <2>1, <2>2
  <1>. QED
    BY <1>4, <1>5, ZenonT(40) DEF CutOut

\* What lookup_prefix finds: as many matches as the limit allows, in the order of
\* their codes, so that a match is left out only behind others, and an entry of the very
\* code only behind such entries.
LooksUp(entries, code, limit, found) ==
    LET hits == Hits(entries, code)
    IN  /\ found \in Seq(Entry)
        /\ IsFiniteSet(hits) /\ Cardinality(hits) \in Nat
        /\ Len(found) = Smaller(Cardinality(hits), limit)
        /\ \A i \in 1..Len(found) : \E h \in hits : found[i] = entries[h]
        /\ \A i, j \in 1..Len(found) :
              i < j => ~Lower(found[j].input_code, found[i].input_code)
        /\ Cardinality(hits) <= limit =>
              \A h \in hits : \E i \in 1..Len(found) : found[i] = entries[h]
        /\ \A h \in hits : entries[h].input_code = code =>
              \/ \E i \in 1..Len(found) : found[i] = entries[h]
              \/ /\ Len(found) = limit
                 /\ \A i \in 1..Len(found) : found[i].input_code = code

\* LooksUp is what lookup_prefix does.
LEMMA PrefixLookup ==
    ASSUME NEW entries \in Seq(Entry), NEW code \in Bytes, code # <<>>, NEW limit \in Nat,
           NEW found, found = lookup_prefix(entries, code, limit)
    PROVE  LooksUp(entries, code, limit, found)
  <1>0. PICK hits : hits = Hits(entries, code)
    OBVIOUS
  <1>1. PICK n, d : n = Len(entries) /\ d = Dictionary(entries)
    OBVIOUS
  <1>2. /\ n \in Nat /\ DOMAIN entries = 1..n
        /\ d \in Seq(Entry) /\ Len(d) = n /\ DOMAIN d = 1..n /\ Sorted(d)
    <2>1. /\ n \in Nat /\ DOMAIN entries = 1..n
          /\ d \in Seq(Entry) /\ Len(d) = n /\ Sorted(d)
      BY <1>1, DictionarySorts, LenProperties
    <2>. QED
      BY <2>1, LenProperties
  <1>3. PICK at \in Rearrangements(n) : \A k \in 1..n : d[k] = entries[at[k]]
    <2>1. PICK at \in Rearrangements(Len(entries)) :
                 \A k \in 1..Len(entries) : Dictionary(entries)[k] = entries[at[k]]
      BY DictionarySorts, Zenon
    <2>2. at \in Rearrangements(n) /\ \A k \in 1..n : d[k] = entries[at[k]]
      BY <1>1, <2>1
    <2>. QED
      BY <2>2, Zenon
  <1>4. /\ \A k \in 1..n : at[k] \in 1..n
        /\ \A i, j \in 1..n : at[i] = at[j] => i = j
        /\ \A k \in 1..n : \E i \in 1..n : at[i] = k
    BY DEF Rearrangements
  <1>5. PICK b \in Nat, x \in Nat, m \in Nat :
           Laid(d, code, b, x, m) /\ CutOut(entries, code, d, b, x, m)
    BY <1>1, Layout
  <1>6. /\ x <= m /\ b + m <= n
        /\ \A i \in 1..n : d[i].input_code = code <=> i \in (b + 1)..(b + x)
        /\ \A i \in 1..n : IsPrefix(code, d[i].input_code) <=> i \in (b + 1)..(b + m)
    BY <1>2, <1>5 DEF Laid
  <1>7. PICK k \in Nat : k = Smaller(m, limit) /\ k <= m /\ b + k <= n
    BY <1>2, <1>5, <1>6 DEF Smaller
  <1>8. found = SubSeq(d, b + 1, b + k)
    BY <1>5, <1>7 DEF CutOut
  <1>9. found \in Seq(Entry) /\ Len(found) = k /\ \A i \in 1..k : found[i] = d[b + i]
    <2>1. b \in Nat /\ b + k <= Len(d)
      BY <1>2, <1>5, <1>7
    <2>2. d \in Seq(Entry) /\ k \in Nat
      BY <1>2, <1>7
    <2>3. /\ SubSeq(d, b + 1, b + k) \in Seq(Entry)
          /\ Len(SubSeq(d, b + 1, b + k)) = k
          /\ \A i \in 1..k : SubSeq(d, b + 1, b + k)[i] = d[b + i]
      BY <2>1, <2>2, Piece, Zenon
    <2>. QED
      BY <1>8, <2>3, Zenon
  <1>10. \A i \in 1..n : i \in (b + 1)..(b + m) <=> at[i] \in hits
    <2>1. \A h \in 1..n : h \in hits <=> IsPrefix(code, entries[h].input_code)
      BY <1>0, <1>2 DEF Hits
    <2>. QED
      BY <1>3, <1>4, <1>6, <2>1
  <1>11. IsFiniteSet(hits) /\ Cardinality(hits) = m
    <2>. DEFINE S == (b + 1)..(b + m)
                f == [i \in S |-> at[i]]
    <2>1. IsFiniteSet(S) /\ Cardinality(S) = m
      <3>1. b + 1 \in Int /\ b + m \in Int /\ (IF b + 1 > b + m THEN 0 ELSE b + m - (b + 1) + 1) = m
        BY <1>5, <1>6
      <3>. QED
        BY <3>1, FS_Interval
    <2>2. \A i \in S : i \in 1..n
      BY <1>2, <1>5, <1>6
    <2>3. f \in [S -> hits]
      BY <1>10, <2>2
    <2>4. \A i, j \in S : f[i] = f[j] => i = j
      BY <1>4, <2>2
    <2>5. \A h \in hits : \E i \in S : f[i] = h
      <3>. SUFFICES ASSUME NEW h \in hits PROVE \E i \in S : f[i] = h
        OBVIOUS
      <3>1. h \in 1..n
        BY <1>0, <1>2 DEF Hits
      <3>2. PICK i \in 1..n : at[i] = h
        BY <1>4, <3>1
      <3>3. i \in S
        BY <1>10, <3>2
      <3>. QED
        BY <3>2, <3>3
    <2>. HIDE DEF S, f
    <2>6. f \in Bijection(S, hits)
      BY <2>3, <2>4, <2>5 DEF Bijection, Injection, Surjection, IsInjective
    <2>. QED
      BY <2>1, <2>6, FS_Bijection DEF ExistsBijection
  <1>12. \A i \in 1..k : /\ b + i \in 1..n /\ at[b + i] \in hits
                          /\ found[i] = entries[at[b + i]]
    <2>. SUFFICES ASSUME NEW i \in 1..k
                  PROVE  /\ b + i \in 1..n /\ at[b + i] \in hits
                         /\ found[i] = entries[at[b + i]]
      OBVIOUS
    <2>1. b + i \in 1..n /\ b + i \in (b + 1)..(b + m)
      BY <1>2, <1>5, <1>6, <1>7
    <2>2. found[i] = d[b + i]
      BY <1>9
    <2>. QED
      BY <1>3, <1>10, <2>1, <2>2
  <1>13. \A i, j \in 1..k : i < j => ~Lower(found[j].input_code, found[i].input_code)
    <2>. SUFFICES ASSUME NEW i \in 1..k, NEW j \in 1..k, i < j
                  PROVE  ~Lower(found[j].input_code, found[i].input_code)
      OBVIOUS
    <2>1. b + i \in 1..n /\ b + j \in 1..n /\ b + i < b + j
      BY <1>2, <1>5, <1>7
    <2>2. \A u, v \in 1..n : u < v => ~Lower(d[v].input_code, d[u].input_code)
      BY <1>2, Ranges
    <2>3. ~Lower(d[b + j].input_code, d[b + i].input_code)
      BY <2>1, <2>2
    <2>4. found[i] = d[b + i] /\ found[j] = d[b + j]
      BY <1>9
    <2>. QED
      BY <2>3, <2>4
  \* Each match is at some place of the range.
  <1>14. ASSUME NEW h \in hits
         PROVE  \E i \in 1..m : b + i \in 1..n /\ d[b + i] = entries[h]
    <2>1. h \in 1..n
      BY <1>0, <1>2 DEF Hits
    <2>2. PICK p \in 1..n : at[p] = h
      BY <1>4, <2>1
    <2>3. p \in (b + 1)..(b + m)
      BY <1>10, <2>2
    <2>4. p - b \in 1..m /\ b + (p - b) = p
      BY <1>5, <1>6, <2>2, <2>3
    <2>5. d[p] = entries[h]
      BY <1>3, <2>2
    <2>. QED
      BY <2>2, <2>4, <2>5
  <1>15. m <= limit => \A h \in hits : \E i \in 1..k : found[i] = entries[h]
    <2>1. m <= limit => k = m
      BY <1>6, <1>7 DEF Smaller
    <2>2. \A i \in 1..k : found[i] = d[b + i]
      BY <1>9
    <2>3. ASSUME m <= limit, NEW h \in hits
          PROVE  \E i \in 1..k : found[i] = entries[h]
      <3>1. PICK i \in 1..m : d[b + i] = entries[h]
        BY <1>14
      <3>2. i \in 1..k
        BY <2>1, <2>3
      <3>. QED
        BY <2>2, <3>1, <3>2
    <2>. QED
      BY <2>3
  <1>16. ASSUME NEW h \in hits, entries[h].input_code = code,
                ~\E i \in 1..k : found[i] = entries[h]
         PROVE  k = limit /\ \A i \in 1..k : found[i].input_code = code
    <2>1. PICK p \in 1..m : b + p \in 1..n /\ d[b + p] = entries[h]
      BY <1>14
    <2>2. p \notin 1..k
      <3>. SUFFICES ASSUME p \in 1..k PROVE FALSE
        OBVIOUS
      <3>1. found[p] = d[b + p]
        BY <1>9
      <3>. QED
        BY <1>16, <2>1, <3>1
    <2>3. k < p /\ k = limit
      BY <1>6, <1>7, <2>1, <2>2 DEF Smaller
    <2>4. b + p \in (b + 1)..(b + x)
      BY <1>6, <1>16, <2>1
    <2>5. ASSUME NEW i \in 1..k
          PROVE  found[i].input_code = code
      <3>1. b + i \in 1..n /\ b + i \in (b + 1)..(b + x)
        BY <1>2, <1>5, <1>6, <1>7, <2>1, <2>3, <2>4
      <3>2. d[b + i].input_code = code
        BY <1>6, <3>1
      <3>. QED
        BY <1>9, <3>2
    <2>. QED
      BY <2>3, <2>5
  <1>. QED
    BY <1>0, <1>6, <1>7, <1>9, <1>11, <1>12, <1>13, <1>15, <1>16 DEF LooksUp

\* Of what lookup_exact and lookup_prefix find under one limit.
LEMMA Agreement ==
    ASSUME NEW entries \in Seq(Entry), NEW code \in Bytes, NEW limit \in Nat,
           NEW exact, exact = lookup_exact(entries, code, limit),
           NEW found, found = lookup_prefix(entries, code, limit)
    PROVE  /\ IsPrefix(exact, found)
           /\ \A i \in DOMAIN found : found[i].input_code = code => i \in DOMAIN exact
  <1>1. CASE code = <<>>
    <2>1. exact = <<>> /\ found = <<>>
      BY <1>1 DEF lookup_exact, lookup_prefix
    <2>. QED
      BY <2>1 DEF IsPrefix
  <1>2. CASE code # <<>>
    <2>1. PICK n, d : n = Len(entries) /\ d = Dictionary(entries)
      OBVIOUS
    <2>2. d \in Seq(Entry) /\ Len(d) = n /\ n \in Nat
      BY <2>1, DictionarySorts
    <2>3. PICK b \in Nat, x \in Nat, m \in Nat :
             Laid(d, code, b, x, m) /\ CutOut(entries, code, d, b, x, m)
      BY <1>2, <2>1, Layout
    <2>4. /\ x <= m /\ b + m <= n
          /\ \A i \in 1..n : d[i].input_code = code <=> i \in (b + 1)..(b + x)
      BY <2>2, <2>3 DEF Laid
    <2>5. PICK j \in Nat, k \in Nat :
               /\ j = Smaller(x, limit) /\ k = Smaller(m, limit)
               /\ j <= x /\ j <= limit /\ j <= k /\ k <= limit
               /\ b + j <= n /\ b + k <= n /\ (j = x \/ j = limit)
      BY <2>2, <2>4 DEF Smaller
    <2>6. exact = SubSeq(d, b + 1, b + j) /\ found = SubSeq(d, b + 1, b + k)
      BY <2>3, <2>5 DEF CutOut
    <2>7. b \in Nat /\ b + j <= Len(d) /\ b + k <= Len(d)
      BY <2>2, <2>4, <2>5
    <2>8. exact \in Seq(Entry) /\ Len(exact) = j /\ \A i \in 1..j : exact[i] = d[b + i]
      <3>1. /\ SubSeq(d, b + 1, b + j) \in Seq(Entry)
            /\ Len(SubSeq(d, b + 1, b + j)) = j
            /\ \A i \in 1..j : SubSeq(d, b + 1, b + j)[i] = d[b + i]
        BY <2>2, <2>7, Piece, ZenonT(40)
      <3>. QED
        BY <2>6, <3>1, Zenon
    <2>9. found \in Seq(Entry) /\ Len(found) = k /\ \A i \in 1..k : found[i] = d[b + i]
      <3>1. /\ SubSeq(d, b + 1, b + k) \in Seq(Entry)
            /\ Len(SubSeq(d, b + 1, b + k)) = k
            /\ \A i \in 1..k : SubSeq(d, b + 1, b + k)[i] = d[b + i]
        BY <2>2, <2>7, Piece, ZenonT(40)
      <3>. QED
        BY <2>6, <3>1, Zenon
    <2>10. IsPrefix(exact, found)
      <3>1. PICK z \in Nat : z = 0
        OBVIOUS
      <3>2. /\ z + 1 = 1 /\ z + j = j /\ \A i \in 1..j : z + i = i /\ i \in 1..k
            /\ z + j <= Len(found)
        BY <2>5, <2>9, <3>1
      <3>3. PICK start : start = SubSeq(found, z + 1, z + j)
        OBVIOUS
      <3>4. start \in Seq(Entry) /\ Len(start) = j /\ \A i \in 1..j : start[i] = found[i]
        <4>1. start \in Seq(Entry) /\ Len(start) = j /\ \A i \in 1..j : start[i] = found[z + i]
          BY <2>9, <3>2, <3>3, Piece
        <4>. QED
          BY <3>2, <4>1
      <3>5. \A i \in 1..j : start[i] = exact[i]
        BY <2>8, <2>9, <3>2, <3>4
      <3>6. start = exact
        BY <2>8, <3>4, <3>5, SeqEqual
      <3>7. SubSeq(exact, 1, Len(exact)) = exact
        BY <2>8, SubSeqFull
      <3>. QED
        BY <2>5, <2>8, <2>9, <3>2, <3>3, <3>6, <3>7 DEF IsPrefix
    <2>11. ASSUME NEW i \in DOMAIN found, found[i].input_code = code
           PROVE  i \in DOMAIN exact
      <3>1. DOMAIN found = 1..k /\ DOMAIN exact = 1..j
        BY <2>8, <2>9, LenProperties
      <3>2. i \in 1..k /\ b + i \in 1..n
        BY <2>2, <2>4, <2>5, <3>1, SMTT(40)
      <3>3. d[b + i].input_code = code
        BY <2>9, <2>11, <3>2
      <3>4. b + i \in (b + 1)..(b + x)
        BY <2>4, <3>2, <3>3
      <3>5. i <= x
        BY <3>2, <3>4
      <3>6. i <= j
        <4>1. i <= k /\ k <= limit /\ (j = x \/ j = limit)
          BY <2>5, <3>2
        <4>. QED
          BY <3>2, <3>5, <4>1
      <3>. QED
        BY <3>1, <3>2, <3>6
    <2>. QED
      BY <2>10, <2>11
  <1>. QED
    BY <1>1, <1>2

-----------------------------------------------------------------------------
(* The loops.                                                              *)

\* The states that a loop reaches after each of N things.
Reaches(C, c0, N, step, f) ==
    /\ f \in [0..N -> C] /\ f[0] = c0
    /\ \A n \in 1..N : f[n] = step[<<f[n - 1], n>>]

\* A recursive definition over the first N numbers has a solution.
LEMMA Recursion ==
    ASSUME NEW C, NEW c0 \in C, NEW N \in Nat, NEW step \in [C \X (1..N) -> C]
    PROVE  \E f : Reaches(C, c0, N, step, f)
  <1>. DEFINE Runs(k, f) == f[0] = c0 /\ \A n \in 1..k : f[n] = step[<<f[n - 1], n>>]
              S == {k \in Nat : k <= N => \E f \in [0..k -> C] : Runs(k, f)}
  <1>1. 0 \in S
    <2>. DEFINE f == [n \in 0..0 |-> c0]
    <2>1. f \in [0..0 -> C] /\ f[0] = c0 /\ 1..0 = {}
      OBVIOUS
    <2>. HIDE DEF f
    <2>2. Runs(0, f)
      BY <2>1
    <2>. QED
      BY <2>1, <2>2
  <1>2. ASSUME NEW k \in Nat, k \in S
        PROVE  k + 1 \in S
    <2>. SUFFICES ASSUME k + 1 <= N
                  PROVE  \E f \in [0..(k + 1) -> C] : Runs(k + 1, f)
      OBVIOUS
    <2>1. PICK f \in [0..k -> C] : Runs(k, f)
      BY <1>2
    <2>. DEFINE next == step[<<f[k], k + 1>>]
                g == [n \in 0..(k + 1) |-> IF n = k + 1 THEN next ELSE f[n]]
    <2>2. next \in C
      <3>1. f[k] \in C /\ k + 1 \in 1..N
        BY <2>1
      <3>. QED
        BY <3>1
    <2>3. \A n \in 0..k : f[n] \in C
      BY <2>1
    <2>. HIDE DEF next
    <2>4. /\ g \in [0..(k + 1) -> C]
          /\ g[k + 1] = next /\ \A n \in 0..k : g[n] = f[n]
      BY <2>2, <2>3
    <2>. HIDE DEF g
    <2>5. g[0] = c0
      <3>1. 0 \in 0..k
        OBVIOUS
      <3>. QED
        BY <2>1, <2>4, <3>1
    <2>6. ASSUME NEW n \in 1..(k + 1)
          PROVE  g[n] = step[<<g[n - 1], n>>]
      <3>1. n - 1 \in 0..k /\ (n = k + 1 \/ n \in 1..k)
        OBVIOUS
      <3>2. g[n - 1] = f[n - 1]
        BY <2>4, <3>1
      <3>3. CASE n = k + 1
        BY <2>4, <3>2, <3>3 DEF next
      <3>4. CASE n \in 1..k
        <4>1. g[n] = f[n]
          BY <2>4, <3>4
        <4>2. f[n] = step[<<f[n - 1], n>>]
          BY <2>1, <3>4
        <4>. QED
          BY <3>2, <4>1, <4>2
      <3>. QED
        BY <3>1, <3>3, <3>4
    <2>. QED
      BY <2>4, <2>5, <2>6
  <1>3. N \in S
    <2>. HIDE DEF S
    <2>. QED
      BY <1>1, <1>2, NatInduct
  <1>. QED
    BY <1>3 DEF Reaches

\* What has been collected after some of the providers.
Collection == [proposals : Seq(Proposal), failed : SUBSET {"Dictionary"}]

\* What an entry becomes.
LEMMA ProposedIsProposal ==
    ASSUME NEW e \in Entry, NEW code
    PROVE  /\ Proposed(e, code) \in Proposal
           /\ Proposed(e, code).text = e.text
           /\ Proposed(e, code).input_code = e.input_code
           /\ Proposed(e, code).lexeme_id = e.lexeme_id
           /\ Proposed(e, code).base_frequency = e.base_frequency
           /\ Proposed(e, code).match_kind = "Exact" <=> e.input_code = code
  BY DEF Proposed, Proposal, Entry

\* A provider proposes what its dictionary finds, in that order.
LEMMA ProvidersPropose ==
    ASSUME NEW provider \in Provider, NEW code \in Bytes, code # <<>>, NEW limit \in Nat,
           NEW found, found = lookup_prefix(provider.entries, code, limit),
           NEW generated, generated = ProviderGenerate(provider, code, limit)
    PROVE  /\ generated \in Seq(Proposal) /\ Len(generated) = Len(found)
           /\ found \in Seq(Entry)
           /\ \A i \in 1..Len(found) : generated[i] = Proposed(found[i], code)
  <1>1. provider.entries \in Seq(Entry)
    BY DEF Provider
  <1>2. found \in Seq(Entry)
    BY <1>1, PrefixLookup DEF LooksUp
  <1>3. /\ Len(found) \in Nat /\ DOMAIN found = 1..Len(found)
        /\ \A i \in 1..Len(found) : found[i] \in Entry
    BY <1>2, LenProperties, ElementOfSeq
  <1>4. generated = [i \in 1..Len(found) |-> Proposed(found[i], code)]
    BY <1>3 DEF ProviderGenerate
  <1>5. \A i \in 1..Len(found) : Proposed(found[i], code) \in Proposal
    BY <1>3, ProposedIsProposal
  <1>6. generated \in Seq(Proposal)
    BY <1>3, <1>4, <1>5, IsASeq
  <1>. QED
    BY <1>2, <1>3, <1>4, <1>6

\* A turn of the loop over the providers keeps the types.
LEMMA AskCollects ==
    ASSUME NEW p \in Pipeline, NEW code \in Bytes, code # <<>>, NEW c \in Collection,
           NEW provider \in Provider
    PROVE  Ask(p, code, c, provider) \in Collection
  <1>. DEFINE remaining == p.max_generated_candidates - Len(c.proposals)
  <1>1. remaining \in Int /\ c.proposals \in Seq(Proposal) /\ c.failed \in SUBSET {"Dictionary"}
    <2>1. c.proposals \in Seq(Proposal) /\ c.failed \in SUBSET {"Dictionary"}
      BY DEF Collection
    <2>2. p.max_generated_candidates \in Nat
      BY DEF Pipeline
    <2>. QED
      BY <2>1, <2>2, LenProperties
  <1>2. CASE c.failed # {} \/ remaining <= 0
    BY <1>2 DEF Ask
  <1>3. CASE ~(c.failed # {} \/ remaining <= 0) /\ provider.fails
    BY <1>3 DEF Ask, Collection
  <1>4. CASE ~(c.failed # {} \/ remaining <= 0) /\ ~provider.fails
    <2>1. PICK limit \in Nat : limit = remaining
      BY <1>1, <1>4
    <2>2. ProviderGenerate(provider, code, limit) \in Seq(Proposal)
      BY ProvidersPropose
    <2>3. PICK ps \in Seq(Proposal) : ps = c.proposals \o ProviderGenerate(provider, code, limit)
      BY <1>1, <2>2, ConcatProperties
    <2>4. Ask(p, code, c, provider) = [c EXCEPT !.proposals = ps]
      BY <1>4, <2>1, <2>3 DEF Ask
    <2>. QED
      BY <2>4 DEF Collection
  <1>. QED
    BY <1>2, <1>3, <1>4

\* Collected is what the turns of its loop make of nothing, one after the other.
LEMMA CollectedSteps ==
    ASSUME NEW p \in Pipeline, NEW code \in Bytes, code # <<>>, NEW N, N = Len(p.providers)
    PROVE  /\ N \in Nat
           /\ \E f \in [0..N -> Collection] :
                 /\ f[0] = [proposals |-> <<>>, failed |-> {}]
                 /\ \A n \in 1..N : f[n] = Ask(p, code, f[n - 1], p.providers[n])
                 /\ Collected(p, code) = f[N]
  <1>1. N \in Nat /\ \A n \in 1..N : p.providers[n] \in Provider
    <2>1. p.providers \in Seq(Provider)
      BY DEF Pipeline
    <2>. QED
      BY <2>1, LenProperties, ElementOfSeq
  <1>. DEFINE c0 == [proposals |-> <<>>, failed |-> {}]
              step == [x \in Collection \X (1..N) |-> Ask(p, code, x[1], p.providers[x[2]])]
              Body(g) == [n \in 0..N |-> IF n = 0 THEN c0
                                         ELSE Ask(p, code, g[n - 1], p.providers[n])]
  <1>2. c0 \in Collection
    BY DEF Collection
  <1>3. \A c \in Collection, n \in 1..N :
           /\ step[<<c, n>>] = Ask(p, code, c, p.providers[n])
           /\ Ask(p, code, c, p.providers[n]) \in Collection
    BY <1>1, AskCollects
  <1>4. step \in [Collection \X (1..N) -> Collection]
    BY <1>1, AskCollects
  <1>. HIDE DEF step, c0
  <1>5. PICK f \in [0..N -> Collection] :
           f[0] = c0 /\ \A n \in 1..N : f[n] = step[<<f[n - 1], n>>]
    <2>1. \E f : Reaches(Collection, c0, N, step, f)
      BY <1>1, <1>2, <1>4, Recursion
    <2>. QED
      BY <2>1 DEF Reaches
  <1>6. f = Body(f)
    <2>1. ASSUME NEW n \in 0..N
          PROVE  f[n] = Body(f)[n]
      <3>1. n = 0 \/ (n \in 1..N /\ n - 1 \in 0..N)
        BY <1>1
      <3>. QED
        BY <1>3, <1>5, <3>1
    <2>. QED
      BY <1>5, <2>1
  <1>7. PICK g : g = CHOOSE h : h = Body(h)
    OBVIOUS
  <1>8. g = Body(g)
    BY <1>6, <1>7
  <1>9. Collected(p, code) = g[N]
    BY <1>7 DEF Collected, c0
  <1>10. g[0] = c0 /\ \A n \in 1..N : g[n] = Ask(p, code, g[n - 1], p.providers[n])
    BY <1>1, <1>8, SMTT(40)
  <1>11. \A n \in 0..N : g[n] = f[n]
    <2>. DEFINE S == {n \in Nat : n <= N => g[n] = f[n]}
    <2>1. 0 \in S
      BY <1>5, <1>10
    <2>2. ASSUME NEW n \in Nat, n \in S
          PROVE  n + 1 \in S
      <3>. SUFFICES ASSUME n + 1 <= N PROVE g[n + 1] = f[n + 1]
        OBVIOUS
      <3>1. n + 1 \in 1..N /\ (n + 1) - 1 = n /\ n \in 0..N /\ n <= N
        BY <1>1
      <3>2. g[n] = f[n] /\ f[n] \in Collection
        BY <2>2, <3>1
      <3>3. f[n + 1] = Ask(p, code, f[n], p.providers[n + 1])
        BY <1>3, <1>5, <3>1, <3>2, ZenonT(40)
      <3>4. g[n + 1] = Ask(p, code, g[n], p.providers[n + 1])
        BY <1>10, <3>1
      <3>. QED
        BY <3>2, <3>3, <3>4
    <2>3. Nat \subseteq S
      <3>. HIDE DEF S
      <3>. QED
        BY <2>1, <2>2, NatInduct
    <2>. QED
      BY <1>1, <2>3
  <1>12. \A n \in 1..N : f[n] = Ask(p, code, f[n - 1], p.providers[n])
    <2>1. ASSUME NEW n \in 1..N
          PROVE  f[n] = Ask(p, code, f[n - 1], p.providers[n])
      <3>1. n - 1 \in 0..N
        BY <1>1
      <3>. QED
        BY <1>3, <1>5, <3>1
    <2>. QED
      BY <2>1
  <1>13. N \in 0..N
    BY <1>1
  <1>. QED
    BY <1>1, <1>5, <1>9, <1>11, <1>12, <1>13 DEF c0

\* Proposals that agree in every field are one.
LEMMA SameProposal ==
    ASSUME NEW p \in Proposal, NEW q \in Proposal,
           p.lexeme_id = q.lexeme_id, p.text = q.text, p.input_code = q.input_code,
           p.base_frequency = q.base_frequency, p.match_kind = q.match_kind
    PROVE  p = q
  BY DEF Proposal

\* What merging a proposal into one of the same text makes of it.
LEMMA MergeProposal ==
    ASSUME NEW m \in Proposal, NEW q \in Proposal, m.text = q.text,
           NEW r, r = merge_proposal(m, q)
    PROVE  /\ r \in Proposal /\ r.text = m.text
           /\ r.base_frequency = Larger(m.base_frequency, q.base_frequency)
           /\ canonical_precedes(q, m) =>
                 /\ r.match_kind = q.match_kind /\ r.input_code = q.input_code
                 /\ r.lexeme_id = q.lexeme_id
           /\ ~canonical_precedes(q, m) =>
                 /\ r.match_kind = m.match_kind /\ r.input_code = m.input_code
                 /\ r.lexeme_id = m.lexeme_id
  <1>1. PICK f \in Nat : f = Larger(m.base_frequency, q.base_frequency)
    BY DEF Larger, Proposal
  <1>2. CASE canonical_precedes(q, m)
    <2>1. r = [q EXCEPT !.base_frequency = f]
      BY <1>1, <1>2 DEF merge_proposal
    <2>. QED
      BY <1>1, <1>2, <2>1 DEF Proposal
  <1>3. CASE ~canonical_precedes(q, m)
    <2>1. r = [m EXCEPT !.base_frequency = f]
      BY <1>1, <1>3 DEF merge_proposal
    <2>. QED
      BY <1>1, <1>3, <2>1 DEF Proposal
  <1>. QED
    BY <1>2, <1>3

\* Merging keeps the types.
LEMMA MergedProposals ==
    ASSUME NEW M \in SUBSET Proposal, NEW q \in Proposal
    PROVE  Merged(M, q) \in SUBSET Proposal
  <1>1. \A p \in M : p.text = q.text => merge_proposal(p, q) \in Proposal
    BY MergeProposal
  <1>. QED
    BY <1>1 DEF Merged

\* So is deduplicate.
LEMMA DeduplicateSteps ==
    ASSUME NEW ps \in Seq(Proposal), NEW N, N = Len(ps)
    PROVE  /\ N \in Nat
           /\ \E f \in [0..N -> SUBSET Proposal] :
                 /\ f[0] = {}
                 /\ \A n \in 1..N : f[n] = Merged(f[n - 1], ps[n])
                 /\ deduplicate(ps) = f[N]
  <1>1. N \in Nat /\ \A n \in 1..N : ps[n] \in Proposal
    BY LenProperties, ElementOfSeq
  <1>. DEFINE C == SUBSET Proposal
              step == [x \in C \X (1..N) |-> Merged(x[1], ps[x[2]])]
              Body(g) == [n \in 0..N |-> IF n = 0 THEN {} ELSE Merged(g[n - 1], ps[n])]
  <1>2. {} \in C
    OBVIOUS
  <1>3. \A c \in C, n \in 1..N : /\ step[<<c, n>>] = Merged(c, ps[n])
                                 /\ Merged(c, ps[n]) \in C
    BY <1>1, MergedProposals
  <1>4. step \in [C \X (1..N) -> C]
    BY <1>1, MergedProposals
  <1>. HIDE DEF step, C
  <1>5. PICK f \in [0..N -> C] :
           f[0] = {} /\ \A n \in 1..N : f[n] = step[<<f[n - 1], n>>]
    <2>1. \E f : Reaches(C, {}, N, step, f)
      BY <1>1, <1>2, <1>4, Recursion
    <2>. QED
      BY <2>1 DEF Reaches
  <1>6. f = Body(f)
    <2>1. ASSUME NEW n \in 0..N
          PROVE  f[n] = Body(f)[n]
      <3>1. n = 0 \/ (n \in 1..N /\ n - 1 \in 0..N)
        BY <1>1
      <3>. QED
        BY <1>3, <1>5, <3>1
    <2>. QED
      BY <1>5, <2>1
  <1>7. PICK g : g = CHOOSE h : h = Body(h)
    OBVIOUS
  <1>8. g = Body(g)
    BY <1>6, <1>7
  <1>9. deduplicate(ps) = g[N]
    BY <1>7 DEF deduplicate
  <1>10. g[0] = {} /\ \A n \in 1..N : g[n] = Merged(g[n - 1], ps[n])
    BY <1>1, <1>8
  <1>11. \A n \in 0..N : g[n] = f[n]
    <2>. DEFINE S == {n \in Nat : n <= N => g[n] = f[n]}
    <2>1. 0 \in S
      BY <1>5, <1>10
    <2>2. ASSUME NEW n \in Nat, n \in S
          PROVE  n + 1 \in S
      <3>. SUFFICES ASSUME n + 1 <= N PROVE g[n + 1] = f[n + 1]
        OBVIOUS
      <3>1. n + 1 \in 1..N /\ (n + 1) - 1 = n /\ n \in 0..N /\ n <= N
        BY <1>1
      <3>2. g[n] = f[n] /\ f[n] \in C
        BY <2>2, <3>1
      <3>3. f[n + 1] = Merged(f[n], ps[n + 1])
        BY <1>3, <1>5, <3>1, <3>2
      <3>4. g[n + 1] = Merged(g[n], ps[n + 1])
        BY <1>10, <3>1
      <3>. QED
        BY <3>2, <3>3, <3>4
    <2>3. Nat \subseteq S
      <3>. HIDE DEF S
      <3>. QED
        BY <2>1, <2>2, NatInduct
    <2>. QED
      BY <1>1, <2>3
  <1>12. \A n \in 1..N : f[n] = Merged(f[n - 1], ps[n])
    <2>1. ASSUME NEW n \in 1..N
          PROVE  f[n] = Merged(f[n - 1], ps[n])
      <3>1. n - 1 \in 0..N
        BY <1>1
      <3>. QED
        BY <1>3, <1>5, <3>1
    <2>. QED
      BY <2>1
  <1>13. N \in 0..N
    BY <1>1
  <1>. QED
    BY <1>1, <1>5, <1>9, <1>11, <1>12, <1>13 DEF C

\* What a merged proposal is, among the first n proposals of its text: as frequent and as
\* exact as any, with the code of one as exact; and if none is exact, the first of the
\* lowest lexeme of the most frequent.
Represents(ps, n, m) ==
    /\ \A i \in 1..n : ps[i].text = m.text =>
          /\ ps[i].base_frequency <= m.base_frequency
          /\ ps[i].match_kind = "Exact" => m.match_kind = "Exact"
    /\ \E i \in 1..n : ps[i].text = m.text /\ ps[i].base_frequency = m.base_frequency
    /\ \E i \in 1..n : /\ ps[i].text = m.text /\ ps[i].match_kind = m.match_kind
                       /\ ps[i].input_code = m.input_code
    /\ m.match_kind = "Prefix" =>
          \E i \in 1..n :
             /\ ps[i] = m
             /\ \A j \in 1..n :
                   ps[j].text = m.text /\ ps[j].base_frequency = m.base_frequency =>
                      \/ ps[j].lexeme_id > m.lexeme_id
                      \/ ps[j].lexeme_id = m.lexeme_id /\ i <= j

\* A proposal joins a merged one of its text.
LEMMA RepresentsJoined ==
    ASSUME NEW ps \in Seq(Proposal), NEW n \in Nat, n + 1 <= Len(ps),
           NEW m \in Proposal, Represents(ps, n, m), NEW q, q = ps[n + 1], q.text = m.text,
           NEW r, r = merge_proposal(m, q)
    PROVE  Represents(ps, n + 1, r) /\ r \in Proposal /\ r.text = m.text
  <1>1. q \in Proposal /\ \A i \in 1..(n + 1) : ps[i] \in Proposal
    <2>1. \A i \in 1..(n + 1) : i \in 1..Len(ps)
      BY LenProperties
    <2>2. n + 1 \in 1..(n + 1)
      OBVIOUS
    <2>. QED
      BY <2>1, <2>2, ElementOfSeq
  <1>2. \A p \in Proposal : /\ p.base_frequency \in Int /\ p.lexeme_id \in Int
                            /\ p.match_kind \in {"Prefix", "Exact"}
    BY DEF Proposal
  <1>3. /\ r \in Proposal /\ r.text = m.text
        /\ r.base_frequency = Larger(m.base_frequency, q.base_frequency)
        /\ canonical_precedes(q, m) =>
                 /\ r.match_kind = q.match_kind /\ r.input_code = q.input_code
                 /\ r.lexeme_id = q.lexeme_id
        /\ ~canonical_precedes(q, m) =>
                 /\ r.match_kind = m.match_kind /\ r.input_code = m.input_code
                 /\ r.lexeme_id = m.lexeme_id
    BY <1>1, MergeProposal
  <1>4. canonical_precedes(q, m) <=>
             \/ q.match_kind = "Exact" /\ m.match_kind = "Prefix"
             \/ /\ q.match_kind = m.match_kind
                /\ \/ q.base_frequency > m.base_frequency
                   \/ q.base_frequency = m.base_frequency /\ q.lexeme_id < m.lexeme_id
    BY <1>1, <1>2, CanonicalKeys DEF KindOrder
  <1>5. \A i \in 1..(n + 1) : i \in 1..n \/ i = n + 1
    OBVIOUS
  <1>6. /\ \A i \in 1..n : i \in 1..(n + 1)
        /\ n + 1 \in 1..(n + 1)
    OBVIOUS
  <1>7. /\ r.match_kind = "Exact" <=> q.match_kind = "Exact" \/ m.match_kind = "Exact"
        /\ r.base_frequency >= m.base_frequency /\ r.base_frequency >= q.base_frequency
        /\ r.base_frequency = m.base_frequency \/ r.base_frequency = q.base_frequency
    BY <1>1, <1>2, <1>3, <1>4 DEF Larger
  <1>8. ASSUME NEW i \in 1..(n + 1), ps[i].text = r.text
        PROVE  /\ ps[i].base_frequency <= r.base_frequency
               /\ ps[i].match_kind = "Exact" => r.match_kind = "Exact"
    <2>1. CASE i \in 1..n
      BY <1>1, <1>2, <1>3, <1>7, <1>8, <2>1, SMTT(40) DEF Represents
    <2>2. CASE i = n + 1
      BY <1>7, <2>2
    <2>. QED
      BY <1>5, <2>1, <2>2
  <1>9. \E i \in 1..(n + 1) : ps[i].text = r.text /\ ps[i].base_frequency = r.base_frequency
    BY <1>3, <1>6, <1>7 DEF Represents
  <1>10. \E i \in 1..(n + 1) : /\ ps[i].text = r.text /\ ps[i].match_kind = r.match_kind
                               /\ ps[i].input_code = r.input_code
    <2>1. CASE canonical_precedes(q, m)
      BY <1>3, <1>6, <2>1
    <2>2. CASE ~canonical_precedes(q, m)
      BY <1>3, <1>6, <2>2 DEF Represents
    <2>. QED
      BY <2>1, <2>2
  <1>11. ASSUME r.match_kind = "Prefix"
         PROVE  \E i \in 1..(n + 1) :
                   /\ ps[i] = r
                   /\ \A j \in 1..(n + 1) :
                         ps[j].text = r.text /\ ps[j].base_frequency = r.base_frequency =>
                            \/ ps[j].lexeme_id > r.lexeme_id
                            \/ ps[j].lexeme_id = r.lexeme_id /\ i <= j
    <2>1. m.match_kind = "Prefix" /\ q.match_kind = "Prefix"
      BY <1>1, <1>2, <1>7, <1>11
    <2>2. PICK k \in 1..n :
             /\ ps[k] = m
             /\ \A j \in 1..n :
                   ps[j].text = m.text /\ ps[j].base_frequency = m.base_frequency =>
                      \/ ps[j].lexeme_id > m.lexeme_id
                      \/ ps[j].lexeme_id = m.lexeme_id /\ k <= j
      BY <2>1 DEF Represents
    <2>3. \A j \in 1..n : ps[j].text = m.text => ps[j].base_frequency <= m.base_frequency
      BY DEF Represents
    <2>4. CASE canonical_precedes(q, m)
      <3>1. q.base_frequency >= m.base_frequency
        BY <1>1, <1>2, <1>4, <2>1, <2>4
      <3>2. r.base_frequency = q.base_frequency
        BY <1>1, <1>2, <1>3, <3>1 DEF Larger
      <3>3. r = q
        BY <1>1, <1>3, <2>4, <3>2, SameProposal
      <3>4. ASSUME NEW j \in 1..(n + 1), ps[j].text = r.text,
                   ps[j].base_frequency = r.base_frequency
            PROVE  \/ ps[j].lexeme_id > r.lexeme_id
                   \/ ps[j].lexeme_id = r.lexeme_id /\ n + 1 <= j
        <4>1. CASE j = n + 1
          BY <3>3, <4>1
        <4>2. CASE j \in 1..n
          <5>1. ps[j].base_frequency = m.base_frequency /\ q.base_frequency = m.base_frequency
            BY <1>1, <1>2, <1>3, <2>3, <3>1, <3>3, <3>4, <4>2
          <5>2. q.lexeme_id < m.lexeme_id
            BY <1>1, <1>2, <1>4, <2>1, <2>4, <5>1
          <5>3. ps[j].lexeme_id >= m.lexeme_id
            BY <1>1, <1>2, <1>3, <2>2, <3>4, <4>2, <5>1, SMTT(40)
          <5>. QED
            BY <1>1, <1>2, <3>3, <4>2, <5>2, <5>3
        <4>. QED
          BY <1>5, <4>1, <4>2
      <3>. QED
        BY <1>6, <3>3, <3>4
    <2>5. CASE ~canonical_precedes(q, m)
      <3>1. q.base_frequency <= m.base_frequency
        BY <1>1, <1>2, <1>4, <2>1, <2>5
      <3>2. r.base_frequency = m.base_frequency
        BY <1>1, <1>2, <1>3, <3>1 DEF Larger
      <3>3. r = m
        BY <1>3, <2>5, <3>2, SameProposal
      <3>4. ASSUME NEW j \in 1..(n + 1), ps[j].text = r.text,
                   ps[j].base_frequency = r.base_frequency
            PROVE  \/ ps[j].lexeme_id > r.lexeme_id
                   \/ ps[j].lexeme_id = r.lexeme_id /\ k <= j
        <4>1. CASE j = n + 1
          <5>1. q.base_frequency = m.base_frequency
            BY <3>3, <3>4, <4>1
          <5>2. q.lexeme_id >= m.lexeme_id
            BY <1>1, <1>2, <1>4, <2>1, <2>5, <5>1
          <5>. QED
            BY <1>1, <1>2, <3>3, <4>1, <5>2
        <4>2. CASE j \in 1..n
          BY <2>2, <3>3, <3>4, <4>2
        <4>. QED
          BY <1>5, <4>1, <4>2
      <3>. QED
        BY <1>6, <2>2, <3>3, <3>4
    <2>. QED
      BY <2>4, <2>5
  <1>12. Represents(ps, n + 1, r)
    BY <1>8, <1>9, <1>10, <1>11 DEF Represents
  <1>. QED
    BY <1>3, <1>12

\* A proposal of another text, or the first of its text, changes nothing.
LEMMA RepresentsOther ==
    ASSUME NEW ps, NEW n \in Nat, NEW m, Represents(ps, n, m), ps[n + 1].text # m.text
    PROVE  Represents(ps, n + 1, m)
  <1>1. \A i \in 1..(n + 1) : i \in 1..n \/ i = n + 1
    OBVIOUS
  <1>2. \A i \in 1..n : i \in 1..(n + 1)
    OBVIOUS
  <1>3. ASSUME m.match_kind = "Prefix"
        PROVE  \E i \in 1..(n + 1) :
                 /\ ps[i] = m
                 /\ \A j \in 1..(n + 1) :
                       ps[j].text = m.text /\ ps[j].base_frequency = m.base_frequency =>
                          \/ ps[j].lexeme_id > m.lexeme_id
                          \/ ps[j].lexeme_id = m.lexeme_id /\ i <= j
    <2>1. PICK i \in 1..n :
             /\ ps[i] = m
             /\ \A j \in 1..n :
                   ps[j].text = m.text /\ ps[j].base_frequency = m.base_frequency =>
                      \/ ps[j].lexeme_id > m.lexeme_id
                      \/ ps[j].lexeme_id = m.lexeme_id /\ i <= j
      BY <1>3 DEF Represents
    <2>2. \A j \in 1..(n + 1) :
             ps[j].text = m.text /\ ps[j].base_frequency = m.base_frequency =>
                \/ ps[j].lexeme_id > m.lexeme_id
                \/ ps[j].lexeme_id = m.lexeme_id /\ i <= j
      BY <1>1, <2>1
    <2>. QED
      BY <1>2, <2>1, <2>2
  <1>. QED
    BY <1>1, <1>2, <1>3 DEF Represents

\* The first proposal of a text represents it.
LEMMA RepresentsAlone ==
    ASSUME NEW ps, NEW n \in Nat, NEW q \in Proposal, q = ps[n + 1],
           \A i \in 1..n : ps[i].text # q.text
    PROVE  Represents(ps, n + 1, q)
  <1>1. \A i \in 1..(n + 1) : ps[i].text = q.text => i = n + 1
    OBVIOUS
  <1>2. n + 1 \in 1..(n + 1)
    OBVIOUS
  <1>3. q.base_frequency \in Int /\ q.lexeme_id \in Int
    BY DEF Proposal
  <1>4. \E i \in 1..(n + 1) :
           /\ ps[i] = q
           /\ \A j \in 1..(n + 1) :
                 ps[j].text = q.text /\ ps[j].base_frequency = q.base_frequency =>
                    \/ ps[j].lexeme_id > q.lexeme_id
                    \/ ps[j].lexeme_id = q.lexeme_id /\ i <= j
    <2>1. \A j \in 1..(n + 1) :
             ps[j].text = q.text /\ ps[j].base_frequency = q.base_frequency =>
                \/ ps[j].lexeme_id > q.lexeme_id
                \/ ps[j].lexeme_id = q.lexeme_id /\ n + 1 <= j
      BY <1>1
    <2>. QED
      BY <1>2, <2>1
  <1>5. \A i \in 1..(n + 1) : ps[i].text = q.text =>
          /\ ps[i].base_frequency <= q.base_frequency
          /\ ps[i].match_kind = "Exact" => q.match_kind = "Exact"
    BY <1>1, <1>3
  <1>. QED
    BY <1>2, <1>4, <1>5 DEF Represents

\* One proposal for each text of the first n.
OneOfEach(ps, n, M) ==
    /\ M \in SUBSET Proposal /\ IsFiniteSet(M)
    /\ \A m, o \in M : m.text = o.text => m = o
    /\ \A i \in 1..n : \E m \in M : m.text = ps[i].text
    /\ \A m \in M : Represents(ps, n, m)

\* A turn of the loop over the proposals keeps one for each text.
LEMMA OneOfEachMerged ==
    ASSUME NEW ps \in Seq(Proposal), NEW n \in Nat, n + 1 <= Len(ps),
           NEW M, OneOfEach(ps, n, M), NEW q, q = ps[n + 1]
    PROVE  OneOfEach(ps, n + 1, Merged(M, q))
  <1>1. q \in Proposal
    <2>1. n + 1 \in 1..Len(ps)
      BY LenProperties
    <2>. QED
      BY <2>1, ElementOfSeq
  <1>2. /\ M \in SUBSET Proposal /\ IsFiniteSet(M)
        /\ \A m, o \in M : m.text = o.text => m = o
        /\ \A i \in 1..n : \E m \in M : m.text = ps[i].text
        /\ \A m \in M : Represents(ps, n, m)
    BY DEF OneOfEach
  <1>3. \A i \in 1..(n + 1) : i \in 1..n \/ i = n + 1
    OBVIOUS
  <1>4. CASE \A m \in M : m.text # q.text
    <2>1. Merged(M, q) = M \cup {q}
      BY <1>4 DEF Merged
    <2>2. \A i \in 1..n : ps[i].text # q.text
      BY <1>2, <1>4
    <2>3. Represents(ps, n + 1, q)
      BY <1>1, <2>2, RepresentsAlone
    <2>4. \A m \in M : Represents(ps, n + 1, m)
      BY <1>2, <1>4, RepresentsOther
    <2>5. IsFiniteSet(M \cup {q})
      BY <1>2, FS_AddElement
    <2>. QED
      BY <1>1, <1>2, <1>3, <1>4, <2>1, <2>3, <2>4, <2>5 DEF OneOfEach
  <1>5. CASE \E m \in M : m.text = q.text
    <2>1. PICK m \in M : m.text = q.text
      BY <1>5
    <2>2. m \in Proposal /\ Represents(ps, n, m)
      BY <1>2, <2>1
    <2>3. PICK r : r = merge_proposal(m, q)
      OBVIOUS
    <2>4. Represents(ps, n + 1, r) /\ r \in Proposal /\ r.text = m.text
      BY <2>1, <2>2, <2>3, RepresentsJoined
    <2>5. {p \in M : p.text = q.text} = {m}
      BY <1>2, <2>1
    <2>6. Merged(M, q) = (M \ {m}) \cup {r}
      BY <2>3, <2>5 DEF Merged
    <2>7. \A o \in M \ {m} : o.text # q.text /\ Represents(ps, n + 1, o)
      BY <1>2, <2>1, RepresentsOther
    <2>8. IsFiniteSet((M \ {m}) \cup {r})
      BY <1>2, FS_RemoveElement, FS_AddElement
    <2>9. \A i \in 1..(n + 1) : \E o \in (M \ {m}) \cup {r} : o.text = ps[i].text
      <3>1. \A o \in M : \E p \in (M \ {m}) \cup {r} : p.text = o.text
        BY <2>4
      <3>. QED
        BY <1>2, <1>3, <2>1, <2>4, <3>1
    <2>10. (M \ {m}) \cup {r} \in SUBSET Proposal
      BY <1>2, <2>4
    <2>11. \A o, p \in (M \ {m}) \cup {r} : o.text = p.text => o = p
      BY <1>2, <2>1, <2>4, <2>7
    <2>12. \A o \in (M \ {m}) \cup {r} : Represents(ps, n + 1, o)
      BY <2>4, <2>7
    <2>. QED
      BY <2>6, <2>8, <2>9, <2>10, <2>11, <2>12 DEF OneOfEach
  <1>. QED
    BY <1>4, <1>5

\* What is left when duplicates are merged.
LEMMA Deduplicated ==
    ASSUME NEW ps \in Seq(Proposal)
    PROVE  OneOfEach(ps, Len(ps), deduplicate(ps))
  <1>1. PICK N : N = Len(ps)
    OBVIOUS
  <1>2. N \in Nat
    BY <1>1, DeduplicateSteps
  <1>3. PICK f \in [0..N -> SUBSET Proposal] :
           /\ f[0] = {}
           /\ \A n \in 1..N : f[n] = Merged(f[n - 1], ps[n])
           /\ deduplicate(ps) = f[N]
    BY <1>1, DeduplicateSteps
  <1>. DEFINE S == {n \in Nat : n <= N => OneOfEach(ps, n, f[n])}
  <1>4. 0 \in S
    <2>1. IsFiniteSet({}) /\ 1..0 = {}
      BY FS_EmptySet
    <2>2. OneOfEach(ps, 0, {})
      BY <2>1 DEF OneOfEach
    <2>. QED
      BY <1>3, <2>2
  <1>5. ASSUME NEW n \in Nat, n \in S
        PROVE  n + 1 \in S
    <2>. SUFFICES ASSUME n + 1 <= N PROVE OneOfEach(ps, n + 1, f[n + 1])
      OBVIOUS
    <2>1. n + 1 \in 1..N /\ (n + 1) - 1 = n /\ n <= N
      BY <1>2
    <2>2. OneOfEach(ps, n, f[n]) /\ f[n + 1] = Merged(f[n], ps[n + 1])
      BY <1>3, <1>5, <2>1
    <2>. QED
      BY <1>1, <2>2, OneOfEachMerged
  <1>6. Nat \subseteq S
    <2>. HIDE DEF S
    <2>. QED
      BY <1>4, <1>5, NatInduct
  <1>. QED
    BY <1>1, <1>2, <1>3, <1>6

\* What is ranked: the n best in their order, and no more than top_k of them.
Ranked(M, top_k, ranked, n) ==
    /\ n \in Nat /\ n <= top_k /\ Cardinality(M) \in Nat
    /\ n = Cardinality(M) \/ n = top_k
    /\ DOMAIN ranked = 1..n /\ \A i \in 1..n : ranked[i] \in M
    /\ \A i, j \in 1..n : i < j => compare_ranked(ranked[i], ranked[j])
    /\ \A m \in M : \/ \E i \in 1..n : ranked[i] = m
                    \/ n = top_k /\ \A i \in 1..n : compare_ranked(ranked[i], m)

\* Ranked is what rank does.
LEMMA RankFacts ==
    ASSUME NEW M \in SUBSET Proposal, IsFiniteSet(M),
           \A m, o \in M : m.text = o.text => m = o, NEW top_k \in Nat,
           NEW ranked, ranked = rank(M, top_k)
    PROVE  \E n : Ranked(M, top_k, ranked, n)
  <1>. DEFINE R == {x \in M \X M : compare_ranked(x[1], x[2])}
              n == IF Cardinality(M) < top_k THEN Cardinality(M) ELSE top_k
  <1>1. \A x, y \in M : <<x, y>> \in R <=> compare_ranked(x, y)
    OBVIOUS
  <1>2. StrictOrder(R, M)
    <2>1. \A x, y, z \in M : /\ ~compare_ranked(x, x)
                             /\ compare_ranked(x, y) /\ compare_ranked(y, z) => compare_ranked(x, z)
                             /\ x # y => compare_ranked(x, y) \/ compare_ranked(y, x)
      BY RankedOrder
    <2>. HIDE DEF R
    <2>. QED
      BY <1>1, <2>1 DEF StrictOrder
  <1>3. \A x \in M : RankIn(R, M, x) = Cardinality({y \in M : compare_ranked(y, x)})
    <2>1. \A x \in M : {y \in M : <<y, x>> \in R} = {y \in M : compare_ranked(y, x)}
      BY <1>1
    <2>. QED
      BY <2>1 DEF RankIn
  <1>. HIDE DEF R
  <1>4. /\ Cardinality(M) \in Nat
        /\ \A x \in M : RankIn(R, M, x) \in 0..(Cardinality(M) - 1)
        /\ \A x, y \in M : <<x, y>> \in R <=> RankIn(R, M, x) < RankIn(R, M, y)
        /\ \A x, y \in M : RankIn(R, M, x) = RankIn(R, M, y) => x = y
        /\ \A k \in 0..(Cardinality(M) - 1) : \E x \in M : RankIn(R, M, x) = k
    BY <1>2, Ranks
  <1>5. n \in Nat /\ n <= top_k /\ n <= Cardinality(M) /\ (n = Cardinality(M) \/ n = top_k)
    BY <1>4
  <1>. HIDE DEF n
  <1>6. ranked = [i \in 1..n |-> CHOOSE p \in M : RankIn(R, M, p) = i - 1]
    <2>1. ranked = [i \in 1..n |-> CHOOSE p \in M :
                       Cardinality({q \in M : compare_ranked(q, p)}) = i - 1]
      BY DEF rank, n
    <2>2. \A i \in 1..n :
             (CHOOSE p \in M : Cardinality({q \in M : compare_ranked(q, p)}) = i - 1)
                = CHOOSE p \in M : RankIn(R, M, p) = i - 1
      BY <1>3
    <2>. QED
      BY <2>1, <2>2
  <1>7. ASSUME NEW i \in 1..n
        PROVE  ranked[i] \in M /\ RankIn(R, M, ranked[i]) = i - 1
    <2>1. i - 1 \in 0..(Cardinality(M) - 1)
      BY <1>4, <1>5
    <2>2. \E p \in M : RankIn(R, M, p) = i - 1
      BY <1>4, <2>1
    <2>. QED
      BY <1>6, <2>2
  <1>8. \A i, j \in 1..n : i < j => compare_ranked(ranked[i], ranked[j])
    <2>1. \A i, j \in 1..n : i < j => RankIn(R, M, ranked[i]) < RankIn(R, M, ranked[j])
      BY <1>5, <1>7
    <2>. QED
      BY <1>1, <1>4, <1>7, <2>1
  <1>9. ASSUME NEW m \in M
        PROVE  \/ \E i \in 1..n : ranked[i] = m
               \/ n = top_k /\ \A i \in 1..n : compare_ranked(ranked[i], m)
    <2>1. PICK k \in 0..(Cardinality(M) - 1) : k = RankIn(R, M, m)
      BY <1>4
    <2>2. CASE k < n
      <3>1. k + 1 \in 1..n /\ (k + 1) - 1 = k
        BY <1>4, <1>5, <2>2
      <3>2. ranked[k + 1] \in M /\ RankIn(R, M, ranked[k + 1]) = k
        BY <1>7, <3>1
      <3>. QED
        BY <1>4, <2>1, <3>1, <3>2
    <2>3. CASE k >= n
      <3>1. n = top_k
        BY <1>4, <1>5, <2>3
      <3>2. \A i \in 1..n : compare_ranked(ranked[i], m)
        <4>1. \A i \in 1..n : RankIn(R, M, ranked[i]) < RankIn(R, M, m)
          BY <1>4, <1>5, <1>7, <2>1, <2>3
        <4>. QED
          BY <1>1, <1>4, <1>7, <4>1
      <3>. QED
        BY <3>1, <3>2
    <2>. QED
      BY <1>4, <1>5, <2>2, <2>3
  <1>10. DOMAIN ranked = 1..n /\ \A i \in 1..n : ranked[i] \in M
    BY <1>6, <1>7
  <1>. QED
    BY <1>4, <1>5, <1>8, <1>9, <1>10 DEF Ranked

-----------------------------------------------------------------------------
(* What a text is looked up under.                                         *)

\* Normalising keeps a text a text.
LEMMA NormalizedBytes ==
    ASSUME NEW s \in Bytes
    PROVE  /\ normalize_input(s) \in Bytes
           /\ s # <<>> => normalize_input(s) # <<>>
  <1>1. s \in Seq(0..255) /\ Len(s) \in Nat /\ DOMAIN s = 1..Len(s)
    BY LenProperties DEF Bytes
  <1>2. \A i \in 1..Len(s) : s[i] \in 0..255
    BY <1>1, ElementOfSeq
  <1>. DEFINE t == [i \in 1..Len(s) |-> IF IsUppercase(s[i]) THEN s[i] + 32 ELSE s[i]]
  <1>3. normalize_input(s) = t
    BY <1>1 DEF normalize_input
  <1>4. \A byte \in 0..255 : (IF IsUppercase(byte) THEN byte + 32 ELSE byte) \in 0..255
    BY DEF IsUppercase
  <1>5. \A i \in 1..Len(s) : (IF IsUppercase(s[i]) THEN s[i] + 32 ELSE s[i]) \in 0..255
    BY <1>2, <1>4, Zenon
  <1>6. t \in Seq(0..255)
    BY <1>1, <1>5, IsASeq
  <1>7. ASSUME s # <<>>
        PROVE  t # <<>>
    <2>1. Len(s) # 0
      BY <1>1, <1>7, EmptySeq
    <2>2. Len(t) = Len(s)
      BY <1>1
    <2>. QED
      BY <2>1, <2>2
  <1>. QED
    BY <1>3, <1>6, <1>7 DEF Bytes

-----------------------------------------------------------------------------
(* Where the texts of the candidates come from.                            *)

\* Some entry lists a text under a code that begins with another.
IsListed(p, code, text) ==
    \E n \in 1..Len(p.providers) :
        \E h \in Hits(p.providers[n].entries, code) : p.providers[n].entries[h].text = text

AllListed(p, code, ps) == \A i \in 1..Len(ps) : IsListed(p, code, ps[i].text)

\* A turn of the loop over the providers adds only texts that are listed.
LEMMA AskListed ==
    ASSUME NEW p \in Pipeline, NEW code \in Bytes, code # <<>>, NEW c \in Collection,
           NEW n \in 1..Len(p.providers), AllListed(p, code, c.proposals)
    PROVE  AllListed(p, code, Ask(p, code, c, p.providers[n]).proposals)
  <1>. DEFINE remaining == p.max_generated_candidates - Len(c.proposals)
  <1>1. remaining \in Int /\ c.proposals \in Seq(Proposal) /\ Len(c.proposals) \in Nat
    <2>1. c.proposals \in Seq(Proposal)
      BY DEF Collection
    <2>2. p.max_generated_candidates \in Nat
      BY DEF Pipeline
    <2>. QED
      BY <2>1, <2>2, LenProperties
  <1>2. PICK provider \in Provider : provider = p.providers[n]
    <2>1. p.providers \in Seq(Provider)
      BY DEF Pipeline
    <2>. QED
      BY <2>1, ElementOfSeq
  <1>3. CASE c.failed # {} \/ remaining <= 0
    BY <1>3 DEF Ask
  <1>4. CASE ~(c.failed # {} \/ remaining <= 0) /\ provider.fails
    <2>1. Ask(p, code, c, provider) = [c EXCEPT !.failed = {"Dictionary"}]
      BY <1>4 DEF Ask
    <2>2. Ask(p, code, c, provider).proposals = c.proposals
      BY <2>1 DEF Collection
    <2>. QED
      BY <1>2, <2>2
  <1>5. CASE ~(c.failed # {} \/ remaining <= 0) /\ ~provider.fails
    <2>1. PICK limit \in Nat : limit = remaining
      BY <1>1, <1>5
    <2>2. PICK qs, found : /\ qs = ProviderGenerate(provider, code, limit)
                           /\ found = lookup_prefix(provider.entries, code, limit)
      OBVIOUS
    <2>3. /\ qs \in Seq(Proposal) /\ Len(qs) = Len(found) /\ found \in Seq(Entry)
          /\ \A i \in 1..Len(found) : qs[i] = Proposed(found[i], code)
      BY <2>2, ProvidersPropose
    <2>4. \A i \in 1..Len(found) :
             \E h \in Hits(provider.entries, code) : found[i] = provider.entries[h]
      <3>1. provider.entries \in Seq(Entry)
        BY DEF Provider
      <3>2. LooksUp(provider.entries, code, limit, found)
        BY <2>2, <3>1, PrefixLookup
      <3>. QED
        BY <3>2 DEF LooksUp
    <2>5. ASSUME NEW i \in 1..Len(qs)
          PROVE  IsListed(p, code, qs[i].text)
      <3>1. PICK h \in Hits(provider.entries, code) : found[i] = provider.entries[h]
        BY <2>3, <2>4
      <3>2. Proposed(found[i], code).text = found[i].text
        BY DEF Proposed
      <3>3. qs[i] = Proposed(found[i], code)
        BY <2>3
      <3>4. qs[i].text = provider.entries[h].text
        BY <3>1, <3>2, <3>3
      <3>. QED
        BY <1>2, <3>4 DEF IsListed
    <2>6. PICK ps : ps = c.proposals \o qs
      OBVIOUS
    <2>7. Ask(p, code, c, provider).proposals = ps
      <3>1. Ask(p, code, c, provider) = [c EXCEPT !.proposals = ps]
        BY <1>5, <2>1, <2>2, <2>6 DEF Ask
      <3>. QED
        BY <3>1 DEF Collection
    <2>8. Len(qs) \in Nat
      BY <2>3, LenProperties
    <2>9. PICK cs \in Seq(Proposal) : cs = c.proposals
      BY <1>1
    <2>10. /\ Len(ps) = Len(cs) + Len(qs)
           /\ \A i \in 1..Len(cs) + Len(qs) :
                 ps[i] = IF i <= Len(cs) THEN cs[i] ELSE qs[i - Len(cs)]
      <3>1. ps = cs \o qs /\ qs \in Seq(Proposal)
        BY <2>3, <2>6, <2>9
      <3>. QED
        BY <3>1, ConcatProperties, ZenonT(40)
    <2>11. ASSUME NEW i \in 1..Len(ps)
           PROVE  IsListed(p, code, ps[i].text)
      <3>1. /\ Len(ps) = Len(c.proposals) + Len(qs)
            /\ ps[i] = IF i <= Len(c.proposals) THEN c.proposals[i]
                       ELSE qs[i - Len(c.proposals)]
        BY <2>9, <2>10
      <3>2. CASE i <= Len(c.proposals)
        BY <1>1, <3>1, <3>2 DEF AllListed
      <3>3. CASE ~(i <= Len(c.proposals))
        <4>1. i - Len(c.proposals) \in 1..Len(qs)
          <5>1. PICK L \in Nat, k \in Nat : L = Len(c.proposals) /\ k = Len(qs)
            BY <1>1, <2>8
          <5>2. i \in 1..(L + k) /\ ~(i <= L)
            BY <3>1, <3>3, <5>1
          <5>3. i - L \in 1..k
            BY <5>2
          <5>. QED
            BY <5>1, <5>3
        <4>. QED
          BY <2>5, <3>1, <3>3, <4>1
      <3>. QED
        BY <3>2, <3>3
    <2>. QED
      BY <1>2, <2>7, <2>11 DEF AllListed
  <1>. QED
    BY <1>2, <1>3, <1>4, <1>5

\* So the loop collects only such texts.
LEMMA CollectedListed ==
    ASSUME NEW p \in Pipeline, NEW code \in Bytes, code # <<>>
    PROVE  /\ Collected(p, code).proposals \in Seq(Proposal)
           /\ AllListed(p, code, Collected(p, code).proposals)
  <1>0. PICK N : N = Len(p.providers)
    OBVIOUS
  <1>1. N \in Nat
    BY <1>0, CollectedSteps
  <1>2. PICK f \in [0..N -> Collection] :
           /\ f[0] = [proposals |-> <<>>, failed |-> {}]
           /\ \A n \in 1..N : f[n] = Ask(p, code, f[n - 1], p.providers[n])
           /\ Collected(p, code) = f[N]
    BY <1>0, CollectedSteps
  <1>. DEFINE S == {n \in Nat : n <= N => AllListed(p, code, f[n].proposals)}
  <1>3. 0 \in S
    <2>1. f[0].proposals = <<>> /\ 1..Len(<<>>) = {}
      BY <1>2
    <2>. QED
      BY <2>1 DEF AllListed
  <1>4. ASSUME NEW n \in Nat, n \in S
        PROVE  n + 1 \in S
    <2>. SUFFICES ASSUME n + 1 <= N PROVE AllListed(p, code, f[n + 1].proposals)
      OBVIOUS
    <2>1. n + 1 \in 1..N /\ (n + 1) - 1 = n /\ n <= N /\ n \in 0..N
      BY <1>1
    <2>2. AllListed(p, code, f[n].proposals) /\ f[n] \in Collection
      BY <1>2, <1>4, <2>1
    <2>3. f[n + 1] = Ask(p, code, f[n], p.providers[n + 1])
      BY <1>2, <2>1
    <2>. QED
      BY <1>0, <2>1, <2>2, <2>3, AskListed
  <1>5. Nat \subseteq S
    <2>. HIDE DEF S
    <2>. QED
      BY <1>3, <1>4, NatInduct
  <1>6. AllListed(p, code, f[N].proposals)
    BY <1>1, <1>5
  <1>7. f[N].proposals \in Seq(Proposal)
    <2>1. N \in 0..N
      BY <1>1
    <2>. QED
      BY <1>2, <2>1 DEF Collection
  <1>. QED
    BY <1>2, <1>6, <1>7

\* Every candidate is listed under a code that begins with the normalised composition.
LEMMA GeneratedListed ==
    ASSUME NEW p \in Pipeline, NEW composition \in Bytes,
           NEW texts, texts = generate(p, composition).texts, NEW i \in DOMAIN texts
    PROVE  IsListed(p, normalize_input(composition), texts[i])
  <1>0. DOMAIN <<>> = {}
    OBVIOUS
  <1>1. PICK code, collected, M, ranked :
           /\ code = normalize_input(composition)
           /\ collected = Collected(p, code)
           /\ M = deduplicate(collected.proposals)
           /\ ranked = rank(M, p.max_visible_candidates)
    OBVIOUS
  <1>2. /\ composition # <<>>
        /\ texts = [k \in DOMAIN ranked |-> ranked[k].text]
    <2>1. \/ generate(p, composition).texts = <<>>
          \/ /\ composition # <<>>
             /\ generate(p, composition).texts = [k \in DOMAIN ranked |-> ranked[k].text]
      BY <1>1 DEF generate
    <2>. QED
      BY <1>0, <2>1
  <1>3. code \in Bytes /\ code # <<>>
    BY <1>1, <1>2, NormalizedBytes
  <1>4. PICK ps \in Seq(Proposal) : ps = collected.proposals
    BY <1>1, <1>3, CollectedListed
  <1>5. AllListed(p, code, ps)
    BY <1>1, <1>3, <1>4, CollectedListed
  <1>6. OneOfEach(ps, Len(ps), M)
    BY <1>1, <1>4, Deduplicated
  <1>7. PICK n : Ranked(M, p.max_visible_candidates, ranked, n)
    <2>1. p.max_visible_candidates \in Nat
      BY DEF Pipeline
    <2>2. M \in SUBSET Proposal /\ IsFiniteSet(M) /\ \A m, o \in M : m.text = o.text => m = o
      BY <1>6 DEF OneOfEach
    <2>. QED
      BY <1>1, <2>1, <2>2, RankFacts
  <1>8. i \in DOMAIN ranked /\ ranked[i] \in M /\ texts[i] = ranked[i].text
    <2>1. i \in DOMAIN ranked
      BY <1>2
    <2>2. ranked[i] \in M
      BY <1>7, <2>1 DEF Ranked
    <2>. QED
      BY <1>2, <2>1, <2>2
  <1>9. PICK k \in 1..Len(ps) : ps[k].text = ranked[i].text
    BY <1>6, <1>8 DEF OneOfEach, Represents
  <1>. QED
    BY <1>1, <1>5, <1>8, <1>9 DEF AllListed
=============================================================================
