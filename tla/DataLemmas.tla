---------------------------- MODULE DataLemmas ----------------------------
(* Facts about numbers and sequences that the proofs of several components *)
(* need: the smallest and the largest member of a set, division and        *)
(* remainder, sets with one member at most, and what happens to a sequence *)
(* without repetition when an element is put into it or taken out of it.   *)
EXTENDS Integers, SequencesExt, FiniteSetTheorems, SequenceTheorems, TLAPS

-----------------------------------------------------------------------------
(* Numbers and sets.                                                       *)

\* A set of naturals that is not empty has a smallest member.
LEMMA MinFacts ==
  ASSUME NEW S \in SUBSET Nat, S # {}
  PROVE  Min(S) \in S /\ \A y \in S : Min(S) <= y
<1> DEFINE R == {ss \in Nat \X Nat : ss[1] < ss[2]}
<1>1. OpToRel(<, Nat) = R
  BY DEF OpToRel
<1>2. IsWellFoundedOn(R, Nat)
  BY <1>1, NatLessThanWellFounded
<1>3. PICK x \in S : \A y \in S : <<y, x>> \notin R
  <2> HIDE DEF R
  <2> QED BY <1>2, WFMin
<1>4. ASSUME NEW y \in S PROVE x <= y
  <2>1. x \in Nat /\ y \in Nat /\ <<y, x>> \notin R
    BY <1>3
  <2>2. y < x => <<y, x>> \in R
    BY <2>1
  <2> QED BY <2>1, <2>2
<1> QED BY <1>4 DEF Min

\* One that is bounded has a largest.
LEMMA MaxFacts ==
  ASSUME NEW n \in Nat, NEW S \in SUBSET (0 .. n), S # {}
  PROVE  Max(S) \in S /\ \A y \in S : Max(S) >= y
<1> DEFINE T == {n - x : x \in S}
<1>1. T \in SUBSET Nat
  OBVIOUS
<1>0. \A x \in S : n - x \in T
  OBVIOUS
<1>2. Min(T) \in T /\ \A y \in T : Min(T) <= y
  BY <1>0, <1>1, MinFacts
<1>3. PICK x \in S : Min(T) = n - x
  BY <1>2
<1>4. ASSUME NEW y \in S PROVE x >= y
  <2>1. Min(T) <= n - y
    BY <1>0, <1>2
  <2>2. x \in 0 .. n /\ y \in 0 .. n
    OBVIOUS
  <2> QED BY <1>3, <2>1, <2>2
<1> QED BY <1>4 DEF Max

\* Division with remainder.
LEMMA DivMod ==
  ASSUME NEW a \in Nat, NEW b \in Nat \ {0}
  PROVE  /\ a \div b \in Nat /\ a % b \in 0 .. b - 1
         /\ a = (b * (a \div b)) + (a % b)
OBVIOUS

\* A number that is at most b is its own remainder, but b is 0.
LEMMA ModSmall ==
  ASSUME NEW b \in Nat \ {0}, NEW a \in 0 .. b
  PROVE  a % b = IF a = b THEN 0 ELSE a
OBVIOUS

\* Division keeps the order.
LEMMA DivMonotone ==
  ASSUME NEW b \in Nat \ {0}, NEW a \in Nat, NEW c \in Nat, a <= c
  PROVE  a \div b <= c \div b
OBVIOUS

\* What a set with one member at most has for its cardinality.
LEMMA AtMostOne ==
  ASSUME NEW S, \A x, y \in S : x = y
  PROVE  /\ IsFiniteSet(S) /\ Cardinality(S) \in {0, 1}
         /\ Cardinality(S) = 0 <=> S = {}
<1>1. CASE S = {}
  BY <1>1, FS_EmptySet
<1>2. CASE S # {}
  <2>1. PICK x \in S : TRUE
    BY <1>2
  <2>2. S = {x}
    BY <2>1
  <2>3. IsFiniteSet(S) /\ Cardinality(S) = 1
    BY <2>2, FS_Singleton
  <2> QED BY <1>2, <2>3
<1> QED BY <1>1, <1>2

-----------------------------------------------------------------------------
(* Sequences without repetition.                                           *)

\* Append adds one element, and keeps a list free of repetitions if the
\* element was not on it.
LEMMA AppendFacts ==
  ASSUME NEW S, NEW s \in Seq(S), NEW x \in S
  PROVE  /\ Append(s, x) \in Seq(S) /\ Append(s, x) # <<>>
         /\ \A y : y \in ToSet(Append(s, x)) <=> y \in ToSet(s) \/ y = x
         /\ IsInjective(s) /\ x \notin ToSet(s) => IsInjective(Append(s, x))
<1>1. /\ DOMAIN Append(s, x) = 1..(Len(s) + 1) /\ DOMAIN s = 1..Len(s) /\ Len(s) \in Nat
      /\ \A i \in 1..Len(s) : Append(s, x)[i] = s[i]
      /\ Append(s, x)[Len(s) + 1] = x
      /\ Append(s, x) \in Seq(S) /\ Append(s, x) # <<>>
  BY AppendProperties
<1>2. \A y : y \in ToSet(Append(s, x)) <=> y \in ToSet(s) \/ y = x
  BY <1>1 DEF ToSet
<1>3. ASSUME IsInjective(s), x \notin ToSet(s)
      PROVE  IsInjective(Append(s, x))
  BY <1>1, <1>3 DEF IsInjective, ToSet
<1> QED BY <1>1, <1>2, <1>3

\* An element that is put in front.
LEMMA PushFacts ==
  ASSUME NEW S, NEW s \in Seq(S), NEW x \in S
  PROVE  /\ <<x>> \o s \in Seq(S) /\ <<x>> \o s # <<>>
         /\ \A y : y \in ToSet(<<x>> \o s) <=> y \in ToSet(s) \/ y = x
         /\ IsInjective(s) /\ x \notin ToSet(s) => IsInjective(<<x>> \o s)
<1> DEFINE p == <<x>> \o s
<1>0. <<x>> \in Seq(S) /\ Len(<<x>>) = 1 /\ <<x>>[1] = x
  OBVIOUS
<1>1. /\ p \in Seq(S) /\ Len(p) = 1 + Len(s) /\ Len(s) \in Nat
      /\ DOMAIN p = 1..(1 + Len(s)) /\ DOMAIN s = 1..Len(s)
      /\ p[1] = x
      /\ \A i \in 1..Len(s) : p[i + 1] = s[i]
  <2>1. p \in Seq(S) /\ Len(p) = 1 + Len(s) /\ Len(s) \in Nat
    BY <1>0, ConcatProperties
  <2>2. \A i \in 1..(1 + Len(s)) : p[i] = IF i <= 1 THEN <<x>>[i] ELSE s[i - 1]
    BY <1>0, ConcatProperties
  <2> QED BY <1>0, <2>1, <2>2, LenProperties
<1>2. ASSUME NEW y PROVE y \in ToSet(p) <=> y \in ToSet(s) \/ y = x
  <2>1. ASSUME y \in ToSet(p) PROVE y \in ToSet(s) \/ y = x
    <3>1. PICK i \in 1..(1 + Len(s)) : p[i] = y
      BY <1>1, <2>1 DEF ToSet
    <3>2. CASE i = 1
      BY <1>1, <3>1, <3>2
    <3>3. CASE i # 1
      <4>1. i - 1 \in 1..Len(s) /\ (i - 1) + 1 = i
        BY <1>1, <3>3
      <4>2. s[i - 1] = y
        BY <1>1, <3>1, <4>1
      <4> QED BY <1>1, <4>1, <4>2 DEF ToSet
    <3> QED BY <3>2, <3>3
  <2>2. ASSUME y \in ToSet(s) PROVE y \in ToSet(p)
    <3>1. PICK i \in 1..Len(s) : s[i] = y
      BY <1>1, <2>2 DEF ToSet
    <3>2. i + 1 \in 1..(1 + Len(s)) /\ p[i + 1] = y
      BY <1>1, <3>1
    <3> QED BY <1>1, <3>2 DEF ToSet
  <2>3. x \in ToSet(p)
    <3>1. 1 \in DOMAIN p /\ p[1] = x
      BY <1>1
    <3> QED BY <3>1 DEF ToSet
  <2> QED BY <2>1, <2>2, <2>3
<1>3. ASSUME IsInjective(s), x \notin ToSet(s) PROVE IsInjective(p)
  <2> SUFFICES ASSUME NEW i \in DOMAIN p, NEW j \in DOMAIN p, p[i] = p[j] PROVE i = j
    BY DEF IsInjective
  <2>1. \A k \in DOMAIN p : k # 1 => k - 1 \in DOMAIN s /\ p[k] = s[k - 1]
    <3> SUFFICES ASSUME NEW k \in DOMAIN p, k # 1 PROVE k - 1 \in DOMAIN s /\ p[k] = s[k - 1]
      OBVIOUS
    <3>1. k - 1 \in 1..Len(s) /\ (k - 1) + 1 = k
      BY <1>1
    <3> QED BY <1>1, <3>1
  <2>2. \A k \in DOMAIN s : s[k] # x
    BY <1>3 DEF ToSet
  <2>3. CASE i = 1 \/ j = 1
    BY <1>1, <2>1, <2>2, <2>3
  <2>4. CASE i # 1 /\ j # 1
    <3>1. i - 1 = j - 1
      BY <1>3, <2>1, <2>4 DEF IsInjective
    <3> QED BY <1>1, <3>1
  <2> QED BY <2>3, <2>4
<1>4. p # <<>>
  BY <1>1, EmptySeq
<1> QED BY <1>1, <1>2, <1>3, <1>4

\* Tail takes the head away; nothing else leaves the list.
LEMMA PopFacts ==
  ASSUME NEW S, NEW s \in Seq(S), s # <<>>
  PROVE  /\ Tail(s) \in Seq(S) /\ Head(s) \in S /\ Head(s) \in ToSet(s)
         /\ IsInjective(s) =>
              /\ IsInjective(Tail(s))
              /\ \A y : y \in ToSet(Tail(s)) <=> y \in ToSet(s) /\ y # Head(s)
<1> DEFINE r == Tail(s)
<1>1. /\ Len(s) \in Nat /\ Len(s) >= 1 /\ DOMAIN s = 1..Len(s)
      /\ Head(s) = s[1] /\ Head(s) \in S
      /\ r \in Seq(S) /\ DOMAIN r = 1..(Len(s) - 1)
      /\ \A i \in 1..(Len(s) - 1) : r[i] = s[i + 1]
  BY HeadTailProperties, LenProperties, EmptySeq
<1>2. Head(s) \in ToSet(s)
  BY <1>1 DEF ToSet
<1>3. ASSUME IsInjective(s) PROVE IsInjective(r)
  <2> SUFFICES ASSUME NEW i \in DOMAIN r, NEW j \in DOMAIN r, r[i] = r[j] PROVE i = j
    BY DEF IsInjective
  <2>1. i + 1 \in DOMAIN s /\ j + 1 \in DOMAIN s /\ s[i + 1] = s[j + 1]
    BY <1>1
  <2>2. i + 1 = j + 1
    BY <1>3, <2>1 DEF IsInjective
  <2> QED BY <1>1, <2>2
<1>4. ASSUME IsInjective(s), NEW y PROVE y \in ToSet(r) <=> y \in ToSet(s) /\ y # Head(s)
  <2>1. ASSUME y \in ToSet(r) PROVE y \in ToSet(s) /\ y # Head(s)
    <3>1. PICK i \in 1..(Len(s) - 1) : r[i] = y
      BY <1>1, <2>1 DEF ToSet
    <3>2. i + 1 \in DOMAIN s /\ 1 \in DOMAIN s /\ s[i + 1] = y /\ i + 1 # 1
      BY <1>1, <3>1
    <3> QED BY <1>1, <1>4, <3>2 DEF ToSet, IsInjective
  <2>2. ASSUME y \in ToSet(s), y # Head(s) PROVE y \in ToSet(r)
    <3>1. PICK i \in 1..Len(s) : s[i] = y
      BY <1>1, <2>2 DEF ToSet
    <3>2. i - 1 \in 1..(Len(s) - 1) /\ (i - 1) + 1 = i
      BY <1>1, <2>2, <3>1
    <3>3. r[i - 1] = y
      BY <1>1, <3>1, <3>2
    <3> QED BY <1>1, <3>2, <3>3 DEF ToSet
  <2> QED BY <2>1, <2>2
<1> QED BY <1>1, <1>2, <1>3, <1>4

\* An element that is taken out of the middle: by index.
LEMMA RemoveAtByIndex ==
  ASSUME NEW S, NEW s \in Seq(S), NEW i \in DOMAIN s
  PROVE  /\ RemoveAt(s, i) \in Seq(S) /\ Len(RemoveAt(s, i)) = Len(s) - 1
         /\ DOMAIN RemoveAt(s, i) = 1 .. Len(s) - 1
         /\ \A k \in 1 .. Len(s) - 1 : RemoveAt(s, i)[k] = IF k < i THEN s[k] ELSE s[k + 1]
<1> DEFINE r == RemoveAt(s, i)
           n == Len(s)
<1>1. n \in Nat /\ i \in 1 .. n /\ DOMAIN s = 1 .. n /\ \A k \in 1 .. n : s[k] \in S
  BY LenProperties, ElementOfSeq
<1>2. /\ SubSeq(s, 1, i - 1) \in Seq(S) /\ Len(SubSeq(s, 1, i - 1)) = i - 1
      /\ \A k \in 1 .. i - 1 : SubSeq(s, 1, i - 1)[k] = s[k]
  <2>1. \A k \in 1 .. i - 1 : s[k] \in S
    BY <1>1
  <2> QED BY <1>1, <2>1, SubSeqProperties
<1>3. /\ SubSeq(s, i + 1, n) \in Seq(S) /\ Len(SubSeq(s, i + 1, n)) = n - i
      /\ \A k \in 1 .. n - i : SubSeq(s, i + 1, n)[k] = s[k + i]
  <2>1. \A k \in i + 1 .. n : s[k] \in S
    BY <1>1
  <2> QED BY <1>1, <2>1, SubSeqProperties
<1>4. /\ r \in Seq(S) /\ Len(r) = n - 1 /\ DOMAIN r = 1 .. n - 1
      /\ \A k \in 1 .. n - 1 : r[k] = IF k < i THEN s[k] ELSE s[k + 1]
  <2>1. PICK A \in Seq(S) : A = SubSeq(s, 1, i - 1)
    BY <1>2
  <2>2. PICK B \in Seq(S) : B = SubSeq(s, i + 1, n)
    BY <1>3
  <2>3. r = A \o B /\ Len(A) = i - 1 /\ Len(B) = n - i
    BY <1>2, <1>3, <2>1, <2>2 DEF RemoveAt
  <2>4. /\ r \in Seq(S) /\ Len(r) = n - 1
        /\ \A k \in 1 .. n - 1 : r[k] = IF k <= i - 1 THEN A[k] ELSE B[k - (i - 1)]
    <3>1. /\ A \o B \in Seq(S) /\ Len(A \o B) = Len(A) + Len(B)
          /\ \A k \in 1 .. Len(A) + Len(B) : (A \o B)[k] = IF k <= Len(A) THEN A[k] ELSE B[k - Len(A)]
      BY ConcatProperties
    <3>2. (i - 1) + (n - i) = n - 1
      BY <1>1
    <3> HIDE DEF r
    <3> QED BY <2>3, <3>1, <3>2
  <2>5. ASSUME NEW k \in 1 .. n - 1 PROVE r[k] = IF k < i THEN s[k] ELSE s[k + 1]
    <3> HIDE DEF r
    <3>1. CASE k < i
      <4>1. k \in 1 .. i - 1 /\ k <= i - 1
        BY <1>1, <3>1
      <4>2. r[k] = A[k] /\ A[k] = s[k]
        BY <1>2, <2>1, <2>4, <4>1
      <4> QED BY <3>1, <4>2
    <3>2. CASE ~(k < i)
      <4>1. k - (i - 1) \in 1 .. n - i /\ (k - (i - 1)) + i = k + 1 /\ ~(k <= i - 1)
        BY <1>1, <3>2
      <4>2. r[k] = B[k - (i - 1)]
        BY <2>4, <4>1
      <4>3. B[k - (i - 1)] = s[(k - (i - 1)) + i]
        BY <1>3, <2>2, <4>1
      <4> QED BY <3>2, <4>1, <4>2, <4>3
    <3> QED BY <3>1, <3>2
  <2> HIDE DEF r
  <2> QED BY <2>4, <2>5, LenProperties
<1> QED BY <1>4

\* The elements that are left then.
LEMMA RemoveAtFacts ==
  ASSUME NEW S, NEW s \in Seq(S), IsInjective(s), NEW i \in DOMAIN s
  PROVE  /\ RemoveAt(s, i) \in Seq(S) /\ IsInjective(RemoveAt(s, i))
         /\ \A y : y \in ToSet(RemoveAt(s, i)) <=> y \in ToSet(s) /\ y # s[i]
<1> DEFINE r == RemoveAt(s, i)
           n == Len(s)
<1>1. n \in Nat /\ i \in 1 .. n /\ DOMAIN s = 1 .. n /\ \A k \in 1 .. n : s[k] \in S
  BY LenProperties, ElementOfSeq
<1>4. /\ r \in Seq(S) /\ DOMAIN r = 1 .. n - 1
      /\ \A k \in 1 .. n - 1 : r[k] = IF k < i THEN s[k] ELSE s[k + 1]
  BY RemoveAtByIndex
<1> HIDE DEF r
<1>5. IsInjective(r)
  <2> SUFFICES ASSUME NEW k \in DOMAIN r, NEW j \in DOMAIN r, r[k] = r[j] PROVE k = j
    BY DEF IsInjective
  <2> DEFINE at(x) == IF x < i THEN x ELSE x + 1
  <2>1. at(k) \in DOMAIN s /\ at(j) \in DOMAIN s /\ s[at(k)] = s[at(j)]
    BY <1>1, <1>4
  <2>2. at(k) = at(j)
    BY <2>1 DEF IsInjective
  <2> QED BY <1>1, <1>4, <2>2
<1>6. ASSUME NEW y PROVE y \in ToSet(r) <=> y \in ToSet(s) /\ y # s[i]
  <2>1. ASSUME y \in ToSet(r) PROVE y \in ToSet(s) /\ y # s[i]
    <3>1. PICK k \in 1 .. n - 1 : r[k] = y
      BY <1>4, <2>1 DEF ToSet
    <3>2. PICK j \in 1 .. n : s[j] = y /\ j # i
      BY <1>1, <1>4, <3>1
    <3> QED BY <1>1, <3>2 DEF ToSet, IsInjective
  <2>2. ASSUME y \in ToSet(s), y # s[i] PROVE y \in ToSet(r)
    <3>1. PICK j \in 1 .. n : s[j] = y
      BY <1>1, <2>2 DEF ToSet
    <3>2. CASE j < i
      BY <1>1, <1>4, <3>1, <3>2 DEF ToSet
    <3>3. CASE ~(j < i)
      <4>1. j - 1 \in 1 .. n - 1 /\ ~(j - 1 < i) /\ (j - 1) + 1 = j
        BY <1>1, <2>2, <3>1, <3>3
      <4>2. r[j - 1] = y
        BY <1>4, <3>1, <4>1
      <4> QED BY <1>4, <4>1, <4>2 DEF ToSet
    <3> QED BY <3>2, <3>3
  <2> QED BY <2>1, <2>2
<1> QED BY <1>4, <1>5, <1>6 DEF r

\* Two sequences with nothing in common, one behind the other.
LEMMA ConcatFacts ==
  ASSUME NEW S, NEW s \in Seq(S), NEW r \in Seq(S)
  PROVE  /\ s \o r \in Seq(S)
         /\ \A y : y \in ToSet(s \o r) <=> y \in ToSet(s) \/ y \in ToSet(r)
         /\ IsInjective(s) /\ IsInjective(r) /\ ToSet(s) \cap ToSet(r) = {} => IsInjective(s \o r)
<1> DEFINE p == s \o r
           n == Len(s)
           m == Len(r)
<1>1. /\ n \in Nat /\ m \in Nat /\ DOMAIN s = 1 .. n /\ DOMAIN r = 1 .. m
      /\ p \in Seq(S) /\ DOMAIN p = 1 .. n + m
      /\ \A k \in 1 .. n + m : p[k] = IF k <= n THEN s[k] ELSE r[k - n]
  BY ConcatProperties, LenProperties
<1> HIDE DEF p, n, m
<1>2. ASSUME NEW k \in 1 .. n + m
      PROVE  \/ k <= n /\ k \in DOMAIN s /\ p[k] = s[k]
             \/ k > n /\ k - n \in DOMAIN r /\ p[k] = r[k - n]
  <2>1. k \in Int /\ p[k] = IF k <= n THEN s[k] ELSE r[k - n]
    BY <1>1
  <2>2. CASE k <= n
    <3>1. k \in 1 .. n
      BY <1>1, <2>2
    <3>2. p[k] = s[k]
      BY <2>1, <2>2
    <3>3. k \in DOMAIN s
      BY <1>1, <3>1
    <3> QED BY <2>2, <3>2, <3>3
  <2>3. CASE ~(k <= n)
    <3>1. k > n /\ k - n \in 1 .. m
      BY <1>1, <2>3
    <3> QED BY <1>1, <2>1, <2>3, <3>1
  <2> QED BY <2>2, <2>3
<1>3. ASSUME NEW y PROVE y \in ToSet(p) <=> y \in ToSet(s) \/ y \in ToSet(r)
  <2>1. ASSUME y \in ToSet(p) PROVE y \in ToSet(s) \/ y \in ToSet(r)
    BY <1>1, <1>2, <2>1 DEF ToSet
  <2>2. ASSUME y \in ToSet(s) PROVE y \in ToSet(p)
    <3>1. PICK k \in 1 .. n : s[k] = y
      BY <1>1, <2>2 DEF ToSet
    <3>2. k \in 1 .. n + m /\ p[k] = y
      BY <1>1, <3>1
    <3> QED BY <1>1, <3>2 DEF ToSet
  <2>3. ASSUME y \in ToSet(r) PROVE y \in ToSet(p)
    <3>1. PICK k \in 1 .. m : r[k] = y
      BY <1>1, <2>3 DEF ToSet
    <3>2. k + n \in 1 .. n + m /\ ~(k + n <= n) /\ (k + n) - n = k
      BY <1>1
    <3>3. p[k + n] = y
      BY <1>1, <3>1, <3>2
    <3> QED BY <1>1, <3>2, <3>3 DEF ToSet
  <2> QED BY <2>1, <2>2, <2>3
<1>4. ASSUME IsInjective(s), IsInjective(r), ToSet(s) \cap ToSet(r) = {} PROVE IsInjective(p)
  <2> SUFFICES ASSUME NEW i \in 1 .. n + m, NEW j \in 1 .. n + m, p[i] = p[j] PROVE i = j
    BY <1>1 DEF IsInjective
  <2>1. CASE i <= n /\ j <= n
    BY <1>1, <1>4, <2>1 DEF IsInjective
  <2>2. CASE i > n /\ j > n
    <3>1. i - n \in DOMAIN r /\ j - n \in DOMAIN r /\ r[i - n] = r[j - n]
      BY <1>1, <2>2
    <3>2. i - n = j - n
      BY <1>4, <3>1 DEF IsInjective
    <3> QED BY <1>1, <3>2
  <2>3. \A k \in DOMAIN s : \A l \in DOMAIN r : s[k] # r[l]
    BY <1>4 DEF ToSet
  <2> QED BY <1>1, <1>2, <2>1, <2>2, <2>3
<1> QED BY <1>1, <1>3, <1>4 DEF p
=============================================================================
