------------------------------ MODULE LibProofs -----------------------------
(* What is proved of lib/kernel.  bitmap_scan finds the first run of clear *)
(* bits, for bitmaps of any length and runs of any length: the third       *)
(* loop's count is given a closed form, of which everything else follows.  *)
(* Each call of list.c leaves the pointers what the lists should be, so    *)
(* that they are in every state, and a thread in elem_find stays on the    *)
(* ready list.                                                             *)
EXTENDS ListInv, Bitmap, DataLemmas

-----------------------------------------------------------------------------
(* bitmap_scan: the first two loops.                                       *)

LEMMA TotalType == Total \in Nat /\ Width \in Nat \ {0} /\ Bytes \in Nat \ {0} /\ MaxCnt \in Nat \ {0}
BY BitmapAssumption DEF Total

\* Every bit of the bitmap is in one of its bytes.
LEMMA BitInByte ==
  ASSUME NEW i \in 0 .. Total - 1
  PROVE  /\ i \div Width \in 0 .. Bytes - 1 /\ i % Width \in 0 .. Width - 1
         /\ i = Width * (i \div Width) + (i % Width)
<1>1. Width \in Nat \ {0} /\ Bytes \in Nat \ {0} /\ i \in Nat
  BY TotalType
<1> DEFINE q == i \div Width
           r == i % Width
<1>2. q \in Nat /\ r \in 0 .. Width - 1 /\ i = (Width * q) + r
  BY <1>1, DivMod
<1> HIDE DEF q, r
<1>3. q < Bytes
  <2>1. ASSUME q >= Bytes PROVE FALSE
    <3>1. Width * q >= Width * Bytes
      BY <1>1, <1>2, <2>1
    <3>2. i < Width * Bytes
      BY <1>1 DEF Total
    <3>3. Width * q \in Nat /\ Width * Bytes \in Nat
      BY <1>1, <1>2
    <3> QED BY <1>1, <1>2, <3>1, <3>2, <3>3
  <2> QED BY <1>1, <1>2, <2>1
<1>4. q \in 0 .. Bytes - 1
  BY <1>1, <1>2, <1>3
<1> QED BY <1>2, <1>4 DEF q, r

\* And every bit of a byte is one of the bitmap.
LEMMA ByteInBitmap ==
  ASSUME NEW k \in 0 .. Bytes - 1, NEW j \in 0 .. Width - 1
  PROVE  /\ Width * k \in Nat /\ Width * k + j \in 0 .. Total - 1
         /\ \A l \in 0 .. k - 1 : \A m \in 0 .. Width - 1 : Width * l + m < Width * k
<1>1. Width \in Nat \ {0} /\ Bytes \in Nat \ {0} /\ Total = Width * Bytes /\ Total \in Nat
  BY TotalType DEF Total
<1>2. Width * k \in Nat /\ Width * (k + 1) = (Width * k) + Width
  BY <1>1
<1>3. Width * (k + 1) <= Width * Bytes
  BY <1>1
<1>4. ASSUME NEW l \in 0 .. k - 1, NEW m \in 0 .. Width - 1 PROVE Width * l + m < Width * k
  <2>1. Width * (l + 1) <= Width * k /\ Width * (l + 1) = (Width * l) + Width /\ Width * l \in Nat
    BY <1>1
  <2> QED BY <1>1, <1>2, <2>1
<1> QED BY <1>1, <1>2, <1>3, <1>4

\* The byte with the first clear bit in it, and the bit: the first clear bit.
LEMMA StartIsFirstClear ==
  ASSUME NEW b \in [Bit -> BOOLEAN], ~ScanPanics(b, Total)
  PROVE  Start(b) \in 0 .. Total - 1 /\ ~b[Start(b)] /\ \A i \in 0 .. Start(b) - 1 : b[i]
<1> DEFINE B == {k \in 0 .. Bytes - 1 : \E j \in 0 .. Width - 1 : ~b[Width * k + j]}
           K == FirstByte(b)
           J == {j \in 0 .. Width - 1 : ~b[Width * K + j]}
<1>0. Width \in Nat \ {0} /\ Bytes \in Nat \ {0} /\ Total \in Nat
  BY TotalType
<1>1. K \in 0 .. Bytes - 1 /\ J # {} /\ \A k \in B : K <= k
  <2>1. PICK i \in 0 .. Total - 1 : ~b[i]
    BY DEF ScanPanics
  <2>2. i \div Width \in B
    <3> DEFINE q == i \div Width
               r == i % Width
    <3>1. q \in 0 .. Bytes - 1 /\ r \in 0 .. Width - 1 /\ i = Width * q + r
      BY BitInByte
    <3> HIDE DEF q, r
    <3>2. q \in B
      BY <2>1, <3>1
    <3> QED BY <3>2 DEF q
  <2>3. K \in B /\ \A k \in B : K <= k
    <3>0. \A k \in B : k \in Nat
      OBVIOUS
    <3>1. B \in SUBSET Nat /\ B # {}
      <4> HIDE DEF B
      <4> QED BY <2>2, <3>0
    <3> HIDE DEF B
    <3>2. Min(B) \in B /\ \A k \in B : Min(B) <= k
      BY <3>1, MinFacts
    <3> QED BY <3>2 DEF FirstByte, B
  <2> HIDE DEF K
  <2> QED BY <2>3
<1> HIDE DEF K
<1>2. Min(J) \in 0 .. Width - 1 /\ ~b[Width * K + Min(J)] /\ \A j \in J : Min(J) <= j
  <2>1. J \in SUBSET Nat /\ J # {}
    BY <1>0, <1>1
  <2> HIDE DEF J
  <2>2. Min(J) \in J /\ \A j \in J : Min(J) <= j
    BY <2>1, MinFacts
  <2> QED BY <2>2 DEF J
<1>3. Start(b) = Width * K + Min(J)
  BY DEF Start, K
<1> DEFINE m == Min(J)
<1>4. Width * K \in Nat /\ Width * K + m \in 0 .. Total - 1
  BY <1>1, <1>2, ByteInBitmap
<1>5. ASSUME NEW i \in 0 .. Start(b) - 1 PROVE b[i]
  <2> DEFINE q == i \div Width
             r == i % Width
  <2>1. i \in 0 .. Total - 1
    BY <1>0, <1>3, <1>4
  <2>2. q \in 0 .. Bytes - 1 /\ r \in 0 .. Width - 1 /\ i = Width * q + r
    BY <2>1, BitInByte
  <2> HIDE DEF q, r, m
  <2>3. SUFFICES ASSUME ~b[i] PROVE FALSE
    BY <2>1 DEF Bit
  <2>4. q \in B
    BY <2>2, <2>3
  <2>5. K <= q
    BY <1>1, <2>4
  <2>6. CASE K = q
    <3>1. r \in J
      BY <2>2, <2>3, <2>6
    <3>2. m <= r
      BY <1>2, <3>1 DEF m
    <3>3. m \in 0 .. Width - 1 /\ Start(b) = Width * K + m
      BY <1>2, <1>3 DEF m
    <3> QED BY <1>0, <1>4, <2>2, <2>6, <3>2, <3>3
  <2>7. CASE K < q
    <3>1. m \in 0 .. Width - 1 /\ Start(b) = Width * K + m
      BY <1>2, <1>3 DEF m
    <3>2. Width * K + m < Width * q /\ Width * q \in Nat
      BY <1>1, <2>2, <2>7, <3>1, ByteInBitmap
    <3> QED BY <1>0, <1>4, <2>2, <3>1, <3>2
  <2> QED BY <1>1, <2>2, <2>5, <2>6, <2>7
<1> QED BY <1>2, <1>3, <1>4, <1>5 DEF m

-----------------------------------------------------------------------------
(* The third loop.                                                         *)

\* The first bit of the clear bits in a row that end in bit i.
RowFrom(b, i) == {j \in Start(b) .. i + 1 : \A k \in j .. i : ~b[k]}
RowStart(b, i) == Min(RowFrom(b, i))

\* The closed form of the loop's count.
RowLength(b) == [i \in Start(b) .. Total |-> i + 1 - RowStart(b, i)]

LEMMA RowStartFacts ==
  ASSUME NEW b \in [Bit -> BOOLEAN], ~ScanPanics(b, Total), NEW i \in Start(b) .. Total
  PROVE  /\ RowStart(b, i) \in Start(b) .. i + 1
         /\ \A k \in RowStart(b, i) .. i : ~b[k]
         /\ \A j \in Start(b) .. i + 1 : (\A k \in j .. i : ~b[k]) => RowStart(b, i) <= j
<1>1. Start(b) \in 0 .. Total - 1 /\ Total \in Nat
  BY StartIsFirstClear, TotalType
<1> DEFINE R == RowFrom(b, i)
<1>2. i + 1 \in R
  BY <1>1 DEF RowFrom
<1>3. \A j \in R : j \in Nat
  BY <1>1 DEF RowFrom
<1>4. R \in SUBSET Nat /\ R # {}
  <2> HIDE DEF R
  <2> QED BY <1>2, <1>3
<1>5. Min(R) \in R /\ \A j \in R : Min(R) <= j
  <2> HIDE DEF R
  <2> QED BY <1>4, MinFacts
<1> QED BY <1>5 DEF RowStart, RowFrom

\* The closed form obeys the loop's recursion.
LEMMA RowLengthRecursion ==
  ASSUME NEW b \in [Bit -> BOOLEAN], ~ScanPanics(b, Total), NEW i \in Start(b) .. Total
  PROVE  RowLength(b)[i] = IF i = Start(b) THEN 1 ELSE IF b[i] THEN 0 ELSE RowLength(b)[i - 1] + 1
<1> DEFINE S == Start(b)
           r == RowStart(b, i)
<1>1. S \in 0 .. Total - 1 /\ Total \in Nat /\ ~b[S]
  BY StartIsFirstClear, TotalType
<1>2. /\ r \in S .. i + 1
      /\ \A k \in r .. i : ~b[k]
      /\ \A j \in S .. i + 1 : (\A k \in j .. i : ~b[k]) => r <= j
  BY RowStartFacts
<1>3. RowLength(b)[i] = i + 1 - r
  BY DEF RowLength
<1> HIDE DEF S, r
<1>4. CASE i = S
  <2>1. r <= S
    <3>1. \A k \in S .. i : ~b[k]
      BY <1>1, <1>4
    <3> QED BY <1>1, <1>2, <1>4, <3>1
  <2>2. r = S
    BY <1>1, <1>2, <2>1
  <2> QED BY <1>1, <1>3, <1>4, <2>2 DEF S
<1>5. CASE i # S /\ b[i]
  <2>1. r = i + 1
    BY <1>1, <1>2, <1>5
  <2> QED BY <1>1, <1>3, <1>5, <2>1 DEF S
<1>6. CASE i # S /\ ~b[i]
  <2> DEFINE q == RowStart(b, i - 1)
  <2>0. i - 1 \in S .. Total /\ i \in Nat
    BY <1>1, <1>6 DEF S
  <2>1. /\ q \in S .. i
        /\ \A k \in q .. i - 1 : ~b[k]
        /\ \A j \in S .. i : (\A k \in j .. i - 1 : ~b[k]) => q <= j
    <3>1. i - 1 \in Start(b) .. Total /\ (i - 1) + 1 = i
      BY <2>0 DEF S
    <3> QED BY <3>1, RowStartFacts DEF S
  <2>2. RowLength(b)[i - 1] = (i - 1) + 1 - q
    BY <2>0 DEF RowLength, S
  <2> HIDE DEF q
  <2>3. r <= q
    <3>1. \A k \in q .. i : ~b[k]
      BY <1>6, <2>0, <2>1
    <3> QED BY <1>1, <1>2, <2>0, <2>1, <3>1
  <2>4. q <= r
    <3>1. r # i + 1
      BY <2>0, <2>1, <2>3
    <3>2. r \in S .. i /\ \A k \in r .. i - 1 : ~b[k]
      BY <1>1, <1>2, <2>0, <3>1
    <3> QED BY <2>1, <3>2
  <2>5. q = r
    BY <1>1, <1>2, <2>0, <2>1, <2>3, <2>4
  <2> QED BY <1>1, <1>2, <1>3, <1>6, <2>0, <2>2, <2>5 DEF S
<1>7. b[i] \in BOOLEAN
  BY <1>1 DEF Bit, S
<1> QED BY <1>4, <1>5, <1>6, <1>7

\* What the recursion of Count says, with g in place of count on the right.
Turn(b, g) ==
  [i \in Start(b) .. Total |->
     IF i = Start(b) THEN 1 ELSE IF b[i] THEN 0 ELSE g[i - 1] + 1]

\* The recursion has the closed form for a solution, and no other: the first bit
\* at which two of them differ could not be, because they agree on the bit before.
LEMMA CountIsRowLength ==
  ASSUME NEW b \in [Bit -> BOOLEAN], ~ScanPanics(b, Total)
  PROVE  Count(b) = RowLength(b)
<1> DEFINE S == Start(b)
           g == RowLength(b)
           c == CHOOSE count : count = Turn(b, count)
<1>1. S \in 0 .. Total - 1 /\ Total \in Nat
  BY StartIsFirstClear, TotalType
<1>2. g = Turn(b, g)
  <2>1. g = [i \in S .. Total |-> g[i]]
    BY DEF RowLength
  <2>2. \A i \in S .. Total : g[i] = Turn(b, g)[i]
    BY RowLengthRecursion DEF Turn
  <2>3. Turn(b, g) = [i \in S .. Total |-> Turn(b, g)[i]]
    BY DEF Turn
  <2> HIDE DEF g
  <2> QED BY <2>1, <2>2, <2>3
<1>3. c = Turn(b, c)
  BY <1>2
<1>4. Count(b) = c
  BY DEF Count, Turn
<1> HIDE DEF c, g
<1> DEFINE D == {i \in S .. Total : c[i] # g[i]}
<1>5. ASSUME D # {} PROVE FALSE
  <2>1. \A i \in D : i \in Nat
    BY <1>1
  <2>2. D \in SUBSET Nat
    <3> HIDE DEF D
    <3> QED BY <2>1
  <2> DEFINE m == Min(D)
  <2>3. m \in D /\ \A i \in D : m <= i
    <3> HIDE DEF D
    <3> QED BY <1>5, <2>2, MinFacts
  <2> HIDE DEF m
  <2>4. m \in S .. Total /\ c[m] # g[m]
    BY <2>3
  <2>5. c[m] = Turn(b, c)[m] /\ g[m] = Turn(b, g)[m]
    BY <1>2, <1>3
  <2>6. CASE m = S
    BY <2>4, <2>5, <2>6 DEF Turn
  <2>7. CASE m # S
    <3>1. m - 1 \in S .. Total /\ m - 1 \notin D
      BY <1>1, <2>3, <2>4, <2>7
    <3>2. c[m - 1] = g[m - 1]
      BY <3>1
    <3>3. b[m] \in BOOLEAN
      BY <1>1, <2>4 DEF Bit
    <3> QED BY <2>4, <2>5, <2>7, <3>2, <3>3 DEF Turn
  <2> QED BY <2>6, <2>7
<1>6. c = [i \in S .. Total |-> c[i]] /\ g = [i \in S .. Total |-> g[i]]
  BY <1>2, <1>3 DEF Turn
<1>7. \A i \in S .. Total : c[i] = g[i]
  BY <1>5
<1>8. c = g
  <2> HIDE DEF S
  <2> QED BY <1>6, <1>7
<1> QED BY <1>4, <1>8 DEF g

-----------------------------------------------------------------------------
(* What the scan returns.                                                  *)

\* A run of clear bits begins behind the first clear bit; in it the loop counts
\* to its length; and where the loop has counted to cnt, a run of cnt ends.
LEMMA HitsEndRuns ==
  ASSUME NEW b \in [Bit -> BOOLEAN], ~ScanPanics(b, Total), NEW cnt \in Nat, cnt > 1
  PROVE  LET hits == {i \in Tested(b) : Count(b)[i] = cnt} IN
           /\ \A i \in hits : i - cnt + 1 \in Runs(b, Total, cnt)
           /\ \A s \in Runs(b, Total, cnt) : \E i \in hits : i <= s + cnt - 1
<1> DEFINE S == Start(b)
           hits == {i \in Tested(b) : Count(b)[i] = cnt}
<1>1. S \in 0 .. Total - 1 /\ Total \in Nat /\ \A i \in 0 .. S - 1 : b[i]
  BY StartIsFirstClear, TotalType
<1>2. \A i \in S .. Total : Count(b)[i] = i + 1 - RowStart(b, i)
  BY CountIsRowLength DEF RowLength
<1>3. ASSUME NEW i \in hits PROVE i - cnt + 1 \in Runs(b, Total, cnt)
  <2> DEFINE r == RowStart(b, i)
  <2>1. i \in S + 1 .. Total
    BY DEF Tested
  <2>2. i \in S .. Total
    BY <1>1, <2>1
  <2>3. r \in S .. i + 1 /\ \A k \in r .. i : ~b[k]
    BY <2>2, RowStartFacts
  <2>4. i + 1 - r = cnt
    BY <1>2, <2>2
  <2> HIDE DEF r, hits, S
  <2>5. r = i - cnt + 1 /\ r + cnt - 1 = i
    BY <1>1, <2>2, <2>3, <2>4
  <2>6. r \in 0 .. Total - 1 /\ r + cnt <= Total + 1 /\ cnt # 1
    BY <1>1, <2>1, <2>3, <2>5
  <2> QED BY <2>3, <2>5, <2>6 DEF Runs
<1>4. ASSUME NEW s \in Runs(b, Total, cnt) PROVE \E i \in hits : i <= s + cnt - 1
  <2> DEFINE e == s + cnt - 1
             r == RowStart(b, e)
             i == r + cnt - 1
  <2>1. s \in 0 .. Total - 1 /\ e <= Total /\ \A k \in s .. e : ~b[k]
    BY <1>1 DEF Runs
  <2>2. s >= S
    <3>1. ~b[s]
      BY <1>1, <2>1
    <3> QED BY <1>1, <2>1, <3>1
  <2>3. e \in S .. Total /\ s \in S .. e + 1
    BY <1>1, <2>1, <2>2
  <2>4. r \in S .. e + 1 /\ r <= s /\ \A k \in r .. e : ~b[k]
    BY <2>1, <2>3, RowStartFacts
  <2>5. \A j \in S .. e + 1 : (\A k \in j .. e : ~b[k]) => r <= j
    BY <2>3, RowStartFacts
  <2> HIDE DEF r
  <2>6. i \in S + 1 .. Total /\ i <= e /\ i \in S .. Total
    BY <1>1, <2>1, <2>3, <2>4
  <2> DEFINE q == RowStart(b, i)
  <2>7. q \in S .. i + 1 /\ \A k \in q .. i : ~b[k]
    BY <2>6, RowStartFacts
  <2>8. \A j \in S .. i + 1 : (\A k \in j .. i : ~b[k]) => q <= j
    BY <2>6, RowStartFacts
  <2> HIDE DEF q
  <2>9. q <= r
    <3>1. r \in S .. i + 1 /\ \A k \in r .. i : ~b[k]
      BY <1>1, <2>1, <2>3, <2>4, <2>6
    <3> QED BY <2>8, <3>1
  <2>10. r <= q
    <3>1. ASSUME NEW k \in q .. e PROVE ~b[k]
      <4>1. CASE k <= i
        BY <1>1, <2>1, <2>6, <2>7, <4>1
      <4>2. CASE k > i
        <5>1. k \in r .. e
          BY <1>1, <2>1, <2>3, <2>4, <2>6, <2>7, <4>2
        <5> QED BY <2>4, <5>1
      <4> QED BY <1>1, <2>1, <2>6, <2>7, <4>1, <4>2
    <3>2. q \in S .. e + 1
      BY <1>1, <2>1, <2>3, <2>6, <2>7
    <3> QED BY <2>5, <3>1, <3>2
  <2>11. q = r
    BY <1>1, <2>3, <2>4, <2>7, <2>9, <2>10
  <2>12. Count(b)[i] = cnt
    <3>1. Count(b)[i] = i + 1 - q
      BY <1>2, <2>6 DEF q
    <3> QED BY <1>1, <2>3, <2>4, <2>11, <3>1
  <2>13. i \in hits
    <3> HIDE DEF i
    <3> QED BY <2>6, <2>12 DEF Tested
  <2> QED BY <2>6, <2>13
<1> QED BY <1>3, <1>4

\* A single bit: the scan ends with the second loop.
LEMMA SingleBit ==
  ASSUME NEW b \in [Bit -> BOOLEAN], ~ScanPanics(b, Total)
  PROVE  FirstRun(b, Total, 1) = Start(b)
<1> DEFINE R == Runs(b, Total, 1)
<1>1. Start(b) \in 0 .. Total - 1 /\ ~b[Start(b)] /\ (\A i \in 0 .. Start(b) - 1 : b[i]) /\ Total \in Nat
  BY StartIsFirstClear, TotalType
<1>2. Start(b) \in R
  BY <1>1 DEF Runs
<1>3. \A s \in R : s \in 0 .. Total - 1 /\ ~b[s]
  BY <1>1 DEF Runs
<1>4. R \in SUBSET Nat
  <2> HIDE DEF R
  <2> QED BY <1>1, <1>3
<1>5. Min(R) \in R /\ \A s \in R : Min(R) <= s
  <2> HIDE DEF R
  <2> QED BY <1>2, <1>4, MinFacts
<1>6. Min(R) \in 0 .. Total - 1 /\ ~b[Min(R)] /\ Min(R) <= Start(b)
  <2> HIDE DEF R
  <2> QED BY <1>2, <1>3, <1>5
<1>7. Min(R) = Start(b)
  <2> HIDE DEF R
  <2> QED BY <1>1, <1>6
<1> QED BY <1>2, <1>7 DEF FirstRun

\* The loops of bitmap_scan compute FirstRun, for any contents and any cnt.
LEMMA ScanComputesFirstRun ==
  ASSUME NEW b \in [Bit -> BOOLEAN], ~ScanPanics(b, Total), NEW cnt \in Nat \ {0}
  PROVE  bitmap_scan(b, cnt) = FirstRun(b, Total, cnt)
<1> DEFINE hits == {i \in Tested(b) : Count(b)[i] = cnt}
           R == Runs(b, Total, cnt)
<1>1. Start(b) \in 0 .. Total - 1 /\ Total \in Nat
  BY StartIsFirstClear, TotalType
<1>2. CASE cnt = 1
  <2>1. bitmap_scan(b, 1) = Start(b)
    BY DEF bitmap_scan
  <2> QED BY <1>2, <2>1, SingleBit
<1>3. CASE cnt # 1
  <2>1. bitmap_scan(b, cnt) = IF hits = {} THEN -1 ELSE Min(hits) - cnt + 1
    BY <1>3 DEF bitmap_scan
  <2>2. FirstRun(b, Total, cnt) = IF R = {} THEN -1 ELSE Min(R)
    BY DEF FirstRun
  <2>3. /\ \A i \in hits : i - cnt + 1 \in R
        /\ \A s \in R : \E i \in hits : i <= s + cnt - 1
    BY <1>3, HitsEndRuns
  <2>4. \A i \in hits : i \in Nat
    BY <1>1 DEF Tested
  <2>5. \A s \in R : s \in Nat
    BY <1>1 DEF Runs
  <2> HIDE DEF hits, R
  <2>6. hits \in SUBSET Nat /\ R \in SUBSET Nat /\ (hits = {} <=> R = {})
    BY <2>3, <2>4, <2>5
  <2>7. ASSUME R # {} PROVE Min(hits) - cnt + 1 = Min(R)
    <3>1. Min(R) \in R /\ \A s \in R : Min(R) <= s
      BY <2>6, <2>7, MinFacts
    <3>2. Min(hits) \in hits /\ \A i \in hits : Min(hits) <= i
      BY <2>6, <2>7, MinFacts
    <3>3. Min(R) <= Min(hits) - cnt + 1
      BY <2>3, <3>1, <3>2
    <3>4. PICK i \in hits : i <= Min(R) + cnt - 1
      BY <2>3, <3>1
    <3>5. Min(hits) <= Min(R) + cnt - 1
      BY <2>4, <2>5, <3>1, <3>2, <3>4
    <3>6. Min(R) \in Nat /\ Min(hits) \in Nat
      BY <2>4, <2>5, <3>1, <3>2
    <3> QED BY <3>3, <3>5, <3>6
  <2> QED BY <2>1, <2>2, <2>6, <2>7
<1> QED BY <1>2, <1>3

\* So it finds the first fit: a run that begins earlier would have to end in the
\* bit behind the bitmap, and the later one would have to end behind that.
LEMMA FirstRunIsFirstFit ==
  ASSUME NEW b \in [Bit -> BOOLEAN], NEW cnt \in Nat \ {0}, NEW s \in 0 .. Total - 1,
         Fits(b, s, cnt), \A r \in 0 .. s - 1 : ~Fits(b, r, cnt)
  PROVE  ~ScanPanics(b, Total) /\ FirstRun(b, Total, cnt) = s
<1> DEFINE R == Runs(b, Total, cnt)
<1>0. Total \in Nat
  BY TotalType
<1>1. s + cnt <= Total /\ \A i \in s .. s + cnt - 1 : ~b[i]
  BY DEF Fits
<1>2. ~ScanPanics(b, Total)
  <2>1. ~b[s]
    BY <1>0, <1>1
  <2> QED BY <2>1 DEF ScanPanics
<1>3. s \in R
  BY <1>0, <1>1 DEF Runs
<1>4. \A r \in R : r \in Nat /\ r >= s
  <2> SUFFICES ASSUME NEW r \in R, r < s PROVE FALSE
    BY <1>0 DEF Runs
  <2>1. r \in 0 .. Total - 1 /\ \A i \in r .. r + cnt - 1 : ~b[i]
    BY DEF Runs
  <2>2. r + cnt <= Total
    BY <1>0, <1>1, <2>1
  <2>3. Fits(b, r, cnt)
    BY <2>1, <2>2 DEF Fits
  <2> QED BY <1>0, <2>1, <2>3
<1> HIDE DEF R
<1>5. R \in SUBSET Nat /\ R # {}
  BY <1>3, <1>4
<1>6. Min(R) \in R /\ Min(R) <= s
  BY <1>3, <1>5, MinFacts
<1>7. Min(R) = s
  BY <1>0, <1>4, <1>6
<1> QED BY <1>2, <1>3, <1>7 DEF FirstRun, R

-----------------------------------------------------------------------------
(* The bitmap as vaddr_get and vaddr_remove use it.                        *)

\* The bitmap stays a bitmap.
LEMMA BitsType == BitmapSpec => [](bits \in [Bit -> BOOLEAN])
<1>1. BitmapInit => bits \in [Bit -> BOOLEAN]
  BY BitmapAssumption DEF BitmapInit
<1>2. bits \in [Bit -> BOOLEAN] /\ [BitmapNext]_bitmapVars => (bits \in [Bit -> BOOLEAN])'
  <2> SUFFICES ASSUME bits \in [Bit -> BOOLEAN], [BitmapNext]_bitmapVars PROVE bits' \in [Bit -> BOOLEAN]
    OBVIOUS
  <2>1. ASSUME NEW cnt \in 1 .. MaxCnt, Get(cnt) PROVE bits' \in [Bit -> BOOLEAN]
    BY <2>1 DEF Get, SetRun
  <2>2. CASE GetFromFull
    BY <2>2 DEF GetFromFull
  <2>3. ASSUME NEW r \in held, VaddrRemove(r) PROVE bits' \in [Bit -> BOOLEAN]
    BY <2>3 DEF VaddrRemove, SetRun
  <2>4. CASE UNCHANGED bitmapVars
    BY <2>4 DEF bitmapVars
  <2> QED BY <2>1, <2>2, <2>3, <2>4 DEF BitmapNext
<1> QED BY <1>1, <1>2, PTL DEF BitmapSpec

\* Whatever was set and cleared before, the three loops of bitmap_scan return
\* BitRuns' FirstRun (bitmap.c:26-61), for bitmaps and runs of any length.
THEOREM ScanCorrect == BitmapSpec => []ScanIsFirstRun
<1>1. bits \in [Bit -> BOOLEAN] => ScanIsFirstRun
  BY ScanComputesFirstRun, TotalType DEF ScanIsFirstRun
<1> QED BY <1>1, BitsType, PTL

\* If cnt clear bits in a row are left, bitmap_scan returns the first such place
\* (bitmap.c:34-60), for bitmaps and runs of any length.
THEOREM ScanIsFirstFit == BitmapSpec => []FindsFirstFit
<1>1. bits \in [Bit -> BOOLEAN] => FindsFirstFit
  <2> SUFFICES ASSUME bits \in [Bit -> BOOLEAN], NEW cnt \in 1 .. MaxCnt, NEW s \in 0 .. Total - 1,
                      Fits(bits, s, cnt), \A r \in 0 .. s - 1 : ~Fits(bits, r, cnt)
               PROVE  bitmap_scan(bits, cnt) = s
    BY DEF FindsFirstFit
  <2>1. cnt \in Nat \ {0}
    BY TotalType
  <2> QED BY <2>1, FirstRunIsFirstFit, ScanComputesFirstRun
<1> QED BY <1>1, BitsType, PTL

-----------------------------------------------------------------------------
(* The lists: their nodes.                                                 *)

LEMMA NodeFacts ==
  /\ \A l, m : Head_(l) # Tail_(m) /\ (Head_(l) = Head_(m) => l = m) /\ (Tail_(l) = Tail_(m) => l = m)
  /\ \A l, x : Head_(l) # Elem(x) /\ Tail_(l) # Elem(x)
  /\ \A x, y : Elem(x) = Elem(y) => x = y
  /\ \A x : Entry(Elem(x)) = x
  /\ \A l \in Names : Head_(l) \in Nodes /\ Tail_(l) \in Nodes
  /\ \A x \in Items : Elem(x) \in Nodes
  /\ Nil \notin Nodes
BY DEF Head_, Tail_, Elem, Entry, Nodes, Nil, Items

LEMMA NodeAtFacts ==
  ASSUME NEW l \in Names, NEW s \in Seq(Items), IsInjective(s)
  PROVE  /\ Len(s) \in Nat
         /\ NodeAt(l, s, 0) = Head_(l) /\ NodeAt(l, s, Len(s) + 1) = Tail_(l)
         /\ \A i \in 1 .. Len(s) : NodeAt(l, s, i) = Elem(s[i]) /\ s[i] \in Items /\ s[i] \in ToSet(s)
         /\ \A i \in 0 .. Len(s) + 1 : NodeAt(l, s, i) \in Nodes
         /\ \A i, j \in 0 .. Len(s) + 1 : NodeAt(l, s, i) = NodeAt(l, s, j) => i = j
<1>1. Len(s) \in Nat /\ DOMAIN s = 1 .. Len(s) /\ \A i \in 1 .. Len(s) : s[i] \in Items
  BY LenProperties, ElementOfSeq
<1>2. NodeAt(l, s, 0) = Head_(l) /\ NodeAt(l, s, Len(s) + 1) = Tail_(l)
  BY <1>1 DEF NodeAt
<1>3. \A i \in 1 .. Len(s) : NodeAt(l, s, i) = Elem(s[i]) /\ s[i] \in ToSet(s)
  BY <1>1 DEF NodeAt, ToSet
<1>4. \A i \in 0 .. Len(s) + 1 : i = 0 \/ i = Len(s) + 1 \/ i \in 1 .. Len(s)
  BY <1>1
<1>5. \A i \in 0 .. Len(s) + 1 : NodeAt(l, s, i) \in Nodes
  BY <1>1, <1>2, <1>3, <1>4, NodeFacts
<1>6. ASSUME NEW i \in 0 .. Len(s) + 1, NEW j \in 0 .. Len(s) + 1, NodeAt(l, s, i) = NodeAt(l, s, j)
      PROVE  i = j
  <2>1. CASE i \in 1 .. Len(s) /\ j \in 1 .. Len(s)
    <3>1. s[i] = s[j]
      BY <2>1, <1>3, <1>6, NodeFacts
    <3> QED BY <3>1, <2>1, <1>1 DEF IsInjective
  <2>2. CASE i \in 1 .. Len(s) /\ j \notin 1 .. Len(s)
    BY <2>2, <1>2, <1>3, <1>4, <1>6, NodeFacts
  <2>3. CASE i \notin 1 .. Len(s) /\ j \in 1 .. Len(s)
    BY <2>3, <1>2, <1>3, <1>4, <1>6, NodeFacts
  <2>4. CASE i \notin 1 .. Len(s) /\ j \notin 1 .. Len(s)
    BY <2>4, <1>2, <1>4, <1>6, NodeFacts
  <2> QED BY <2>1, <2>2, <2>3, <2>4
<1> QED BY <1>1, <1>2, <1>3, <1>5, <1>6

\* Lists with no element in common have no node in common.
LEMMA NodesApart ==
  ASSUME NEW l \in Names, NEW m \in Names, l # m,
         NEW s \in Seq(Items), NEW r \in Seq(Items), IsInjective(s), IsInjective(r),
         ToSet(s) \cap ToSet(r) = {},
         NEW i \in 0 .. Len(s) + 1, NEW j \in 0 .. Len(r) + 1
  PROVE  NodeAt(l, s, i) # NodeAt(m, r, j)
<1>1. /\ Len(s) \in Nat /\ NodeAt(l, s, 0) = Head_(l) /\ NodeAt(l, s, Len(s) + 1) = Tail_(l)
      /\ \A k \in 1 .. Len(s) : NodeAt(l, s, k) = Elem(s[k]) /\ s[k] \in ToSet(s)
  BY NodeAtFacts
<1>2. /\ Len(r) \in Nat /\ NodeAt(m, r, 0) = Head_(m) /\ NodeAt(m, r, Len(r) + 1) = Tail_(m)
      /\ \A k \in 1 .. Len(r) : NodeAt(m, r, k) = Elem(r[k]) /\ r[k] \in ToSet(r)
  BY NodeAtFacts
<1>3. i = 0 \/ i = Len(s) + 1 \/ i \in 1 .. Len(s)
  BY <1>1
<1>4. j = 0 \/ j = Len(r) + 1 \/ j \in 1 .. Len(r)
  BY <1>2
<1>5. CASE i \in 1 .. Len(s) /\ j \in 1 .. Len(r)
  BY <1>5, <1>1, <1>2, NodeFacts
<1>6. CASE i \notin 1 .. Len(s) \/ j \notin 1 .. Len(r)
  BY <1>6, <1>1, <1>2, <1>3, <1>4, NodeFacts
<1> QED BY <1>5, <1>6

-----------------------------------------------------------------------------
(* The fields after list_insert_before and after list_remove.              *)

LEMMA PtrsFacts ==
  ASSUME NEW p \in Ptrs
  PROVE  /\ p.next \in [Nodes -> Nodes \cup {Nil}] /\ p.prev \in [Nodes -> Nodes \cup {Nil}]
         /\ p = [next |-> p.next, prev |-> p.prev]
BY DEF Ptrs

LEMMA InsertFields ==
  ASSUME NEW p \in Ptrs, NEW b \in Nodes, NEW e \in Nodes, p.prev[b] \in Nodes
  PROVE  /\ InsertBefore(p, b, e) \in Ptrs
         /\ \A n \in Nodes :
              /\ InsertBefore(p, b, e).next[n] =
                   IF n = e THEN b ELSE IF n = p.prev[b] THEN e ELSE p.next[n]
              /\ InsertBefore(p, b, e).prev[n] =
                   IF n = b THEN e ELSE IF n = e THEN p.prev[b] ELSE p.prev[n]
<1> DEFINE c == p.prev[b]
           q1 == [p EXCEPT !.next[c] = e, !.prev[e] = c, !.next[e] = b]
           q == [q1 EXCEPT !.prev[b] = e]
<1>1. p.next \in [Nodes -> Nodes \cup {Nil}] /\ p.prev \in [Nodes -> Nodes \cup {Nil}] /\ c \in Nodes
  BY PtrsFacts
<1>2. /\ q1 \in Ptrs
      /\ q1.next = [[p.next EXCEPT ![c] = e] EXCEPT ![e] = b]
      /\ q1.prev = [p.prev EXCEPT ![e] = c]
  <2> HIDE DEF c
  <2> QED BY <1>1 DEF Ptrs
<1>3. InsertBefore(p, b, e) = q
  BY DEF InsertBefore
<1>4. q \in Ptrs /\ q.next = q1.next /\ q.prev = [q1.prev EXCEPT ![b] = e]
  <2> HIDE DEF q1, c
  <2> QED BY <1>2 DEF Ptrs
<1> HIDE DEF q, q1, c
<1>5. ASSUME NEW n \in Nodes
      PROVE  /\ q.next[n] = IF n = e THEN b ELSE IF n = c THEN e ELSE p.next[n]
             /\ q.prev[n] = IF n = b THEN e ELSE IF n = e THEN c ELSE p.prev[n]
  BY <1>1, <1>2, <1>4
<1> QED BY <1>3, <1>4, <1>5 DEF c

LEMMA RemoveFields ==
  ASSUME NEW p \in Ptrs, NEW e \in Nodes, p.prev[e] \in Nodes, p.next[e] \in Nodes
  PROVE  /\ Removed(p, e) \in Ptrs
         /\ \A n \in Nodes :
              /\ Removed(p, e).next[n] = IF n = p.prev[e] THEN p.next[e] ELSE p.next[n]
              /\ Removed(p, e).prev[n] = IF n = p.next[e] THEN p.prev[e] ELSE p.prev[n]
<1>1. p.next \in [Nodes -> Nodes \cup {Nil}] /\ p.prev \in [Nodes -> Nodes \cup {Nil}]
  BY PtrsFacts
<1> DEFINE q == [p EXCEPT !.next[p.prev[e]] = p.next[e], !.prev[p.next[e]] = p.prev[e]]
<1>2. /\ q \in Ptrs
      /\ q.next = [p.next EXCEPT ![p.prev[e]] = p.next[e]]
      /\ q.prev = [p.prev EXCEPT ![p.next[e]] = p.prev[e]]
  BY <1>1 DEF Ptrs
<1>3. Removed(p, e) = q
  BY DEF Removed
<1> HIDE DEF q
<1> QED BY <1>1, <1>2, <1>3

-----------------------------------------------------------------------------
(* A list with an element more and a list with one less, by index.         *)

InsertedAt(r, s, k, x) ==
  /\ r \in Seq(Items) /\ IsInjective(r) /\ Len(r) = Len(s) + 1
  /\ \A i \in 1 .. Len(s) + 1 : r[i] = IF i < k THEN s[i] ELSE IF i = k THEN x ELSE s[i - 1]

RemovedAt(r, s, k) ==
  /\ r \in Seq(Items) /\ IsInjective(r) /\ Len(r) = Len(s) - 1
  /\ \A i \in 1 .. Len(s) - 1 : r[i] = IF i < k THEN s[i] ELSE s[i + 1]

LEMMA InsertedNodes ==
  ASSUME NEW l \in Names, NEW s \in Seq(Items), IsInjective(s), NEW x \in Items,
         NEW k \in 1 .. Len(s) + 1, NEW r, InsertedAt(r, s, k, x)
  PROVE  /\ Len(r) + 1 = Len(s) + 2
         /\ \A i \in 0 .. Len(s) + 2 :
              NodeAt(l, r, i) = IF i < k THEN NodeAt(l, s, i)
                                ELSE IF i = k THEN Elem(x) ELSE NodeAt(l, s, i - 1)
<1>1. Len(s) \in Nat /\ Len(r) = Len(s) + 1 /\ k \in 1 .. Len(s) + 1
  BY LenProperties DEF InsertedAt
<1>2. ASSUME NEW i \in 0 .. Len(s) + 2
      PROVE  NodeAt(l, r, i) = IF i < k THEN NodeAt(l, s, i)
                               ELSE IF i = k THEN Elem(x) ELSE NodeAt(l, s, i - 1)
  <2>1. CASE i = 0
    BY <1>1, <2>1 DEF NodeAt
  <2>2. CASE i = Len(s) + 2
    BY <1>1, <2>2 DEF NodeAt
  <2>3. CASE i \in 1 .. Len(s) + 1
    <3>1. NodeAt(l, r, i) = Elem(r[i])
      BY <1>1, <2>3 DEF NodeAt
    <3>2. r[i] = IF i < k THEN s[i] ELSE IF i = k THEN x ELSE s[i - 1]
      BY <2>3 DEF InsertedAt
    <3>3. i < k => NodeAt(l, s, i) = Elem(s[i])
      BY <1>1, <2>3 DEF NodeAt
    <3>4. i > k => NodeAt(l, s, i - 1) = Elem(s[i - 1])
      BY <1>1, <2>3 DEF NodeAt
    <3> QED BY <3>1, <3>2, <3>3, <3>4, <1>1, <2>3
  <2> QED BY <1>1, <2>1, <2>2, <2>3
<1> QED BY <1>1, <1>2

LEMMA RemovedNodes ==
  ASSUME NEW l \in Names, NEW s \in Seq(Items), IsInjective(s),
         NEW k \in 1 .. Len(s), NEW r, RemovedAt(r, s, k)
  PROVE  /\ Len(r) + 1 = Len(s)
         /\ \A i \in 0 .. Len(s) :
              NodeAt(l, r, i) = IF i < k THEN NodeAt(l, s, i) ELSE NodeAt(l, s, i + 1)
<1>1. Len(s) \in Nat /\ Len(r) = Len(s) - 1 /\ k \in 1 .. Len(s)
  BY LenProperties DEF RemovedAt
<1>2. ASSUME NEW i \in 0 .. Len(s)
      PROVE  NodeAt(l, r, i) = IF i < k THEN NodeAt(l, s, i) ELSE NodeAt(l, s, i + 1)
  <2>1. CASE i = 0
    BY <1>1, <2>1 DEF NodeAt
  <2>2. CASE i = Len(s)
    BY <1>1, <2>2 DEF NodeAt
  <2>3. CASE i \in 1 .. Len(s) - 1
    <3>1. NodeAt(l, r, i) = Elem(r[i])
      BY <1>1, <2>3 DEF NodeAt
    <3>2. r[i] = IF i < k THEN s[i] ELSE s[i + 1]
      BY <2>3 DEF RemovedAt
    <3>3. NodeAt(l, s, i) = Elem(s[i]) /\ NodeAt(l, s, i + 1) = Elem(s[i + 1])
      BY <1>1, <2>3 DEF NodeAt
    <3> QED BY <3>1, <3>2, <3>3
  <2> QED BY <1>1, <2>1, <2>2, <2>3
<1> QED BY <1>1, <1>2

-----------------------------------------------------------------------------
(* The chain that is changed.                                              *)

LEMMA InsertLinked ==
  ASSUME NEW p \in Ptrs, NEW l \in Names, NEW s \in Seq(Items), IsInjective(s), Linked(p, l, s),
         NEW x \in Items, x \notin ToSet(s),
         NEW k \in 1 .. Len(s) + 1, NEW r, InsertedAt(r, s, k, x)
  PROVE  /\ p.prev[NodeAt(l, s, k)] = NodeAt(l, s, k - 1)
         /\ InsertBefore(p, NodeAt(l, s, k), Elem(x)) \in Ptrs
         /\ Linked(InsertBefore(p, NodeAt(l, s, k), Elem(x)), l, r)
<1> DEFINE N(i) == NodeAt(l, s, i)
           M(i) == NodeAt(l, r, i)
           e == Elem(x)
           n == Len(s)
           q == InsertBefore(p, N(k), e)
<1>1. /\ n \in Nat /\ k \in 1 .. n + 1
      /\ N(0) = Head_(l) /\ N(n + 1) = Tail_(l)
      /\ \A i \in 0 .. n + 1 : N(i) \in Nodes
      /\ \A i, j \in 0 .. n + 1 : N(i) = N(j) => i = j
  BY NodeAtFacts
<1>2. e \in Nodes /\ \A i \in 0 .. n + 1 : N(i) # e
  <2>1. e \in Nodes
    BY NodeFacts
  <2>2. \A i \in 1 .. n : N(i) = Elem(s[i]) /\ s[i] \in ToSet(s)
    BY NodeAtFacts
  <2>3. \A i \in 0 .. n + 1 : i = 0 \/ i = n + 1 \/ i \in 1 .. n
    BY <1>1
  <2> QED BY <2>1, <2>2, <2>3, <1>1, NodeFacts
<1>3. \A i \in 0 .. n : p.next[N(i)] = N(i + 1) /\ p.prev[N(i + 1)] = N(i)
  BY DEF Linked
<1>4. p.prev[N(0)] = Nil /\ p.next[N(n + 1)] = Nil
  BY <1>1 DEF Linked
<1>5. p.prev[N(k)] = N(k - 1)
  <2>1. k - 1 \in 0 .. n /\ (k - 1) + 1 = k
    BY <1>1
  <2> QED BY <2>1, <1>3
<1>6. N(k) \in Nodes /\ N(k - 1) \in Nodes
  BY <1>1
<1>7. /\ q \in Ptrs
      /\ \A m \in Nodes :
           /\ q.next[m] = IF m = e THEN N(k) ELSE IF m = N(k - 1) THEN e ELSE p.next[m]
           /\ q.prev[m] = IF m = N(k) THEN e ELSE IF m = e THEN N(k - 1) ELSE p.prev[m]
  BY <1>2, <1>5, <1>6, InsertFields
<1>8. Len(r) = n + 1 /\ \A i \in 0 .. n + 2 : M(i) = IF i < k THEN N(i) ELSE IF i = k THEN e ELSE N(i - 1)
  <2>1. Len(r) = n + 1
    BY DEF InsertedAt
  <2> QED BY <2>1, InsertedNodes
<1>9. M(0) = Head_(l) /\ M(n + 2) = Tail_(l)
  BY <1>1, <1>8
<1> HIDE DEF N, M, e, n, q
<1>10. q.prev[Head_(l)] = Nil
  <2>1. N(0) \in Nodes /\ N(0) # N(k) /\ N(0) # e
    BY <1>1, <1>2
  <2> QED BY <2>1, <1>1, <1>4, <1>7
<1>11. q.next[Tail_(l)] = Nil
  <2>1. N(n + 1) \in Nodes /\ N(n + 1) # N(k - 1) /\ N(n + 1) # e
    BY <1>1, <1>2
  <2> QED BY <2>1, <1>1, <1>4, <1>7
<1>12. ASSUME NEW i \in 0 .. n + 1 PROVE q.next[M(i)] = M(i + 1) /\ q.prev[M(i + 1)] = M(i)
  <2>1. CASE i < k - 1
    <3>1. M(i) = N(i) /\ M(i + 1) = N(i + 1) /\ i \in 0 .. n
      BY <2>1, <1>1, <1>8
    <3>2. /\ N(i) \in Nodes /\ N(i + 1) \in Nodes /\ N(i) # N(k - 1) /\ N(i + 1) # N(k)
          /\ N(i) # e /\ N(i + 1) # e
      BY <2>1, <3>1, <1>1, <1>2
    <3> QED BY <3>1, <3>2, <1>3, <1>7
  <2>2. CASE i = k - 1
    <3>1. M(i) = N(k - 1) /\ M(i + 1) = e
      BY <2>2, <1>1, <1>8
    <3>2. N(k - 1) # e /\ e # N(k)
      BY <1>1, <1>2
    <3> QED BY <3>1, <3>2, <1>2, <1>6, <1>7
  <2>3. CASE i = k
    <3>1. M(i) = e /\ M(i + 1) = N(k)
      <4>1. i \in 0 .. n + 2 /\ i + 1 \in 0 .. n + 2 /\ i = k /\ ~(i + 1 < k) /\ i + 1 # k /\ (i + 1) - 1 = k
        BY <2>3, <1>1
      <4> QED BY <4>1, <1>8
    <3> QED BY <3>1, <1>2, <1>6, <1>7
  <2>4. CASE i > k
    <3>1. /\ M(i) = N(i - 1) /\ M(i + 1) = N(i) /\ i - 1 \in 0 .. n
      <4>1. /\ i \in 0 .. n + 2 /\ i + 1 \in 0 .. n + 2 /\ ~(i + 1 < k) /\ i + 1 # k
            /\ (i + 1) - 1 = i /\ ~(i < k) /\ i # k /\ i - 1 \in 0 .. n
        BY <2>4, <1>1
      <4> QED BY <4>1, <1>8
    <3>2. /\ N(i - 1) \in Nodes /\ N(i) \in Nodes /\ N(i - 1) # N(k - 1) /\ N(i) # N(k)
          /\ N(i - 1) # e /\ N(i) # e
      BY <2>4, <3>1, <1>1, <1>2
    <3>3. p.next[N(i - 1)] = N(i) /\ p.prev[N(i)] = N(i - 1)
      <4>1. (i - 1) + 1 = i
        BY <1>1
      <4> QED BY <4>1, <3>1, <1>3
    <3> QED BY <3>1, <3>2, <3>3, <1>7
  <2>5. i \in Int /\ k \in Int
    BY <1>1
  <2> QED BY <2>1, <2>2, <2>3, <2>4, <2>5
<1>13. Linked(q, l, r)
  BY <1>8, <1>10, <1>11, <1>12 DEF Linked, M
<1> QED BY <1>5, <1>7, <1>13 DEF N, e, q

LEMMA RemoveLinked ==
  ASSUME NEW p \in Ptrs, NEW l \in Names, NEW s \in Seq(Items), IsInjective(s), Linked(p, l, s),
         NEW k \in 1 .. Len(s), NEW r, RemovedAt(r, s, k)
  PROVE  /\ p.prev[Elem(s[k])] = NodeAt(l, s, k - 1) /\ p.next[Elem(s[k])] = NodeAt(l, s, k + 1)
         /\ Removed(p, Elem(s[k])) \in Ptrs
         /\ Linked(Removed(p, Elem(s[k])), l, r)
<1> DEFINE N(i) == NodeAt(l, s, i)
           M(i) == NodeAt(l, r, i)
           n == Len(s)
           q == Removed(p, N(k))
<1>1. /\ n \in Nat /\ k \in 1 .. n
      /\ N(0) = Head_(l) /\ N(n + 1) = Tail_(l) /\ N(k) = Elem(s[k])
      /\ \A i \in 0 .. n + 1 : N(i) \in Nodes
      /\ \A i, j \in 0 .. n + 1 : N(i) = N(j) => i = j
  BY NodeAtFacts
<1>3. \A i \in 0 .. n : p.next[N(i)] = N(i + 1) /\ p.prev[N(i + 1)] = N(i)
  BY DEF Linked
<1>4. p.prev[N(0)] = Nil /\ p.next[N(n + 1)] = Nil
  BY <1>1 DEF Linked
<1>5. p.prev[N(k)] = N(k - 1) /\ p.next[N(k)] = N(k + 1)
  <2>1. k - 1 \in 0 .. n /\ (k - 1) + 1 = k /\ k \in 0 .. n
    BY <1>1
  <2> QED BY <2>1, <1>3
<1>6. N(k) \in Nodes /\ N(k - 1) \in Nodes /\ N(k + 1) \in Nodes
  BY <1>1
<1>7. /\ q \in Ptrs
      /\ \A m \in Nodes :
           /\ q.next[m] = IF m = N(k - 1) THEN N(k + 1) ELSE p.next[m]
           /\ q.prev[m] = IF m = N(k + 1) THEN N(k - 1) ELSE p.prev[m]
  BY <1>5, <1>6, RemoveFields
<1>8. Len(r) = n - 1 /\ \A i \in 0 .. n : M(i) = IF i < k THEN N(i) ELSE N(i + 1)
  <2>1. Len(r) = n - 1
    BY DEF RemovedAt
  <2> QED BY <2>1, RemovedNodes
<1> HIDE DEF N, M, n, q
<1>10. q.prev[Head_(l)] = Nil
  <2>1. N(0) \in Nodes /\ N(0) # N(k + 1)
    BY <1>1
  <2> QED BY <2>1, <1>1, <1>4, <1>7
<1>11. q.next[Tail_(l)] = Nil
  <2>1. N(n + 1) \in Nodes /\ N(n + 1) # N(k - 1)
    BY <1>1
  <2> QED BY <2>1, <1>1, <1>4, <1>7
<1>12. ASSUME NEW i \in 0 .. n - 1 PROVE q.next[M(i)] = M(i + 1) /\ q.prev[M(i + 1)] = M(i)
  <2>1. CASE i < k - 1
    <3>1. M(i) = N(i) /\ M(i + 1) = N(i + 1) /\ i \in 0 .. n
      BY <2>1, <1>1, <1>8
    <3>2. N(i) \in Nodes /\ N(i + 1) \in Nodes /\ N(i) # N(k - 1) /\ N(i + 1) # N(k + 1)
      BY <2>1, <3>1, <1>1
    <3> QED BY <3>1, <3>2, <1>3, <1>7
  <2>2. CASE i = k - 1
    <3>1. M(i) = N(k - 1) /\ M(i + 1) = N(k + 1)
      BY <2>2, <1>1, <1>8
    <3> QED BY <3>1, <1>6, <1>7
  <2>3. CASE i > k - 1
    <3>1. M(i) = N(i + 1) /\ M(i + 1) = N(i + 2) /\ i + 1 \in 0 .. n
      <4>1. i \in 0 .. n /\ i + 1 \in 0 .. n /\ ~(i < k) /\ ~(i + 1 < k) /\ (i + 1) + 1 = i + 2
        BY <2>3, <1>1
      <4> QED BY <4>1, <1>8
    <3>2. N(i + 1) \in Nodes /\ N(i + 2) \in Nodes /\ N(i + 1) # N(k - 1) /\ N(i + 2) # N(k + 1)
      BY <2>3, <3>1, <1>1
    <3>3. p.next[N(i + 1)] = N(i + 2) /\ p.prev[N(i + 2)] = N(i + 1)
      <4>1. (i + 1) + 1 = i + 2
        BY <1>1
      <4> QED BY <4>1, <3>1, <1>3
    <3> QED BY <3>1, <3>2, <3>3, <1>7
  <2>4. i \in Int /\ k \in Int
    BY <1>1
  <2> QED BY <2>1, <2>2, <2>3, <2>4
<1>13. Linked(q, l, r)
  BY <1>8, <1>10, <1>11, <1>12 DEF Linked, M
<1> QED BY <1>1, <1>5, <1>7, <1>13 DEF N, q

\* Fields that are the same at the nodes of a list leave it as it is.
LEMMA OtherLinked ==
  ASSUME NEW p, NEW q, NEW m \in Names, NEW r \in Seq(Items), IsInjective(r), Linked(p, m, r),
         \A i \in 0 .. Len(r) + 1 : /\ q.next[NodeAt(m, r, i)] = p.next[NodeAt(m, r, i)]
                                    /\ q.prev[NodeAt(m, r, i)] = p.prev[NodeAt(m, r, i)]
  PROVE  Linked(q, m, r)
<1>1. Len(r) \in Nat /\ NodeAt(m, r, 0) = Head_(m) /\ NodeAt(m, r, Len(r) + 1) = Tail_(m)
  BY NodeAtFacts
<1>2. q.prev[Head_(m)] = Nil /\ q.next[Tail_(m)] = Nil
  <2>1. 0 \in 0 .. Len(r) + 1 /\ Len(r) + 1 \in 0 .. Len(r) + 1
    BY <1>1
  <2> QED BY <1>1, <2>1 DEF Linked
<1>3. ASSUME NEW i \in 0 .. Len(r)
      PROVE  q.next[NodeAt(m, r, i)] = NodeAt(m, r, i + 1) /\ q.prev[NodeAt(m, r, i + 1)] = NodeAt(m, r, i)
  <2>1. i \in 0 .. Len(r) + 1 /\ i + 1 \in 0 .. Len(r) + 1
    BY <1>1
  <2> QED BY <2>1 DEF Linked
<1> QED BY <1>2, <1>3 DEF Linked
-----------------------------------------------------------------------------
(* All the lists, when one of them changes.                                *)

LEMMA CorrectFacts ==
  ASSUME NEW p, NEW s, Correct(p, s), NEW l \in Names
  PROVE  /\ p \in Ptrs /\ s[l] \in Seq(Items) /\ Linked(p, l, s[l]) /\ IsInjective(s[l])
         /\ \A m \in Names \ {l} : ToSet(s[l]) \cap ToSet(s[m]) = {}
         /\ s \in [Names -> Seq(Items)]
BY DEF Correct

LEMMA CorrectAfter ==
  ASSUME NEW p, NEW s, Correct(p, s), NEW l \in Names, NEW q \in Ptrs, NEW r \in Seq(Items),
         IsInjective(r), Linked(q, l, r),
         \A m \in Names \ {l} : Linked(q, m, s[m]) /\ ToSet(r) \cap ToSet(s[m]) = {}
  PROVE  Correct(q, [s EXCEPT ![l] = r])
<1> DEFINE z == [s EXCEPT ![l] = r]
<1>1. z \in [Names -> Seq(Items)] /\ z[l] = r /\ \A m \in Names \ {l} : z[m] = s[m]
  BY CorrectFacts
<1> HIDE DEF z
<1>2. ASSUME NEW m \in Names
      PROVE  Linked(q, m, z[m]) /\ IsInjective(z[m])
  <2>1. CASE m = l
    BY <1>1, <2>1
  <2>2. CASE m # l
    BY <1>1, <2>2, CorrectFacts
  <2> QED BY <2>1, <2>2
<1>3. ASSUME NEW m \in Names, NEW o \in Names \ {m} PROVE ToSet(z[m]) \cap ToSet(z[o]) = {}
  <2>1. CASE m = l
    BY <1>1, <2>1
  <2>2. CASE o = l
    BY <1>1, <2>2
  <2>3. CASE m # l /\ o # l
    BY <1>1, <2>3, CorrectFacts
  <2> QED BY <2>1, <2>2, <2>3
<1>4. Correct(q, z)
  BY <1>1, <1>2, <1>3 DEF Correct
<1> QED BY <1>4 DEF z

LEMMA InsertCorrect ==
  ASSUME NEW p, NEW s, Correct(p, s), NEW l \in Names, NEW x \in Items,
         \A m \in Names : x \notin ToSet(s[m]),
         NEW k \in 1 .. Len(s[l]) + 1, NEW r, InsertedAt(r, s[l], k, x),
         \A y : y \in ToSet(r) <=> y \in ToSet(s[l]) \/ y = x
  PROVE  Correct(InsertBefore(p, NodeAt(l, s[l], k), Elem(x)), [s EXCEPT ![l] = r])
<1> DEFINE b == NodeAt(l, s[l], k)
           c == NodeAt(l, s[l], k - 1)
           q == InsertBefore(p, b, Elem(x))
<1>1. /\ p \in Ptrs /\ s[l] \in Seq(Items) /\ Linked(p, l, s[l]) /\ IsInjective(s[l])
      /\ \A m \in Names \ {l} : ToSet(s[l]) \cap ToSet(s[m]) = {}
  BY CorrectFacts
<1>2. p.prev[b] = c /\ q \in Ptrs /\ Linked(q, l, r)
  BY <1>1, InsertLinked
<1>3. k \in 0 .. Len(s[l]) + 1 /\ k - 1 \in 0 .. Len(s[l]) + 1
  BY <1>1, LenProperties
<1>4. b \in Nodes /\ c \in Nodes /\ Elem(x) \in Nodes
  BY <1>1, <1>3, NodeAtFacts, NodeFacts
<1>5. \A n \in Nodes :
        /\ q.next[n] = IF n = Elem(x) THEN b ELSE IF n = c THEN Elem(x) ELSE p.next[n]
        /\ q.prev[n] = IF n = b THEN Elem(x) ELSE IF n = Elem(x) THEN c ELSE p.prev[n]
  <2> HIDE DEF b, c
  <2> QED BY <1>1, <1>2, <1>4, InsertFields
<1>6. ASSUME NEW m \in Names \ {l}
      PROVE  Linked(q, m, s[m]) /\ ToSet(r) \cap ToSet(s[m]) = {}
  <2>1. m \in Names /\ s[m] \in Seq(Items) /\ Linked(p, m, s[m]) /\ IsInjective(s[m])
    BY CorrectFacts
  <2>2. ASSUME NEW i \in 0 .. Len(s[m]) + 1
        PROVE  /\ q.next[NodeAt(m, s[m], i)] = p.next[NodeAt(m, s[m], i)]
               /\ q.prev[NodeAt(m, s[m], i)] = p.prev[NodeAt(m, s[m], i)]
    <3> DEFINE n == NodeAt(m, s[m], i)
    <3>1. n \in Nodes
      BY <2>1, NodeAtFacts
    <3>2. n # b /\ n # c
      BY <1>1, <1>3, <2>1, NodesApart
    <3>3. n # Elem(x)
      <4>1. CASE i \in 1 .. Len(s[m])
        BY <2>1, <4>1, NodeAtFacts, NodeFacts
      <4>2. CASE i = 0 \/ i = Len(s[m]) + 1
        BY <2>1, <4>2, NodeAtFacts, NodeFacts
      <4>3. Len(s[m]) \in Nat
        BY <2>1, LenProperties
      <4> QED BY <4>1, <4>2, <4>3
    <3> HIDE DEF n, b, c, q
    <3>4. q.next[n] = p.next[n] /\ q.prev[n] = p.prev[n]
      BY <1>5, <3>1, <3>2, <3>3
    <3> QED BY <3>4 DEF n
  <2>3. Linked(q, m, s[m])
    <3> HIDE DEF q
    <3> QED BY <2>1, <2>2, OtherLinked
  <2>4. ToSet(r) \cap ToSet(s[m]) = {}
    BY <1>1, <2>1
  <2> QED BY <2>3, <2>4
<1>7. r \in Seq(Items) /\ IsInjective(r)
  BY DEF InsertedAt
<1> HIDE DEF q
<1>8. Correct(q, [s EXCEPT ![l] = r])
  BY <1>2, <1>6, <1>7, CorrectAfter
<1> QED BY <1>8 DEF q

LEMMA RemoveCorrect ==
  ASSUME NEW p, NEW s, Correct(p, s), NEW l \in Names,
         NEW k \in 1 .. Len(s[l]), NEW r, RemovedAt(r, s[l], k),
         \A y : y \in ToSet(r) => y \in ToSet(s[l])
  PROVE  Correct(Removed(p, Elem(s[l][k])), [s EXCEPT ![l] = r])
<1> DEFINE e == Elem(s[l][k])
           a == NodeAt(l, s[l], k - 1)
           c == NodeAt(l, s[l], k + 1)
           q == Removed(p, e)
<1>1. /\ p \in Ptrs /\ s[l] \in Seq(Items) /\ Linked(p, l, s[l]) /\ IsInjective(s[l])
      /\ \A m \in Names \ {l} : ToSet(s[l]) \cap ToSet(s[m]) = {}
  BY CorrectFacts
<1>2. p.prev[e] = a /\ p.next[e] = c /\ q \in Ptrs /\ Linked(q, l, r)
  BY <1>1, RemoveLinked
<1>3. k - 1 \in 0 .. Len(s[l]) + 1 /\ k + 1 \in 0 .. Len(s[l]) + 1
  BY <1>1, LenProperties
<1>4. a \in Nodes /\ c \in Nodes /\ e \in Nodes
  BY <1>1, <1>3, NodeAtFacts, NodeFacts
<1>5. \A n \in Nodes :
        /\ q.next[n] = IF n = a THEN c ELSE p.next[n]
        /\ q.prev[n] = IF n = c THEN a ELSE p.prev[n]
  <2> HIDE DEF a, c, e
  <2> QED BY <1>1, <1>2, <1>4, RemoveFields
<1>6. ASSUME NEW m \in Names \ {l}
      PROVE  Linked(q, m, s[m]) /\ ToSet(r) \cap ToSet(s[m]) = {}
  <2>1. m \in Names /\ s[m] \in Seq(Items) /\ Linked(p, m, s[m]) /\ IsInjective(s[m])
    BY CorrectFacts
  <2>2. ASSUME NEW i \in 0 .. Len(s[m]) + 1
        PROVE  /\ q.next[NodeAt(m, s[m], i)] = p.next[NodeAt(m, s[m], i)]
               /\ q.prev[NodeAt(m, s[m], i)] = p.prev[NodeAt(m, s[m], i)]
    <3> DEFINE n == NodeAt(m, s[m], i)
    <3>1. n \in Nodes
      BY <2>1, NodeAtFacts
    <3>2. n # a /\ n # c
      BY <1>1, <1>3, <2>1, NodesApart
    <3> HIDE DEF n, a, c, q
    <3>4. q.next[n] = p.next[n] /\ q.prev[n] = p.prev[n]
      BY <1>5, <3>1, <3>2
    <3> QED BY <3>4 DEF n
  <2>3. Linked(q, m, s[m])
    <3> HIDE DEF q
    <3> QED BY <2>1, <2>2, OtherLinked
  <2>4. ToSet(r) \cap ToSet(s[m]) = {}
    BY <1>1
  <2> QED BY <2>3, <2>4
<1>7. r \in Seq(Items) /\ IsInjective(r)
  BY DEF RemovedAt
<1> HIDE DEF q
<1>8. Correct(q, [s EXCEPT ![l] = r])
  BY <1>2, <1>6, <1>7, CorrectAfter
<1> QED BY <1>8 DEF q, e

-----------------------------------------------------------------------------
(* The calls: list_append, list_push, list_pop, list_remove, list_empty.   *)

LEMMA AppendCorrect ==
  ASSUME NEW p, NEW s, Correct(p, s), NEW l \in Names, NEW x \in Items,
         \A m \in Names : x \notin ToSet(s[m])
  PROVE  Correct(Appended(p, l, Elem(x)), [s EXCEPT ![l] = Append(s[l], x)])
<1> DEFINE k == Len(s[l]) + 1
           r == Append(s[l], x)
<1>1. s[l] \in Seq(Items) /\ IsInjective(s[l]) /\ Len(s[l]) \in Nat
  BY CorrectFacts, LenProperties
<1>2. NodeAt(l, s[l], k) = Tail_(l) /\ k \in 1 .. Len(s[l]) + 1
  BY <1>1, NodeAtFacts
<1>3. /\ r \in Seq(Items) /\ IsInjective(r) /\ \A y : y \in ToSet(r) <=> y \in ToSet(s[l]) \/ y = x
  BY <1>1, AppendFacts
<1>4. InsertedAt(r, s[l], k, x)
  <2>1. Len(r) = Len(s[l]) + 1 /\ r[Len(s[l]) + 1] = x /\ \A i \in 1 .. Len(s[l]) : r[i] = s[l][i]
    BY <1>1, AppendProperties
  <2> HIDE DEF r
  <2>2. ASSUME NEW i \in 1 .. Len(s[l]) + 1
        PROVE  r[i] = IF i < k THEN s[l][i] ELSE IF i = k THEN x ELSE s[l][i - 1]
    BY <1>1, <2>1
  <2> QED BY <1>3, <2>1, <2>2 DEF InsertedAt
<1> HIDE DEF k, r
<1>5. Correct(InsertBefore(p, NodeAt(l, s[l], k), Elem(x)), [s EXCEPT ![l] = r])
  BY <1>2, <1>3, <1>4, InsertCorrect
<1> QED BY <1>2, <1>5 DEF Appended, r

LEMMA PushCorrect ==
  ASSUME NEW p, NEW s, Correct(p, s), NEW l \in Names, NEW x \in Items,
         \A m \in Names : x \notin ToSet(s[m])
  PROVE  Correct(Pushed(p, l, Elem(x)), [s EXCEPT ![l] = <<x>> \o s[l]])
<1> DEFINE r == <<x>> \o s[l]
<1>1. s[l] \in Seq(Items) /\ IsInjective(s[l]) /\ Len(s[l]) \in Nat /\ Linked(p, l, s[l])
  BY CorrectFacts, LenProperties
<1>2. p.next[Head_(l)] = NodeAt(l, s[l], 1) /\ 1 \in 1 .. Len(s[l]) + 1
  <2>1. 0 \in 0 .. Len(s[l]) /\ NodeAt(l, s[l], 0) = Head_(l)
    BY <1>1, NodeAtFacts
  <2> QED BY <1>1, <2>1 DEF Linked
<1>3. r \in Seq(Items) /\ IsInjective(r) /\ \A y : y \in ToSet(r) <=> y \in ToSet(s[l]) \/ y = x
  BY <1>1, PushFacts
<1>4. InsertedAt(r, s[l], 1, x)
  <2>1. <<x>> \in Seq(Items) /\ Len(<<x>>) = 1 /\ <<x>>[1] = x
    OBVIOUS
  <2>2. Len(r) = Len(s[l]) + 1 /\ \A i \in 1 .. Len(s[l]) + 1 : r[i] = IF i <= 1 THEN x ELSE s[l][i - 1]
    BY <1>1, <2>1, ConcatProperties
  <2> HIDE DEF r
  <2>3. ASSUME NEW i \in 1 .. Len(s[l]) + 1
        PROVE  r[i] = IF i < 1 THEN s[l][i] ELSE IF i = 1 THEN x ELSE s[l][i - 1]
    BY <1>1, <2>2
  <2> QED BY <1>3, <2>2, <2>3 DEF InsertedAt
<1> HIDE DEF r
<1>5. Correct(InsertBefore(p, NodeAt(l, s[l], 1), Elem(x)), [s EXCEPT ![l] = r])
  BY <1>2, <1>3, <1>4, InsertCorrect
<1> QED BY <1>2, <1>5 DEF Pushed, r

LEMMA EmptyOrFirst ==
  ASSUME NEW p, NEW s, Correct(p, s), NEW l \in Names
  PROVE  /\ IsEmpty(p, l) <=> s[l] = <<>>
         /\ s[l] # <<>> => /\ First(p, l) = Elem(Head(s[l])) /\ Head(s[l]) = s[l][1]
                           /\ Head(s[l]) \in ToSet(s[l]) /\ Head(s[l]) \in Items
         /\ First(p, l) \in {Elem(x) : x \in ToSet(s[l])} \cup {Tail_(l)}
<1>1. s[l] \in Seq(Items) /\ IsInjective(s[l]) /\ Len(s[l]) \in Nat /\ Linked(p, l, s[l])
  BY CorrectFacts, LenProperties
<1>2. First(p, l) = NodeAt(l, s[l], 1)
  <2>1. 0 \in 0 .. Len(s[l]) /\ NodeAt(l, s[l], 0) = Head_(l)
    BY <1>1, NodeAtFacts
  <2> QED BY <1>1, <2>1 DEF Linked, First
<1>3. CASE s[l] = <<>>
  <2>1. Len(s[l]) = 0
    BY <1>3
  <2>2. First(p, l) = Tail_(l)
    BY <1>1, <1>2, <2>1, NodeAtFacts
  <2> QED BY <1>3, <2>2 DEF IsEmpty
<1>4. CASE s[l] # <<>>
  <2>1. 1 \in 1 .. Len(s[l]) /\ Head(s[l]) = s[l][1]
    BY <1>1, <1>4, EmptySeq, HeadTailProperties
  <2>2. First(p, l) = Elem(s[l][1]) /\ s[l][1] \in ToSet(s[l]) /\ s[l][1] \in Items
    BY <1>1, <1>2, <2>1, NodeAtFacts
  <2> QED BY <1>4, <2>1, <2>2, NodeFacts DEF IsEmpty
<1> QED BY <1>3, <1>4

LEMMA PopCorrect ==
  ASSUME NEW p, NEW s, Correct(p, s), NEW l \in Names, s[l] # <<>>
  PROVE  Correct(Popped(p, l), [s EXCEPT ![l] = Tail(s[l])])
<1> DEFINE r == Tail(s[l])
<1>1. s[l] \in Seq(Items) /\ IsInjective(s[l]) /\ Len(s[l]) \in Nat
  BY CorrectFacts, LenProperties
<1>2. First(p, l) = Elem(s[l][1])
  BY EmptyOrFirst
<1>3. r \in Seq(Items) /\ IsInjective(r) /\ \A y : y \in ToSet(r) => y \in ToSet(s[l])
  BY <1>1, PopFacts
<1>4. 1 \in 1 .. Len(s[l]) /\ RemovedAt(r, s[l], 1)
  <2>1. /\ Len(s[l]) >= 1 /\ Len(r) = Len(s[l]) - 1
        /\ \A i \in 1 .. Len(s[l]) - 1 : r[i] = s[l][i + 1]
    BY <1>1, EmptySeq, HeadTailProperties
  <2> HIDE DEF r
  <2>2. ASSUME NEW i \in 1 .. Len(s[l]) - 1
        PROVE  r[i] = IF i < 1 THEN s[l][i] ELSE s[l][i + 1]
    BY <1>1, <2>1
  <2> QED BY <1>1, <1>3, <2>1, <2>2 DEF RemovedAt
<1> HIDE DEF r
<1>5. Correct(Removed(p, Elem(s[l][1])), [s EXCEPT ![l] = r])
  BY <1>3, <1>4, RemoveCorrect
<1> QED BY <1>2, <1>5 DEF Popped, r

LEMMA UnlinkCorrect ==
  ASSUME NEW p, NEW s, Correct(p, s), NEW l \in Names, NEW i \in DOMAIN s[l]
  PROVE  Correct(Removed(p, Elem(s[l][i])), [s EXCEPT ![l] = RemoveAt(s[l], i)])
<1> DEFINE r == RemoveAt(s[l], i)
<1>1. s[l] \in Seq(Items) /\ IsInjective(s[l]) /\ Len(s[l]) \in Nat /\ i \in 1 .. Len(s[l])
  BY CorrectFacts, LenProperties
<1>2. r \in Seq(Items) /\ IsInjective(r) /\ \A y : y \in ToSet(r) => y \in ToSet(s[l])
  BY <1>1, RemoveAtFacts
<1>3. RemovedAt(r, s[l], i)
  BY <1>1, <1>2, RemoveAtByIndex DEF RemovedAt
<1> HIDE DEF r
<1>4. Correct(Removed(p, Elem(s[l][i])), [s EXCEPT ![l] = r])
  BY <1>1, <1>2, <1>3, RemoveCorrect
<1> QED BY <1>4 DEF r
-----------------------------------------------------------------------------
(* The inductive invariant: at first.                                      *)

Has(s, l) == ToSet(s[l])

LEMMA NameFacts ==
  /\ "ready" \in Names /\ "waiters" \in Names /\ "free" \in Names
  /\ \A l \in Names : l = "ready" \/ l = "waiters" \/ l = "free"
  /\ "ready" # "waiters" /\ "ready" # "free" /\ "waiters" # "free"
BY DEF Names

LEMMA EmptyCorrect == Correct(EmptyFields, [l \in Names |-> <<>>])
<1> DEFINE s == [l \in Names |-> <<>>]
           p == EmptyFields
<1>1. \A n \in Nodes :
        /\ (n[1] = "head" => n[2] \in Names /\ n = Head_(n[2]))
        /\ (n[1] = "tail" => n[2] \in Names /\ n = Tail_(n[2]))
  BY DEF Nodes, Head_, Tail_, Elem
<1>2. \A l \in Names : Head_(l)[1] = "head" /\ Head_(l)[2] = l /\ Tail_(l)[1] = "tail" /\ Tail_(l)[2] = l
  BY DEF Head_, Tail_
<1>3. /\ p.next = [n \in Nodes |-> IF n[1] = "head" THEN Tail_(n[2]) ELSE Nil]
      /\ p.prev = [n \in Nodes |-> IF n[1] = "tail" THEN Head_(n[2]) ELSE Nil]
      /\ p = [next |-> p.next, prev |-> p.prev]
  BY DEF EmptyFields
<1> HIDE DEF p
<1>4. p.next \in [Nodes -> Nodes \cup {Nil}] /\ p.prev \in [Nodes -> Nodes \cup {Nil}]
  BY <1>1, <1>3, NodeFacts
<1>5. p \in Ptrs
  BY <1>3, <1>4 DEF Ptrs
<1>6. <<>> \in Seq(Items) /\ Len(<<>>) = 0 /\ ToSet(<<>>) = {} /\ IsInjective(<<>>)
  BY DEF ToSet, IsInjective
<1>7. s \in [Names -> Seq(Items)] /\ \A l \in Names : s[l] = <<>>
  BY <1>6
<1> HIDE DEF s
<1>8. ASSUME NEW l \in Names PROVE Linked(p, l, s[l])
  <2>1. /\ p.next[Head_(l)] = Tail_(l) /\ p.prev[Tail_(l)] = Head_(l)
        /\ p.prev[Head_(l)] = Nil /\ p.next[Tail_(l)] = Nil
    BY <1>2, <1>3, NodeFacts
  <2>2. NodeAt(l, s[l], 0) = Head_(l) /\ NodeAt(l, s[l], 1) = Tail_(l) /\ Len(s[l]) = 0
    BY <1>6, <1>7 DEF NodeAt
  <2>3. \A i \in 0 .. 0 : i = 0
    OBVIOUS
  <2> QED BY <2>1, <2>2, <2>3 DEF Linked
<1>9. Correct(p, s)
  BY <1>5, <1>6, <1>7, <1>8 DEF Correct
<1> QED BY <1>9 DEF p, s

LEMMA InitOK == Init => IInv
<1> SUFFICES ASSUME Init PROVE IInv
  OBVIOUS
<1>1. Fields = EmptyFields
  BY DEF Init, Fields, EmptyFields
<1>2. Correct(Fields, seqs)
  BY <1>1, EmptyCorrect DEF Init
<1>3. ToSet(seqs["ready"]) = {} /\ ToSet(seqs["waiters"]) = {} /\ ToSet(seqs["free"]) = {}
  <2>1. ToSet(<<>>) = {}
    BY DEF ToSet
  <2> QED BY <2>1, NameFacts DEF Init
<1>4. SortsOK
  BY <1>3 DEF SortsOK, Queues
<1>5. StateOK
  BY <1>3, ListAssumption DEF StateOK, Queues, Init
<1>6. NewOK /\ WalkOK
  BY DEF NewOK, WalkOK, Init
<1> QED BY <1>2, <1>4, <1>5, <1>6 DEF IInv

-----------------------------------------------------------------------------
(* What the parts of the invariant say of a state.                         *)

LEMMA StateFacts ==
  ASSUME IInv
  PROVE  /\ Correct(Fields, seqs) /\ Fields \in Ptrs /\ seqs \in [Names -> Seq(Items)]
         /\ Has(seqs, "ready") \subseteq Threads /\ Has(seqs, "waiters") \subseteq Threads
         /\ Has(seqs, "free") \subseteq Blocks
         /\ Has(seqs, "ready") \cap Has(seqs, "waiters") = {}
         /\ Queues = Has(seqs, "ready") \cup Has(seqs, "waiters")
         /\ cur \in Threads /\ cur \notin Queues
         /\ Threads \subseteq Items /\ Blocks \subseteq Items /\ Threads \cap Blocks = {}
         /\ Null \notin Threads
<1>1. Correct(Fields, seqs)
  BY DEF IInv
<1>2. Has(seqs, "ready") \cap Has(seqs, "waiters") = {} /\ Fields \in Ptrs /\ seqs \in [Names -> Seq(Items)]
  BY <1>1, NameFacts, CorrectFacts DEF Has
<1> QED BY <1>1, <1>2, ListAssumption DEF IInv, SortsOK, StateOK, Queues, Has, Items

\* A thread that is neither ready nor waiting is on no list, nor is a block off the free list.
LEMMA OffTheLists ==
  ASSUME IInv
  PROVE  /\ \A t \in Threads \ Queues : \A m \in Names : t \notin ToSet(seqs[m])
         /\ \A b \in Blocks \ Has(seqs, "free") : \A m \in Names : b \notin ToSet(seqs[m])
BY StateFacts, NameFacts DEF Has

LEMMA SetFields ==
  ASSUME NEW STATE p, p \in Ptrs, Set(p)
  PROVE  Fields' = p
BY PtrsFacts DEF Set, Fields

LEMMA ElectFacts ==
  ASSUME NEW STATE p, NEW STATE s, Correct(p, s), Elect(p, s)
  PROVE  /\ Correct(Fields', seqs')
         /\ cur' \in Has(s, "ready")
         /\ \A y : y \in Has(seqs', "ready") <=> y \in Has(s, "ready") /\ y # cur'
         /\ seqs'["waiters"] = s["waiters"] /\ seqs'["free"] = s["free"]
<1>1. /\ s["ready"] \in Seq(Items) /\ IsInjective(s["ready"]) /\ s \in [Names -> Seq(Items)]
  BY NameFacts, CorrectFacts
<1>2. s["ready"] # <<>>
  BY NameFacts, EmptyOrFirst DEF Elect
<1>3. Correct(Popped(p, "ready"), [s EXCEPT !["ready"] = Tail(s["ready"])])
  BY <1>2, NameFacts, PopCorrect
<1>4. seqs' = [s EXCEPT !["ready"] = Tail(s["ready"])]
  BY DEF Elect
<1>5. Fields' = Popped(p, "ready")
  <2>1. Popped(p, "ready") \in Ptrs
    BY <1>3 DEF Correct
  <2> QED BY <2>1, SetFields DEF Elect
<1>6. cur' = Head(s["ready"])
  <2>1. First(p, "ready") = Elem(Head(s["ready"]))
    BY <1>2, NameFacts, EmptyOrFirst
  <2> QED BY <2>1, NodeFacts DEF Elect
<1>7. seqs'["ready"] = Tail(s["ready"]) /\ seqs'["waiters"] = s["waiters"] /\ seqs'["free"] = s["free"]
  BY <1>1, <1>4, NameFacts
<1>8. /\ Head(s["ready"]) \in ToSet(s["ready"])
      /\ \A y : y \in ToSet(Tail(s["ready"])) <=> y \in ToSet(s["ready"]) /\ y # Head(s["ready"])
  BY <1>1, <1>2, PopFacts
<1> QED BY <1>3, <1>4, <1>5, <1>6, <1>7, <1>8 DEF Has

-----------------------------------------------------------------------------
(* The steps of the scheduler.                                             *)

LEMMA SwitchStep ==
  ASSUME IInv, Switch
  PROVE  IInv'
<1> DEFINE s == [seqs EXCEPT !["ready"] = Append(seqs["ready"], cur)]
           p == Appended(Fields, "ready", Elem(cur))
<1>1. Correct(p, s)
  BY StateFacts, OffTheLists, NameFacts, AppendCorrect
<1>2. /\ \A y : y \in Has(s, "ready") <=> y \in Has(seqs, "ready") \/ y = cur
      /\ s["waiters"] = seqs["waiters"] /\ s["free"] = seqs["free"]
  <2>1. s = [seqs EXCEPT !["ready"] = Append(seqs["ready"], cur)]
    OBVIOUS
  <2>2. cur \in Items /\ seqs \in [Names -> Seq(Items)] /\ "ready" \in Names
    BY StateFacts, NameFacts
  <2> HIDE DEF s
  <2>3. s["ready"] = Append(seqs["ready"], cur) /\ s["waiters"] = seqs["waiters"] /\ s["free"] = seqs["free"]
    BY <2>1, <2>2, NameFacts
  <2>4. seqs["ready"] \in Seq(Items)
    BY <2>2
  <2>5. \A y : y \in ToSet(Append(seqs["ready"], cur)) <=> y \in ToSet(seqs["ready"]) \/ y = cur
    BY <2>2, <2>4, AppendFacts
  <2> QED BY <2>3, <2>5 DEF Has
<1>3. Elect(p, s) /\ UNCHANGED <<new, at, moved>>
  BY DEF Switch
<1> HIDE DEF s, p
<1>4. /\ Correct(Fields', seqs') /\ cur' \in Has(s, "ready")
      /\ \A y : y \in Has(seqs', "ready") <=> y \in Has(s, "ready") /\ y # cur'
      /\ seqs'["waiters"] = s["waiters"] /\ seqs'["free"] = s["free"]
  BY <1>1, <1>3, ElectFacts
<1>5. /\ \A y : y \in Has(seqs, "ready") \/ y = cur <=> y \in Has(seqs', "ready") \/ y = cur'
      /\ cur' \notin Has(seqs', "ready")
      /\ Has(seqs', "waiters") = Has(seqs, "waiters") /\ Has(seqs', "free") = Has(seqs, "free")
  BY <1>2, <1>4 DEF Has
<1>6. Queues' = Has(seqs', "ready") \cup Has(seqs', "waiters")
  BY DEF Queues, Has
<1>7. SortsOK'
  BY <1>5, <1>6, StateFacts DEF SortsOK, Has
<1>8. StateOK'
  BY <1>3, <1>5, <1>6, StateFacts DEF IInv, StateOK
<1>9. NewOK'
  BY <1>3, <1>5, <1>6, StateFacts DEF IInv, NewOK
<1>10. WalkOK'
  <2> SUFFICES ASSUME NEW t \in Threads, t \notin moved, new[t] # Null
               PROVE  /\ at[t] \in {Elem(u) : u \in Has(seqs', "ready")} \cup {Tail_("ready"), Elem(cur')}
                      /\ at[t] # Elem(t)
    BY <1>3 DEF WalkOK, Has
  <2>1. /\ at[t] \in {Elem(u) : u \in Has(seqs, "ready")} \cup {Tail_("ready"), Elem(cur)}
        /\ at[t] # Elem(t)
    BY DEF IInv, WalkOK, Has
  <2> QED BY <1>5, <2>1
<1> QED BY <1>4, <1>7, <1>8, <1>9, <1>10 DEF IInv

LEMMA BlockStep ==
  ASSUME IInv, Block
  PROVE  IInv'
<1> DEFINE s == [seqs EXCEPT !["waiters"] = Append(seqs["waiters"], cur)]
           p == Appended(Fields, "waiters", Elem(cur))
<1>1. Correct(p, s)
  BY StateFacts, OffTheLists, NameFacts, AppendCorrect
<1>2. /\ \A y : y \in Has(s, "waiters") <=> y \in Has(seqs, "waiters") \/ y = cur
      /\ s["ready"] = seqs["ready"] /\ s["free"] = seqs["free"]
  <2>1. s = [seqs EXCEPT !["waiters"] = Append(seqs["waiters"], cur)]
    OBVIOUS
  <2>2. cur \in Items /\ seqs \in [Names -> Seq(Items)] /\ "waiters" \in Names
    BY StateFacts, NameFacts
  <2> HIDE DEF s
  <2>3. s["waiters"] = Append(seqs["waiters"], cur) /\ s["ready"] = seqs["ready"] /\ s["free"] = seqs["free"]
    BY <2>1, <2>2, NameFacts
  <2>4. seqs["waiters"] \in Seq(Items)
    BY <2>2
  <2>5. \A y : y \in ToSet(Append(seqs["waiters"], cur)) <=> y \in ToSet(seqs["waiters"]) \/ y = cur
    BY <2>2, <2>4, AppendFacts
  <2> QED BY <2>3, <2>5 DEF Has
<1>3. /\ Elect(p, s) /\ UNCHANGED <<new, at>>
      /\ new[cur] = Null
      /\ moved' = moved \cup {t \in Threads : at[t] = Elem(cur)}
  BY DEF Block
<1> HIDE DEF s, p
<1>4. /\ Correct(Fields', seqs') /\ cur' \in Has(s, "ready")
      /\ \A y : y \in Has(seqs', "ready") <=> y \in Has(s, "ready") /\ y # cur'
      /\ seqs'["waiters"] = s["waiters"] /\ seqs'["free"] = s["free"]
  BY <1>1, <1>3, ElectFacts
<1>5. /\ \A y : y \in Has(seqs, "ready") <=> y \in Has(seqs', "ready") \/ y = cur'
      /\ cur' \notin Has(seqs', "ready") /\ cur' \notin Has(seqs', "waiters")
      /\ \A y : y \in Has(seqs', "waiters") <=> y \in Has(seqs, "waiters") \/ y = cur
      /\ Has(seqs', "free") = Has(seqs, "free")
  <2>1. /\ \A y : y \in Has(seqs, "ready") <=> y \in Has(seqs', "ready") \/ y = cur'
        /\ cur' \notin Has(seqs', "ready") /\ cur' \in Has(seqs, "ready")
        /\ \A y : y \in Has(seqs', "waiters") <=> y \in Has(seqs, "waiters") \/ y = cur
        /\ Has(seqs', "free") = Has(seqs, "free")
    BY <1>2, <1>4 DEF Has
  <2> QED BY <2>1, StateFacts
<1>6. Queues' = Has(seqs', "ready") \cup Has(seqs', "waiters")
  BY DEF Queues, Has
<1>7. SortsOK'
  BY <1>5, <1>6, StateFacts DEF SortsOK, Has
<1>8. StateOK'
  BY <1>3, <1>5, <1>6, StateFacts DEF IInv, StateOK
<1>9. NewOK'
  BY <1>3, <1>5, <1>6, StateFacts DEF IInv, NewOK
<1>10. WalkOK'
  <2> SUFFICES ASSUME NEW t \in Threads, t \notin moved', new[t] # Null
               PROVE  /\ at[t] \in {Elem(u) : u \in Has(seqs', "ready")} \cup {Tail_("ready"), Elem(cur')}
                      /\ at[t] # Elem(t)
    BY <1>3 DEF WalkOK, Has
  <2>0. t \notin moved /\ at[t] # Elem(cur)
    BY <1>3
  <2>1. /\ at[t] \in {Elem(u) : u \in Has(seqs, "ready")} \cup {Tail_("ready"), Elem(cur)}
        /\ at[t] # Elem(t)
    BY <2>0 DEF IInv, WalkOK, Has
  <2> QED BY <1>5, <2>0, <2>1
<1> QED BY <1>4, <1>7, <1>8, <1>9, <1>10 DEF IInv

LEMMA WakeStep ==
  ASSUME IInv, Wake
  PROVE  IInv'
<1> DEFINE w == Head(seqs["waiters"])
           s == [seqs EXCEPT !["waiters"] = Tail(seqs["waiters"])]
           p == Popped(Fields, "waiters")
           r == [s EXCEPT !["ready"] = <<w>> \o s["ready"]]
<1>1. /\ seqs["waiters"] # <<>> /\ First(Fields, "waiters") = Elem(w) /\ w \in ToSet(seqs["waiters"])
      /\ w \in Items
  BY StateFacts, NameFacts, EmptyOrFirst DEF Wake
<1>2. Correct(p, s)
  BY <1>1, StateFacts, NameFacts, PopCorrect
<1>3. /\ s \in [Names -> Seq(Items)] /\ s["waiters"] = Tail(seqs["waiters"])
      /\ s["ready"] = seqs["ready"] /\ s["free"] = seqs["free"]
  BY <1>2, StateFacts, NameFacts DEF Correct
<1>4. \A y : y \in Has(s, "waiters") <=> y \in Has(seqs, "waiters") /\ y # w
  <2>1. seqs["waiters"] \in Seq(Items) /\ IsInjective(seqs["waiters"])
    BY StateFacts, NameFacts, CorrectFacts
  <2> QED BY <1>1, <1>3, <2>1, PopFacts DEF Has
<1>5. w \in Threads /\ w \notin Has(seqs, "ready") /\ w \notin Has(seqs, "free")
  BY <1>1, StateFacts DEF Has
<1>6. \A m \in Names : w \notin ToSet(s[m])
  BY <1>3, <1>4, <1>5, NameFacts DEF Has
<1> HIDE DEF s, p, w
<1>7. Correct(Pushed(p, "ready", Elem(w)), r)
  BY <1>1, <1>2, <1>6, NameFacts, PushCorrect
<1>8. seqs' = r
  BY <1>3, NameFacts DEF Wake, s, w
<1>9. Fields' = Pushed(p, "ready", Elem(w)) /\ UNCHANGED <<cur, new, at, moved>> /\ new[cur] = Null
  <2>1. Set(Pushed(p, "ready", Elem(w))) /\ UNCHANGED <<cur, new, at, moved>> /\ new[cur] = Null
    BY <1>1 DEF Wake, p
  <2>2. Pushed(p, "ready", Elem(w)) \in Ptrs
    BY <1>7 DEF Correct
  <2> QED BY <2>1, <2>2, SetFields
<1>10. /\ \A y : y \in Has(seqs', "ready") <=> y \in Has(seqs, "ready") \/ y = w
       /\ \A y : y \in Has(seqs', "waiters") <=> y \in Has(seqs, "waiters") /\ y # w
       /\ Has(seqs', "free") = Has(seqs, "free")
  <2>1. r["ready"] = <<w>> \o seqs["ready"] /\ r["waiters"] = s["waiters"] /\ r["free"] = s["free"]
    BY <1>3, NameFacts
  <2>2. seqs["ready"] \in Seq(Items)
    BY StateFacts, NameFacts
  <2>3. \A y : y \in ToSet(<<w>> \o seqs["ready"]) <=> y \in ToSet(seqs["ready"]) \/ y = w
    BY <1>1, <2>2, PushFacts
  <2> HIDE DEF r
  <2> QED BY <1>3, <1>4, <1>8, <2>1, <2>3 DEF Has
<1> HIDE DEF r
<1>11. Queues' = Has(seqs', "ready") \cup Has(seqs', "waiters") /\ Queues' = Queues /\ w \in Queues
  <2>1. Queues' = Has(seqs', "ready") \cup Has(seqs', "waiters")
    BY DEF Queues, Has
  <2>2. w \in Has(seqs, "waiters")
    BY <1>1 DEF Has
  <2> QED BY <1>10, <2>1, <2>2, StateFacts
<1>12. SortsOK'
  BY <1>10, <1>11, StateFacts DEF SortsOK, Has
<1>13. StateOK'
  BY <1>9, <1>11, StateFacts DEF IInv, StateOK
<1>14. NewOK'
  BY <1>9, <1>11, StateFacts DEF IInv, NewOK
<1>15. WalkOK'
  <2> SUFFICES ASSUME NEW t \in Threads, t \notin moved, new[t] # Null
               PROVE  /\ at[t] \in {Elem(u) : u \in Has(seqs', "ready")} \cup {Tail_("ready"), Elem(cur)}
                      /\ at[t] # Elem(t)
    BY <1>9 DEF WalkOK, Has
  <2>1. /\ at[t] \in {Elem(u) : u \in Has(seqs, "ready")} \cup {Tail_("ready"), Elem(cur)}
        /\ at[t] # Elem(t)
    BY DEF IInv, WalkOK, Has
  <2> QED BY <1>10, <2>1
<1> QED BY <1>7, <1>8, <1>9, <1>12, <1>13, <1>14, <1>15 DEF IInv

-----------------------------------------------------------------------------
(* thread_start.                                                           *)

LEMMA BeginStep ==
  ASSUME IInv, NEW u \in Threads, Begin(u)
  PROVE  IInv'
<1>1. /\ \A t \in Threads : new[t] # u
      /\ u # cur /\ u \notin Queues
      /\ new' = [new EXCEPT ![cur] = u]
      /\ at' = [at EXCEPT ![cur] = First(Fields, "ready")]
      /\ moved' = moved \ {cur}
      /\ UNCHANGED <<ptrs, seqs, cur>>
  BY DEF Begin, Queues
<1>2. Fields' = Fields /\ seqs' = seqs /\ cur' = cur /\ Queues' = Queues
  BY <1>1 DEF Fields, ptrs, Queues
<1>3. First(Fields, "ready") \in {Elem(x) : x \in Has(seqs, "ready")} \cup {Tail_("ready")}
  BY StateFacts, NameFacts, EmptyOrFirst DEF Has
<1>4. First(Fields, "ready") \in Nodes /\ First(Fields, "ready") # Elem(cur)
  BY <1>3, StateFacts, NameFacts, NodeFacts
<1>5. /\ cur \in Threads /\ new \in [Threads -> Threads \cup {Null}] /\ at \in [Threads -> Nodes \cup {Nil}]
      /\ moved \in SUBSET Threads
  BY DEF IInv, StateOK
<1>6. Correct(Fields', seqs')
  BY <1>2, StateFacts
<1>7. SortsOK'
  BY <1>2 DEF IInv, SortsOK
<1>8. StateOK'
  BY <1>1, <1>2, <1>4, <1>5 DEF IInv, StateOK
<1>9. NewOK'
  BY <1>1, <1>2, <1>5 DEF IInv, NewOK
<1>10. WalkOK'
  <2> SUFFICES ASSUME NEW t \in Threads, t \notin moved', new'[t] # Null
               PROVE  /\ at'[t] \in {Elem(x) : x \in Has(seqs, "ready")} \cup {Tail_("ready"), Elem(cur)}
                      /\ at'[t] # Elem(t)
    BY <1>2 DEF WalkOK, Has
  <2>1. CASE t = cur
    BY <1>1, <1>3, <1>4, <1>5, <2>1
  <2>2. CASE t # cur
    <3>1. t \notin moved /\ new[t] # Null /\ at'[t] = at[t]
      BY <1>1, <1>5, <2>2
    <3> QED BY <3>1 DEF IInv, WalkOK, Has
  <2> QED BY <2>1, <2>2
<1> QED BY <1>6, <1>7, <1>8, <1>9, <1>10 DEF IInv

\* What follows an element of a list.
LEMMA NextOnList ==
  ASSUME NEW p, NEW s, Correct(p, s), NEW l \in Names, NEW x, x \in Has(s, l)
  PROVE  p.next[Elem(x)] \in {Elem(y) : y \in Has(s, l)} \cup {Tail_(l)}
<1>1. s[l] \in Seq(Items) /\ IsInjective(s[l]) /\ Len(s[l]) \in Nat /\ Linked(p, l, s[l])
  BY CorrectFacts, LenProperties
<1>2. PICK i \in 1 .. Len(s[l]) : s[l][i] = x
  <2>1. DOMAIN s[l] = 1 .. Len(s[l])
    BY <1>1, LenProperties
  <2> QED BY <2>1 DEF Has, ToSet
<1>3. NodeAt(l, s[l], i) = Elem(x)
  BY <1>1, <1>2, NodeAtFacts
<1>4. p.next[Elem(x)] = NodeAt(l, s[l], i + 1)
  <2>1. i \in 0 .. Len(s[l])
    BY <1>1
  <2> QED BY <1>1, <1>3, <2>1 DEF Linked
<1>5. CASE i + 1 \in 1 .. Len(s[l])
  <2>1. NodeAt(l, s[l], i + 1) = Elem(s[l][i + 1]) /\ s[l][i + 1] \in ToSet(s[l])
    BY <1>1, <1>5, NodeAtFacts
  <2> QED BY <1>4, <2>1 DEF Has
<1>6. CASE i + 1 = Len(s[l]) + 1
  BY <1>1, <1>4, <1>6, NodeAtFacts
<1> QED BY <1>1, <1>5, <1>6

LEMMA WalkStep ==
  ASSUME IInv, Walk
  PROVE  IInv'
<1>1. /\ new[cur] # Null /\ at[cur] # Tail_("ready") /\ at[cur] # Nil
      /\ at' = [at EXCEPT ![cur] = next[at[cur]]]
      /\ UNCHANGED <<ptrs, seqs, cur, new, moved>>
  BY DEF Walk
<1>2. Fields' = Fields /\ seqs' = seqs /\ cur' = cur /\ Queues' = Queues
  BY <1>1 DEF Fields, ptrs, Queues
<1>5. /\ cur \in Threads /\ new \in [Threads -> Threads \cup {Null}] /\ at \in [Threads -> Nodes \cup {Nil}]
      /\ moved \in SUBSET Threads
  BY DEF IInv, StateOK
<1>3. at[cur] \in Nodes /\ next[at[cur]] \in Nodes \cup {Nil}
  <2>1. at[cur] \in Nodes
    BY <1>1, <1>5
  <2>2. Fields.next \in [Nodes -> Nodes \cup {Nil}] /\ Fields.next = next
    BY StateFacts, PtrsFacts DEF Fields
  <2> QED BY <2>1, <2>2
<1>4. ASSUME cur \notin moved
      PROVE  /\ next[at[cur]] \in {Elem(x) : x \in Has(seqs, "ready")} \cup {Tail_("ready")}
             /\ next[at[cur]] # Elem(cur)
  <2>1. at[cur] \in {Elem(x) : x \in Has(seqs, "ready")} \cup {Tail_("ready"), Elem(cur)} /\ at[cur] # Elem(cur)
    BY <1>1, <1>4, <1>5 DEF IInv, WalkOK, Has
  <2>2. PICK x \in Has(seqs, "ready") : at[cur] = Elem(x)
    BY <1>1, <2>1
  <2>3. Fields.next[Elem(x)] \in {Elem(y) : y \in Has(seqs, "ready")} \cup {Tail_("ready")}
    BY StateFacts, NameFacts, NextOnList
  <2>4. next[at[cur]] \in {Elem(y) : y \in Has(seqs, "ready")} \cup {Tail_("ready")}
    BY <2>2, <2>3 DEF Fields
  <2> QED BY <2>4, StateFacts, NodeFacts
<1>6. Correct(Fields', seqs')
  BY <1>2, StateFacts
<1>7. SortsOK'
  BY <1>2 DEF IInv, SortsOK
<1>8. StateOK'
  BY <1>1, <1>2, <1>3, <1>5 DEF IInv, StateOK
<1>9. NewOK'
  BY <1>1, <1>2, <1>5 DEF IInv, NewOK
<1>10. WalkOK'
  <2> SUFFICES ASSUME NEW t \in Threads, t \notin moved, new[t] # Null
               PROVE  /\ at'[t] \in {Elem(x) : x \in Has(seqs, "ready")} \cup {Tail_("ready"), Elem(cur)}
                      /\ at'[t] # Elem(t)
    BY <1>1, <1>2 DEF WalkOK, Has
  <2>1. CASE t = cur
    BY <1>1, <1>4, <1>5, <2>1
  <2>2. CASE t # cur
    <3>1. at'[t] = at[t]
      BY <1>1, <1>5, <2>2
    <3> QED BY <3>1 DEF IInv, WalkOK, Has
  <2> QED BY <2>1, <2>2
<1> QED BY <1>6, <1>7, <1>8, <1>9, <1>10 DEF IInv

LEMMA LinkStep ==
  ASSUME IInv, Link
  PROVE  IInv'
<1> DEFINE u == new[cur]
           s == [seqs EXCEPT !["ready"] = Append(seqs["ready"], u)]
           p == Appended(Fields, "ready", Elem(u))
<1>1. /\ u # Null
      /\ Set(p) /\ seqs' = s
      /\ new' = [new EXCEPT ![cur] = Null] /\ at' = [at EXCEPT ![cur] = Nil]
      /\ UNCHANGED <<cur, moved>>
  BY DEF Link
<1>2. /\ cur \in Threads /\ new \in [Threads -> Threads \cup {Null}] /\ at \in [Threads -> Nodes \cup {Nil}]
      /\ moved \in SUBSET Threads
  BY DEF IInv, StateOK
<1>3. u \in Threads /\ u # cur /\ u \notin Queues /\ \A t \in Threads : new[t] = u => t = cur
  BY <1>1, <1>2 DEF IInv, NewOK
<1> HIDE DEF u
<1>4. Correct(p, s)
  BY <1>3, StateFacts, OffTheLists, NameFacts, AppendCorrect
<1>5. Correct(Fields', seqs')
  <2>1. p \in Ptrs
    BY <1>4 DEF Correct
  <2> HIDE DEF p, s
  <2> QED BY <1>1, <1>4, <2>1, SetFields
<1>6. /\ \A y : y \in Has(seqs', "ready") <=> y \in Has(seqs, "ready") \/ y = u
      /\ Has(seqs', "waiters") = Has(seqs, "waiters") /\ Has(seqs', "free") = Has(seqs, "free")
  <2>1. /\ \A y : y \in Has(s, "ready") <=> y \in Has(seqs, "ready") \/ y = u
        /\ s["waiters"] = seqs["waiters"] /\ s["free"] = seqs["free"]
    <3>1. s = [seqs EXCEPT !["ready"] = Append(seqs["ready"], u)]
      OBVIOUS
    <3>2. u \in Items /\ seqs \in [Names -> Seq(Items)] /\ "ready" \in Names
      BY StateFacts, NameFacts, <1>3
    <3> HIDE DEF s
    <3>3. s["ready"] = Append(seqs["ready"], u) /\ s["waiters"] = seqs["waiters"] /\ s["free"] = seqs["free"]
      BY <3>1, <3>2, NameFacts
    <3>4. seqs["ready"] \in Seq(Items)
      BY <3>2
    <3>5. \A y : y \in ToSet(Append(seqs["ready"], u)) <=> y \in ToSet(seqs["ready"]) \/ y = u
      BY <3>2, <3>4, AppendFacts
    <3> QED BY <3>3, <3>5 DEF Has
  <2> HIDE DEF s
  <2> QED BY <1>1, <2>1 DEF Has
<1> HIDE DEF p, s
<1>7. \A y : y \in Queues' <=> y \in Queues \/ y = u
  <2>1. Queues' = Has(seqs', "ready") \cup Has(seqs', "waiters")
    BY DEF Queues, Has
  <2> QED BY <1>6, <2>1, StateFacts
<1>8. SortsOK'
  BY <1>3, <1>6, <1>7, StateFacts DEF SortsOK, Has
<1>9. StateOK'
  BY <1>1, <1>2, <1>3, <1>7, StateFacts DEF StateOK
<1>10. NewOK'
  <2> SUFFICES ASSUME NEW t \in Threads, new'[t] # Null
               PROVE  /\ new'[t] # cur /\ new'[t] \notin Queues'
                      /\ \A v \in Threads : new'[v] = new'[t] => v = t
    BY <1>1 DEF NewOK
  <2>1. t # cur /\ new'[t] = new[t] /\ new[t] # u
    BY <1>1, <1>2, <1>3
  <2>2. new[t] # cur /\ new[t] \notin Queues /\ \A v \in Threads : new[v] = new[t] => v = t
    BY <2>1 DEF IInv, NewOK
  <2>3. \A v \in Threads : new'[v] = new'[t] => new[v] = new[t]
    BY <1>1, <1>2, <2>1
  <2> QED BY <1>7, <2>1, <2>2, <2>3
<1>11. WalkOK'
  <2> SUFFICES ASSUME NEW t \in Threads, t \notin moved, new'[t] # Null
               PROVE  /\ at'[t] \in {Elem(x) : x \in Has(seqs', "ready")} \cup {Tail_("ready"), Elem(cur)}
                      /\ at'[t] # Elem(t)
    BY <1>1 DEF WalkOK, Has
  <2>1. t # cur /\ new[t] # Null /\ at'[t] = at[t]
    BY <1>1, <1>2
  <2>2. at[t] \in {Elem(x) : x \in Has(seqs, "ready")} \cup {Tail_("ready"), Elem(cur)} /\ at[t] # Elem(t)
    BY <2>1 DEF IInv, WalkOK, Has
  <2> QED BY <1>6, <2>1, <2>2
<1> QED BY <1>5, <1>8, <1>9, <1>10, <1>11 DEF IInv

-----------------------------------------------------------------------------
(* The free list.                                                          *)

\* A step that changes nothing but the free list, which keeps to blocks.
LEMMA FreeStep ==
  ASSUME IInv, Correct(Fields', seqs'),
         seqs'["ready"] = seqs["ready"], seqs'["waiters"] = seqs["waiters"],
         Has(seqs', "free") \subseteq Blocks,
         UNCHANGED <<cur, new, at, moved>>
  PROVE  IInv'
<1>1. Queues' = Queues /\ Has(seqs', "ready") = Has(seqs, "ready")
  BY DEF Queues, Has
<1>2. SortsOK'
  BY <1>1 DEF IInv, SortsOK, Has
<1>3. StateOK'
  BY <1>1 DEF IInv, StateOK
<1>4. NewOK'
  BY <1>1 DEF IInv, NewOK
<1>5. WalkOK'
  BY <1>1 DEF IInv, WalkOK, Has
<1> QED BY <1>2, <1>3, <1>4, <1>5 DEF IInv

LEMMA GiveBackStep ==
  ASSUME IInv, NEW b \in Blocks, GiveBack(b)
  PROVE  IInv'
<1> DEFINE s == [seqs EXCEPT !["free"] = Append(seqs["free"], b)]
           p == Appended(Fields, "free", Elem(b))
<1>1. b \notin Has(seqs, "free") /\ Set(p) /\ seqs' = s /\ UNCHANGED <<cur, new, at, moved>>
  BY DEF GiveBack, Has
<1>2. Correct(p, s)
  BY <1>1, StateFacts, OffTheLists, NameFacts, AppendCorrect
<1>3. /\ \A y : y \in Has(s, "free") <=> y \in Has(seqs, "free") \/ y = b
      /\ s["waiters"] = seqs["waiters"] /\ s["ready"] = seqs["ready"]
  <2>1. s = [seqs EXCEPT !["free"] = Append(seqs["free"], b)]
    OBVIOUS
  <2>2. b \in Items /\ seqs \in [Names -> Seq(Items)] /\ "free" \in Names
    BY StateFacts, NameFacts
  <2> HIDE DEF s
  <2>3. s["free"] = Append(seqs["free"], b) /\ s["ready"] = seqs["ready"] /\ s["waiters"] = seqs["waiters"]
    BY <2>1, <2>2, NameFacts
  <2>4. seqs["free"] \in Seq(Items)
    BY <2>2
  <2>5. \A y : y \in ToSet(Append(seqs["free"], b)) <=> y \in ToSet(seqs["free"]) \/ y = b
    BY <2>2, <2>4, AppendFacts
  <2> QED BY <2>3, <2>5 DEF Has
<1>4. p \in Ptrs
  BY <1>2 DEF Correct
<1> HIDE DEF p, s
<1>5. Correct(Fields', seqs')
  BY <1>1, <1>2, <1>4, SetFields
<1> QED BY <1>1, <1>3, <1>5, StateFacts, FreeStep

LEMMA TakeStep ==
  ASSUME IInv, Take
  PROVE  IInv'
<1> DEFINE s == [seqs EXCEPT !["free"] = Tail(seqs["free"])]
           p == Popped(Fields, "free")
<1>1. seqs["free"] # <<>> /\ Set(p) /\ seqs' = s /\ UNCHANGED <<cur, new, at, moved>>
  BY StateFacts, NameFacts, EmptyOrFirst DEF Take
<1>2. Correct(p, s)
  BY <1>1, StateFacts, NameFacts, PopCorrect
<1>3. s["free"] = Tail(seqs["free"]) /\ s["waiters"] = seqs["waiters"] /\ s["ready"] = seqs["ready"]
  BY StateFacts, NameFacts
<1>4. p \in Ptrs
  BY <1>2 DEF Correct
<1>5. Has(s, "free") \subseteq Has(seqs, "free")
  <2>1. seqs["free"] \in Seq(Items) /\ IsInjective(seqs["free"])
    BY StateFacts, NameFacts, CorrectFacts
  <2> QED BY <1>1, <1>3, <2>1, PopFacts DEF Has
<1> HIDE DEF p, s
<1>6. Correct(Fields', seqs')
  BY <1>1, <1>2, <1>4, SetFields
<1> QED BY <1>1, <1>3, <1>5, <1>6, StateFacts, FreeStep

LEMMA UnlinkStep ==
  ASSUME IInv, NEW b \in Blocks, Unlink(b)
  PROVE  IInv'
<1> DEFINE i == CHOOSE i \in DOMAIN seqs["free"] : seqs["free"][i] = b
           s == [seqs EXCEPT !["free"] = RemoveAt(seqs["free"], i)]
           p == Removed(Fields, Elem(b))
<1>1. b \in ToSet(seqs["free"]) /\ Set(p) /\ seqs' = s /\ UNCHANGED <<cur, new, at, moved>>
  BY DEF Unlink
<1>2. i \in DOMAIN seqs["free"] /\ seqs["free"][i] = b
  BY <1>1 DEF ToSet
<1> HIDE DEF i
<1>3. Correct(p, s)
  BY <1>2, StateFacts, NameFacts, UnlinkCorrect
<1>4. s["free"] = RemoveAt(seqs["free"], i) /\ s["waiters"] = seqs["waiters"] /\ s["ready"] = seqs["ready"]
  BY StateFacts, NameFacts
<1>5. p \in Ptrs
  BY <1>3 DEF Correct
<1>6. Has(s, "free") \subseteq Has(seqs, "free")
  <2>1. seqs["free"] \in Seq(Items) /\ IsInjective(seqs["free"])
    BY StateFacts, NameFacts, CorrectFacts
  <2> QED BY <1>2, <1>4, <2>1, RemoveAtFacts DEF Has
<1> HIDE DEF p, s
<1>7. Correct(Fields', seqs')
  BY <1>1, <1>3, <1>5, SetFields
<1> QED BY <1>1, <1>4, <1>6, <1>7, StateFacts, FreeStep

-----------------------------------------------------------------------------
(* The theorems.                                                           *)

LEMMA NextStep ==
  ASSUME IInv, [Next]_vars
  PROVE  IInv'
<1>1. CASE UNCHANGED vars
  BY <1>1 DEF vars, ptrs, IInv, Fields, SortsOK, Queues, StateOK, NewOK, WalkOK
<1>2. CASE Switch
  BY <1>2, SwitchStep
<1>3. CASE Block
  BY <1>3, BlockStep
<1>4. CASE Wake
  BY <1>4, WakeStep
<1>5. CASE Walk
  BY <1>5, WalkStep
<1>6. CASE Link
  BY <1>6, LinkStep
<1>7. CASE Take
  BY <1>7, TakeStep
<1>8. CASE \E u \in Threads : Begin(u)
  BY <1>8, BeginStep
<1>9. CASE \E b \in Blocks : GiveBack(b) \/ Unlink(b)
  BY <1>9, GiveBackStep, UnlinkStep
<1> QED BY <1>1, <1>2, <1>3, <1>4, <1>5, <1>6, <1>7, <1>8, <1>9 DEF Next

\* The invariant of ListInv holds in every state.
THEOREM InvariantHolds == Spec => []IInv
<1>1. Init => IInv
  BY InitOK
<1>2. IInv /\ [Next]_vars => IInv'
  BY NextStep
<1> QED BY <1>1, <1>2, PTL DEF Spec

\* The types, and that next and prev of list.c chain exactly the elements each list should
\* have, forwards and backwards, no element on two lists (list_insert_before, list_remove).
THEOREM ListsStayExact == Spec => []ListsExact
<1>1. IInv => ListsExact
  <2> SUFFICES ASSUME IInv PROVE ListsExact
    OBVIOUS
  <2>1. Correct(Fields, seqs)
    BY StateFacts
  <2>2. ListsAreSequences
    BY <2>1 DEF Correct, ListsAreSequences
  <2>3. next \in [Nodes -> Nodes \cup {Nil}] /\ prev \in [Nodes -> Nodes \cup {Nil}]
    <3>1. Fields.next = next /\ Fields.prev = prev
      BY DEF Fields
    <3> QED BY <3>1, StateFacts, PtrsFacts
  <2>4. TypeOK
    BY <2>3 DEF IInv, StateOK, TypeOK, Queues
  <2> QED BY <2>2, <2>4 DEF ListsExact
<1> QED BY <1>1, InvariantHolds, PTL

\* elem_find of a thread that runs is on the ready list, however the timer changed the
\* list under it, unless the thread whose tag it was at has blocked (thread.c:96).
THEOREM ElemFindStays == Spec => []WalkStaysOnReady
<1>1. IInv => WalkStaysOnReady
  BY DEF IInv, WalkOK, StateOK, WalkStaysOnReady
<1> QED BY <1>1, InvariantHolds, PTL
=============================================================================
