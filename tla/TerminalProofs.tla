--------------------------- MODULE TerminalProofs ---------------------------
(* What is proved of the screen and the keyboard, for any threads, strings *)
(* and sizes of the screen: the inductive invariant of TerminalInv, and    *)
(* the properties that follow from it.                                     *)
EXTENDS TerminalInv, DataLemmas

-----------------------------------------------------------------------------
(* The numbers of the display controller.                                  *)

LEMMA Sizes ==
  /\ Cols \in Nat \ {0} /\ Rows \in Nat \ {0} /\ Byte \in Nat \ {0}
  /\ Size \in Nat \ {0} /\ Word \in Nat \ {0} /\ Limit \in Nat \ {0}
  /\ Cols <= Size /\ Size < Limit /\ 4 * Limit <= Word
  /\ Word \div 2 \in Nat /\ 2 * Limit <= Word \div 2 /\ 2 * (Word \div 2) <= Word
  /\ Word - 1 >= Word \div 2
<1>1. Cols \in Nat \ {0} /\ Rows \in Nat \ {0} /\ Byte \in Nat \ {0}
  BY TerminalAssumption
<1>2. Size \in Nat \ {0} /\ Cols <= Size
  BY <1>1 DEF Size
<1>3. Word \in Nat \ {0}
  BY <1>1 DEF Word
<1>4. Size < Limit /\ Limit = Word \div 4
  BY TerminalAssumption DEF Limit
<1> HIDE DEF Size, Word
<1>5. Limit \in Nat \ {0} /\ 4 * Limit <= Word
  BY <1>2, <1>3, <1>4
<1>6. Word \div 2 \in Nat /\ 2 * (Word \div 2) <= Word /\ Word <= 2 * (Word \div 2) + 1
  BY <1>3
<1>7. 2 * Limit <= Word \div 2 /\ Word - 1 >= Word \div 2
  BY <1>3, <1>5, <1>6
<1> QED
  BY <1>1, <1>2, <1>3, <1>4, <1>5, <1>6, <1>7

\* A cursor in two bytes.
LEMMA TwoBytes ==
  ASSUME NEW hi \in 0 .. Byte - 1, NEW lo \in 0 .. Byte - 1
  PROVE  hi * Byte \in 0 .. Word - 1 /\ hi * Byte + lo \in 0 .. Word - 1
<1>1. Byte \in Nat \ {0}
  BY Sizes
<1>2. hi * Byte \in Nat /\ hi * Byte <= (Byte - 1) * Byte
  BY <1>1
<1>3. (Byte - 1) * Byte = Word - Byte
  BY <1>1 DEF Word
<1>4. Word \in Nat
  BY Sizes
<1> QED
  BY <1>1, <1>2, <1>3, <1>4

LEMMA Split ==
  ASSUME NEW b \in 0 .. Word - 1
  PROVE  /\ b \div Byte \in 0 .. Byte - 1 /\ b % Byte \in 0 .. Byte - 1
         /\ (b \div Byte) * Byte + (b % Byte) = b
<1>1. Byte \in Nat \ {0} /\ b \in Nat
  BY Sizes
<1>2. b \div Byte \in Nat /\ b % Byte \in 0 .. Byte - 1 /\ b = (Byte * (b \div Byte)) + (b % Byte)
  BY <1>1, DivMod
<1>3. ASSUME b \div Byte >= Byte PROVE FALSE
  <2>1. Byte * (b \div Byte) >= Byte * Byte
    BY <1>1, <1>2, <1>3
  <2>2. Byte * Byte \in Nat /\ Byte * (b \div Byte) \in Nat
    BY <1>1, <1>2
  <2> QED
    BY <1>2, <2>1, <2>2 DEF Word
<1> DEFINE q == b \div Byte
           r == b % Byte
<1>4. q \in Nat /\ r \in 0 .. Byte - 1 /\ b = (Byte * q) + r /\ ~(q >= Byte)
  BY <1>2, <1>3
<1> HIDE DEF q, r
<1>5. q \in 0 .. Byte - 1 /\ q * Byte + r = b
  BY <1>1, <1>4
<1> QED
  BY <1>4, <1>5 DEF q, r

\* The first cell of the next line.
NextLine(b) == b - (b % Cols) + Cols

LEMMA LineFacts ==
  ASSUME NEW b \in 0 .. Size - 1, NEW top \in Nat
  PROVE  /\ NextLine(b) \in b + 1 .. Size
         /\ ((top * Cols + b) \div Cols + 1) * Cols = top * Cols + NextLine(b)
<1> DEFINE q == b \div Cols
           r == b % Cols
<1>1. Cols \in Nat \ {0} /\ Rows \in Nat \ {0} /\ b \in Nat /\ Size = Cols * Rows /\ Size \in Nat
  BY Sizes DEF Size
<1>2. q \in Nat /\ r \in 0 .. Cols - 1 /\ b = (Cols * q) + r
  BY <1>1, DivMod
<1> HIDE DEF q, r
<1>3. q < Rows
  <2>1. ASSUME q >= Rows PROVE FALSE
    <3>1. Cols * q >= Cols * Rows
      BY <1>1, <1>2, <2>1
    <3>2. Cols * q \in Nat
      BY <1>1, <1>2
    <3> QED
      BY <1>1, <1>2, <3>1, <3>2
  <2> QED
    BY <1>1, <1>2, <2>1
<1>4. Cols * q + Cols <= Size
  <2>1. Cols * (q + 1) <= Cols * Rows
    BY <1>1, <1>2, <1>3
  <2>2. Cols * (q + 1) = Cols * q + Cols
    BY <1>1, <1>2
  <2> QED
    BY <1>1, <2>1, <2>2
<1>5. NextLine(b) = Cols * q + Cols
  BY <1>1, <1>2 DEF NextLine, r
<1>6. NextLine(b) \in b + 1 .. Size
  <2>1. Cols * q \in Nat
    BY <1>1, <1>2
  <2> QED
    BY <1>1, <1>2, <1>4, <1>5, <2>1
<1>7. (top * Cols + b) \div Cols = top + q
  <2>1. top * Cols + b = Cols * (top + q) + r
    BY <1>1, <1>2
  <2>2. top + q \in Nat /\ top * Cols + b \in Nat
    BY <1>1, <1>2
  <2> DEFINE m == top * Cols + b
             k == top + q
  <2>3. m \in Nat /\ k \in Nat /\ m = Cols * k + r
    BY <2>1, <2>2
  <2> HIDE DEF m, k
  <2>4. m \div Cols \in Nat /\ m % Cols \in 0 .. Cols - 1 /\ m = (Cols * (m \div Cols)) + (m % Cols)
    BY <1>1, <2>3, DivMod
  <2>5. m \div Cols = k
    <3> DEFINE x == m \div Cols
               y == m % Cols
    <3>1. x \in Nat /\ y \in 0 .. Cols - 1 /\ Cols * x + y = Cols * k + r
      BY <2>3, <2>4
    <3> HIDE DEF x, y
    <3>2. ASSUME x < k PROVE FALSE
      <4>1. Cols * (x + 1) <= Cols * k
        BY <1>1, <2>3, <3>1, <3>2
      <4>2. Cols * (x + 1) = Cols * x + Cols /\ Cols * x \in Nat /\ Cols * k \in Nat
        BY <1>1, <2>3, <3>1
      <4> QED
        BY <1>1, <1>2, <3>1, <4>1, <4>2
    <3>3. ASSUME k < x PROVE FALSE
      <4>1. Cols * (k + 1) <= Cols * x
        BY <1>1, <2>3, <3>1, <3>3
      <4>2. Cols * (k + 1) = Cols * k + Cols /\ Cols * x \in Nat /\ Cols * k \in Nat
        BY <1>1, <2>3, <3>1
      <4> QED
        BY <1>1, <1>2, <3>1, <4>1, <4>2
    <3>4. x = k
      BY <2>3, <3>1, <3>2, <3>3
    <3> QED
      BY <3>4 DEF x
  <2> QED
    BY <2>5 DEF m, k
<1>8. (top + q + 1) * Cols = top * Cols + (Cols * q + Cols)
  BY <1>1, <1>2
<1> QED
  BY <1>5, <1>6, <1>7, <1>8

-----------------------------------------------------------------------------
(* What put_char draws.                                                    *)

\* The screen put_char works on, before and after a fault.
Good(c, b) == Screen(c, b, FALSE)
Bad(c, b)  == Screen(c, b, TRUE)

LEMMA Fields ==
  ASSUME NEW c, NEW b
  PROVE  /\ Good(c, b).cells = c /\ Good(c, b).bx = b /\ ~Good(c, b).fault /\ Good(c, b).fault = FALSE
         /\ Bad(c, b).cells = c /\ Bad(c, b).bx = b /\ Bad(c, b).fault /\ Bad(c, b).fault = TRUE
BY DEF Good, Bad, Screen

LEMMA NewLineIs ==
  ASSUME NEW c, NEW b
  PROVE  LET next == NextLine(b) % Word IN
           NewLine(c, b) = IF next \in Size .. (Word \div 2) - 1 THEN Good(Rolled(c), Size - Cols)
                                                                 ELSE Good(c, next)
BY DEF NewLine, Good, NextLine

LEMMA ShowIs ==
  ASSUME NEW c, NEW b, NEW at, NEW x
  PROVE  LET cell == at % (Word \div 2) IN
           Show(c, b, at, x) = IF cell < Limit THEN Good([c EXCEPT ![cell] = x], cell) ELSE Bad(c, b)
BY DEF Show, Good, Bad

LEMMA DrawnGood ==
  ASSUME NEW c, NEW b, NEW x
  PROVE  Drawn(Good(c, b), x) = DrawnOn(c, b, x)
BY DEF Drawn, Good, Screen

LEMMA Strings == NL # BS
BY DEF NL, BS

LEMMA DrawnBad ==
  ASSUME NEW c, NEW b, NEW x
  PROVE  Drawn(Bad(c, b), x) = Bad(c, b)
BY Fields DEF Drawn

\* The character that is neither: it is shown, and at the end of the line a new one begins.
LEMMA DrawnOther ==
  ASSUME NEW c, NEW b, NEW x, x # NL, x # BS
  PROVE  LET cell == b % (Word \div 2)
             k == [c EXCEPT ![cell] = x]
         IN Drawn(Good(c, b), x) =
              IF cell < Limit
                THEN IF cell + 1 < Size THEN Good(k, cell + 1) ELSE NewLine(k, cell + 1)
                ELSE Bad(c, b)
<1> DEFINE cell == b % (Word \div 2)
           k == [c EXCEPT ![cell] = x]
           w == Show(c, b, b, x)
<1>1. w = IF cell < Limit THEN Good(k, cell) ELSE Bad(c, b)
  BY ShowIs
<1>2. Drawn(Good(c, b), x) = IF w.fault THEN w
        ELSE IF w.bx + 1 < Size THEN Good(w.cells, w.bx + 1) ELSE NewLine(w.cells, w.bx + 1)
  BY DrawnGood DEF DrawnOn, Good
<1> HIDE DEF w, k, cell
<1>3. CASE cell < Limit
  <2>1. w = Good(k, cell)
    BY <1>1, <1>3
  <2>2. w.bx = cell /\ ~w.fault /\ w.cells = k
    BY <2>1 DEF Good, Screen
  <2>3. Drawn(Good(c, b), x) = IF cell + 1 < Size THEN Good(k, cell + 1) ELSE NewLine(k, cell + 1)
    BY <1>2, <2>2
  <2> QED
    BY <1>3, <2>3 DEF cell, k
<1>4. CASE ~(cell < Limit)
  <2>1. w = Bad(c, b)
    BY <1>1, <1>4
  <2>2. w.fault
    BY <2>1, Fields
  <2>3. Drawn(Good(c, b), x) = Bad(c, b)
    BY <1>2, <2>1, <2>2
  <2> QED
    BY <1>4, <2>3 DEF cell
<1> QED
  BY <1>3, <1>4

\* Whatever the cursor is, it stays a word.
Screens(s) == \E c, b : /\ DOMAIN c = 0 .. Limit - 1 /\ b \in 0 .. Word - 1
                        /\ s = Good(c, b) \/ s = Bad(c, b)

LEMMA NewLineKeeps ==
  ASSUME NEW c, DOMAIN c = 0 .. Limit - 1, NEW b \in 0 .. Word
  PROVE  Screens(NewLine(c, b))
<1>1. Cols \in Nat \ {0} /\ Word \in Nat \ {0} /\ Size \in Nat /\ Size - Cols \in 0 .. Word - 1
  <2> HIDE DEF Size, Word, Limit
  <2> QED
    BY Sizes
<1> DEFINE r == b % Cols
<1>2. r \in 0 .. Cols - 1 /\ r <= b
  <2> DEFINE q == b \div Cols
  <2>1. b \in Nat
    BY <1>1
  <2>2. q \in Nat /\ r \in 0 .. Cols - 1 /\ b = (Cols * q) + r
    BY <1>1, <2>1, DivMod
  <2> HIDE DEF q, r
  <2>3. Cols * q \in Nat
    BY <1>1, <2>2
  <2> QED
    BY <1>1, <2>1, <2>2, <2>3
<1>3. NextLine(b) \in Nat
  <2> HIDE DEF r
  <2> QED
    BY <1>1, <1>2 DEF NextLine, r
<1>4. NextLine(b) % Word \in 0 .. Word - 1
  BY <1>1, <1>3, DivMod
<1>5. DOMAIN Rolled(c) = 0 .. Limit - 1
  BY DEF Rolled
<1> QED
  BY <1>1, <1>4, <1>5, NewLineIs DEF Screens

LEMMA DrawnKeeps ==
  ASSUME NEW s, Screens(s), NEW x
  PROVE  Screens(Drawn(s, x))
<1>1. PICK c, b : /\ DOMAIN c = 0 .. Limit - 1 /\ b \in 0 .. Word - 1
                  /\ s = Good(c, b) \/ s = Bad(c, b)
  BY DEF Screens
<1> DEFINE Half == Word \div 2
<1>2. /\ Word \in Nat \ {0} /\ Half \in Nat \ {0} /\ Half <= Word /\ Limit \in Nat /\ Limit < Word
  BY Sizes
<1>3. CASE s = Bad(c, b)
  BY <1>1, <1>3, DrawnBad
<1>4. CASE s = Good(c, b)
  <2>1. CASE x = NL
    <3>1. Drawn(s, x) = NewLine(c, b)
      BY <1>4, <2>1, DrawnGood DEF DrawnOn
    <3> QED
      BY <1>1, <1>2, <3>1, NewLineKeeps
  <2>2. CASE x = BS
    <3> DEFINE cell == ((b - 1) % Word) % Half
    <3>1. Drawn(s, x) = Show(c, b, (b - 1) % Word, Blank)
      BY <1>4, <2>2, DrawnGood, Strings DEF DrawnOn
    <3>2. (b - 1) % Word \in 0 .. Word - 1
      BY <1>1, <1>2
    <3>3. cell \in 0 .. Half - 1
      <4> DEFINE m == (b - 1) % Word
      <4>1. m \in Nat
        BY <3>2, <1>2
      <4> HIDE DEF m
      <4>2. m % Half \in 0 .. Half - 1
        BY <1>2, <4>1, DivMod
      <4> QED
        BY <4>2 DEF m
    <3>4. Show(c, b, (b - 1) % Word, Blank) =
            IF cell < Limit THEN Good([c EXCEPT ![cell] = Blank], cell) ELSE Bad(c, b)
      BY ShowIs
    <3>5. DOMAIN [c EXCEPT ![cell] = Blank] = 0 .. Limit - 1
      BY <1>1
    <3>6. cell \in 0 .. Word - 1
      BY <1>2, <3>3
    <3> HIDE DEF cell
    <3> QED
      BY <1>1, <3>1, <3>4, <3>5, <3>6 DEF Screens
  <2>3. CASE x # NL /\ x # BS
    <3> DEFINE cell == b % Half
               k == [c EXCEPT ![cell] = x]
    <3>1. Drawn(s, x) =
            IF cell < Limit
              THEN IF cell + 1 < Size THEN Good(k, cell + 1) ELSE NewLine(k, cell + 1)
              ELSE Bad(c, b)
      BY <1>4, <2>3, DrawnOther
    <3>2. cell \in 0 .. Half - 1
      <4>1. b \in Nat
        BY <1>1, <1>2
      <4> QED
        BY <1>2, <4>1, DivMod
    <3>3. DOMAIN k = 0 .. Limit - 1
      BY <1>1
    <3> HIDE DEF cell, k
    <3>4. cell < Limit => cell + 1 \in 0 .. Word - 1
      BY <1>2, <3>2
    <3>5. cell < Limit => Screens(NewLine(k, cell + 1))
      BY <1>2, <3>3, <3>4, NewLineKeeps
    <3>6. cell < Limit => Screens(Good(k, cell + 1))
      BY <3>3, <3>4 DEF Screens
    <3>7. Screens(Bad(c, b))
      BY <1>1 DEF Screens
    <3> QED
      BY <3>1, <3>5, <3>6, <3>7
  <2> QED
    BY <2>1, <2>2, <2>3
<1> QED
  BY <1>1, <1>3, <1>4

-----------------------------------------------------------------------------
(* The screen and what it should show.                                     *)

LEMMA Lines ==
  ASSUME NEW top \in Nat
  PROVE  /\ (top + Rows) * Cols = top * Cols + Size /\ (top + 1) * Cols = top * Cols + Cols
         /\ top * Cols \in Nat
<1>1. Cols \in Nat \ {0} /\ Rows \in Nat \ {0}
  BY Sizes
<1> QED
  BY <1>1 DEF Size

LEMMA RolledShown ==
  ASSUME NEW c, DOMAIN c = 0 .. Limit - 1, NEW d, d.top \in Nat,
         \A j \in DOMAIN d.tape : j \in Int /\ j < d.top * Cols + Size,
         NEW n, n.top = d.top + 1, n.tape = d.tape, Shown(c, d)
  PROVE  Shown(Rolled(c), n)
<1>1. n.top * Cols = d.top * Cols + Cols /\ d.top * Cols \in Nat
  BY Lines
<1>2. Cols \in Nat /\ Size \in Nat /\ Cols <= Size /\ Limit \in Nat /\ Size < Limit
  BY Sizes
<1> DEFINE T == d.top * Cols
           N == n.top * Cols
<1>3. T \in Nat /\ N = T + Cols
  BY <1>1
<1> HIDE DEF T, N, Size, Limit
<1> SUFFICES ASSUME NEW i \in 0 .. Size - 1
             PROVE  Rolled(c)[i] = IF N + i \in DOMAIN n.tape THEN n.tape[N + i] ELSE Blank
  BY DEF Shown, N
<1>4. Rolled(c)[i] = IF i < Size - Cols THEN c[i + Cols] ELSE Blank
  BY <1>2 DEF Rolled
<1>5. CASE i < Size - Cols
  <2>1. i + Cols \in 0 .. Size - 1 /\ T + (i + Cols) = N + i
    BY <1>2, <1>3, <1>5
  <2>2. c[i + Cols] = IF T + (i + Cols) \in DOMAIN d.tape THEN d.tape[T + (i + Cols)] ELSE Blank
    BY <2>1 DEF Shown, T
  <2> QED
    BY <1>4, <1>5, <2>1, <2>2
<1>6. CASE ~(i < Size - Cols)
  <2>1. ~(N + i < T + Size)
    BY <1>2, <1>3, <1>6
  <2>2. N + i \notin DOMAIN d.tape
    BY <2>1 DEF T
  <2> QED
    BY <1>4, <1>6, <2>2
<1> QED
  BY <1>5, <1>6

LEMMA TypedShown ==
  ASSUME NEW c, DOMAIN c = 0 .. Limit - 1, NEW d, d.top \in Nat, NEW b \in 0 .. Size - 1, NEW x,
         NEW n, n.top = d.top, n.tape = Typed(d.tape, d.top * Cols + b, x), Shown(c, d)
  PROVE  Shown([c EXCEPT ![b] = x], n)
<1>1. d.top * Cols \in Nat
  BY Lines
<1>2. Size \in Nat /\ Limit \in Nat /\ Size < Limit
  BY Sizes
<1> DEFINE T == d.top * Cols
<1>3. T \in Nat /\ n.top * Cols = T
  BY <1>1
<1>4. n.tape = Typed(d.tape, T + b, x)
  OBVIOUS
<1> HIDE DEF T, Size, Limit
<1> SUFFICES ASSUME NEW i \in 0 .. Size - 1
             PROVE  [c EXCEPT ![b] = x][i] = IF T + i \in DOMAIN n.tape THEN n.tape[T + i] ELSE Blank
  BY <1>3 DEF Shown
<1>5. [c EXCEPT ![b] = x][i] = IF i = b THEN x ELSE c[i]
  BY <1>2
<1>6. c[i] = IF T + i \in DOMAIN d.tape THEN d.tape[T + i] ELSE Blank
  BY DEF Shown, T
<1>7. DOMAIN n.tape = DOMAIN d.tape \cup {T + b}
      /\ \A j \in DOMAIN n.tape : n.tape[j] = IF j = T + b THEN x ELSE d.tape[j]
  BY <1>4 DEF Typed
<1>8. T + i = T + b <=> i = b
  BY <1>2, <1>3
<1> QED
  BY <1>5, <1>6, <1>7, <1>8

\* Where the cursor goes: c2 and b2 are the screen's, n the page's.
Follow(c, d, c2, b2, n, same) ==
  /\ DOMAIN c2 = 0 .. Limit - 1 /\ Placed(b2, n)
  /\ same = 1 /\ Shown(c, d) => Shown(c2, n)

\* A new line, from a line's middle or, one behind it, its end.
LEMMA NewLineFollows ==
  ASSUME NEW c, DOMAIN c = 0 .. Limit - 1, NEW d, d.top \in Nat,
         \A j \in DOMAIN d.tape : j \in Int /\ j < d.top * Cols + Size,
         NEW b \in 0 .. Size, NEW next \in Nat, next = NextLine(b),
         IF b = Size THEN next = Size + Cols ELSE next \in 1 .. Size,
         NEW n, n.tape = d.tape,
         IF b < Size /\ next < Size
           THEN n.top = d.top /\ n.p = d.top * Cols + next
           ELSE n.top = d.top + 1 /\ n.p = d.top * Cols + Size
  PROVE  \E c2, b2 : NewLine(c, b) = Good(c2, b2) /\ Follow(c, d, c2, b2, n, 1)
<1>1. /\ Cols \in Nat \ {0} /\ Size \in Nat \ {0} /\ Word \in Nat \ {0} /\ Limit \in Nat /\ Cols <= Size /\ Size < Limit
      /\ 2 * Limit <= Word \div 2 /\ 2 * (Word \div 2) <= Word /\ Word \div 2 \in Nat
  BY Sizes
<1>2. d.top * Cols \in Nat /\ (d.top + 1) * Cols = d.top * Cols + Cols
  BY Lines
<1> DEFINE Half == Word \div 2
           T == d.top * Cols
<1>3. /\ Half \in Nat /\ 2 * Limit <= Half /\ 2 * Half <= Word /\ T \in Nat
  BY <1>1, <1>2
<1>4. next % Word = next
  <2> HIDE DEF Half, Size, Limit, Word
  <2>1. next <= Size + Cols
    BY <1>1
  <2>2. Size + Cols < Half /\ Half <= Word
    <3>1. Size \in Nat /\ Cols \in Nat /\ Limit \in Nat /\ Half \in Nat /\ Word \in Nat
      BY <1>1, <1>3
    <3>2. Cols <= Size /\ Size < Limit /\ 2 * Limit <= Half /\ 2 * Half <= Word
      BY <1>1, <1>3
    <3> QED
      BY <3>1, <3>2
  <2>3. next \in 0 .. Word /\ next # Word
    BY <1>1, <1>3, <2>1, <2>2
  <2> QED
    BY <1>1, <2>3, ModSmall
<1>5. NewLine(c, b) = IF next \in Size .. Half - 1 THEN Good(Rolled(c), Size - Cols) ELSE Good(c, next)
  BY <1>4, NewLineIs
<1> HIDE DEF Half, T, Size, Limit, Word
<1>6. /\ Cols \in Nat \ {0} /\ Size \in Nat /\ Limit \in Nat /\ Half \in Nat /\ T \in Nat
      /\ Cols <= Size /\ Size < Limit /\ 2 * Limit <= Half
  BY <1>1, <1>3
<1>7. CASE b < Size /\ next < Size
  <2>1. NewLine(c, b) = Good(c, next)
    BY <1>1, <1>5, <1>7
  <2>2. Placed(next, n)
    BY <1>1, <1>7 DEF Placed
  <2>3. Shown(c, d) => Shown(c, n)
    BY <1>7 DEF Shown
  <2> QED
    BY <2>1, <2>2, <2>3 DEF Follow
<1>8. CASE ~(b < Size /\ next < Size)
  <2>1. next \in Size .. Half - 1
    <3>1. next >= Size /\ next <= Size + Cols
      BY <1>8, <1>6
    <3> QED
      BY <1>6, <3>1
  <2>2. NewLine(c, b) = Good(Rolled(c), Size - Cols)
    BY <1>5, <2>1
  <2>3. n.top = d.top + 1 /\ n.p = T + Size /\ n.top * Cols = T + Cols
    BY <1>2, <1>8 DEF T
  <2>4. Placed(Size - Cols, n)
    <3>1. \A j \in DOMAIN n.tape : j \in Int /\ j < T + Size
      BY DEF T
    <3>2. \A j \in DOMAIN n.tape : j \in Int /\ j < (T + Cols) + Size
      BY <1>6, <3>1
    <3>3. Size - Cols \in 0 .. Size - 1 /\ T + Size = (T + Cols) + (Size - Cols)
      BY <1>6
    <3>4. n.top \in Nat /\ n.p = (T + Cols) + (Size - Cols)
      <4>1. n.top \in Nat
        BY <2>3
      <4> QED
        BY <2>3, <3>3, <4>1
    <3> QED
      BY <2>3, <3>2, <3>3, <3>4 DEF Placed
  <2>5. Shown(c, d) => Shown(Rolled(c), n)
    BY <2>3, RolledShown
  <2>6. DOMAIN Rolled(c) = 0 .. Limit - 1
    BY DEF Rolled
  <2> QED
    BY <2>2, <2>4, <2>5, <2>6 DEF Follow
<1> QED
  BY <1>7, <1>8

LEMMA EvenWord ==
  /\ 2 * (Word \div 2) = Word /\ Word - 1 = (Word \div 2) + ((Word \div 2) - 1) /\ Word \div 2 \in Nat \ {0, 1}
<1>1. Byte \in Nat \ {0} /\ Word \in Nat \ {0} /\ Word \div 2 \in Nat /\ 2 * Limit <= Word \div 2 /\ Limit \in Nat \ {0}
  BY Sizes
<1> DEFINE h == Byte \div 2
<1>2. h \in Nat /\ Byte = 2 * h
  BY <1>1, TerminalAssumption
<1> HIDE DEF h
<1>3. Word = 2 * (h * Byte) /\ h * Byte \in Nat
  BY <1>1, <1>2 DEF Word
<1> HIDE DEF Word
<1> QED
  BY <1>1, <1>3

LEMMA LineEnd == NextLine(Size) = Size + Cols
<1>1. Cols \in Nat \ {0} /\ Rows \in Nat \ {0} /\ Size \in Nat /\ Size = Cols * Rows
  BY Sizes DEF Size
<1> HIDE DEF Size
<1>2. Size \div Cols \in Nat /\ Size % Cols \in 0 .. Cols - 1 /\ Size = (Cols * (Size \div Cols)) + (Size % Cols)
  BY <1>1, DivMod
<1> DEFINE q == Size \div Cols
           r == Size % Cols
<1>3. q \in Nat /\ r \in 0 .. Cols - 1 /\ Cols * Rows = (Cols * q) + r
  BY <1>1, <1>2
<1> HIDE DEF q, r
<1>4. ASSUME q < Rows PROVE FALSE
  <2>1. Cols * (q + 1) <= Cols * Rows
    BY <1>1, <1>3, <1>4
  <2>2. Cols * (q + 1) = Cols * q + Cols /\ Cols * q \in Nat /\ Cols * Rows \in Nat
    BY <1>1, <1>3
  <2> QED
    BY <1>1, <1>3, <2>1, <2>2
<1>5. ASSUME q > Rows PROVE FALSE
  <2>1. Cols * (Rows + 1) <= Cols * q
    BY <1>1, <1>3, <1>5
  <2>2. Cols * (Rows + 1) = Cols * Rows + Cols /\ Cols * q \in Nat /\ Cols * Rows \in Nat
    BY <1>1, <1>3
  <2> QED
    BY <1>1, <1>3, <2>1, <2>2
<1>6. q = Rows
  BY <1>1, <1>3, <1>4, <1>5
<1>7. Cols * Rows \in Nat
  BY <1>1
<1>8. r = 0
  BY <1>3, <1>6, <1>7
<1> QED
  BY <1>1, <1>8 DEF r, NextLine

LEMMA PageFields ==
  ASSUME NEW d, NEW c
  PROVE  LET n == PageAfter(d, c)
             p == IF c = NL THEN (d.p \div Cols + 1) * Cols ELSE IF c = BS THEN d.p - 1 ELSE d.p + 1
         IN /\ n.p = p
            /\ n.tape = IF c = NL THEN d.tape ELSE IF c = BS THEN Typed(d.tape, p, Blank) ELSE Typed(d.tape, d.p, c)
            /\ n.top = IF p >= (d.top + Rows) * Cols THEN d.top + 1 ELSE d.top
BY DEF PageAfter

\* put_char draws what the page gets, or it faults on a backspace in the first cell.
Draws(c, b, x, d, y) ==
  \/ x = BS /\ b = 0 /\ Drawn(Good(c, b), x) = Bad(c, b)
  \/ \E c2, b2 : /\ Drawn(Good(c, b), x) = Good(c2, b2)
                 /\ Follow(c, d, c2, b2, PageAfter(d, y), IF x = y THEN 1 ELSE 0)

LEMMA DrawsNewLine ==
  ASSUME NEW c, DOMAIN c = 0 .. Limit - 1, NEW b, NEW d, Placed(b, d)
  PROVE  Draws(c, b, NL, d, NL)
<1> DEFINE n == PageAfter(d, NL)
           T == d.top * Cols
           next == NextLine(b)
<1>1. b \in 0 .. Size - 1 /\ d.top \in Nat /\ d.p = T + b /\ Size \in Nat
      /\ \A j \in DOMAIN d.tape : j \in Int /\ j < d.top * Cols + Size
  BY Sizes DEF Placed
<1>2. next \in b + 1 .. Size /\ ((T + b) \div Cols + 1) * Cols = T + next
  BY <1>1, LineFacts
<1>3. (d.top + Rows) * Cols = T + Size /\ T \in Nat
  BY <1>1, Lines
<1>4. n.p = T + next /\ n.tape = d.tape /\ n.top = IF T + next >= T + Size THEN d.top + 1 ELSE d.top
  <2> HIDE DEF n, next, T, Size
  <2>1. n.p = (d.p \div Cols + 1) * Cols /\ n.tape = d.tape
    BY PageFields DEF n
  <2>2. n.top = IF (d.p \div Cols + 1) * Cols >= (d.top + Rows) * Cols THEN d.top + 1 ELSE d.top
    BY PageFields DEF n
  <2>3. (d.p \div Cols + 1) * Cols = T + next
    BY <1>1, <1>2
  <2> QED
    BY <1>3, <2>1, <2>2, <2>3
<1>5. Drawn(Good(c, b), NL) = NewLine(c, b)
  BY DrawnGood DEF DrawnOn
<1>6. next \in Nat /\ b \in 0 .. Size /\ (IF b = Size THEN next = Size + Cols ELSE next \in 1 .. Size)
  <2> HIDE DEF next, Size
  <2> QED
    BY <1>1, <1>2
<1>7. IF b < Size /\ next < Size THEN n.top = d.top /\ n.p = d.top * Cols + next
                                 ELSE n.top = d.top + 1 /\ n.p = d.top * Cols + Size
  <2>1. b < Size /\ next \in Nat /\ next <= Size
    <3> HIDE DEF next, Size
    <3> QED
      BY <1>1, <1>2
  <2> HIDE DEF next, n, Size, T
  <2>2. CASE next < Size
    <3>1. ~(T + next >= T + Size)
      BY <1>1, <1>3, <2>1, <2>2
    <3> QED
      BY <1>4, <2>1, <2>2, <3>1 DEF T
  <2>3. CASE ~(next < Size)
    <3>1. next = Size /\ T + next >= T + Size
      BY <1>1, <1>3, <2>1, <2>3
    <3> QED
      BY <1>4, <2>1, <2>3, <3>1 DEF T
  <2> QED
    BY <2>2, <2>3
<1>8. \E c2, b2 : NewLine(c, b) = Good(c2, b2) /\ Follow(c, d, c2, b2, n, 1)
  <2> HIDE DEF n
  <2>1. n.tape = d.tape
    BY <1>4
  <2> QED
    BY <1>1, <1>6, <1>7, <2>1, NewLineFollows
<1> QED
  BY <1>5, <1>8 DEF Draws

LEMMA DrawsBackspace ==
  ASSUME NEW c, DOMAIN c = 0 .. Limit - 1, NEW b, NEW d, Placed(b, d)
  PROVE  Draws(c, b, BS, d, BS)
<1> DEFINE n == PageAfter(d, BS)
           T == d.top * Cols
           Half == Word \div 2
           cell == ((b - 1) % Word) % Half
<1>1. b \in 0 .. Size - 1 /\ d.top \in Nat /\ d.p = T + b /\ Size \in Nat
      /\ \A j \in DOMAIN d.tape : j \in Int /\ j < T + Size
  BY Sizes DEF Placed
<1>2. /\ Size < Limit /\ Limit \in Nat \ {0} /\ 2 * Limit <= Half /\ Word \in Nat \ {0} /\ Half <= Word - 1
      /\ Half \in Nat \ {0, 1} /\ 2 * Half = Word
  BY Sizes, EvenWord
<1>3. Drawn(Good(c, b), BS) = IF cell < Limit THEN Good([c EXCEPT ![cell] = Blank], cell) ELSE Bad(c, b)
  <2>1. Drawn(Good(c, b), BS) = Show(c, b, (b - 1) % Word, Blank)
    BY DrawnGood, Strings DEF DrawnOn
  <2> QED
    BY <2>1, ShowIs
<1>4. CASE b = 0
  <2>1. (b - 1) % Word = Word - 1
    <3> HIDE DEF Word
    <3> QED
      BY <1>2, <1>4
  <2>2. (Word - 1) % Half = Half - 1
    <3> HIDE DEF Word, Half
    <3>1. Word - 1 = (Half * 1) + (Half - 1)
      BY <1>2
    <3> QED
      BY <1>2, <3>1
  <2>3. ~(cell < Limit)
    <3>1. cell = Half - 1
      BY <2>1, <2>2
    <3> HIDE DEF cell, Half, Limit
    <3> QED
      BY <1>2, <3>1
  <2> QED
    BY <1>3, <1>4, <2>3 DEF Draws
<1>5. CASE b # 0
  <2>1. cell = b - 1 /\ b - 1 < Limit /\ b - 1 \in 0 .. Size - 1
    <3> HIDE DEF Word, Half, Size, Limit
    <3>1. b - 1 \in 0 .. Word /\ b - 1 # Word /\ b - 1 \in 0 .. Half /\ b - 1 # Half
          /\ b - 1 < Limit /\ b - 1 \in 0 .. Size - 1
      BY <1>1, <1>2, <1>5
    <3>2. (b - 1) % Word = b - 1
      BY <1>2, <3>1, ModSmall
    <3>3. (b - 1) % Half = b - 1
      BY <1>2, <3>1, ModSmall
    <3> QED
      BY <3>1, <3>2, <3>3
  <2>2. Drawn(Good(c, b), BS) = Good([c EXCEPT ![b - 1] = Blank], b - 1)
    <3> HIDE DEF cell
    <3> QED
      BY <1>3, <2>1
  <2>3. (d.top + Rows) * Cols = T + Size /\ T \in Nat
    BY <1>1, Lines
  <2>4. d.p - 1 = T + (b - 1) /\ ~(d.p - 1 >= T + Size)
    <3> HIDE DEF T, Size
    <3> QED
      BY <1>1, <2>3
  <2>5. n.p = T + (b - 1) /\ n.tape = Typed(d.tape, T + (b - 1), Blank) /\ n.top = d.top
    BY <2>3, <2>4, PageFields DEF NL, BS
  <2>6. Placed(b - 1, n)
    <3>1. DOMAIN n.tape = DOMAIN d.tape \cup {T + (b - 1)}
      BY <2>5 DEF Typed
    <3>2. T + (b - 1) \in Int /\ T + (b - 1) < T + Size
      <4> HIDE DEF T, Size
      <4> QED
        BY <1>1, <2>3
    <3> HIDE DEF n
    <3> QED
      BY <1>1, <2>1, <2>5, <3>1, <3>2 DEF Placed
  <2>7. Shown(c, d) => Shown([c EXCEPT ![b - 1] = Blank], n)
    <3> HIDE DEF n
    <3> QED
      BY <1>1, <2>1, <2>5, TypedShown
  <2>8. DOMAIN [c EXCEPT ![b - 1] = Blank] = 0 .. Limit - 1
    OBVIOUS
  <2> QED
    BY <2>2, <2>6, <2>7, <2>8 DEF Draws, Follow
<1> QED
  BY <1>4, <1>5

LEMMA DrawsOther ==
  ASSUME NEW c, DOMAIN c = 0 .. Limit - 1, NEW b, NEW d, Placed(b, d),
         NEW x, NEW y, x \notin {NL, BS}, y \notin {NL, BS}
  PROVE  Draws(c, b, x, d, y)
<1> DEFINE n == PageAfter(d, y)
           T == d.top * Cols
           Half == Word \div 2
           k == [c EXCEPT ![b] = x]
           m == [p |-> d.p, tape |-> Typed(d.tape, T + b, y), top |-> d.top]
           same == IF x = y THEN 1 ELSE 0
<1>1. b \in 0 .. Size - 1 /\ d.top \in Nat /\ d.p = T + b /\ Size \in Nat /\ Cols \in Nat
      /\ \A j \in DOMAIN d.tape : j \in Int /\ j < T + Size
  BY Sizes DEF Placed
<1>2. Size < Limit /\ Limit \in Nat \ {0} /\ 2 * Limit <= Half /\ Half \in Nat \ {0}
  BY Sizes
<1>3. (d.top + Rows) * Cols = T + Size /\ T \in Nat
  BY <1>1, Lines
<1>4. b % Half = b /\ b < Limit
  <2> HIDE DEF Half, Size, Limit
  <2>1. b \in 0 .. Half /\ b # Half /\ b < Limit
    BY <1>1, <1>2
  <2> QED
    BY <1>2, <2>1, ModSmall
<1>5. Drawn(Good(c, b), x) = IF b + 1 < Size THEN Good(k, b + 1) ELSE NewLine(k, b + 1)
  BY <1>4, DrawnOther
<1>6. n.p = T + b + 1 /\ n.tape = m.tape /\ n.top = IF T + b + 1 >= T + Size THEN d.top + 1 ELSE d.top
  BY <1>1, <1>3, PageFields
<1>7. DOMAIN k = 0 .. Limit - 1
  OBVIOUS
<1>8. m.top = d.top /\ m.p = d.p /\ \A j \in DOMAIN m.tape : j \in Int /\ j < T + Size
  <2>1. DOMAIN m.tape = DOMAIN d.tape \cup {T + b}
    BY DEF Typed
  <2>2. T + b \in Int /\ T + b < T + Size
    <3> HIDE DEF T, Size
    <3> QED
      BY <1>1, <1>3
  <2> QED
    BY <1>1, <2>1, <2>2
<1>9. same = 1 /\ Shown(c, d) => Shown(k, m)
  <2> SUFFICES ASSUME x = y, Shown(c, d) PROVE Shown(k, m)
    OBVIOUS
  <2>1. m.top = d.top /\ m.tape = Typed(d.tape, d.top * Cols + b, x)
    OBVIOUS
  <2> HIDE DEF m
  <2> QED
    BY <1>1, <2>1, TypedShown
<1>10. CASE b + 1 < Size
  <2>1. n.top = d.top
    <3>1. ~(T + b + 1 >= T + Size)
      <4> HIDE DEF T, Size
      <4> QED
        BY <1>1, <1>3, <1>10
    <3> HIDE DEF n
    <3> QED
      BY <1>6, <3>1
  <2>2. Placed(b + 1, n)
    <3>1. b + 1 \in 0 .. Size - 1 /\ n.p = T + (b + 1)
      <4> HIDE DEF T, Size, n
      <4> QED
        BY <1>1, <1>3, <1>6, <1>10
    <3> HIDE DEF n
    <3> QED
      BY <1>1, <1>6, <1>8, <2>1, <3>1 DEF Placed
  <2>3. same = 1 /\ Shown(c, d) => Shown(k, n)
    <3>1. n.top = m.top /\ n.tape = m.tape
      BY <1>6, <2>1
    <3> HIDE DEF n, m, k
    <3> QED
      BY <1>9, <3>1 DEF Shown
  <2>4. Drawn(Good(c, b), x) = Good(k, b + 1)
    BY <1>5, <1>10
  <2>5. Follow(c, d, k, b + 1, n, same)
    BY <1>7, <2>2, <2>3 DEF Follow
  <2> HIDE DEF k, n
  <2> QED
    BY <2>4, <2>5 DEF Draws, n
<1>11. CASE ~(b + 1 < Size)
  <2>1. b + 1 = Size
    <3> HIDE DEF Size
    <3> QED
      BY <1>1, <1>11
  <2>2. Drawn(Good(c, b), x) = NewLine(k, Size)
    BY <1>5, <1>11, <2>1
  <2>3. NextLine(Size) = Size + Cols /\ Size + Cols \in Nat
    BY <1>1, LineEnd
  <2>4. n.top = m.top + 1 /\ n.p = m.top * Cols + Size /\ n.tape = m.tape
    <3>1. T + b + 1 >= T + Size /\ T + b + 1 = T + Size
      <4> HIDE DEF T, Size
      <4> QED
        BY <1>1, <1>3, <2>1
    <3> HIDE DEF n
    <3> QED
      BY <1>6, <3>1
  <2>5. \E c2, b2 : NewLine(k, Size) = Good(c2, b2) /\ Follow(k, m, c2, b2, n, 1)
    <3>1. m.top \in Nat /\ \A j \in DOMAIN m.tape : j \in Int /\ j < m.top * Cols + Size
      BY <1>1, <1>8
    <3>2. Size \in 0 .. Size /\ ~(Size < Size)
      <4> HIDE DEF Size
      <4> QED
        BY <1>1
    <3> HIDE DEF n, m, k, Size
    <3> QED
      BY <1>7, <2>3, <2>4, <3>1, <3>2, NewLineFollows
  <2>6. PICK c2, b2 : NewLine(k, Size) = Good(c2, b2) /\ Follow(k, m, c2, b2, n, 1)
    BY <2>5
  <2>7. Follow(c, d, c2, b2, n, same)
    BY <1>9, <2>6 DEF Follow
  <2> HIDE DEF k, n, m
  <2> QED
    BY <2>2, <2>6, <2>7 DEF Draws, n
<1> QED
  BY <1>10, <1>11

\* Characters of one kind move the two cursors alike.
Alike(x, y) == (x = NL <=> y = NL) /\ (x = BS <=> y = BS)

LEMMA DrawnFollows ==
  ASSUME NEW c, DOMAIN c = 0 .. Limit - 1, NEW b, NEW d, Placed(b, d), NEW x, NEW y, Alike(x, y)
  PROVE  Draws(c, b, x, d, y)
<1>1. CASE x = NL
  BY <1>1, DrawsNewLine DEF Alike
<1>2. CASE x = BS
  BY <1>2, DrawsBackspace DEF Alike
<1>3. CASE x \notin {NL, BS}
  BY <1>3, DrawsOther DEF Alike
<1> QED
  BY <1>1, <1>2, <1>3

-----------------------------------------------------------------------------
(* The codes of the keys.                                                  *)

Far == {"rctrl", "ralt", "up"}

LEMMA Codes ==
  ASSUME NEW k \in Keys
  PROVE  /\ Code[k] \in {42, 54, 29, 56, 58, 30, 2, 28, 14, 72, 59}
         /\ \A j \in Keys : Code[j] = Code[k] /\ (j \in Far <=> k \in Far) => j = k
         /\ Code[k] = 42 <=> k = "lshift"
         /\ Code[k] = 54 <=> k = "rshift"
         /\ Code[k] = 29 <=> k \in {"lctrl", "rctrl"}
         /\ Code[k] = 56 <=> k \in {"lalt", "ralt"}
         /\ Code[k] = 58 <=> k = "caps"
         /\ Code[k] = 30 <=> k = "a"
         /\ Code[k] = 2 <=> k = "one"
         /\ Code[k] = 28 <=> k = "enter"
         /\ Code[k] = 14 <=> k = "bksp"
         /\ Code[k] = 72 <=> k = "up"
         /\ Code[k] = 59 <=> k = "f1"
BY DEF Keys, Far, Code

LEMMA KeysKnown == Keys = DOMAIN Code
BY DEF Keys, Code

LEMMA SmallCode ==
  ASSUME NEW k \in Keys
  PROVE  Code[k] \in 1 .. 127 /\ Code[k] # 96
BY Codes

\* What the handler's tests say of a code n, behind the prefix or not.
LEMMA Tests ==
  ASSUME NEW n \in 1 .. 127, n # 96, NEW e \in {0, 57344}
  PROVE  /\ ((n + e) \div 128) % 2 = 0 /\ (n + e) % 256 = n /\ n # 224
         /\ ((n + 128 + e) \div 128) % 2 = 1 /\ n + 128 # 224 /\ (n + 128 + e) - 128 = n + e
         /\ n + e \in 1 .. 58 \cup {57400, 57373} <=> IF e = 0 THEN n <= 58 ELSE n \in {29, 56}
<1>1. CASE e = 0
  <2>1. (n \div 128) % 2 = 0 /\ n % 256 = n
    OBVIOUS
  <2>2. ((n + 128) \div 128) % 2 = 1
    OBVIOUS
  <2> QED
    BY <1>1, <2>1, <2>2
<1>2. CASE e = 57344
  <2>1. ASSUME NEW m, m = n + 57344 PROVE m % 256 = n /\ (m \div 128) % 2 = 0
    BY <2>1
  <2>2. ASSUME NEW m, m = n + 57472 PROVE (m \div 128) % 2 = 1
    BY <2>2
  <2>3. n + 57344 \in 1 .. 58 \cup {57400, 57373} <=> n \in {29, 56}
    OBVIOUS
  <2>4. (n + 57344) % 256 = n /\ ((n + 57344) \div 128) % 2 = 0
    BY <2>1
  <2>5. n + 128 + 57344 = n + 57472 /\ ((n + 57472) \div 128) % 2 = 1
    BY <2>2
  <2> QED
    BY <1>2, <2>3, <2>4, <2>5
<1> QED
  BY <1>1, <1>2

\* The last byte of a key's code, behind the prefix or not.
LastByte(k, code) == port = <<code>> /\ (IF k \in Far THEN kb.ext ELSE ~kb.ext)

LEMMA ScanOf ==
  ASSUME NEW k \in Keys, NEW code \in Nat, LastByte(k, code)
  PROVE  /\ Head(port) = code /\ Tail(port) = << >> /\ port # << >>
         /\ Scan = code + IF k \in Far THEN 57344 ELSE 0
BY DEF LastByte, Scan

LEMMA MakeScan ==
  ASSUME NEW k \in Keys, LastByte(k, Code[k])
  PROVE  /\ Head(port) = Code[k] /\ Head(port) # Prefix /\ Tail(port) = << >> /\ port # << >>
         /\ ~IsBreak /\ Scan % 256 = Code[k]
         /\ IsKnown <=> k \notin {"up", "f1"}
<1> DEFINE n == Code[k]
           e == IF k \in Far THEN 57344 ELSE 0
<1>1. n \in 1 .. 127 /\ n # 96 /\ e \in {0, 57344}
  BY SmallCode
<1>2. Head(port) = n /\ Tail(port) = << >> /\ port # << >> /\ Scan = n + e
  <2>1. n \in Nat
    BY <1>1
  <2> QED
    BY <2>1, ScanOf
<1>3. k \in {"up", "f1"} <=> IF e = 0 THEN ~(n <= 58) ELSE n \notin {29, 56}
  <2>1. e = 0 <=> k \notin Far
    OBVIOUS
  <2>2. n \in {42, 54, 29, 56, 58, 30, 2, 28, 14, 72, 59} /\ (n = 72 <=> k = "up") /\ (n = 59 <=> k = "f1")
        /\ (n = 29 <=> k \in {"lctrl", "rctrl"}) /\ (n = 56 <=> k \in {"lalt", "ralt"})
    BY Codes
  <2>3. CASE k \in Far
    <3>1. k = "rctrl" \/ k = "ralt" \/ k = "up"
      BY <2>3 DEF Far
    <3> HIDE DEF n, e
    <3>2. e # 0 /\ (n \in {29, 56} <=> k # "up") /\ k # "f1"
      BY <2>1, <2>2, <2>3, <3>1
    <3> QED
      BY <3>2
  <2>4. CASE k \notin Far
    <3>1. k # "up" /\ e = 0
      BY <2>4 DEF Far
    <3> HIDE DEF n, e
    <3>2. n <= 58 <=> k # "f1"
      BY <2>2, <3>1
    <3> QED
      BY <3>1, <3>2
  <2> QED
    BY <2>3, <2>4
<1> HIDE DEF n, e
<1>4. (Scan \div 128) % 2 = 0 /\ Scan % 256 = n /\ n # 224
      /\ (Scan \in 1 .. 58 \cup {57400, 57373} <=> IF e = 0 THEN n <= 58 ELSE n \in {29, 56})
  BY <1>1, <1>2, Tests
<1>5. ~IsBreak
  BY <1>4 DEF IsBreak
<1>6. IsKnown <=> Scan \in 1 .. 58 \cup {57400, 57373}
  BY DEF IsKnown
<1>7. Prefix = 224
  BY DEF Prefix
<1>8. IsKnown <=> k \notin {"up", "f1"}
  BY <1>3, <1>4, <1>6
<1> QED
  <2>1. Head(port) = n /\ Tail(port) = << >> /\ port # << >>
    BY <1>2
  <2>2. Scan % 256 = n /\ n # 224
    BY <1>4
  <2>3. Head(port) # Prefix
    BY <2>1, <2>2, <1>7
  <2> QED
    BY <2>1, <2>2, <2>3, <1>5, <1>8, Zenon DEF n

LEMMA BreakScan ==
  ASSUME NEW k \in Keys, LastByte(k, Code[k] + 128)
  PROVE  /\ Head(port) # Prefix /\ Tail(port) = << >> /\ port # << >> /\ IsBreak
         /\ Scan - 128 = Code[k] + IF k \in Far THEN 57344 ELSE 0
<1> DEFINE n == Code[k]
           e == IF k \in Far THEN 57344 ELSE 0
<1>1. n \in 1 .. 127 /\ n # 96 /\ e \in {0, 57344}
  BY SmallCode
<1>2. Head(port) = n + 128 /\ Tail(port) = << >> /\ port # << >> /\ Scan = n + 128 + e
  <2>1. n + 128 \in Nat
    BY <1>1
  <2> QED
    BY <2>1, ScanOf
<1> HIDE DEF n, e
<1>3. (Scan \div 128) % 2 = 1 /\ n + 128 # 224 /\ Scan - 128 = n + e
  BY <1>1, <1>2, Tests
<1>4. IsBreak
  BY <1>3 DEF IsBreak
<1>5. Prefix = 224
  BY DEF Prefix
<1> QED
  BY <1>2, <1>3, <1>4, <1>5 DEF n, e

LEMMA KeyMapOf ==
  /\ KeyMap(30) = <<"a", "A">>
  /\ KeyMap(2) = <<"1", "!">>
  /\ KeyMap(28) = <<NL, NL>>
  /\ KeyMap(14) = <<BS, BS>>
  /\ \A i : i \notin {30, 2, 28, 14} => KeyMap(i) = <<"", "">>
<1>1. KeyMap(30) = <<"a", "A">>
  BY DEF KeyMap
<1>2. KeyMap(2) = <<"1", "!">>
  BY DEF KeyMap
<1>3. KeyMap(28) = <<NL, NL>>
  BY DEF KeyMap
<1>4. KeyMap(14) = <<BS, BS>>
  BY DEF KeyMap
<1>5. ASSUME NEW i, i \notin {30, 2, 28, 14} PROVE KeyMap(i) = <<"", "">>
  BY <1>5 DEF KeyMap
<1> QED
  BY <1>1, <1>2, <1>3, <1>4, <1>5

LEMMA CharIs ==
  ASSUME NEW x, NEW y, KeyMap(Scan % 256) = <<x, y>>
  PROVE  /\ kb.shift # (kb.caps /\ ~TwoSymbols(Scan)) => Char = y
         /\ ~(kb.shift # (kb.caps /\ ~TwoSymbols(Scan))) => Char = x
<1> DEFINE m == KeyMap(Scan % 256)
           P == kb.shift # (kb.caps /\ ~TwoSymbols(Scan))
<1>1. Char = m[IF P THEN 2 ELSE 1]
  BY DEF Char
<1>2. m = <<x, y>>
  OBVIOUS
<1> HIDE DEF m, P
<1>3. m[1] = x /\ m[2] = y
  BY <1>2
<1>4. (P => Char = y) /\ (~P => Char = x)
  BY <1>1, <1>3
<1> QED
  BY <1>4 DEF P

\* What the handler has of a make code: as the key means, if the flags are right.
LEMMA CharOf ==
  ASSUME NEW k \in Keys, LastByte(k, Code[k]), kb \in Flags,
         lamp \in BOOLEAN
  PROVE  /\ k \in {"a", "one", "enter", "bksp"} => Char # "" /\ Meaning(k) = <<Meaning(k)[1]>> /\ Alike(Char, Meaning(k)[1])
         /\ k \in Keys \ {"a", "one", "enter", "bksp", "up", "f1"} => Char = ""
         /\ k \in {"a", "one", "enter", "bksp"} /\ (kb.shift <=> Down(Shifts)) /\ (kb.caps <=> lamp) => Char = Meaning(k)[1]
<1>1. Scan % 256 = Code[k] /\ Scan = Code[k] + IF k \in Far THEN 57344 ELSE 0
  <2>1. Scan % 256 = Code[k]
    BY MakeScan
  <2>2. Code[k] \in Nat
    BY SmallCode
  <2>3. Scan = Code[k] + IF k \in Far THEN 57344 ELSE 0
    BY <2>2, ScanOf
  <2> QED
    BY <2>1, <2>3
<1> kb.shift \in BOOLEAN /\ kb.caps \in BOOLEAN
  BY DEF Flags
<1>2. CASE k = "a"
  <2>1. Scan = 30 /\ Scan % 256 = 30
    BY <1>1, <1>2, Codes DEF Far
  <2>2. ~TwoSymbols(Scan)
    BY <2>1 DEF TwoSymbols
  <2>3. Char = IF kb.shift # kb.caps THEN "A" ELSE "a"
    <3>1. KeyMap(Scan % 256) = <<"a", "A">>
      BY <2>1, KeyMapOf
    <3>2. (kb.caps /\ ~TwoSymbols(Scan)) = kb.caps
      BY <2>2
    <3> QED
      BY <3>1, <3>2 DEF Char
  <2>4. Meaning(k) = <<IF Down(Shifts) # lamp THEN "A" ELSE "a">>
    BY <1>2 DEF Meaning
  <2>5. Down(Shifts) \in BOOLEAN
    BY DEF Down
  <2> QED
    BY <1>2, <2>3, <2>4, <2>5 DEF Alike, NL, BS
<1>3. CASE k = "one"
  <2>1. Scan = 2 /\ Scan % 256 = 2
    BY <1>1, <1>3, Codes DEF Far
  <2>2. TwoSymbols(Scan)
    BY <2>1 DEF TwoSymbols
  <2>3. Char = IF kb.shift THEN "!" ELSE "1"
    <3>1. KeyMap(Scan % 256) = <<"1", "!">>
      BY <2>1, KeyMapOf
    <3>2. (kb.caps /\ ~TwoSymbols(Scan)) = FALSE
      BY <2>2
    <3> QED
      BY <3>1, <3>2 DEF Char
  <2>4. Meaning(k) = <<IF Down(Shifts) THEN "!" ELSE "1">>
    BY <1>3 DEF Meaning
  <2>5. Down(Shifts) \in BOOLEAN
    BY DEF Down
  <2> QED
    BY <1>3, <2>3, <2>4, <2>5 DEF Alike, NL, BS
<1>4. CASE k = "enter"
  <2>1. Scan % 256 = 28
    BY <1>1, <1>4, Codes
  <2>2. KeyMap(Scan % 256) = <<NL, NL>>
    BY <2>1, KeyMapOf
  <2>3. Char = NL
    BY <2>2, CharIs
  <2>4. Meaning(k) = <<NL>>
    BY <1>4 DEF Meaning
  <2> QED
    BY <1>4, <2>3, <2>4 DEF Alike, NL
<1>5. CASE k = "bksp"
  <2>1. Scan % 256 = 14
    BY <1>1, <1>5, Codes
  <2>2. KeyMap(Scan % 256) = <<BS, BS>>
    BY <2>1, KeyMapOf
  <2>3. Char = BS
    BY <2>2, CharIs
  <2>4. Meaning(k) = <<BS>>
    BY <1>5 DEF Meaning
  <2> QED
    BY <1>5, <2>3, <2>4 DEF Alike, BS, NL
<1>6. CASE k \in Keys \ {"a", "one", "enter", "bksp", "up", "f1"}
  <2>1. Scan % 256 \notin {30, 2, 28, 14}
    BY <1>1, <1>6, Codes
  <2>2. KeyMap(Scan % 256) = <<"", "">>
    BY <2>1, KeyMapOf
  <2>3. Char = ""
    BY <2>2, CharIs
  <2> QED
    BY <1>6, <2>3
<1>7. CASE k \in {"up", "f1"}
  BY <1>7
<1> QED
  BY <1>2, <1>3, <1>4, <1>5, <1>6, <1>7

-----------------------------------------------------------------------------
(* The keyboard and its handler.                                           *)

\* What the steps of the keyboard and the handler have in common.
LEMMA KeyboardSame ==
  ASSUME KeyboardOK, UNCHANGED <<keys, kb, port, held, last, lamp, shared, repeated>>
  PROVE  KeyboardOK'
<1>1. CASE port = << >> /\ ~kb.ext /\ FlagsBut({})
  BY <1>1 DEF KeyboardOK, FlagsBut, Follows, Down
<1>2. CASE \E k \in held : Pending(k, Code[k]) /\ FlagsBut({k})
  BY <1>2 DEF KeyboardOK, FlagsBut, Follows, Down, Pending
<1>3. CASE \E k \in keys \ held : Pending(k, Code[k] + 128) /\ FlagsBut({k} \ {"caps"}) /\ LetGoLast(k)
  BY <1>3 DEF KeyboardOK, FlagsBut, Follows, Down, Pending, LetGoLast
<1> QED
  BY <1>1, <1>2, <1>3 DEF KeyboardOK

\* A code is on its way: its prefix, or its last byte.
LEMMA PendingIs ==
  ASSUME NEW k \in Keys, NEW code \in Nat, code # 224, Pending(k, code)
  PROVE  /\ port # << >>
         /\ Head(port) = Prefix => k \in Far /\ Tail(port) = <<code>>
         /\ Head(port) # Prefix => LastByte(k, code)
<1>1. CASE port = Bytes(k, code) /\ ~kb.ext /\ k \in Far
  BY <1>1 DEF Bytes, Far, Prefix, LastByte
<1>2. CASE port = Bytes(k, code) /\ ~kb.ext /\ k \notin Far
  <2>1. port = <<code>>
    BY <1>2 DEF Bytes, Far
  <2> QED
    BY <1>2, <2>1 DEF Prefix, LastByte
<1>3. CASE k \in Far /\ port = <<code>> /\ kb.ext
  BY <1>3 DEF Prefix, LastByte
<1> QED
  BY <1>1, <1>2, <1>3 DEF Pending, Far

LEMMA NoPrefix ==
  ASSUME NEW k \in Keys
  PROVE  Code[k] \in Nat /\ Code[k] # 224 /\ Code[k] + 128 \in Nat /\ Code[k] + 128 # 224
<1> DEFINE n == Code[k]
<1>1. n \in 1 .. 127 /\ n # 96
  BY SmallCode
<1> HIDE DEF n
<1>2. n \in Nat /\ n # 224 /\ n + 128 \in Nat /\ n + 128 # 224
  BY <1>1
<1> QED
  BY <1>2 DEF n

\* The code the handler finds in the port.
LEMMA PortHas ==
  ASSUME keys \subseteq Keys, held \subseteq keys, KeyboardOK, port # << >>
  PROVE  \/ \E k \in held : /\ Pending(k, Code[k]) /\ FlagsBut({k})
                            /\ Head(port) = Prefix => k \in Far /\ Tail(port) = <<Code[k]>>
                            /\ Head(port) # Prefix => LastByte(k, Code[k])
         \/ \E k \in keys \ held :
              /\ Pending(k, Code[k] + 128) /\ FlagsBut({k} \ {"caps"}) /\ LetGoLast(k)
              /\ Head(port) = Prefix => k \in Far /\ Tail(port) = <<Code[k] + 128>>
              /\ Head(port) # Prefix => LastByte(k, Code[k] + 128)
<1>1. CASE \E k \in held : Pending(k, Code[k]) /\ FlagsBut({k})
  <2>1. PICK k \in held : Pending(k, Code[k]) /\ FlagsBut({k})
    BY <1>1
  <2>2. k \in Keys
    BY <2>1
  <2>3. Code[k] \in Nat /\ Code[k] # 224
    BY <2>2, NoPrefix
  <2> QED
    BY <2>1, <2>2, <2>3, PendingIs
<1>2. CASE \E k \in keys \ held : Pending(k, Code[k] + 128) /\ FlagsBut({k} \ {"caps"}) /\ LetGoLast(k)
  <2>1. PICK k \in keys \ held : Pending(k, Code[k] + 128) /\ FlagsBut({k} \ {"caps"}) /\ LetGoLast(k)
    BY <1>2
  <2>2. k \in Keys
    BY <2>1
  <2>3. Code[k] + 128 \in Nat /\ Code[k] + 128 # 224
    BY <2>2, NoPrefix
  <2> QED
    BY <2>1, <2>2, <2>3, PendingIs
<1> QED
  BY <1>1, <1>2 DEF KeyboardOK

\* A key that goes down is in the port.
LEMMA MakeIn ==
  ASSUME keys \subseteq Keys, held \subseteq keys, KeyboardOK, Interrupted, Head(port) # Prefix, ~IsBreak
  PROVE  \E k \in held : LastByte(k, Code[k]) /\ FlagsBut({k}) /\ Tail(port) = << >>
<1>1. port # << >>
  BY DEF Interrupted
<1>2. CASE \E k \in held : /\ Pending(k, Code[k]) /\ FlagsBut({k})
                           /\ Head(port) # Prefix => LastByte(k, Code[k])
  BY <1>2, MakeScan
<1>3. CASE \E k \in keys \ held : Head(port) # Prefix => LastByte(k, Code[k] + 128)
  BY <1>3, BreakScan
<1> QED
  BY <1>1, <1>2, <1>3, PortHas

\* A key that goes up is.
LEMMA BreakIn ==
  ASSUME keys \subseteq Keys, held \subseteq keys, KeyboardOK, Interrupted, Head(port) # Prefix, IsBreak
  PROVE  \E k \in keys \ held :
           LastByte(k, Code[k] + 128) /\ FlagsBut({k} \ {"caps"}) /\ LetGoLast(k) /\ Tail(port) = << >>
<1>1. port # << >>
  BY DEF Interrupted
<1>2. CASE \E k \in held : Head(port) # Prefix => LastByte(k, Code[k])
  BY <1>2, MakeScan
<1>3. CASE \E k \in keys \ held : /\ FlagsBut({k} \ {"caps"}) /\ LetGoLast(k)
                                  /\ Head(port) # Prefix => LastByte(k, Code[k] + 128)
  <2>1. PICK k \in keys \ held : FlagsBut({k} \ {"caps"}) /\ LetGoLast(k) /\ LastByte(k, Code[k] + 128)
    BY <1>3
  <2>2. k \in Keys
    BY <2>1
  <2>3. Tail(port) = << >>
    BY <2>1, <2>2, BreakScan
  <2> QED
    BY <2>1, <2>3
<1> QED
  BY <1>1, <1>2, <1>3, PortHas

\* Its flags after a step.
LEMMA FlagsOfPrefix ==
  ASSUME kb \in Flags, KeyPrefix
  PROVE  kb' \in Flags /\ kb'.ext /\ kb'.ctrl = kb.ctrl /\ kb'.shift = kb.shift /\ kb'.alt = kb.alt /\ kb'.caps = kb.caps
BY DEF KeyPrefix, Flags

LEMMA FlagsOfChar ==
  ASSUME kb \in Flags, kb' = [kb EXCEPT !.ext = FALSE]
  PROVE  kb' \in Flags /\ ~kb'.ext /\ kb'.ctrl = kb.ctrl /\ kb'.shift = kb.shift /\ kb'.alt = kb.alt /\ kb'.caps = kb.caps
BY DEF Flags

LEMMA FlagsOfUp ==
  ASSUME kb \in Flags, KeyUp
  PROVE  /\ kb' \in Flags /\ ~kb'.ext
         /\ kb'.ctrl = (kb.ctrl /\ Scan - 128 \notin {29, 57373})
         /\ kb'.shift = (kb.shift /\ Scan - 128 \notin {42, 54})
         /\ kb'.alt = (kb.alt /\ Scan - 128 \notin {56, 57400})
         /\ kb'.caps = kb.caps
<1> DEFINE p == Scan - 128 \notin {29, 57373}
           q == Scan - 128 \notin {42, 54}
           r == Scan - 128 \notin {56, 57400}
<1>1. kb' = [kb EXCEPT !.ext = FALSE, !.ctrl = @ /\ p, !.shift = @ /\ q, !.alt = @ /\ r]
  BY DEF KeyUp
<1> HIDE DEF p, q, r
<1>2. kb' \in Flags /\ ~kb'.ext
  BY <1>1 DEF Flags
<1>3. kb'.ctrl = (kb.ctrl /\ p)
  BY <1>1 DEF Flags
<1>4. kb'.shift = (kb.shift /\ q)
  BY <1>1 DEF Flags
<1>5. kb'.alt = (kb.alt /\ r)
  BY <1>1 DEF Flags
<1>6. kb'.caps = kb.caps
  BY <1>1 DEF Flags
<1> QED
  BY <1>2, <1>3, <1>4, <1>5, <1>6 DEF p, q, r

LEMMA FlagsOfFlag ==
  ASSUME kb \in Flags, KeyFlag
  PROVE  /\ kb' \in Flags /\ ~kb'.ext
         /\ kb'.ctrl = (kb.ctrl \/ Scan % 256 = 29)
         /\ kb'.shift = (kb.shift \/ Scan % 256 \in {42, 54})
         /\ kb'.alt = (kb.alt \/ Scan % 256 = 56)
         /\ kb'.caps = (kb.caps # (Scan % 256 = 58))
<1> DEFINE p == Scan % 256 = 29
           q == Scan % 256 \in {42, 54}
           r == Scan % 256 = 56
           s == Scan % 256 = 58
<1>1. kb' = [kb EXCEPT !.ext = FALSE, !.ctrl = @ \/ p, !.shift = @ \/ q, !.alt = @ \/ r, !.caps = @ # s]
  BY DEF KeyFlag
<1> HIDE DEF p, q, r, s
<1>2. kb' \in Flags /\ ~kb'.ext
  BY <1>1 DEF Flags
<1>3. kb'.ctrl = (kb.ctrl \/ p)
  BY <1>1 DEF Flags
<1>4. kb'.shift = (kb.shift \/ q)
  BY <1>1 DEF Flags
<1>5. kb'.alt = (kb.alt \/ r)
  BY <1>1 DEF Flags
<1>6. kb'.caps = (kb.caps # s)
  BY <1>1 DEF Flags
<1> QED
  BY <1>2, <1>3, <1>4, <1>5, <1>6 DEF p, q, r, s

\* The prefix is read.
LEMMA KeyboardPrefix ==
  ASSUME StateOK, KeyboardOK, KeyPrefix
  PROVE  KeyboardOK'
<1>1. kb'.ext /\ kb'.ctrl = kb.ctrl /\ kb'.shift = kb.shift /\ kb'.alt = kb.alt /\ kb'.caps = kb.caps
  BY FlagsOfPrefix DEF StateOK
<1>2. /\ port # << >> /\ Head(port) = Prefix /\ port' = Tail(port)
      /\ UNCHANGED <<keys, held, last, lamp, shared, repeated>>
  BY DEF KeyPrefix, Interrupted, Read
<1>3. ASSUME NEW ks, FlagsBut(ks) PROVE FlagsBut(ks)'
  BY <1>1, <1>2, <1>3 DEF FlagsBut, Follows, Down
<1>4. CASE \E k \in held : FlagsBut({k}) /\ k \in Far /\ Tail(port) = <<Code[k]>>
  <2>1. PICK k \in held : FlagsBut({k}) /\ k \in Far /\ Tail(port) = <<Code[k]>>
    BY <1>4
  <2>2. Pending(k, Code[k])'
    BY <1>1, <1>2, <2>1 DEF Pending, Far
  <2>3. FlagsBut({k})'
    BY <1>3, <2>1
  <2> QED
    BY <1>2, <2>1, <2>2, <2>3 DEF KeyboardOK
<1>5. CASE \E k \in keys \ held : /\ FlagsBut({k} \ {"caps"}) /\ LetGoLast(k)
                                  /\ k \in Far /\ Tail(port) = <<Code[k] + 128>>
  <2>1. PICK k \in keys \ held : /\ FlagsBut({k} \ {"caps"}) /\ LetGoLast(k)
                                 /\ k \in Far /\ Tail(port) = <<Code[k] + 128>>
    BY <1>5
  <2>2. Pending(k, Code[k] + 128)'
    BY <1>1, <1>2, <2>1 DEF Pending, Far
  <2>3. FlagsBut({k} \ {"caps"})'
    BY <1>3, <2>1
  <2>4. LetGoLast(k)'
    BY <1>2, <2>1 DEF LetGoLast, Down
  <2> QED
    BY <1>2, <2>1, <2>2, <2>3, <2>4 DEF KeyboardOK
<1> QED
  BY <1>2, <1>4, <1>5, PortHas DEF StateOK

\* With no code on its way all flags are right.
LEMMA KeyboardQuiet ==
  ASSUME kb' \in Flags, port' = << >>, ~kb'.ext, UNCHANGED <<held, lamp, shared, repeated>>,
         ~shared => kb'.shift = Down(Shifts) /\ kb'.ctrl = Down(Ctrls) /\ kb'.alt = Down(Alts),
         kb'.shift => Down(Shifts), kb'.ctrl => Down(Ctrls), kb'.alt => Down(Alts),
         ~repeated => kb'.caps = lamp
  PROVE  KeyboardOK'
BY DEF KeyboardOK, FlagsBut, Follows, Down

LEMMA Pairs ==
  ASSUME NEW k \in Keys
  PROVE  /\ Code[k] \in {42, 54} <=> k \in Shifts
         /\ Code[k] = 29 <=> k \in Ctrls
         /\ Code[k] = 56 <=> k \in Alts
         /\ Code[k] = 58 <=> k = "caps"
BY Codes DEF Shifts, Ctrls, Alts

\* What is right without k, when k has no flag of its own.
LEMMA FlagsOthers ==
  ASSUME NEW k, FlagsBut({k})
  PROVE  /\ k \notin Shifts => (~shared => kb.shift = Down(Shifts)) /\ (kb.shift => Down(Shifts))
         /\ k \notin Ctrls => (~shared => kb.ctrl = Down(Ctrls)) /\ (kb.ctrl => Down(Ctrls))
         /\ k \notin Alts => (~shared => kb.alt = Down(Alts)) /\ (kb.alt => Down(Alts))
         /\ ~repeated => (kb.caps = lamp) = (k # "caps")
BY DEF FlagsBut, Follows

LEMMA KeyboardUp ==
  ASSUME StateOK, KeyboardOK, KeyUp
  PROVE  KeyboardOK'
<1>1. Interrupted /\ Head(port) # Prefix /\ IsBreak /\ port' = Tail(port)
      /\ UNCHANGED <<held, lamp, shared, repeated>>
  BY DEF KeyUp, Read
<1>2. kb \in Flags /\ lamp \in BOOLEAN /\ keys \subseteq Keys /\ held \subseteq keys
  BY DEF StateOK
<1>3. PICK k \in keys \ held :
        LastByte(k, Code[k] + 128) /\ FlagsBut({k} \ {"caps"}) /\ LetGoLast(k) /\ Tail(port) = << >>
  BY <1>1, <1>2, BreakIn
<1>4. k \in Keys
  BY <1>2
<1> DEFINE make == Scan - 128
<1>5. make = Code[k] + IF k \in Far THEN 57344 ELSE 0
  BY <1>3, <1>4, BreakScan
<1>6. /\ make \in {29, 57373} <=> k \in Ctrls
      /\ make \in {42, 54} <=> k \in Shifts
      /\ make \in {56, 57400} <=> k \in Alts
  <2> DEFINE n == Code[k]
  <2>1. n \in 1 .. 127 /\ (n \in {42, 54} <=> k \in Shifts) /\ (n = 29 <=> k \in Ctrls) /\ (n = 56 <=> k \in Alts)
    BY <1>4, SmallCode, Pairs
  <2>2. CASE k \in Far
    <3>1. make = n + 57344
      BY <1>5, <2>2
    <3>2. k \notin Shifts
      BY <2>2 DEF Far, Shifts
    <3> HIDE DEF n, make
    <3>3. (make \in {29, 57373} <=> n = 29) /\ make \notin {42, 54} /\ (make \in {56, 57400} <=> n = 56)
      BY <2>1, <3>1
    <3> QED
      BY <2>1, <3>2, <3>3
  <2>3. CASE k \notin Far
    <3>1. make = n
      BY <1>5, <2>1, <2>3
    <3> HIDE DEF n, make
    <3>2. (make \in {29, 57373} <=> n = 29) /\ (make \in {56, 57400} <=> n = 56)
      BY <2>1, <3>1
    <3> QED
      BY <2>1, <3>1, <3>2
  <2> QED
    BY <2>2, <2>3
<1> HIDE DEF make
<1>7. /\ kb' \in Flags /\ ~kb'.ext
      /\ kb'.ctrl = (kb.ctrl /\ k \notin Ctrls)
      /\ kb'.shift = (kb.shift /\ k \notin Shifts)
      /\ kb'.alt = (kb.alt /\ k \notin Alts)
      /\ kb'.caps = kb.caps
  BY <1>2, <1>6, FlagsOfUp DEF make
<1>8. /\ k \in Shifts => shared \/ ~Down(Shifts)
      /\ k \in Ctrls => shared \/ ~Down(Ctrls)
      /\ k \in Alts => shared \/ ~Down(Alts)
  BY <1>3 DEF LetGoLast
<1>9. /\ k \notin Shifts => (~shared => kb.shift = Down(Shifts)) /\ (kb.shift => Down(Shifts))
      /\ k \notin Ctrls => (~shared => kb.ctrl = Down(Ctrls)) /\ (kb.ctrl => Down(Ctrls))
      /\ k \notin Alts => (~shared => kb.alt = Down(Alts)) /\ (kb.alt => Down(Alts))
      /\ ~repeated => kb.caps = lamp
  BY <1>3 DEF FlagsBut, Follows
<1>10. Down(Shifts) \in BOOLEAN /\ Down(Ctrls) \in BOOLEAN /\ Down(Alts) \in BOOLEAN
  BY DEF Down
<1>11. ~shared => kb'.shift = Down(Shifts) /\ kb'.ctrl = Down(Ctrls) /\ kb'.alt = Down(Alts)
  BY <1>7, <1>8, <1>9, <1>10
<1>12. (kb'.shift => Down(Shifts)) /\ (kb'.ctrl => Down(Ctrls)) /\ (kb'.alt => Down(Alts))
  BY <1>7, <1>9
<1>13. ~repeated => kb'.caps = lamp
  BY <1>7, <1>9
<1> QED
  BY <1>1, <1>3, <1>7, <1>11, <1>12, <1>13, KeyboardQuiet

LEMMA KeyboardFlag ==
  ASSUME StateOK, KeyboardOK, KeyFlag
  PROVE  KeyboardOK'
<1>1. Interrupted /\ Head(port) # Prefix /\ ~IsBreak /\ IsKnown /\ Char = "" /\ port' = Tail(port)
      /\ UNCHANGED <<held, lamp, shared, repeated>>
  BY DEF KeyFlag, Read
<1>2. kb \in Flags /\ lamp \in BOOLEAN /\ keys \subseteq Keys /\ held \subseteq keys
  BY DEF StateOK
<1>3. PICK k \in held : LastByte(k, Code[k]) /\ FlagsBut({k}) /\ Tail(port) = << >>
  BY <1>1, <1>2, MakeIn
<1>4. k \in Keys
  BY <1>2
<1>5. Scan % 256 = Code[k]
  BY <1>3, <1>4, MakeScan
<1>6. /\ kb' \in Flags /\ ~kb'.ext
      /\ kb'.ctrl = (kb.ctrl \/ k \in Ctrls)
      /\ kb'.shift = (kb.shift \/ k \in Shifts)
      /\ kb'.alt = (kb.alt \/ k \in Alts)
      /\ kb'.caps = (kb.caps # (k = "caps"))
  BY <1>2, <1>4, <1>5, Pairs, FlagsOfFlag
<1>7. (k \in Shifts => Down(Shifts)) /\ (k \in Ctrls => Down(Ctrls)) /\ (k \in Alts => Down(Alts))
  BY <1>3 DEF Down
<1>8. /\ k \notin Shifts => (~shared => kb.shift = Down(Shifts)) /\ (kb.shift => Down(Shifts))
      /\ k \notin Ctrls => (~shared => kb.ctrl = Down(Ctrls)) /\ (kb.ctrl => Down(Ctrls))
      /\ k \notin Alts => (~shared => kb.alt = Down(Alts)) /\ (kb.alt => Down(Alts))
      /\ ~repeated => (kb.caps = lamp) = (k # "caps")
  BY <1>3, FlagsOthers
<1>9. Down(Shifts) \in BOOLEAN /\ Down(Ctrls) \in BOOLEAN /\ Down(Alts) \in BOOLEAN
      /\ kb.ctrl \in BOOLEAN /\ kb.shift \in BOOLEAN /\ kb.alt \in BOOLEAN /\ kb.caps \in BOOLEAN
  BY <1>2 DEF Down, Flags
<1>10. ~shared => kb'.shift = Down(Shifts) /\ kb'.ctrl = Down(Ctrls) /\ kb'.alt = Down(Alts)
  BY <1>6, <1>7, <1>8, <1>9
<1>11. (kb'.shift => Down(Shifts)) /\ (kb'.ctrl => Down(Ctrls)) /\ (kb'.alt => Down(Alts))
  BY <1>6, <1>7, <1>8
<1>12. ~repeated => kb'.caps = lamp
  BY <1>2, <1>6, <1>8, <1>9
<1> QED
  BY <1>1, <1>3, <1>6, <1>10, <1>11, <1>12, KeyboardQuiet

\* A key with a character, or an unknown one, has no flag.
LEMMA KeyboardEcho ==
  ASSUME StateOK, kb' = [kb EXCEPT !.ext = FALSE], port' = Tail(port), UNCHANGED <<held, lamp, shared, repeated>>,
         NEW k \in {"a", "one", "enter", "bksp", "up", "f1"}, FlagsBut({k}), Tail(port) = << >>
  PROVE  KeyboardOK'
<1>1. kb \in Flags
  BY DEF StateOK
<1>2. kb' \in Flags /\ ~kb'.ext /\ kb'.ctrl = kb.ctrl /\ kb'.shift = kb.shift /\ kb'.alt = kb.alt /\ kb'.caps = kb.caps
  BY <1>1, FlagsOfChar
<1>3. k \notin Shifts /\ k \notin Ctrls /\ k \notin Alts /\ k # "caps"
  BY DEF Shifts, Ctrls, Alts
<1>4. /\ (~shared => kb.shift = Down(Shifts)) /\ (kb.shift => Down(Shifts))
      /\ (~shared => kb.ctrl = Down(Ctrls)) /\ (kb.ctrl => Down(Ctrls))
      /\ (~shared => kb.alt = Down(Alts)) /\ (kb.alt => Down(Alts))
      /\ ~repeated => (kb.caps = lamp)
  BY <1>3, FlagsOthers
<1> QED
  BY <1>2, <1>4, KeyboardQuiet
\* A code is put on its way.
LEMMA KeyboardSends ==
  ASSUME NEW k \in keys, NEW code, port' = Bytes(k, code), UNCHANGED <<keys, kb>>, ~kb.ext,
         \/ k \in held' /\ code = Code[k] /\ FlagsBut({k})'
         \/ k \notin held' /\ code = Code[k] + 128 /\ FlagsBut({k} \ {"caps"})' /\ LetGoLast(k)'
  PROVE  KeyboardOK'
<1>1. Pending(k, code)'
  BY DEF Pending
<1>2. CASE k \in held' /\ code = Code[k] /\ FlagsBut({k})'
  BY <1>1, <1>2 DEF KeyboardOK
<1>3. CASE k \notin held' /\ code = Code[k] + 128 /\ FlagsBut({k} \ {"caps"})' /\ LetGoLast(k)'
  <2>1. k \in keys' \ held'
    BY <1>3
  <2> QED
    BY <1>1, <1>3, <2>1 DEF KeyboardOK
<1> QED
  BY <1>2, <1>3

LEMMA NothingPending ==
  ASSUME StateOK, KeyboardOK, port = << >>
  PROVE  ~kb.ext /\ FlagsBut({})
<1>1. \A k \in keys : Code[k] \in Nat /\ Code[k] # 224 /\ Code[k] + 128 \in Nat /\ Code[k] + 128 # 224
  BY NoPrefix DEF StateOK
<1>2. ASSUME NEW k \in held, Pending(k, Code[k]) PROVE FALSE
  BY <1>1, <1>2, PendingIs DEF StateOK
<1>3. ASSUME NEW k \in keys \ held, Pending(k, Code[k] + 128) PROVE FALSE
  BY <1>1, <1>3, PendingIs DEF StateOK
<1> QED
  BY <1>2, <1>3 DEF KeyboardOK

LEMMA KeyboardPress ==
  ASSUME StateOK, KeyboardOK, NEW k \in keys, Press(k)
  PROVE  KeyboardOK'
<1>1. /\ port = << >> /\ k \notin held /\ port' = Bytes(k, Code[k]) /\ held' = held \cup {k}
      /\ lamp' = (IF k = "caps" THEN ~lamp ELSE lamp)
      /\ UNCHANGED <<keys, kb, shared, repeated>>
  BY DEF Press, Quiet
<1>2. ~kb.ext /\ FlagsBut({})
  BY <1>1, NothingPending
<1>3. lamp \in BOOLEAN /\ kb.caps \in BOOLEAN
  BY DEF StateOK, Flags
<1>4. FlagsBut({k})'
  <2>1. ASSUME NEW pair, k \notin pair PROVE Down(pair)' = Down(pair)
    BY <1>1, <2>1 DEF Down
  <2>2. (~repeated => (kb.caps = lamp) = ("caps" \notin {k}))'
    BY <1>1, <1>2, <1>3 DEF FlagsBut
  <2>3. (Shifts \cap {k} = {} => Follows(kb.shift, Shifts))'
    BY <1>1, <1>2, <2>1 DEF FlagsBut, Follows
  <2>4. (Ctrls \cap {k} = {} => Follows(kb.ctrl, Ctrls))'
    BY <1>1, <1>2, <2>1 DEF FlagsBut, Follows
  <2>5. (Alts \cap {k} = {} => Follows(kb.alt, Alts))'
    BY <1>1, <1>2, <2>1 DEF FlagsBut, Follows
  <2> QED
    BY <2>2, <2>3, <2>4, <2>5 DEF FlagsBut
<1>5. k \in held'
  BY <1>1
<1> QED
  BY <1>1, <1>2, <1>4, <1>5, KeyboardSends

LEMMA KeyboardLetGo ==
  ASSUME StateOK, KeyboardOK, NEW k \in keys, LetGo(k)
  PROVE  KeyboardOK'
<1>1. /\ port = << >> /\ k \in held /\ port' = Bytes(k, Code[k] + 128) /\ held' = held \ {k}
      /\ shared' = (shared \/ \E pair \in {Shifts, Ctrls, Alts} : pair \subseteq held /\ k \in pair)
      /\ UNCHANGED <<keys, kb, lamp, repeated>>
  BY DEF LetGo, Quiet
<1>2. ~kb.ext /\ FlagsBut({})
  BY <1>1, NothingPending
<1>3. FlagsBut({k} \ {"caps"})'
  <2>1. ASSUME NEW pair, k \notin pair PROVE Down(pair)' = Down(pair)
    BY <1>1, <2>1 DEF Down
  <2>2. (~repeated => (kb.caps = lamp) = ("caps" \notin {k} \ {"caps"}))'
    BY <1>1, <1>2 DEF FlagsBut
  <2>3. "caps" \notin Shifts /\ "caps" \notin Ctrls /\ "caps" \notin Alts
    BY DEF Shifts, Ctrls, Alts
  <2>4. shared => shared'
    BY <1>1
  <2>5. (Shifts \cap ({k} \ {"caps"}) = {} => Follows(kb.shift, Shifts))'
    BY <1>1, <1>2, <2>1, <2>3, <2>4 DEF FlagsBut, Follows
  <2>6. (Ctrls \cap ({k} \ {"caps"}) = {} => Follows(kb.ctrl, Ctrls))'
    BY <1>1, <1>2, <2>1, <2>3, <2>4 DEF FlagsBut, Follows
  <2>7. (Alts \cap ({k} \ {"caps"}) = {} => Follows(kb.alt, Alts))'
    BY <1>1, <1>2, <2>1, <2>3, <2>4 DEF FlagsBut, Follows
  <2> QED
    BY <2>2, <2>5, <2>6, <2>7 DEF FlagsBut
<1>4. LetGoLast(k)'
  <2> SUFFICES ASSUME NEW pair \in {Shifts, Ctrls, Alts}, k \in pair, Down(pair)'
               PROVE  shared'
    BY DEF LetGoLast
  <2>1. PICK j \in held : j # k /\ j \in pair
    BY <1>1 DEF Down
  <2>2. \A i \in pair : i = k \/ i = j
    BY <2>1 DEF Shifts, Ctrls, Alts
  <2>3. pair \subseteq held
    BY <1>1, <2>1, <2>2
  <2> QED
    BY <1>1, <2>3
<1>5. k \notin held'
  BY <1>1
<1> QED
  BY <1>1, <1>2, <1>3, <1>4, <1>5, KeyboardSends

LEMMA KeyboardRepeat ==
  ASSUME StateOK, KeyboardOK, Repeat
  PROVE  KeyboardOK'
<1>1. /\ port = << >> /\ last \in held /\ port' = Bytes(last, Code[last])
      /\ repeated' = (repeated \/ last = "caps")
      /\ UNCHANGED <<keys, kb, held, last, lamp, shared>>
  BY DEF Repeat, Quiet
<1>2. ~kb.ext /\ FlagsBut({})
  BY <1>1, NothingPending
<1>3. FlagsBut({last})'
  BY <1>1, <1>2 DEF FlagsBut, Follows, Down
<1>4. last \in keys /\ last \in held'
  BY <1>1 DEF StateOK
<1> DEFINE k == last
<1>5. k \in keys /\ k \in held' /\ FlagsBut({k})' /\ port' = Bytes(k, Code[k])
  BY <1>1, <1>3, <1>4
<1> QED
  BY <1>1, <1>2, <1>5, KeyboardSends
-----------------------------------------------------------------------------
(* The steps of a thread's put_char.                                       *)

\* The lock keeps the others from it.
LEMMA Alone ==
  ASSUME StateOK, NEW t \in Threads, pc[t] # "idle"
  PROVE  \A u \in Threads \ {t} : pc[u] = "idle"
BY DEF StateOK

LEMMA PcGoes ==
  ASSUME StateOK, NEW t \in Threads, NEW from, from # "idle", NEW to \in Pcs, Goes(t, from, to)
  PROVE  /\ pc[t] = from /\ pc'[t] = to /\ pc' \in [Threads -> Pcs] /\ ~halted
         /\ \A u \in Threads \ {t} : pc[u] = "idle" /\ pc'[u] = "idle"
<1>1. pc[t] = from /\ pc' = [pc EXCEPT ![t] = to] /\ pc \in [Threads -> Pcs] /\ ~halted
  BY DEF Goes, Runs, StateOK
<1>2. \A u \in Threads \ {t} : pc[u] = "idle"
  BY <1>1, Alone
<1> QED
  BY <1>1, <1>2

\* What CursorOK says of the one thread that prints.
CursorFor(t) ==
  /\ IF pc[t] \in Drawing THEN Placed(bx[t], page) ELSE Placed(Cursor, page)
  /\ pc[t] \in {"in_hi", "out_hi"} => index = "hi"
  /\ pc[t] \in {"in_lo", "out_lo"} => index = "lo"
  /\ pc[t] \in {"read_lo", "in_lo"} => bx[t] = reg["hi"] * Byte
  /\ pc[t] = "draw" => bx[t] = Cursor
  /\ pc[t] \in {"set_lo", "out_lo"} => reg["hi"] = bx[t] \div Byte

LEMMA CursorFrom ==
  ASSUME CursorOK, ~mixed, NEW t \in Threads, \A u \in Threads \ {t} : pc[u] = "idle"
  PROVE  CursorFor(t) /\ (halted => AtCorner)
BY DEF CursorOK, CursorFor, Drawing

LEMMA CursorTo ==
  ASSUME NEW t \in Threads, \A u \in Threads \ {t} : pc'[u] = "idle", ~mixed' => CursorFor(t)' /\ (halted' => AtCorner')
  PROVE  CursorOK'
BY DEF CursorOK, CursorFor, Drawing

\* The types that a thread's step can disturb.
LEMMA StateGoes ==
  ASSUME StateOK, NEW t \in Threads, NEW from, from # "idle", NEW to \in Pcs \ {"idle"}, Goes(t, from, to),
         UNCHANGED <<keys, held, owner, masked, kb, lamp, mixed, shared, repeated>>,
         NEW b \in 0 .. Word - 1, bx' = [bx EXCEPT ![t] = b],
         to \in {"read_lo", "in_lo"} => \E hi \in 0 .. Byte - 1 : b = hi * Byte,
         (DOMAIN cells = 0 .. Limit - 1)', (reg \in [{"hi", "lo"} -> 0 .. Byte - 1])',
         (index \in {"hi", "lo"})', halted' \in BOOLEAN
  PROVE  StateOK'
<1>1. /\ pc[t] = from /\ pc'[t] = to /\ pc' \in [Threads -> Pcs]
      /\ \A u \in Threads \ {t} : pc[u] = "idle" /\ pc'[u] = "idle"
  BY PcGoes
<1>2. bx \in [Threads -> 0 .. Word - 1]
  BY DEF StateOK
<1>3. bx' \in [Threads -> 0 .. Word - 1] /\ bx'[t] = b
  BY <1>2
<1>4. \A u \in Threads : pc'[u] = "idle" <=> owner'["console"] # u
  BY <1>1 DEF StateOK
<1>5. \A u \in Threads : pc'[u] \in {"read_lo", "in_lo"} => \E hi \in 0 .. Byte - 1 : bx'[u] = hi * Byte
  BY <1>1, <1>3
<1> QED
  BY <1>1, <1>3, <1>4, <1>5 DEF StateOK

LEMMA ContentSame ==
  ASSUME ContentOK, UNCHANGED <<cells, page>>, mixed => mixed', shared => shared', repeated => repeated'
  PROVE  ContentOK'
BY DEF ContentOK, Shown

LEMMA StepAcquire ==
  ASSUME IInv, NEW t \in Threads, Acquire(t)
  PROVE  IInv'
<1>1. StateOK /\ KeyboardOK /\ CursorOK /\ ContentOK
  BY DEF IInv
<1>2. /\ pc[t] = "idle" /\ owner["console"] = NoThread /\ owner' = [owner EXCEPT !["console"] = t]
      /\ masked' = (IF t \in Processes THEN t ELSE NoThread) /\ pc' = [pc EXCEPT ![t] = "read"] /\ ~halted
      /\ UNCHANGED <<keys, text, bx, screenVars, kb, keyVars, mixed>>
  BY DEF Acquire, Lock, Runs
<1>3. \A u \in Threads : pc[u] = "idle"
  BY <1>1, <1>2, TerminalAssumption DEF StateOK
<1>4. pc \in [Threads -> Pcs] /\ pc'[t] = "read" /\ \A u \in Threads \ {t} : pc'[u] = "idle"
  BY <1>1, <1>2, <1>3 DEF StateOK
<1>5. StateOK'
  <2>1. (pc \in [Threads -> Pcs])'
    BY <1>2, <1>4 DEF Pcs, Resting
  <2>2. (\A u \in Threads : pc[u] = "idle" <=> owner["console"] # u)'
    BY <1>1, <1>2, <1>4 DEF StateOK
  <2>3. (owner \in [{"console"} -> Threads \cup {NoThread}])'
    BY <1>1, <1>2 DEF StateOK
  <2>4. (\A u \in Threads : pc[u] \in {"read_lo", "in_lo"} => \E hi \in 0 .. Byte - 1 : bx[u] = hi * Byte)'
    BY <1>4
  <2> QED
    BY <1>1, <1>2, <2>1, <2>2, <2>3, <2>4 DEF StateOK, screenVars, keyVars
<1>6. CursorOK'
  <2>1. ASSUME ~mixed' PROVE CursorFor(t)' /\ (halted' => AtCorner')
    <3>1. CursorFor(t)
      BY <1>1, <1>2, <1>3, <2>1, CursorFrom
    <3> QED
      BY <1>2, <1>4, <3>1 DEF CursorFor, Drawing, screenVars, Cursor, Placed
  <2> QED
    BY <1>4, <2>1, CursorTo
<1>7. KeyboardOK'
  BY <1>1, <1>2, KeyboardSame DEF keyVars
<1>8. ContentOK'
  BY <1>1, <1>2, ContentSame DEF screenVars, keyVars
<1> QED
  BY <1>5, <1>6, <1>7, <1>8 DEF IInv

LEMMA StepRelease ==
  ASSUME IInv, NEW t \in Threads, Release(t)
  PROVE  IInv'
<1>1. StateOK /\ KeyboardOK /\ CursorOK /\ ContentOK
  BY DEF IInv
<1>2. /\ Goes(t, "done", "idle") /\ owner["console"] = t /\ owner' = [owner EXCEPT !["console"] = NoThread]
      /\ masked' = NoThread
      /\ UNCHANGED <<keys, text, bx, screenVars, kb, keyVars, mixed>>
  BY DEF Release, Unlock
<1>3. /\ pc[t] = "done" /\ pc'[t] = "idle" /\ pc' \in [Threads -> Pcs] /\ ~halted
      /\ \A u \in Threads \ {t} : pc[u] = "idle" /\ pc'[u] = "idle"
  BY <1>1, <1>2, PcGoes DEF Pcs, Resting
<1>4. StateOK'
  <2>1. (\A u \in Threads : pc[u] = "idle" <=> owner["console"] # u)'
    BY <1>1, <1>2, <1>3, TerminalAssumption DEF StateOK
  <2>2. (owner \in [{"console"} -> Threads \cup {NoThread}])'
    BY <1>1, <1>2 DEF StateOK
  <2>3. (\A u \in Threads : pc[u] \in {"read_lo", "in_lo"} => \E hi \in 0 .. Byte - 1 : bx[u] = hi * Byte)'
    BY <1>3
  <2> QED
    BY <1>1, <1>2, <1>3, <2>1, <2>2, <2>3 DEF StateOK, screenVars, keyVars
<1>5. CursorOK'
  <2>1. ASSUME ~mixed' PROVE CursorFor(t)' /\ (halted' => AtCorner')
    <3>1. CursorFor(t)
      BY <1>1, <1>2, <1>3, <2>1, CursorFrom
    <3> QED
      BY <1>2, <1>3, <3>1 DEF CursorFor, Drawing, screenVars, Cursor, Placed
  <2> QED
    BY <1>3, <2>1, CursorTo
<1>6. KeyboardOK'
  BY <1>1, <1>2, KeyboardSame DEF keyVars
<1>7. ContentOK'
  BY <1>1, <1>2, ContentSame DEF screenVars, keyVars
<1> QED
  BY <1>4, <1>5, <1>6, <1>7 DEF IInv
LEMMA StepSelectHi ==
  ASSUME IInv, NEW t \in Threads, SelectHi(t)
  PROVE  IInv'
<1>1. StateOK /\ KeyboardOK /\ CursorOK /\ ContentOK
  BY DEF IInv
<1>2. /\ Goes(t, "read", "in_hi") \/ Goes(t, "set", "out_hi")
      /\ index' = "hi"
      /\ UNCHANGED <<keys, lockVars, text, bx, cells, reg, halted, page, kb, keyVars, mixed>>
  BY DEF SelectHi
<1>3. PICK from, to \in Pcs \ {"idle"} : /\ Goes(t, from, to)
                                         /\ (from = "read" /\ to = "in_hi") \/ (from = "set" /\ to = "out_hi")
  BY <1>2 DEF Pcs, Resting, Drawing
<1>4. from # "idle" /\ to \in Pcs /\ to \in Pcs \ {"idle"} /\ Goes(t, from, to)
  BY <1>3
<1>5. /\ pc[t] = from /\ pc'[t] = to /\ ~halted
      /\ \A u \in Threads \ {t} : pc[u] = "idle" /\ pc'[u] = "idle"
  BY <1>1, <1>3, <1>4, PcGoes
<1>6. StateOK'
  <2>1. bx[t] \in 0 .. Word - 1 /\ bx' = [bx EXCEPT ![t] = bx[t]]
    BY <1>1, <1>2 DEF StateOK
  <2>2. to \in {"read_lo", "in_lo"} => \E hi \in 0 .. Byte - 1 : bx[t] = hi * Byte
    BY <1>1, <1>3, <1>5 DEF StateOK
  <2> DEFINE w == bx[t]
  <2>3. w \in 0 .. Word - 1 /\ bx' = [bx EXCEPT ![t] = w]
        /\ (to \in {"read_lo", "in_lo"} => \E hi \in 0 .. Byte - 1 : w = hi * Byte)
    BY <2>1, <2>2
  <2> HIDE DEF w
  <2>4. /\ (DOMAIN cells = 0 .. Limit - 1)' /\ (reg \in [{"hi", "lo"} -> 0 .. Byte - 1])'
        /\ (index \in {"hi", "lo"})' /\ halted' \in BOOLEAN
        /\ UNCHANGED <<keys, held, owner, masked, kb, lamp, mixed, shared, repeated>>
    BY <1>1, <1>2 DEF StateOK, lockVars, keyVars
  <2> QED
    BY <1>1, <1>4, <2>3, <2>4, StateGoes
<1>7. CursorOK'
  <2>1. ASSUME ~mixed' PROVE CursorFor(t)' /\ (halted' => AtCorner')
    <3>1. CursorFor(t)
      BY <1>1, <1>2, <1>5, <2>1, CursorFrom
    <3> QED
      BY <1>2, <1>3, <1>5, <3>1 DEF CursorFor, Drawing, Cursor, Placed
  <2> QED
    BY <1>5, <2>1, CursorTo
<1>8. KeyboardOK'
  BY <1>1, <1>2, KeyboardSame DEF keyVars
<1>9. ContentOK'
  BY <1>1, <1>2, ContentSame DEF keyVars
<1> QED
  BY <1>6, <1>7, <1>8, <1>9 DEF IInv

LEMMA StepSelectLo ==
  ASSUME IInv, NEW t \in Threads, SelectLo(t)
  PROVE  IInv'
<1>1. StateOK /\ KeyboardOK /\ CursorOK /\ ContentOK
  BY DEF IInv
<1>2. /\ Goes(t, "read_lo", "in_lo") \/ Goes(t, "set_lo", "out_lo")
      /\ index' = "lo"
      /\ UNCHANGED <<keys, lockVars, text, bx, cells, reg, halted, page, kb, keyVars, mixed>>
  BY DEF SelectLo
<1>3. PICK from, to \in Pcs \ {"idle"} : /\ Goes(t, from, to)
                                         /\ (from = "read_lo" /\ to = "in_lo") \/ (from = "set_lo" /\ to = "out_lo")
  BY <1>2 DEF Pcs, Resting, Drawing
<1>4. from # "idle" /\ to \in Pcs /\ to \in Pcs \ {"idle"} /\ Goes(t, from, to)
  BY <1>3
<1>5. /\ pc[t] = from /\ pc'[t] = to /\ ~halted
      /\ \A u \in Threads \ {t} : pc[u] = "idle" /\ pc'[u] = "idle"
  BY <1>1, <1>3, <1>4, PcGoes
<1>6. StateOK'
  <2>1. bx[t] \in 0 .. Word - 1 /\ bx' = [bx EXCEPT ![t] = bx[t]]
    BY <1>1, <1>2 DEF StateOK
  <2>2. to \in {"read_lo", "in_lo"} => \E hi \in 0 .. Byte - 1 : bx[t] = hi * Byte
    BY <1>1, <1>3, <1>5 DEF StateOK
  <2> DEFINE w == bx[t]
  <2>3. w \in 0 .. Word - 1 /\ bx' = [bx EXCEPT ![t] = w]
        /\ (to \in {"read_lo", "in_lo"} => \E hi \in 0 .. Byte - 1 : w = hi * Byte)
    BY <2>1, <2>2
  <2> HIDE DEF w
  <2>4. /\ (DOMAIN cells = 0 .. Limit - 1)' /\ (reg \in [{"hi", "lo"} -> 0 .. Byte - 1])'
        /\ (index \in {"hi", "lo"})' /\ halted' \in BOOLEAN
        /\ UNCHANGED <<keys, held, owner, masked, kb, lamp, mixed, shared, repeated>>
    BY <1>1, <1>2 DEF StateOK, lockVars, keyVars
  <2> QED
    BY <1>1, <1>4, <2>3, <2>4, StateGoes
<1>7. CursorOK'
  <2>1. ASSUME ~mixed' PROVE CursorFor(t)' /\ (halted' => AtCorner')
    <3>1. CursorFor(t)
      BY <1>1, <1>2, <1>5, <2>1, CursorFrom
    <3> QED
      BY <1>2, <1>3, <1>5, <3>1 DEF CursorFor, Drawing, Cursor, Placed
  <2> QED
    BY <1>5, <2>1, CursorTo
<1>8. KeyboardOK'
  BY <1>1, <1>2, KeyboardSame DEF keyVars
<1>9. ContentOK'
  BY <1>1, <1>2, ContentSame DEF keyVars
<1> QED
  BY <1>6, <1>7, <1>8, <1>9 DEF IInv


LEMMA StepInHi ==
  ASSUME IInv, NEW t \in Threads, InHi(t)
  PROVE  IInv'
<1>1. StateOK /\ KeyboardOK /\ CursorOK /\ ContentOK
  BY DEF IInv
<1>2. /\ Goes(t, "in_hi", "read_lo") /\ bx' = [bx EXCEPT ![t] = reg[index] * Byte]
      /\ UNCHANGED <<keys, lockVars, text, screenVars, kb, keyVars, mixed>>
  BY DEF InHi
<1>3. "read_lo" \in Pcs \ {"idle"} /\ "in_hi" # "idle"
  BY DEF Pcs, Resting, Drawing
<1>4. /\ pc[t] = "in_hi" /\ pc'[t] = "read_lo" /\ ~halted
      /\ \A u \in Threads \ {t} : pc[u] = "idle" /\ pc'[u] = "idle"
  BY <1>1, <1>2, <1>3, PcGoes
<1>5. reg[index] \in 0 .. Byte - 1 /\ bx \in [Threads -> 0 .. Word - 1]
  BY <1>1 DEF StateOK
<1> DEFINE w == reg[index] * Byte
<1>6. w \in 0 .. Word - 1 /\ (\E hi \in 0 .. Byte - 1 : w = hi * Byte) /\ bx'[t] = w
  <2>1. 0 \in 0 .. Byte - 1
    BY Sizes
  <2>2. reg[index] * Byte \in 0 .. Word - 1
    BY <1>5, <2>1, TwoBytes
  <2> QED
    BY <1>2, <1>5, <2>2
<1>7. StateOK'
  <2>1. /\ (DOMAIN cells = 0 .. Limit - 1)' /\ (reg \in [{"hi", "lo"} -> 0 .. Byte - 1])'
        /\ (index \in {"hi", "lo"})' /\ halted' \in BOOLEAN
        /\ UNCHANGED <<keys, held, owner, masked, kb, lamp, mixed, shared, repeated>>
    BY <1>1, <1>2 DEF StateOK, lockVars, keyVars, screenVars
  <2>2. bx' = [bx EXCEPT ![t] = w]
    BY <1>2
  <2> HIDE DEF w
  <2> QED
    BY <1>1, <1>2, <1>3, <1>6, <2>1, <2>2, StateGoes
<1>8. CursorOK'
  <2>1. ASSUME ~mixed' PROVE CursorFor(t)' /\ (halted' => AtCorner')
    <3>1. CursorFor(t)
      BY <1>1, <1>2, <1>4, <2>1, CursorFrom
    <3>2. bx'[t] = reg'["hi"] * Byte
      BY <1>2, <1>4, <1>6, <3>1 DEF CursorFor, screenVars
    <3> HIDE DEF w
    <3> QED
      BY <1>2, <1>4, <3>1, <3>2 DEF CursorFor, Drawing, Cursor, Placed, screenVars
  <2> QED
    BY <1>4, <2>1, CursorTo
<1>9. KeyboardOK'
  BY <1>1, <1>2, KeyboardSame DEF keyVars
<1>10. ContentOK'
  BY <1>1, <1>2, ContentSame DEF keyVars, screenVars
<1> QED
  BY <1>7, <1>8, <1>9, <1>10 DEF IInv

LEMMA StepInLo ==
  ASSUME IInv, NEW t \in Threads, InLo(t)
  PROVE  IInv'
<1>1. StateOK /\ KeyboardOK /\ CursorOK /\ ContentOK
  BY DEF IInv
<1>2. /\ Goes(t, "in_lo", "draw") /\ bx' = [bx EXCEPT ![t] = bx[t] + reg[index]]
      /\ UNCHANGED <<keys, lockVars, text, screenVars, kb, keyVars, mixed>>
  BY DEF InLo
<1>3. "draw" \in Pcs \ {"idle"} /\ "in_lo" # "idle"
  BY DEF Pcs, Resting, Drawing
<1>4. /\ pc[t] = "in_lo" /\ pc'[t] = "draw" /\ ~halted
      /\ \A u \in Threads \ {t} : pc[u] = "idle" /\ pc'[u] = "idle"
  BY <1>1, <1>2, <1>3, PcGoes
<1>5. reg[index] \in 0 .. Byte - 1 /\ bx \in [Threads -> 0 .. Word - 1]
  BY <1>1 DEF StateOK
<1> DEFINE w == bx[t] + reg[index]
<1>6. w \in 0 .. Word - 1 /\ bx'[t] = w
  <2>1. PICK hi \in 0 .. Byte - 1 : bx[t] = hi * Byte
    BY <1>1, <1>4 DEF StateOK
  <2>2. hi * Byte + reg[index] \in 0 .. Word - 1
    BY <1>5, TwoBytes
  <2> QED
    BY <1>2, <1>5, <2>1, <2>2
<1>7. StateOK'
  <2>1. /\ (DOMAIN cells = 0 .. Limit - 1)' /\ (reg \in [{"hi", "lo"} -> 0 .. Byte - 1])'
        /\ (index \in {"hi", "lo"})' /\ halted' \in BOOLEAN
        /\ UNCHANGED <<keys, held, owner, masked, kb, lamp, mixed, shared, repeated>>
    BY <1>1, <1>2 DEF StateOK, lockVars, keyVars, screenVars
  <2>2. bx' = [bx EXCEPT ![t] = w]
    BY <1>2
  <2>3. "draw" \in {"read_lo", "in_lo"} => \E hi \in 0 .. Byte - 1 : w = hi * Byte
    OBVIOUS
  <2> HIDE DEF w
  <2> QED
    BY <1>1, <1>2, <1>3, <1>6, <2>1, <2>2, <2>3, StateGoes
<1>8. CursorOK'
  <2>1. ASSUME ~mixed' PROVE CursorFor(t)' /\ (halted' => AtCorner')
    <3>1. CursorFor(t)
      BY <1>1, <1>2, <1>4, <2>1, CursorFrom
    <3>2. bx[t] = reg["hi"] * Byte /\ index = "lo"
      BY <1>4, <3>1 DEF CursorFor
    <3>3. bx'[t] = Cursor'
      BY <1>2, <1>6, <3>2 DEF Cursor, screenVars
    <3> HIDE DEF w
    <3> QED
      BY <1>2, <1>4, <3>1, <3>3 DEF CursorFor, Drawing, Cursor, Placed, screenVars
  <2> QED
    BY <1>4, <2>1, CursorTo
<1>9. KeyboardOK'
  BY <1>1, <1>2, KeyboardSame DEF keyVars
<1>10. ContentOK'
  BY <1>1, <1>2, ContentSame DEF keyVars, screenVars
<1> QED
  BY <1>7, <1>8, <1>9, <1>10 DEF IInv
LEMMA StepOutHi ==
  ASSUME IInv, NEW t \in Threads, OutHi(t)
  PROVE  IInv'
<1>1. StateOK /\ KeyboardOK /\ CursorOK /\ ContentOK
  BY DEF IInv
<1>2. /\ Goes(t, "out_hi", "set_lo") /\ reg' = [reg EXCEPT ![index] = bx[t] \div Byte]
      /\ UNCHANGED <<keys, lockVars, text, bx, cells, index, halted, page, kb, keyVars, mixed>>
  BY DEF OutHi
<1>3. "set_lo" \in Pcs \ {"idle"} /\ "set_lo" \in Pcs /\ "out_hi" # "idle"
  BY DEF Pcs, Resting, Drawing
<1>4. /\ pc[t] = "out_hi" /\ pc'[t] = "set_lo" /\ ~halted
      /\ \A u \in Threads \ {t} : pc[u] = "idle" /\ pc'[u] = "idle"
  BY <1>1, <1>2, <1>3, PcGoes
<1>5. /\ reg \in [{"hi", "lo"} -> 0 .. Byte - 1] /\ index \in {"hi", "lo"}
      /\ bx \in [Threads -> 0 .. Word - 1] /\ bx[t] \in 0 .. Word - 1
  BY <1>1 DEF StateOK
<1>6. bx[t] \div Byte \in 0 .. Byte - 1
  BY <1>5, Split
<1> DEFINE q == bx[t] \div Byte
<1>7. q \in 0 .. Byte - 1 /\ reg' = [reg EXCEPT ![index] = q]
  BY <1>2, <1>6
<1>8. StateOK'
  <2> DEFINE w == bx[t]
  <2>1. w \in 0 .. Word - 1 /\ bx' = [bx EXCEPT ![t] = w]
        /\ ("set_lo" \in {"read_lo", "in_lo"} => \E hi \in 0 .. Byte - 1 : w = hi * Byte)
    BY <1>2, <1>5
  <2> HIDE DEF w, q
  <2>2. (reg \in [{"hi", "lo"} -> 0 .. Byte - 1])'
    BY <1>5, <1>7
  <2>3. /\ (DOMAIN cells = 0 .. Limit - 1)'
        /\ (index \in {"hi", "lo"})' /\ halted' \in BOOLEAN
        /\ UNCHANGED <<keys, held, owner, masked, kb, lamp, mixed, shared, repeated>>
    BY <1>1, <1>2 DEF StateOK, lockVars, keyVars
  <2> QED
    BY <1>1, <1>2, <1>3, <2>1, <2>2, <2>3, StateGoes
<1>9. CursorOK'
  <2>1. ASSUME ~mixed' PROVE CursorFor(t)' /\ (halted' => AtCorner')
    <3>1. CursorFor(t)
      BY <1>1, <1>2, <1>4, <2>1, CursorFrom
    <3>2. Placed(bx[t], page) /\ index = "hi"
      BY <1>4, <3>1 DEF CursorFor, Drawing
    <3>3. reg'["hi"] = q
      BY <1>5, <1>7, <3>2
    <3>4. Placed(bx[t], page)' /\ (reg["hi"] = bx[t] \div Byte)'
      BY <1>2, <3>2, <3>3 DEF Placed
    <3> QED
      BY <1>2, <1>4, <3>4 DEF CursorFor, Drawing
  <2> QED
    BY <1>4, <2>1, CursorTo
<1>10. KeyboardOK'
  BY <1>1, <1>2, KeyboardSame DEF keyVars
<1>11. ContentOK'
  BY <1>1, <1>2, ContentSame DEF keyVars
<1> QED
  BY <1>8, <1>9, <1>10, <1>11 DEF IInv

LEMMA StepOutLo ==
  ASSUME IInv, NEW t \in Threads, OutLo(t)
  PROVE  IInv'
<1>1. StateOK /\ KeyboardOK /\ CursorOK /\ ContentOK
  BY DEF IInv
<1> DEFINE to == IF Len(text[t][1]) = 1 THEN "done" ELSE "read"
<1>2. /\ Goes(t, "out_lo", to) /\ reg' = [reg EXCEPT ![index] = bx[t] % Byte]
      /\ UNCHANGED <<keys, lockVars, bx, cells, index, halted, page, kb, keyVars, mixed>>
  BY DEF OutLo
<1>3. to \in Pcs \ {"idle"} /\ to \in Pcs /\ to \in {"done", "read"} /\ "out_lo" # "idle"
  BY DEF Pcs, Resting, Drawing
<1> HIDE DEF to
<1>4. /\ pc[t] = "out_lo" /\ pc'[t] = to /\ ~halted
      /\ \A u \in Threads \ {t} : pc[u] = "idle" /\ pc'[u] = "idle"
  BY <1>1, <1>2, <1>3, PcGoes
<1>5. /\ reg \in [{"hi", "lo"} -> 0 .. Byte - 1] /\ index \in {"hi", "lo"}
      /\ bx \in [Threads -> 0 .. Word - 1] /\ bx[t] \in 0 .. Word - 1
  BY <1>1 DEF StateOK
<1>6. bx[t] % Byte \in 0 .. Byte - 1 /\ (bx[t] \div Byte) * Byte + (bx[t] % Byte) = bx[t]
  BY <1>5, Split
<1> DEFINE r == bx[t] % Byte
<1>7. r \in 0 .. Byte - 1 /\ reg' = [reg EXCEPT ![index] = r]
  BY <1>2, <1>6
<1>8. StateOK'
  <2> DEFINE w == bx[t]
  <2>1. w \in 0 .. Word - 1 /\ bx' = [bx EXCEPT ![t] = w]
        /\ (to \in {"read_lo", "in_lo"} => \E hi \in 0 .. Byte - 1 : w = hi * Byte)
    BY <1>2, <1>3, <1>5
  <2> HIDE DEF w, r
  <2>2. (reg \in [{"hi", "lo"} -> 0 .. Byte - 1])'
    BY <1>5, <1>7
  <2>3. /\ (DOMAIN cells = 0 .. Limit - 1)'
        /\ (index \in {"hi", "lo"})' /\ halted' \in BOOLEAN
        /\ UNCHANGED <<keys, held, owner, masked, kb, lamp, mixed, shared, repeated>>
    BY <1>1, <1>2 DEF StateOK, lockVars, keyVars
  <2> QED
    BY <1>1, <1>2, <1>3, <2>1, <2>2, <2>3, StateGoes
<1>9. CursorOK'
  <2>1. ASSUME ~mixed' PROVE CursorFor(t)' /\ (halted' => AtCorner')
    <3>1. CursorFor(t)
      BY <1>1, <1>2, <1>4, <2>1, CursorFrom
    <3>2. Placed(bx[t], page) /\ index = "lo" /\ reg["hi"] = bx[t] \div Byte
      BY <1>4, <3>1 DEF CursorFor, Drawing
    <3>3. reg'["hi"] = reg["hi"] /\ reg'["lo"] = r
      BY <1>5, <1>7, <3>2
    <3>4. Cursor' = bx[t]
      BY <1>6, <3>2, <3>3 DEF Cursor
    <3>5. Placed(Cursor, page)'
      BY <1>2, <3>2, <3>4 DEF Placed
    <3> QED
      BY <1>2, <1>3, <1>4, <3>5 DEF CursorFor, Drawing
  <2> QED
    BY <1>4, <2>1, CursorTo
<1>10. KeyboardOK'
  BY <1>1, <1>2, KeyboardSame DEF keyVars
<1>11. ContentOK'
  BY <1>1, <1>2, ContentSame DEF keyVars
<1> QED
  BY <1>8, <1>9, <1>10, <1>11 DEF IInv

-----------------------------------------------------------------------------
(* The steps that draw.                                                    *)

\* Any character, wherever the cursor is.
LEMMA DrawnTypes ==
  ASSUME NEW s, Screens(s)
  PROVE  DOMAIN s.cells = 0 .. Limit - 1 /\ s.bx \in 0 .. Word - 1 /\ s.fault \in BOOLEAN
<1>1. PICK c, b : /\ DOMAIN c = 0 .. Limit - 1 /\ b \in 0 .. Word - 1
                  /\ s = Good(c, b) \/ s = Bad(c, b)
  BY DEF Screens
<1>2. CASE s = Good(c, b)
  BY <1>1, <1>2 DEF Good, Screen
<1>3. CASE s = Bad(c, b)
  BY <1>1, <1>3 DEF Bad, Screen
<1> QED
  BY <1>1, <1>2, <1>3

\* s is what is drawn from c and b, n the page d with it.
DrawnRight(c, b, d, s, n, same) ==
  /\ DOMAIN s.cells = 0 .. Limit - 1 /\ Placed(s.bx, n)
  /\ s.fault => s.cells = c /\ s.bx = b /\ n.p = n.top * Cols
  /\ same /\ Shown(c, d) => Shown(s.cells, n)

LEMMA DrawsRight ==
  ASSUME NEW c, DOMAIN c = 0 .. Limit - 1, NEW b, NEW d, Placed(b, d), NEW x, NEW y, Alike(x, y),
         NEW s, s = Drawn(Good(c, b), x), NEW n, n = IF s.fault THEN d ELSE PageAfter(d, y)
  PROVE  DrawnRight(c, b, d, s, n, x = y) /\ (x # BS => ~s.fault)
<1>1. Draws(c, b, x, d, y)
  BY DrawnFollows
<1>2. CASE x = BS /\ b = 0 /\ Drawn(Good(c, b), x) = Bad(c, b)
  <2>1. s = Bad(c, b)
    BY <1>2
  <2>2. s.cells = c /\ s.bx = b /\ s.fault
    BY <2>1 DEF Bad, Screen
  <2>3. n = d
    BY <2>2
  <2>4. d.top * Cols \in Nat
    BY Lines DEF Placed
  <2>5. d.p = d.top * Cols
    <3> DEFINE T == d.top * Cols
    <3>1. d.p = T + b /\ T \in Nat
      BY <2>4 DEF Placed
    <3> HIDE DEF T
    <3>2. d.p = T
      BY <1>2, <3>1
    <3> QED
      BY <3>2 DEF T
  <2> QED
    BY <1>2, <2>2, <2>3, <2>5 DEF DrawnRight
<1>3. CASE \E c2, b2 : /\ Drawn(Good(c, b), x) = Good(c2, b2)
                       /\ Follow(c, d, c2, b2, PageAfter(d, y), IF x = y THEN 1 ELSE 0)
  <2>1. PICK c2, b2 : /\ Drawn(Good(c, b), x) = Good(c2, b2)
                      /\ Follow(c, d, c2, b2, PageAfter(d, y), IF x = y THEN 1 ELSE 0)
    BY <1>3
  <2>2. s.cells = c2 /\ s.bx = b2 /\ ~s.fault
    BY <2>1 DEF Good, Screen
  <2>3. n = PageAfter(d, y)
    BY <2>2
  <2>4. Follow(c, d, c2, b2, n, IF x = y THEN 1 ELSE 0)
    BY <2>1, <2>3
  <2> QED
    BY <2>2, <2>4 DEF DrawnRight, Follow
<1> QED
  BY <1>1, <1>2, <1>3 DEF Draws
LEMMA StepDraw ==
  ASSUME IInv, NEW t \in Threads, Draw(t)
  PROVE  IInv'
<1>1. StateOK /\ KeyboardOK /\ CursorOK /\ ContentOK
  BY DEF IInv
<1> DEFINE c == Head(text[t][1])
           s == Drawn(Good(cells, bx[t]), c)
<1>2. /\ Goes(t, "draw", "set")
      /\ cells' = s.cells /\ bx' = [bx EXCEPT ![t] = s.bx] /\ halted' = s.fault
      /\ page' = (IF s.fault THEN page ELSE PageAfter(page, c))
      /\ UNCHANGED <<keys, lockVars, text, reg, index, kb, keyVars, mixed>>
  BY DEF Draw, Good
<1>3. "set" \in Pcs \ {"idle"} /\ "set" \in Pcs /\ "draw" # "idle"
  BY DEF Pcs, Resting, Drawing
<1>4. /\ pc[t] = "draw" /\ pc'[t] = "set" /\ ~halted
      /\ \A u \in Threads \ {t} : pc[u] = "idle" /\ pc'[u] = "idle"
  BY <1>1, <1>2, <1>3, PcGoes
<1>5. bx \in [Threads -> 0 .. Word - 1] /\ bx[t] \in 0 .. Word - 1 /\ DOMAIN cells = 0 .. Limit - 1
  BY <1>1 DEF StateOK
<1>6. Screens(s)
  <2>1. Screens(Good(cells, bx[t]))
    BY <1>5 DEF Screens
  <2> QED
    BY <2>1, DrawnKeeps
<1>7. DOMAIN s.cells = 0 .. Limit - 1 /\ s.bx \in 0 .. Word - 1 /\ s.fault \in BOOLEAN
  BY <1>6, DrawnTypes
<1>8. ASSUME ~mixed, Placed(bx[t], page) PROVE DrawnRight(cells, bx[t], page, s, page', TRUE)
  <2>1. Alike(c, c)
    BY DEF Alike
  <2> DEFINE b == bx[t]
             n == page'
  <2>2. Placed(b, page) /\ s = Drawn(Good(cells, b), c) /\ n = IF s.fault THEN page ELSE PageAfter(page, c)
    BY <1>2, <1>8
  <2> HIDE DEF b, n, s, c
  <2>3. DrawnRight(cells, b, page, s, n, c = c)
    BY <1>5, <2>1, <2>2, DrawsRight
  <2>4. (c = c) = TRUE
    OBVIOUS
  <2> QED
    BY <2>3, <2>4 DEF b, n
<1> DEFINE w == s.bx
<1>9. w \in 0 .. Word - 1 /\ bx' = [bx EXCEPT ![t] = w]
      /\ ("set" \in {"read_lo", "in_lo"} => \E hi \in 0 .. Byte - 1 : w = hi * Byte)
  BY <1>2, <1>7
<1> HIDE DEF s, c
<1>10. StateOK'
  <2>1. /\ (DOMAIN cells = 0 .. Limit - 1)' /\ (reg \in [{"hi", "lo"} -> 0 .. Byte - 1])'
        /\ (index \in {"hi", "lo"})' /\ halted' \in BOOLEAN
        /\ UNCHANGED <<keys, held, owner, masked, kb, lamp, mixed, shared, repeated>>
    BY <1>1, <1>2, <1>7 DEF StateOK, lockVars, keyVars
  <2> HIDE DEF w
  <2> QED
    BY <1>1, <1>2, <1>3, <1>9, <2>1, StateGoes
<1>11. ASSUME ~mixed' PROVE DrawnRight(cells, bx[t], page, s, page', TRUE)
  <2>1. CursorFor(t)
    BY <1>1, <1>2, <1>4, <1>11, CursorFrom
  <2>2. Placed(bx[t], page)
    BY <1>4, <2>1 DEF CursorFor, Drawing
  <2> QED
    BY <1>2, <1>8, <1>11, <2>2
<1>12. CursorOK'
  <2>1. ASSUME ~mixed' PROVE CursorFor(t)' /\ (halted' => AtCorner')
    <3>1. Placed(s.bx, page') /\ (s.fault => page'.p = page'.top * Cols)
      BY <1>11, <2>1 DEF DrawnRight
    <3>2. bx'[t] = s.bx
      BY <1>5, <1>9
    <3>3. Placed(bx[t], page)'
      BY <3>1, <3>2 DEF Placed
    <3>4. halted' => AtCorner'
      BY <1>2, <3>1 DEF AtCorner
    <3> QED
      BY <1>4, <3>3, <3>4 DEF CursorFor, Drawing
  <2> QED
    BY <1>4, <2>1, CursorTo
<1>13. ContentOK'
  <2>1. ASSUME ~mixed', ~shared', ~repeated' PROVE Shown(cells, page)'
    <3>1. Shown(cells, page)
      BY <1>1, <1>2, <2>1 DEF ContentOK, keyVars
    <3>2. Shown(s.cells, page')
      BY <1>11, <2>1, <3>1 DEF DrawnRight
    <3> QED
      BY <1>2, <3>2 DEF Shown
  <2> QED
    BY <2>1 DEF ContentOK
<1>14. KeyboardOK'
  BY <1>1, <1>2, KeyboardSame DEF keyVars
<1> QED
  BY <1>10, <1>12, <1>13, <1>14 DEF IInv

\* What the handler draws, in place of a thread or within its put_char.
LEMMA EchoKeeps ==
  ASSUME IInv, KeyboardOK', kb' \in Flags, UNCHANGED <<keys, lockVars, threadVars, held, lamp, shared, repeated>>,
         NEW s, DOMAIN s.cells = 0 .. Limit - 1, s.bx \in 0 .. Word - 1, s.fault \in BOOLEAN,
         cells' = s.cells, halted' = s.fault, index' = "lo",
         reg' = (IF s.fault THEN reg ELSE [hi |-> s.bx \div Byte, lo |-> s.bx % Byte]),
         mixed' = (mixed \/ \E t \in Threads : pc[t] \notin {"idle", "read", "done"}),
         NEW same, Placed(Cursor, page) => DrawnRight(cells, Cursor, page, s, page', same),
         ~shared /\ ~repeated => same
  PROVE  IInv'
<1>1. StateOK /\ KeyboardOK /\ CursorOK /\ ContentOK
  BY DEF IInv
<1>2. s.bx \div Byte \in 0 .. Byte - 1 /\ s.bx % Byte \in 0 .. Byte - 1 /\ (s.bx \div Byte) * Byte + (s.bx % Byte) = s.bx
  BY Split
<1>3. reg' \in [{"hi", "lo"} -> 0 .. Byte - 1]
  <2>1. CASE s.fault
    BY <1>1, <2>1 DEF StateOK
  <2>2. CASE ~s.fault
    <3> DEFINE q == s.bx \div Byte
               r == s.bx % Byte
    <3>1. reg' = [hi |-> q, lo |-> r] /\ q \in 0 .. Byte - 1 /\ r \in 0 .. Byte - 1
      BY <1>2, <2>2
    <3> HIDE DEF q, r
    <3> QED
      BY <3>1
  <2> QED
    BY <2>1, <2>2
<1>4. StateOK'
  BY <1>1, <1>3 DEF StateOK, lockVars, threadVars
<1>5. ASSUME ~mixed' PROVE ~mixed /\ \A t \in Threads : pc[t] \in Resting
  BY <1>5 DEF Resting
<1>6. ASSUME ~mixed' PROVE DrawnRight(cells, Cursor, page, s, page', same)
  BY <1>1, <1>5, <1>6 DEF CursorOK, Resting, Drawing
<1>7. CursorOK'
  <2> SUFFICES ASSUME ~mixed' PROVE CursorOK'
    BY DEF CursorOK
  <2>1. /\ Placed(s.bx, page')
        /\ s.fault => s.bx = Cursor /\ page'.p = page'.top * Cols
    BY <1>6 DEF DrawnRight
  <2>2. \A t \in Threads : pc'[t] \in {"idle", "read", "done"}
    BY <1>5 DEF threadVars, Resting
  <2>3. Cursor' = s.bx
    <3>1. CASE s.fault
      BY <2>1, <3>1 DEF Cursor
    <3>2. CASE ~s.fault
      <4> DEFINE q == s.bx \div Byte
                 r == s.bx % Byte
      <4>1. reg' = [hi |-> q, lo |-> r] /\ q * Byte + r = s.bx
        BY <1>2, <3>2
      <4> HIDE DEF q, r
      <4>2. reg'["hi"] = q /\ reg'["lo"] = r
        BY <4>1
      <4> QED
        BY <4>1, <4>2 DEF Cursor
    <3> QED
      BY <3>1, <3>2
  <2>4. Placed(Cursor, page)'
    BY <2>1, <2>3 DEF Placed
  <2>5. halted' => AtCorner'
    BY <2>1 DEF AtCorner
  <2> QED
    BY <2>2, <2>4, <2>5 DEF CursorOK, Drawing
<1>8. ContentOK'
  <2>1. ASSUME ~mixed', ~shared', ~repeated' PROVE Shown(cells, page)'
    <3>1. Shown(cells, page) /\ same
      BY <1>1, <1>5, <2>1 DEF ContentOK
    <3>2. Shown(s.cells, page')
      BY <1>6, <2>1, <3>1 DEF DrawnRight
    <3> QED
      BY <3>2 DEF Shown
  <2> QED
    BY <2>1 DEF ContentOK
<1> QED
  BY <1>4, <1>7, <1>8 DEF IInv
\* The handler cannot tell two keys apart that have one code.
LEMMA KeyIs ==
  ASSUME held \subseteq Keys, kb \in Flags, NEW k \in held, LastByte(k, Code[k])
  PROVE  k = CHOOSE j \in held : Code[j] = Head(port) /\ (kb.ext = (Len(Bytes(j, 0)) = 2))
<1>1. \A j \in held : (Len(Bytes(j, 0)) = 2) = (j \in Far)
  <2> SUFFICES ASSUME NEW j \in held PROVE (Len(Bytes(j, 0)) = 2) = (j \in Far)
    OBVIOUS
  <2>1. CASE j \in Far
    <3>1. Bytes(j, 0) = <<Prefix, 0>>
      BY <2>1 DEF Bytes, Far
    <3> QED
      BY <2>1, <3>1
  <2>2. CASE j \notin Far
    <3>1. Bytes(j, 0) = <<0>>
      BY <2>2 DEF Bytes, Far
    <3> QED
      BY <2>2, <3>1
  <2> QED
    BY <2>1, <2>2
<1>2. Head(port) = Code[k] /\ kb.ext = (k \in Far)
  <2>1. Head(port) = Code[k]
    BY DEF LastByte
  <2>2. kb.ext \in BOOLEAN
    BY DEF Flags
  <2>3. kb.ext = (k \in Far)
    BY <2>2 DEF LastByte
  <2> QED
    BY <2>1, <2>3
<1> DEFINE P(j) == Code[j] = Head(port) /\ (kb.ext = (Len(Bytes(j, 0)) = 2))
<1>3. P(k)
  BY <1>1, <1>2
<1>4. \A j \in held : P(j) => j = k
  <2> SUFFICES ASSUME NEW j \in held, P(j) PROVE j = k
    OBVIOUS
  <2>1. Code[j] = Code[k] /\ (j \in Far <=> k \in Far) /\ j \in Keys /\ k \in Keys
    BY <1>1, <1>2
  <2> QED
    BY <2>1, Codes
<1> HIDE DEF P
<1>5. k = CHOOSE j \in held : P(j)
  BY <1>3, <1>4
<1> QED
  BY <1>5 DEF P

LEMMA StepKeyChar ==
  ASSUME IInv, KeyChar
  PROVE  IInv'
<1>1. StateOK /\ KeyboardOK /\ CursorOK /\ ContentOK
  BY DEF IInv
<1>2. /\ Interrupted /\ Head(port) # Prefix /\ ~IsBreak /\ IsKnown /\ Char # ""
      /\ kb' = [kb EXCEPT !.ext = FALSE] /\ Echo(<<Char>>) /\ port' = Tail(port)
      /\ UNCHANGED <<keys, lockVars, threadVars, held, last, lamp, echoes, shared, repeated>>
  BY DEF KeyChar, Read
<1>3. /\ keys \subseteq Keys /\ held \subseteq keys /\ held \subseteq Keys /\ kb \in Flags /\ lamp \in BOOLEAN
      /\ DOMAIN cells = 0 .. Limit - 1 /\ reg \in [{"hi", "lo"} -> 0 .. Byte - 1]
  BY <1>1 DEF StateOK
<1>4. PICK k \in held : LastByte(k, Code[k]) /\ FlagsBut({k}) /\ Tail(port) = << >>
  BY <1>1, <1>2, <1>3, MakeIn
<1>5. k \in Keys
  BY <1>3
<1>6. k \in {"a", "one", "enter", "bksp"}
  <2>1. k \notin {"up", "f1"}
    BY <1>2, <1>4, <1>5, MakeScan
  <2>2. k \in Keys \ {"a", "one", "enter", "bksp", "up", "f1"} => Char = ""
    BY <1>3, <1>4, <1>5, CharOf
  <2> QED
    BY <1>2, <1>5, <2>1, <2>2
<1> DEFINE x == Char
           y == Meaning(k)[1]
<1>7. Meaning(k) = <<y>> /\ Alike(x, y) /\ ((kb.shift <=> Down(Shifts)) /\ (kb.caps <=> lamp) => x = y)
  BY <1>3, <1>4, <1>5, <1>6, CharOf
<1>8. ~shared /\ ~repeated => x = y
  <2>1. k \notin Shifts /\ k # "caps"
    BY <1>6 DEF Shifts
  <2>2. (~shared => kb.shift = Down(Shifts)) /\ (~repeated => (kb.caps = lamp) = (k # "caps"))
    BY <1>4, <2>1, FlagsOthers
  <2> QED
    BY <1>7, <2>1, <2>2
<1>9. KeyboardOK' /\ kb' \in Flags
  <2>1. k \in {"a", "one", "enter", "bksp", "up", "f1"}
    BY <1>6
  <2> QED
    BY <1>1, <1>2, <1>3, <1>4, <2>1, KeyboardEcho, FlagsOfChar
<1> DEFINE s == Drawn(Good(cells, Cursor), x)
<1>10. /\ cells' = s.cells /\ halted' = s.fault /\ index' = "lo"
       /\ reg' = (IF s.fault THEN reg ELSE [hi |-> s.bx \div Byte, lo |-> s.bx % Byte])
       /\ page' = (IF s.fault THEN page ELSE PageAfter(page, y))
       /\ mixed' = (mixed \/ \E t \in Threads : pc[t] \notin {"idle", "read", "done"})
  <2>1. Screen(cells, reg.hi * Byte + reg.lo, FALSE) = Good(cells, Cursor)
    BY DEF Good, Cursor
  <2>2. DrawnAll(Good(cells, Cursor), <<x>>) = s
    BY DEF DrawnAll
  <2>3. PageAfterAll(page, <<y>>) = PageAfter(page, y)
    BY DEF PageAfterAll
  <2>4. k = CHOOSE j \in held : Code[j] = Head(port) /\ (kb.ext = (Len(Bytes(j, 0)) = 2))
    BY <1>3, <1>4, KeyIs
  <2> DEFINE key == CHOOSE j \in held : Code[j] = Head(port) /\ (kb.ext = (Len(Bytes(j, 0)) = 2))
             w == DrawnAll(Screen(cells, reg.hi * Byte + reg.lo, FALSE), <<x>>)
  <2>5. /\ cells' = w.cells /\ halted' = w.fault /\ index' = "lo"
        /\ reg' = (IF w.fault THEN reg ELSE [hi |-> w.bx \div Byte, lo |-> w.bx % Byte])
        /\ page' = (IF w.fault THEN page ELSE PageAfterAll(page, Meaning(key)))
        /\ mixed' = (mixed \/ \E t \in Threads : pc[t] \notin {"idle", "read", "done"})
    BY <1>2 DEF Echo
  <2>6. w = s
    BY <2>1, <2>2
  <2>7. PageAfterAll(page, Meaning(key)) = PageAfter(page, y)
    BY <1>7, <2>3, <2>4
  <2> HIDE DEF w, s, key, y
  <2> QED
    BY <2>5, <2>6, <2>7
<1>11. Cursor \in 0 .. Word - 1
  BY <1>3, TwoBytes DEF Cursor
<1>12. Screens(s)
  <2>1. Screens(Good(cells, Cursor))
    BY <1>3, <1>11 DEF Screens
  <2> QED
    BY <2>1, DrawnKeeps
<1>13. DOMAIN s.cells = 0 .. Limit - 1 /\ s.bx \in 0 .. Word - 1 /\ s.fault \in BOOLEAN
  BY <1>12, DrawnTypes
<1> DEFINE n == page'
<1>14. s = Drawn(Good(cells, Cursor), x) /\ n = IF s.fault THEN page ELSE PageAfter(page, y)
  BY <1>10
<1> HIDE DEF s, n, x, y
<1>15. Placed(Cursor, page) => DrawnRight(cells, Cursor, page, s, n, x = y)
  BY <1>3, <1>7, <1>14, DrawsRight
<1> DEFINE same == x = y
<1>16. (Placed(Cursor, page) => DrawnRight(cells, Cursor, page, s, page', same)) /\ (~shared /\ ~repeated => same)
  BY <1>8, <1>15 DEF n
<1> HIDE DEF same
<1> QED
  BY <1>2, <1>9, <1>10, <1>13, <1>16, EchoKeeps
\* The two characters of a line.
LEMMA DrawsLine ==
  ASSUME NEW c, DOMAIN c = 0 .. Limit - 1, NEW b \in 0 .. Word - 1, NEW d, NEW x, x # BS
  PROVE  LET s == Drawn(Drawn(Good(c, b), x), NL) IN
           /\ DOMAIN s.cells = 0 .. Limit - 1 /\ s.bx \in 0 .. Word - 1 /\ s.fault \in BOOLEAN
           /\ Placed(b, d) => /\ ~s.fault
                              /\ DrawnRight(c, b, d, s, PageAfter(PageAfter(d, x), NL), TRUE)
<1> DEFINE v == Drawn(Good(c, b), x)
           s == Drawn(v, NL)
           m == PageAfter(d, x)
           n == PageAfter(m, NL)
<1>1. Screens(v)
  <2>1. Screens(Good(c, b))
    BY DEF Screens
  <2> QED
    BY <2>1, DrawnKeeps
<1>2. Screens(s)
  BY <1>1, DrawnKeeps
<1>3. DOMAIN s.cells = 0 .. Limit - 1 /\ s.bx \in 0 .. Word - 1 /\ s.fault \in BOOLEAN
  BY <1>2, DrawnTypes
<1>4. ASSUME Placed(b, d) PROVE ~s.fault /\ DrawnRight(c, b, d, s, n, TRUE)
  <2> DEFINE m1 == IF v.fault THEN d ELSE m
  <2>1. Alike(x, x) /\ Alike(NL, NL)
    BY DEF Alike
  <2>2. DrawnRight(c, b, d, v, m1, x = x) /\ ~v.fault
    BY <1>4, <2>1, DrawsRight
  <2>3. DrawnRight(c, b, d, v, m, TRUE)
    BY <2>2
  <2> DEFINE p == v.cells
             q == v.bx
  <2>4. v = Good(p, q)
    <3>1. PICK e, f : v = Good(e, f) \/ v = Bad(e, f)
      BY <1>1 DEF Screens
    <3>2. v = Good(e, f)
      BY <2>2, <3>1 DEF Bad, Screen
    <3> HIDE DEF v
    <3>3. p = e /\ q = f
      BY <3>2 DEF Good, Screen
    <3> QED
      BY <3>2, <3>3
  <2>5. DOMAIN p = 0 .. Limit - 1 /\ Placed(q, m) /\ (Shown(c, d) => Shown(p, m))
    BY <2>3 DEF DrawnRight
  <2> DEFINE n1 == IF s.fault THEN m ELSE PageAfter(m, NL)
  <2>6. s = Drawn(Good(p, q), NL)
    BY <2>4
  <2> HIDE DEF p, q, s, m, v
  <2>7. DrawnRight(p, q, m, s, n1, NL = NL) /\ ~s.fault
    BY <2>1, <2>5, <2>6, Strings, DrawsRight
  <2>8. DrawnRight(p, q, m, s, n, TRUE)
    BY <2>7
  <2> HIDE DEF n, n1
  <2> QED
    BY <2>5, <2>7, <2>8 DEF DrawnRight
<1> QED
  BY <1>3, <1>4

LEMMA StepKeyUnknown ==
  ASSUME IInv, KeyUnknown
  PROVE  IInv'
<1>1. StateOK /\ KeyboardOK /\ CursorOK /\ ContentOK
  BY DEF IInv
<1>2. /\ Interrupted /\ Head(port) # Prefix /\ ~IsBreak /\ ~IsKnown
      /\ kb' = [kb EXCEPT !.ext = FALSE] /\ Echo(Unknown) /\ port' = Tail(port)
      /\ UNCHANGED <<keys, lockVars, threadVars, held, last, lamp, echoes, shared, repeated>>
  BY DEF KeyUnknown, Read
<1>3. /\ keys \subseteq Keys /\ held \subseteq keys /\ held \subseteq Keys /\ kb \in Flags
      /\ DOMAIN cells = 0 .. Limit - 1 /\ reg \in [{"hi", "lo"} -> 0 .. Byte - 1]
  BY <1>1 DEF StateOK
<1>4. PICK k \in held : LastByte(k, Code[k]) /\ FlagsBut({k}) /\ Tail(port) = << >>
  BY <1>1, <1>2, <1>3, MakeIn
<1>5. k \in Keys
  BY <1>3
<1>6. k \in {"up", "f1"}
  BY <1>2, <1>4, <1>5, MakeScan
<1>7. KeyboardOK' /\ kb' \in Flags
  <2>1. k \in {"a", "one", "enter", "bksp", "up", "f1"}
    BY <1>6
  <2> QED
    BY <1>1, <1>2, <1>3, <1>4, <2>1, KeyboardEcho, FlagsOfChar
<1> DEFINE x == "unknown key"
           s == Drawn(Drawn(Good(cells, Cursor), x), NL)
           n == PageAfter(PageAfter(page, x), NL)
<1>8. /\ cells' = s.cells /\ halted' = s.fault /\ index' = "lo"
      /\ reg' = (IF s.fault THEN reg ELSE [hi |-> s.bx \div Byte, lo |-> s.bx % Byte])
      /\ page' = (IF s.fault THEN page ELSE n)
      /\ mixed' = (mixed \/ \E t \in Threads : pc[t] \notin {"idle", "read", "done"})
  <2>1. Screen(cells, reg.hi * Byte + reg.lo, FALSE) = Good(cells, Cursor)
    BY DEF Good, Cursor
  <2>2. Len(Unknown) # 1 /\ Unknown[1] = x /\ Unknown[2] = NL
    BY DEF Unknown
  <2>3. DrawnAll(Good(cells, Cursor), Unknown) = s
    BY <2>2 DEF DrawnAll
  <2>4. PageAfterAll(page, Unknown) = n
    BY <2>2 DEF PageAfterAll
  <2>5. k = CHOOSE j \in held : Code[j] = Head(port) /\ (kb.ext = (Len(Bytes(j, 0)) = 2))
    BY <1>3, <1>4, KeyIs
  <2>6. Meaning(k) = Unknown
    BY <1>6 DEF Meaning
  <2> DEFINE key == CHOOSE j \in held : Code[j] = Head(port) /\ (kb.ext = (Len(Bytes(j, 0)) = 2))
             w == DrawnAll(Screen(cells, reg.hi * Byte + reg.lo, FALSE), Unknown)
  <2>7. /\ cells' = w.cells /\ halted' = w.fault /\ index' = "lo"
        /\ reg' = (IF w.fault THEN reg ELSE [hi |-> w.bx \div Byte, lo |-> w.bx % Byte])
        /\ page' = (IF w.fault THEN page ELSE PageAfterAll(page, Meaning(key)))
        /\ mixed' = (mixed \/ \E t \in Threads : pc[t] \notin {"idle", "read", "done"})
    BY <1>2 DEF Echo
  <2>8. w = s
    BY <2>1, <2>3
  <2>9. PageAfterAll(page, Meaning(key)) = n
    BY <2>4, <2>5, <2>6
  <2> HIDE DEF w, s, key, n
  <2> QED
    BY <2>7, <2>8, <2>9
<1>9. Cursor \in 0 .. Word - 1 /\ x # BS
  <2>1. Cursor \in 0 .. Word - 1
    BY <1>3, TwoBytes DEF Cursor
  <2>2. x # BS
    BY DEF BS
  <2> QED
    BY <2>1, <2>2
<1>10. /\ DOMAIN s.cells = 0 .. Limit - 1 /\ s.bx \in 0 .. Word - 1 /\ s.fault \in BOOLEAN
       /\ Placed(Cursor, page) => ~s.fault /\ DrawnRight(cells, Cursor, page, s, n, TRUE)
  <2> DEFINE b == Cursor
  <2>1. b \in 0 .. Word - 1
    BY <1>9
  <2> HIDE DEF b, x
  <2>2. /\ DOMAIN Drawn(Drawn(Good(cells, b), x), NL).cells = 0 .. Limit - 1
        /\ Drawn(Drawn(Good(cells, b), x), NL).bx \in 0 .. Word - 1
        /\ Drawn(Drawn(Good(cells, b), x), NL).fault \in BOOLEAN
        /\ Placed(b, page) => /\ ~Drawn(Drawn(Good(cells, b), x), NL).fault
                              /\ DrawnRight(cells, b, page, Drawn(Drawn(Good(cells, b), x), NL), n, TRUE)
    BY <1>3, <1>9, <2>1, DrawsLine
  <2> QED
    BY <2>2 DEF b
<1> HIDE DEF s, n
<1>11. Placed(Cursor, page) => DrawnRight(cells, Cursor, page, s, page', TRUE)
  BY <1>8, <1>10
<1> QED
  BY <1>2, <1>7, <1>8, <1>10, <1>11, EchoKeeps
\* The other steps of the handler.
LEMMA StepHandler ==
  ASSUME IInv, KeyPrefix \/ KeyUp \/ KeyFlag
  PROVE  IInv'
<1>1. StateOK /\ KeyboardOK /\ CursorOK /\ ContentOK
  BY DEF IInv
<1>2. UNCHANGED <<keys, lockVars, threadVars, held, last, lamp, echoes, shared, repeated, screenVars, mixed>>
  <2>1. CASE KeyPrefix
    BY <2>1 DEF KeyPrefix, Read
  <2>2. CASE KeyUp
    BY <2>2 DEF KeyUp, Read
  <2>3. CASE KeyFlag
    BY <2>3 DEF KeyFlag, Read
  <2> QED
    BY <2>1, <2>2, <2>3
<1>3. kb \in Flags
  BY <1>1 DEF StateOK
<1>4. KeyboardOK' /\ kb' \in Flags
  <2>1. CASE KeyPrefix
    BY <1>1, <1>3, <2>1, KeyboardPrefix, FlagsOfPrefix
  <2>2. CASE KeyUp
    BY <1>1, <1>3, <2>2, KeyboardUp, FlagsOfUp
  <2>3. CASE KeyFlag
    BY <1>1, <1>3, <2>3, KeyboardFlag, FlagsOfFlag
  <2> QED
    BY <2>1, <2>2, <2>3
<1>5. StateOK'
  BY <1>1, <1>2, <1>4 DEF StateOK, lockVars, threadVars, screenVars
<1>6. CursorOK'
  BY <1>1, <1>2 DEF CursorOK, Placed, Cursor, AtCorner, Drawing, threadVars, screenVars
<1>7. ContentOK'
  BY <1>1, <1>2, ContentSame DEF screenVars
<1> QED
  BY <1>4, <1>5, <1>6, <1>7 DEF IInv

\* The keyboard's own.
LEMMA StepKeyboard ==
  ASSUME IInv, (\E k \in keys : Press(k)) \/ (\E k \in keys : LetGo(k)) \/ Repeat
  PROVE  IInv'
<1>1. StateOK /\ KeyboardOK /\ CursorOK /\ ContentOK
  BY DEF IInv
<1>2. /\ UNCHANGED <<keys, lockVars, threadVars, screenVars, kb, mixed>>
      /\ held' \subseteq keys /\ lamp' \in BOOLEAN
      /\ shared' \in BOOLEAN /\ repeated' \in BOOLEAN /\ (shared => shared') /\ (repeated => repeated')
  <2>1. CASE \E k \in keys : Press(k)
    <3>1. PICK k \in keys : Press(k)
      BY <2>1
    <3>2. lamp \in BOOLEAN /\ held \subseteq keys /\ shared \in BOOLEAN /\ repeated \in BOOLEAN
      BY <1>1 DEF StateOK
    <3>3. UNCHANGED <<keys, lockVars, threadVars, screenVars, kb, mixed, shared, repeated>> /\ held' = held \cup {k}
      BY <3>1 DEF Press, Quiet
    <3>4. lamp' = IF k = "caps" THEN ~lamp ELSE lamp
      BY <3>1 DEF Press
    <3>5. lamp' \in BOOLEAN
      BY <3>2, <3>4
    <3> QED
      BY <3>2, <3>3, <3>5
  <2>2. CASE \E k \in keys : LetGo(k)
    BY <1>1, <2>2 DEF LetGo, Quiet, StateOK
  <2>3. CASE Repeat
    BY <1>1, <2>3 DEF Repeat, Quiet, StateOK
  <2> QED
    BY <2>1, <2>2, <2>3
<1>3. KeyboardOK'
  BY <1>1, KeyboardPress, KeyboardLetGo, KeyboardRepeat
<1>4. StateOK'
  BY <1>1, <1>2 DEF StateOK, lockVars, threadVars, screenVars
<1>5. CursorOK'
  BY <1>1, <1>2 DEF CursorOK, Placed, Cursor, AtCorner, Drawing, threadVars, screenVars
<1>6. ContentOK'
  BY <1>1, <1>2, ContentSame DEF screenVars
<1> QED
  BY <1>3, <1>4, <1>5, <1>6 DEF IInv

LEMMA StepIdle ==
  ASSUME IInv, UNCHANGED vars
  PROVE  IInv'
<1>1. StateOK /\ KeyboardOK /\ CursorOK /\ ContentOK
  BY DEF IInv
<1>2. UNCHANGED <<keys, lockVars, threadVars, screenVars, kb, keyVars, mixed>>
  BY DEF vars
<1>3. KeyboardOK'
  BY <1>1, <1>2, KeyboardSame DEF keyVars
<1>4. StateOK'
  BY <1>1, <1>2 DEF StateOK, lockVars, threadVars, screenVars, keyVars
<1>5. CursorOK'
  BY <1>1, <1>2 DEF CursorOK, Placed, Cursor, AtCorner, Drawing, threadVars, screenVars
<1>6. ContentOK'
  BY <1>1, <1>2, ContentSame DEF screenVars, keyVars
<1> QED
  BY <1>3, <1>4, <1>5, <1>6 DEF IInv

LEMMA FirstState ==
  ASSUME Init
  PROVE  IInv
<1>1. PICK s \in Scenarios : /\ keys = s.keys
                             /\ reg = [hi |-> s.at \div Byte, lo |-> s.at % Byte]
                             /\ page = [tape |-> << >>, p |-> s.at, top |-> 0]
  BY DEF Init
<1> DEFINE a == s.at
           q == a \div Byte
           r == a % Byte
<1>2. keys \subseteq Keys /\ a \in 0 .. Size - 1
  BY <1>1, KeysKnown, ScenarioAssumption
<1>3. q \in 0 .. Byte - 1 /\ r \in 0 .. Byte - 1 /\ q * Byte + r = a
  <2>1. a \in 0 .. Word - 1
    <3> HIDE DEF Size, Limit, Word
    <3> QED
      BY <1>2, Sizes
  <2> QED
    BY <2>1, Split
<1>4. reg = [hi |-> q, lo |-> r] /\ page = [tape |-> << >>, p |-> a, top |-> 0]
  BY <1>1
<1> HIDE DEF a, q, r
<1>5. reg \in [{"hi", "lo"} -> 0 .. Byte - 1] /\ Cursor = a
  BY <1>3, <1>4 DEF Cursor
<1>6. /\ pc = [t \in Threads |-> "idle"] /\ bx = [t \in Threads |-> 0]
      /\ owner = [l \in {"console"} |-> NoThread] /\ masked = NoThread
      /\ cells = [i \in 0 .. Limit - 1 |-> Blank] /\ index = "lo" /\ halted = FALSE
      /\ kb = [ctrl |-> FALSE, shift |-> FALSE, alt |-> FALSE, caps |-> FALSE, ext |-> FALSE]
      /\ port = << >> /\ held = {} /\ lamp = FALSE
      /\ mixed = FALSE /\ shared = FALSE /\ repeated = FALSE
  BY DEF Init, MutexInit
<1>7. StateOK
  <2>1. 0 \in 0 .. Word - 1
    <3> HIDE DEF Word
    <3> QED
      BY Sizes
  <2>2. bx \in [Threads -> 0 .. Word - 1] /\ pc \in [Threads -> Pcs]
    BY <1>6, <2>1 DEF Pcs, Resting
  <2>3. kb \in Flags
    BY <1>6 DEF Flags
  <2>4. \A t \in Threads : pc[t] = "idle" /\ owner["console"] # t
    BY <1>6, TerminalAssumption
  <2>5. owner \in [{"console"} -> Threads \cup {NoThread}]
    BY <1>6
  <2> QED
    BY <1>2, <1>5, <1>6, <2>2, <2>3, <2>4, <2>5 DEF StateOK
<1>8. KeyboardOK
  BY <1>6 DEF KeyboardOK, FlagsBut, Follows, Down
<1>9. CursorOK
  <2>1. \A t \in Threads : pc[t] = "idle"
    BY <1>6
  <2>2. page.top = 0 /\ page.p = a /\ DOMAIN page.tape = {}
    BY <1>4
  <2>3. Cols \in Nat
    BY Sizes
  <2>4. page.p = page.top * Cols + a
    <3>1. a \in Int /\ 0 * Cols = 0
      BY <1>2, <2>3 DEF a
    <3> QED
      BY <2>2, <3>1
  <2>5. Placed(Cursor, page)
    BY <1>2, <1>5, <2>2, <2>4 DEF Placed, a
  <2> QED
    BY <1>6, <2>1, <2>5 DEF CursorOK, Drawing
<1>10. ContentOK
  <2>1. DOMAIN page.tape = {}
    BY <1>4
  <2>2. \A i \in 0 .. Size - 1 : cells[i] = Blank
    <3>1. \A i \in 0 .. Size - 1 : i \in 0 .. Limit - 1
      <4> HIDE DEF Size, Limit
      <4> QED
        BY Sizes
    <3> QED
      BY <1>6, <3>1
  <2> QED
    BY <2>1, <2>2 DEF ContentOK, Shown
<1> QED
  BY <1>7, <1>8, <1>9, <1>10 DEF IInv

\* IInv is an invariant.
LEMMA Invariant == Spec => []IInv
<1>1. ASSUME Init PROVE IInv
  BY <1>1, FirstState
<1>2. ASSUME IInv, [Next]_vars PROVE IInv'
  <2>1. CASE \E t \in Threads : Acquire(t)
    BY <1>2, <2>1, StepAcquire
  <2>2. CASE \E t \in Threads : Put(t)
    BY <1>2, <2>2, StepSelectHi, StepSelectLo, StepInHi, StepInLo, StepDraw, StepOutHi, StepOutLo, StepRelease DEF Put
  <2>3. CASE Handler
    BY <1>2, <2>3, StepHandler, StepKeyChar, StepKeyUnknown DEF Handler
  <2>4. CASE (\E k \in keys : Press(k)) \/ (\E k \in keys : LetGo(k)) \/ Repeat
    BY <1>2, <2>4, StepKeyboard
  <2>5. CASE UNCHANGED vars
    BY <1>2, <2>5, StepIdle
  <2> QED
    BY <1>2, <2>1, <2>2, <2>3, <2>4, <2>5 DEF Next
<1> QED
  BY <1>1, <1>2, PTL DEF Spec

-----------------------------------------------------------------------------

\* The flags of the keyboard's driver are those of the keys that are down, but for the
\* two known cases; no flag is left set when its keys are up, and no prefix is left over.
THEOREM KeysStayInOrder == Spec => []KeysInOrder
<1>1. ASSUME IInv PROVE KeysInOrder
  <2>1. StateOK /\ KeyboardOK
    BY <1>1 DEF IInv
  <2>2. Len(port) <= 2
    <3>1. ASSUME NEW k, NEW code, Pending(k, code) PROVE Len(port) <= 2
      <4>1. Len(<<Prefix, code>>) = 2 /\ Len(<<code>>) = 1
        OBVIOUS
      <4>2. port = <<Prefix, code>> \/ port = <<code>>
        BY <3>1 DEF Pending, Bytes
      <4>3. Len(port) = 2 \/ Len(port) = 1
        BY <4>1, <4>2, Zenon
      <4> DEFINE n == Len(port)
      <4>4. n = 2 \/ n = 1
        BY <4>3
      <4> HIDE DEF n
      <4>5. n <= 2
        BY <4>4
      <4> QED
        BY <4>5 DEF n
    <3>2. port = << >> => Len(port) <= 2
      OBVIOUS
    <3> QED
      BY <2>1, <3>1, <3>2 DEF KeyboardOK
  <2>3. TypeOK
    BY <2>1, <2>2 DEF TypeOK, StateOK
  <2>4. port = << >> => ~kb.ext /\ FlagsBut({})
    BY <2>1, NothingPending
  <2>5. port = << >> => /\ Follows(kb.shift, Shifts) /\ Follows(kb.ctrl, Ctrls) /\ Follows(kb.alt, Alts)
                        /\ ~repeated => kb.caps = lamp
    BY <2>4 DEF FlagsBut
  <2>6. FlagsFollowKeys
    BY <2>5 DEF FlagsFollowKeys, Follows
  <2> QED
    BY <2>3, <2>4, <2>5, <2>6 DEF KeysInOrder, Follows
<1> QED
  BY <1>1, Invariant, PTL

\* put_char does not fault, and leaves the cursor on the screen: unless a key was echoed
\* inside of a thread's, or for a backspace in the first cell.
THEOREM FaultsAreExplained == Spec => []FaultExplained
<1>1. ASSUME IInv PROVE FaultExplained
  <2>1. CursorOK
    BY <1>1 DEF IInv
  <2> SUFFICES ASSUME ~mixed
               PROVE  /\ halted => AtCorner
                      /\ \A t \in Threads : pc[t] \in {"set", "out_hi"} => bx[t] < Size \/ halted
    BY DEF FaultExplained
  <2>2. ASSUME NEW t \in Threads, pc[t] \in {"set", "out_hi"} PROVE bx[t] < Size
    <3>1. Placed(bx[t], page)
      BY <2>1, <2>2 DEF CursorOK, Drawing
    <3>2. bx[t] \in 0 .. Size - 1 /\ Size \in Nat
      BY <3>1, Sizes DEF Placed
    <3> HIDE DEF Size
    <3> QED
      BY <3>2
  <2> QED
    BY <2>1, <2>2 DEF CursorOK
<1> QED
  BY <1>1, Invariant, PTL

\* Between two characters the screen and the cursor are those of the text that was
\* printed and typed, but for the three known cases.
THEOREM ScreenStaysTrue == Spec => []ScreenShowsText
<1>1. ASSUME IInv PROVE ScreenShowsText
  <2>1. CursorOK /\ ContentOK /\ StateOK
    BY <1>1 DEF IInv
  <2> SUFFICES ASSUME ~mixed, ~shared, ~repeated, ~halted, \A t \in Threads : pc[t] \in {"idle", "read", "done"}
               PROVE  /\ reg.hi * Byte + reg.lo = page.p - page.top * Cols
                      /\ \A i \in 0 .. Size - 1 :
                           LET j == page.top * Cols + i IN
                             cells[i] = IF j \in DOMAIN page.tape THEN page.tape[j] ELSE Blank
    BY DEF ScreenShowsText
  <2>2. Placed(Cursor, page)
    BY <2>1 DEF CursorOK, Drawing
  <2>3. Shown(cells, page)
    BY <2>1 DEF ContentOK
  <2>4. Cursor = page.p - page.top * Cols
    <3> DEFINE T == page.top * Cols
    <3>1. T \in Nat
      BY <2>2, Lines DEF Placed
    <3>2. page.p = T + Cursor /\ Cursor \in 0 .. Size - 1
      BY <2>2 DEF Placed
    <3>3. Size \in Nat
      BY Sizes
    <3> HIDE DEF T, Size
    <3>4. Cursor = page.p - T
      BY <3>1, <3>2, <3>3
    <3> QED
      BY <3>4 DEF T
  <2>5. Cursor = reg.hi * Byte + reg.lo
    BY DEF Cursor
  <2> QED
    BY <2>3, <2>4, <2>5 DEF Shown
<1> QED
  BY <1>1, Invariant, PTL
=============================================================================
