------------------------------- MODULE Terminal ------------------------------
(***************************************************************************)
(* The screen and the keyboard: put_char of lib/kernel/print.S, the locked *)
(* calls of device/console.c, and the interrupt handler of                 *)
(* device/keyboard.c, which echoes what is typed without the lock.         *)
(*                                                                         *)
(* Of a thread's put_char every access to a port of the display controller *)
(* is a step; the handler runs between any two of them, as a whole, because*)
(* its gate turns interrupts off.  So does that of the write system call:  *)
(* a process that prints is not interrupted.  The lock is Mutex's.         *)
(*                                                                         *)
(* text has the strings of the calls (put_int prints one as put_str does). *)
(***************************************************************************)
EXTENDS Integers, SequencesExt

CONSTANTS
  Threads, NoThread,
  Processes,  \* the threads that print with write
  Cols, Rows, \* 80 and 25
  Byte,       \* 2^8, what a register of the controller holds
  Scenarios,  \* the keys there are, what the threads print, and the cursor at first
  MaxEcho     \* bound on the keys that print

Size == Cols * Rows
Word == Byte * Byte
Limit == Word \div 4 \* cells in the video segment: 2^15 bytes

ASSUME TerminalAssumption ==
  /\ Processes \subseteq Threads /\ NoThread \notin Threads
  /\ {Cols, Rows, Byte, MaxEcho} \subseteq Nat \ {0}
  /\ Byte % 2 = 0
  /\ Size < Limit

NL == "newline"
BS == "backspace"
Blank == " "
Unknown == <<"unknown key", NL>>

VARIABLES
  keys, text,             \* the scenario: the keys, and what each thread has yet to print
  owner, level,
  masked,                 \* the process in a system call, with interrupts off
  pc, bx,                 \* a thread's next step, and its register bx
  cells, reg, index,      \* video memory; the cursor, and the register selected
  halted,                 \* a general protection fault: general_intr_handler's loop
  kb,                     \* ctrl_status, shift_status, alt_status, caps_lock_status, ext_scancode
  port,                   \* bytes the keyboard has yet to send
  held, last,             \* the keys that are down, and the one that repeats
  lamp,                   \* what caps lock should be
  echoes,
  page,                   \* what the screen should show
  mixed, shared, repeated \* what went wrong: see Echo, Release and Repeat

INSTANCE Mutex WITH Locks <- {"console"}

lockVars == <<owner, level, masked>>
threadVars == <<text, pc, bx>>
screenVars == <<cells, reg, index, halted, page>>
keyVars == <<port, held, last, lamp, echoes, shared, repeated>>
vars == <<keys, lockVars, threadVars, screenVars, kb, keyVars, mixed>>

Init ==
  /\ \E s \in Scenarios :
       /\ keys = s.keys /\ text = s.text
       /\ reg = [hi |-> s.at \div Byte, lo |-> s.at % Byte]
       /\ page = [tape |-> << >>, p |-> s.at, top |-> 0]
  /\ MutexInit /\ masked = NoThread
  /\ pc = [t \in Threads |-> "idle"] /\ bx = [t \in Threads |-> 0]
  /\ cells = [i \in 0 .. Limit - 1 |-> Blank]
  /\ index = "lo" /\ halted = FALSE
  /\ kb = [ctrl |-> FALSE, shift |-> FALSE, alt |-> FALSE, caps |-> FALSE, ext |-> FALSE]
  /\ port = <<>> /\ held = {} /\ last = "none" /\ lamp = FALSE /\ echoes = 0
  /\ mixed = FALSE /\ shared = FALSE /\ repeated = FALSE

-----------------------------------------------------------------------------

\* What put_char does between reading and setting the cursor: the video memory, bx,
\* and if a write was outside of the segment.
Screen(c, b, f) == [cells |-> c, bx |-> b, fault |-> f]
Rolled(c) ==
  [i \in DOMAIN c |-> IF i < Size - Cols THEN c[i + Cols] ELSE IF i < Size THEN Blank ELSE c[i]]

\* Mutant: the screen is not rolled.
NewLineNoRoll(c, b) == Screen(c, ((b - (b % Cols)) + Cols) % Word, FALSE)

\* .is_line_feed: the comparison with 2000 is of signed numbers.
NewLine(c, b) ==
  LET next == ((b - (b % Cols)) + Cols) % Word IN
    IF next \in Size .. Word \div 2 - 1
      THEN Screen(Rolled(c), Size - Cols, FALSE) ELSE Screen(c, next, FALSE)

\* The write of a cell: shl and shr of bx lose its top bit.
Show(c, b, at, x) ==
  LET cell == at % (Word \div 2) IN
    IF cell < Limit THEN Screen([c EXCEPT ![cell] = x], cell, FALSE) ELSE Screen(c, b, TRUE)

DrawnOn(c, b, x) ==
  IF x = NL THEN NewLine(c, b)
  ELSE IF x = BS THEN Show(c, b, (b - 1) % Word, Blank)
  ELSE LET s == Show(c, b, b, x) IN
         IF s.fault THEN s
         ELSE IF s.bx + 1 < Size THEN Screen(s.cells, s.bx + 1, FALSE) ELSE NewLine(s.cells, s.bx + 1)
Drawn(s, x) == IF s.fault THEN s ELSE DrawnOn(s.cells, s.bx, x)

\* What the screen should show, as a tape with a window of Rows lines over it.
Typed(tape, i, c) == [j \in DOMAIN tape \cup {i} |-> IF j = i THEN c ELSE tape[j]]
PageAfter(d, c) ==
  LET p == IF c = NL THEN (d.p \div Cols + 1) * Cols ELSE IF c = BS THEN d.p - 1 ELSE d.p + 1
  IN [p    |-> p,
      tape |-> IF c = NL THEN d.tape ELSE IF c = BS THEN Typed(d.tape, p, Blank) ELSE Typed(d.tape, d.p, c),
      top  |-> IF p >= (d.top + Rows) * Cols THEN d.top + 1 ELSE d.top]

\* put_char for the one character or, put_str's, the two of a string.
DrawnAll(s, string) ==
  IF Len(string) = 1 THEN Drawn(s, string[1]) ELSE Drawn(Drawn(s, string[1]), string[2])
PageAfterAll(d, string) ==
  IF Len(string) = 1 THEN PageAfter(d, string[1]) ELSE PageAfter(PageAfter(d, string[1]), string[2])

AtCorner == page.p = page.top * Cols

-----------------------------------------------------------------------------

\* The steps of a thread.
Runs(t) == ~halted /\ masked \in {NoThread, t}
Goes(t, from, to) == Runs(t) /\ pc[t] = from /\ pc' = [pc EXCEPT ![t] = to]

\* Mutant: without console_lock.
AcquireNot(t) ==
  /\ Runs(t) /\ pc[t] = "idle" /\ text[t] # <<>>
  /\ pc' = [pc EXCEPT ![t] = "read"]
  /\ UNCHANGED <<keys, lockVars, text, bx, screenVars, kb, keyVars, mixed>>

\* console_acquire, in the system call if it is a process.
Acquire(t) ==
  /\ Runs(t) /\ pc[t] = "idle" /\ text[t] # <<>>
  /\ Lock(t, "console")
  /\ masked' = IF t \in Processes THEN t ELSE NoThread
  /\ pc' = [pc EXCEPT ![t] = "read"]
  /\ UNCHANGED <<keys, text, bx, screenVars, kb, keyVars, mixed>>

\* out 0x3d4: the register that 0x3d5 gives access to.
SelectHi(t) ==
  /\ Goes(t, "read", "in_hi") \/ Goes(t, "set", "out_hi")
  /\ index' = "hi"
  /\ UNCHANGED <<keys, lockVars, text, bx, cells, reg, halted, page, kb, keyVars, mixed>>

SelectLo(t) ==
  /\ Goes(t, "read_lo", "in_lo") \/ Goes(t, "set_lo", "out_lo")
  /\ index' = "lo"
  /\ UNCHANGED <<keys, lockVars, text, bx, cells, reg, halted, page, kb, keyVars, mixed>>

\* in 0x3d5.
InHi(t) ==
  /\ Goes(t, "in_hi", "read_lo")
  /\ bx' = [bx EXCEPT ![t] = reg[index] * Byte]
  /\ UNCHANGED <<keys, lockVars, text, screenVars, kb, keyVars, mixed>>

InLo(t) ==
  /\ Goes(t, "in_lo", "draw")
  /\ bx' = [bx EXCEPT ![t] = @ + reg[index]]
  /\ UNCHANGED <<keys, lockVars, text, screenVars, kb, keyVars, mixed>>

Draw(t) ==
  /\ Goes(t, "draw", "set")
  /\ LET c == Head(text[t][1])
         s == Drawn(Screen(cells, bx[t], FALSE), c)
     IN /\ cells' = s.cells /\ bx' = [bx EXCEPT ![t] = s.bx] /\ halted' = s.fault
        /\ page' = IF s.fault THEN page ELSE PageAfter(page, c)
  /\ UNCHANGED <<keys, lockVars, text, reg, index, kb, keyVars, mixed>>

\* out 0x3d5.
OutHi(t) ==
  /\ Goes(t, "out_hi", "set_lo")
  /\ reg' = [reg EXCEPT ![index] = bx[t] \div Byte]
  /\ UNCHANGED <<keys, lockVars, text, bx, cells, index, halted, page, kb, keyVars, mixed>>

\* And put_str goes on with the next character.
OutLo(t) ==
  /\ Goes(t, "out_lo", IF Len(text[t][1]) = 1 THEN "done" ELSE "read")
  /\ reg' = [reg EXCEPT ![index] = bx[t] % Byte]
  /\ text' = [text EXCEPT ![t] = IF Len(@[1]) = 1 THEN Tail(@) ELSE <<Tail(@[1])>> \o Tail(@)]
  /\ UNCHANGED <<keys, lockVars, bx, cells, index, halted, page, kb, keyVars, mixed>>

\* Mutant: interrupts stay off.
ReleaseMasked(t) ==
  /\ Goes(t, "done", "idle") /\ Unlock(t, "console")
  /\ UNCHANGED <<keys, masked, text, bx, screenVars, kb, keyVars, mixed>>

\* console_release, and iretd of the system call.
Release(t) ==
  /\ Goes(t, "done", "idle") /\ Unlock(t, "console")
  /\ masked' = NoThread
  /\ UNCHANGED <<keys, text, bx, screenVars, kb, keyVars, mixed>>

-----------------------------------------------------------------------------

\* The keyboard.  The make code of each key, behind the prefix 0xe0 or not.
Code == [lshift |-> \h2a, rshift |-> \h36, lctrl |-> \h1d, rctrl |-> \h1d, lalt |-> \h38,
         ralt |-> \h38, caps |-> \h3a, a |-> \h1e, one |-> \h02, enter |-> \h1c,
         bksp |-> \h0e, up |-> \h48, f1 |-> \h3b]
Prefix == \he0

\* The keyboards have these keys, and the cursor is on the screen.
ASSUME ScenarioAssumption ==
  \A s \in Scenarios : s.keys \subseteq DOMAIN Code /\ s.at \in 0 .. Size - 1

Bytes(k, code) == IF k \in {"rctrl", "ralt", "up"} THEN <<Prefix, code>> ELSE <<code>>

\* A keyboard without caps lock, shift, control or alt on it has a meaning for each key.
Shifts == {"lshift", "rshift"}
Ctrls == {"lctrl", "rctrl"}
Alts == {"lalt", "ralt"}
Down(pair) == held \cap pair # {}
Meaning(k) ==
  IF k = "a" THEN <<IF Down(Shifts) # lamp THEN "A" ELSE "a">>
  ELSE IF k = "one" THEN <<IF Down(Shifts) THEN "!" ELSE "1">>
  ELSE IF k = "enter" THEN <<NL>>
  ELSE IF k = "bksp" THEN <<BS>>
  ELSE IF k \in {"up", "f1"} THEN Unknown ELSE <<>>
Echoes(k) == Meaning(k) # <<>>
CountEcho(k) == (Echoes(k) => echoes < MaxEcho) /\ echoes' = echoes + IF Echoes(k) THEN 1 ELSE 0

Quiet == <<keys, lockVars, threadVars, screenVars, kb, mixed>>

\* A key goes down.  The keyboard sends the next code when the last has been read.
Press(k) ==
  /\ port = <<>> /\ k \notin held
  /\ CountEcho(k)
  /\ port' = Bytes(k, Code[k]) /\ held' = held \cup {k} /\ last' = k
  /\ lamp' = IF k = "caps" THEN ~lamp ELSE lamp
  /\ UNCHANGED <<Quiet, shared, repeated>>

\* The last one is held down, and its code sent again; caps lock is thrown over.
Repeat ==
  /\ port = <<>> /\ last \in held
  /\ CountEcho(last)
  /\ port' = Bytes(last, Code[last])
  /\ repeated' = (repeated \/ last = "caps")
  /\ UNCHANGED <<Quiet, held, last, lamp, shared>>

\* A key goes up; perhaps it shares its flag with another that stays down.
LetGo(k) ==
  /\ port = <<>> /\ k \in held
  /\ port' = Bytes(k, Code[k] + 128) /\ held' = held \ {k}
  /\ last' = IF last = k THEN "none" ELSE last
  /\ shared' = (shared \/ \E pair \in {Shifts, Ctrls, Alts} : pair \subseteq held /\ k \in pair)
  /\ UNCHANGED <<Quiet, lamp, echoes, repeated>>

-----------------------------------------------------------------------------

\* intr_keyboard_handler.  The scan code behind the prefix or without it.
Interrupted == ~halted /\ masked = NoThread /\ port # <<>>
Scan == Head(port) + IF kb.ext THEN \he000 ELSE 0
IsBreak == (Scan \div 128) % 2 = 1
IsKnown == Scan \in 1 .. \h3a \cup {\he038, \he01d}
Read == port' = Tail(port) /\ UNCHANGED <<keys, lockVars, threadVars, held, last, lamp, echoes, shared, repeated>>

KeyMap(i) ==
  IF i = \h1e THEN <<"a", "A">> ELSE IF i = \h02 THEN <<"1", "!">> ELSE IF i = \h1c THEN <<NL, NL>>
  ELSE IF i = \h0e THEN <<BS, BS>> ELSE <<"", "">>
TwoSymbols(s) == s < \h0e \/ s \in {\h29, \h1a, \h1b, \h2b, \h27, \h28, \h33, \h34, \h35}

Char == KeyMap(Scan % 256)[IF kb.shift # (kb.caps /\ ~TwoSymbols(Scan)) THEN 2 ELSE 1]

\* put_char for all of string: from the cursor, wherever a thread's put_char is.
Echo(string) ==
  LET s == DrawnAll(Screen(cells, reg.hi * Byte + reg.lo, FALSE), string)
      key == CHOOSE k \in held : Code[k] = Head(port) /\ (kb.ext = (Len(Bytes(k, 0)) = 2))
  IN /\ cells' = s.cells /\ halted' = s.fault
     /\ reg' = IF s.fault THEN reg ELSE [hi |-> s.bx \div Byte, lo |-> s.bx % Byte]
     /\ index' = "lo"
     /\ page' = IF s.fault THEN page ELSE PageAfterAll(page, Meaning(key))
     /\ mixed' = (mixed \/ \E t \in Threads : pc[t] \notin {"idle", "read", "done"})

KeyPrefix ==
  /\ Interrupted /\ Head(port) = Prefix
  /\ kb' = [kb EXCEPT !.ext = TRUE]
  /\ Read /\ UNCHANGED <<screenVars, mixed>>

\* Mutant: of the two control keys it knows the left one.
KeyUpLeft ==
  /\ Interrupted /\ Head(port) # Prefix /\ IsBreak
  /\ LET make == Scan - 128 IN
       kb' = [kb EXCEPT !.ext = FALSE,
                        !.ctrl = @ /\ make # \h1d,
                        !.shift = @ /\ make \notin {\h2a, \h36},
                        !.alt = @ /\ make \notin {\h38, \he038}]
  /\ Read /\ UNCHANGED <<screenVars, mixed>>

\* Mutant: the prefix is not forgotten.
KeyUpKeeps ==
  /\ Interrupted /\ Head(port) # Prefix /\ IsBreak
  /\ LET make == Scan - 128 IN
       kb' = [kb EXCEPT !.ctrl = @ /\ make \notin {\h1d, \he01d},
                        !.shift = @ /\ make \notin {\h2a, \h36},
                        !.alt = @ /\ make \notin {\h38, \he038}]
  /\ Read /\ UNCHANGED <<screenVars, mixed>>

\* A break code.
KeyUp ==
  /\ Interrupted /\ Head(port) # Prefix /\ IsBreak
  /\ LET make == Scan - 128 IN
       kb' = [kb EXCEPT !.ext = FALSE,
                        !.ctrl = @ /\ make \notin {\h1d, \he01d},
                        !.shift = @ /\ make \notin {\h2a, \h36},
                        !.alt = @ /\ make \notin {\h38, \he038}]
  /\ Read /\ UNCHANGED <<screenVars, mixed>>

\* A make code with a character.
KeyChar ==
  /\ Interrupted /\ Head(port) # Prefix /\ ~IsBreak /\ IsKnown /\ Char # ""
  /\ kb' = [kb EXCEPT !.ext = FALSE]
  /\ Echo(<<Char>>)
  /\ Read

\* One without: by now the high byte is cleared.
KeyFlag ==
  /\ Interrupted /\ Head(port) # Prefix /\ ~IsBreak /\ IsKnown /\ Char = ""
  /\ LET make == Scan % 256 IN
       kb' = [kb EXCEPT !.ext = FALSE,
                        !.ctrl = @ \/ make = \h1d,
                        !.shift = @ \/ make \in {\h2a, \h36},
                        !.alt = @ \/ make = \h38,
                        !.caps = @ # (make = \h3a)]
  /\ Read /\ UNCHANGED <<screenVars, mixed>>

\* All others.
KeyUnknown ==
  /\ Interrupted /\ Head(port) # Prefix /\ ~IsBreak /\ ~IsKnown
  /\ kb' = [kb EXCEPT !.ext = FALSE]
  /\ Echo(Unknown)
  /\ Read

Put(t) == SelectHi(t) \/ SelectLo(t) \/ InHi(t) \/ InLo(t) \/ Draw(t) \/ OutHi(t) \/ OutLo(t) \/ Release(t)
Handler == KeyPrefix \/ KeyUp \/ KeyChar \/ KeyFlag \/ KeyUnknown

Next ==
  \/ \E t \in Threads : Acquire(t)
  \/ \E t \in Threads : Put(t)
  \/ Handler
  \/ \E k \in keys : Press(k)
  \/ \E k \in keys : LetGo(k)
  \/ Repeat

\* A thread gets its turns, and the lock if it is free again and again (Sync's
\* LockFair); interrupts are taken.  Nobody need touch the keyboard.
Spec ==
  /\ Init /\ [][Next]_vars
  /\ \A t \in Threads : SF_vars(Acquire(t)) /\ WF_vars(Put(t))
  /\ WF_vars(Handler)

-----------------------------------------------------------------------------

TypeOK ==
  /\ \A t \in Threads : bx[t] \in 0 .. Word - 1 /\ (pc[t] = "idle" <=> owner["console"] # t)
  /\ reg \in [{"hi", "lo"} -> 0 .. Byte - 1]
  /\ index \in {"hi", "lo"}
  /\ masked \in Processes \cup {NoThread}
  /\ held \subseteq keys
  /\ Len(port) <= 2

\* Between two characters the screen and the cursor are those of the text that
\* was printed and typed, in the order of the calls and key strokes: unless a key
\* was echoed inside of a thread's put_char (keyboard.c:191), one of two shift keys was let
\* go (keyboard.c:144), or caps lock held (keyboard.c:202).
ScreenShowsText ==
  ~mixed /\ ~shared /\ ~repeated /\ ~halted /\ (\A t \in Threads : pc[t] \in {"idle", "read", "done"}) =>
    /\ reg.hi * Byte + reg.lo = page.p - page.top * Cols
    /\ \A i \in 0 .. Size - 1 :
         LET j == page.top * Cols + i IN
           cells[i] = IF j \in DOMAIN page.tape THEN page.tape[j] ELSE Blank

\* The processor faults in put_char only if a key was echoed inside of a thread's,
\* or for a backspace in the first cell (print.S:47): not otherwise, and the cursor
\* stays on the screen.
FaultExplained ==
  ~mixed => /\ halted => AtCorner
            /\ \A t \in Threads : pc[t] \in {"set", "out_hi"} => bx[t] < Size \/ halted

\* shift_status, ctrl_status and alt_status are those of the keys, and caps_lock_status
\* is that of the strokes of its key; but for the two cases above (keyboard.c:144-209).
FlagsFollowKeys ==
  port = <<>> =>
    /\ ~shared => /\ kb.shift = Down(Shifts)
                  /\ kb.ctrl = Down(Ctrls)
                  /\ kb.alt = Down(Alts)
    /\ ~repeated => kb.caps = lamp

\* The types, and FlagsFollowKeys; but even then no flag is left set when its keys are
\* up, and no prefix is left over to change the meaning of the next key
\* (keyboard.c:120-150).
KeysInOrder ==
  /\ TypeOK
  /\ FlagsFollowKeys
  /\ port = <<>> =>
       /\ kb.shift => Down(Shifts)
       /\ kb.ctrl => Down(Ctrls)
       /\ kb.alt => Down(Alts)
       /\ ~kb.ext

\* What is printed gets printed, if there is no fault (console.c:26-48).
CallsReturn == <>(halted \/ \A t \in Threads : text[t] = <<>> /\ pc[t] = "idle")
=============================================================================
