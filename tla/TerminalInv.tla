---------------------------- MODULE TerminalInv -----------------------------
(* The inductive invariant of Terminal: what put_char's steps and the      *)
(* keyboard's handler may rely on.                                         *)
EXTENDS Terminal

\* Between two characters, and between the drawing of one and its cursor.
Resting == {"idle", "read", "done"}
Drawing == {"set", "out_hi", "set_lo", "out_lo"}
Pcs == Resting \cup {"in_hi", "read_lo", "in_lo", "draw"} \cup Drawing

Keys == {"lshift", "rshift", "lctrl", "rctrl", "lalt", "ralt", "caps",
         "a", "one", "enter", "bksp", "up", "f1"}

Flags == [ctrl : BOOLEAN, shift : BOOLEAN, alt : BOOLEAN, caps : BOOLEAN, ext : BOOLEAN]

StateOK ==
  /\ keys \subseteq Keys /\ held \subseteq keys
  /\ owner \in [{"console"} -> Threads \cup {NoThread}]
  /\ masked \in Processes \cup {NoThread}
  /\ pc \in [Threads -> Pcs]
  /\ bx \in [Threads -> 0 .. Word - 1]
  /\ \A t \in Threads : pc[t] \in {"read_lo", "in_lo"} => \E hi \in 0 .. Byte - 1 : bx[t] = hi * Byte
  /\ \A t \in Threads : pc[t] = "idle" <=> owner["console"] # t
  /\ DOMAIN cells = 0 .. Limit - 1
  /\ reg \in [{"hi", "lo"} -> 0 .. Byte - 1]
  /\ index \in {"hi", "lo"}
  /\ kb \in Flags
  /\ halted \in BOOLEAN /\ lamp \in BOOLEAN
  /\ mixed \in BOOLEAN /\ shared \in BOOLEAN /\ repeated \in BOOLEAN

-----------------------------------------------------------------------------
(* The keyboard.                                                           *)

\* A key has one code, behind the prefix or not: what of it the handler has not read.
Pending(k, code) ==
  \/ port = Bytes(k, code) /\ ~kb.ext
  \/ k \in {"rctrl", "ralt", "up"} /\ port = <<code>> /\ kb.ext

\* A flag follows the two keys that share it.
Follows(flag, pair) == (~shared => flag = Down(pair)) /\ (flag => Down(pair))

\* The flags are right but for those of a key whose code is on its way.
FlagsBut(ks) ==
  /\ Shifts \cap ks = {} => Follows(kb.shift, Shifts)
  /\ Ctrls \cap ks = {} => Follows(kb.ctrl, Ctrls)
  /\ Alts \cap ks = {} => Follows(kb.alt, Alts)
  /\ ~repeated => (kb.caps = lamp) = ("caps" \notin ks)

\* The last of the keys that share a flag has been let go, but for the known case.
LetGoLast(k) == \A pair \in {Shifts, Ctrls, Alts} : k \in pair => shared \/ ~Down(pair)

KeyboardOK ==
  \/ port = <<>> /\ ~kb.ext /\ FlagsBut({})
  \/ \E k \in held : Pending(k, Code[k]) /\ FlagsBut({k})
  \/ \E k \in keys \ held : Pending(k, Code[k] + 128) /\ FlagsBut({k} \ {"caps"}) /\ LetGoLast(k)

-----------------------------------------------------------------------------
(* The screen.                                                             *)

Cursor == reg["hi"] * Byte + reg["lo"]

\* pos is where the page's cursor is in the window, and the page ends with it.
Placed(pos, d) ==
  /\ pos \in 0 .. Size - 1
  /\ d.top \in Nat /\ d.p = d.top * Cols + pos
  /\ \A j \in DOMAIN d.tape : j \in Int /\ j < d.top * Cols + Size

\* The screen has what is in the window.
Shown(c, d) ==
  \A i \in 0 .. Size - 1 :
    c[i] = IF d.top * Cols + i \in DOMAIN d.tape THEN d.tape[d.top * Cols + i] ELSE Blank

\* As long as no key was echoed inside of a character: where the cursor is, in the
\* controller or in bx, and what put_char has of it.
CursorOK ==
  ~mixed =>
    /\ halted => AtCorner
    /\ (\A t \in Threads : pc[t] \notin Drawing) => Placed(Cursor, page)
    /\ \A t \in Threads :
         /\ pc[t] \in Drawing => Placed(bx[t], page)
         /\ pc[t] \in {"in_hi", "out_hi"} => index = "hi"
         /\ pc[t] \in {"in_lo", "out_lo"} => index = "lo"
         /\ pc[t] \in {"read_lo", "in_lo"} => bx[t] = reg["hi"] * Byte
         /\ pc[t] = "draw" => bx[t] = Cursor
         /\ pc[t] \in {"set_lo", "out_lo"} => reg["hi"] = bx[t] \div Byte

ContentOK == ~mixed /\ ~shared /\ ~repeated => Shown(cells, page)

IInv ==
  /\ StateOK
  /\ KeyboardOK
  /\ CursorOK
  /\ ContentOK
=============================================================================
