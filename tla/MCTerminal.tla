------------------------------ MODULE MCTerminal -----------------------------
(* What is typed and printed in the runs of Terminal.                      *)
EXTENDS Terminal

CONSTANTS a, b, u

Silent == [t \in Threads |-> <<>>]
Typing(ks) == [keys |-> ks, text |-> Silent, at |-> 3]

\* Two threads and a process print lines and characters, and keys are hit.
Printing(at) == [keys |-> {"a", "bksp"}, at |-> at,
  text |-> (a :> <<<<"x", NL>>>> @@ b :> <<<<"y">>>> @@ u :> <<<<NL>>>>)]

MCScenarios ==
  {Typing({"lshift", "rshift", "caps", "a", "one", "up"}), Typing({"lctrl", "rctrl", "lalt", "ralt", "f1"}),
   Typing({"enter", "bksp", "a", "lshift"})}
    \cup {Printing(at) : at \in {7, 10}}
=============================================================================
