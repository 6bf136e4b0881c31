----------------------------- MODULE IdeProofs ------------------------------
(* What is proved of a channel of the disk driver, for a controller that   *)
(* keeps pace: the inductive invariant of IdeInv and the properties that   *)
(* follow from it.                                                         *)
EXTENDS IdeInv, DataLemmas

USE IdeAssumption

\* The largest request bounds all of them.
LEMMA CountBound == MaxCnt \in 1 .. Lbas /\ \A n \in Counts : n <= MaxCnt
<1>1. Counts \in SUBSET (0 .. Lbas) /\ Counts # {} /\ Lbas \in Nat
  OBVIOUS
<1>2. Max(Counts) \in Counts /\ \A n \in Counts : Max(Counts) >= n
  BY <1>1, MaxFacts
<1>3. \A n \in Counts : n \in 1 .. Lbas
  OBVIOUS
<1> QED BY <1>2, <1>3 DEF MaxCnt

\* What the 8-bit register and argument make of a number of sectors is the number.
LEMMA RegCount ==
  ASSUME NEW n \in 1 .. MaxChunk
  PROVE  Reg(n) \in 0 .. MaxChunk - 1 /\ Count(Reg(n)) = n
<1>1. n \in 0 .. MaxChunk /\ MaxChunk \in Nat \ {0}
  OBVIOUS
<1>2. n % MaxChunk = IF n = MaxChunk THEN 0 ELSE n
  BY <1>1, ModSmall
<1> QED BY <1>1, <1>2 DEF Reg, Count

\* The sectors of a chunk are secs_op.
LEMMA ChunkFacts ==
  ASSUME StateOK, NEW t \in Threads, CallOK(t), pc[t] \notin {"idle", "unlock"}
  PROVE  /\ SecsOp(t) \in 1 .. MaxChunk /\ call[t].secs + SecsOp(t) <= call[t].cnt
         /\ Reg(SecsOp(t)) \in 0 .. MaxChunk - 1 /\ Count(Reg(SecsOp(t))) = SecsOp(t)
         /\ ChunkSize(t) = SecsOp(t)
         /\ call[t].op = "identify" => SecsOp(t) = 1
<1>1. call[t] \in Calls /\ MaxCnt \in Nat /\ MaxChunk \in Nat \ {0}
  BY CountBound DEF StateOK
<1>2. /\ call[t].secs < call[t].cnt /\ call[t].cnt \in Nat /\ call[t].secs \in Nat
      /\ call[t].op = "identify" => call[t].cnt = 1
  BY <1>1 DEF CallOK, Calls
<1>3. /\ SecsOp(t) \in 1 .. MaxChunk /\ call[t].secs + SecsOp(t) <= call[t].cnt
      /\ call[t].op = "identify" => SecsOp(t) = 1
  BY <1>1, <1>2 DEF SecsOp
<1> QED BY <1>3, RegCount DEF ChunkSize

LEMMA InitOK == Init => IInv
<1> SUFFICES ASSUME Init PROVE IInv
  OBVIOUS
<1> USE DEF Init
<1>1. StateOK
  <2>1. owner \in [{"channel"} -> Threads \cup {NoThread}] /\ regs \in [cnt : 0 .. MaxChunk - 1, lba : 0 .. Lbas - 1, d : {0, 1}]
    BY DEF MutexInit
  <2>2. dev \in Devs
    BY DEF Devs, Idle, Noise
  <2>3. NoCall \in Calls
    BY DEF Calls, NoCall
  <2>4. buf \in [Threads -> [0 .. MaxCnt - 1 -> Int]]
    BY CountBound DEF Empty, Noise
  <2>5. sectors \in [Disks -> [0 .. Lbas - 1 -> Int]]
    OBVIOUS
  <2>6. pc \in [Threads -> {"idle"} \cup Quiet \cup Served]
    OBVIOUS
  <2>7. call \in [Threads -> Calls]
    BY <2>3
  <2>8. boot \in BOOLEAN /\ expecting \in BOOLEAN /\ dead \in BOOLEAN
    BY Zenon
  <2>9. done \in 0 .. 1 /\ intrq \in {"low", "high", "taken"} /\ panic \in {"none", "lba", "wait"}
    OBVIOUS
  <2> HIDE DEF Init
  <2> QED BY <2>1, <2>2, <2>4, <2>5, <2>6, <2>7, <2>8, <2>9 DEF StateOK
<1>2. OneCaller
  BY DEF OneCaller, MutexInit, NoCall
<1>3. ASSUME NEW t \in Threads PROVE CallOK(t) /\ RegsOK(t) /\ DevOK(t) /\ DataOK(t)
  BY DEF CallOK, RegsOK, DevOK, DataOK, Served, Sending
<1>4. IdleOK
  BY DEF IdleOK, Idle, NoCall
<1>5. AnswerOK
  BY DEF AnswerOK, Answering, Sending
<1> QED BY <1>1, <1>2, <1>3, <1>4, <1>5 DEF IInv

-----------------------------------------------------------------------------
(* The steps.  In every step that a thread takes the others are idle.      *)

\* While a thread is in a call no other is.
LEMMA OthersIdle ==
  ASSUME IInv, NEW t \in Threads, pc[t] # "idle"
  PROVE  \A u \in Threads \ {t} : pc[u] = "idle" /\ call[u] = NoCall
BY DEF IInv, OneCaller, CallOK

\* What is to be shown when a step leaves every thread idle but t.
LEMMA OneThread ==
  ASSUME NEW t \in Threads, StateOK', OneCaller', IdleOK',
         \A u \in Threads \ {t} : pc'[u] = "idle" /\ call'[u] = NoCall,
         CallOK(t)', RegsOK(t)', DevOK(t)', DataOK(t)',
         (expecting \/ done = 1)' <=> Answering(t)',
         expecting' => done' = 0,
         pc'[t] = "command" => expecting' /\ (boot' \/ intrq' # "high")
  PROVE  IInv'
<1>1. ASSUME NEW u \in Threads \ {t}
      PROVE  (CallOK(u) /\ RegsOK(u) /\ DevOK(u) /\ DataOK(u) /\ ~Answering(u))'
  BY DEF CallOK, RegsOK, DevOK, DataOK, Served, Sending, Answering
<1>2. AnswerOK'
  BY <1>1 DEF AnswerOK
<1> QED BY <1>1, <1>2 DEF IInv

\* The kernel stops; nothing else changes.
LEMMA AssertsStep ==
  ASSUME IInv, Asserts
  PROVE  IInv'
<1>1. /\ UNCHANGED <<boot, owner, level, expecting, done, regs, dev, intrq, sectors, dead, pc, call, buf>>
      /\ panic' = "lba"
  BY DEF Asserts, lockVars, drvVars, devVars
<1>2. StateOK'
  BY <1>1 DEF IInv, StateOK
<1>3. OneCaller' /\ AnswerOK' /\ IdleOK'
  BY <1>1 DEF IInv, OneCaller, AnswerOK, Answering, Sending, IdleOK
<1>4. ASSUME NEW t \in Threads PROVE (CallOK(t) /\ RegsOK(t) /\ DevOK(t) /\ DataOK(t))'
  BY <1>1 DEF IInv, CallOK, RegsOK, DevOK, DevFor, DataOK, Sending, SecsOp, ChunkSize, Slot, Moved
<1> QED BY <1>2, <1>3, <1>4 DEF IInv

LEMMA SelectStep ==
  ASSUME IInv, NEW t \in Threads, Select(t)
  PROVE  IInv'
<1>0. CASE Asserts
  BY <1>0, AssertsStep
<1> SUFFICES ASSUME ~Asserts PROVE IInv'
  BY <1>0
<1>a. /\ regs' = IF call[t].op = "identify" THEN [regs EXCEPT !.d = call[t].d]
                 ELSE [cnt |-> Reg(SecsOp(t)), lba |-> call[t].lba + call[t].secs, d |-> call[t].d]
      /\ pc[t] = "select" /\ pc' = [pc EXCEPT ![t] = "expect"]
      /\ UNCHANGED <<boot, owner, level, expecting, done, dev, intrq, sectors, dead, call, buf, panic>>
  BY DEF Select, Selected, At, Goto, lockVars, drvVars, devVars
<1>1. StateOK /\ CallOK(t) /\ pc[t] = "select" /\ call[t] \in Calls
  BY <1>a DEF IInv, StateOK
<1>2. /\ SecsOp(t) \in 1 .. MaxChunk /\ call[t].secs + SecsOp(t) <= call[t].cnt
      /\ Reg(SecsOp(t)) \in 0 .. MaxChunk - 1
      /\ call[t].lba + call[t].cnt <= Lbas /\ call[t].d \in {0, 1}
  BY <1>a, <1>1, ChunkFacts DEF CallOK
<1>3. \A u \in Threads \ {t} : pc'[u] = "idle" /\ call'[u] = NoCall
  BY <1>a, <1>1, OthersIdle DEF StateOK
<1>4. pc' = [pc EXCEPT ![t] = "expect"] /\ pc'[t] = "expect"
  BY <1>a, <1>1 DEF StateOK
<1>5. StateOK'
  <2>1. regs' \in [cnt : 0 .. MaxChunk - 1, lba : 0 .. Lbas - 1, d : {0, 1}]
    <3>1. CASE call[t].op = "identify"
      BY <1>a, <1>1, <1>2, <3>1 DEF StateOK
    <3>2. CASE call[t].op # "identify"
      BY <1>a, <1>1, <1>2, <3>2 DEF Calls
    <3> QED BY <3>1, <3>2
  <2> QED BY <1>a, <1>1, <1>4, <2>1 DEF StateOK, Quiet
<1>6. OneCaller'
  BY <1>a, <1>1, <1>4 DEF IInv, OneCaller, StateOK
<1>7. CallOK(t)'
  BY <1>a, <1>1, <1>4 DEF CallOK, ChunkSize, SecsOp
<1>8. RegsOK(t)'
  BY <1>a, <1>1, <1>2, <1>4 DEF RegsOK, SecsOp, StateOK
<1>9. DevOK(t)'
  BY <1>a, <1>4 DEF DevOK, Served, Sending
<1>10. DataOK(t)'
  BY <1>a, <1>1, <1>4 DEF IInv, DataOK, Moved
<1>11. IdleOK'
  BY <1>a, <1>1, <1>3, <1>4 DEF IInv, IdleOK, Served
<1>12. /\ (expecting \/ done = 1)' <=> Answering(t)'
       /\ expecting' => done' = 0
  BY <1>a, <1>1, <1>3, <1>4, OthersIdle DEF IInv, AnswerOK, Answering, Sending
<1> QED BY <1>a, <1>3, <1>4, <1>5, <1>6, <1>7, <1>8, <1>9, <1>10, <1>11, <1>12, OneThread

LEMMA ExpectStep ==
  ASSUME IInv, NEW t \in Threads, Expect(t)
  PROVE  IInv'
<1> USE DEF Expect, At, Goto, lockVars, drvVars, devVars
<1>1. StateOK /\ CallOK(t) /\ pc[t] = "expect" /\ call[t] \in Calls
  BY DEF IInv, StateOK
<1>2. \A u \in Threads \ {t} : pc'[u] = "idle" /\ call'[u] = NoCall
  BY <1>1, OthersIdle DEF StateOK
<1>3. pc' = [pc EXCEPT ![t] = "command"] /\ pc'[t] = "command"
  BY <1>1 DEF StateOK
<1>4. StateOK'
  BY <1>1, <1>3 DEF StateOK, Quiet
<1>5. OneCaller'
  BY <1>1, <1>3 DEF IInv, OneCaller, StateOK
<1>6. CallOK(t)'
  BY <1>1, <1>3 DEF CallOK, ChunkSize, SecsOp
<1>7. RegsOK(t)'
  BY <1>1, <1>3 DEF IInv, RegsOK, SecsOp, StateOK
<1>8. DevOK(t)'
  BY <1>3 DEF DevOK, Served, Sending
<1>9. DataOK(t)'
  BY <1>1, <1>3 DEF IInv, DataOK, Moved
<1>10. IdleOK'
  BY <1>1, <1>2, <1>3 DEF IInv, IdleOK, Served
<1>11. /\ (expecting \/ done = 1)' <=> Answering(t)'
       /\ expecting' => done' = 0
  BY <1>1, <1>2, <1>3, OthersIdle DEF IInv, AnswerOK, Answering, Sending, StateOK
<1> QED BY <1>2, <1>3, <1>4, <1>5, <1>6, <1>7, <1>8, <1>9, <1>10, <1>11, OneThread

\* The controller is idle and takes the command; what it is to do is what the
\* registers say.
LEMMA CommandStep ==
  ASSUME IInv, NEW t \in Threads, Command(t)
  PROVE  IInv'
<1> USE DEF Command, At, Goto, lockVars, drvVars
<1>1. StateOK /\ CallOK(t) /\ pc[t] = "command" /\ call[t] \in Calls
  BY DEF IInv, StateOK
<1>2. \A u \in Threads \ {t} : pc[u] = "idle" /\ pc'[u] = "idle" /\ call'[u] = NoCall
  BY <1>1, OthersIdle DEF StateOK
<1> DEFINE q == IF call[t].op = "write" THEN "poll" ELSE "down"
<1>3. pc' = [pc EXCEPT ![t] = q] /\ pc'[t] = q /\ q \in {"poll", "down"}
  BY <1>1 DEF StateOK
<1>4. dev.st = "idle"
  BY <1>1, <1>2 DEF IInv, IdleOK, Served
<1>5. /\ SecsOp(t) \in 1 .. MaxChunk /\ Count(Reg(SecsOp(t))) = SecsOp(t) /\ ChunkSize(t) = SecsOp(t)
      /\ call[t].op = "identify" => SecsOp(t) = 1
  BY <1>1, ChunkFacts
<1>6. /\ regs.d = call[t].d /\ call[t].n = 0
      /\ call[t].op # "identify" => regs.lba = call[t].lba + call[t].secs /\ regs.cnt = Reg(SecsOp(t))
  BY <1>1 DEF IInv, RegsOK, CallOK
<1>7. /\ intrq' = "low" /\ dev'.st \in {"busy", "drq"}
      /\ dev' = [st |-> dev'.st, op |-> call[t].op, d |-> regs.d, lba |-> regs.lba, data |-> Noise,
                 left |-> IF call[t].op = "identify" THEN 1 ELSE Count(regs.cnt)]
  BY <1>4
<1>8. /\ dev'.op = call[t].op /\ dev'.d = call[t].d /\ dev'.data = Noise /\ dev'.left = SecsOp(t)
      /\ dev'.op # "identify" => dev'.lba = call[t].lba + call[t].secs
  BY <1>5, <1>6, <1>7
<1>9. dev' \in Devs
  <2>1. dev' = [st |-> dev'.st, op |-> call[t].op, d |-> call[t].d, lba |-> regs.lba, data |-> Noise,
                left |-> SecsOp(t)]
    BY <1>5, <1>6, <1>7
  <2>2. regs.lba \in Nat /\ call[t].d \in {0, 1} /\ Noise \in Int /\ SecsOp(t) \in 0 .. MaxChunk
    BY <1>1, <1>5 DEF StateOK, Calls, Noise
  <2> QED BY <1>1, <1>7, <2>1, <2>2 DEF Devs, Calls
<1>10. expecting /\ done = 0
  BY <1>1 DEF IInv, AnswerOK
<1> HIDE DEF q
<1>11. StateOK'
  BY <1>1, <1>3, <1>7, <1>9 DEF StateOK, Served
<1>12. OneCaller'
  BY <1>1, <1>3 DEF IInv, OneCaller, StateOK
<1>13. CallOK(t)'
  BY <1>1, <1>3, <1>6 DEF CallOK, ChunkSize, SecsOp
<1>14. RegsOK(t)'
  BY <1>1, <1>3, <1>6 DEF RegsOK, SecsOp
<1>15. ChunkSize(t)' = ChunkSize(t) /\ call' = call
  BY DEF ChunkSize, SecsOp
<1>16. DevOK(t)'
  <2>1. DevFor(t, call[t].n, Noise)' /\ call'[t] = call[t] /\ expecting'
    BY <1>1, <1>5, <1>6, <1>8, <1>10, <1>15 DEF DevFor, Calls
  <2> QED BY <1>3, <1>7, <2>1 DEF DevOK, Sending, Served, q
<1>17. DataOK(t)'
  BY <1>1, <1>3, <1>6, <1>7 DEF IInv, DataOK, Moved
<1>18. IdleOK'
  BY <1>1, <1>2, <1>3, <1>4 DEF IInv, IdleOK, Served
<1>19. Answering(t)'
  BY <1>3, <1>15 DEF Answering, Sending, q
<1> QED BY <1>2, <1>3, <1>10, <1>11, <1>12, <1>13, <1>14, <1>16, <1>17, <1>18, <1>19, OneThread

\* A read that is answered finds the sector; a write that is answered, the
\* controller idle.
LEMMA DownStep ==
  ASSUME IInv, NEW t \in Threads, Down(t)
  PROVE  IInv'
<1> USE DEF Down, At, Goto, lockVars, devVars
<1>1. StateOK /\ CallOK(t) /\ pc[t] = "down" /\ call[t] \in Calls
  BY DEF IInv, StateOK
<1>2. \A u \in Threads \ {t} : pc[u] = "idle" /\ pc'[u] = "idle" /\ call'[u] = NoCall
  BY <1>1, OthersIdle DEF StateOK
<1> DEFINE q == IF call[t].op = "write" THEN "next" ELSE "poll"
<1>3. pc' = [pc EXCEPT ![t] = q] /\ pc'[t] = q /\ q \in {"next", "poll"}
  BY <1>1 DEF StateOK
<1>4. done = 1 /\ done' = 0 /\ ~expecting
  BY <1>1 DEF IInv, StateOK, AnswerOK
<1>5. IF call[t].op = "write" THEN dev.st = "idle"
      ELSE dev.st = "drq" /\ DevFor(t, call[t].n, Noise)
  BY <1>1, <1>4 DEF IInv, DevOK, Served, Devs, StateOK
<1>6. ChunkSize(t)' = ChunkSize(t) /\ call' = call /\ dev' = dev
  BY DEF ChunkSize, SecsOp
<1> HIDE DEF q
<1>7. StateOK'
  BY <1>1, <1>3, <1>4 DEF StateOK, Served, Quiet
<1>8. OneCaller'
  BY <1>1, <1>3 DEF IInv, OneCaller, StateOK
<1>9. CallOK(t)'
  BY <1>1, <1>3, <1>6 DEF CallOK, q
<1>10. RegsOK(t)'
  BY <1>1, <1>3 DEF IInv, RegsOK, SecsOp, Served
<1>11. DevOK(t)'
  BY <1>3, <1>5, <1>6 DEF DevOK, DevFor, Sending, Served, q
<1>12. DataOK(t)'
  BY <1>1, <1>3, <1>5 DEF IInv, DataOK, Moved, q
<1>13. IdleOK'
  <2>1. dev.st = "idle" \/ pc'[t] \in Served
    BY <1>3, <1>5 DEF Served, q
  <2> QED BY <2>1 DEF IInv, IdleOK
<1>14. ~Answering(t)' /\ ~expecting'
  BY <1>3, <1>4, <1>6 DEF Answering, Sending, q
<1> QED BY <1>2, <1>3, <1>4, <1>7, <1>8, <1>9, <1>10, <1>11, <1>12, <1>13, <1>14, OneThread

LEMMA PollStep ==
  ASSUME IInv, NEW t \in Threads, Poll(t)
  PROVE  IInv'
<1> USE DEF lockVars, drvVars
<1>1. StateOK /\ CallOK(t) /\ pc[t] = "poll" /\ call[t] \in Calls
  BY DEF IInv, StateOK, Poll, At
<1> DEFINE m == call'[t].limit
           q == pc'[t]
<1>3. /\ dev.st \in {"busy", "drq"} /\ DevFor(t, call[t].n, Noise)
      /\ dev.st = "busy" => expecting /\ intrq = "low"
      /\ Sending(t) /\ call[t].n = 0 => expecting /\ intrq = "low"
      /\ call[t].op # "write" => dev.st = "drq"
  BY <1>1 DEF IInv, DevOK, Served
<1>5. \/ /\ panic' = "wait" /\ pc' = pc /\ intrq' = intrq
         /\ call' = [call EXCEPT ![t].limit = 0]
      \/ /\ panic' = panic /\ pc' = [pc EXCEPT ![t] = "sleep"] /\ dev.st = "busy" /\ intrq' = "low"
         /\ call' = [call EXCEPT ![t].limit = @ - 1] /\ call[t].limit > 1
      \/ /\ panic' = panic /\ pc' = [pc EXCEPT ![t] = "move"] /\ dev.st = "drq" /\ intrq' = "low"
         /\ call' = [call EXCEPT ![t].limit = TimeLimit]
  BY <1>3 DEF Poll, Goto
<1>4. \E x \in 0 .. TimeLimit : call' = [call EXCEPT ![t].limit = x]
  <2>1. call[t].limit \in 0 .. TimeLimit /\ TimeLimit \in Nat
    BY <1>1 DEF Calls
  <2>2. 0 \in 0 .. TimeLimit /\ TimeLimit \in 0 .. TimeLimit
    BY <2>1
  <2>3. call[t].limit > 1 => call[t].limit - 1 \in 0 .. TimeLimit
    BY <2>1
  <2>4. \/ call' = [call EXCEPT ![t].limit = 0]
        \/ call' = [call EXCEPT ![t].limit = call[t].limit - 1] /\ call[t].limit > 1
        \/ call' = [call EXCEPT ![t].limit = TimeLimit]
    BY <1>5
  <2> QED BY <2>2, <2>3, <2>4
<1>8. m \in 0 .. TimeLimit /\ call' = [call EXCEPT ![t].limit = m]
  <2>1. PICK x \in 0 .. TimeLimit : call' = [call EXCEPT ![t].limit = x]
    BY <1>4
  <2>2. call'[t] = [call[t] EXCEPT !.limit = x]
    BY <1>1, <2>1 DEF StateOK
  <2>3. call'[t].limit = x
    BY <1>1, <2>2 DEF Calls
  <2> QED BY <2>1, <2>3
<1>2. /\ call' = [call EXCEPT ![t].limit = m] /\ intrq' \in {"low", intrq}
      /\ UNCHANGED <<boot, owner, level, expecting, done, regs, dev, sectors, dead, buf>>
  BY <1>5, <1>8 DEF Poll
<1>6. /\ pc' = [pc EXCEPT ![t] = q] /\ q \in {"poll", "sleep", "move"}
      /\ q = "move" => dev.st = "drq"
  BY <1>1, <1>5 DEF StateOK
<1>7. panic' \in {"none", "lba", "wait"}
  BY <1>1, <1>5 DEF StateOK
<1> HIDE DEF m, q
<1>9. call'[t] = [call[t] EXCEPT !.limit = m] /\ call' \in [Threads -> Calls]
  <2>1. call'[t] = [call[t] EXCEPT !.limit = m]
    BY <1>1, <1>8 DEF StateOK
  <2>2. [call[t] EXCEPT !.limit = m] \in Calls
    BY <1>1, <1>8 DEF Calls
  <2>3. call \in [Threads -> Calls] /\ call' = [call EXCEPT ![t] = [call[t] EXCEPT !.limit = m]]
    BY <1>1, <1>8 DEF StateOK
  <2> QED BY <2>1, <2>2, <2>3
<1>10. /\ call'[t].op = call[t].op /\ call'[t].d = call[t].d /\ call'[t].lba = call[t].lba
       /\ call'[t].cnt = call[t].cnt /\ call'[t].secs = call[t].secs /\ call'[t].n = call[t].n
       /\ call'[t].limit = m /\ SecsOp(t)' = SecsOp(t) /\ ChunkSize(t)' = ChunkSize(t)
  BY <1>1, <1>9 DEF Calls, ChunkSize, SecsOp
<1>11. \A u \in Threads \ {t} : pc[u] = "idle" /\ pc'[u] = "idle" /\ call'[u] = NoCall
  BY <1>1, <1>2, <1>6, OthersIdle DEF StateOK
<1>12. pc'[t] = q
  BY DEF q
<1>13. StateOK'
  <2>1. intrq' \in {"low", "high", "taken"} /\ pc' \in [Threads -> {"idle"} \cup Quiet \cup Served]
    BY <1>1, <1>2, <1>6 DEF StateOK, Served
  <2> QED BY <1>1, <1>2, <1>7, <1>9, <2>1 DEF StateOK
<1>14. OneCaller'
  BY <1>1, <1>2, <1>6, <1>10, <1>11, <1>12 DEF IInv, OneCaller
<1>15. CallOK(t)'
  BY <1>1, <1>6, <1>10, <1>12 DEF CallOK
<1>16. RegsOK(t)'
  BY <1>1, <1>2, <1>10 DEF IInv, RegsOK, Served
<1>17. DevOK(t)'
  BY <1>1, <1>2, <1>3, <1>6, <1>10, <1>12 DEF DevOK, DevFor, Sending
<1>18. DataOK(t)'
  BY <1>1, <1>2, <1>6, <1>10, <1>12 DEF IInv, DataOK, Moved
<1>19. IdleOK'
  <2>1. pc'[t] \in Served
    BY <1>6, <1>12 DEF Served
  <2> QED BY <1>2, <2>1 DEF IInv, IdleOK
<1>20. Answering(t)' <=> Answering(t)
  BY <1>1, <1>6, <1>10, <1>12 DEF Answering, Sending
<1>21. /\ (expecting \/ done = 1)' <=> Answering(t)'
       /\ expecting' => done' = 0
  <2>1. (\E u \in Threads : Answering(u)) <=> Answering(t)
    BY <1>11 DEF Answering, Sending
  <2> QED BY <1>2, <1>20, <2>1 DEF IInv, AnswerOK
<1> QED BY <1>6, <1>11, <1>12, <1>13, <1>14, <1>15, <1>16, <1>17, <1>18, <1>19, <1>21, OneThread

LEMMA WakeStep ==
  ASSUME IInv, NEW t \in Threads, Wake(t)
  PROVE  IInv'
<1> USE DEF Wake, At, Goto, lockVars, drvVars, devVars
<1>1. StateOK /\ CallOK(t) /\ pc[t] = "sleep" /\ call[t] \in Calls
  BY DEF IInv, StateOK
<1>2. \A u \in Threads \ {t} : pc[u] = "idle" /\ pc'[u] = "idle" /\ call'[u] = NoCall
  BY <1>1, OthersIdle DEF StateOK
<1>3. pc' = [pc EXCEPT ![t] = "poll"] /\ pc'[t] = "poll"
  BY <1>1 DEF StateOK
<1>4. StateOK'
  BY <1>1, <1>3 DEF StateOK, Served
<1>5. OneCaller'
  BY <1>1, <1>3 DEF IInv, OneCaller, StateOK
<1>6. CallOK(t)' /\ RegsOK(t)'
  BY <1>1, <1>3 DEF IInv, CallOK, RegsOK, ChunkSize, SecsOp, Served
<1>7. DevOK(t)'
  BY <1>1, <1>3 DEF IInv, DevOK, DevFor, Sending, Served, ChunkSize, SecsOp
<1>8. DataOK(t)'
  BY <1>1, <1>3 DEF IInv, DataOK, Moved
<1>9. IdleOK'
  BY <1>1, <1>2, <1>3 DEF IInv, IdleOK, Served
<1>10. /\ (expecting \/ done = 1)' <=> Answering(t)'
       /\ expecting' => done' = 0
  BY <1>1, <1>2, <1>3 DEF IInv, AnswerOK, Answering, Sending, StateOK
<1> QED BY <1>2, <1>3, <1>4, <1>5, <1>6, <1>7, <1>8, <1>9, <1>10, OneThread

\* A thread that moves a sector: the controller has it, and it is the next of the call.
LEMMA MoveFacts ==
  ASSUME IInv, NEW t \in Threads, pc[t] = "move"
  PROVE  /\ Slot(t) \in 0 .. MaxCnt - 1 /\ Slot(t) < call[t].cnt
         /\ call[t].lba + Slot(t) \in 0 .. Lbas - 1 /\ call[t].d \in Disks
         /\ dev.st = "drq" /\ dev.op = call[t].op /\ dev.d = call[t].d /\ dev.data = Noise
         /\ dev.op # "identify" => dev.lba = call[t].lba + Slot(t)
         /\ dev.left \in 1 .. MaxChunk /\ (LastSector(t) <=> dev.left = 1)
         /\ call[t].op = "identify" => Slot(t) = 0
<1>1. /\ call[t] \in Calls /\ dev \in Devs /\ StateOK /\ CallOK(t) /\ MaxCnt \in Nat /\ Lbas \in Nat
      /\ MaxChunk \in Nat
  BY CountBound DEF IInv, StateOK
<1>2. /\ ChunkSize(t) = SecsOp(t) /\ SecsOp(t) \in 1 .. MaxChunk /\ call[t].secs + SecsOp(t) <= call[t].cnt
      /\ call[t].op = "identify" => SecsOp(t) = 1
  BY <1>1, ChunkFacts
<1>3. /\ call[t].n \in Nat /\ call[t].secs \in Nat /\ call[t].lba \in Nat /\ call[t].cnt \in Nat
      /\ dev.left \in Nat
  BY <1>1 DEF Calls, Devs
<1>4. /\ call[t].n < ChunkSize(t) /\ call[t].cnt <= MaxCnt /\ call[t].lba + call[t].cnt <= Lbas
      /\ call[t].d \in Disks /\ call[t].secs < call[t].cnt
  BY <1>1, <1>3 DEF CallOK
<1>5. dev.st = "drq" /\ DevFor(t, call[t].n, Noise)
  BY DEF IInv, DevOK, Served
<1>6. call[t].op = "identify" => call[t].cnt = 1
  BY <1>1 DEF CallOK
<1>7. /\ Slot(t) \in 0 .. MaxCnt - 1 /\ Slot(t) < call[t].cnt /\ call[t].lba + Slot(t) \in 0 .. Lbas - 1
      /\ call[t].op = "identify" => Slot(t) = 0
  BY <1>1, <1>2, <1>3, <1>4, <1>6 DEF Slot
<1>8. dev.left + call[t].n = ChunkSize(t) /\ dev.left \in 1 .. MaxChunk
  BY <1>1, <1>2, <1>3, <1>4, <1>5 DEF DevFor
<1>9. LastSector(t) <=> dev.left = 1
  BY <1>3, <1>8 DEF LastSector
<1>10. dev.op # "identify" => dev.lba = call[t].lba + Slot(t)
  BY <1>3, <1>5 DEF DevFor, Slot
<1> QED BY <1>4, <1>5, <1>7, <1>8, <1>9, <1>10 DEF DevFor

\* The call after a chunk: the next chunk is selected, or all are moved.
LEMMA ChunkDoneFacts ==
  ASSUME StateOK, NEW t \in Threads, CallOK(t), pc[t] \in {"move", "next"},
         call[t].n + 1 = ChunkSize(t), ChunkDone(t)
  PROVE  /\ call' \in [Threads -> Calls]
         /\ call'[t].op = call[t].op /\ call'[t].d = call[t].d /\ call'[t].lba = call[t].lba
         /\ call'[t].cnt = call[t].cnt /\ call'[t].limit = call[t].limit
         /\ call'[t].n = 0 /\ call'[t].secs = Slot(t) + 1
         /\ pc' = [pc EXCEPT ![t] = pc'[t]]
         /\ pc'[t] = IF Slot(t) + 1 < call[t].cnt THEN "select" ELSE "unlock"
         /\ CallOK(t)'
         /\ \A u \in Threads \ {t} : pc'[u] = pc[u] /\ call'[u] = call[u]
<1> DEFINE secs == call[t].secs + IF call[t].op = "identify" THEN 1 ELSE SecsOp(t)
<1>1. /\ call[t] \in Calls /\ MaxCnt \in Nat
      /\ call[t].secs \in Nat /\ call[t].cnt \in Nat /\ call[t].n \in Nat
  <2>1. call[t] \in Calls /\ MaxCnt \in Nat
    BY CountBound DEF StateOK
  <2> QED BY <2>1 DEF Calls
<1>2. /\ ChunkSize(t) = SecsOp(t) /\ SecsOp(t) \in 1 .. MaxChunk /\ call[t].secs + SecsOp(t) <= call[t].cnt
  BY ChunkFacts
<1>3. call[t].op = "identify" => SecsOp(t) = 1
  BY ChunkFacts
<1>4. secs = Slot(t) + 1 /\ secs \in Nat /\ secs <= call[t].cnt
  BY <1>1, <1>2, <1>3 DEF Slot
<1>5. call' = [call EXCEPT ![t].n = 0, ![t].secs = secs]
  BY DEF ChunkDone
<1>6. pc' = [pc EXCEPT ![t] = IF secs < call[t].cnt THEN "select" ELSE "unlock"]
  BY DEF ChunkDone, Goto
<1> HIDE DEF secs
<1>7. call'[t] = [call[t] EXCEPT !.n = 0, !.secs = secs]
  BY <1>5 DEF StateOK
<1>8. call'[t] \in Calls
  <2>1. [call[t] EXCEPT !.n = 0] \in Calls
    BY <1>1 DEF Calls
  <2>2. \A c \in Calls, m \in Nat : [c EXCEPT !.secs = m] \in Calls
    BY DEF Calls
  <2>3. call'[t] = [[call[t] EXCEPT !.n = 0] EXCEPT !.secs = secs]
    BY <1>7
  <2>4. [[call[t] EXCEPT !.n = 0] EXCEPT !.secs = secs] \in Calls
    BY <1>4, <2>1, <2>2
  <2> QED BY <2>3, <2>4
<1>9. /\ call'[t].op = call[t].op /\ call'[t].d = call[t].d /\ call'[t].lba = call[t].lba
      /\ call'[t].cnt = call[t].cnt /\ call'[t].limit = call[t].limit
      /\ call'[t].n = 0 /\ call'[t].secs = secs
  BY <1>1, <1>7 DEF Calls
<1>10. \A u \in Threads \ {t} : pc'[u] = pc[u] /\ call'[u] = call[u]
  BY <1>5, <1>6 DEF StateOK
<1>11. pc'[t] = IF secs < call[t].cnt THEN "select" ELSE "unlock"
  BY <1>6 DEF StateOK
<1>12. call' \in [Threads -> Calls]
  BY <1>5, <1>7, <1>8 DEF StateOK
<1>13. CallOK(t)'
  <2>1. /\ call[t].op # "none" /\ call[t].d \in Disks /\ call[t].cnt \in 1 .. MaxCnt
        /\ call[t].lba + call[t].cnt <= Lbas /\ (call[t].op = "identify" => call[t].cnt = 1)
    BY DEF CallOK
  <2>2. CASE pc'[t] = "unlock"
    <3>1. secs = call[t].cnt
      BY <1>1, <1>4, <1>11, <2>2
    <3> QED BY <1>9, <2>1, <2>2, <3>1 DEF CallOK
  <2>3. CASE pc'[t] = "select"
    <3>1. secs < call[t].cnt
      BY <1>11, <2>3
    <3>2. SecsOp(t)' \in 1 .. MaxChunk
      BY <1>1, <1>4, <1>9, <3>1 DEF SecsOp
    <3>3. ChunkSize(t)' > 0
      BY <3>2, RegCount DEF ChunkSize
    <3> QED BY <1>9, <2>1, <2>3, <3>1, <3>3 DEF CallOK
  <2> QED BY <1>11, <2>2, <2>3
<1> QED BY <1>4, <1>6, <1>9, <1>10, <1>11, <1>12, <1>13

\* The call while a chunk goes on.
LEMMA OneMoreFacts ==
  ASSUME StateOK, NEW t \in Threads, CallOK(t), pc[t] = "move",
         ~LastSector(t), OneMore(t), pc' = pc
  PROVE  /\ call' \in [Threads -> Calls]
         /\ call'[t].op = call[t].op /\ call'[t].d = call[t].d /\ call'[t].lba = call[t].lba
         /\ call'[t].cnt = call[t].cnt /\ call'[t].limit = call[t].limit
         /\ call'[t].n = call[t].n + 1 /\ call'[t].secs = call[t].secs
         /\ SecsOp(t)' = SecsOp(t) /\ ChunkSize(t)' = ChunkSize(t)
         /\ CallOK(t)'
         /\ \A u \in Threads \ {t} : pc'[u] = pc[u] /\ call'[u] = call[u]
<1>1. call[t] \in Calls /\ call[t].n \in Nat
  BY DEF StateOK, Calls
<1>2. call' = [call EXCEPT ![t].n = call[t].n + 1]
  BY DEF OneMore
<1>3. call'[t] = [call[t] EXCEPT !.n = call[t].n + 1]
  BY <1>2 DEF StateOK
<1>4. call'[t] \in Calls
  BY <1>1, <1>3 DEF Calls
<1>5. call' \in [Threads -> Calls] /\ \A u \in Threads \ {t} : pc'[u] = pc[u] /\ call'[u] = call[u]
  BY <1>2, <1>3, <1>4 DEF StateOK
<1>6. /\ call'[t].op = call[t].op /\ call'[t].d = call[t].d /\ call'[t].lba = call[t].lba
      /\ call'[t].cnt = call[t].cnt /\ call'[t].limit = call[t].limit
      /\ call'[t].n = call[t].n + 1 /\ call'[t].secs = call[t].secs
  BY <1>1, <1>3 DEF Calls
<1>7. SecsOp(t)' = SecsOp(t) /\ ChunkSize(t)' = ChunkSize(t)
  BY <1>6 DEF SecsOp, ChunkSize
<1>8. ChunkSize(t) \in Nat
  BY ChunkFacts
<1>9. CallOK(t)'
  BY <1>1, <1>6, <1>7, <1>8 DEF CallOK, LastSector
<1> QED BY <1>5, <1>6, <1>7, <1>9

\* The sector goes to its place in the buffer; the controller has the next one
\* or, if it was the last, is idle.
LEMMA MoveInStep ==
  ASSUME IInv, InStep, NEW t \in Threads, MoveIn(t)
  PROVE  IInv'
<1> USE DEF lockVars, drvVars
<1>1. /\ StateOK /\ CallOK(t) /\ pc[t] = "move" /\ call[t] \in Calls /\ call[t].op \in {"read", "identify"}
      /\ MaxCnt \in Nat
  <2>1. StateOK /\ CallOK(t) /\ call[t] \in Calls /\ MaxCnt \in Nat
    BY CountBound DEF IInv, StateOK
  <2>2. pc[t] = "move" /\ call[t].op # "write"
    BY DEF MoveIn, At
  <2> QED BY <2>1, <2>2 DEF CallOK, Calls
<1> DEFINE v == IF dev.op = "identify" THEN Info(dev.d) ELSE sectors[dev.d][dev.lba]
<1>2. /\ Slot(t) \in 0 .. MaxCnt - 1 /\ Slot(t) < call[t].cnt
      /\ call[t].lba + Slot(t) \in 0 .. Lbas - 1 /\ call[t].d \in Disks
      /\ dev.st = "drq" /\ dev.op = call[t].op /\ dev.d = call[t].d /\ dev.data = Noise
      /\ dev.left \in 1 .. MaxChunk /\ (LastSector(t) <=> dev.left = 1)
  BY <1>1, MoveFacts
<1>3. /\ dev.op # "identify" => dev.lba = call[t].lba + Slot(t)
      /\ call[t].op = "identify" => Slot(t) = 0
  BY <1>1, MoveFacts
<1>4. /\ buf' = [buf EXCEPT ![t][Slot(t)] = v]
      /\ UNCHANGED <<boot, owner, level, expecting, done, regs, sectors, dead, panic>>
  BY <1>2 DEF MoveIn
<1>5. v = IF call[t].op = "identify" THEN Info(call[t].d) ELSE sectors[call[t].d][call[t].lba + Slot(t)]
  BY <1>2, <1>3
<1>6. v \in Int
  <2>1. Info(call[t].d) \in Int
    BY <1>1 DEF Info, Calls
  <2>2. sectors[call[t].d] \in [0 .. Lbas - 1 -> Int]
    BY <1>1, <1>2 DEF StateOK
  <2>3. sectors[call[t].d][call[t].lba + Slot(t)] \in Int
    BY <1>2, <2>2
  <2> QED BY <1>5, <2>1, <2>3
<1> HIDE DEF v
<1>7. buf'[t] = [buf[t] EXCEPT ![Slot(t)] = v] /\ buf' \in [Threads -> [0 .. MaxCnt - 1 -> Int]]
  BY <1>1, <1>4, <1>6 DEF StateOK
<1>8. buf[t] \in [0 .. MaxCnt - 1 -> Int]
  BY <1>1 DEF StateOK
<1>9. ~expecting /\ done = 0
  <2>1. \A u \in Threads : ~Answering(u)
    BY <1>1, OthersIdle DEF Answering, Sending
  <2> QED BY <1>1, <2>1 DEF IInv, AnswerOK, StateOK
<1>10. /\ \A i \in 0 .. MaxCnt - 1 : i # Slot(t) => buf'[t][i] = buf[t][i]
       /\ buf'[t][Slot(t)] = v
  BY <1>2, <1>7, <1>8
<1>11. \A u \in Threads \ {t} : pc[u] = "idle" /\ call[u] = NoCall
  BY <1>1, OthersIdle
\* What both cases leave to be shown.
<1>13. ASSUME call' \in [Threads -> Calls], CallOK(t)', dev' \in Devs,
              pc' = [pc EXCEPT ![t] = pc'[t]], pc'[t] \in {"move", "select", "unlock"},
              call'[t].op = call[t].op, call'[t].d = call[t].d, call'[t].lba = call[t].lba,
              call'[t].cnt = call[t].cnt, call'[t].limit = call[t].limit,
              call'[t].secs + call'[t].n = Slot(t) + 1,
              \A u \in Threads \ {t} : pc'[u] = pc[u] /\ call'[u] = call[u],
              RegsOK(t)', DevOK(t)', intrq' \in {"low", "high", "taken"},
              dev'.st = "idle" \/ pc'[t] = "move", dead => dev'.st = "busy"
       PROVE  IInv'
  <2>1. StateOK'
    <3>1. pc' \in [Threads -> {"idle"} \cup Quiet \cup Served]
      BY <1>1, <1>13 DEF StateOK, Quiet, Served
    <3>2. call' \in [Threads -> Calls] /\ dev' \in Devs /\ intrq' \in {"low", "high", "taken"}
      BY <1>13
    <3> QED BY <1>1, <1>4, <1>7, <3>1, <3>2 DEF StateOK
  <2>2. OneCaller'
    BY <1>1, <1>4, <1>11, <1>13 DEF IInv, OneCaller
  <2>3. IdleOK'
    BY <1>4, <1>11, <1>13 DEF IInv, IdleOK, Served
  <2>4. Moved(t)' = Slot(t) + 1 /\ Moved(t) = Slot(t)
    BY <1>1, <1>2, <1>13 DEF Moved, Slot, Calls
  <2>5. DataOK(t)'
    <3>1. CASE call[t].op = "read"
      <4>1. \A i \in 0 .. MaxCnt - 1 :
              buf[t][i] = IF i < Slot(t) THEN sectors[call[t].d][call[t].lba + i] ELSE Noise
        BY <1>1, <2>4, <3>1 DEF IInv, DataOK
      <4>2. \A i \in 0 .. MaxCnt - 1 :
              buf'[t][i] = IF i < Slot(t) + 1 THEN sectors[call[t].d][call[t].lba + i] ELSE Noise
        <5> TAKE i \in 0 .. MaxCnt - 1
        <5>1. i < Slot(t) + 1 <=> (i < Slot(t) \/ i = Slot(t))
          BY <1>2
        <5>2. CASE i = Slot(t)
          BY <1>2, <1>5, <1>10, <3>1, <5>1, <5>2
        <5>3. CASE i # Slot(t)
          BY <1>10, <4>1, <5>1, <5>3
        <5> QED BY <5>2, <5>3
      <4> QED BY <1>4, <1>13, <2>4, <3>1, <4>2 DEF DataOK
    <3>2. CASE call[t].op = "identify"
      BY <1>3, <1>5, <1>10, <1>13, <3>2 DEF DataOK
    <3> QED BY <1>1, <3>1, <3>2
  <2>6. ~Answering(t)'
    BY <1>1, <1>13 DEF Answering, Sending
  <2> QED BY <1>4, <1>9, <1>11, <1>13, <2>1, <2>2, <2>3, <2>5, <2>6, OneThread
<1>14. dead => dev.st = "busy"
  BY DEF IInv, IdleOK
<1>15. CASE LastSector(t)
  <2>1. ChunkDone(t) /\ dev' = Idle /\ intrq' = intrq
    BY <1>2, <1>15 DEF MoveIn
  <2>2. call[t].n + 1 = ChunkSize(t)
    BY <1>15 DEF LastSector
  <2>3. /\ call' \in [Threads -> Calls] /\ CallOK(t)' /\ pc' = [pc EXCEPT ![t] = pc'[t]]
        /\ call'[t].op = call[t].op /\ call'[t].d = call[t].d /\ call'[t].lba = call[t].lba
        /\ call'[t].cnt = call[t].cnt /\ call'[t].limit = call[t].limit
        /\ call'[t].n = 0 /\ call'[t].secs = Slot(t) + 1
        /\ pc'[t] \in {"select", "unlock"}
        /\ \A u \in Threads \ {t} : pc'[u] = pc[u] /\ call'[u] = call[u]
    BY <1>1, <2>1, <2>2, ChunkDoneFacts
  <2>4. dev' \in Devs /\ dev'.st = "idle"
    BY <2>1 DEF Devs, Idle, Noise
  <2>5. RegsOK(t)' /\ DevOK(t)'
    BY <2>3, <2>4 DEF RegsOK, DevOK, Served, Sending
  <2>6. call'[t].secs + call'[t].n = Slot(t) + 1
    BY <1>2, <2>3
  <2> QED BY <1>1, <1>2, <1>13, <1>14, <2>1, <2>3, <2>4, <2>5, <2>6 DEF StateOK
<1>16. CASE ~LastSector(t)
  <2>1. /\ OneMore(t) /\ pc' = pc /\ Raise
        /\ dev' = [dev EXCEPT !.lba = dev.lba + 1, !.left = dev.left - 1, !.st = "drq"]
    BY <1>2, <1>16 DEF MoveIn
  <2>2. /\ call' \in [Threads -> Calls] /\ CallOK(t)'
        /\ call'[t].op = call[t].op /\ call'[t].d = call[t].d /\ call'[t].lba = call[t].lba
        /\ call'[t].cnt = call[t].cnt /\ call'[t].limit = call[t].limit
        /\ call'[t].n = call[t].n + 1 /\ call'[t].secs = call[t].secs
        /\ SecsOp(t)' = SecsOp(t) /\ ChunkSize(t)' = ChunkSize(t)
        /\ \A u \in Threads \ {t} : pc'[u] = pc[u] /\ call'[u] = call[u]
    BY <1>1, <1>16, <2>1, OneMoreFacts
  <2>3. dev \in Devs /\ dev.lba \in Nat /\ dev.left \in 2 .. MaxChunk
    BY <1>1, <1>2, <1>16 DEF StateOK, Devs
  <2>4. /\ dev'.op = dev.op /\ dev'.d = dev.d /\ dev'.data = dev.data /\ dev'.st = "drq"
        /\ dev'.lba = dev.lba + 1 /\ dev'.left = dev.left - 1
    BY <2>1, <2>3 DEF Devs
  <2>5. dev' = [dev EXCEPT !.lba = dev'.lba, !.left = dev'.left] /\ dev' \in Devs
    <3>1. dev.lba + 1 \in Nat /\ dev.left - 1 \in 0 .. MaxChunk
      BY <2>3
    <3> QED BY <1>2, <2>1, <2>3, <3>1 DEF Devs
  <2>6. call'[t].secs + call'[t].n = Slot(t) + 1
    BY <1>1, <2>2 DEF Slot, Calls
  <2>7. RegsOK(t)'
    BY <1>1, <1>4, <2>1, <2>2 DEF IInv, RegsOK, Served
  <2>8. DevOK(t)'
    <3>1. DevFor(t, call[t].n, Noise)
      BY <1>1 DEF IInv, DevOK, Served
    <3>2. DevFor(t, call[t].n, Noise)'
      BY <1>1, <2>2, <2>3, <2>4, <3>1 DEF DevFor, Calls
    <3> QED BY <1>1, <2>1, <2>2, <2>4, <3>2 DEF DevOK, Sending
  <2>9. intrq' \in {"low", "high", "taken"}
    BY <1>1, <2>1 DEF Raise, StateOK
  <2> QED BY <1>1, <1>2, <1>13, <1>14, <2>1, <2>2, <2>5, <2>6, <2>7, <2>8, <2>9 DEF StateOK
<1> QED BY <1>15, <1>16

\* A sector that reaches the disk is the only one that changes.
LEMMA WrittenFacts ==
  ASSUME StateOK, dev.d \in Disks, dev.lba \in 0 .. Lbas - 1, NEW w \in Int, Written(w)
  PROVE  /\ sectors' \in [Disks -> [0 .. Lbas - 1 -> Int]] /\ intrq' \in {"low", "high", "taken"}
         /\ \A d \in Disks : \A l \in 0 .. Lbas - 1 :
              sectors'[d][l] = IF d = dev.d /\ l = dev.lba THEN w ELSE sectors[d][l]
<1>1. sectors' = [sectors EXCEPT ![dev.d][dev.lba] = w]
  BY DEF Written
<1>2. sectors'[dev.d] = [sectors[dev.d] EXCEPT ![dev.lba] = w] /\ \A d \in Disks : d # dev.d => sectors'[d] = sectors[d]
  BY <1>1 DEF StateOK
<1>3. \A d \in Disks : sectors[d] \in [0 .. Lbas - 1 -> Int]
  BY DEF StateOK
<1>4. sectors' \in [Disks -> [0 .. Lbas - 1 -> Int]]
  <2>1. ASSUME NEW d \in Disks PROVE sectors'[d] \in [0 .. Lbas - 1 -> Int]
    <3>1. sectors[d] \in [0 .. Lbas - 1 -> Int]
      BY <1>3
    <3>2. [sectors[d] EXCEPT ![dev.lba] = w] \in [0 .. Lbas - 1 -> Int]
      BY <3>1
    <3> QED BY <1>2, <3>1, <3>2
  <2> QED BY <1>1, <2>1 DEF StateOK
<1>5. intrq' \in {"low", "high", "taken"}
  BY DEF Written, Raise, StateOK
<1>6. ASSUME NEW d \in Disks, NEW l \in 0 .. Lbas - 1
      PROVE  sectors'[d][l] = IF d = dev.d /\ l = dev.lba THEN w ELSE sectors[d][l]
  BY <1>2, <1>3
<1> QED BY <1>4, <1>5, <1>6

\* The sector goes to the disk, at once or, if it is the only one of the command,
\* when the controller is ready.
LEMMA MoveOutStep ==
  ASSUME IInv, InStep, NEW t \in Threads, MoveOut(t)
  PROVE  IInv'
<1> USE DEF lockVars, drvVars
<1>1. /\ StateOK /\ CallOK(t) /\ pc[t] = "move" /\ call[t] \in Calls /\ call[t].op = "write"
      /\ MaxCnt \in Nat
  <2>1. StateOK /\ CallOK(t) /\ call[t] \in Calls /\ MaxCnt \in Nat
    BY CountBound DEF IInv, StateOK
  <2> QED BY <2>1 DEF MoveOut, At
<1> DEFINE w == buf[t][Slot(t)]
<1>2. /\ Slot(t) \in 0 .. MaxCnt - 1 /\ Slot(t) < call[t].cnt
      /\ call[t].lba + Slot(t) \in 0 .. Lbas - 1 /\ call[t].d \in Disks
      /\ dev.st = "drq" /\ dev.op = "write" /\ dev.d = call[t].d /\ dev.data = Noise
      /\ dev.left \in 1 .. MaxChunk /\ (LastSector(t) <=> dev.left = 1)
  BY <1>1, MoveFacts
<1>3. dev.lba = call[t].lba + Slot(t)
  BY <1>1, <1>2, MoveFacts
<1>4. /\ UNCHANGED <<boot, owner, level, expecting, done, regs, dead, panic, buf>>
      /\ \/ Written(w)
         \/ /\ Count(regs.cnt) = 1 /\ dev' = [dev EXCEPT !.st = "busy", !.data = w]
            /\ UNCHANGED <<intrq, sectors>>
      /\ \/ LastSector(t) /\ pc' = [pc EXCEPT ![t] = "down"] /\ call' = call
         \/ ~LastSector(t) /\ OneMore(t) /\ pc' = pc
  BY <1>2 DEF MoveOut, Goto
<1>5. w \in Int
  <2>1. buf[t] \in [0 .. MaxCnt - 1 -> Int]
    BY <1>1 DEF StateOK
  <2> QED BY <1>2, <2>1
<1> HIDE DEF w
<1>6. \A u \in Threads \ {t} : pc[u] = "idle" /\ call[u] = NoCall
  BY <1>1, OthersIdle
<1>7. ChunkSize(t) = Count(regs.cnt) /\ DevFor(t, call[t].n, Noise) /\ call[t].n < ChunkSize(t)
  <2>1. regs.cnt = Reg(SecsOp(t))
    BY <1>1 DEF IInv, RegsOK, Served
  <2>2. DevFor(t, call[t].n, Noise)
    BY <1>1 DEF IInv, DevOK, Served
  <2> QED BY <1>1, <2>1, <2>2 DEF ChunkSize, CallOK
<1>8. call[t].n = 0 => intrq = "low" /\ expecting
  BY <1>1 DEF IInv, DevOK, Sending
<1>9. \A i \in 0 .. MaxCnt - 1 :
        /\ buf[t][i] = IF i < call[t].cnt THEN i + 1 ELSE Noise
        /\ i < Slot(t) => sectors[call[t].d][call[t].lba + i] = buf[t][i]
  <2>1. Moved(t) = Slot(t)
    BY <1>1, <1>2 DEF Moved, Slot, Calls
  <2> QED BY <1>1, <2>1 DEF IInv, DataOK
<1>10. ~dead
  BY <1>2 DEF IInv, IdleOK
<1>11. /\ \A i \in 0 .. Slot(t) : i \in 0 .. MaxCnt - 1 /\ call[t].lba + i \in 0 .. Lbas - 1
       /\ \A i \in 0 .. Slot(t) - 1 : i \in 0 .. MaxCnt - 1 /\ call[t].lba + i # call[t].lba + Slot(t)
  BY <1>1, <1>2 DEF Calls
<1>12. Written(w) =>
         /\ sectors' \in [Disks -> [0 .. Lbas - 1 -> Int]] /\ intrq' \in {"low", "high", "taken"}
         /\ \A i \in 0 .. MaxCnt - 1 : i < Slot(t) + 1 => sectors'[call[t].d][call[t].lba + i] = buf[t][i]
  <2> SUFFICES ASSUME Written(w)
               PROVE  /\ sectors' \in [Disks -> [0 .. Lbas - 1 -> Int]] /\ intrq' \in {"low", "high", "taken"}
                      /\ \A i \in 0 .. MaxCnt - 1 :
                           i < Slot(t) + 1 => sectors'[call[t].d][call[t].lba + i] = buf[t][i]
    OBVIOUS
  <2>1. /\ sectors' \in [Disks -> [0 .. Lbas - 1 -> Int]] /\ intrq' \in {"low", "high", "taken"}
        /\ \A d \in Disks : \A l \in 0 .. Lbas - 1 :
             sectors'[d][l] = IF d = dev.d /\ l = dev.lba THEN w ELSE sectors[d][l]
    BY <1>1, <1>2, <1>3, <1>5, WrittenFacts
  <2>2. ASSUME NEW i \in 0 .. MaxCnt - 1, i < Slot(t) + 1
        PROVE  sectors'[call[t].d][call[t].lba + i] = buf[t][i]
    <3>1. i \in 0 .. Slot(t)
      BY <1>2, <2>2
    <3>2. CASE i = Slot(t)
      BY <1>2, <1>3, <2>1, <3>2 DEF w
    <3>3. CASE i # Slot(t)
      <4>1. i \in 0 .. Slot(t) - 1 /\ i < Slot(t)
        BY <1>2, <3>1, <3>3
      <4>2. call[t].lba + i \in 0 .. Lbas - 1 /\ call[t].lba + i # dev.lba
        BY <1>3, <1>11, <3>1, <4>1
      <4>3. sectors'[call[t].d][call[t].lba + i] = sectors[call[t].d][call[t].lba + i]
        BY <1>2, <2>1, <4>2
      <4> QED BY <1>9, <4>1, <4>3
    <3> QED BY <3>2, <3>3
  <2> QED BY <2>1, <2>2
<1>13. expecting \/ done = 1
  <2>1. Answering(t)
    BY <1>1 DEF Answering, Sending
  <2> QED BY <2>1 DEF IInv, AnswerOK
\* What the three cases leave to be shown.
<1>14. ASSUME call' \in [Threads -> Calls], CallOK(t)', dev' \in Devs,
              pc' = [pc EXCEPT ![t] = pc'[t]], pc'[t] \in {"move", "down"},
              call'[t].op = call[t].op, call'[t].d = call[t].d, call'[t].lba = call[t].lba,
              call'[t].cnt = call[t].cnt, call'[t].limit = call[t].limit, call'[t].secs = call[t].secs,
              SecsOp(t)' = SecsOp(t),
              \A u \in Threads \ {t} : pc'[u] = pc[u] /\ call'[u] = call[u],
              DevOK(t)', intrq' \in {"low", "high", "taken"}, sectors' \in [Disks -> [0 .. Lbas - 1 -> Int]],
              \A i \in 0 .. MaxCnt - 1 : i < Moved(t)' => sectors'[call[t].d][call[t].lba + i] = buf[t][i]
       PROVE  IInv'
  <2>1. StateOK'
    <3>1. pc' \in [Threads -> {"idle"} \cup Quiet \cup Served]
      <4>1. PICK q \in {"move", "down"} : q = pc'[t] /\ pc' = [pc EXCEPT ![t] = q]
        BY <1>14
      <4>2. q \in Served
        BY DEF Served
      <4>3. pc \in [Threads -> {"idle"} \cup Quiet \cup Served]
        BY <1>1 DEF StateOK
      <4> QED BY <4>1, <4>2, <4>3
    <3> QED BY <1>1, <1>4, <1>14, <3>1 DEF StateOK
  <2>2. OneCaller'
    BY <1>1, <1>4, <1>6, <1>14 DEF IInv, OneCaller
  <2>3. IdleOK'
    <3>1. pc'[t] \in Served
      BY <1>14 DEF Served
    <3> QED BY <1>4, <1>10, <3>1 DEF IInv, IdleOK
  <2>4. DataOK(t)'
    BY <1>1, <1>4, <1>9, <1>14 DEF DataOK
  <2>5. Answering(t)'
    BY <1>1, <1>14 DEF Answering, Sending
  <2>6. RegsOK(t)'
    BY <1>1, <1>4, <1>14 DEF IInv, RegsOK, Served
  <2>7. expecting' => done' = 0
    BY <1>4 DEF IInv, AnswerOK
  <2> QED BY <1>4, <1>6, <1>13, <1>14, <2>1, <2>2, <2>3, <2>4, <2>5, <2>6, <2>7, OneThread
<1>15. call[t].n \in Nat /\ call[t].secs \in Nat /\ dev \in Devs /\ dev.lba \in Nat
  BY <1>1 DEF Calls, StateOK, Devs
<1>16. CASE LastSector(t)
  <2>1. pc' = [pc EXCEPT ![t] = "down"] /\ call' = call /\ dev.left = 1
    BY <1>2, <1>4, <1>16
  <2>2. /\ pc'[t] = "down" /\ SecsOp(t)' = SecsOp(t) /\ ChunkSize(t)' = ChunkSize(t) /\ Slot(t)' = Slot(t)
        /\ pc' = [pc EXCEPT ![t] = pc'[t]]
        /\ \A u \in Threads \ {t} : pc'[u] = pc[u] /\ call'[u] = call[u]
    BY <1>1, <2>1 DEF StateOK, SecsOp, ChunkSize, Slot
  <2>3. CallOK(t)' /\ call' \in [Threads -> Calls]
    BY <1>1, <1>16, <2>1, <2>2 DEF CallOK, LastSector, StateOK
  <2>4. CASE Written(w)
    <3>1. dev' = Idle
      BY <2>1, <2>4 DEF Written
    <3>2. dev' \in Devs /\ dev'.st = "idle"
      BY <3>1 DEF Devs, Idle, Noise
    <3>3. DevOK(t)'
      BY <1>1, <2>1, <2>2, <3>2 DEF DevOK, Sending
    <3>4. Moved(t)' = Slot(t) + 1
      BY <1>1, <2>1, <2>2, <3>2 DEF Moved, Slot
    <3> QED BY <1>12, <1>14, <2>1, <2>2, <2>3, <2>4, <3>2, <3>3, <3>4
  <2>5. CASE /\ Count(regs.cnt) = 1 /\ dev' = [dev EXCEPT !.st = "busy", !.data = w]
             /\ UNCHANGED <<intrq, sectors>>
    <3>1. call[t].n = 0 /\ ChunkSize(t) = 1
      BY <1>7, <1>15, <2>5
    <3>2. /\ dev'.st = "busy" /\ dev'.data = w /\ dev'.op = dev.op /\ dev'.d = dev.d
          /\ dev'.lba = dev.lba /\ dev'.left = dev.left /\ dev' \in Devs
      BY <1>5, <1>15, <2>5 DEF Devs
    <3>3. intrq' = "low" /\ expecting' /\ buf' = buf
      BY <1>4, <1>8, <2>5, <3>1
    <3>4. DevFor(t, 0, buf[t][Slot(t)])'
      BY <1>1, <1>2, <1>3, <1>15, <2>1, <2>2, <3>1, <3>2, <3>3 DEF DevFor, w, Slot, Calls
    <3>5. DevOK(t)'
      BY <1>1, <2>1, <2>2, <3>1, <3>2, <3>3, <3>4 DEF DevOK, Sending
    <3>6. Moved(t)' = Slot(t)
      BY <1>1, <1>2, <2>1, <2>2, <3>2 DEF Moved, Slot, Calls
    <3>7. intrq' \in {"low", "high", "taken"} /\ sectors' \in [Disks -> [0 .. Lbas - 1 -> Int]] /\ sectors' = sectors
      BY <1>1, <2>5 DEF StateOK
    <3> QED BY <1>9, <1>14, <2>1, <2>2, <2>3, <3>2, <3>5, <3>6, <3>7
  <2> QED BY <1>4, <2>4, <2>5
<1>17. CASE ~LastSector(t)
  <2>1. OneMore(t) /\ pc' = pc
    BY <1>4, <1>17
  <2>2. /\ call' \in [Threads -> Calls] /\ CallOK(t)'
        /\ call'[t].op = call[t].op /\ call'[t].d = call[t].d /\ call'[t].lba = call[t].lba
        /\ call'[t].cnt = call[t].cnt /\ call'[t].limit = call[t].limit
        /\ call'[t].n = call[t].n + 1 /\ call'[t].secs = call[t].secs
        /\ SecsOp(t)' = SecsOp(t) /\ ChunkSize(t)' = ChunkSize(t)
        /\ \A u \in Threads \ {t} : pc'[u] = pc[u] /\ call'[u] = call[u]
    BY <1>1, <1>17, <2>1, OneMoreFacts
  <2>3. Count(regs.cnt) # 1
    BY <1>7, <1>15, <1>17 DEF LastSector
  <2>4. Written(w) /\ dev.left \in 2 .. MaxChunk
    BY <1>2, <1>4, <1>17, <2>3
  <2>5. dev' = [dev EXCEPT !.st = "drq", !.lba = dev.lba + 1, !.left = dev.left - 1, !.data = Noise]
    BY <2>4 DEF Written
  <2>6. /\ dev'.op = dev.op /\ dev'.d = dev.d /\ dev'.data = Noise /\ dev'.st = "drq"
        /\ dev'.lba = dev.lba + 1 /\ dev'.left = dev.left - 1
    BY <1>15, <2>5 DEF Devs
  <2>7. dev' \in Devs
    <3>1. dev.lba + 1 \in Nat /\ dev.left - 1 \in 0 .. MaxChunk /\ Noise \in Int
      BY <1>15, <2>4 DEF Noise
    <3> QED BY <1>15, <2>5, <3>1 DEF Devs
  <2>8. DevFor(t, call[t].n, Noise)'
    <3>1. /\ dev.op = call[t].op /\ dev.d = call[t].d /\ dev.left + call[t].n = ChunkSize(t)
          /\ dev.op # "identify" => dev.lba = call[t].lba + call[t].secs + call[t].n
      BY <1>7 DEF DevFor
    <3>2. dev.left \in Nat /\ call[t].n \in Nat /\ call[t].secs \in Nat /\ call[t].lba \in Nat
      BY <1>1, <1>15, <2>4 DEF Calls
    <3>3. dev'.left + (call[t].n + 1) = ChunkSize(t)
      BY <2>6, <3>1, <3>2
    <3>4. dev.op # "identify" => dev'.lba = call[t].lba + call[t].secs + (call[t].n + 1)
      BY <2>6, <3>1, <3>2
    <3> QED BY <2>2, <2>6, <3>1, <3>3, <3>4 DEF DevFor
  <2>9. DevOK(t)'
    BY <1>1, <1>15, <2>1, <2>2, <2>6, <2>8 DEF DevOK, Sending
  <2>10. Moved(t)' = Slot(t) + 1
    BY <1>1, <1>15, <2>1, <2>2 DEF Moved, Slot
  <2> QED BY <1>1, <1>12, <1>14, <2>1, <2>2, <2>4, <2>7, <2>9, <2>10 DEF StateOK
<1> QED BY <1>16, <1>17

LEMMA ChunkStep ==
  ASSUME IInv, NEW t \in Threads, Chunk(t)
  PROVE  IInv'
<1> USE DEF lockVars, drvVars, devVars
<1>1. /\ StateOK /\ CallOK(t) /\ pc[t] = "next" /\ call[t] \in Calls /\ ChunkDone(t)
      /\ UNCHANGED <<boot, owner, level, expecting, done, regs, dev, intrq, sectors, dead, panic, buf>>
  BY DEF IInv, StateOK, Chunk, At
<1>2. \A u \in Threads \ {t} : pc[u] = "idle" /\ call[u] = NoCall
  BY <1>1, OthersIdle
<1>3. dev.st = "idle"
  BY <1>1, <1>2 DEF IInv, IdleOK, Served
<1>4. call[t].n + 1 = ChunkSize(t) /\ call[t].op = "write"
  <2>1. call[t].op = "write"
    BY <1>1 DEF CallOK
  <2> QED BY <1>1, <2>1 DEF CallOK
<1>5. /\ call' \in [Threads -> Calls] /\ CallOK(t)' /\ pc' = [pc EXCEPT ![t] = pc'[t]]
      /\ call'[t].op = call[t].op /\ call'[t].d = call[t].d /\ call'[t].lba = call[t].lba
      /\ call'[t].cnt = call[t].cnt /\ call'[t].limit = call[t].limit
      /\ call'[t].n = 0 /\ call'[t].secs = Slot(t) + 1
      /\ pc'[t] \in {"select", "unlock"}
      /\ \A u \in Threads \ {t} : pc'[u] = pc[u] /\ call'[u] = call[u]
  BY <1>1, <1>4, ChunkDoneFacts
<1>6. StateOK'
  <2>1. pc' \in [Threads -> {"idle"} \cup Quiet \cup Served]
    BY <1>1, <1>5 DEF StateOK, Quiet
  <2> QED BY <1>1, <1>5, <2>1 DEF StateOK
<1>7. OneCaller'
  BY <1>1, <1>2, <1>5 DEF IInv, OneCaller
<1>8. IdleOK'
  BY <1>1, <1>2, <1>3, <1>5 DEF IInv, IdleOK
<1>9. RegsOK(t)' /\ DevOK(t)' /\ ~Answering(t)'
  BY <1>5 DEF RegsOK, DevOK, Served, Sending, Answering
<1>10. Moved(t)' = Moved(t)
  BY <1>1, <1>4, <1>5 DEF Moved, Slot, Calls
<1>11. DataOK(t)'
  BY <1>1, <1>4, <1>5, <1>10 DEF IInv, DataOK
<1>12. ~expecting /\ done = 0
  <2>1. \A u \in Threads : ~Answering(u)
    BY <1>1, <1>2 DEF Answering, Sending
  <2> QED BY <1>1, <2>1 DEF IInv, AnswerOK, StateOK
<1> QED BY <1>1, <1>2, <1>5, <1>6, <1>7, <1>8, <1>9, <1>11, <1>12, OneThread

LEMMA ReturnStep ==
  ASSUME IInv, NEW t \in Threads, Return(t)
  PROVE  IInv'
<1> USE DEF drvVars, devVars
<1>1. /\ StateOK /\ CallOK(t) /\ pc[t] = "unlock"
      /\ pc' = [pc EXCEPT ![t] = "idle"] /\ call' = [call EXCEPT ![t] = NoCall] /\ buf' = [buf EXCEPT ![t] = Empty]
      /\ UNCHANGED <<boot, expecting, done, regs, dev, intrq, sectors, dead, panic>>
  BY DEF IInv, Return, At, Goto
<1>2. \A u \in Threads \ {t} : pc[u] = "idle" /\ call[u] = NoCall /\ pc'[u] = "idle" /\ call'[u] = NoCall
  BY <1>1, OthersIdle DEF StateOK
<1>3. pc'[t] = "idle" /\ call'[t] = NoCall
  BY <1>1 DEF StateOK
<1>4. dev.st = "idle"
  BY <1>1, <1>2 DEF IInv, IdleOK, Served
<1>5. /\ owner' \in [{"channel"} -> Threads \cup {NoThread}]
      /\ \A u \in Threads : owner'["channel"] # u
  <2>1. CASE call[t].op = "identify"
    <3>1. owner' = owner
      BY <2>1 DEF Return, lockVars
    <3> QED BY <1>1, <1>2, <2>1, <3>1 DEF IInv, OneCaller, StateOK
  <2>2. CASE call[t].op # "identify"
    <3>1. owner' = [owner EXCEPT !["channel"] = NoThread]
      BY <2>2 DEF Return, Unlock
    <3> QED BY <1>1, <3>1 DEF StateOK
  <2> QED BY <2>1, <2>2
<1>6. NoCall \in Calls /\ Empty \in [0 .. MaxCnt - 1 -> Int] /\ NoCall.op = "none"
  BY CountBound DEF NoCall, Calls, Empty, Noise
<1>7. StateOK'
  <2>1. /\ call' \in [Threads -> Calls] /\ buf' \in [Threads -> [0 .. MaxCnt - 1 -> Int]]
        /\ pc' \in [Threads -> {"idle"} \cup Quiet \cup Served]
    BY <1>1, <1>6 DEF StateOK
  <2> QED BY <1>1, <1>5, <2>1 DEF StateOK
<1>8. OneCaller'
  BY <1>1, <1>2, <1>3, <1>5 DEF OneCaller
<1>9. CallOK(t)' /\ RegsOK(t)' /\ DevOK(t)' /\ DataOK(t)' /\ ~Answering(t)'
  BY <1>3 DEF CallOK, RegsOK, DevOK, DataOK, Served, Sending, Answering
<1>10. IdleOK'
  BY <1>1, <1>4 DEF IInv, IdleOK
<1>11. ~expecting /\ done = 0
  <2>1. \A u \in Threads : ~Answering(u)
    BY <1>1, <1>2 DEF Answering, Sending
  <2> QED BY <1>1, <2>1 DEF IInv, AnswerOK, StateOK
<1> QED BY <1>1, <1>2, <1>3, <1>7, <1>8, <1>9, <1>10, <1>11, OneThread

LEMMA BeginStep ==
  ASSUME IInv, NEW t \in Threads, NEW op \in {"read", "write", "identify"}, NEW d \in Disks,
         NEW lba \in 0 .. Lbas - 1, NEW cnt \in 1 .. MaxCnt, lba + cnt <= Lbas, op = "identify" => cnt = 1,
         Begin(t, op, d, lba, cnt)
  PROVE  IInv'
<1>0. CASE Asserts
  BY <1>0, AssertsStep
<1> SUFFICES ASSUME Started(t, op, d, lba, cnt), ~(op # "identify" /\ lba > MaxLba) PROVE IInv'
  BY <1>0 DEF Begin
<1> USE DEF drvVars, devVars
<1> DEFINE c == [NoCall EXCEPT !.op = op, !.d = d, !.lba = lba, !.cnt = cnt]
           b == [i \in 0 .. MaxCnt - 1 |-> IF op = "write" /\ i < cnt THEN i + 1 ELSE Noise]
<1>1. /\ StateOK /\ pc[t] = "idle" /\ MaxCnt \in Nat
      /\ pc' = [pc EXCEPT ![t] = "select"] /\ call' = [call EXCEPT ![t] = c] /\ buf' = [buf EXCEPT ![t] = b]
      /\ UNCHANGED <<boot, expecting, done, regs, dev, intrq, sectors, dead, panic>>
  BY CountBound DEF IInv, Begin, Started, At, Goto
<1>2. IF boot THEN t = Main ELSE op # "identify"
  BY DEF Begin
<1>3. IF op = "identify" THEN owner' = owner
      ELSE owner["channel"] = NoThread /\ owner' = [owner EXCEPT !["channel"] = t]
  BY DEF Begin, Lock, lockVars
<1>4. \A u \in Threads : pc[u] = "idle" /\ call[u] = NoCall
  <2>1. \A u \in Threads : pc[u] = "idle"
    <3>1. CASE boot
      BY <1>1, <1>2, <3>1 DEF IInv, OneCaller
    <3>2. CASE ~boot
      BY <1>2, <1>3, <3>2 DEF IInv, OneCaller
    <3> QED BY <3>1, <3>2
  <2> QED BY <2>1 DEF IInv, CallOK
<1>5. \A u \in Threads : owner["channel"] # u
  BY <1>4 DEF IInv, OneCaller
<1>6. /\ c.op = op /\ c.d = d /\ c.lba = lba /\ c.cnt = cnt /\ c.secs = 0 /\ c.n = 0 /\ c.limit = TimeLimit
      /\ c \in Calls
  <2>1. d \in {0, 1} /\ lba \in Nat /\ cnt \in Nat /\ TimeLimit \in 0 .. TimeLimit
    BY <1>1
  <2>2. NoCall \in Calls
    BY <2>1 DEF NoCall, Calls
  <2>3. [NoCall EXCEPT !.op = op, !.d = d] \in Calls
    BY <2>1, <2>2 DEF Calls
  <2>4. \A x \in Calls : [x EXCEPT !.lba = lba, !.cnt = cnt] \in Calls
    BY <2>1 DEF Calls
  <2>5. c = [[NoCall EXCEPT !.op = op, !.d = d] EXCEPT !.lba = lba, !.cnt = cnt]
    OBVIOUS
  <2>6. c.op = op /\ c.d = d /\ c.lba = lba /\ c.cnt = cnt /\ c.secs = 0 /\ c.n = 0 /\ c.limit = TimeLimit
    BY DEF NoCall
  <2> HIDE DEF c
  <2> QED BY <2>3, <2>4, <2>5, <2>6
<1>7. b \in [0 .. MaxCnt - 1 -> Int] /\ \A i \in 0 .. MaxCnt - 1 : b[i] = IF op = "write" /\ i < cnt THEN i + 1 ELSE Noise
  BY DEF Noise
<1> HIDE DEF c, b
<1>8. /\ pc'[t] = "select" /\ call'[t] = c /\ buf'[t] = b
      /\ \A u \in Threads \ {t} : pc'[u] = "idle" /\ call'[u] = NoCall
  BY <1>1, <1>4 DEF StateOK
<1>9. c.op = op /\ c.d = d /\ c.lba = lba /\ c.cnt = cnt /\ c.secs = 0 /\ c.n = 0 /\ c.limit = TimeLimit
  BY <1>6
<1>10. StateOK'
  <2>1. /\ call' \in [Threads -> Calls] /\ buf' \in [Threads -> [0 .. MaxCnt - 1 -> Int]]
        /\ pc' \in [Threads -> {"idle"} \cup Quiet \cup Served]
    BY <1>1, <1>6, <1>7 DEF StateOK, Quiet
  <2>2. owner' \in [{"channel"} -> Threads \cup {NoThread}]
    BY <1>1, <1>3 DEF StateOK
  <2> QED BY <1>1, <2>1, <2>2 DEF StateOK
<1>11. OneCaller'
  <2>1. \A u \in Threads : owner'["channel"] = u <=> u = t /\ op # "identify"
    BY <1>1, <1>3, <1>5 DEF StateOK
  <2> QED BY <1>1, <1>2, <1>8, <1>9, <2>1 DEF OneCaller
<1>12. CallOK(t)'
  <2>1. SecsOp(t)' \in 1 .. MaxChunk
    BY <1>1, <1>8, <1>9 DEF SecsOp
  <2>2. ChunkSize(t)' > 0
    BY <2>1, RegCount DEF ChunkSize
  <2> QED BY <1>8, <1>9, <2>2 DEF CallOK
<1>13. RegsOK(t)' /\ DevOK(t)' /\ ~Answering(t)'
  BY <1>8 DEF RegsOK, DevOK, Served, Sending, Answering
<1>14. DataOK(t)'
  <2>1. Moved(t)' = 0
    BY <1>8, <1>9 DEF Moved
  <2>2. \A i \in 0 .. MaxCnt - 1 : ~(i < 0)
    BY <1>1
  <2> QED BY <1>7, <1>8, <1>9, <2>1, <2>2 DEF DataOK
<1>15. dev.st = "idle"
  BY <1>4 DEF IInv, IdleOK, Served
<1>16. IdleOK'
  BY <1>1, <1>15 DEF IInv, IdleOK
<1>17. ~expecting /\ done = 0
  <2>1. \A u \in Threads : ~Answering(u)
    BY <1>4 DEF Answering, Sending
  <2> QED BY <1>1, <2>1 DEF IInv, AnswerOK, StateOK
<1> QED BY <1>1, <1>8, <1>10, <1>11, <1>12, <1>13, <1>14, <1>16, <1>17, OneThread

\* The controller is ready for or with a sector, or has written it.
LEMMA ReadyStep ==
  ASSUME IInv, Ready
  PROVE  IInv'
<1> USE DEF lockVars, drvVars
<1>1. /\ StateOK /\ dev.st = "busy" /\ ~dead
      /\ UNCHANGED <<boot, owner, level, expecting, done, regs, dead, pc, call, buf, panic>>
  BY DEF IInv, Ready
<1>2. PICK t \in Threads : pc[t] \in Served
  BY <1>1 DEF IInv, IdleOK
<1>3. /\ CallOK(t) /\ call[t] \in Calls /\ dev \in Devs /\ MaxCnt \in Nat
  BY <1>1, CountBound DEF IInv, StateOK
<1>4. \A u \in Threads \ {t} : pc'[u] = "idle" /\ call'[u] = NoCall
  BY <1>1, <1>2, OthersIdle DEF Served
<1>5. /\ SecsOp(t)' = SecsOp(t) /\ ChunkSize(t)' = ChunkSize(t) /\ Slot(t)' = Slot(t)
  BY <1>1 DEF SecsOp, ChunkSize, Slot
<1>6. CallOK(t)' /\ RegsOK(t)' /\ (Answering(t)' <=> Answering(t)) /\ (Sending(t)' <=> Sending(t))
  BY <1>1, <1>3, <1>5 DEF IInv, CallOK, RegsOK, Answering, Sending
<1>7. OneCaller'
  BY <1>1 DEF IInv, OneCaller
<1>8. IdleOK'
  BY <1>1, <1>2 DEF IInv, IdleOK
<1>9. /\ (expecting \/ done = 1)' <=> Answering(t)'
      /\ expecting' => done' = 0
  <2>1. (\E u \in Threads : Answering(u)) <=> Answering(t)
    BY <1>1, <1>4 DEF Answering, Sending
  <2> QED BY <1>1, <1>6, <2>1 DEF IInv, AnswerOK
<1>10. pc'[t] # "command"
  BY <1>1, <1>2 DEF Served
<1>11. CASE call[t].op = "write" /\ pc[t] = "down"
  <2>1. DevFor(t, 0, buf[t][Slot(t)]) /\ ChunkSize(t) = 1
    BY <1>1, <1>11 DEF IInv, DevOK
  <2>2. call[t].n = 0 /\ Slot(t) = call[t].secs /\ Slot(t) < call[t].cnt
    BY <1>3, <1>11, <2>1 DEF CallOK, Calls, Slot
  <2>3. /\ Slot(t) \in 0 .. MaxCnt - 1 /\ call[t].d \in Disks /\ call[t].lba + Slot(t) \in 0 .. Lbas - 1
    BY <1>3, <1>11, <2>2 DEF CallOK, Calls
  <2>4. /\ dev.left = 1 /\ dev.d = call[t].d /\ dev.lba = call[t].lba + Slot(t) /\ dev.data = buf[t][Slot(t)]
    BY <1>3, <1>11, <2>1, <2>2 DEF DevFor, Calls, Devs
  <2>5. /\ \A i \in 0 .. MaxCnt - 1 :
           /\ buf[t][i] = IF i < call[t].cnt THEN i + 1 ELSE Noise
           /\ i < Slot(t) => sectors[call[t].d][call[t].lba + i] = buf[t][i]
    <3>1. Moved(t) = Slot(t)
      BY <1>1, <1>3, <1>11, <2>2 DEF Moved, Slot, Calls
    <3> QED BY <1>11, <3>1 DEF IInv, DataOK
  <2>6. dev.data # Noise /\ dev.data \in Int
    BY <2>2, <2>3, <2>4, <2>5 DEF Noise
  <2>7. Written(dev.data) /\ dev' = Idle
    BY <2>4, <2>6 DEF Ready, Written
  <2>8. /\ sectors' \in [Disks -> [0 .. Lbas - 1 -> Int]] /\ intrq' \in {"low", "high", "taken"}
        /\ \A d \in Disks : \A l \in 0 .. Lbas - 1 :
             sectors'[d][l] = IF d = dev.d /\ l = dev.lba THEN dev.data ELSE sectors[d][l]
    BY <1>1, <2>3, <2>4, <2>6, <2>7, WrittenFacts
  <2>9. dev' \in Devs /\ dev'.st = "idle"
    BY <2>7 DEF Devs, Idle, Noise
  <2>10. StateOK'
    BY <1>1, <2>8, <2>9 DEF StateOK
  <2>11. DevOK(t)'
    BY <1>1, <1>11, <2>9 DEF DevOK, Sending
  <2>12. Moved(t)' = Slot(t) + 1
    BY <1>1, <1>3, <1>11, <2>2, <2>9 DEF Moved, Calls
  <2>13. ASSUME NEW i \in 0 .. MaxCnt - 1, i < Slot(t) + 1
         PROVE  sectors'[call[t].d][call[t].lba + i] = buf[t][i]
    <3>1. call[t].lba + i \in 0 .. Lbas - 1 /\ (i # Slot(t) => i < Slot(t) /\ call[t].lba + i # call[t].lba + Slot(t))
      BY <1>3, <2>3, <2>13 DEF Calls
    <3>2. CASE i = Slot(t)
      BY <2>3, <2>4, <2>8, <3>1, <3>2
    <3>3. CASE i # Slot(t)
      BY <2>3, <2>4, <2>5, <2>8, <3>1, <3>3
    <3> QED BY <3>2, <3>3
  <2>14. DataOK(t)'
    BY <1>1, <1>11, <2>5, <2>12, <2>13 DEF DataOK
  <2>15. IdleOK'
    BY <1>1, <2>9 DEF IInv, IdleOK
  <2> QED BY <1>4, <1>6, <1>7, <1>9, <1>10, <2>10, <2>11, <2>14, <2>15, OneThread
<1>12. CASE ~(call[t].op = "write" /\ pc[t] = "down")
  <2>1. DevFor(t, call[t].n, Noise) /\ expecting /\ intrq = "low"
    BY <1>1, <1>2, <1>12 DEF IInv, DevOK
  <2>2. /\ dev' = [dev EXCEPT !.st = "drq"] /\ sectors' = sectors
        /\ IF dev.op = "write" THEN intrq' = intrq ELSE Raise
    BY <2>1 DEF Ready, DevFor
  <2>3. /\ dev'.st = "drq" /\ dev'.op = dev.op /\ dev'.d = dev.d /\ dev'.data = dev.data
        /\ dev'.lba = dev.lba /\ dev'.left = dev.left /\ dev' \in Devs
    BY <1>3, <2>2 DEF Devs
  <2>4. StateOK'
    <3>1. intrq' \in {"low", "high", "taken"}
      BY <1>1, <2>2 DEF StateOK, Raise
    <3> QED BY <1>1, <2>2, <2>3, <3>1 DEF StateOK
  <2>5. DevFor(t, call[t].n, Noise)'
    BY <1>1, <1>5, <2>1, <2>3 DEF DevFor
  <2>6. Sending(t) => intrq' = "low"
    BY <2>1, <2>2 DEF Sending, DevFor
  <2>7. DevOK(t)'
    BY <1>1, <1>6, <1>12, <2>1, <2>3, <2>5, <2>6 DEF DevOK
  <2>8. DataOK(t)'
    BY <1>1, <1>12, <2>2 DEF IInv, DataOK, Moved
  <2>9. IdleOK'
    BY <1>1, <1>2, <2>3 DEF IInv, IdleOK
  <2> QED BY <1>4, <1>6, <1>7, <1>9, <1>10, <2>4, <2>7, <2>8, <2>9, OneThread
<1> QED BY <1>11, <1>12

LEMMA FailStep ==
  ASSUME IInv, Fail
  PROVE  IInv'
<1> USE DEF lockVars, drvVars, devVars
<1>1. /\ dead' = TRUE /\ dev.st = "busy"
      /\ UNCHANGED <<boot, owner, level, expecting, done, regs, dev, intrq, sectors, pc, call, buf, panic>>
  BY DEF Fail
<1>2. StateOK'
  BY <1>1 DEF IInv, StateOK
<1>3. OneCaller' /\ AnswerOK'
  BY <1>1 DEF IInv, OneCaller, AnswerOK, Answering, Sending
<1>4. IdleOK'
  BY <1>1 DEF IInv, IdleOK
<1>5. ASSUME NEW t \in Threads PROVE (CallOK(t) /\ RegsOK(t) /\ DevOK(t) /\ DataOK(t))'
  BY <1>1 DEF IInv, CallOK, RegsOK, DevOK, DevFor, DataOK, Sending, SecsOp, ChunkSize, Slot, Moved
<1> QED BY <1>2, <1>3, <1>4, <1>5 DEF IInv

\* The handler turns what is expected into what the semaphore holds.
LEMMA IntrHdStep ==
  ASSUME IInv, IntrHd
  PROVE  IInv'
<1> USE DEF lockVars, drvVars
<1>1. /\ StateOK /\ intrq = "high" /\ (boot => pc[Main] = "down") /\ intrq' \in {"low", "taken"}
      /\ UNCHANGED <<boot, owner, level, regs, dev, sectors, dead, pc, call, buf, panic>>
  BY DEF IInv, IntrHd
<1>2. IF expecting THEN expecting' = FALSE /\ done' = done + 1 ELSE expecting' = expecting /\ done' = done
  BY DEF IntrHd
<1>3. /\ (expecting \/ done = 1)' <=> (expecting \/ done = 1)
      /\ expecting' => done' = 0
      /\ expecting' \in BOOLEAN /\ done' \in 0 .. 1
  <2>1. CASE expecting
    <3>1. done = 0
      BY <2>1 DEF IInv, AnswerOK
    <3>2. expecting' = FALSE /\ done' = 1
      BY <1>2, <2>1, <3>1
    <3>3. ~expecting' /\ expecting' \in BOOLEAN
      BY <3>2, Zenon
    <3>4. done' \in 0 .. 1
      BY <3>2
    <3> QED BY <2>1, <3>2, <3>3, <3>4
  <2>2. CASE ~expecting
    BY <1>1, <1>2, <2>2 DEF StateOK
  <2> QED BY <2>1, <2>2
<1>4. \A t \in Threads : pc[t] # "command"
  BY <1>1 DEF IInv, AnswerOK, OneCaller
<1>5. StateOK'
  BY <1>1, <1>3 DEF StateOK
<1>6. OneCaller'
  BY <1>1 DEF IInv, OneCaller
<1>7. AnswerOK'
  BY <1>1, <1>3, <1>4 DEF IInv, AnswerOK, Answering, Sending
<1>8. IdleOK'
  BY <1>1 DEF IInv, IdleOK
<1>9. ASSUME NEW t \in Threads PROVE (CallOK(t) /\ RegsOK(t) /\ DataOK(t))'
  BY <1>1 DEF IInv, CallOK, RegsOK, DataOK, SecsOp, ChunkSize, Moved
<1>10. ASSUME NEW t \in Threads PROVE DevOK(t)'
  BY <1>1 DEF IInv, DevOK, DevFor, Sending, SecsOp, ChunkSize, Slot
<1> QED BY <1>5, <1>6, <1>7, <1>8, <1>9, <1>10 DEF IInv

LEMMA BootDoneStep ==
  ASSUME IInv, BootDone
  PROVE  IInv'
<1> USE DEF lockVars, drvVars, devVars
<1>1. /\ StateOK /\ boot /\ pc[Main] = "idle" /\ boot' = FALSE
      /\ UNCHANGED <<owner, level, expecting, done, regs, dev, intrq, sectors, dead, pc, call, buf, panic>>
  BY DEF IInv, BootDone
<1>2. \A t \in Threads : pc[t] = "idle"
  BY <1>1 DEF IInv, OneCaller
<1>3. StateOK'
  BY <1>1 DEF StateOK
<1>4. OneCaller' /\ AnswerOK'
  BY <1>1, <1>2 DEF IInv, OneCaller, AnswerOK, Answering, Sending
<1>5. IdleOK'
  BY <1>1 DEF IInv, IdleOK
<1>6. ASSUME NEW t \in Threads PROVE (CallOK(t) /\ RegsOK(t) /\ DevOK(t) /\ DataOK(t))'
  BY <1>1, <1>2 DEF IInv, CallOK, RegsOK, DevOK, DataOK, Sending, Served
<1> QED BY <1>3, <1>4, <1>5, <1>6 DEF IInv

LEMMA StepOK ==
  ASSUME InStep, IInv, [Next]_vars
  PROVE  IInv'
<1>1. ASSUME NEW t \in Threads, Step(t) PROVE IInv'
  BY <1>1, SelectStep, ExpectStep, CommandStep, DownStep, PollStep, MoveInStep, MoveOutStep, ChunkStep,
     ReturnStep DEF Step
<1>2. ASSUME NEW t \in Threads, NEW op \in {"read", "write"}, NEW d \in Disks, NEW lba \in 0 .. Lbas - 1,
             NEW cnt \in Counts, lba + cnt <= Lbas, Begin(t, op, d, lba, cnt)
      PROVE  IInv'
  <2>1. cnt \in 1 .. MaxCnt /\ op \in {"read", "write", "identify"} /\ op # "identify"
    BY CountBound
  <2> QED BY <1>2, <2>1, BeginStep
<1>3. ASSUME NEW t \in Threads, NEW d \in Disks, Begin(t, "identify", d, 0, 1) PROVE IInv'
  <2>1. 0 \in 0 .. Lbas - 1 /\ 1 \in 1 .. MaxCnt /\ 0 + 1 <= Lbas
    BY CountBound
  <2> QED BY <1>3, <2>1, BeginStep
<1>4. ASSUME NEW t \in Threads, Wake(t) PROVE IInv'
  BY <1>4, WakeStep
<1>5. ASSUME UNCHANGED vars PROVE IInv'
  <2> USE <1>5 DEF vars, lockVars, drvVars, devVars
  <2>1. StateOK' /\ OneCaller' /\ AnswerOK' /\ IdleOK'
    BY DEF IInv, StateOK, OneCaller, AnswerOK, Answering, Sending, IdleOK
  <2>2. ASSUME NEW t \in Threads PROVE (CallOK(t) /\ RegsOK(t) /\ DevOK(t) /\ DataOK(t))'
    BY DEF IInv, CallOK, RegsOK, DevOK, DevFor, DataOK, Sending, SecsOp, ChunkSize, Slot, Moved
  <2> QED BY <2>1, <2>2 DEF IInv
<1> QED BY <1>1, <1>2, <1>3, <1>4, <1>5, ReadyStep, FailStep, IntrHdStep, BootDoneStep DEF Next

-----------------------------------------------------------------------------
(* What the invariant says of the driver.                                  *)

LEMMA Invariant ==
  ASSUME InStep
  PROVE  Spec => []IInv
<1>1. IInv /\ [Next]_vars => IInv'
  BY StepOK
<1> QED BY <1>1, InitOK, PTL DEF Spec

\* Of the two ways busy_wait says no, only the time-out is met: a thread that polls
\* has a controller that is busy or has the data.
LEMMA WaitStep == IInv /\ WaitedInVain /\ [Next]_vars => WaitedInVain'
<1> SUFFICES ASSUME IInv, WaitedInVain, [Next]_vars, panic' = "wait"
             PROVE  \E t \in Threads : pc'[t] = "poll" /\ call'[t].limit = 0
  BY DEF WaitedInVain
<1>1. ASSUME UNCHANGED <<pc, call, panic>> PROVE \E t \in Threads : pc'[t] = "poll" /\ call'[t].limit = 0
  BY <1>1 DEF WaitedInVain
<1>2. ASSUME NEW t \in Threads, Poll(t) PROVE \E u \in Threads : pc'[u] = "poll" /\ call'[u].limit = 0
  <2>1. StateOK /\ pc[t] = "poll" /\ call[t] \in Calls /\ panic = "none" /\ dev.st \in {"busy", "drq"}
    BY <1>2 DEF Poll, At, IInv, StateOK, DevOK, Served
  <2>2. call' = [call EXCEPT ![t].limit = 0] /\ pc' = pc
    BY <1>2, <2>1 DEF Poll
  <2>3. call'[t] = [call[t] EXCEPT !.limit = 0]
    BY <2>1, <2>2 DEF StateOK
  <2>4. call'[t].limit = 0
    BY <2>1, <2>3 DEF Calls
  <2> QED BY <2>1, <2>2, <2>4
<1>3. ASSUME NEW t \in Threads,
             Select(t) \/ Expect(t) \/ Command(t) \/ Down(t) \/ Wake(t)
      PROVE  FALSE
  BY <1>3 DEF Select, Selected, Asserts, Expect, Command, Down, Wake, At
<1>4. ASSUME NEW t \in Threads, MoveIn(t) \/ MoveOut(t) \/ Chunk(t) \/ Return(t) PROVE FALSE
  BY <1>4 DEF MoveIn, MoveOut, Chunk, Return, At
<1>5. ASSUME NEW t \in Threads, NEW op, NEW d, NEW lba, NEW cnt, Begin(t, op, d, lba, cnt) PROVE FALSE
  BY <1>5 DEF Begin, Started, Asserts, At
<1>6. ASSUME Ready \/ Fail \/ IntrHd \/ BootDone PROVE UNCHANGED <<pc, call, panic>>
  BY <1>6 DEF Ready, Fail, IntrHd, BootDone
<1>7. ASSUME UNCHANGED vars PROVE UNCHANGED <<pc, call, panic>>
  BY <1>7 DEF vars
<1> QED BY <1>1, <1>2, <1>3, <1>4, <1>5, <1>6, <1>7 DEF Next, Step

LEMMA WaitedHolds ==
  ASSUME InStep
  PROVE  Spec => []WaitedInVain
<1>1. Init => WaitedInVain
  BY DEF Init, WaitedInVain
<1> QED BY <1>1, WaitStep, Invariant, PTL DEF Spec

\* The channel stays in order: the registers and the command are written only
\* while the controller has nothing to do, and between cmd_out and the
\* sema_down for it exactly one answer is expected or kept (ide.c:86-109, 330-344);
\* and a PANIC after busy_wait is for a controller that was busy in every turn of
\* its loop, never for one that has no data (ide.c:133-147).
THEOREM ChannelStaysInOrder ==
  ASSUME InStep
  PROVE  Spec => []ChannelInOrder
<1>1. IInv => TypeOK
  <2> SUFFICES ASSUME IInv PROVE TypeOK
    OBVIOUS
  <2>1. StateOK /\ MaxCnt \in Nat
    BY CountBound DEF IInv
  <2>2. dev.st \in {"idle", "busy", "drq"} /\ dev.left \in 0 .. MaxChunk
    BY <2>1 DEF StateOK, Devs
  <2>3. ASSUME NEW t \in Threads PROVE call[t].secs \in 0 .. MaxCnt /\ call[t].limit \in 0 .. TimeLimit
    <3>1. call[t] \in Calls /\ CallOK(t)
      BY <2>1 DEF IInv, StateOK
    <3>2. CASE pc[t] = "idle"
      BY <2>1, <3>1, <3>2 DEF CallOK, NoCall, Calls
    <3>3. CASE pc[t] # "idle"
      BY <2>1, <3>1, <3>3 DEF CallOK, Calls
    <3> QED BY <3>2, <3>3
  <2> QED BY <2>1, <2>2, <2>3 DEF TypeOK, StateOK
<1>2. IInv => CommandWhenReady
  <2> SUFFICES ASSUME IInv, NEW t \in Threads, pc[t] \in {"select", "expect", "command"}
               PROVE  dev.st = "idle"
    BY DEF CommandWhenReady
  <2>1. \A u \in Threads \ {t} : pc[u] = "idle"
    BY OthersIdle
  <2> QED BY <2>1 DEF IInv, IdleOK, Served
<1>3. IInv => OneAnswer
  <2> SUFFICES ASSUME IInv PROVE OneAnswer
    OBVIOUS
  <2> DEFINE S == {t \in Threads :
                     \/ pc[t] \in {"command", "down"}
                     \/ call[t].op = "write" /\ pc[t] \in {"poll", "sleep", "move"}}
  <2>1. \A t, u \in S : t = u
    BY DEF IInv, OneCaller
  <2>2. S # {} <=> expecting \/ done = 1
    BY DEF IInv, AnswerOK, Answering, Sending
  <2> HIDE DEF S
  <2>3. Cardinality(S) \in {0, 1} /\ (Cardinality(S) = 0 <=> S = {})
    BY <2>1, AtMostOne
  <2>4. done \in 0 .. 1 /\ (expecting => done = 0)
    BY DEF IInv, StateOK, AnswerOK
  <2>5. done + (IF expecting THEN 1 ELSE 0) = Cardinality(S)
    BY <2>2, <2>3, <2>4
  <2> QED BY <2>5 DEF OneAnswer, S
<1>4. IInv /\ WaitedInVain => ChannelInOrder
  BY <1>1, <1>2, <1>3 DEF ChannelInOrder
<1> QED BY <1>4, Invariant, WaitedHolds, PTL

\* When ide_read is about to return, the buffer holds the sectors that were asked
\* for and nothing else was touched; identify_disk holds what its drive said
\* (ide.c:149-186, 240-254).
THEOREM ReadsAreDisk ==
  ASSUME InStep
  PROVE  Spec => []ReadIsDisk
<1>1. IInv => ReadIsDisk
  <2> SUFFICES ASSUME IInv, NEW t \in Threads, pc[t] = "unlock"
               PROVE  /\ call[t].op = "read" =>
                           \A i \in 0 .. MaxCnt - 1 :
                             buf[t][i] = IF i < call[t].cnt THEN sectors[call[t].d][call[t].lba + i] ELSE Noise
                      /\ call[t].op = "identify" => buf[t][0] = Info(call[t].d)
    BY DEF ReadIsDisk
  <2>1. call[t] \in Calls
    BY DEF IInv, StateOK
  <2>2. call[t].secs = call[t].cnt /\ call[t].n = 0 /\ call[t].cnt \in Nat
    BY <2>1 DEF IInv, CallOK, Calls
  <2>3. Moved(t) = call[t].cnt
    BY <2>2 DEF Moved
  <2> QED BY <2>3 DEF IInv, DataOK
<1> QED BY <1>1, Invariant, PTL

\* When ide_write is about to return, all of the buffer is on the disk (ide.c:189-229).
THEOREM WritesAreOnDisk ==
  ASSUME InStep
  PROVE  Spec => []WriteOnDisk
<1>1. IInv => WriteOnDisk
  <2> SUFFICES ASSUME IInv, NEW t \in Threads, pc[t] = "unlock", call[t].op = "write",
                      NEW i \in 0 .. call[t].cnt - 1
               PROVE  sectors[call[t].d][call[t].lba + i] = buf[t][i]
    BY DEF WriteOnDisk
  <2>1. call[t] \in Calls /\ MaxCnt \in Nat
    BY CountBound DEF IInv, StateOK
  <2>2. call[t].secs = call[t].cnt /\ call[t].n = 0 /\ call[t].cnt \in 1 .. MaxCnt
    BY DEF IInv, CallOK
  <2>3. Moved(t) = call[t].cnt /\ i \in 0 .. MaxCnt - 1 /\ i < call[t].cnt
    BY <2>1, <2>2 DEF Moved
  <2> QED BY <2>3 DEF IInv, DataOK
<1> QED BY <1>1, Invariant, PTL

\* The sector that a step changes is one of the write that is served.
LEMMA ChangedSector ==
  ASSUME InStep, IInv, [Next]_vars, NEW d \in Disks, NEW l \in 0 .. Lbas - 1, sectors'[d][l] # sectors[d][l]
  PROVE  \E t \in Threads :
           call[t].op = "write" /\ call[t].d = d /\ l \in call[t].lba .. call[t].lba + call[t].cnt - 1
<1>1. \/ \E t \in Threads : MoveOut(t)
      \/ Ready
  <2>1. CASE UNCHANGED vars
    BY <2>1 DEF vars, devVars
  <2>2. ASSUME NEW t \in Threads, NEW op, NEW e, NEW lba, NEW cnt, Begin(t, op, e, lba, cnt)
        PROVE  FALSE
    BY <2>2 DEF Begin, Started, Asserts, devVars
  <2>3. ASSUME NEW t \in Threads, Select(t) \/ Expect(t) \/ Command(t) \/ Down(t) \/ Poll(t)
        PROVE  FALSE
    <3>1. CASE Select(t)
      BY <3>1 DEF Select, Selected, Asserts, devVars
    <3>2. CASE Expect(t)
      BY <3>2 DEF Expect, devVars
    <3>3. CASE Command(t)
      BY <3>3 DEF Command, devVars
    <3>4. CASE Down(t)
      BY <3>4 DEF Down, devVars
    <3>5. CASE Poll(t)
      BY <3>5 DEF Poll, devVars
    <3> QED BY <2>3, <3>1, <3>2, <3>3, <3>4, <3>5
  <2>4. ASSUME NEW t \in Threads, MoveIn(t) \/ Chunk(t) \/ Return(t) \/ Wake(t)
        PROVE  FALSE
    <3>1. CASE MoveIn(t)
      BY <3>1 DEF MoveIn, devVars
    <3>2. CASE Chunk(t)
      BY <3>2 DEF Chunk, devVars
    <3>3. CASE Return(t)
      BY <3>3 DEF Return, devVars
    <3>4. CASE Wake(t)
      BY <3>4 DEF Wake, devVars
    <3> QED BY <2>4, <3>1, <3>2, <3>3, <3>4
  <2>5. ASSUME Fail \/ IntrHd \/ BootDone
        PROVE  FALSE
    BY <2>5 DEF Fail, IntrHd, BootDone, devVars
  <2> QED BY <2>1, <2>2, <2>3, <2>4, <2>5 DEF Next, Step
<1>2. ASSUME NEW t \in Threads, call[t].op = "write", pc[t] # "idle", dev.d = call[t].d, dev.d \in Disks,
             dev.lba = call[t].lba + Slot(t), Slot(t) \in 0 .. call[t].cnt - 1, dev.lba \in 0 .. Lbas - 1,
             NEW w \in Int, Written(w)
      PROVE  call[t].d = d /\ l \in call[t].lba .. call[t].lba + call[t].cnt - 1
  <2>1. StateOK /\ call[t] \in Calls
    BY DEF IInv, StateOK
  <2>2. d = dev.d /\ l = dev.lba
    BY <1>2, <2>1, WrittenFacts
  <2>3. call[t].lba \in Nat /\ call[t].cnt \in Nat
    BY <2>1 DEF Calls
  <2> QED BY <1>2, <2>2, <2>3
<1>3. ASSUME NEW t \in Threads, MoveOut(t)
      PROVE  call[t].op = "write" /\ call[t].d = d /\ l \in call[t].lba .. call[t].lba + call[t].cnt - 1
  <2>1. pc[t] = "move" /\ call[t].op = "write" /\ StateOK /\ call[t] \in Calls
    BY <1>3 DEF MoveOut, At, IInv, StateOK
  <2>2. /\ Slot(t) \in 0 .. MaxCnt - 1 /\ Slot(t) < call[t].cnt /\ dev.d = call[t].d /\ call[t].d \in Disks
        /\ call[t].lba + Slot(t) \in 0 .. Lbas - 1 /\ dev.op = "write" /\ dev.st = "drq"
    BY <2>1, MoveFacts
  <2>3. dev.lba = call[t].lba + Slot(t)
    BY <2>1, <2>2, MoveFacts
  <2>4. Written(buf[t][Slot(t)])
    BY <1>3, <2>2 DEF MoveOut
  <2>5. buf[t][Slot(t)] \in Int /\ Slot(t) \in 0 .. call[t].cnt - 1
    <3>1. buf[t] \in [0 .. MaxCnt - 1 -> Int]
      BY <2>1 DEF StateOK
    <3>2. call[t].cnt \in Nat /\ MaxCnt \in Nat
      BY <2>1, CountBound DEF Calls
    <3>3. Slot(t) \in 0 .. call[t].cnt - 1
      BY <2>2, <3>2
    <3> QED BY <2>2, <3>1, <3>3
  <2> QED BY <1>2, <2>1, <2>2, <2>3, <2>4, <2>5
<1>4. ASSUME Ready
      PROVE  \E t \in Threads :
               call[t].op = "write" /\ call[t].d = d /\ l \in call[t].lba .. call[t].lba + call[t].cnt - 1
  <2>1. dev.st = "busy" /\ dev.data # Noise /\ Written(dev.data)
    BY <1>4 DEF Ready
  <2>2. PICK t \in Threads : pc[t] \in Served
    BY <2>1 DEF IInv, IdleOK
  <2>3. StateOK /\ call[t] \in Calls /\ dev \in Devs /\ CallOK(t)
    BY DEF IInv, StateOK
  <2>4. call[t].op = "write" /\ pc[t] = "down" /\ DevFor(t, 0, buf[t][Slot(t)]) /\ ChunkSize(t) = 1
    BY <2>1, <2>2 DEF IInv, DevOK, DevFor
  <2>5. Slot(t) = call[t].secs /\ Slot(t) \in 0 .. call[t].cnt - 1 /\ call[t].lba + Slot(t) \in 0 .. Lbas - 1
    BY <2>3, <2>4 DEF CallOK, Calls, Slot
  <2>6. dev.d = call[t].d /\ call[t].d \in Disks /\ dev.lba = call[t].lba + Slot(t) /\ dev.data \in Int
    BY <2>3, <2>4, <2>5 DEF DevFor, CallOK, Calls, Devs
  <2> QED BY <1>2, <2>1, <2>4, <2>5, <2>6
<1> QED BY <1>1, <1>3, <1>4

\* No step of the driver or of the controller changes a sector outside the one
\* write that is going on (ide.c:189-229).
THEOREM WritesStayInside ==
  ASSUME InStep
  PROVE  Spec => OnlyWhatIsWritten
<1>1. IInv /\ [Next]_vars =>
        [\A d \in Disks : \A l \in 0 .. Lbas - 1 : sectors'[d][l] # sectors[d][l] =>
           \E t \in Threads : LET c == call[t] IN
             c.op = "write" /\ c.d = d /\ l \in c.lba .. c.lba + c.cnt - 1]_vars
  BY ChangedSector
<1> QED BY <1>1, Invariant, PTL DEF Spec, OnlyWhatIsWritten
=============================================================================
