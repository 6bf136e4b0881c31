--------------------------------- MODULE Ide --------------------------------
(***************************************************************************)
(* One channel of the disk driver, device/ide.c: ide_read, ide_write and   *)
(* identify_disk of threads that share it, the interrupt handler, and the  *)
(* disk controller on the other side of the ports.                         *)
(*                                                                         *)
(* The controller is modelled from how the driver uses it.  It takes a     *)
(* command and is busy until the first sector can be moved; it interrupts  *)
(* for every sector that can be read and for every one that is written.    *)
(* A read of the status register, or a new command, takes the interrupt    *)
(* back.  The driver moves all sectors of a command after one wait; so the *)
(* controller must keep pace (InStep): after the first sector of several   *)
(* it is never busy.                                                       *)
(*                                                                         *)
(* The lock is Mutex's.  One processor runs everything: with interrupts on *)
(* an interrupt is taken before the next step of any thread.               *)
(***************************************************************************)
EXTENDS Integers, FiniteSetsExt

CONSTANTS
  Threads,
  Main,      \* the thread of the boot code
  NoThread,
  Disks,     \* dev_no of the disks on the channel
  Lbas,      \* sectors of a disk
  MaxLba,    \* max_lba: 163839, the last sector of a disk of 80 MB
  MaxChunk,  \* sectors of one command: 256, which is 0 in the 8-bit register
  Counts,    \* numbers of sectors that are asked for
  TimeLimit, \* time_limit of busy_wait
  InStep     \* the controller keeps pace with the driver

ASSUME IdeAssumption ==
  /\ Main \in Threads /\ NoThread \notin Threads
  /\ Disks \subseteq {0, 1}
  /\ Lbas \in Nat \ {0} /\ MaxLba \in Nat /\ MaxChunk \in Nat \ {0} /\ Counts \subseteq 1 .. Lbas /\ Counts # {}
  /\ TimeLimit \in Nat \ {0, 1}
  /\ InStep \in BOOLEAN

\* What a sector holds: 0 at first, i + 1 once it is written from sector i of a
\* buffer; what identify_disk reads; and what is read when there is no data.
Info(d) == -2 - d
Noise == -1

MaxCnt == Max(Counts)

VARIABLES
  boot,       \* init_all is running: one thread, with interrupts off
  owner, level,
  expecting,  \* channel->expecting_intr
  done,       \* value of the semaphore disk_done
  regs,       \* sector count, address and drive in the registers
  dev,        \* what the controller is doing
  intrq,      \* its interrupt line: "low", "high", or "taken" by the processor
  dead,       \* the disk has failed
  sectors,    \* sectors[d][lba]
  pc, call,   \* what a thread does next, and its arguments and variables
  buf,        \* the memory it reads into
  panic       \* what stopped the kernel: an ASSERT on the address, a PANIC after busy_wait

INSTANCE Mutex WITH Locks <- {"channel"}

lockVars == <<owner, level>>
drvVars == <<expecting, done>>
devVars == <<dev, intrq, sectors>>
vars == <<boot, lockVars, drvVars, regs, devVars, dead, pc, call, buf, panic>>

NoCall == [op |-> "none", d |-> 0, lba |-> 0, cnt |-> 0, secs |-> 0, n |-> 0, limit |-> TimeLimit]
Idle == [st |-> "idle", op |-> "none", d |-> 0, lba |-> 0, left |-> 0, data |-> Noise]
Empty == [i \in 0 .. MaxCnt - 1 |-> Noise]

Init ==
  /\ boot = TRUE
  /\ MutexInit
  /\ expecting = FALSE
  /\ done = 0
  /\ regs = [cnt |-> 0, lba |-> 0, d |-> 0]
  /\ dev = Idle
  /\ intrq = "low"
  /\ dead = FALSE
  /\ sectors = [d \in Disks |-> [l \in 0 .. Lbas - 1 |-> 0]]
  /\ pc = [t \in Threads |-> "idle"]
  /\ call = [t \in Threads |-> NoCall]
  /\ buf = [t \in Threads |-> Empty]
  /\ panic = "none"

-----------------------------------------------------------------------------

\* Thread t takes a step: no interrupt is due, or interrupts are off.
At(t, p) == pc[t] = p /\ panic = "none" /\ (boot \/ intrq # "high")
Goto(t, p) == pc' = [pc EXCEPT ![t] = p]

\* secs_op for the sectors that are left, and what the 8-bit register and
\* argument make of it and back.
SecsOp(t) == IF call[t].secs + MaxChunk <= call[t].cnt THEN MaxChunk ELSE call[t].cnt - call[t].secs
Reg(n) == n % MaxChunk
Count(r) == IF r = 0 THEN MaxChunk ELSE r

\* The kernel stops at an ASSERT.
Asserts == panic' = "lba" /\ UNCHANGED <<boot, lockVars, drvVars, regs, devVars, dead, pc, call, buf>>

Started(t, op, d, lba, cnt) ==
  /\ call' = [call EXCEPT ![t] = [NoCall EXCEPT !.op = op, !.d = d, !.lba = lba, !.cnt = cnt]]
  /\ buf' = [buf EXCEPT ![t] = [i \in 0 .. MaxCnt - 1 |-> IF op = "write" /\ i < cnt THEN i + 1 ELSE Noise]]
  /\ Goto(t, "select")
  /\ UNCHANGED <<boot, drvVars, regs, devVars, dead, panic>>

\* Mutant: the lock is not taken.
BeginUnlocked(t, op, d, lba, cnt) ==
  /\ At(t, "idle") /\ IF boot THEN t = Main ELSE op # "identify"
  /\ IF op # "identify" /\ lba > MaxLba THEN Asserts
     ELSE UNCHANGED lockVars /\ Started(t, op, d, lba, cnt)

\* A call: its ASSERT on the first sector (ide.c:151, 196), and its start, when it
\* gets the lock.  identify_disk has neither: ide_init is alone.
Begin(t, op, d, lba, cnt) ==
  /\ At(t, "idle") /\ IF boot THEN t = Main ELSE op # "identify"
  /\ IF op # "identify" /\ lba > MaxLba THEN Asserts
     ELSE /\ IF op = "identify" THEN UNCHANGED lockVars ELSE Lock(t, "channel")
          /\ Started(t, op, d, lba, cnt)

Selected(t, r) ==
  /\ regs' = r
  /\ Goto(t, "expect")
  /\ UNCHANGED <<boot, lockVars, drvVars, devVars, dead, call, buf, panic>>

\* Mutant: every command starts at the first sector of the call.
SelectFirst(t) ==
  /\ At(t, "select")
  /\ Selected(t, [cnt |-> Reg(SecsOp(t)), lba |-> call[t].lba, d |-> call[t].d])

\* Mutant: select_sector loses the drive that select_disk has chosen.
SelectMaster(t) ==
  /\ At(t, "select")
  /\ Selected(t, IF call[t].op = "identify" THEN [regs EXCEPT !.d = call[t].d]
                 ELSE [cnt |-> Reg(SecsOp(t)), lba |-> call[t].lba + call[t].secs, d |-> 0])

\* select_disk, and select_sector with its ASSERT on the first sector of the
\* command (ide.c:88), which comes when those before have been carried out.
Select(t) ==
  /\ At(t, "select")
  /\ IF call[t].op = "identify" THEN Selected(t, [regs EXCEPT !.d = call[t].d])
     ELSE IF call[t].lba + call[t].secs > MaxLba THEN Asserts
     ELSE Selected(t, [cnt |-> Reg(SecsOp(t)), lba |-> call[t].lba + call[t].secs, d |-> call[t].d])

\* Mutant: the flag is not set.
ExpectNot(t) ==
  /\ At(t, "expect")
  /\ Goto(t, "command")
  /\ UNCHANGED <<boot, lockVars, drvVars, regs, devVars, dead, call, buf, panic>>

\* cmd_out: first the flag ...
Expect(t) ==
  /\ At(t, "expect")
  /\ expecting' = TRUE
  /\ Goto(t, "command")
  /\ UNCHANGED <<boot, lockVars, done, regs, devVars, dead, call, buf, panic>>

\* ... then the command, which the controller ignores while it is busy.
Command(t) ==
  /\ At(t, "command")
  /\ IF dev.st = "busy" THEN UNCHANGED <<dev, intrq>>
     ELSE /\ intrq' = "low"
          /\ dev' \in {[st |-> s, op |-> call[t].op, d |-> regs.d, lba |-> regs.lba, data |-> Noise,
                        left |-> IF call[t].op = "identify" THEN 1 ELSE Count(regs.cnt)] :
                         s \in IF call[t].op = "write" THEN {"busy", "drq"} ELSE {"busy"}}
  /\ Goto(t, IF call[t].op = "write" THEN "poll" ELSE "down")
  /\ UNCHANGED <<boot, lockVars, drvVars, regs, sectors, dead, call, buf, panic>>

\* Mutant: sema_down before the data is sent is not repeated after.
DownNot(t) ==
  /\ At(t, "down")
  /\ IF call[t].op = "write" THEN UNCHANGED done ELSE done > 0 /\ done' = done - 1
  /\ Goto(t, IF call[t].op = "write" THEN "next" ELSE "poll")
  /\ UNCHANGED <<boot, lockVars, expecting, regs, devVars, dead, call, buf, panic>>

\* sema_down(&channel->disk_done).
Down(t) ==
  /\ At(t, "down") /\ done > 0
  /\ done' = done - 1
  /\ Goto(t, IF call[t].op = "write" THEN "next" ELSE "poll")
  /\ UNCHANGED <<boot, lockVars, expecting, regs, devVars, dead, call, buf, panic>>

\* busy_wait, one turn of its loop: `time_limit -= 10 >= 0' takes 1 from the
\* limit.  It counts turns, whatever the disk is doing: one that has not failed
\* but is slow runs into the limit too.
Poll(t) ==
  /\ At(t, "poll")
  /\ \/ /\ call[t].limit = 1 /\ panic' = "wait"
        /\ call' = [call EXCEPT ![t].limit = 0]
        /\ UNCHANGED <<intrq, pc>>
     \/ /\ call[t].limit > 1 /\ intrq' = "low"
        /\ \/ dev.st = "busy" /\ call' = [call EXCEPT ![t].limit = @ - 1] /\ Goto(t, "sleep") /\ UNCHANGED panic
           \/ dev.st = "drq" /\ call' = [call EXCEPT ![t].limit = TimeLimit] /\ Goto(t, "move") /\ UNCHANGED panic
           \/ dev.st = "idle" /\ panic' = "wait" /\ UNCHANGED <<pc, call>>
  /\ UNCHANGED <<boot, lockVars, drvVars, regs, dev, sectors, dead, buf>>

\* mtime_sleep: it returns after a tick, and ticks need interrupts.
Wake(t) ==
  /\ At(t, "sleep")
  /\ Goto(t, "poll")
  /\ UNCHANGED <<boot, lockVars, drvVars, regs, devVars, dead, call, buf, panic>>

\* The line rises; a request that was taken and not answered keeps it high.
Raise == intrq' = IF intrq = "low" THEN "high" ELSE intrq

\* The sectors insw and outsw move, the one whose turn it is, and the step to the
\* next; the chunk is done when its last sector is moved and, if it is written,
\* answered.
ChunkSize(t) == IF call[t].op = "identify" THEN 1 ELSE Count(Reg(SecsOp(t)))
Slot(t) == call[t].secs + call[t].n
LastSector(t) == call[t].n + 1 = ChunkSize(t)
ChunkDone(t) ==
  LET secs == call[t].secs + IF call[t].op = "identify" THEN 1 ELSE SecsOp(t) IN
    /\ call' = [call EXCEPT ![t].n = 0, ![t].secs = secs]
    /\ Goto(t, IF secs < call[t].cnt THEN "select" ELSE "unlock")
OneMore(t) == call' = [call EXCEPT ![t].n = @ + 1]

\* insw of one sector; the controller goes on with the next one.
MoveIn(t) ==
  /\ At(t, "move") /\ call[t].op # "write"
  /\ buf' = [buf EXCEPT ![t][Slot(t)] = IF dev.st # "drq" THEN Noise
                                          ELSE IF dev.op = "identify" THEN Info(dev.d)
                                          ELSE sectors[dev.d][dev.lba]]
  /\ IF dev.st # "drq" THEN UNCHANGED <<dev, intrq>>
     ELSE IF dev.left = 1 THEN dev' = Idle /\ UNCHANGED intrq
     ELSE /\ dev' = [dev EXCEPT !.lba = @ + 1, !.left = @ - 1, !.st = IF InStep THEN "drq" ELSE "busy"]
          /\ IF InStep THEN Raise ELSE UNCHANGED intrq
  /\ IF LastSector(t) THEN ChunkDone(t) ELSE OneMore(t) /\ UNCHANGED pc
  /\ UNCHANGED <<boot, lockVars, drvVars, regs, sectors, dead, panic>>

\* A sector reaches the disk, and the controller says so.
Written(value) ==
  /\ sectors' = [sectors EXCEPT ![dev.d][dev.lba] = value]
  /\ dev' = IF dev.left = 1 THEN Idle
            ELSE [dev EXCEPT !.st = "drq", !.lba = @ + 1, !.left = @ - 1, !.data = Noise]
  /\ Raise

\* outsw of one sector.
MoveOut(t) ==
  /\ At(t, "move") /\ call[t].op = "write"
  /\ \/ dev.st = "drq" /\ Written(buf[t][Slot(t)])
     \/ /\ dev.st = "drq" /\ (InStep => Count(regs.cnt) = 1)
        /\ dev' = [dev EXCEPT !.st = "busy", !.data = buf[t][Slot(t)]]
        /\ UNCHANGED <<intrq, sectors>>
     \/ dev.st # "drq" /\ UNCHANGED devVars
  /\ IF LastSector(t) THEN Goto(t, "down") /\ UNCHANGED call ELSE OneMore(t) /\ UNCHANGED pc
  /\ UNCHANGED <<boot, lockVars, drvVars, regs, dead, buf, panic>>

\* A chunk that was written is answered: the next one, or the end.
Chunk(t) ==
  /\ At(t, "next")
  /\ ChunkDone(t)
  /\ UNCHANGED <<boot, lockVars, drvVars, regs, devVars, dead, buf, panic>>

Return(t) ==
  /\ At(t, "unlock")
  /\ IF call[t].op = "identify" THEN UNCHANGED lockVars ELSE Unlock(t, "channel")
  /\ call' = [call EXCEPT ![t] = NoCall]
  /\ buf' = [buf EXCEPT ![t] = Empty]
  /\ Goto(t, "idle")
  /\ UNCHANGED <<boot, drvVars, regs, devVars, dead, panic>>

-----------------------------------------------------------------------------

\* The controller is ready for or with a sector.
Ready ==
  /\ dev.st = "busy" /\ ~dead
  /\ IF dev.data # Noise THEN Written(dev.data)
     ELSE /\ dev' = [dev EXCEPT !.st = "drq"]
          /\ IF dev.op = "write" THEN UNCHANGED intrq ELSE Raise
          /\ UNCHANGED sectors
  /\ UNCHANGED <<boot, lockVars, drvVars, regs, dead, pc, call, buf, panic>>

\* The disk fails and stays busy.
Fail ==
  /\ dev.st = "busy" /\ ~dead /\ panic = "none"
  /\ dead' = TRUE
  /\ UNCHANGED <<boot, lockVars, drvVars, regs, devVars, pc, call, buf, panic>>

\* Mutant: the flag is not taken back.
IntrHdKeepsFlag ==
  /\ intrq = "high" /\ panic = "none"
  /\ boot => pc[Main] = "down" /\ done = 0
  /\ IF expecting
       THEN done' = done + 1 /\ intrq' = "low" /\ UNCHANGED expecting
       ELSE intrq' = "taken" /\ UNCHANGED drvVars
  /\ UNCHANGED <<boot, lockVars, regs, dev, sectors, dead, pc, call, buf, panic>>

\* intr_hd_handler.  The boot code has interrupts on while it is blocked and the
\* idle thread runs.
IntrHd ==
  /\ intrq = "high" /\ panic = "none"
  /\ boot => pc[Main] = "down" /\ done = 0
  /\ IF expecting
       THEN expecting' = FALSE /\ done' = done + 1 /\ intrq' = "low"
       ELSE intrq' = "taken" /\ UNCHANGED drvVars
  /\ UNCHANGED <<boot, lockVars, regs, dev, sectors, dead, pc, call, buf, panic>>

\* main's intr_enable.
BootDone ==
  /\ boot /\ pc[Main] = "idle"
  /\ boot' = FALSE
  /\ UNCHANGED <<lockVars, drvVars, regs, devVars, dead, pc, call, buf, panic>>

Step(t) ==
  \/ Select(t) \/ Expect(t) \/ Command(t) \/ Down(t) \/ Poll(t)
  \/ MoveIn(t) \/ MoveOut(t) \/ Chunk(t) \/ Return(t)

Next ==
  \/ \E t \in Threads :
       \/ \E op \in {"read", "write"}, d \in Disks, lba \in 0 .. Lbas - 1, cnt \in Counts :
            lba + cnt <= Lbas /\ Begin(t, op, d, lba, cnt)
       \/ \E d \in Disks : Begin(t, "identify", d, 0, 1)
       \/ Step(t) \/ Wake(t)
  \/ Ready \/ Fail \/ IntrHd \/ BootDone

\* The controller answers unless it fails, interrupts are taken, and a thread
\* that can run runs (Sync); a thread that sleeps wakes if interrupts are on.
Fairness ==
  /\ WF_vars(Ready) /\ WF_vars(IntrHd)
  /\ \A t \in Threads : WF_vars(Step(t)) /\ WF_vars(~boot /\ Wake(t))

Spec == Init /\ [][Next]_vars /\ Fairness

-----------------------------------------------------------------------------

TypeOK ==
  /\ boot \in BOOLEAN /\ expecting \in BOOLEAN /\ dead \in BOOLEAN
  /\ panic \in {"none", "lba", "wait"}
  /\ owner \in [{"channel"} -> Threads \cup {NoThread}]
  /\ done \in 0 .. 1
  /\ regs \in [cnt : 0 .. MaxChunk - 1, lba : 0 .. Lbas - 1, d : {0, 1}]
  /\ dev.st \in {"idle", "busy", "drq"} /\ dev.left \in 0 .. MaxChunk
  /\ intrq \in {"low", "high", "taken"}
  /\ \A t \in Threads : call[t].secs \in 0 .. MaxCnt /\ call[t].limit \in 0 .. TimeLimit

\* ide_read has filled the buffer, and no more of it, with what is on the disk
\* (ide.c:149), in chunks, from the drive that was meant.
ReadIsDisk ==
  \A t \in Threads : LET c == call[t] IN
    pc[t] = "unlock" /\ ~dead =>
      /\ c.op = "read" =>
           \A i \in 0 .. MaxCnt - 1 :
             buf[t][i] = IF i < c.cnt THEN sectors[c.d][c.lba + i] ELSE Noise
      /\ c.op = "identify" => buf[t][0] = Info(c.d)

\* When ide_write returns, all of the buffer is on the disk (ide.c:194, 228).
WriteOnDisk ==
  \A t \in Threads : LET c == call[t] IN
    pc[t] = "unlock" /\ c.op = "write" /\ ~dead =>
      \A i \in 0 .. c.cnt - 1 : sectors[c.d][c.lba + i] = buf[t][i]

\* Registers and commands are written only when the controller has finished the
\* command before (ide.c:86-109 never ask it).
CommandWhenReady ==
  \A t \in Threads : pc[t] \in {"select", "expect", "command"} /\ ~dead => dev.st = "idle"

\* A command is answered once: between cmd_out and the sema_down for it either
\* the handler has yet to expect the answer or the semaphore holds it, and at no
\* other time (ide.c:335-341).
OneAnswer ==
  done + (IF expecting THEN 1 ELSE 0) =
    Cardinality({t \in Threads :
      \/ pc[t] \in {"command", "down"}
      \/ call[t].op = "write" /\ pc[t] \in {"poll", "sleep", "move"}})

\* The PANIC after busy_wait (ide.c:180-184, 219-223) is for a controller that was
\* busy in every turn of the loop: no call asks it for data that it has not got.
WaitedInVain == panic = "wait" => \E t \in Threads : pc[t] = "poll" /\ call[t].limit = 0

\* The types, a controller that is ready, one answer and what a time-out means
\* (ide.c:86-109, 133-147, 330-344).
ChannelInOrder == TypeOK /\ CommandWhenReady /\ OneAnswer /\ WaitedInVain

\* A sector changes only by a call that writes it.
OnlyWhatIsWritten ==
  [][\A d \in Disks : \A l \in 0 .. Lbas - 1 : sectors'[d][l] # sectors[d][l] =>
       \E t \in Threads : LET c == call[t] IN
         c.op = "write" /\ c.d = d /\ l \in c.lba .. c.lba + c.cnt - 1]_vars

\* A call returns, if the kernel does not stop (for an address, or for a disk that
\* is too slow: WaitedInVain) and the disk does not fail, in which case one that
\* waits for the interrupt waits for ever.  The boot code, too, waits for ever when
\* it finds the disk busy and sleeps, because its interrupts are off (timer.c:43).
CallReturns ==
  \A t \in Threads :
    pc[t] # "idle" ~> \/ pc[t] = "idle" \/ panic # "none"
                      \/ dead /\ pc[t] = "down"
                      \/ boot /\ pc[t] = "sleep"
=============================================================================
