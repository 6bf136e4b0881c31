------------------------------- MODULE IdeInv -------------------------------
(* The inductive invariant of Ide, for a controller that keeps pace.       *)
EXTENDS Ide

Quiet == {"select", "expect", "command", "next", "unlock"}
Served == {"down", "poll", "sleep", "move"}

\* A chunk that is being written.
Sending(t) == call[t].op = "write" /\ pc[t] \in {"poll", "sleep", "move"}

\* The driver is owed an answer to the command it is about to give or has given.
Answering(t) == pc[t] \in {"command", "down"} \/ Sending(t)

Calls == [op : {"none", "read", "write", "identify"}, d : {0, 1}, lba : Nat, cnt : Nat, secs : Nat, n : Nat,
          limit : 0 .. TimeLimit]
Devs == [st : {"idle", "busy", "drq"}, op : {"none", "read", "write", "identify"}, d : {0, 1}, lba : Nat,
         left : 0 .. MaxChunk, data : Int]

StateOK ==
  /\ boot \in BOOLEAN /\ expecting \in BOOLEAN /\ dead \in BOOLEAN
  /\ panic \in {"none", "lba", "wait"}
  /\ owner \in [{"channel"} -> Threads \cup {NoThread}]
  /\ done \in 0 .. 1
  /\ regs \in [cnt : 0 .. MaxChunk - 1, lba : 0 .. Lbas - 1, d : {0, 1}]
  /\ dev \in Devs
  /\ intrq \in {"low", "high", "taken"}
  /\ sectors \in [Disks -> [0 .. Lbas - 1 -> Int]]
  /\ pc \in [Threads -> {"idle"} \cup Quiet \cup Served]
  /\ call \in [Threads -> Calls]
  /\ buf \in [Threads -> [0 .. MaxCnt - 1 -> Int]]

\* One thread at a time is in a call: the boot code's, or the one that has the lock.
OneCaller ==
  /\ \A t, u \in Threads : pc[t] # "idle" /\ pc[u] # "idle" => t = u
  /\ \A t \in Threads :
       /\ boot /\ t # Main => pc[t] = "idle"
       /\ ~boot /\ pc[t] # "idle" => call[t].op # "identify"
       /\ (owner["channel"] = t) <=> (pc[t] # "idle" /\ call[t].op # "identify")

\* Arguments and variables of a call: what is left of it, and of its chunk.
CallOK(t) ==
  LET c == call[t] IN
    IF pc[t] = "idle" THEN c = NoCall ELSE
      /\ c.op # "none" /\ c.d \in Disks /\ c.cnt \in 1 .. MaxCnt /\ c.lba + c.cnt <= Lbas
      /\ c.op = "identify" => c.cnt = 1
      /\ pc[t] = "next" => c.op = "write"
      /\ IF pc[t] = "unlock" THEN c.secs = c.cnt /\ c.n = 0
         ELSE /\ c.secs < c.cnt
              /\ IF c.op = "write" /\ pc[t] \in {"down", "next"} THEN c.n + 1 = ChunkSize(t)
                 ELSE c.n < ChunkSize(t)
              /\ c.n # 0 => pc[t] = "move" \/ (c.op = "write" /\ pc[t] \in {"down", "next"})

\* The registers have what the call has selected.
RegsOK(t) ==
  pc[t] \in {"expect", "command"} \cup Served =>
    /\ regs.d = call[t].d
    /\ call[t].op # "identify" => regs.lba = call[t].lba + call[t].secs /\ regs.cnt = Reg(SecsOp(t))

\* What the controller does is what the caller waits for; otherwise it is idle.
DevFor(t, n, data) ==
  /\ dev.op = call[t].op /\ dev.d = call[t].d /\ dev.data = data
  /\ dev.left + n = ChunkSize(t)
  /\ dev.op # "identify" => dev.lba = call[t].lba + call[t].secs + n

DevOK(t) ==
  /\ (pc[t] \in Served /\ ~(call[t].op = "write" /\ pc[t] = "down")) =>
       /\ dev.st \in {"busy", "drq"}
       /\ (pc[t] = "move" \/ (call[t].op # "write" /\ pc[t] # "down")) => dev.st = "drq"
       /\ DevFor(t, call[t].n, Noise)
       /\ dev.st = "busy" => intrq = "low" /\ expecting
  /\ Sending(t) /\ call[t].n = 0 => intrq = "low" /\ expecting
  /\ call[t].op = "write" /\ pc[t] = "down" =>
       \/ dev.st = "idle"
       \/ /\ dev.st = "busy" /\ intrq = "low" /\ expecting
          /\ DevFor(t, 0, buf[t][Slot(t)]) /\ ChunkSize(t) = 1

IdleOK ==
  /\ dev.st = "idle" \/ \E t \in Threads : pc[t] \in Served
  /\ dead => dev.st = "busy"

\* The handler expects an answer, or the semaphore has it: as long as one is owed.
AnswerOK ==
  /\ (expecting \/ done = 1) <=> \E t \in Threads : Answering(t)
  /\ expecting => done = 0
  /\ \A t \in Threads : pc[t] = "command" => expecting /\ (boot \/ intrq # "high")

\* The sectors of a call that are moved so far are the disk's, or are on the disk.
Moved(t) ==
  call[t].secs + call[t].n +
    IF call[t].op = "write" /\ (pc[t] = "next" \/ (pc[t] = "down" /\ dev.st = "idle")) THEN 1 ELSE 0

DataOK(t) ==
  LET c == call[t] IN
    /\ pc[t] # "idle" /\ c.op = "read" =>
         \A i \in 0 .. MaxCnt - 1 : buf[t][i] = IF i < Moved(t) THEN sectors[c.d][c.lba + i] ELSE Noise
    /\ pc[t] = "unlock" /\ c.op = "identify" => buf[t][0] = Info(c.d)
    /\ pc[t] # "idle" /\ c.op = "write" =>
         \A i \in 0 .. MaxCnt - 1 :
           /\ buf[t][i] = IF i < c.cnt THEN i + 1 ELSE Noise
           /\ i < Moved(t) => sectors[c.d][c.lba + i] = buf[t][i]

IInv ==
  /\ StateOK
  /\ OneCaller
  /\ \A t \in Threads : CallOK(t) /\ RegsOK(t) /\ DevOK(t) /\ DataOK(t)
  /\ IdleOK
  /\ AnswerOK
=============================================================================
