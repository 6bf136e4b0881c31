# OS_Jia in TLA+

This directory specifies and checks OS_Jia, a small teaching kernel for one
32-bit x86 CPU (C and assembler under `src/`). The modules are written from the
code; `PROJECT.json` maps every definition to the lines it stands for, and lists
components, runs, mutants, hazards, findings and theorems. This file explains
what is modelled, what the runs show, and what is proved.

To run it, in this directory:

    tlc -config MCSync.cfg MCSync      # likewise for the other runs of PROJECT.json
    tlapm SyncProofs.tla               # and DataLemmas, LibProofs, IdeProofs, ArenaProofs,
                                       # PagePoolProofs, TerminalProofs, FileSysProofs

## 1. The system

The kernel boots with interrupts off, runs `init_all` (`kernel/init.c`), creates
two user processes, turns interrupts on, and starts two kernel threads
(`kernel/main.c`). There is one CPU; all concurrency comes from the timer
interrupt, which may switch threads wherever EFLAGS.IF is set, and from the
keyboard and disk interrupts. Threads never end.

| component | state | operations | interacts with | what makes it correct |
|---|---|---|---|---|
| scheduler, `thread/thread.c`, `thread/switch.S` | ready list, each thread's status, ticks, stack; the idle thread; the pid counter | `schedule`, `thread_block`, `thread_unblock`, `thread_yield`, `thread_start`, `init_thread`, `allocate_pid`, `idle` | called by the timer handler, the semaphores, the sleeping disk driver | the ready list is exact; nobody starves; a thread gets back the interrupt flag it had; pids are unique |
| semaphores and locks, `thread/sync.c` | value and waiters of a semaphore; holder and count of a lock | `sema_down`, `sema_up`, `lock_acquire`, `lock_release` | scheduler below; console, memory pools, disk channel, pid counter above | mutual exclusion, re-entrancy, no lost wakeup, progress |
| timer, `device/timer.c` | global ticks, ticks of the running thread | handler, `mtime_sleep` | calls `schedule`, `thread_yield` | preemption at the end of a slice, sleeps of the right length |
| interrupt control, `kernel/interrupt.c`, `kernel/kernel.S` | EFLAGS.IF, IDT, 8259A masks | enable, disable, set, get; interrupt and syscall entry | everything | a critical section leaves IF as it found it |
| memory pools and paging, `kernel/memory.c` | physical bitmaps (kernel, user), virtual bitmaps (kernel, each process), page tables, two locks | `malloc_page`, `get_kernel_pages`, `get_user_pages`, `get_a_page`, `mfree_page` | bitmap, locks; used by thread creation and the heap | a page has one user; what is freed is free everywhere; failure leaks nothing |
| heap, `kernel/memory.c` | block descriptors with free lists, arenas with counts | `sys_malloc`, `sys_free` | memory pools, list | blocks handed out are disjoint and live; an arena is returned exactly when all its blocks are free |
| bitmap, `lib/kernel/bitmap.c` | bits | `bitmap_scan`, `bitmap_set` | memory pools, file system | a scan finds a free run inside the bitmap if there is one |
| list, `lib/kernel/list.c` | doubly linked lists | insert, remove, push, pop, find | scheduler, semaphores, heap, partitions | elements are on one list; a search terminates |
| user processes, `userprog/process.c`, `tss.c` | page directory, virtual bitmap, esp0 | `process_execute`, `start_process`, `process_activate` | memory, scheduler | the running thread's address space and kernel stack are the active ones |
| system calls, `userprog/syscall-init.c`, `lib/user/syscall.c` | table of calls | `getpid`, `write`, `malloc`, `free` | gate with IF = 0 | the gate's flag is restored |
| disk driver, `device/ide.c` | per channel: lock, expected interrupt, semaphore; partitions found | `ide_read`, `ide_write`, `identify_disk`, interrupt handler, `partition_scan` | locks, sleep, heap | data is transferred after the disk is ready; an interrupt wakes the command it belongs to; partitions fit their arrays |
| file system, `fs/fs.c` | superblock, bitmaps, inode table on disk; mounted partition | `partition_format`, `filesys_init`, `mount_partition` | disk driver, heap, bitmap | the regions are disjoint and fit; a crash while formatting is noticed |
| keyboard, `device/keyboard.c` | modifier flags, e0 flag | interrupt handler | screen | the character is the one of the keys that are down |
| console and screen, `device/console.c`, `lib/kernel/print.S` | cursor, screen words; console lock | `put_char`, `put_str`, `put_int` | locks; keyboard handler | the cursor stays on the screen; strings are not mixed |
| formatting, `lib/stdio.c`, `lib/string.c` | none | `vsprintf`, `itoa`, string functions | | terminated output |
| panic, `kernel/debug.c` | | `panic_spin` | every ASSERT | |
| boot, `boot/mbr.S`, `boot/loader.S` | page tables, memory size | | | |

The behaviours that are hard: preemption between any two memory accesses with
IF = 1; switches that happen inside a primitive and return to it much later with
somebody else's EFLAGS; a semaphore that wakes without handing over; allocation
paths that take no lock or the other pool's lock; interrupts that arrive late,
early or unexpected; one step of an allocation failing after others were done;
a crash in the middle of formatting. `PROJECT.json` lists each hazard at its
line with the properties that cover it.

## 2. Modules

    Thread  <-- Sync <-- SyncInv <-- SyncProofs
                 |          ^
                 |          +------- MCSync (instances for TLC)
                 +- implements -> Mutex
                                    ^  locks of
    BitRuns <-- PagePool -- uses ---+--- Arena, Ide, Terminal
       ^            ^               |        |
       |            |               |        +- implements -> Heap
    Bitmap      PagePoolInv <-- MCPages

    FileSys <-- MCFileSys     Terminal <-- MCTerminal     List

    DataLemmas <-- LibProofs --> Bitmap, ListInv --> List
         ^   ^---- PagePoolProofs --> PagePoolInv
         +-------- ArenaProofs --> ArenaInv --> Arena
         +-------- IdeProofs --> IdeInv --> Ide
         +-------- TerminalProofs --> TerminalInv --> Terminal
         +-------- FileSysProofs --> FileSysInv --> FileSys
         +-------- SyncProofs

An arrow `A <-- B` is EXTENDS or INSTANCE. Each layer is checked against the one
below as that one is specified, not as it is coded: `Sync` shows that locks are a
`Mutex`, and everything above takes `Mutex`'s steps; `PagePool` shows what
allocating pages does, and `Arena` takes a set of pages; `Arena` shows a `Heap`;
`Ide` shows that a call transfers its sectors, and `FileSys` takes a sector for a
step; `List` shows that the pointers of `list.c` are the sequences of `Thread`,
`Sync`, `Arena` and `FileSys`.

### The core: `Thread`, `Sync`

A state is the machine between two segments of kernel code that nothing can
interrupt: a run of instructions with IF = 0, or one access to shared memory
with IF = 1. `pc[t]` names the segment thread `t` runs next; `cur` is the thread
the CPU is in and `intr` its IF. One word of a lock is one access, so
`lock_acquire` is four segments (compare the holder; `sema_down`; write the
holder; write the count), and the timer may come between any two.

| code | TLA+ |
|---|---|
| `task_struct.status`, `ticks`, `pid`; `thread_ready_list`; `running_thread()` | `status`, `ticks`, `pid`; `ready`; `cur` |
| `schedule` | `Schedule(rd, st)`, always part of its caller's action, with the idle thread's unblocking and the `ASSERT`s |
| `thread_block`, `thread_unblock`, `thread_yield`, `idle` | `Block`, `Unblock`, `ThreadYield` and `YieldReturn`, `IdleBlock`, `IdleUnblocked`, `IdleHalt` |
| timer interrupt | `TimerTick`, `TimerPreempt` |
| `thread_start`, `allocate_pid`, `init_thread` | `ThreadStart`, the acquire and release of `pid_lock` around `CountPid`, `InitThread`, `Link` |
| `semaphore`, `lock` | `value`, `waiters`; `holder`, `repeat` |
| `sema_down`, `sema_up` | `SemaLoop` (one turn of the while loop) used by `SemaDown`, `SemaRetest`, `DiskDown`, `DiskRetest`; `Up`, used by `SemaUp` and `DiskInterrupt` |
| `lock_acquire`, `lock_release` | `Acquire`, `AcquireAgain`, `SemaDown`, `SetHolder`, `SetRepeat`; `ReleaseInner`, `ReleaseLast`, `ClearRepeat`, `SemaUp` |
| `int 0x80` and its `iretd`; `intr_enable` in `main` | `SyscallEnter`, `IntrEnable` |
| `cmd_out`, the wait in `ide_read`, `intr_hd_handler` | `DiskCommand`, `DiskDown` and `DiskRetest`, `DiskInterrupt` |

`switch_to` saves no flags. The set `Parked` names the segments at which a
thread that is switched to comes back with IF = 0, because it was put aside
inside a primitive; everywhere else it was put aside by the timer handler and
`iretd` restores IF = 1. `old[t]` is the local `old_status` that repairs the
first case; that it does is the property `IntrRestored`.

A failed `ASSERT` sets `panic`, after which nothing happens, as in `panic_spin`.

### The lock as its callers see it: `Mutex`

A re-entrant mutex with `owner` and `level`. `Sync` implements it: a lock is
locked when `lock_acquire` has written the count, and unlocked when
`lock_release` clears the holder. `PagePool` takes its locking steps from `Mutex`.

### Bitmaps: `Bitmap`, `BitRuns`

`Bitmap` has the three loops of `bitmap_scan`, with the bit behind the bitmap
which the last loop reads, and the callers' `vaddr_get` and `vaddr_remove`.
A full bitmap does not make `bitmap_scan` return -1, as its comment says and its
callers expect: an `ASSERT` before that return stops the kernel (`GetFromFull`),
and the callers' NULL paths for an exhausted pool cannot be reached.
`BitRuns` is what the loops compute, in closed form, for the modules of the
bitmap's users; the run `bitmap` compares the two on all bitmaps.

### Pages: `PagePool`, `PagePoolInv`

| code | TLA+ |
|---|---|
| `kernel_pool`, `user_pool` bitmaps and locks | `pool`; `owner`, `level` |
| `kernel_vaddr`, each `userprog_vaddr` | `vmap` |
| page table entries, page directory entries of user space | `pte`, `pde` |
| `sys_malloc`, `sys_free` as far as they move pages | `Malloc`, `Free`, `LockPool`, `UnlockPool`, `ReadHeader`, `Touch` |
| `get_kernel_pages`, which locks nothing | `GetKernelPages`, then the same steps |
| `get_a_page` in `start_process` | `GetAPage` ... `GotStack` |
| `malloc_page`'s `ASSERT` on the number of pages | `MallocStops` |
| `vaddr_get`, `palloc`, `page_table_add` | `VaddrGet`, `MarkPage`; `Palloc`, `TakeFrame`; `MapPage`, `PallocTable`, `TakeTable`, `SetTable` |
| `mfree_page`, `pfree`, `page_table_pte_remove`, `vaddr_remove` | `PFree`, `Unmap`, `VaddrRemove` |

`call[t]` holds the arguments and locals of the call a thread is in. A scan, a
`bitmap_set` and a page table change are one step each; the three instructions
of a `bitmap_set` are not split, which matters only for callers without the
lock, and those are refuted already as it is. Interrupts are off in the boot
code and in system calls (`IntrOn`), so a process is switched out in `sys_malloc`
only when it waits for the lock, but may be anywhere in `start_process`. Frame
numbers follow physical addresses, so `pfree`'s comparison with
`user_pool.phy_addr_start` is `PoolOf`. `create_user_vaddr_bitmap` asks
`get_kernel_pages` for several pages, but only in the boot code, alone; the model
asks for one. `Worlds` says which threads are there together (`MCPages`: two kernel
threads, or two processes); the others' `pc` is "none".

### The heap: `Arena`, `Heap`

`free[d]` is the free list of a block descriptor, `head[a]` the `struct arena` at
the start of page `a`, `used` the pages that are allocated, `live` the memory the
callers have. Blocks are addresses: a block lies at `Header` behind the start of its
page and is found from it by `block2arena`, so an overlap of a block with another,
with a header or with a large allocation is an overlap of numbers
(`BlocksApart`). A call goes through `LockPool`; `MallocLarge`, or `NewArena`,
`Split` (all blocks in one step: interrupts are off), `Pop`, `CountDown`; for a free `GiveBlockBack`, `CountUp`,
`Unlink` (one block a step), `MfreeArena`; then `UnlockPool`. A thread may be switched
out between any two.

`malloc_page` returns NULL only for a request of several pages that fragmentation refuses. A request of
`MaxRequest` pages or more fails its own `ASSERT` (`memory.c:124`), and one that finds every page in use
fails `bitmap_scan`'s (`bitmap.c:29`): `Stops`, with the lock held, after which there is only `Spin`. A request for more pages
than are free may do either (`MayStop`): the addresses are searched before the frames, and which of the two
runs out first depends on others that take frames of the pool.

### The disk driver: `Ide`

One channel with its lock, `expecting_intr`, `disk_done`, the command registers, and
the controller: `dev` (idle, busy, or with a sector to move), the interrupt line
`intrq`, the `sectors`. A thread's call is `Begin`, `Select`, `Expect`, `Command`, `Down`,
`Poll`, `MoveIn` or `MoveOut`, `Chunk`, `Return`, in the order of `ide_read`, of `ide_write`
(which polls before it waits) or of `identify_disk` (which takes no lock). `boot` is the time when `init_all` runs,
alone and with interrupts off but for the time it is blocked.

The driver accepts sectors up to `max_lba`, a constant. `Begin` has the `ASSERT` of `ide_read` and `ide_write` on the
first sector of a call, `Select` that of `select_sector` on the first of each command; a call that crosses `max_lba`
is so carried out in part. `busy_wait` counts its turns and nothing else: `Poll` gives up at the limit whether the
disk has failed or is slow.

The controller is not part of the repository. What is assumed of it: a command makes
it busy until the first sector can be moved; it raises an interrupt for each sector
that can be read and for each sector written; a read of the status register or a
new command withdraws an interrupt that has not been taken; and between the sectors of
one command it is never busy when the driver moves the next (`InStep`). The driver
needs the last one: it moves up to 256 sectors after one wait, and without it
`WriteOnDisk` fails; it is an assumption, not a result.

### Partitions and formatting: `FileSys`

The boot of a machine with two channels from `ide_init` to the mounted partition.
`stack` holds the recursive calls of `partition_scan`, `base` is `ext_lba_base`; `todo` the
sectors `partition_format` has yet to write, `disk` what was written. `Write` writes one sector
and `Crash` may come before and after each. A sector's content is what it is part of
(superblock, block bitmap with its free blocks, inode bitmap, inode table, root directory).
The arithmetic of the layout is that of the code, in words of `Word`: the free sectors of a
partition with less than the metadata wrap, and so does `DIV_ROUND_UP`'s sum. Where a command begins behind
`max_lba` the driver's `ASSERT` stops the boot: `ScanStops` at a table, `SearchStops` at a superblock, `WriteStops` in a
format, and `Mount`.

A disk is a record: `tables`, the partition tables by the sectors they are in; `chain`, the sectors of those
in the extended partition; and `prims` and `logics`, the partitions the tables were made for, which is
what the scan should find. `LayoutOK` says that the first describe the last: one extended partition at
most, in each table of the chain a logical partition and then the next table, relative to the first, and
no two partitions overlapping. It is an assumption about the disks, which are made with other tools than this
kernel, and leaves their sizes free: partitions too small and too large are among them.

### Screen and keyboard: `Terminal`

`put_char` is `SelectHi`, `InHi`, `SelectLo`, `InLo` (the cursor is read), `Draw` (the
cell, the new cursor, a new line, a roll), `OutHi`, `OutLo`; the register index of the
controller, `index`, is shared. `Handler` is the keyboard's interrupt: one byte, as a
whole, between any two of these steps, with the echo through the same `put_char`.
`Press`, `LetGo` and `Repeat` are the keyboard. `page` is what the screen should show: a tape
of what was printed and typed, and a window over it.

The echo takes no lock. If it comes between another `put_char`'s `out 0x3d4` and
`in 0x3d5`, the index is changed under it and a wrong cursor is read, up to
an address beyond the limit of the video segment, where the processor faults and
`general_intr_handler` loops for ever. A backspace in the first cell faults as well. `mixed`, `shared` and
`repeated` record that one of the known cases happened; the properties say that
nothing else goes wrong.

### The lists: `List`

`next` and `prev` of the heads, tails and elements of the ready list, a semaphore's waiters and a
free list, with `seqs`, what they should be: empty at first, with one thread that runs. Idle is left
out: the last thread that is ready does not block. `Linked` says what a list is: from each of
its nodes to the next and back, by index. `thread_start`'s `elem_find` runs with interrupts
on: `Walk` is one turn of its loop. If the thread at whose element it stands blocks, the
element moves to the waiters and the walk with it, past their tail and through NULL;
`moved` marks that, and `WalkStaysOnReady` says that it is the only case. That a walk
ends is not claimed: preempted at every turn it may follow an element that is requeued
each time. A slice of 31 ticks makes that no danger in practice.

## 3. What the runs check

Passing runs:

| run | instance | shows |
|---|---|---|
| `sync` | boot thread, idle, a process, a kernel thread; `pid_lock` and the disk channel's lock; slices of 2 (boot thread) and 1 ticks; depth 2 | types; no `ASSERT` fails; the ready list and the waiters lists are exact; mutual exclusion; the three words of a lock agree with what was done; no lost wakeup; IF is restored; the disk's answer reaches the thread that waits |
| `live` | boot thread, idle, a process that uses the disk; two locks | nobody on the ready list starves; every waiter is woken; a lock with woken waiters is taken by somebody; `Sync` implements `Mutex` |
| `bitmap` | 12 bits in 3 bytes, runs of up to 3, the bit behind set or clear | first fit; loops = closed form |
| `pages` | the boot thread allocating, then two kernel threads, or two processes with stacks and page tables of 2 pages; 5 and 4 frames; 1 to 3 pages a call, of which `malloc_page` takes fewer than 3 | a frame has one use; the bitmaps of frames and pages are exact at every preemption; held memory is disjoint, mapped, and stays mapped to the same frames; no assertion but that of a full bitmap and, for a call of 3 pages, that of `malloc_page` |
| `arena` | two threads; three pages of 6 bytes, header 2; blocks of 2 and 4; sizes 2, 3, 5 and 11; `malloc_page` takes fewer than 3 pages | memory in use is apart from everything else; free lists and counts are right; nothing leaks, also when a call fails; `malloc_page` stops the kernel only for a call that asks for too much; otherwise calls return; the whole is a `Heap` |
| `ide` | two threads, two disks of 4 sectors of which the driver takes 3, commands of at most 2 sectors, calls of 1 and 3; busy_wait of 3 turns; the disk may fail | a call reads and writes exactly its sectors; a command goes to a controller that is ready; it is answered once; `busy_wait` gives up only on a controller that was busy in all its turns; calls return unless the kernel stops or the disk fails |
| `file_system` | two channels, all pairs of fourteen disks (two partitions, one with a single block, one whose bitmap has a bit less than there are data sectors, a chain of 4 logical ones with room for 3, three primary ones with room for 3, too small by a little and by a lot, too large for the bitmap's buffer, empty; and behind `max_lba` the metadata of a second or of the first partition, a superblock, a table, a table that is looked for relative to another disk); two power failures | partitions are found; buffers freed; the first disk is formatted; what is mounted lies inside of the partition and has the bitmap that was formatted; other sectors are kept; a panic only on the named disks |
| `terminal` | two threads and a process printing, with echoes of 2 keys, from two places of a 4 x 3 screen; three keyboards of 4 to 6 keys | screen, flags and faults as described under `Terminal`; printing ends |
| `lists` | one thread that starts three more, two blocks | the pointers are the sequences; the walk stays on the ready list |

Why the bounds suffice: four threads give a holder, two waiters in a semaphore's
queue and idle; a third waiter only lengthens a queue whose handling does not
depend on its length, and the theorems do not depend on the instance at all. One
nested acquire distinguishes first, inner and last. Slices of length 0 let the
timer preempt at every segment. In the page
runs the pools are small enough that they and the address spaces run full, that
two-page calls fail after fragmentation, and that frees in any order permute
pages and frames. An arena of two small blocks or one large, in a heap of three,
lets arenas of both sizes and large allocations of two pages follow each other in the same
pages, be refused when only the page in the middle is in use, and stop the kernel; a size of 11 is three pages with the
header and too many for `malloc_page`. A command of two sectors and calls of three give a full and
a short chunk, the second of which may begin behind `max_lba`. The disks cover each branch of the scan, the array of logical partitions
overflowing its limit, and a block bitmap of one and of two sectors (`Bits` = 4). A screen of
three lines rolls; registers of `Byte` = 8 keep the proportions of the real ones: a cursor
with a wrong byte may be on the screen, beside it, or beyond the segment. `roll` is
one step.

Runs that end in a violation, each of one sentence the repository says of itself:

| run | what is said | what happens |
|---|---|---|
| `page_race` | a page that is mapped has no entry yet (`memory.c:106`) | `thread_start` allocates without the lock while another thread is in `sys_malloc`, which `main` makes possible when it starts its second thread |
| `frame_race` | `palloc` allocates one page | a page table of a process is taken from `kernel_pool` under the other pool's lock |
| `torn_format` | a partition with the magic number has a file system (`fs.c:228`) | the superblock is written first: after a power failure the next boot mounts a partition whose bitmaps were never written |

Seen on the way, and part of the models without a run of their own: `allocate_pid`
returns the counter after it has released `pid_lock` (harmless while only the boot
thread starts threads); `bitmap_scan` looks at one bit behind the bitmap; `busy_wait`
waits 300 seconds for its 30; `invlpg` gets the address of a local variable (`memory.c:403`;
no TLB is modelled); `ext_lba_base` and `part_idx` are not reset for the next disk;
the fourth primary partition
stops the kernel, where `ide.h:27`, `ide.c:302` and `fs.c:216` speak of four; the loop at `fs.c:140` runs to `<=` and clears one
bit too many, so that the block bitmap offers one sector behind the partition although `fs.c:135` says
that such bits are set, and in a partition of fewer than eight blocks it clears
the bit that `fs.c:130` sets for the root directory; at some sizes the first estimate
of the bitmap's size is one more than the bitmap needs, and the data sector
it took for it is in no bitmap (`fs.c:85-88`); releasing one of two shift keys ends
both; caps lock toggles while it is held; a disk larger than `max_lba` stops the kernel as soon as one of its
partitions or tables lies behind it. The properties except these cases by name, so they say that
nothing else goes wrong, not that these are right; the hazards of `PROJECT.json` that are so excepted have no property.

### Fairness

Only the liveness runs assume any. `SF(Timer)` and `SF(DiskInterrupt)`: the
8259A keeps an interrupt pending while IF = 0 and delivers it when IF = 1; the
timer does not stop and the disk answers what it was asked. `WF` of the kernel's own
steps and of idle: the CPU goes on executing. `SF(IntrEnable)`: the boot code and
system calls end. `FairSpec` adds that every thread releases what it
holds and that each thread's own segments are strongly fair: a slice is many
segments long, so a thread that is scheduled again and again gets through one.
That a particular waiter gets the lock does not follow and is not claimed:
`sema_up` hands nothing over, and a thread may find the lock taken each time it
wakes.

The other modules take their fairness from there. Their promises that a call returns hold unless the kernel
has stopped, which the safety properties restrict to named cases. `Arena` and `Terminal`: a thread gets the lock
if it is free again and again (`SF`; the weaker `LockTaken` of `Sync`, with
callers that do not call without end), and then goes on (`WF`). `Ide`: the controller answers
unless it fails, interrupts are taken, threads go on, and a sleep ends if interrupts
are on. `FileSys` states none. Nobody need call, fail, or touch the keyboard.

### Deadlock

Deadlock is not checked where the system may really stop: `bitmap` (a failed
`ASSERT`), `ide` (a disk that failed, with everybody waiting for it), `file_system` (the
boot has ended or stopped) and `terminal` (everything is printed and no key left to hit, or
a fault). In `PagePool` and `Arena` a failed `ASSERT` has the step `Spin`, the endless loop of
`panic_spin`.

## 4. What is proved

`SyncProofs` is checked by TLAPS for any set of threads and locks, any priorities,
any nesting bound and any division of the threads into processes, creators, sleepers and
disk users, under `ThreadAssumption` (main and
idle are two threads, NULL is none, priorities are naturals) and `SyncAssumption`
(`pid_lock` and the channel's lock are locks, `disk_done` is not one of theirs,
main and idle are no processes, idle makes no calls, a bound on nesting exists).

`IInv` in `SyncInv` is the inductive invariant. None of the properties is
inductive alone; each part is there because another needs it:

- `ControlOK` ties where a thread is to the call it is in, so that a step knows
  which lock it is about; `CreationOK` keeps a thread under construction out of
  the ready list and with one creator, which `Link`'s assertion needs.
- `ReadyListExact`, `BlockedOK` and `WaitersExact` support each other: the
  assertion of `thread_unblock` holds because a waiter is blocked, it is not
  already on the ready list because only ready threads are, and idle is blocked
  whenever the list runs empty because nothing else can be neither running,
  ready nor waiting.
- `IntrOK` extends `IntrRestored` from the running thread to all those that are
  switched out: what their saved flag is, and that a thread in a system call is
  switched out only inside a primitive.
- `LockOK` describes the words of a lock at every segment of acquire and
  release, from which `MutualExclusion` and `LockWordsAgree` follow; `DiskOK` the
  same for `disk_done` and `expecting_intr`.
- `NoLostWakeup` is needed as it stands: while the semaphore is free and
  somebody waits, someone woken is on its way.

The proof has lemmas about the sequences (append, tail, cons: what they hold and
that they have no duplicates), about `Schedule` (what any caller may conclude of
the lists, the running thread and IF afterwards), and one lemma per action and
part. The theorems then follow from `IInv` one by one: `TypeCorrect`,
`AssertsHold`, `ReadyListCorrect`, `WaitersCorrect`, `MutualExclusionHolds`,
`LockWordsCorrect`, `NoWakeupLost`, `InterruptsRestored`, `DiskAnswersArrive`.

It also proves `SyncImplementsMutex`. `OwnerExact`: under `IInv`, the
mapped owner of a lock is the one thread inside it, so the CHOOSE in `Owner` has
no choice. `QuietStep`: a step that changes neither `lk` nor `depth` changes
neither owner nor level. `LockStep`: a step that changes them for one thread is
`Lock`, `LockAgain`, `UnlockInner` or `Unlock` of that thread, or a stutter. Each action
of `Next` is one or the other.

`LibProofs` is about `lib/kernel`. It proves `ScanCorrect` and `ScanIsFirstFit` for bitmaps and runs of any
length. The third loop of `bitmap_scan` is a recursive function over the bits; its count
at a bit is given a closed form (the length of the run of clear bits that ends there, or
more than the request), which is shown by a minimal counterexample: the least bit at which
the form fails has a predecessor at which it holds. So no induction rule is needed. From
the form, the first bit at which the count is the request ends the first run. The closed
form `FirstRun` of `BitRuns` is what `PagePool` takes for a scan.

`IdeProofs` is about any number of threads, any size of disks, calls and commands, with
one hypothesis: `InStep`, that the controller keeps pace with the driver. It is the
one under which the run `ide` is made, and the properties are false without it.
`IdeInv` has the inductive invariant: `OneCaller` (the boot code, or the thread that
has the lock), `CallOK` and `RegsOK` (what of the call and its chunk is left, and that
the registers say so), `DevOK` (what the controller is doing is what the caller waits
for), `AnswerOK` (an answer is expected or kept exactly while one is owed), `DataOK` (the
sectors moved so far). From it: `ChannelStaysInOrder`, `ReadsAreDisk`, `WritesAreOnDisk`,
`WritesStayInside`. That `busy_wait` gives up only on a controller that was busy at every turn, and so never
because a call waits for data nobody asked for, is a part of the first (`WaitedInVain`).

`PagePoolProofs` is about any number of threads and processes, any sizes of pools, address
spaces and page tables, and requests of any length, with one hypothesis, `OneLock`: nobody takes kernel
pages without the lock once interrupts are on (`Starters = {}`), and kernel threads that
allocate and user processes are not there together, so that the page tables of processes
do not come out of a pool that somebody else has locked. Where the code does not
keep to it, the runs `page_race` and `frame_race` show that the properties fail; that they hold
everywhere else is what is proved: `PoolsStayExact`, `FramesHaveOneUse`, `HeldStaysApart` and
`MappingsStay`. The assertions that can fail under `OneLock` are that of a full bitmap and that of a call for too many pages. The inductive invariant in `PagePoolInv` needs, besides these:

- `LockOK`: who is inside a call is the boot code or has the lock; so one thread
  is (`Alone`), and the accounts of frames and pages are about that one.
- `CallOK`, `RunOK`: the pages of the call, and which of them are mapped at each of its steps;
  `RunApart`: they are nobody else's, so that what a call maps or unmaps is not held.
- `FrameOK`: a frame that `palloc` found is unused until it is mapped; `FramesApart`:
  no entry shares a frame with another, so that `pfree` frees one that nothing else uses.
- `HeldOK`, `Fresh`: a process has its stack's page before it can allocate, which is why
  `vaddr_get`'s assertion (`memory.c:68`) holds.

`ArenaProofs` is about any number of threads and pages, any sizes of pages, headers and blocks,
any number of descriptors and any requests, under `ArenaAssumption` (each block size fits a page
behind the header; `malloc_page` takes a page; a request is less than the heap). It proves `CallersStayApart`,
`AllocatorStaysExact`, `NoPageIsLost` and that `Arena` implements the `Heap`. The inductive
invariant in `ArenaInv` says to whom each unit of memory (a block of an arena, or a large
allocation) belongs at every step of a call:

- `LockOK`: one thread is in the allocator, the one with the lock.
- `PagesOK`: a page that is in use is an arena of blocks, or belongs to one large allocation.
- `FreeOK`, `LiveOK`, `HandOK`: a unit is on its free list, once, or with a caller, or in the hand of a
  call that gives it back or has just taken it, and in one of these only; `AllHeld`: in one of them always,
  but for the arena that is cut up or given back.
- `CountOK`: an arena's count is the number of its blocks that are free, but for those that a call is
  ahead of (`Ahead`): it splits off the next, has popped one, or takes them off the list one by one.
- `FullOK`: all blocks of an arena are free only while it is new or about to go.
- `CallOK`: what the call has of its arguments and of the arena it works on.

Addresses are products of numbers. `PageAndOffset` and `BlockFacts` are the only lemmas that
multiply: a block's page can be had from its address, and blocks of one page lie behind each other;
`SpansApart`, that two units share no byte, then compares pages and places. The counts are
cardinalities of sets of blocks, one more or one less at a step. In the refinement `UnlockPool` after
an allocation is `Give`, a caller's `Free` is `TakeBack`, everything else stutters.

The rest of `LibProofs` is about lists, of any number of threads and blocks. `Correct` relates the pointers to the
sequences. `InsertLinked` and `RemoveLinked` compare a chain with the one after a change node by
node: those before the place, the place, those behind it, which are one further or one nearer.
`NodesApart` is why the other lists stay as they are: lists with no element in common have no node in
common. From these, one lemma for each of `list_append`, `list_push`, `list_pop` and `list_remove`, and
one per action: an element that is put on a list is on none (`OffTheLists`: the running thread, a new
one, a block that a caller had). So `ListsStayExact`. For `ElemFindStays` the invariant (`WalkOK`) also
follows the walks of threads that are switched out: one may stand at the tag of the thread that runs,
which is on no list then, but goes to the end of the ready list before another runs; and
never at its own, so that it is on the list again when it goes on.

`TerminalProofs` is about any number of threads and processes, any strings, any size of
the screen that fits into the video segment, any initial cursor and any of the modelled keys, under
`TerminalAssumption` and `ScenarioAssumption` (the keyboards have keys that `Code` has, the
cursor starts on the screen). It proves `KeysStayInOrder`, `FaultsAreExplained` and
`ScreenStaysTrue`. The properties speak of the moments between two
characters or two key strokes; the inductive invariant in `TerminalInv` is what holds in between:

- `KeyboardOK`: either no byte is on its way and all flags are right, or it is known which
  key's code is half sent, whether the prefix has been read (`Pending`), and that every flag but
  that key's is right (`FlagsBut`). It needs that no two keys have one code (`Codes`) and what the
  handler's tests on the bytes say of each (`Tests`, `MakeScan`, `BreakScan`, `CharOf`).
- `CursorOK`: the cursor is the page's, in the controller's registers or in `bx`, and which half
  of it `put_char` has read or written, with the index register as it left it. It holds as
  long as no echo comes between (`mixed`), and only the owner of the lock is in between (`Alone`).
- `ContentOK`: the cells are the window's over the tape.

What a character does to both, screen and page, is `DrawsRight`; its arithmetic (the next line
of `LineFacts`, a word's two bytes in `Split`, the shifts that lose a bit, the roll) is in the lemmas before.

`FileSysProofs` is about any number of channels and of power failures, any disks that keep to
`LayoutOK` (chains of any length, partitions of any size), any sizes of the two arrays, of sectors, of the
metadata and of the buffer `sys_malloc` can give, under `FileSysAssumption`. Of the sizes it asks that the inode
bitmap and the inode table fit the buffer, that a sector's bits and the fixed metadata are less than
`Word`, and that the latter (611 sectors) is not more than one more than the former (4096). It proves
`PartitionsAreFound`, `BootStaysInOrder`, `FirstDiskIsFormatted`, `MountIsWhole` and `OthersAreKept`. The
inductive invariant in `FileSysInv` follows the boot:

- `ShapeOK` and `ChainOK`: `stack` is a way down the chain, call k at its (k-1)th table, each outer call
  behind its extended entry; how many partitions have been found is told by the entries the calls are
  at (`Taken`). So what a scan leaves is what it should find (`Scanned`), if `ext_lba_base` was 0
  when it began (`Good`); on the other disks it is the first table of an extended partition of a disk
before (`BaseFrom`), which is what `TableBeyond` of the reasons to stop needs. No induction over the chain is needed: an entry of a table tells the next.
- `LimitsOK`: the arrays and the lost buffers; a full `logic_parts` is what loses one.
- `SearchOK`: every partition of the first disk before `part_idx` has a magic number; and no other disk is
  searched, because `part_idx` is not set back.
- `DiskOK`: a partition is untouched, or has its superblock and then all else, but for a format cut
  short, one that goes on, or a size that does not do. `FormatOK`: what is still `todo`, and that all
  the rest is written; so a format that ends is complete, whatever was torn before.

`SuperFacts` is the arithmetic: of all sizes, wrapped or not, exactly those of `Fits` have a bitmap and a
buffer for it (`Held`); those whose metadata the driver reaches as well are `Usable`. `Estimates` compares the two
estimates of the bitmap's size, `MetadataFacts` places the regions one behind the other inside the partition,
`InOrder` says so of the superblock's numbers, and `BitmapOnDisk` puts the clear bits of the mounted bitmap together again
from its sectors. `ScanStopsStep`, `SearchStopsStep` and `WriteStopsStep` find the reason for each stop.

Only model-checked: liveness (`ReadyRuns`, `WaiterWoken`, `LockTaken`, `CallsReturn` and
`CallReturns`), which needs ENABLED. Without `InStep` `Ide`'s properties are false, without
`OneLock` `PagePool`'s are; and what the magic number is said to mean is false (`torn_format`).

## 5. Mutants

Every property of a passing run has a mutant in `PROJECT.json`: a definition
of the same module, marked "Mutant" in its comment, that changes one modelled
definition the way a bug in that code would (a test dropped, a wakeup
forgotten, a bit too many or too few, a lock not taken). With it the property fails.
No specification uses these definitions.

## 6. Not modelled

- The scheduler: `thread_all_list` (it only grows, and only an `ASSERT` of `thread_start` reads it), the words on the
  kernel stacks, the first `iret` of a process, `esp0`.
- The timer's `ticks` as a clock. `mtime_sleep` is the `thread_yield` calls it makes in `Sync`,
  and a sleep that ends if interrupts are on in `Ide`; its length is no matter.
- `mem_pool_init`'s arithmetic beyond the number of pages each pool gets; its 16-bit
  counters wrap only above 256 MB. `get_user_pages` has no caller. The TLB. The copy of
  the kernel's page directory entries.
- `get_a_page`'s and `malloc_page`'s NULL paths for a pool without frames, and `sys_malloc`'s for a heap without a page:
  they are unreachable, because `bitmap_scan` asserts first; what is modelled is the assertion (`Scan` and `VaddrGet` of `PagePool`,
  `Stops` of `Arena`). The NULL for a run of pages that fragmentation refuses is modelled.
- The strings of `identify_disk`, the printing of partitions, `vsprintf`, `itoa` and the string
  functions: text no modelled state depends on.
- The register frames, IDT, GDT and 8259A programming, port I/O and the boot
  loader: constants written once, before there is a second thread.
- The contents of pages and of files' sectors.

## 7. Plan

Done: all modules with their runs; `Sync`, `Bitmap`, `List`, `Ide`, `PagePool`, `Terminal`, `Arena` and
`FileSys` with theorems for every safety property and action property that a passing run checks. Left: the
words on a kernel stack and the first `iret` of a process, for `tss.esp0`.
