# A TLA+ model of xv6 with a multi-level feedback queue scheduler

This directory models the code under `src/xv6-public`, an x86 xv6 whose
scheduler has been replaced by a multi-level feedback queue (MLFQ). The modules
are checked by TLC on small instances; the main safety properties of the process
table and its queues, the log, the buffer cache and the disk driver, the file table
and pipes, spin-locks, statistics, console and keyboard are proved by TLAPS for any
number of slots, processors, processes, files and blocks. `PROJECT.json` lists the runs, the lines each
definition translates, the hazards, the findings and the theorems.

## The system

| part | source | concurrency and failure | modules |
|---|---|---|---|
| MLFQ queues `q0`, `q1`, `q2` | `proc.c` 387-535, `proc.h` | shared by all processors, under `ptable.lock` | `Mlfq` |
| processes, scheduler, `sleep`, `wakeup` | `proc.c`, `trap.c`, `sysproc.c` | one scheduler per processor, preemption, lock handed over by `swtch`; `fork` can fail half way | `Proc` |
| statistics of slices | `proc.c`, `pstat.h` | written by every scheduler | `Stats` |
| spin-locks, interrupts | `spinlock.c`, `trap.c` | processors, nested interrupts, lock order | `Spinlock` |
| write-ahead log | `log.c` | concurrent operations, group commit, crash and recovery | `Log`, `AtomicDisk` |
| buffer cache, IDE driver, sleep-locks | `bio.c`, `ide.c`, `sleeplock.c` | recycling, request queue against interrupt, failed reads | `Bio`, `BlockStore` |
| inodes, names, file-system calls | `fs.c`, `sysfile.c` | reference counts, lock by lock, error paths | `Fs` |
| blocks of files, bitmap, `mkfs` | `fs.c`, `file.c`, `mkfs.c` | sequential under the inode's lock | `Content` |
| file table, descriptors, pipes | `file.c`, `sysfile.c`, `pipe.c` | reference counts, bounded buffer, ends that close, kill | `File`, `Pipe` |
| pages, page tables, `exec` | `kalloc.c`, `vm.c`, `exec.c`, `proc.c` | memory runs out half way | `Vm` |
| console, keyboard | `console.c`, `kbd.c` | interrupt against readers, wrapping indices | `Console`, `LineDiscipline`, `Kbd` |
| strings, numbers, system-call arguments | `string.c`, `ulib.c`, `printf.c`, `syscall.c`, `console.c` | none | `Strings` |
| `malloc`, shell, `grep`, `wc` | `umalloc.c`, `sh.c`, `grep.c`, `wc.c` | none | `Umalloc`, `Shell`, `Grep` |

The locks and channels tie the parts together: every `sleep` and `wakeup` goes
through `ptable.lock`; the log, the buffer cache and the driver wait for each
other by sleep-locks; `exit` closes files and so waits for the disk. A module
sees its neighbours through what they promise: `Fs` and `Content` take a
transaction as atomic because `Log` implements `AtomicDisk`; `Log` takes a block
as a register because `Bio` implements `BlockStore`; all of them take "test and
go to sleep" as one step because `sleep` takes `ptable.lock` before it gives up
the caller's lock (`Proc`, and the path `LockedSleep` of `Spinlock`).

## Modules

* `Mlfq` - the queues as a value `q`, a function from the three levels to
  sequences of slots, and the helpers of `proc.c` as operators on it:
  `returnQueue`, `returnProc` (its swap is `SwapToHead`), `addQueue`,
  `deleteQueue`; `Move` is the delete and add of `degrade`, `boost` and of a
  process that slept. `AddFits` and `DeleteFits` say whether the index stays in
  the array, which the code does not test.
* `Proc` - the process table, the processors and `ptable.lock`. An action is a
  critical section of the lock, or a part of one. The lock is a variable because
  `swtch` hands it over: `SchedulerAcquire`, `SchedulerPick` and `Dispatch` take
  it and give it to a process, `Resume` or `ResumeWait` (the process's first
  steps: `forkret`, `yield`, `sleep`, `wait`) release it, and `EnterScheduler`
  (`sched`, and what `scheduler` does when `swtch` returns) brings it back.
  At the end of a slice exactly one of `Degrade`, `Boost`, `RequeueSleeper`,
  `KeepPlace` applies. `fork` is `ForkAlloc` then `ForkFails` or `ForkDone`,
  since other processors can act in between; `exit` is `SysExit`, `TrapExit` or
  `UserFault`, any waiting for the disk, then `Exit`.
* `Stats` - `start_tick`, `duration` and `num_stat_used` of a slot over its
  slices: `Take` (dispatch), `GiveUp` (`swtch` returns), `EndSlice`. `ran` is a
  history variable: the ticks a process was on a processor, for each entry.
* `Spinlock` - `acquire` and `release` one memory access at a time
  (`AcquireCli`, `AcquireHolding`, `AcquireWhose`, `AcquireXchg`, `AcquireOwn`,
  `ReleaseOwner`, `ReleaseUnlock`, `ReleasePopcli`), `pushcli`, `popcli`, `sched`'s
  tests, and handlers that interrupt wherever the flag allows. A kernel path is
  the sequence of its locks.
* `Log` - an action for each critical section of `log.lock` and each disk write:
  `BeginOp`, `LogWrite` (the tests before the lock) and `LogRecord` (under it),
  `EndOp`, then `WriteLog`, `WriteHead`, `InstallTrans`, `ClearLog` one block at a
  time and `CommitDone`; `Crash` at any moment, and `ReadHead` with the same
  `InstallTrans` and `ClearLog` for `recover_from_log`. `AtomicDisk` is what it
  promises: the writes of operations reach the disk together, while no operation
  is active, or not at all.
* `Bio` - `bget` (`BgetHit`, `BgetMiss`), `bread`, `bwrite`, `brelse` (`Unref` with
  the move to the front), the sleep-lock of a buffer, `iderw` and `ideintr` with
  `idequeue` and the command the controller has. `BlockStore` is what it promises:
  one register per block, changed by its owner only.
* `Fs` - a step takes one inode lock and does what follows up to the next one.
  `Begin` and `Walk` are `namex`; `Open`, `Chdir`, `Link`, `LinkDir`, `LinkUndo`,
  `Create`, `CreateFound`, `CreateNew`, `Unlink`, `UnlinkVictim`, `UnlinkCut` are the
  calls; `IputCheck`, `IputTrunc`, `IputFreed`, `IputUnref` are `iput`, which takes
  the lock of the inode again; `Panic` is the panics of `ilock`, `ialloc` and
  `sys_unlink`, which stop a process with the lock in its hand. An inode is its disk fields (`type`, `dnlink`), its
  cache entry (`ref`, `valid`, `nlink`, `locker`) and, for a directory, its names.
* `Content` - `balloc`, `bfree`, `bmap`, `itrunc`, `readi`, `writei`, `dirlink`'s
  slot, `filewrite` by chunks, starting from the image `mkfs` writes. `wrote` counts
  the blocks a transaction passes to `log_write`.
* `File`, `Pipe` - `ftable` and descriptors; a pipe is a page with its counters.
  `fileclose` copies the file under `ftable.lock` and closes the pipe or inode
  afterwards, in a step of its own. `pipewrite` and `piperead` sleep in the middle.
* `Vm` - `setupkvm`, `mappages`, `allocuvm`, `deallocuvm`, `copyuvm`, `freevm`, `copyout`
  as operators on a page directory and a count of free pages; `Sbrk`, `Fork`, `Exec`,
  `Exit`, `Wait` are actions. `room` is how many pages a call finds: other
  processors may hold the rest.
* `Console` - `consoleintr`, `consoleread`, `consolewrite`, the cursor of `cgaputc`.
  `LineDiscipline` is what it promises its readers.
* `Kbd`, `Umalloc`, `Shell`, `Grep`, `Strings` - sequential code as operators with the
  names of the source, each with a reference definition beside it. The input of
  `grep` and `wc` is a sequence of pieces: a `read` returns at most one.
* `MCProc`, `MCLog`, `MCFs`, `MCStorage`, `MCKernel`, `Laws` - what TLC runs. `MCStorage`
  and `MCKernel` put parts that share no state side by side: the initial state
  decides which part moves. `Laws` adds the bounded inputs of the pure algorithms.
* `MlfqLaws`, `ProcProofs`, `ProcTheorems`, `LogTheorems`, `BioTheorems`, `FileLemmas`,
  `FileTheorems`, `KernelTheorems` (spin-locks and statistics), `ConsoleTheorems`
  (console and keyboard) - the proofs.

### Correspondence of the state

In `Proc`, `state`, `pid`, `parent`, `chan`, `killed`, `priority`, `Ticks` are the
fields of `struct proc`. `ctx` stands for `p->context` (where the process
resumes), `kpc` for the kernel path it is in, `child` for the local variable `np`
of `fork`. `cpc`, `cur`, `count`, `lev` are the program counter and the locals
`p`, `count` and `queue` of `scheduler` on each processor, `intr` the interval
between the timer interrupt and `yield`. `end` and `numOfProc` always change
together, so both are `Len(q[l])`. Two variables are not in the program. `fault`
becomes true when `end` leaves `0..NPROC`; what the program does then is
undefined, and the model stops. `recycled` records that `allocproc` has handed
out a slot that still has a queue entry: several properties hold only before
that, see the findings.

In `Log`, `home`, `logged` and `head` are the disk, `lh`, `outstanding` and
`committing` the fields of `struct log`, `cache`, `dirty` and `buf` the buffers
(contents, `B_DIRTY`, locked by a process). `step` and `tail` say where `commit` or
recovery is, `pc` where a process is. `wrote` counts what an operation has logged
against `MAXOPBLOCKS`; `panicked` stops the machine until the next boot; `fault`
stands for a write outside `lh.block` or outside the log. The refinement mapping
to `AtomicDisk`: `disk` is `Durable`, the home blocks with the committed log laid
over them, which is what a boot makes of the disk; `mem` is the cache over the
home blocks; `active` are the processes inside an operation.

In `Fs`, one register of a process is not in the program: `lost` says that its walk
has just taken `..` out of a directory that no entry names any more.

In `Bio`, the mapping to `BlockStore` is `View` (the valid buffer of a block, or
the disk) and `Owner` (the holder of its sleep-lock). In `Console`, the mapping to
`LineDiscipline` cuts the ring at `r`, `w` and `e`: `ready` is what lies between the
first two, `line` between the last two.

### Abstractions

A disk write is atomic per block, as `log.c` assumes of the header. In `Proc` all
channels of drivers, the file system, pipes and sleep-locks are one channel
`IoChan`, on which spurious wakeups are possible; the loops around `sleep` test
their conditions again. User programs are arbitrary: any process may make any
call at any time, fault, or compute for ever. In `Fs` cache entries are named by
their inode, so `NINODE` is not exhausted; in `Vm` pages are alike and are
counted; in `Content` a cell stands for as many bytes as a block number takes. In
`Bio` `MaxPinned` bounds what the log keeps dirty, as `LOGSIZE` does.

## Runs

Deadlock is checked where the system never stops by itself (`table`, `levels`,
`progress`, `log_space`, `storage`, `queued_once`, `waiting_in_q2`); elsewhere
bounded calls, a killed machine or finished input may end a behaviour.

| run | instance | shows |
|---|---|---|
| `table` | 2 slots, 2 processors, 3 pids, kill, all channels | `OneCpuPerProcess`: the hand-over of `ptable.lock` by `swtch` keeps each process on one processor. `TableInv`, `QueueInv`: the inductive invariants of the proofs |
| `levels` | 3 slots, 1 processor, 3 pids | `WaitNotMissed`: no lost wakeup between `wait`, `exit` and `kill`. `QueuesPartitionFirstLife`, `HighestPriorityFirstLife`, `LevelsFollowRule` |
| `progress` | 2 slots, 1 processor, fairness | `LockReleased`, `ClockWakesSleepers`, `TopLevelServed` |
| `log_space` | 3 processes, 3 blocks, log of 2, fairness | `NoOverrun`: racing calls of `log_write` stay inside `lh.block`. `CommitsAlone`: no operation is active during a commit. `SleeperWoken`: nobody misses the wakeup of `begin_op` |
| `storage` | cache: 2 processes, 3 blocks, 2 buffers, 2 values. Log: 2 processes, 2 blocks, 2 values, operations of 2 blocks, log of 4 | `BlocksAreRegisters`: cache and driver implement `BlockStore`. `RequestsOwned`, `BuffersAccounted`. `AtomicOps`: the log implements `AtomicDisk` with a crash at every disk write and during recovery. `DurableWhenQuiet`: when the last `end_op` has returned nothing can be lost |
| `files` | 2 processes, 3 files, 2 descriptors each, 1 pipe of 1 byte | `RefsCounted`, `EndsMatchFiles`: a pipe is closed once per end and freed after its last user. `PipeSleepersBlocked` |
| `inodes` | 2 processes, 4 inodes, 2 names, 5 calls, nested directories, relative paths and `..` | `RefsExact`: the reference counts of the inode cache through every error path. `ReachedInodesExist`: an inode reached by a name is there when it is locked. `NamesResolve`: link counts on disk cover the names and the `..` of subdirectories during every call. `CommittedTree`: what a commit writes is a tree |
| `kernel` | memory of 20 pages, 6 user pages, 2 processes; input ring of 3 with counters modulo 6, 2 readers; 2 processors with two handlers; 2 tasks on 1 processor, 2 ticks | `PagesAccounted`, `SizeIsMapped`, `FailedCallsHarmless`; `NoLineWaits`, `IsLineDiscipline`; `LockDiscipline`, `NoSpinCycle`; `RunTimeExact` |
| `laws` | see below | `ConversionLaw`, `WrapLaw`, `ProgramLaw`, `HeapSound`, `NoStuckModifier`, `BlocksExact`, `ReadsBack` |

### Bounds

*Processes.* The slices 1, 2, 8 and the 50 ticks of boost are scaled to 1, 2, 2
and 3, which keeps every case: a slice of one tick, an interrupted slice, and a
process that needs more than one slice in `q2` to be boosted. Three slots give a
grandparent, a parent and a child, hence orphans and zombies passed to the first
process, and a queue with an entry between head and tail. Two processors are
enough for every race on a lock with one owner. `MaxPid` bounds the forks; three
pids in two slots reach the reuse of a slot after `wait`.

*Log.* `size` equals `LOGSIZE`, as `mkfs.c` makes the disk. Two blocks are the
least for which a crash can separate the writes of one operation; two values tell
an old block from a new one; three processes can be outstanding, asleep and
committing at once. The run about counting needs one value.

*Cache.* With three blocks and two buffers every `bget` of a third block recycles;
two processes can wait for one buffer, or queue two requests at the disk.

*Files.* A pipe of one byte is full and empty by turns, and a write of two bytes
sleeps in the middle; its counters wrap at 2. Three files are two ends and a file,
or less: `filealloc` fails in both calls of `pipealloc`.

*Inodes.* Four inodes are the root, a directory, one inside it and one more, so that
`ialloc` also runs out. `/d/a` is made as a directory or as a link, `a` is a file in the
root or, after `chdir`, in `/d`; `mknod`, which is `create` with another type, is not
among the calls. Five calls reach a directory that is removed
while another process creates in it, an inode that is freed and allocated again
under a reader of its old name, and a process inside `/d/a` that goes on to `..` after
`/d/a` and `/d` were removed.

*Kernel.* `room` lets a call run out of memory at every one of its allocations.
With two entries per page table every second page needs a new one. The ring holds
three characters, so that a full line, an erased line and a saved `^D` all meet
the wrap. The kernel paths of `Spinlock` are reading the console (which sleeps under
`cons.lock`), printing, and `yield`; the handlers are the clock and the console,
which wake sleepers under their locks.

*Laws.* Texts of up to three to six characters, read in one piece or cut into pieces
(for `wc` anywhere, for `grep` at the ends of lines), over alphabets that hold every
character class the code tests; words modulo 32; names of 2 characters; commands
with every kind of node under every other, and all lines of four characters; a
heap of 13 units with requests that are split, fill a unit exactly or force
`morecore`; files of up to three blocks, one direct and two indirect, on a disk of
20 blocks whose bitmap has two blocks, and one write can take blocks from both.

In `kernel`, `storage` and `laws` the initial state chooses a part, so the states
add up instead of multiplying. The parts share no variable.

### Findings

Three runs state what a comment or a document says and show a behaviour of the
code that contradicts it.

| run | statement | what happens |
|---|---|---|
| `queued_once` | "delete unused from queue" (`proc.c:116`) | `wait` has set `pid` to 0, so nothing is deleted: fork, exit, wait, fork leaves the slot queued twice; the entries add up until `end` passes `NPROC`, and a stale entry lets a process run before one of higher priority |
| `waiting_in_q2` | "putting a waiting proc in q2 to q0" (`DESIGNDOC.md:15`) | boost counts ticks run, not waited: under fairness a process in `q2` can wait for ever |
| `getpinfo_lock` | "Loops (spins) until the lock is acquired" (`spinlock.c:21`), "procdump() locks cons.lock indirectly; invoke later" (`console.c:200`) | `getpinfo` prints with `ptable.lock` held, `consoleintr` wakes with `cons.lock` held: two processors spin for ever |

### Other departures the models contain

These behaviours are in the models as the code has them; the properties above are
stated so that they hold in spite of them.

* `allocproc` calls `deleteQueue` three times on `q0` (`proc.c:118-124`): after a
  failed fork the second and third call drop the last entries of `q0`, which are
  other processes.
* `kill(0)` matches a free slot (`proc.c:814`), and the next process there is born
  killed.
* The log of `mkfs.c:25` has `LOGSIZE` blocks with the header, and `log_write`
  tests for a full log before it looks whether the block is in it (`log.c:218`):
  an operation within its reservation can panic when the log is exactly full.
* `proc.c:133` resets `num_stat_used` for a new process but not the durations,
  which `proc.c:612` adds to; `RunTimeExact` is about the first life of a slot.
* `num_stat_used` is not compared with `NSCHEDSTATS` (`proc.c:664`), nor `TOTAL`
  with `NTICKS` beyond its last index (`proc.c:646`).
* `mkfs.c:161` rounds the size of the root directory up to the next block even
  when it is full already: the last block is then allocated by `readi`, through
  `bmap`, without `iupdate`. The images of `laws` do not end at a block boundary.
* `sbrk` that shrinks a process to size 0 frees its pages and returns -1
  (`proc.c:235`); `FailedCallsHarmless` is about the calls that ask for memory.
* A killed writer returns from `pipewrite` without waking readers
  (`pipe.c:86-88`); what it wrote is seen when the next byte or the close comes.
* `ideintr` marks a buffer valid when the disk reported an error (`ide.c:118`).
* An inode whose last name goes while it is open stays allocated after a crash,
  and also when two processes drop their last references at once (`iput`).
* `..` of a directory that has been removed is not counted as a link any more
  (`sysfile.c:221`), so the parent can be removed and freed as well. A process that
  is inside, because it has the directory open on its way along a path or as its
  current directory, and goes on to `..`, locks a free inode: `panic("ilock: no
  type")` (`fs.c:311`). `inodes` reaches this; `ReachedInodesExist` says that it is the
  only way to that panic.
* `rmdir` writes the smaller count of the parent before that of the victim
  (`sysfile.c:222`, then 227), so in between the victim still has a link and the
  parent no longer counts its `..`; `NamesResolve` counts the `..` of directories that
  are named.
* `grep` empties its buffer when that holds no newline (`grep.c:29`): of a line that
  arrives in two pieces, from a pipe or from a console line that `^D` or a full buffer
  has ended, the start is lost also when the line would fit. The law about `grep` is
  for input that arrives in whole lines, or in one piece, as a file does.
* `printf` writes hexadecimal digits in upper case (`printf.c:14`), `cprintf` in lower
  case (`console.c:30`); otherwise they agree, except that only `printf` knows `%c`.
* `create` (`sysfile.c:281`) and `unlink` (`sysfile.c:225`) take the lock of the
  directory again, in `iput`, while they hold an inode in it; another `unlink`
  that holds the directory and waits for that inode closes a cycle.
* The comment "Moves process from Q2 to Q1" (`proc.c:528`) is wrong: `boost` moves
  to `q0`. The remark on `test2` in the repository's README ("has zombie processes
  after running") is consistent with the first finding and the first departure.

### Fairness

`FairSpec` of `Proc` assumes weak fairness of `Scheduler(c)`, the steps of a
processor in the scheduler or holding the lock, which run with interrupts off and
do not block; weak fairness of `Yield(c)`, a spinning `acquire`; and strong
fairness of `TimerInterrupt(c)`, because an interrupt that finds interrupts off
stays pending in the interrupt controller. `progress` has one processor, as the
Makefile's default (`CPUS := 1`) does; a spin-lock gives no fairness among
several. Nothing is assumed of programs.

`FairSpec` of `Log` assumes that disk writes complete and a process that runs goes
on (weak fairness), and that an operation ends: strong fairness of `EndOp(p)`,
since an operation makes a bounded number of calls of `log_write`, between which
`EndOp` is not enabled. Nobody has to begin an operation.

The other modules state no fairness. That a sleeper is not forgotten is a safety
property there: it sleeps only while what it waits for has not happened
(`RequestsOwned`, `PipeSleepersBlocked`, `NoLineWaits`).

## Proofs

Assumptions: `MlfqAssumption` and `ProcAssumption`, i.e. at least one slot and one
processor and positive slices, which TLC evaluates in every run of `Proc`; `LogAssumption`, i.e. finitely many processes and a log that has room for one
operation, which TLC evaluates in `log_space` and `storage`; `BioAssumption`,
i.e. finitely many clients and buffers and null values that are none of them,
which TLC evaluates in `storage`; `FileAssumption` and `PipeAssumption`, i.e. finitely
many processes and counters whose range is a multiple of the size of the ring and
larger, evaluated in `files`; `SpinAssumption`, i.e. every path gives back the locks it
takes and calls `sched` with `ptable.lock` alone, `ConsoleAssumption`, the same about the
counters of the input buffer, and `StatAssumption`, evaluated in `kernel`; and
`KbdAssumption`, i.e. a key has one code below 128, with or without the escape,
evaluated in `laws`.

* `ProcTheorems` begins with what the operators of `Mlfq` do on any sequences: swapping
  keeps the entries and puts a RUNNABLE process of the highest level at the head;
  moving a process keeps every other one in place and the queues without
  duplicates; a sequence without duplicates of slots is no longer than `NPROC`.
  `HelpersKeepLaws` collects these facts as `QueueLaws`; the lemmas about `Proc`
  take `QueueLaws` as a premise and never look into the operators, and the theorems
  at the end discharge the premise.
* `ProcProofs` proves that every step keeps `TableInv`.
  `OneCpuPerProcess` is not inductive: it needs that the processor in the scheduler
  works on a slot (`ProcessorInv`), that a process in `fork` has a child slot
  (`PathInv`), and for the family properties that free slots have no parent and
  the first process never exits (`FamilyInv`). `TableInv` is the conjunction, and
  each action has a lemma; `FamilyKept`, `WaitKept`, `Switched`, `Released`,
  `OffCpu` and `Woken` state effects that several actions share. Consequences:
  `TypeCorrect`, `MutualExclusion`, `SlotOwnership`, `NoOrphans`, `NoLostWakeup`.
* The end of `ProcProofs` does the same for
  `QueueInv`, given `TableInv`: most steps leave the queues alone (`Frame`). The
  strengthening is that every slot with a pid has an entry at its level (so a
  reused slot is recognised) and that `queue` in `scheduler` is the level of its
  process also after other processors have run. Consequences:
  `QueuesPartitioned`, `NoOverrun`, `HighestFirst`, and the action property
  `LevelsMoveByRule`.
* `LogTheorems` proves that every step of `Log` keeps `ReserveInv`, and from it
  `InsideTheLog` (`NoOverrun`) and `CommitIsAlone` (`CommitsAlone`). `NoOverrun` is not
  inductive: what `begin_op` tests has to be remembered. `Reserved` is the set of
  entries that the active operations may still fill, one pair of a process and a
  number for each, and `ReserveInv` says that `lh.n` and its size together stay
  within `LOGSIZE`. `begin_op` adds `MAXOPBLOCKS` pairs, a new block in `log_write`
  takes one (`ReservationUsed`), `end_op` gives the rest back. The test of `lh.n` at
  the start of `log_write` is not used.
* Its second half proves that every step keeps `WriteAheadInv`, and that it is a step
  of `AtomicDisk` or changes nothing there. Hence `WriteAhead` (`LogInv`, the two
  invariants together), `Atomicity` (`AtomicOps`, the refinement) and
  `QuietIsDurable` (`DurableWhenQuiet`). The strengthening says what the disk holds
  at each point: until the header is written it is empty and all blocks of the
  transaction are in pinned buffers (`Gathering`), of which `write_log` has copied a
  prefix (`Copied`); after that the header names the transaction and
  `install_trans` has copied a prefix home (`Installed`); a buffer that is not pinned
  agrees with the disk (`CacheInv`); no block is in the log twice (`Injective`), or
  a later entry would overwrite what recovery installed. Since recovery goes
  through the same states, a crash during recovery needs no case of its own.
  `write_head` is the only step that changes what a boot would find. `ReserveInv` and
  `WriteAheadInv` are not checked by a run of their own; the four properties that
  follow from them are, in `log_space` and `storage`.

* `BioTheorems` proves that every step of `Bio` keeps `BioInv`
  (`CacheInvariant`), from it `RequestsAreOwned` (`RequestsOwned`) and
  `BuffersAreAccounted` (`BuffersAccounted`), and that every step is one of
  `BlockStore` or changes nothing there (`CacheImplementsBlocks`, i.e.
  `BlocksAreRegisters`). None of the three is inductive. A block has one buffer at
  most (`Placed`), or two clients would change copies of it; `refcnt` is the number of
  clients between `bget` and the end of `brelse` (`Counted`), so that a recycled
  buffer has no user, and the sleep-lock belongs to the client that works on the
  buffer (`Exclusive`); a buffer that was read and is not dirty agrees with the disk
  (`Coherent`), so recycling it changes nothing; and a request is in `idequeue` exactly
  while its buffer is not in step with the disk (`Queued`), so `ideintr` completes the
  request that its sleeper waits for. The counts need `EnterCounted` and
  `LeaveCounted`, the list `ListKeepsBufs` (`MostRecent` permutes it), the queue
  `QueueAppend` and `QueueTail`. For the refinement, `BlockSeen` says that what a client
  sees of a block is what its one buffer shows, or the disk; `bget` and `ideintr` keep
  that (`BreadStutters`, `IdeintrStutters`), a write is `Modify` (`UseWriteModifies`),
  and the sleep-lock is the ownership of the block (`LockOwns`). A failed read leaves
  the buffer out of the mapping (`unread`). `MaxPinned` plays no part in the proofs.

* `FileLemmas` and `FileTheorems` prove that every step of `File` keeps `FileInv`
  (`FileInvariant`), hence `ReferenceCounts` (`RefsCounted`), `PipeEndsMatch`
  (`EndsMatchFiles`) and `NoLostPipeWakeup` (`PipeSleepersBlocked`). The counts alone are
  inductive; the other two are not. A file in a local variable of `sys_pipe` is known
  to its process only (`Locals`), a child under construction belongs to one `fork` and
  has files of its parent (`Forks`), a process in `piperead` or `pipewrite` works on a
  copy of a file it has open (`Copies`), each end of a pipe is one file or one close
  under way (`Ends`), and what a process saw with `p->lock` still holds while it sleeps
  (`Sleepers`).
* `KernelTheorems` proves `RunTimeIsExact` (`RunTimeExact`) by `StatInv`: a process that a
  processor has is RUNNING on that one only, since a tick that has come, at an entry
  that exists. Its second part proves that `acquire` and `release`, one memory access at
  a time, keep `SpinInv` (`SpinInvariant`): `ncli` is the number of locks held or being
  taken and `intena` what interrupts were before (`Nesting`), `lk->locked` and `lk->cpu`
  say who holds a lock (`Ownership`), and a handler runs on top of a path that holds
  none (`Stacks`). Hence `SpinDiscipline` (`LockDiscipline`) for all paths that keep the
  discipline, and `OrderedPathsDoNotSpin` (`NoSpinCycle`) for all that also take locks in
  order (`PathsOrdered`: with a lock in hand only `ptable.lock` is taken). `KernelPaths`
  says that the sections of the kernel under one lock, `wakeup` and `sleep` under a
  lock and `yield` are such paths. `getpinfo` is not; see the findings.
* `ConsoleTheorems` proves `NoModifierSticks` (`NoStuckModifier`) by `KbdInv`: a modifier
  that is on, or that a code still in the controller turns on, is held down or is
  turned off by a later code. Its second part proves that every step of `Console` keeps
  `ConsoleInv` (`ConsoleInvariant`), hence `CommittedLinesAreRead` (`NoLineWaits`), and is a
  step of `LineDiscipline` or changes nothing there (`ConsoleRefines`, i.e.
  `IsLineDiscipline`). `ConsoleInv` says that `r`, `w` and `e` are in this order within one
  turn of the ring although they wrap (`RingOrder`), and that the line being edited
  has no newline (`LineOpen`); the lemmas on `Text` say how what lies between two
  counters changes when one of them moves or a character is stored. The loop of
  `consoleread` stops at the first of its ends, which exists because every set of
  numbers that is not empty has a least one (`LeastExists`).

Only model-checked: `Fs`, `Vm`, `Content` and the laws of `Laws` except
`NoStuckModifier`; liveness (TLAPS does not reason about fairness here); what recursive
definitions compute (the shell's parser, `readi`, `allocuvm`...), which would need
induction over data; and the findings, which are counterexamples.

## Not modelled

Start-up and segment set-up (`main.c`, `bootmain.c`, `mp.c`, `*.S`, `seginit`), the
registers of the interrupt controllers, the UART and the IDE disk (`lapic.c`,
`ioapic.c`, `picirq.c`, `uart.c`): they run once or only exchange bytes with a
device, and have no state a property could be about. The tests
(`usertests.c`, `stressfs.c`, `forktest.c`, `test*.c`) are clients: the models let a
process make any call at any time, which includes what they do. `ls`, `cat`, `echo`,
`ln`, `mkdir`, `rm`, `kill` and `init` are straight-line calls. The scripts and
`vectors.pl` generate code. The exact memory order of x86 between a lock and the
data it protects is taken from the lock; races that the code has outside locks
(`holding`, a failing `fork`, `log_write`'s test) are interleaved in the models.
