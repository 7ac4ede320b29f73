-------------------------------- MODULE Proc --------------------------------
(***************************************************************************)
(* The process table and the scheduler of proc.c, with the part of trap.c  *)
(* that preempts and ends processes, for NCPU processors.                  *)
(*                                                                         *)
(* One action is one critical section of ptable.lock, or a part of one     *)
(* during which the lock stays held: the lock is explicit because it is    *)
(* handed over by swtch, acquired by the process that gives up the CPU and *)
(* released by the next process the scheduler runs.                        *)
(*                                                                         *)
(* A processor is in the idle loop ("idle": between release and acquire,   *)
(* interrupts on), in the loop over the table ("scan"), in the time-slice  *)
(* loop with the chosen process off the CPU ("slice"), or executing the    *)
(* process ("run").  A process that executes is in user mode or in one of  *)
(* the kernel paths of kpc.                                                *)
(***************************************************************************)
EXTENDS Mlfq

CONSTANTS
  NCPU,        \* processors (ncpu)
  MaxPid,      \* bound: allocproc is called while nextpid <= MaxPid
  KillPids,    \* bound: the arguments kill is called with
  SleepChans   \* bound: the channels used besides those of wait

Cpus == 0 .. NCPU-1
NoCpu == -1
initproc == 0                     \* userinit takes the first slot

(***************************************************************************)
(* Sleep channels.  wait sleeps on the address of the process itself; the  *)
(* clock is TicksChan; every channel of a driver, of the file system, of a *)
(* pipe or of a sleep-lock is IoChan.                                      *)
(***************************************************************************)
NoChan    == -1
TicksChan == NPROC
IoChan    == NPROC + 1
Chans     == Slots \cup {TicksChan, IoChan}

ASSUME ProcAssumption ==
  /\ NCPU \in Nat \ {0}
  /\ MaxPid \in Nat
  /\ KillPids \subseteq Nat
  /\ SleepChans \subseteq {TicksChan, IoChan}

VARIABLES
  state, pid, parent, chan, killed, \* the fields of struct proc
  priority, Ticks,
  ctx,       \* where p->context resumes: "forkret", "yield", "sleep" or
             \* "wait"; "none" once the process has resumed
  kpc,       \* what the process executes: "user", "sys" (a system call that
             \* has blocked), "fork", "exit" or "panic"
  child,     \* np in fork, between allocproc and the end of fork
  q,         \* q0, q1, q2
  nextpid,
  lock,      \* the processor that holds ptable.lock
  cpc,       \* what a processor executes
  cur,       \* the loop variable p of scheduler; c->proc while cpc is "run"
  count,     \* count of scheduler
  lev,       \* the level of the queue that scheduler took p from
  intr,      \* the processor is in the timer interrupt, before yield
  fault,     \* a queue index has left 0 .. NPROC: the behaviour of the
             \* program past this point is undefined and not modelled
  recycled   \* history: allocproc has handed out a slot for a second time

procVars == <<state, pid, parent, chan, killed, ctx, kpc, child, nextpid>>
mlfqVars == <<priority, Ticks, q, fault, recycled>>
cpuVars  == <<cpc, cur, count, lev, intr>>
vars     == <<procVars, mlfqVars, cpuVars, lock>>

TypeOK ==
  /\ state \in [Slots -> States]
  /\ pid \in [Slots -> Nat]
  /\ parent \in [Slots -> Slots \cup {NoProc}]
  /\ chan \in [Slots -> Chans \cup {NoChan}]
  /\ killed \in [Slots -> BOOLEAN]
  /\ priority \in [Slots -> Levels]
  /\ Ticks \in [Slots -> Nat]
  /\ ctx \in [Slots -> {"forkret", "yield", "sleep", "wait", "none"}]
  /\ kpc \in [Slots -> {"user", "sys", "fork", "exit", "panic"}]
  /\ child \in [Slots -> Slots \cup {NoProc}]
  /\ q \in [Levels -> Seq(Slots)]
  /\ nextpid \in Nat
  /\ lock \in Cpus \cup {NoCpu}
  /\ cpc \in [Cpus -> {"idle", "scan", "slice", "run"}]
  /\ cur \in [Cpus -> 0 .. NPROC]
  /\ count \in [Cpus -> Nat]
  /\ lev \in [Cpus -> Levels]
  /\ intr \in [Cpus -> BOOLEAN]
  /\ fault \in BOOLEAN
  /\ recycled \in BOOLEAN

(***************************************************************************)
(* The machine when userinit has returned: the first process is RUNNABLE   *)
(* in q0, and the processors enter scheduler.                              *)
(***************************************************************************)
Init ==
  /\ state = [p \in Slots |-> IF p = initproc THEN "RUNNABLE" ELSE "UNUSED"]
  /\ pid = [p \in Slots |-> IF p = initproc THEN 1 ELSE 0]
  /\ parent = [p \in Slots |-> NoProc]
  /\ chan = [p \in Slots |-> NoChan]
  /\ killed = [p \in Slots |-> FALSE]
  /\ priority = [p \in Slots |-> 0]
  /\ Ticks = [p \in Slots |-> 0]
  /\ ctx = [p \in Slots |-> IF p = initproc THEN "forkret" ELSE "none"]
  /\ kpc = [p \in Slots |-> "user"]
  /\ child = [p \in Slots |-> NoProc]
  /\ q = [l \in Levels |-> IF l = 0 THEN <<initproc>> ELSE <<>>]
  /\ nextpid = 2
  /\ lock = NoCpu
  /\ cpc = [c \in Cpus |-> "idle"]
  /\ cur = [c \in Cpus |-> 0]
  /\ count = [c \in Cpus |-> 0]
  /\ lev = [c \in Cpus |-> 0]
  /\ intr = [c \in Cpus |-> FALSE]
  /\ fault = FALSE
  /\ recycled = FALSE

-----------------------------------------------------------------------------
(***************************************************************************)
(* scheduler                                                               *)
(***************************************************************************)

\* sti, then acquire: the loop over the table starts at its first slot.
SchedulerAcquire(c) ==
  /\ cpc[c] = "idle" /\ lock = NoCpu
  /\ lock' = c
  /\ cpc' = [cpc EXCEPT ![c] = "scan"]
  /\ cur' = [cur EXCEPT ![c] = 0]
  /\ UNCHANGED <<procVars, mlfqVars, count, lev, intr>>

(***************************************************************************)
(* The for loop from slot cur[c] on.  returnProc is called for every slot; *)
(* with the lock held its answer stays the same once it has swapped the    *)
(* entry to the head, so the loop reaches that process or, when it lies    *)
(* below cur[c], the end of the table.                                     *)
(***************************************************************************)
SchedulerPick(c) ==
  LET p == returnProc(q, state) IN
  /\ cpc[c] = "scan"
  /\ p # NoProc /\ p >= cur[c]
  /\ q' = SwapToHead(q, state)
  /\ lev' = [lev EXCEPT ![c] = returnQueue(q, state)]
  /\ cur' = [cur EXCEPT ![c] = p]
  /\ count' = [count EXCEPT ![c] = 0]
  /\ cpc' = [cpc EXCEPT ![c] = "slice"]
  /\ UNCHANGED <<procVars, priority, Ticks, fault, recycled, intr, lock>>

SchedulerRelease(c) ==
  LET p == returnProc(q, state) IN
  /\ cpc[c] = "scan"
  /\ p = NoProc \/ p < cur[c]
  /\ q' = IF cur[c] < NPROC THEN SwapToHead(q, state) ELSE q
  /\ lock' = NoCpu
  /\ cpc' = [cpc EXCEPT ![c] = "idle"]
  /\ cur' = [cur EXCEPT ![c] = 0]
  /\ UNCHANGED <<procVars, priority, Ticks, fault, recycled, count, lev, intr>>

InSlice(c) == state[cur[c]] = "RUNNABLE" /\ count[c] < Slice[lev[c]]

\* One iteration of the while loop, up to swtch: the lock goes to p.
Dispatch(c) ==
  /\ cpc[c] = "slice" /\ InSlice(c)
  /\ state' = [state EXCEPT ![cur[c]] = "RUNNING"]
  /\ cpc' = [cpc EXCEPT ![c] = "run"]
  /\ UNCHANGED <<pid, parent, chan, killed, ctx, kpc, child, nextpid,
                 mlfqVars, cur, count, lev, intr, lock>>

\* The end of the slice: the loop goes on with the next slot.
SliceOver(c) ==
  /\ cpc[c] = "slice" /\ ~InSlice(c)
  /\ cpc' = [cpc EXCEPT ![c] = "scan"]
  /\ cur' = [cur EXCEPT ![c] = @ + 1]
  /\ count' = [count EXCEPT ![c] = 0]
  /\ lev' = [lev EXCEPT ![c] = 0]
  /\ UNCHANGED <<procVars, recycled, intr, lock>>

Requeued_KeepsPriority(p, from, to) ==
  /\ q' = Move(q, from, to, p)
  /\ fault' = (fault \/ ~MoveFits(q, from, to, p))
  /\ Ticks' = [Ticks EXCEPT ![p] = 0]
  /\ UNCHANGED priority

\* p moves to the tail of level to; addQueue clears its Ticks and sets its
\* priority.
Requeued(p, from, to) ==
  /\ q' = Move(q, from, to, p)
  /\ fault' = (fault \/ ~MoveFits(q, from, to, p))
  /\ priority' = [priority EXCEPT ![p] = to]
  /\ Ticks' = [Ticks EXCEPT ![p] = 0]

Degrade_Stays(c) ==
  /\ SliceOver(c)
  /\ state[cur[c]] = "RUNNABLE" /\ priority[cur[c]] # 2
  /\ Ticks' = [Ticks EXCEPT ![cur[c]] = 0]
  /\ UNCHANGED <<q, fault, priority>>

\* The slice is used up in q0 or q1: degrade looks at the queue's priority.
Degrade(c) ==
  LET p == cur[c] IN
  /\ SliceOver(c)
  /\ state[p] = "RUNNABLE" /\ priority[p] # 2
  /\ \/ lev[c] # 2 /\ Requeued(p, lev[c], lev[c] + 1)
     \/ lev[c] = 2 /\ UNCHANGED <<q, fault, priority, Ticks>>

\* The process has run BoostTicks in q2: boost.
Boost(c) ==
  LET p == cur[c] IN
  /\ SliceOver(c)
  /\ state[p] = "RUNNABLE" /\ priority[p] = 2 /\ Ticks[p] >= BoostTicks
  /\ Requeued(p, 2, 0)

RequeueSleeper_Degrades(c) ==
  /\ SliceOver(c)
  /\ state[cur[c]] = "SLEEPING"
  /\ IF lev[c] = 2 THEN Requeued(cur[c], 2, 2) ELSE Requeued(cur[c], lev[c], lev[c] + 1)

\* The process went to sleep: it moves to the tail of the same queue.
RequeueSleeper(c) ==
  LET p == cur[c] IN
  /\ SliceOver(c)
  /\ state[p] = "SLEEPING"
  /\ Requeued(p, lev[c], lev[c])

\* A process of q2 below BoostTicks keeps its place, and so does a zombie.
KeepPlace(c) ==
  LET p == cur[c] IN
  /\ SliceOver(c)
  /\ \/ state[p] \notin {"RUNNABLE", "SLEEPING"}
     \/ state[p] = "RUNNABLE" /\ priority[p] = 2 /\ Ticks[p] < BoostTicks
  /\ UNCHANGED <<q, fault, priority, Ticks>>

-----------------------------------------------------------------------------
EnterScheduler_Unlocked(c) ==
  /\ lock' = NoCpu
  /\ cpc' = [cpc EXCEPT ![c] = "slice"]
  /\ count' = [count EXCEPT ![c] = @ + 1]
  /\ Ticks' = [Ticks EXCEPT ![cur[c]] = @ + 1]
  /\ UNCHANGED <<cur, lev, priority, q, fault, recycled>>

(***************************************************************************)
(* Entering and leaving the scheduler.  EnterScheduler is sched and what   *)
(* scheduler does when swtch returns there: count++ and p->Ticks++.        *)
(***************************************************************************)
EnterScheduler(c) ==
  /\ lock' = c
  /\ cpc' = [cpc EXCEPT ![c] = "slice"]
  /\ count' = [count EXCEPT ![c] = @ + 1]
  /\ Ticks' = [Ticks EXCEPT ![cur[c]] = @ + 1]
  /\ UNCHANGED <<cur, lev, priority, q, fault, recycled>>

\* The process of c executes and c does not hold ptable.lock.
Executes(c, path) ==
  /\ cpc[c] = "run" /\ lock # c /\ ~intr[c]
  /\ kpc[cur[c]] \in path

\* A system call of a process in user mode: trap first tests killed.
Calls(c) == Executes(c, {"user"}) /\ ~killed[cur[c]]

wakeup1(st, ch) ==
  [p \in Slots |-> IF st[p] = "SLEEPING" /\ chan[p] = ch
                   THEN "RUNNABLE" ELSE st[p]]

(***************************************************************************)
(* wait: the scan of the table, made when wait is called and again each    *)
(* time its sleep returns; in both cases ptable.lock is held throughout.   *)
(* The first zombie child is freed; its queue entry is left behind.        *)
(***************************************************************************)
Children(p) == {k \in Slots : parent[k] = p}
Zombies(p)  == {k \in Children(p) : state[k] = "ZOMBIE"}

Reap(c, k) ==
  /\ k \in Zombies(cur[c]) /\ \A j \in Zombies(cur[c]) : k <= j
  /\ state' = [state EXCEPT ![k] = "UNUSED"]
  /\ pid' = [pid EXCEPT ![k] = 0]
  /\ parent' = [parent EXCEPT ![k] = NoProc]
  /\ killed' = [killed EXCEPT ![k] = FALSE]
  /\ chan' = [chan EXCEPT ![cur[c]] = NoChan]
  /\ ctx' = [ctx EXCEPT ![cur[c]] = "none"]
  /\ lock' = NoCpu
  /\ UNCHANGED <<kpc, child, nextpid, mlfqVars, cpuVars>>

WaitFails(c) ==
  /\ Zombies(cur[c]) = {}
  /\ Children(cur[c]) = {} \/ killed[cur[c]]
  /\ chan' = [chan EXCEPT ![cur[c]] = NoChan]
  /\ ctx' = [ctx EXCEPT ![cur[c]] = "none"]
  /\ lock' = NoCpu
  /\ UNCHANGED <<state, pid, parent, killed, kpc, child, nextpid,
                 mlfqVars, cpuVars>>

WaitSleeps(c) ==
  /\ Zombies(cur[c]) = {}
  /\ Children(cur[c]) # {} /\ ~killed[cur[c]]
  /\ state' = [state EXCEPT ![cur[c]] = "SLEEPING"]
  /\ chan' = [chan EXCEPT ![cur[c]] = cur[c]]
  /\ ctx' = [ctx EXCEPT ![cur[c]] = "wait"]
  /\ EnterScheduler(c)
  /\ UNCHANGED <<pid, parent, killed, kpc, child, nextpid, intr>>

WaitScan(c) == (\E k \in Slots : Reap(c, k)) \/ WaitFails(c) \/ WaitSleeps(c)

Wait(c) == Calls(c) /\ lock = NoCpu /\ WaitScan(c)

Resume_KeepsLock(c) ==
  /\ cpc[c] = "run" /\ lock = c
  /\ ctx[cur[c]] # "wait"
  /\ chan' = [chan EXCEPT ![cur[c]] = IF ctx[cur[c]] = "sleep" THEN NoChan ELSE @]
  /\ ctx' = [ctx EXCEPT ![cur[c]] = "none"]
  /\ UNCHANGED <<state, pid, parent, killed, kpc, child, nextpid,
                 mlfqVars, cpuVars, lock>>

(***************************************************************************)
(* The first steps of a dispatched process, which still holds the lock:    *)
(* forkret, yield and sleep release it, wait scans the table again.        *)
(***************************************************************************)
Resume(c) ==
  /\ cpc[c] = "run" /\ lock = c
  /\ ctx[cur[c]] # "wait"
  /\ chan' = [chan EXCEPT ![cur[c]] = IF ctx[cur[c]] = "sleep" THEN NoChan ELSE @]
  /\ ctx' = [ctx EXCEPT ![cur[c]] = "none"]
  /\ lock' = NoCpu
  /\ UNCHANGED <<state, pid, parent, killed, kpc, child, nextpid,
                 mlfqVars, cpuVars>>

ResumeWait(c) ==
  /\ cpc[c] = "run" /\ lock = c
  /\ ctx[cur[c]] = "wait"
  /\ WaitScan(c)

-----------------------------------------------------------------------------
(***************************************************************************)
(* fork.  allocproc takes the first UNUSED slot.  A slot with a pid was    *)
(* given up by a failed fork, and deleteQueue is called three times on q0  *)
(* for it; a slot that wait freed has pid 0 and is only added to q0.       *)
(***************************************************************************)
Unused == {p \in Slots : state[p] = "UNUSED"}

PurgedQueues(p) ==
  IF pid[p] > 0 THEN deleteQueue(deleteQueue(deleteQueue(q, 0, p), 0, p), 0, p)
                ELSE q

AllocFits(p) ==
  IF pid[p] > 0 THEN Len(q[0]) >= 3 ELSE AddFits(q, 0)

ForkAlloc(c, p) ==
  /\ Calls(c) /\ lock = NoCpu
  /\ nextpid <= MaxPid
  /\ p \in Unused /\ \A j \in Unused : p <= j
  /\ state' = [state EXCEPT ![p] = "EMBRYO"]
  /\ pid' = [pid EXCEPT ![p] = nextpid]
  /\ nextpid' = nextpid + 1
  /\ priority' = [priority EXCEPT ![p] = 0]
  /\ Ticks' = [Ticks EXCEPT ![p] = 0]
  /\ q' = addQueue(PurgedQueues(p), 0, p)
  /\ fault' = (fault \/ ~AllocFits(p))
  /\ recycled' = (recycled \/ \E l \in Levels : p \in Entries(q[l]))
  /\ ctx' = [ctx EXCEPT ![p] = "forkret"]
  /\ kpc' = [kpc EXCEPT ![cur[c]] = "fork", ![p] = "user"]
  /\ child' = [child EXCEPT ![cur[c]] = p]
  /\ UNCHANGED <<parent, chan, killed, cpuVars, lock>>

\* kalloc or copyuvm fails: the slot is given up without taking the lock.
ForkFails(c) ==
  /\ Executes(c, {"fork"})
  /\ state' = [state EXCEPT ![child[cur[c]]] = "UNUSED"]
  /\ kpc' = [kpc EXCEPT ![cur[c]] = "user"]
  /\ child' = [child EXCEPT ![cur[c]] = NoProc]
  /\ UNCHANGED <<pid, parent, chan, killed, ctx, nextpid, mlfqVars, cpuVars, lock>>

\* The rest of fork.  np->parent is written before the lock is taken, but only
\* wait and exit of the parent itself, which is in fork, read it until then.
ForkDone(c) ==
  /\ Executes(c, {"fork"}) /\ lock = NoCpu
  /\ parent' = [parent EXCEPT ![child[cur[c]]] = cur[c]]
  /\ state' = [state EXCEPT ![child[cur[c]]] = "RUNNABLE"]
  /\ kpc' = [kpc EXCEPT ![cur[c]] = "user"]
  /\ child' = [child EXCEPT ![cur[c]] = NoProc]
  /\ UNCHANGED <<pid, chan, killed, ctx, nextpid, mlfqVars, cpuVars, lock>>

-----------------------------------------------------------------------------
(***************************************************************************)
(* sleep on a channel other than that of wait, by a system call or by      *)
(* exit, which waits for the disk while it closes files.  The loops around *)
(* sleep test their condition again when it returns: the process sleeps    *)
(* again or goes on.  sys_sleep tests killed before sleep takes            *)
(* ptable.lock, so a kill that falls in between is seen one round later.   *)
(***************************************************************************)
Sleep(c, ch) ==
  /\ \/ Calls(c)
     \/ Executes(c, {"sys"})
     \/ Executes(c, {"exit"}) /\ ch = IoChan
  /\ lock = NoCpu
  /\ state' = [state EXCEPT ![cur[c]] = "SLEEPING"]
  /\ chan' = [chan EXCEPT ![cur[c]] = ch]
  /\ ctx' = [ctx EXCEPT ![cur[c]] = "sleep"]
  /\ kpc' = [kpc EXCEPT ![cur[c]] = IF @ = "user" THEN "sys" ELSE @]
  /\ EnterScheduler(c)
  /\ UNCHANGED <<pid, parent, killed, child, nextpid, intr>>

\* The blocking system call is over.
SysReturn(c) ==
  /\ Executes(c, {"sys"})
  /\ kpc' = [kpc EXCEPT ![cur[c]] = "user"]
  /\ UNCHANGED <<state, pid, parent, chan, killed, ctx, child, nextpid,
                 mlfqVars, cpuVars, lock>>

\* c takes interrupts: it holds no lock and is not in a handler.
Interruptible(c) ==
  /\ lock # c /\ ~intr[c]
  /\ \/ cpc[c] = "idle"
     \/ cpc[c] = "run" /\ kpc[cur[c]] # "panic"

\* exit is called.  The first process must not exit: exit panics for it, and
\* its processor stops.
CallExit(c) ==
  kpc' = [kpc EXCEPT ![cur[c]] = IF cur[c] = initproc THEN "panic" ELSE "exit"]

\* trap, before it returns to a killed process in user mode: exit.
Doomed(c) == cpc[c] = "run" /\ kpc[cur[c]] = "user" /\ killed[cur[c]]

TrapReturn(c) == IF Doomed(c) THEN CallExit(c) ELSE UNCHANGED kpc

\* wakeup of an I/O channel, by a device interrupt or by a running process.
WakeupIo(c) ==
  /\ Interruptible(c) /\ lock = NoCpu
  /\ state' = wakeup1(state, IoChan)
  /\ TrapReturn(c)
  /\ UNCHANGED <<pid, parent, chan, killed, ctx, child, nextpid,
                 mlfqVars, cpuVars, lock>>

TimerInterrupt_WakesNobody(c) ==
  /\ Interruptible(c)
  /\ lock = NoCpu \/ (c # 0 /\ cpc[c] = "run")
  /\ TrapReturn(c)
  /\ intr' = [intr EXCEPT ![c] = cpc[c] = "run" /\ ~Doomed(c)]
  /\ UNCHANGED <<state, pid, parent, chan, killed, ctx, child, nextpid,
                 mlfqVars, cpc, cur, count, lev, lock>>

(***************************************************************************)
(* The timer interrupt.  Processor 0 wakes the sleepers of the clock; then *)
(* a running process yields, unless it is killed and was in user mode, in  *)
(* which case trap calls exit.                                             *)
(***************************************************************************)
TimerInterrupt(c) ==
  /\ Interruptible(c)
  /\ \/ c = 0 /\ lock = NoCpu /\ state' = wakeup1(state, TicksChan)
     \/ c # 0 /\ cpc[c] = "run" /\ UNCHANGED state
  /\ TrapReturn(c)
  /\ intr' = [intr EXCEPT ![c] = cpc[c] = "run" /\ ~Doomed(c)]
  /\ UNCHANGED <<pid, parent, chan, killed, ctx, child, nextpid,
                 mlfqVars, cpc, cur, count, lev, lock>>

Yield(c) ==
  /\ intr[c] /\ lock = NoCpu
  /\ intr' = [intr EXCEPT ![c] = FALSE]
  /\ state' = [state EXCEPT ![cur[c]] = "RUNNABLE"]
  /\ ctx' = [ctx EXCEPT ![cur[c]] = "yield"]
  /\ EnterScheduler(c)
  /\ UNCHANGED <<pid, parent, chan, killed, kpc, child, nextpid>>

-----------------------------------------------------------------------------
(***************************************************************************)
(* exit.  Called by the exit system call and by trap for a killed process; *)
(* a processor exception in user mode makes the process a killed one.      *)
(***************************************************************************)
SysExit(c) ==
  /\ Calls(c)
  /\ CallExit(c)
  /\ UNCHANGED <<state, pid, parent, chan, killed, ctx, child, nextpid,
                 mlfqVars, cpuVars, lock>>

TrapExit(c) ==
  /\ Executes(c, {"user"}) /\ Doomed(c)
  /\ CallExit(c)
  /\ UNCHANGED <<state, pid, parent, chan, killed, ctx, child, nextpid,
                 mlfqVars, cpuVars, lock>>

UserFault(c) ==
  /\ Executes(c, {"user"})
  /\ killed' = [killed EXCEPT ![cur[c]] = TRUE]
  /\ CallExit(c)
  /\ UNCHANGED <<state, pid, parent, chan, ctx, child, nextpid,
                 mlfqVars, cpuVars, lock>>

Exit_ParentNotWoken(c) ==
  LET p == cur[c] IN
  /\ Executes(c, {"exit"}) /\ lock = NoCpu
  /\ parent' = [k \in Slots |-> IF parent[k] = p THEN initproc ELSE parent[k]]
  /\ state' = [(IF Zombies(p) = {} THEN state ELSE wakeup1(state, initproc)) EXCEPT ![p] = "ZOMBIE"]
  /\ EnterScheduler(c)
  /\ UNCHANGED <<pid, chan, killed, ctx, kpc, child, nextpid, intr>>

\* The end of exit: wake the parent, pass the children to initproc, which is
\* woken if one of them is a zombie, become a zombie and never return.
Exit(c) ==
  LET p      == cur[c]
      woken  == wakeup1(state, parent[p])
      woken2 == IF Zombies(p) = {} THEN woken ELSE wakeup1(woken, initproc)
  IN
  /\ Executes(c, {"exit"}) /\ lock = NoCpu
  /\ parent' = [k \in Slots |-> IF parent[k] = p THEN initproc ELSE parent[k]]
  /\ state' = [woken2 EXCEPT ![p] = "ZOMBIE"]
  /\ EnterScheduler(c)
  /\ UNCHANGED <<pid, chan, killed, ctx, kpc, child, nextpid, intr>>

Kill_SleepsOn(c, n, p) ==
  /\ Calls(c) /\ lock = NoCpu
  /\ pid[p] = n /\ \A j \in Slots : pid[j] = n => p <= j
  /\ killed' = [killed EXCEPT ![p] = TRUE]
  /\ UNCHANGED <<state, pid, parent, chan, ctx, kpc, child, nextpid,
                 mlfqVars, cpuVars, lock>>

\* kill: the first slot with the pid, whatever its state.
Kill(c, n, p) ==
  /\ Calls(c) /\ lock = NoCpu
  /\ pid[p] = n /\ \A j \in Slots : pid[j] = n => p <= j
  /\ killed' = [killed EXCEPT ![p] = TRUE]
  /\ state' = [state EXCEPT ![p] = IF @ = "SLEEPING" THEN "RUNNABLE" ELSE @]
  /\ UNCHANGED <<pid, parent, chan, ctx, kpc, child, nextpid,
                 mlfqVars, cpuVars, lock>>

-----------------------------------------------------------------------------
Scheduler(c) ==
  \/ SchedulerAcquire(c) \/ SchedulerPick(c) \/ SchedulerRelease(c)
  \/ Dispatch(c) \/ Degrade(c) \/ Boost(c) \/ RequeueSleeper(c) \/ KeepPlace(c)
  \/ Resume(c) \/ ResumeWait(c)

Interrupt(c) == WakeupIo(c) \/ TimerInterrupt(c) \/ Yield(c)

SystemCall(c) ==
  \/ Wait(c)
  \/ \E p \in Slots : ForkAlloc(c, p)
  \/ ForkFails(c) \/ ForkDone(c)
  \/ \E ch \in SleepChans : Sleep(c, ch)
  \/ SysReturn(c)
  \/ SysExit(c) \/ TrapExit(c) \/ UserFault(c) \/ Exit(c)
  \/ \E p \in Slots : \E n \in KillPids : Kill(c, n, p)

\* The processor of the first process has stopped in panic.
Panicked == \E c \in Cpus : cpc[c] = "run" /\ kpc[cur[c]] = "panic"

Halted == (fault \/ Panicked) /\ UNCHANGED vars

Next ==
  \/ \E c \in Cpus : ~fault /\ (Scheduler(c) \/ Interrupt(c) \/ SystemCall(c))
  \/ Halted

Spec == Init /\ [][Next]_vars

-----------------------------------------------------------------------------
(***************************************************************************)
(* Safety                                                                  *)
(***************************************************************************)

\* The lock that swtch hands over is always in the right hands: a processor
\* in the scheduler holds ptable.lock, and no two processors ever have the
\* same process, whether executing it or deciding what becomes of it after
\* its slice.  A process is RUNNING exactly while a processor executes it.
HasProcess(c) == cpc[c] \in {"run", "slice"}

OneCpuPerProcess ==
  /\ \A c \in Cpus : cpc[c] \in {"scan", "slice"} => lock = c
  /\ \A c \in Cpus : cpc[c] = "run" => state[cur[c]] = "RUNNING"
  /\ \A p \in Slots : state[p] = "RUNNING" => \E c \in Cpus : cpc[c] = "run" /\ cur[c] = p
  /\ \A c, d \in Cpus : c # d /\ HasProcess(c) /\ HasProcess(d) => cur[c] # cur[d]

\* A slot that allocproc has handed out belongs to one fork until that fork
\* ends: the unlocked writes p->state = UNUSED of a failing fork never hit a
\* slot that someone else uses, and no EMBRYO is left without an owner.
Forking == {p \in Slots : child[p] # NoProc}

EmbryoOwned ==
  /\ \A p \in Forking : state[p] \in {"RUNNABLE", "RUNNING"} /\ state[child[p]] = "EMBRYO"
  /\ \A p, r \in Forking : child[p] = child[r] => p = r
  /\ \A k \in Slots : state[k] = "EMBRYO" => \E p \in Forking : child[p] = k

\* exit passes the children on before it becomes a zombie: the parent of a
\* process is alive, so that every zombie has someone to wait for it.
Alive == {"SLEEPING", "RUNNABLE", "RUNNING"}

ParentAlive ==
  \A p \in Slots \ {initproc} : state[p] \in Alive \cup {"ZOMBIE"} =>
    parent[p] \in Slots /\ state[parent[p]] \in Alive

\* No lost wakeup between wait, exit and kill: a process asleep in wait has a
\* child to wait for, none of its children is already a zombie, and it has
\* not been killed.
WaitNotMissed ==
  \A p \in Slots : state[p] = "SLEEPING" /\ chan[p] = p =>
    Children(p) # {} /\ Zombies(p) = {} /\ ~killed[p]

(***************************************************************************)
(* What makes these four and TypeOK inductive.                             *)
(***************************************************************************)
ProcessorInv ==
  /\ \A c \in Cpus : HasProcess(c) => cur[c] \in Slots
  /\ \A c \in Cpus : cpc[c] = "slice" => state[cur[c]] \in {"RUNNABLE", "SLEEPING", "ZOMBIE"}
  /\ \A c \in Cpus : intr[c] => cpc[c] = "run" /\ lock # c
  /\ \A c \in Cpus : cpc[c] = "run" /\ lock # c => ctx[cur[c]] = "none"

PathInv ==
  /\ \A p \in Slots : kpc[p] = "fork" <=> child[p] # NoProc
  /\ \A p \in Slots : ctx[p] = "wait" => kpc[p] = "user"

FamilyInv ==
  /\ kpc[initproc] # "exit" /\ state[initproc] \in Alive
  /\ \A p \in Slots : state[p] \in {"UNUSED", "EMBRYO"} => parent[p] = NoProc
  /\ \A p \in Slots : parent[p] # p
  /\ parent[initproc] = NoProc

\* The inductive invariant: the lock and process tables as scheduler, fork,
\* exit and wait leave them at every point where another processor can act.
TableInv ==
  /\ TypeOK /\ ProcessorInv /\ PathInv /\ FamilyInv
  /\ OneCpuPerProcess /\ EmbryoOwned /\ ParentAlive /\ WaitNotMissed

\* Until allocproc hands out a slot for the second time, the three queues
\* hold every process exactly once, at the level its priority field says.
QueuesPartition ==
  /\ \A l \in Levels : NoDup(q[l]) /\ \A p \in Entries(q[l]) : priority[p] = l
  /\ \A p \in Slots : state[p] # "UNUSED" => p \in Entries(q[priority[p]])

QueuesPartitionFirstLife == ~recycled => QueuesPartition

\* Until then end stays in 0 .. NPROC: addQueue never writes past the NPROC
\* entries and deleteQueue never makes end negative.
NoOverrunFirstLife == ~recycled => ~fault

\* Until then the process whose slice begins has the highest priority of the
\* processes that could run ("Returns highest priority RUNNABLE process").
HighestPriorityFirst ==
  \A c \in Cpus : cpc[c] = "slice" /\ count[c] = 0 =>
    \A p \in Slots : state[p] = "RUNNABLE" => priority[cur[c]] <= priority[p]

HighestPriorityFirstLife == ~recycled => HighestPriorityFirst

\* How a process moves between the levels.  It goes down one level only when
\* it has used the whole slice of its level, so a process that sleeps early
\* keeps its level; it goes up only from q2 to q0, after BoostTicks run ticks.
LevelRule ==
  \A p \in Slots : ~recycled' /\ state[p] # "UNUSED" /\ priority'[p] # priority[p] =>
    \/ /\ priority'[p] = priority[p] + 1
       /\ \E c \in Cpus : cur[c] = p /\ count[c] >= Slice[priority[p]]
    \/ priority[p] = 2 /\ priority'[p] = 0 /\ Ticks[p] >= BoostTicks

LevelsFollowRule == [][LevelRule]_vars

\* What makes the properties of the queues inductive, with TableInv: a slot
\* that has been used has an entry, and scheduler works on the queue of the
\* level its process has.
QueueInv ==
  ~recycled =>
    /\ ~fault /\ QueuesPartition /\ HighestPriorityFirst
    /\ \A p \in Slots : pid[p] > 0 => p \in Entries(q[priority[p]])
    /\ \A c \in Cpus : HasProcess(c) => lev[c] = priority[cur[c]]

-----------------------------------------------------------------------------
(***************************************************************************)
(* Liveness.  A processor that holds ptable.lock runs with interrupts off  *)
(* and goes on; a spinning acquire goes on when it finds the lock free     *)
(* whenever it looks.  The timer fires for ever: an interrupt that finds   *)
(* interrupts off stays pending and is taken when they are next on, which  *)
(* is strong fairness.  Nothing is assumed of the programs.                *)
(***************************************************************************)
Fairness ==
  \A c \in Cpus :
    /\ WF_vars(~fault /\ Scheduler(c))
    /\ WF_vars(~fault /\ Yield(c))
    /\ SF_vars(~fault /\ TimerInterrupt(c))

FairSpec == Spec /\ Fairness

Stopped == fault \/ Panicked

\* ptable.lock is never kept for ever: the loops of scheduler end, and what
\* runs next, down to a wait that goes back to sleep, releases the lock or
\* gives the processor to someone who does.
LockReleased == \A c \in Cpus : lock = c ~> lock # c \/ Stopped

\* sys_sleep: a process that sleeps on the clock is woken by a later tick.
ClockWakesSleepers ==
  \A p \in Slots : (state[p] = "SLEEPING" /\ chan[p] = TicksChan)
                     ~> (state[p] # "SLEEPING" \/ Stopped)

\* q0 has no starvation, although returnProc swaps entries out of their
\* order: whoever runs before a waiting process leaves q0 or moves behind it.
\* A process that waits in q0 runs, or has just run and goes down to q1.
TopLevelServed ==
  \A p \in Slots : (state[p] = "RUNNABLE" /\ priority[p] = 0)
                     ~> (state[p] # "RUNNABLE" \/ priority[p] = 1 \/ recycled \/ Stopped)

-----------------------------------------------------------------------------
(***************************************************************************)
(* What comments and documents say and the code does not do.               *)
(***************************************************************************)

\* allocproc, "delete unused from queue": a slot is in the queues only once.
QueuedOnce ==
  \A l, m \in Levels : \A i \in 1 .. Len(q[l]), j \in 1 .. Len(q[m]) :
    q[l][i] = q[m][j] => l = m /\ i = j

\* "boost(): for putting a waiting proc in q2 to q0": a process that waits in
\* q2 is boosted, or runs.
WaitingInQ2Boosted ==
  \A p \in Slots : (state[p] = "RUNNABLE" /\ priority[p] = 2)
                     ~> (state[p] # "RUNNABLE" \/ priority[p] = 0 \/ Stopped)

=============================================================================
