------------------------------ MODULE Spinlock ------------------------------
(***************************************************************************)
(* Spin-locks and interrupts (spinlock.c): acquire and release one memory  *)
(* access at a time, the nesting of pushcli and popcli, and interrupt      *)
(* handlers that run whenever a CPU lets them, on top of the kernel paths  *)
(* of system calls.  A path is the sequence of locks its code takes and    *)
(* gives back, with "sched" where it gives up the CPU.                     *)
(***************************************************************************)
EXTENDS Naturals, Sequences, FiniteSets

CONSTANTS
  CPUs, NoCpu,
  Calls,      \* paths of system calls
  Handlers    \* paths of interrupt handlers

Acq(l) == [op |-> "acquire", lk |-> l]
Rel(l) == [op |-> "release", lk |-> l]
Sched == [op |-> "sched", lk |-> "ptable"]
Locks == {"cons", "ptable", "ticks", "ide"}

\* cprintf and consolewrite; kill, fork, wakeup.
Locked(l) == <<Acq(l), Rel(l)>>
\* The locks in the other order.
WakeupThenLock(l) == <<Acq("ptable"), Acq(l), Rel(l), Rel("ptable")>>

\* wakeup of a channel, by the holder of the channel's lock.
LockedWakeup(l) == <<Acq(l), Acq("ptable"), Rel("ptable"), Rel(l)>>

\* sleep on a channel guarded by l, and what its caller does then.
LockedSleep(l) == <<Acq(l), Acq("ptable"), Rel(l), Sched, Rel("ptable"), Acq(l), Rel(l)>>

\* yield
Yield == <<Acq("ptable"), Sched, Rel("ptable")>>

\* getpinfo prints while it holds the process table.
Getpinfo == <<Acq("ptable"), Acq("cons"), Rel("cons"), Rel("ptable")>>

\* The locks that a path gives back from step k on without taking them: those
\* its code holds there.
HeldFrom(p, k) ==
  {l \in Locks : \E i \in k..Len(p) : p[i] = Rel(l) /\ \A j \in k..(i - 1) : p[j] # Acq(l)}

\* What the code keeps to wherever it takes locks: none is taken twice, one
\* that is given back is held, all are given back, and sched is called with
\* ptable.lock and no other.
Ops == {Acq(l) : l \in Locks} \cup {Rel(l) : l \in Locks} \cup {Sched}
Nested(p) ==
  \A k \in 1..Len(p) :
    /\ \A l \in Locks : p[k] = Acq(l) => l \in HeldFrom(p, k + 1)
    /\ \A l \in Locks : p[k] = Rel(l) => l \notin HeldFrom(p, k + 1)
    /\ p[k] = Sched => HeldFrom(p, k) = {"ptable"}
Disciplined(p) == p \in Seq(Ops) /\ HeldFrom(p, 1) = {} /\ Nested(p)

\* The order of the locks: with a lock in hand, only ptable.lock is taken.
Ordered(p) == \A k \in 1..Len(p), l \in Locks : p[k] = Acq(l) /\ HeldFrom(p, k) # {} => l = "ptable"

ASSUME SpinAssumption == NoCpu \notin CPUs /\ \A p \in Calls \cup Handlers : Disciplined(p)

VARIABLES
  locked, owner,        \* lk->locked and lk->cpu
  IF_, ncli, intena,    \* of each CPU
  frames                \* the paths a CPU is in, the running one last

spinvars == <<locked, owner, IF_, ncli, intena, frames>>

SpinInit ==
  /\ locked = [l \in Locks |-> FALSE] /\ owner = [l \in Locks |-> NoCpu]
  /\ IF_ = [c \in CPUs |-> TRUE] /\ ncli = [c \in CPUs |-> 0] /\ intena = [c \in CPUs |-> FALSE]
  /\ frames = [c \in CPUs |-> <<>>]

Top(c) == frames[c][Len(frames[c])]
AtOp(c, op, at) == frames[c] # <<>> /\ Top(c).path # <<>> /\ Head(Top(c).path).op = op /\ Top(c).at = at
Lk(c) == Head(Top(c).path).lk
GoTo(c, at) == frames' = [frames EXCEPT ![c][Len(frames[c])].at = at]
NextOp(c) == frames' = [frames EXCEPT ![c][Len(frames[c])] = [Top(c) EXCEPT !.path = Tail(Top(c).path), !.at = "start"]]

\* A system call starts; an interrupt is taken, with interrupts off.
Syscall(c) ==
  /\ frames[c] = <<>>
  /\ \E p \in Calls : frames' = [frames EXCEPT ![c] = <<[path |-> p, at |-> "start", irq |-> FALSE]>>]
  /\ UNCHANGED <<locked, owner, IF_, ncli, intena>>

Interrupt(c) ==
  /\ IF_[c]
  /\ \E p \in Handlers : frames' = [frames EXCEPT ![c] = Append(@, [path |-> p, at |-> "start", irq |-> TRUE])]
  /\ IF_' = [IF_ EXCEPT ![c] = FALSE]
  /\ UNCHANGED <<locked, owner, ncli, intena>>

\* The path ends: back to user mode, or iret to what was interrupted.
Return(c) ==
  /\ frames[c] # <<>> /\ Top(c).path = <<>>
  /\ frames' = [frames EXCEPT ![c] = SubSeq(@, 1, Len(@) - 1)]
  /\ IF_' = [IF_ EXCEPT ![c] = TRUE]
  /\ UNCHANGED <<locked, owner, ncli, intena>>

-----------------------------------------------------------------------------
\* pushcli that saves the interrupt flag every time.
PushcliAlways(c) ==
  /\ intena' = [intena EXCEPT ![c] = IF_[c]]
  /\ ncli' = [ncli EXCEPT ![c] = @ + 1]
  /\ IF_' = [IF_ EXCEPT ![c] = FALSE]

pushcli(c) ==
  /\ intena' = [intena EXCEPT ![c] = IF ncli[c] = 0 THEN IF_[c] ELSE @]
  /\ ncli' = [ncli EXCEPT ![c] = @ + 1]
  /\ IF_' = [IF_ EXCEPT ![c] = FALSE]

popcli(c) ==
  /\ ncli' = [ncli EXCEPT ![c] = @ - 1]
  /\ IF_' = [IF_ EXCEPT ![c] = @ \/ (ncli[c] = 1 /\ intena[c])]
  /\ UNCHANGED intena

\* acquire: pushcli, then holding reads lk->locked ...
AcquireCli(c) ==
  /\ AtOp(c, "acquire", "start")
  /\ pushcli(c) /\ GoTo(c, "holding")
  /\ UNCHANGED <<locked, owner>>

AcquireHolding(c) ==
  /\ AtOp(c, "acquire", "holding")
  /\ GoTo(c, IF locked[Lk(c)] THEN "whose" ELSE "spin")
  /\ UNCHANGED <<locked, owner, IF_, ncli, intena>>

\* ... and lk->cpu, which may have changed hands since.
AcquireWhose(c) ==
  /\ AtOp(c, "acquire", "whose")
  /\ GoTo(c, IF owner[Lk(c)] = c THEN "panic" ELSE "spin")
  /\ UNCHANGED <<locked, owner, IF_, ncli, intena>>

\* The xchg that finds the lock free.
AcquireXchg(c) ==
  /\ AtOp(c, "acquire", "spin") /\ ~locked[Lk(c)]
  /\ locked' = [locked EXCEPT ![Lk(c)] = TRUE] /\ GoTo(c, "locked")
  /\ UNCHANGED <<owner, IF_, ncli, intena>>

AcquireOwn(c) ==
  /\ AtOp(c, "acquire", "locked")
  /\ owner' = [owner EXCEPT ![Lk(c)] = c] /\ NextOp(c)
  /\ UNCHANGED <<locked, IF_, ncli, intena>>

\* release: lk->cpu = 0 comes before the lock is free.
Disown(c) == owner' = [owner EXCEPT ![Lk(c)] = NoCpu]

ReleaseOwner(c) ==
  /\ AtOp(c, "release", "start")
  /\ IF locked[Lk(c)] /\ owner[Lk(c)] = c THEN Disown(c) /\ GoTo(c, "unlock")
     ELSE GoTo(c, "panic") /\ UNCHANGED owner
  /\ UNCHANGED <<locked, IF_, ncli, intena>>

ReleaseUnlock(c) ==
  /\ AtOp(c, "release", "unlock")
  /\ locked' = [locked EXCEPT ![Lk(c)] = FALSE] /\ GoTo(c, "popcli")
  /\ UNCHANGED <<owner, IF_, ncli, intena>>

ReleasePopcli(c) ==
  /\ AtOp(c, "release", "popcli")
  /\ IF IF_[c] \/ ncli[c] = 0 THEN GoTo(c, "panic") /\ UNCHANGED <<ncli, IF_, intena>>
     ELSE popcli(c) /\ NextOp(c)
  /\ UNCHANGED <<locked, owner>>

\* sched, with its tests; another process runs, and this one comes back.
SchedSwitch(c) ==
  /\ AtOp(c, "sched", "start")
  /\ IF owner["ptable"] # c \/ ncli[c] # 1 \/ IF_[c] THEN GoTo(c, "panic") ELSE NextOp(c)
  /\ UNCHANGED <<locked, owner, IF_, ncli, intena>>

SpinStep(c) ==
  \/ Syscall(c) \/ Interrupt(c) \/ Return(c)
  \/ AcquireCli(c) \/ AcquireHolding(c) \/ AcquireWhose(c) \/ AcquireXchg(c) \/ AcquireOwn(c)
  \/ ReleaseOwner(c) \/ ReleaseUnlock(c) \/ ReleasePopcli(c)
  \/ SchedSwitch(c)

SpinNext == \E c \in CPUs : SpinStep(c)
SpinSpec == SpinInit /\ [][SpinNext]_spinvars

-----------------------------------------------------------------------------
\* A frame of a CPU holds a lock from the xchg to the store that frees it.
Holds(f, l) ==
  \/ f.path # <<>> /\ Head(f.path) = Acq(l) /\ f.at = "locked"
  \/ l \in HeldFrom(f.path, 1) /\ ~(Head(f.path) = Rel(l) /\ f.at = "popcli")
Wants(f, l) == f.path # <<>> /\ Head(f.path) = Acq(l) /\ f.at = "spin"
FramesOf(c) == {frames[c][i] : i \in DOMAIN frames[c]}

\* One holder per lock, and none of the panics of acquire, release, popcli
\* and sched: holding() answers right although it reads locked and cpu of a
\* lock that other CPUs are changing.  Interrupts are on again whenever a CPU
\* is outside acquire..release and outside a handler, and off inside, however
\* the pairs nest.
LockDiscipline ==
  /\ \A c \in CPUs, f \in UNION {FramesOf(d) : d \in CPUs} : f.at # "panic"
  /\ \A l \in Locks, c, d \in CPUs :
       (\E f \in FramesOf(c) : Holds(f, l)) /\ (\E g \in FramesOf(d) : Holds(g, l)) => c = d
  /\ \A c \in CPUs : IF_[c] <=> (ncli[c] = 0 /\ \A f \in FramesOf(c) : ~f.irq)

SpinsFor(c, d) ==
  \E f \in FramesOf(c), g \in FramesOf(d), l \in Locks : Wants(f, l) /\ Holds(g, l)

\* No two CPUs spin for locks of each other for ever, and none for a lock of
\* its own, in a handler that runs on top of code that holds it (acquire).
NoSpinCycle == \A c, d \in CPUs : ~(SpinsFor(c, d) /\ SpinsFor(d, c))

-----------------------------------------------------------------------------
(***************************************************************************)
(* The inductive invariant.                                                *)
(***************************************************************************)

Acquiring == {"holding", "whose", "spin", "locked"}
Releasing == {"unlock", "popcli"}
Frames == [path : Seq(Ops), at : {"start"} \cup Acquiring \cup Releasing, irq : BOOLEAN]

SpinTypeOK ==
  /\ locked \in [Locks -> BOOLEAN] /\ owner \in [Locks -> CPUs \cup {NoCpu}]
  /\ IF_ \in [CPUs -> BOOLEAN] /\ ncli \in [CPUs -> Nat] /\ intena \in [CPUs -> BOOLEAN]
  /\ frames \in [CPUs -> Seq(Frames)]

\* A frame is inside acquire or release only where its path says so.
Sound(f) ==
  /\ Nested(f.path)
  /\ f.at \in Acquiring => f.path # <<>> /\ Head(f.path).op = "acquire"
  /\ f.at \in Releasing => f.path # <<>> /\ Head(f.path).op = "release"

\* One handler at most runs on top of a system call, and the call it has
\* interrupted holds no lock.
Idle(f) == f.at = "start" /\ HeldFrom(f.path, 1) = {}
Stacks ==
  \A c \in CPUs :
    /\ Len(frames[c]) <= 2
    /\ \A i \in 1..Len(frames[c]) : Sound(frames[c][i])
    /\ Len(frames[c]) = 2 => Idle(frames[c][1]) /\ ~frames[c][1].irq /\ frames[c][2].irq

\* ncli counts the locks held and the one being taken, and intena remembers
\* what interrupts were before the first.
Depth(f) == Cardinality(HeldFrom(f.path, 1)) + (IF f.at \in Acquiring THEN 1 ELSE 0)
InHandler(c) == frames[c] # <<>> /\ Top(c).irq
Nesting ==
  \A c \in CPUs :
    /\ ncli[c] = IF frames[c] = <<>> THEN 0 ELSE Depth(Top(c))
    /\ IF_[c] <=> ncli[c] = 0 /\ ~InHandler(c)
    /\ ncli[c] # 0 => (intena[c] <=> ~InHandler(c))

\* lk->locked and lk->cpu say who holds a lock, and lk->cpu says it later and
\* for a shorter time.
Owns(f, l) == l \in HeldFrom(f.path, 1) /\ ~(Head(f.path) = Rel(l) /\ f.at # "start")
Has(c, l) == frames[c] # <<>> /\ Holds(Top(c), l)
Marks(c, l) == frames[c] # <<>> /\ Owns(Top(c), l)
LockedRight(l) ==
  /\ locked[l] <=> \E c \in CPUs : Has(c, l)
  /\ \A c, d \in CPUs : Has(c, l) /\ Has(d, l) => c = d
OwnerRight(l) == \A c \in CPUs : owner[l] = c <=> Marks(c, l)
Ownership == \A l \in Locks : LockedRight(l) /\ OwnerRight(l)

SpinInv == SpinTypeOK /\ Stacks /\ Nesting /\ Ownership

\* The paths that have begun keep the order of the locks to their end.
PathsOrdered == \A p \in Calls \cup Handlers : Ordered(p)
FramesOrdered == \A c \in CPUs : \A i \in 1..Len(frames[c]) : Ordered(frames[c][i].path)
=============================================================================
