----------------------------- MODULE ProcProofs -----------------------------
(***************************************************************************)
(* The steps of module Proc, for every number of slots and processors,     *)
(* every length of the time slices and every bound of the model.           *)
(*                                                                         *)
(* First: TableInv is inductive.  One lemma per action (or per group of    *)
(* actions with the same effect on the table), one step per conjunct.  A   *)
(* lemma first states the effect of the action slot by slot; the steps     *)
(* about the conjuncts use that instead of the definition of the action.   *)
(*                                                                         *)
(* Then the queues: QueueInv is inductive relative to TableInv.  Most      *)
(* steps leave the queues alone (lemma Frame), the scheduler swaps two     *)
(* entries or moves a process to the tail of a level.  The steps that move *)
(* a process between levels assume QueueLaws, which ProcTheorems proves of *)
(* the queue helpers.                                                      *)
(***************************************************************************)
EXTENDS Proc, MlfqLaws, TLAPS

USE DEF vars, procVars, mlfqVars, cpuVars
\* Most leaves are first-order; a leaf that needs arithmetic, sequences or
\* large records names SMT.
USE ZenonT(30)

\* The null pointers and the sleep channels of the clock and of I/O are no
\* slots, and the first slot of the table exists.
LEMMA Names ==
  /\ NoCpu \notin Cpus
  /\ NoProc \notin Slots /\ NoChan \notin Slots
  /\ TicksChan \notin Slots /\ IoChan \notin Slots /\ SleepChans \cap Slots = {}
  /\ SleepChans \subseteq Chans
  /\ initproc \in Slots /\ 0 \in 0 .. NPROC
  /\ \A p \in Slots : p \in 0 .. NPROC /\ p + 1 \in 0 .. NPROC
BY MlfqAssumption, ProcAssumption, SMTT(30)
   DEF NoCpu, Cpus, NoProc, NoChan, TicksChan, IoChan, Chans, Slots, initproc

\* A processor that executes a process has it to itself.
LEMMA Executing ==
  ASSUME TableInv, NEW c \in Cpus, cpc[c] = "run"
  PROVE  /\ cur[c] \in Slots /\ state[cur[c]] = "RUNNING"
         /\ lock # c => ctx[cur[c]] = "none"
         /\ \A d \in Cpus \ {c} : HasProcess(d) => cur[d] # cur[c]
BY DEF TableInv, ProcessorInv, OneCpuPerProcess, HasProcess

\* While ptable.lock is free no processor is inside the scheduler.
LEMMA Unlocked ==
  ASSUME TableInv, lock = NoCpu
  PROVE  \A d \in Cpus : cpc[d] \in {"idle", "run"}
<1> SUFFICES ASSUME NEW d \in Cpus PROVE cpc[d] \in {"idle", "run"}
  OBVIOUS
<1>1. lock # d
  BY Names
<1> QED BY <1>1, SMTT(30) DEF TableInv, TypeOK, OneCpuPerProcess

\* While ptable.lock is free or held by c no other processor is inside it.
LEMMA Outside ==
  ASSUME TableInv, NEW c \in Cpus, lock \in {NoCpu, c}
  PROVE  \A d \in Cpus \ {c} : cpc[d] \in {"idle", "run"}
<1> SUFFICES ASSUME NEW d \in Cpus, d # c PROVE cpc[d] \in {"idle", "run"}
  OBVIOUS
<1>1. lock # d
  BY Names
<1> QED BY <1>1, SMTT(30) DEF TableInv, TypeOK, OneCpuPerProcess

-----------------------------------------------------------------------------
\* The first process is RUNNABLE in q0 and the rest of the table is empty.
LEMMA InitTable == Init => TableInv
<1> SUFFICES ASSUME Init PROVE TableInv
  OBVIOUS
<1> USE Names DEF Init
<1>1. TypeOK
  <2>1. q \in [Levels -> Seq(Slots)]
    BY SMTT(30) DEF Levels
  <2>2. /\ state \in [Slots -> States] /\ pid \in [Slots -> Nat]
        /\ parent \in [Slots -> Slots \cup {NoProc}]
        /\ chan \in [Slots -> Chans \cup {NoChan}]
        /\ killed \in [Slots -> BOOLEAN]
    BY DEF States
  <2>3. /\ priority \in [Slots -> Levels] /\ Ticks \in [Slots -> Nat]
        /\ child \in [Slots -> Slots \cup {NoProc}]
        /\ lev \in [Cpus -> Levels] /\ cur \in [Cpus -> 0 .. NPROC]
    BY SMTT(30) DEF Levels
  <2> QED BY <2>1, <2>2, <2>3 DEF TypeOK
<1>2. ProcessorInv /\ PathInv
  BY DEF ProcessorInv, PathInv, HasProcess
<1>3. FamilyInv /\ OneCpuPerProcess /\ EmbryoOwned /\ ParentAlive /\ WaitNotMissed
  BY DEF FamilyInv, OneCpuPerProcess, EmbryoOwned, Forking, ParentAlive, WaitNotMissed,
         Alive, HasProcess
<1> QED BY <1>1, <1>2, <1>3 DEF TableInv

-----------------------------------------------------------------------------
(***************************************************************************)
(* Parts of the invariant that most steps leave alone.                     *)
(***************************************************************************)

\* A process that stays asleep in wait keeps its children, and none of them
\* becomes a zombie without waking it.
StillWaiting(r) ==
  /\ state[r] = "SLEEPING" /\ chan[r] = r /\ (killed'[r] => killed[r])
  /\ \A j \in Slots : parent[j] = r => parent'[j] = r
  /\ \A j \in Slots : parent'[j] = r /\ state'[j] = "ZOMBIE" => parent[j] = r /\ state[j] = "ZOMBIE"

LEMMA WaitKept ==
  ASSUME TableInv,
         \A r \in Slots : state'[r] = "SLEEPING" /\ chan'[r] = r => StillWaiting(r)
  PROVE  WaitNotMissed'
<1> SUFFICES ASSUME NEW r \in Slots, state'[r] = "SLEEPING", chan'[r] = r
             PROVE  Children(r)' # {} /\ Zombies(r)' = {} /\ ~killed'[r]
  BY DEF WaitNotMissed
<1>1. StillWaiting(r)
  OBVIOUS
<1>2. Children(r) # {} /\ Zombies(r) = {} /\ ~killed[r]
  BY <1>1 DEF StillWaiting, TableInv, WaitNotMissed
<1>3. PICK j \in Slots : parent[j] = r
  BY <1>2 DEF Children
<1>4. \A k \in Slots : parent[k] = r => state[k] # "ZOMBIE"
  BY <1>2 DEF Zombies, Children
<1>5. Children(r)' # {}
  BY <1>1, <1>3 DEF StillWaiting, Children
<1>6. Zombies(r)' = {}
  BY <1>1, <1>4 DEF StillWaiting, Zombies, Children
<1> QED BY <1>1, <1>2, <1>5, <1>6 DEF StillWaiting

\* Parents stay as they are and no process is born or dies; a process in the
\* middle of fork does not fall asleep.
LEMMA FamilyKept ==
  ASSUME TableInv, UNCHANGED <<parent, child>>, kpc'[initproc] # "exit",
         \A r \in Slots :
            \/ state'[r] = state[r]
            \/ /\ state[r] \in Alive /\ state'[r] \in Alive
               /\ state'[r] = "SLEEPING" => child[r] = NoProc
  PROVE  FamilyInv' /\ EmbryoOwned' /\ ParentAlive'
<1>1. FamilyInv /\ EmbryoOwned /\ ParentAlive /\ child \in [Slots -> Slots \cup {NoProc}]
  BY DEF TableInv, TypeOK
<1>2. \A r \in Slots : /\ state'[r] \in Alive <=> state[r] \in Alive
                       /\ state'[r] \notin Alive => state'[r] = state[r]
                       /\ state[r] \notin Alive => state'[r] = state[r]
  BY DEF Alive
<1>3. \A r \in Slots : /\ state'[r] \in {"UNUSED", "EMBRYO"} => state[r] = state'[r]
                       /\ state[r] = "EMBRYO" => state'[r] = "EMBRYO"
                       /\ state'[r] = "ZOMBIE" => state[r] = "ZOMBIE"
  BY <1>2 DEF Alive
<1>4. FamilyInv'
  BY <1>1, <1>2, <1>3, Names DEF FamilyInv
<1>5. ParentAlive'
  BY <1>1, <1>2, <1>3 DEF ParentAlive
<1>6. \A r \in Slots : child[r] # NoProc /\ state[r] \in {"RUNNABLE", "RUNNING"}
                         => state'[r] \in {"RUNNABLE", "RUNNING"}
  BY DEF Alive
<1>7. Forking' = Forking /\ \A r \in Forking : r \in Slots /\ child[r] \in Slots /\ child[r] # NoProc
  BY <1>1 DEF Forking
<1>8. EmbryoOwned'
  BY <1>1, <1>3, <1>6, <1>7, SMTT(30) DEF EmbryoOwned
<1> QED BY <1>4, <1>5, <1>8

\* The process table does not change at all.
LEMMA TableKept ==
  ASSUME TableInv, UNCHANGED procVars
  PROVE  PathInv' /\ FamilyInv' /\ EmbryoOwned' /\ ParentAlive' /\ WaitNotMissed'
<1>1. PathInv /\ FamilyInv
  BY DEF TableInv
<1>2. FamilyInv' /\ EmbryoOwned' /\ ParentAlive'
  BY <1>1, FamilyKept DEF FamilyInv
<1>3. PathInv'
  BY <1>1 DEF PathInv
<1>4. WaitNotMissed'
  BY WaitKept DEF StillWaiting
<1> QED BY <1>2, <1>3, <1>4

-----------------------------------------------------------------------------
\* scheduler takes the lock: no other processor is inside the scheduler.
LEMMA AcquireStep ==
  ASSUME TableInv, NEW c \in Cpus, SchedulerAcquire(c)
  PROVE  TableInv'
<1> USE Names DEF SchedulerAcquire
<1>1. TypeOK'
  BY DEF TableInv, TypeOK
<1>2. /\ lock' = c /\ lock = NoCpu /\ cpc'[c] = "scan"
      /\ \A d \in Cpus \ {c} : cpc'[d] = cpc[d] /\ cur'[d] = cur[d] /\ cpc[d] \in {"idle", "run"}
  BY Unlocked DEF TableInv, TypeOK
<1>3. cpc[c] = "idle" /\ UNCHANGED <<procVars, intr>>
  OBVIOUS
<1> HIDE DEF SchedulerAcquire
<1>4. ProcessorInv'
  BY <1>2, <1>3 DEF TableInv, ProcessorInv, HasProcess
<1>5. OneCpuPerProcess'
  BY <1>2, <1>3, SMTT(30) DEF TableInv, OneCpuPerProcess, HasProcess
<1>6. PathInv' /\ FamilyInv' /\ EmbryoOwned' /\ ParentAlive' /\ WaitNotMissed'
  BY <1>3, TableKept
<1> QED BY <1>1, <1>4, <1>5, <1>6 DEF TableInv

\* The search of scheduler finds a RUNNABLE process: no processor has it.
LEMMA PickStep ==
  ASSUME QueueLaws, TableInv, NEW c \in Cpus, SchedulerPick(c)
  PROVE  TableInv'
<1> DEFINE p == returnProc(q, state)
<1>1. q \in Queues /\ state \in Tables
  BY DEF TableInv, TypeOK, Queues, Tables
<1>2. p \in Slots /\ state[p] = "RUNNABLE"
  BY <1>1 DEF SchedulerPick, QueueLaws, ReturnLaw
<1>3. returnQueue(q, state) \in Levels /\ SwapToHead(q, state) \in Queues
  BY <1>1 DEF QueueLaws, ReturnLaw, SwapLaw
<1> HIDE DEF p
<1>4. /\ cpc[c] = "scan" /\ lock = c /\ cpc'[c] = "slice" /\ cur'[c] = p
      /\ \A d \in Cpus \ {c} : cpc'[d] = cpc[d] /\ cur'[d] = cur[d]
      /\ UNCHANGED <<procVars, intr, lock>>
  BY SMTT(30) DEF SchedulerPick, TableInv, TypeOK, OneCpuPerProcess, p
<1>5. TypeOK'
  BY <1>2, <1>3, Names DEF TableInv, TypeOK, SchedulerPick, Queues, p
<1>6. \A d \in Cpus \ {c} : cpc[d] \in {"idle", "run"}
  BY <1>4, SMTT(30) DEF TableInv, OneCpuPerProcess, TypeOK
<1>7. ProcessorInv'
  BY <1>2, <1>4, SMTT(30) DEF TableInv, ProcessorInv, HasProcess
<1>8. OneCpuPerProcess'
  BY <1>2, <1>4, <1>6, SMTT(30) DEF TableInv, OneCpuPerProcess, HasProcess
<1>9. PathInv' /\ FamilyInv' /\ EmbryoOwned' /\ ParentAlive' /\ WaitNotMissed'
  BY <1>4, TableKept
<1> QED BY <1>5, <1>7, <1>8, <1>9 DEF TableInv

\* The loop over the table ends: the lock is free and c idle.
LEMMA ReleaseStep ==
  ASSUME QueueLaws, TableInv, NEW c \in Cpus, SchedulerRelease(c)
  PROVE  TableInv'
<1>1. q' \in Queues
  <2>1. q \in Queues /\ state \in Tables
    BY DEF TableInv, TypeOK, Queues, Tables
  <2> QED BY <2>1 DEF SchedulerRelease, QueueLaws, SwapLaw
<1>2. TypeOK'
  BY <1>1, Names DEF TableInv, TypeOK, SchedulerRelease, Queues
<1>3. /\ cpc[c] = "scan" /\ lock = c /\ lock' = NoCpu /\ cpc'[c] = "idle"
      /\ \A d \in Cpus \ {c} : cpc'[d] = cpc[d] /\ cur'[d] = cur[d] /\ cpc[d] \in {"idle", "run"}
      /\ UNCHANGED <<procVars, intr>>
  BY SMTT(30) DEF SchedulerRelease, TableInv, TypeOK, OneCpuPerProcess
<1>4. ProcessorInv'
  BY <1>3, Names DEF TableInv, ProcessorInv, HasProcess
<1>5. OneCpuPerProcess'
  BY <1>3, SMTT(30) DEF TableInv, OneCpuPerProcess, HasProcess
<1>6. PathInv' /\ FamilyInv' /\ EmbryoOwned' /\ ParentAlive' /\ WaitNotMissed'
  BY <1>3, TableKept
<1> QED BY <1>2, <1>4, <1>5, <1>6 DEF TableInv

\* A RUNNABLE process starts to run on the processor that has chosen it.
LEMMA DispatchStep ==
  ASSUME TableInv, NEW c \in Cpus, Dispatch(c)
  PROVE  TableInv'
<1> DEFINE p == cur[c]
<1>1. p \in Slots /\ cpc[c] = "slice" /\ lock = c /\ state[p] = "RUNNABLE"
  BY DEF Dispatch, InSlice, TableInv, ProcessorInv, HasProcess, OneCpuPerProcess
<1>2. TypeOK'
  BY DEF Dispatch, InSlice, TableInv, TypeOK, States
<1>3. /\ cpc'[c] = "run" /\ state'[p] = "RUNNING"
      /\ \A d \in Cpus \ {c} : cpc'[d] = cpc[d]
      /\ \A r \in Slots \ {p} : state'[r] = state[r]
      /\ UNCHANGED <<parent, chan, killed, ctx, kpc, child, cur, intr, lock>>
  <2>1. state \in [Slots -> States] /\ cpc \in [Cpus -> {"idle", "scan", "slice", "run"}]
    BY DEF TableInv, TypeOK
  <2> QED BY <1>1, <2>1 DEF Dispatch, InSlice
<1> HIDE DEF p
<1>4. ProcessorInv'
  BY <1>1, <1>3, SMTT(30) DEF TableInv, ProcessorInv, HasProcess, OneCpuPerProcess, p
<1>5. OneCpuPerProcess'
  BY <1>1, <1>3, SMTT(30) DEF TableInv, ProcessorInv, HasProcess, OneCpuPerProcess, p
<1>6. PathInv /\ FamilyInv
  BY DEF TableInv
<1>7. PathInv'
  BY <1>3, <1>6 DEF PathInv
<1>8. FamilyInv' /\ EmbryoOwned' /\ ParentAlive'
  BY <1>1, <1>3, <1>6, FamilyKept DEF FamilyInv, Alive
<1>9. WaitNotMissed'
  BY <1>1, <1>3, WaitKept DEF StillWaiting
<1> QED BY <1>2, <1>4, <1>5, <1>7, <1>8, <1>9 DEF TableInv

\* The end of a slice moves the process between the queues, and scheduler
\* goes on with the next slot; the process table is left alone.
LEMMA SliceOverTable ==
  ASSUME TableInv, NEW c \in Cpus, SliceOver(c),
         q' \in Queues, priority' \in [Slots -> Levels], Ticks' \in [Slots -> Nat],
         fault' \in BOOLEAN
  PROVE  TableInv'
<1>1. cur[c] \in Slots /\ cpc[c] = "slice" /\ lock = c
  BY DEF SliceOver, TableInv, ProcessorInv, HasProcess, OneCpuPerProcess
<1>2. TypeOK'
  <2>1. cur' \in [Cpus -> 0 .. NPROC] /\ lev' \in [Cpus -> Levels] /\ count' \in [Cpus -> Nat]
    <3>1. cur \in [Cpus -> 0 .. NPROC] /\ lev \in [Cpus -> Levels] /\ count \in [Cpus -> Nat]
      BY DEF TableInv, TypeOK
    <3>2. cur[c] + 1 \in 0 .. NPROC /\ 0 \in Levels /\ 0 \in Nat
      BY <1>1, Names, SMTT(30) DEF Levels
    <3> QED BY <3>1, <3>2 DEF SliceOver
  <2>2. TypeOK /\ cpc' = [cpc EXCEPT ![c] = "scan"] /\ UNCHANGED <<procVars, recycled, intr, lock>>
    BY DEF SliceOver, TableInv
  <2>3. cpc' \in [Cpus -> {"idle", "scan", "slice", "run"}]
    BY <2>2 DEF TypeOK
  <2> QED BY <2>1, <2>2, <2>3 DEF TypeOK, Queues
<1>3. /\ cpc'[c] = "scan"
      /\ \A d \in Cpus \ {c} : cpc'[d] = cpc[d] /\ cur'[d] = cur[d]
      /\ UNCHANGED <<procVars, intr, lock>>
  <2>1. cpc \in [Cpus -> {"idle", "scan", "slice", "run"}] /\ cur \in [Cpus -> 0 .. NPROC]
    BY DEF TableInv, TypeOK
  <2> QED BY <2>1 DEF SliceOver
<1>4. ProcessorInv'
  <2>1. ProcessorInv /\ UNCHANGED <<state, ctx, intr, lock>>
    BY <1>3 DEF TableInv, procVars
  <2> QED BY <1>1, <1>3, <2>1, SMTT(30) DEF ProcessorInv, HasProcess
<1>5. OneCpuPerProcess'
  BY <1>1, <1>3, SMTT(30) DEF TableInv, OneCpuPerProcess, HasProcess
<1>6. PathInv' /\ FamilyInv' /\ EmbryoOwned' /\ ParentAlive' /\ WaitNotMissed'
  BY <1>3, TableKept
<1> QED BY <1>2, <1>4, <1>5, <1>6 DEF TableInv

\* The queue helpers keep the types of what they change.
LEMMA RequeuedTypes ==
  ASSUME MoveLaw, TypeOK, NEW p \in Slots, NEW from \in Levels, NEW to \in Levels, Requeued(p, from, to)
  PROVE  /\ q' \in Queues /\ priority' \in [Slots -> Levels] /\ Ticks' \in [Slots -> Nat]
         /\ fault' \in BOOLEAN
<1>1. q \in Queues
  BY DEF TypeOK, Queues
<1>2. q' \in Queues
  BY <1>1 DEF Requeued, MoveLaw
<1> QED BY <1>2 DEF TypeOK, Requeued

\* The four ways a slice ends: demotion, boost, requeueing, staying put.
LEMMA SliceEndStep ==
  ASSUME QueueLaws, TableInv, NEW c \in Cpus,
         Degrade(c) \/ Boost(c) \/ RequeueSleeper(c) \/ KeepPlace(c)
  PROVE  TableInv'
<1>1. SliceOver(c)
  BY DEF Degrade, Boost, RequeueSleeper, KeepPlace
<1>2. cur[c] \in Slots /\ lev[c] \in Levels /\ TypeOK
  <2>1. TypeOK /\ ProcessorInv /\ cpc[c] = "slice"
    BY <1>1 DEF SliceOver, TableInv
  <2>2. lev[c] \in Levels
    BY <2>1 DEF TypeOK
  <2> QED BY <2>1, <2>2 DEF ProcessorInv, HasProcess
<1>3. CASE UNCHANGED <<q, fault, priority, Ticks>>
  <2>1. /\ q' \in Queues /\ priority' \in [Slots -> Levels] /\ Ticks' \in [Slots -> Nat]
        /\ fault' \in BOOLEAN
    BY <1>2, <1>3 DEF TypeOK, Queues
  <2> QED BY <1>1, <2>1, SliceOverTable
<1>4. ASSUME NEW from \in Levels, NEW to \in Levels, Requeued(cur[c], from, to)
      PROVE  TableInv'
  <2>1. MoveLaw
    BY DEF QueueLaws
  <2> QED BY <1>1, <1>2, <1>4, <2>1, RequeuedTypes, SliceOverTable
<1>5. lev[c] # 2 => lev[c] + 1 \in Levels
  BY <1>2, SMTT(30) DEF Levels
<1>6. 0 \in Levels /\ 2 \in Levels
  BY SMTT(30) DEF Levels
<1> QED BY <1>2, <1>3, <1>4, <1>5, <1>6 DEF Degrade, Boost, RequeueSleeper, KeepPlace

-----------------------------------------------------------------------------
(***************************************************************************)
(* Three effects on the processors that several actions share.             *)
(***************************************************************************)

\* The process of c enters sched; wakeup1 may have woken other processes.
LEMMA Switched ==
  ASSUME TableInv, NEW c \in Cpus, cpc[c] = "run", lock \in {NoCpu, c}, EnterScheduler(c),
         state'[cur[c]] \in {"RUNNABLE", "SLEEPING", "ZOMBIE"},
         \A r \in Slots \ {cur[c]} :
            /\ ctx'[r] = ctx[r]
            /\ state'[r] = state[r] \/ (state[r] = "SLEEPING" /\ state'[r] = "RUNNABLE"),
         \A d \in Cpus : intr'[d] => intr[d] /\ d # c
  PROVE  ProcessorInv' /\ OneCpuPerProcess'
<1>1. /\ lock' = c /\ cpc'[c] = "slice" /\ cur' = cur
      /\ \A d \in Cpus \ {c} : cpc'[d] = cpc[d] /\ cpc[d] \in {"idle", "run"}
  <2>1. cpc \in [Cpus -> {"idle", "scan", "slice", "run"}]
    BY DEF TableInv, TypeOK
  <2>2. \A d \in Cpus \ {c} : cpc[d] \in {"idle", "run"}
    BY Outside
  <2> QED BY <2>1, <2>2 DEF EnterScheduler
<1>2. ProcessorInv'
  <2>1. ProcessorInv /\ cur[c] \in Slots
    BY Executing DEF TableInv
  <2>2. \A d \in Cpus \ {c} : cpc[d] = "run" => cur[d] \in Slots /\ cur[d] # cur[c]
    BY Names, Executing DEF TableInv, OneCpuPerProcess, ProcessorInv, HasProcess
  <2> QED BY <1>1, <2>1, <2>2, Names, SMTT(30) DEF ProcessorInv, HasProcess
<1>3. OneCpuPerProcess'
  BY <1>1, Names, Executing, SMTT(30) DEF TableInv, OneCpuPerProcess, HasProcess
<1> QED BY <1>2, <1>3

\* Entering the scheduler keeps every type that the rest of the step keeps.
LEMMA SwitchTypes ==
  ASSUME TypeOK, NEW c \in Cpus, cur[c] \in Slots, EnterScheduler(c),
         state' \in [Slots -> States], parent' \in [Slots -> Slots \cup {NoProc}],
         chan' \in [Slots -> Chans \cup {NoChan}],
         ctx' \in [Slots -> {"forkret", "yield", "sleep", "wait", "none"}],
         kpc' \in [Slots -> {"user", "sys", "fork", "exit", "panic"}],
         intr' \in [Cpus -> BOOLEAN], UNCHANGED <<pid, killed, child, nextpid>>
  PROVE  TypeOK'
<1>1. /\ lock' \in Cpus \cup {NoCpu} /\ cpc' \in [Cpus -> {"idle", "scan", "slice", "run"}]
      /\ count' \in [Cpus -> Nat] /\ Ticks' \in [Slots -> Nat]
  <2>1. /\ cpc \in [Cpus -> {"idle", "scan", "slice", "run"}]
        /\ count \in [Cpus -> Nat] /\ Ticks \in [Slots -> Nat]
    BY DEF TypeOK
  <2> QED BY <2>1, SMTT(30) DEF EnterScheduler
<1>2. UNCHANGED <<cur, lev, priority, q, fault, recycled>>
  BY DEF EnterScheduler
<1> QED BY <1>1, <1>2 DEF TypeOK

\* The process of c goes on and ptable.lock is free.
LEMMA Released ==
  ASSUME TableInv, NEW c \in Cpus, cpc[c] = "run", lock \in {NoCpu, c}, lock' = NoCpu,
         ctx' = [ctx EXCEPT ![cur[c]] = "none"], UNCHANGED <<cpuVars, kpc, child>>,
         \A r \in Slots : state'[r] = state[r] \/ (state[r] = "ZOMBIE" /\ state'[r] = "UNUSED")
  PROVE  ProcessorInv' /\ OneCpuPerProcess' /\ PathInv'
<1>1. \A d \in Cpus \ {c} : cpc[d] \in {"idle", "run"}
  BY Outside
<1>2. \A r \in Slots : ctx'[r] = IF r = cur[c] THEN "none" ELSE ctx[r]
  BY DEF TableInv, TypeOK
<1>3. ProcessorInv'
  BY <1>1, <1>2, Names, Executing, SMTT(30) DEF TableInv, ProcessorInv, HasProcess
<1>4. OneCpuPerProcess'
  BY <1>1, Names, Executing, SMTT(30) DEF TableInv, OneCpuPerProcess, HasProcess, ProcessorInv
<1>5. PathInv'
  <2>1. PathInv /\ UNCHANGED <<kpc, child>>
    BY DEF TableInv
  <2>2. \A r \in Slots : ctx'[r] = "wait" => ctx[r] = "wait"
    BY <1>2, SMTT(30)
  <2>3. \A r \in Slots : kpc'[r] = "fork" <=> child'[r] # NoProc
    BY <2>1 DEF PathInv
  <2>4. \A r \in Slots : ctx'[r] = "wait" => kpc'[r] = "user"
    BY <2>1, <2>2 DEF PathInv
  <2> QED BY <2>3, <2>4 DEF PathInv
<1> QED BY <1>3, <1>4, <1>5

\* A slot that is not in use changes hands: no processor notices.
LEMMA OffCpu ==
  ASSUME TableInv, NEW k \in Slots, state[k] \in {"UNUSED", "EMBRYO"}, state'[k] # "RUNNING",
         \A r \in Slots \ {k} : state'[r] = state[r] /\ ctx'[r] = ctx[r],
         UNCHANGED <<cpuVars, lock>>
  PROVE  ProcessorInv' /\ OneCpuPerProcess'
<1>1. \A d \in Cpus : HasProcess(d) => cur[d] \in Slots \ {k}
  BY DEF TableInv, ProcessorInv, OneCpuPerProcess, HasProcess
<1>2. UNCHANGED <<cpc, cur, intr, lock>> /\ ProcessorInv /\ OneCpuPerProcess
  BY DEF TableInv
<1>3. ProcessorInv'
  BY <1>1, <1>2, SMTT(30) DEF ProcessorInv, HasProcess
<1>4. OneCpuPerProcess'
  BY <1>1, <1>2, SMTT(30) DEF OneCpuPerProcess, HasProcess
<1> QED BY <1>3, <1>4

\* Sleepers become RUNNABLE, a killed process among them, and a process in
\* user mode may be made to call exit.
LEMMA Woken ==
  ASSUME TableInv, UNCHANGED <<parent, chan, ctx, child, cpc, cur, lock>>,
         \A r \in Slots :
            \/ kpc'[r] = kpc[r]
            \/ /\ kpc[r] = "user" /\ ctx[r] = "none"
               /\ kpc'[r] \in {"exit", "panic"} /\ (kpc'[r] = "exit" => r # initproc),
         \A r \in Slots : state'[r] = state[r] \/ (state[r] = "SLEEPING" /\ state'[r] = "RUNNABLE"),
         \A r \in Slots : killed'[r] => killed[r] \/ state'[r] # "SLEEPING",
         \A d \in Cpus : intr'[d] => cpc[d] = "run" /\ lock # d
  PROVE  /\ ProcessorInv' /\ PathInv' /\ FamilyInv'
         /\ OneCpuPerProcess' /\ EmbryoOwned' /\ ParentAlive' /\ WaitNotMissed'
<1>1. ProcessorInv'
  BY DEF TableInv, ProcessorInv, HasProcess
<1>2. PathInv /\ FamilyInv
  BY DEF TableInv
<1>3. OneCpuPerProcess'
  BY SMTT(30) DEF TableInv, OneCpuPerProcess, HasProcess, ProcessorInv
<1>4. PathInv' /\ kpc'[initproc] # "exit"
  BY <1>2, Names, SMTT(30) DEF PathInv, FamilyInv
<1>5. FamilyInv' /\ EmbryoOwned' /\ ParentAlive'
  BY <1>4, FamilyKept DEF Alive
<1>6. WaitNotMissed'
  BY WaitKept DEF StillWaiting
<1> QED BY <1>1, <1>3, <1>4, <1>5, <1>6

\* wakeup1 makes sleepers on the channel RUNNABLE and changes nothing else.
LEMMA Wakeup1Type ==
  ASSUME NEW st \in [Slots -> States], NEW ch
  PROVE  /\ wakeup1(st, ch) \in [Slots -> States]
         /\ \A r \in Slots : /\ \/ wakeup1(st, ch)[r] = st[r]
                                \/ st[r] = "SLEEPING" /\ wakeup1(st, ch)[r] = "RUNNABLE"
                             /\ wakeup1(st, ch)[r] = "SLEEPING" => chan[r] # ch
BY DEF wakeup1, States

\* allocproc leaves queues of slots behind.
LEMMA AllocQueues ==
  ASSUME AddLaw, DeleteLaw, q \in Queues, NEW p \in Slots
  PROVE  addQueue(PurgedQueues(p), 0, p) \in Queues
<1> 0 \in Levels
  BY SMTT(30) DEF Levels
<1>1. \A r \in Queues : deleteQueue(r, 0, p) \in Queues
  BY DEF DeleteLaw
<1>2. PurgedQueues(p) \in Queues
  BY <1>1 DEF PurgedQueues
<1> QED BY <1>2 DEF AddLaw

-----------------------------------------------------------------------------
\* wait frees a zombie, which no live process has as its parent.
LEMMA ReapStep ==
  ASSUME TableInv, NEW c \in Cpus, cpc[c] = "run", lock \in {NoCpu, c},
         NEW k \in Slots, Reap(c, k)
  PROVE  TableInv'
<1> DEFINE p == cur[c]
<1>1. p \in Slots /\ state[p] = "RUNNING" /\ state[k] = "ZOMBIE" /\ parent[k] = p
  BY Executing DEF Reap, Zombies, Children
<1>2. TypeOK'
  BY <1>1 DEF TableInv, TypeOK, Reap, States
<1>3. /\ state'[k] = "UNUSED" /\ parent'[k] = NoProc /\ ~killed'[k]
      /\ \A r \in Slots \ {k} : state'[r] = state[r] /\ parent'[r] = parent[r] /\ killed'[r] = killed[r]
      /\ \A r \in Slots \ {p} : chan'[r] = chan[r]
      /\ UNCHANGED <<kpc, child>>
  BY DEF TableInv, TypeOK, Reap
<1>4. ProcessorInv' /\ OneCpuPerProcess' /\ PathInv'
  BY <1>1, <1>3, Released DEF Reap
<1> HIDE DEF p
<1>5. FamilyInv'
  BY <1>1, <1>3, Names, SMTT(30) DEF TableInv, FamilyInv, Alive
<1>6. EmbryoOwned'
  <2>1. EmbryoOwned /\ \A r \in Forking : child[r] \in Slots
    BY DEF TableInv, TypeOK, Forking
  <2>2. Forking' = Forking /\ \A r \in Forking : r \in Slots /\ child'[r] = child[r]
    BY <1>3 DEF Forking
  <2>3. \A r \in Forking : state'[r] = state[r] /\ state'[child[r]] = state[child[r]]
    BY <1>1, <1>3, <2>1, <2>2 DEF EmbryoOwned
  <2>4. \A r \in Slots : state'[r] = "EMBRYO" => state[r] = "EMBRYO"
    BY <1>3
  <2>5. /\ \A r \in Forking' : state'[r] \in {"RUNNABLE", "RUNNING"} /\ state'[child'[r]] = "EMBRYO"
        /\ \A r, s \in Forking' : child'[r] = child'[s] => r = s
    BY <2>1, <2>2, <2>3, SMTT(30) DEF EmbryoOwned
  <2>6. \A r \in Slots : state'[r] = "EMBRYO" => \E s \in Forking' : child'[s] = r
    BY <2>1, <2>2, <2>4, SMTT(30) DEF EmbryoOwned
  <2> QED BY <2>5, <2>6 DEF EmbryoOwned
<1>7. ParentAlive'
  <2>1. \A r \in Slots : state'[r] \in Alive <=> state[r] \in Alive
    BY <1>1, <1>3 DEF Alive
  <2>2. \A r \in Slots : state'[r] = "ZOMBIE" => state[r] = "ZOMBIE" /\ r # k
    BY <1>3
  <2>3. \A r \in Slots : state'[r] \in Alive => r # k
    BY <1>3 DEF Alive
  <2> QED BY <1>3, <2>1, <2>2, <2>3 DEF TableInv, ParentAlive
<1>8. WaitNotMissed'
  <2> SUFFICES ASSUME NEW r \in Slots, state'[r] = "SLEEPING", chan'[r] = r
               PROVE  StillWaiting(r)
    BY WaitKept
  <2>1. r # k /\ r # p /\ state[r] = "SLEEPING" /\ chan[r] = r /\ killed'[r] = killed[r]
    BY <1>1, <1>3
  <2> QED BY <1>1, <1>3, <2>1, Names DEF StillWaiting
<1> QED BY <1>2, <1>4, <1>5, <1>6, <1>7, <1>8 DEF TableInv

\* wait fails, or sleep and yield return: only the lock is given back.
LEMMA ReturnStep ==
  ASSUME TableInv, NEW c \in Cpus, cpc[c] = "run", lock \in {NoCpu, c},
         WaitFails(c) \/ Resume(c)
  PROVE  TableInv'
<1> DEFINE p == cur[c]
<1>1. p \in Slots /\ state[p] = "RUNNING"
  BY Executing
<1>2. TypeOK'
  <2>1. chan' \in [Slots -> Chans \cup {NoChan}]
    <3>1. CASE WaitFails(c) BY <1>1, <3>1 DEF TableInv, TypeOK, WaitFails
    <3>2. CASE Resume(c)
      <4>1. chan[p] \in Chans \cup {NoChan} /\ chan \in [Slots -> Chans \cup {NoChan}]
        BY <1>1 DEF TableInv, TypeOK
      <4> QED BY <1>1, <3>2, <4>1 DEF Resume
    <3> QED BY <3>1, <3>2
  <2>2. TypeOK /\ lock' = NoCpu /\ ctx' = [ctx EXCEPT ![p] = "none"]
    BY DEF TableInv, WaitFails, Resume
  <2>3. UNCHANGED <<state, pid, parent, killed, kpc, child, nextpid, mlfqVars, cpuVars>>
    BY DEF WaitFails, Resume
  <2>4. ctx' \in [Slots -> {"forkret", "yield", "sleep", "wait", "none"}]
    BY <1>1, <2>2 DEF TypeOK
  <2> QED BY <2>1, <2>2, <2>3, <2>4 DEF TypeOK
<1>3. /\ ctx' = [ctx EXCEPT ![cur[c]] = "none"] /\ lock' = NoCpu
      /\ \A r \in Slots \ {p} : chan'[r] = chan[r]
      /\ UNCHANGED <<state, parent, killed, kpc, child, cpuVars>>
  BY DEF TableInv, TypeOK, WaitFails, Resume
<1>4. ProcessorInv' /\ OneCpuPerProcess' /\ PathInv'
  BY <1>1, <1>3, Released
<1> HIDE DEF p
<1>5. FamilyInv' /\ EmbryoOwned' /\ ParentAlive'
  BY <1>3, FamilyKept DEF TableInv, FamilyInv
<1>6. WaitNotMissed'
  BY <1>1, <1>3, WaitKept DEF StillWaiting
<1> QED BY <1>2, <1>4, <1>5, <1>6 DEF TableInv

\* wait finds children but no zombie: the process sleeps on itself.
LEMMA WaitSleepsStep ==
  ASSUME TableInv, NEW c \in Cpus, cpc[c] = "run", lock \in {NoCpu, c}, ~intr[c],
         kpc[cur[c]] = "user", WaitSleeps(c)
  PROVE  TableInv'
<1> DEFINE p == cur[c]
<1>1. p \in Slots /\ state[p] = "RUNNING" /\ kpc[p] = "user" /\ ~killed[p]
  BY Executing DEF WaitSleeps
<1>2. /\ state'[p] = "SLEEPING" /\ chan'[p] = p
      /\ \A r \in Slots \ {p} : state'[r] = state[r] /\ chan'[r] = chan[r] /\ ctx'[r] = ctx[r]
      /\ UNCHANGED <<parent, killed, kpc, child, intr>>
  BY <1>1 DEF TableInv, TypeOK, WaitSleeps
<1>3. TypeOK'
  <2>1. TypeOK /\ EnterScheduler(c) /\ UNCHANGED <<pid, parent, killed, kpc, child, nextpid, intr>>
    BY DEF TableInv, WaitSleeps
  <2>2. /\ state' \in [Slots -> States] /\ chan' \in [Slots -> Chans \cup {NoChan}]
        /\ ctx' \in [Slots -> {"forkret", "yield", "sleep", "wait", "none"}]
    BY <1>1, <2>1 DEF TypeOK, WaitSleeps, States, Chans
  <2>3. /\ parent' \in [Slots -> Slots \cup {NoProc}] /\ intr' \in [Cpus -> BOOLEAN]
        /\ kpc' \in [Slots -> {"user", "sys", "fork", "exit", "panic"}]
    BY <2>1 DEF TypeOK
  <2> QED BY <1>1, <2>1, <2>2, <2>3, SwitchTypes
<1>4. ProcessorInv' /\ OneCpuPerProcess'
  <2>1. EnterScheduler(c) /\ \A d \in Cpus : intr'[d] => intr[d] /\ d # c
    BY <1>2 DEF WaitSleeps
  <2> QED BY <1>1, <1>2, <2>1, Switched
<1>5. Children(p) # {} /\ Zombies(p) = {}
  BY DEF WaitSleeps
<1> HIDE DEF p
<1>6. PathInv /\ FamilyInv
  BY DEF TableInv
<1>7. PathInv'
  BY <1>1, <1>2, <1>6 DEF PathInv
<1>8. FamilyInv' /\ EmbryoOwned' /\ ParentAlive'
  BY <1>1, <1>2, <1>6, FamilyKept DEF PathInv, FamilyInv, Alive
<1>9. WaitNotMissed'
  <2>1. \A r \in Slots : Children(r)' = Children(r) /\ Zombies(r)' \subseteq Zombies(r)
    BY <1>1, <1>2 DEF Children, Zombies
  <2> QED BY <1>1, <1>2, <1>5, <2>1 DEF TableInv, WaitNotMissed
<1> QED BY <1>3, <1>4, <1>7, <1>8, <1>9 DEF TableInv

\* wait, when it is called and when its sleep returns.
LEMMA WaitStep ==
  ASSUME TableInv, NEW c \in Cpus, Wait(c) \/ ResumeWait(c)
  PROVE  TableInv'
<1>1. cpc[c] = "run" /\ lock \in {NoCpu, c} /\ WaitScan(c)
  BY DEF Wait, ResumeWait, Calls, Executes
<1>2. cur[c] \in Slots
  BY <1>1, Executing
<1>3. ~intr[c] /\ kpc[cur[c]] = "user"
  BY <1>2 DEF Wait, ResumeWait, Calls, Executes, TableInv, ProcessorInv, PathInv
<1> QED BY <1>1, <1>3, ReapStep, ReturnStep, WaitSleepsStep DEF WaitScan

\* forkret, and the end of yield and sleep.
LEMMA ResumeStep ==
  ASSUME TableInv, NEW c \in Cpus, Resume(c)
  PROVE  TableInv'
BY ReturnStep DEF Resume

-----------------------------------------------------------------------------
\* A system call or exit sleeps on a channel that is no process.
LEMMA SleepStep ==
  ASSUME TableInv, NEW c \in Cpus, NEW ch \in SleepChans, Sleep(c, ch)
  PROVE  TableInv'
<1> DEFINE p == cur[c]
<1>1. cpc[c] = "run" /\ lock = NoCpu /\ ~intr[c] /\ kpc[p] \in {"user", "sys", "exit"}
  BY DEF Sleep, Calls, Executes
<1>2. p \in Slots /\ state[p] = "RUNNING"
  BY <1>1, Executing
<1>3. /\ state'[p] = "SLEEPING" /\ chan'[p] = ch /\ ctx'[p] = "sleep"
      /\ kpc'[p] \in {"sys", "exit"} /\ (kpc'[p] = "exit" => kpc[p] = "exit")
      /\ \A r \in Slots \ {p} : /\ state'[r] = state[r] /\ chan'[r] = chan[r]
                                /\ ctx'[r] = ctx[r] /\ kpc'[r] = kpc[r]
      /\ UNCHANGED <<parent, killed, child, intr>>
  BY <1>1, <1>2 DEF TableInv, TypeOK, Sleep
<1>4. TypeOK'
  <2>1. /\ state' \in [Slots -> States] /\ chan' \in [Slots -> Chans \cup {NoChan}]
        /\ ctx' \in [Slots -> {"forkret", "yield", "sleep", "wait", "none"}]
    BY <1>2, Names DEF TableInv, TypeOK, Sleep, States
  <2>2. kpc' \in [Slots -> {"user", "sys", "fork", "exit", "panic"}]
    BY <1>2 DEF TableInv, TypeOK, Sleep
  <2>3. TypeOK /\ EnterScheduler(c) /\ UNCHANGED <<pid, parent, killed, child, nextpid, intr>>
    BY DEF TableInv, Sleep
  <2>4. parent' \in [Slots -> Slots \cup {NoProc}] /\ intr' \in [Cpus -> BOOLEAN]
    BY <2>3 DEF TypeOK
  <2> QED BY <1>2, <2>1, <2>2, <2>3, <2>4, SwitchTypes
<1>5. ProcessorInv' /\ OneCpuPerProcess'
  BY <1>1, <1>3, Switched DEF Sleep
<1> HIDE DEF p
<1>6. PathInv /\ FamilyInv
  BY DEF TableInv
<1>7. PathInv' /\ child[p] = NoProc /\ kpc'[initproc] # "exit"
  BY <1>1, <1>2, <1>3, <1>6, Names, SMTT(30) DEF PathInv, FamilyInv
<1>8. FamilyInv' /\ EmbryoOwned' /\ ParentAlive'
  BY <1>2, <1>3, <1>7, FamilyKept DEF Alive
<1>9. WaitNotMissed'
  BY <1>2, <1>3, Names, WaitKept DEF StillWaiting
<1> QED BY <1>4, <1>5, <1>7, <1>8, <1>9 DEF TableInv

\* The timer takes the processor away.
LEMMA YieldStep ==
  ASSUME TableInv, NEW c \in Cpus, Yield(c)
  PROVE  TableInv'
<1> DEFINE p == cur[c]
<1>1. cpc[c] = "run" /\ lock = NoCpu
  BY DEF Yield, TableInv, ProcessorInv
<1>2. p \in Slots /\ state[p] = "RUNNING"
  BY <1>1, Executing
<1>3. /\ state'[p] = "RUNNABLE" /\ ctx'[p] = "yield"
      /\ \A r \in Slots \ {p} : state'[r] = state[r] /\ ctx'[r] = ctx[r]
      /\ \A d \in Cpus : intr'[d] => intr[d] /\ d # c
      /\ UNCHANGED <<chan, parent, killed, child, kpc>>
  BY <1>1, <1>2 DEF TableInv, TypeOK, Yield
<1>4. TypeOK'
  <2>1. /\ TypeOK /\ EnterScheduler(c)
        /\ UNCHANGED <<pid, parent, chan, killed, kpc, child, nextpid>>
    BY DEF TableInv, Yield
  <2>2. /\ state' \in [Slots -> States] /\ intr' \in [Cpus -> BOOLEAN]
        /\ ctx' \in [Slots -> {"forkret", "yield", "sleep", "wait", "none"}]
    BY <1>2, <2>1 DEF TypeOK, Yield, States
  <2>3. /\ parent' \in [Slots -> Slots \cup {NoProc}] /\ chan' \in [Slots -> Chans \cup {NoChan}]
        /\ kpc' \in [Slots -> {"user", "sys", "fork", "exit", "panic"}]
    BY <2>1 DEF TypeOK
  <2> QED BY <1>2, <2>1, <2>2, <2>3, SwitchTypes
<1>5. ProcessorInv' /\ OneCpuPerProcess'
  BY <1>1, <1>3, Switched DEF Yield
<1> HIDE DEF p
<1>6. PathInv /\ FamilyInv
  BY DEF TableInv
<1>7. PathInv'
  BY <1>2, <1>3, <1>6 DEF PathInv
<1>8. FamilyInv' /\ EmbryoOwned' /\ ParentAlive'
  BY <1>2, <1>3, <1>6, FamilyKept DEF FamilyInv, Alive
<1>9. WaitNotMissed'
  BY <1>2, <1>3, WaitKept DEF StillWaiting
<1> QED BY <1>4, <1>5, <1>7, <1>8, <1>9 DEF TableInv

\* wakeup for a device, and the timer interrupt up to yield.
LEMMA InterruptStep ==
  ASSUME TableInv, NEW c \in Cpus, WakeupIo(c) \/ TimerInterrupt(c)
  PROVE  TableInv'
<1>1. state \in [Slots -> States]
  BY DEF TableInv, TypeOK
<1>2. /\ state' \in [Slots -> States]
      /\ \A r \in Slots : state'[r] = state[r] \/ (state[r] = "SLEEPING" /\ state'[r] = "RUNNABLE")
  <2>1. ASSUME NEW ch, state' = wakeup1(state, ch)
        PROVE  /\ state' \in [Slots -> States]
               /\ \A r \in Slots :
                    state'[r] = state[r] \/ (state[r] = "SLEEPING" /\ state'[r] = "RUNNABLE")
    BY <1>1, <2>1, Wakeup1Type, SMTT(30)
  <2>2. CASE state' = state
    BY <1>1, <2>2
  <2>3. state' = state \/ state' = wakeup1(state, IoChan) \/ state' = wakeup1(state, TicksChan)
    BY DEF WakeupIo, TimerInterrupt
  <2> QED BY <2>1, <2>2, <2>3
<1>3. intr' \in [Cpus -> BOOLEAN] /\ \A d \in Cpus : intr'[d] => cpc[d] = "run" /\ lock # d
  <2>1. intr \in [Cpus -> BOOLEAN] /\ \A d \in Cpus : intr[d] => cpc[d] = "run" /\ lock # d
    BY DEF TableInv, TypeOK, ProcessorInv
  <2>2. CASE intr' = intr
    BY <2>1, <2>2
  <2>3. CASE TimerInterrupt(c)
    <3>1. lock # c /\ intr' = [intr EXCEPT ![c] = cpc[c] = "run" /\ ~Doomed(c)]
      BY <2>3 DEF TimerInterrupt, Interruptible
    <3> QED BY <2>1, <3>1
  <2> QED BY <2>2, <2>3 DEF WakeupIo
<1>4. /\ kpc' \in [Slots -> {"user", "sys", "fork", "exit", "panic"}]
      /\ \A r \in Slots :
           \/ kpc'[r] = kpc[r]
           \/ /\ kpc[r] = "user" /\ ctx[r] = "none"
              /\ kpc'[r] \in {"exit", "panic"} /\ (kpc'[r] = "exit" => r # initproc)
  <2>1. lock # c /\ TrapReturn(c)
    BY DEF WakeupIo, TimerInterrupt, Interruptible
  <2>2. CASE ~Doomed(c)
    BY <2>1, <2>2 DEF TrapReturn, TableInv, TypeOK
  <2>3. CASE Doomed(c)
    <3>1. cur[c] \in Slots /\ ctx[cur[c]] = "none" /\ kpc[cur[c]] = "user" /\ CallExit(c)
      BY <2>1, <2>3, Executing DEF Doomed, TrapReturn
    <3> QED BY <3>1 DEF CallExit, TableInv, TypeOK
  <2> QED BY <2>2, <2>3
<1>5. TypeOK'
  BY <1>2, <1>3, <1>4 DEF WakeupIo, TimerInterrupt, TableInv, TypeOK
<1>6. UNCHANGED <<parent, chan, ctx, child, cpc, cur, lock, killed>>
  BY DEF WakeupIo, TimerInterrupt
<1> QED BY <1>2, <1>3, <1>4, <1>5, <1>6, Woken DEF TableInv

\* kill wakes the process it marks.
LEMMA KillStep ==
  ASSUME TableInv, NEW c \in Cpus, NEW p \in Slots, NEW n \in KillPids, Kill(c, n, p)
  PROVE  TableInv'
<1>1. TypeOK'
  <2>1. state' \in [Slots -> States]
    BY DEF Kill, TableInv, TypeOK, States
  <2>2. /\ TypeOK /\ killed' = [killed EXCEPT ![p] = TRUE]
        /\ UNCHANGED <<pid, parent, chan, ctx, kpc, child, nextpid, mlfqVars, cpuVars, lock>>
    BY DEF Kill, TableInv
  <2>3. killed' \in [Slots -> BOOLEAN]
    BY <2>2 DEF TypeOK
  <2> QED BY <2>1, <2>2, <2>3 DEF TypeOK
<1>2. /\ \A r \in Slots : state'[r] = state[r] \/ (state[r] = "SLEEPING" /\ state'[r] = "RUNNABLE")
      /\ \A r \in Slots : killed'[r] => killed[r] \/ state'[r] # "SLEEPING"
  BY DEF Kill, TableInv, TypeOK
<1>3. \A d \in Cpus : intr'[d] => cpc[d] = "run" /\ lock # d
  BY DEF Kill, TableInv, ProcessorInv
<1>4. UNCHANGED <<parent, chan, ctx, kpc, child, cpc, cur, lock>>
  BY DEF Kill
<1> QED BY <1>1, <1>2, <1>3, <1>4, Woken DEF TableInv

\* The steps of a running process that only change where it executes: the
\* end of a blocking system call, and the calls of exit.
LEMMA PathStep ==
  ASSUME TableInv, NEW c \in Cpus, SysReturn(c) \/ SysExit(c) \/ TrapExit(c) \/ UserFault(c)
  PROVE  TableInv'
<1> DEFINE p == cur[c]
<1>1. cpc[c] = "run" /\ lock # c /\ kpc[p] \in {"user", "sys"}
  BY DEF SysReturn, SysExit, TrapExit, UserFault, Calls, Executes
<1>2. p \in Slots /\ state[p] = "RUNNING" /\ ctx[p] = "none"
  BY <1>1, Executing
<1>3. /\ kpc'[p] \in {"user", "exit", "panic"} /\ (kpc'[p] = "exit" => p # initproc)
      /\ \A r \in Slots \ {p} : kpc'[r] = kpc[r] /\ killed'[r] = killed[r]
      /\ UNCHANGED <<state, parent, chan, ctx, child, cpuVars, lock>>
      /\ TypeOK'
  <2>1. kpc' = [kpc EXCEPT ![p] = "user"] \/ CallExit(c)
    BY DEF SysReturn, SysExit, TrapExit, UserFault
  <2>2. killed' = killed \/ killed' = [killed EXCEPT ![p] = TRUE]
    BY DEF SysReturn, SysExit, TrapExit, UserFault
  <2>3. UNCHANGED <<state, pid, nextpid, mlfqVars, parent, chan, ctx, child, cpuVars, lock>>
    BY DEF SysReturn, SysExit, TrapExit, UserFault
  <2>4. TypeOK
    BY DEF TableInv
  <2>5. kpc' \in [Slots -> {"user", "sys", "fork", "exit", "panic"}] /\ killed' \in [Slots -> BOOLEAN]
    BY <2>1, <2>2, <2>4 DEF TypeOK, CallExit
  <2>6. /\ kpc'[p] \in {"user", "exit", "panic"} /\ (kpc'[p] = "exit" => p # initproc)
        /\ \A r \in Slots \ {p} : kpc'[r] = kpc[r]
    <3>1. kpc \in [Slots -> {"user", "sys", "fork", "exit", "panic"}]
      BY <2>4 DEF TypeOK
    <3> QED BY <1>2, <2>1, <3>1 DEF CallExit
  <2>7. \A r \in Slots \ {p} : killed'[r] = killed[r]
    BY <2>2, <2>4 DEF TypeOK
  <2>8. TypeOK'
    BY <2>3, <2>4, <2>5 DEF TypeOK
  <2> QED BY <2>3, <2>6, <2>7, <2>8
<1> HIDE DEF p
<1>5. ProcessorInv' /\ OneCpuPerProcess'
  BY <1>3, SMTT(30) DEF TableInv, ProcessorInv, OneCpuPerProcess, HasProcess
<1>6. PathInv /\ FamilyInv
  BY DEF TableInv
<1>7. PathInv' /\ kpc'[initproc] # "exit"
  BY <1>1, <1>2, <1>3, <1>6, Names DEF PathInv, FamilyInv
<1>8. FamilyInv' /\ EmbryoOwned' /\ ParentAlive'
  BY <1>3, <1>7, FamilyKept
<1>9. WaitNotMissed'
  BY <1>2, <1>3, WaitKept DEF StillWaiting
<1> QED BY <1>3, <1>5, <1>7, <1>8, <1>9 DEF TableInv

\* exit: the parent is woken before the process becomes a zombie, and
\* initproc before it inherits one.
LEMMA ExitStep ==
  ASSUME TableInv, NEW c \in Cpus, Exit(c)
  PROVE  TableInv'
<1> DEFINE p == cur[c]
           woken == wakeup1(state, parent[p])
           woken2 == IF Zombies(p) = {} THEN woken ELSE wakeup1(woken, initproc)
<1>1. cpc[c] = "run" /\ lock = NoCpu /\ ~intr[c] /\ kpc[p] = "exit"
  BY DEF Exit, Executes
<1>2. p \in Slots /\ state[p] = "RUNNING" /\ p # initproc
  BY <1>1, Executing DEF TableInv, FamilyInv
<1>3. woken \in [Slots -> States] /\ woken2 \in [Slots -> States]
  BY Wakeup1Type DEF TableInv, TypeOK
<1>4. \A r \in Slots :
        /\ woken2[r] = state[r] \/ (state[r] = "SLEEPING" /\ woken2[r] = "RUNNABLE")
        /\ woken2[r] = "SLEEPING" => chan[r] # parent[p] /\ (Zombies(p) # {} => chan[r] # initproc)
  <2>1. state \in [Slots -> States]
    BY DEF TableInv, TypeOK
  <2>2. \A r \in Slots :
          /\ woken[r] = state[r] \/ (state[r] = "SLEEPING" /\ woken[r] = "RUNNABLE")
          /\ woken[r] = "SLEEPING" => chan[r] # parent[p]
    BY <2>1, Wakeup1Type, SMTT(30)
  <2>3. CASE Zombies(p) = {}
    BY <2>2, <2>3
  <2>4. CASE Zombies(p) # {}
    <3>1. \A r \in Slots :
            /\ woken2[r] = woken[r] \/ (woken[r] = "SLEEPING" /\ woken2[r] = "RUNNABLE")
            /\ woken2[r] = "SLEEPING" => chan[r] # initproc
      BY <1>3, <2>4, Wakeup1Type, SMTT(30)
    <3> QED BY <2>2, <3>1
  <2> QED BY <2>3, <2>4
<1>5. state' = [woken2 EXCEPT ![p] = "ZOMBIE"] /\ EnterScheduler(c)
  BY DEF Exit
<1> HIDE DEF woken2, woken
<1>6. /\ state' \in [Slots -> States] /\ state'[p] = "ZOMBIE"
      /\ \A r \in Slots \ {p} : state'[r] = woken2[r]
  BY <1>2, <1>3, <1>5 DEF States
<1>7. /\ \A r \in Slots : parent'[r] = IF parent[r] = p THEN initproc ELSE parent[r]
      /\ parent' \in [Slots -> Slots \cup {NoProc}]
      /\ UNCHANGED <<chan, killed, ctx, kpc, child, intr>>
  BY Names DEF Exit, TableInv, TypeOK
<1>8. TypeOK'
  <2>1. TypeOK /\ UNCHANGED <<pid, nextpid>>
    BY DEF TableInv, Exit
  <2>2. /\ chan' \in [Slots -> Chans \cup {NoChan}] /\ intr' \in [Cpus -> BOOLEAN]
        /\ ctx' \in [Slots -> {"forkret", "yield", "sleep", "wait", "none"}]
        /\ kpc' \in [Slots -> {"user", "sys", "fork", "exit", "panic"}]
    BY <1>7, <2>1 DEF TypeOK
  <2> QED BY <1>2, <1>5, <1>6, <1>7, <2>1, <2>2, SwitchTypes
<1>9. ProcessorInv' /\ OneCpuPerProcess'
  BY <1>1, <1>4, <1>5, <1>6, <1>7, Switched
<1> HIDE DEF p
<1>10. PathInv'
  BY <1>7 DEF TableInv, PathInv
<1>11. FamilyInv'
  BY <1>2, <1>4, <1>6, <1>7, Names, SMTT(30) DEF TableInv, FamilyInv, Alive
<1>12. ParentAlive'
  <2>1. state[initproc] \in Alive /\ parent[p] # p
    BY <1>2 DEF TableInv, FamilyInv
  <2> SUFFICES ASSUME NEW r \in Slots \ {initproc}, state'[r] \in Alive \cup {"ZOMBIE"}
               PROVE  parent'[r] \in Slots /\ state'[parent'[r]] \in Alive
    BY DEF ParentAlive
  <2>2. parent[r] \in Slots /\ state[parent[r]] \in Alive
    BY <1>2, <1>4, <1>6 DEF TableInv, ParentAlive, Alive
  <2> QED BY <1>2, <1>4, <1>6, <1>7, <2>1, <2>2, Names, SMTT(30) DEF Alive
<1>13. EmbryoOwned'
  <2>1. child[p] = NoProc /\ \A r \in Forking : child[r] \in Slots
    BY <1>1, <1>2 DEF TableInv, PathInv, TypeOK, Forking
  <2>2. \A r \in Slots \ {p} :
          \/ state'[r] = state[r]
          \/ state[r] = "SLEEPING" /\ state'[r] = "RUNNABLE"
    BY <1>4, <1>6
  <2>3. EmbryoOwned /\ Forking' = Forking
    BY <1>7 DEF TableInv, Forking
  <2>4. \A r \in Forking : r \in Slots /\ r # p
    BY <2>1 DEF Forking
  <2> QED BY <1>2, <1>6, <1>7, <2>1, <2>2, <2>3, <2>4, SMTT(30) DEF EmbryoOwned
<1>14. WaitNotMissed'
  <2> SUFFICES ASSUME NEW r \in Slots, state'[r] = "SLEEPING", chan'[r] = r
               PROVE  StillWaiting(r)
    BY WaitKept
  <2>1. r # p /\ state[r] = "SLEEPING" /\ chan[r] = r
    BY <1>4, <1>6, <1>7
  <2>2. r # parent[p] /\ (Zombies(p) # {} => r # initproc) /\ parent[p] # p
    BY <1>2, <1>4, <1>6, <1>7, <2>1 DEF TableInv, FamilyInv
  <2>3. ASSUME NEW j \in Slots, parent'[j] = r, state'[j] = "ZOMBIE"
        PROVE  parent[j] = r /\ state[j] = "ZOMBIE"
    <3>1. j # p
      BY <1>7, <2>2, <2>3
    <3>2. state[j] = "ZOMBIE"
      BY <1>4, <1>6, <2>3, <3>1
    <3>3. parent[j] # p
      BY <1>7, <2>2, <2>3, <3>2 DEF Zombies, Children
    <3> QED BY <1>7, <2>3, <3>2, <3>3
  <2> QED BY <1>7, <2>1, <2>3 DEF StillWaiting
<1> QED BY <1>8, <1>9, <1>10, <1>11, <1>12, <1>13, <1>14 DEF TableInv

-----------------------------------------------------------------------------
\* fork takes an UNUSED slot, which nobody refers to.
LEMMA ForkAllocStep ==
  ASSUME QueueLaws, TableInv, NEW c \in Cpus, NEW k \in Slots, ForkAlloc(c, k)
  PROVE  TableInv'
<1> DEFINE p == cur[c]
<1>1. cpc[c] = "run" /\ lock = NoCpu /\ ~intr[c] /\ kpc[p] = "user" /\ state[k] = "UNUSED"
  BY DEF ForkAlloc, Calls, Executes, Unused
<1>2. p \in Slots /\ state[p] = "RUNNING" /\ ctx[p] = "none" /\ p # k
  BY <1>1, Executing, Names
<1>3. child[p] = NoProc /\ child[k] = NoProc /\ parent[k] = NoProc /\ k # initproc
  BY <1>1, <1>2 DEF TableInv, PathInv, EmbryoOwned, Forking, FamilyInv, Alive
<1>4. /\ state'[k] = "EMBRYO" /\ ctx'[k] = "forkret" /\ child'[p] = k
      /\ kpc'[p] = "fork" /\ kpc'[k] = "user"
      /\ \A r \in Slots \ {k} : state'[r] = state[r] /\ ctx'[r] = ctx[r]
      /\ \A r \in Slots \ {p} : child'[r] = child[r]
      /\ \A r \in Slots \ {p, k} : kpc'[r] = kpc[r]
      /\ UNCHANGED <<parent, chan, killed, cpuVars, lock>>
  BY <1>2 DEF ForkAlloc, TableInv, TypeOK
<1>5. TypeOK'
  <2>1. /\ state' \in [Slots -> States] /\ pid' \in [Slots -> Nat] /\ nextpid' \in Nat
        /\ ctx' \in [Slots -> {"forkret", "yield", "sleep", "wait", "none"}]
    BY <1>2, SMTT(30) DEF ForkAlloc, TableInv, TypeOK, States
  <2>2. /\ kpc' \in [Slots -> {"user", "sys", "fork", "exit", "panic"}]
        /\ child' \in [Slots -> Slots \cup {NoProc}]
    BY <1>2 DEF ForkAlloc, TableInv, TypeOK
  <2>3. /\ priority' \in [Slots -> Levels] /\ Ticks' \in [Slots -> Nat]
        /\ fault' \in BOOLEAN /\ recycled' \in BOOLEAN
    BY SMTT(30) DEF ForkAlloc, TableInv, TypeOK, Levels
  <2>4. q' \in Queues
    <3>1. q \in Queues /\ AddLaw /\ DeleteLaw
      BY DEF TableInv, TypeOK, Queues, QueueLaws
    <3> QED BY <3>1, AllocQueues DEF ForkAlloc
  <2> QED BY <1>4, <2>1, <2>2, <2>3, <2>4 DEF TableInv, TypeOK, Queues
<1> HIDE DEF p
<1>6. ProcessorInv' /\ OneCpuPerProcess'
  BY <1>1, <1>4, OffCpu
<1>7. PathInv'
  BY <1>2, <1>3, <1>4, Names, SMTT(30) DEF TableInv, PathInv
<1>8. FamilyInv'
  BY <1>1, <1>2, <1>3, <1>4, Names DEF TableInv, FamilyInv, Alive
<1>9. EmbryoOwned'
  <2>1. \A r \in Forking : child[r] \in Slots /\ child[r] # k
    BY <1>1, SMTT(30) DEF TableInv, TypeOK, Forking, EmbryoOwned
  <2>2. \A r \in Slots : r \in Forking' <=> r = p \/ r \in Forking
    BY <1>2, <1>4, Names DEF Forking
  <2>3. \A r \in Forking : r \in Slots /\ r # p /\ r # k
    BY <1>3 DEF Forking
  <2> QED BY <1>1, <1>2, <1>4, <2>1, <2>2, <2>3, SMTT(30) DEF TableInv, EmbryoOwned, Forking
<1>10. ParentAlive'
  BY <1>1, <1>4 DEF TableInv, ParentAlive, Alive
<1>11. WaitNotMissed'
  BY <1>1, <1>4, WaitKept DEF StillWaiting
<1> QED BY <1>5, <1>6, <1>7, <1>8, <1>9, <1>10, <1>11 DEF TableInv

\* The end of fork: the slot is its own child, an EMBRYO, and is given up or
\* becomes a RUNNABLE process.
LEMMA ForkEndStep ==
  ASSUME TableInv, NEW c \in Cpus, ForkFails(c) \/ ForkDone(c)
  PROVE  TableInv'
<1> DEFINE p == cur[c]
           k == child[p]
<1>1. cpc[c] = "run" /\ lock # c /\ kpc[p] = "fork"
  BY DEF ForkFails, ForkDone, Executes
<1>2. p \in Slots /\ state[p] = "RUNNING" /\ ctx[p] = "none"
  BY <1>1, Executing
<1>3. k \in Slots /\ state[k] = "EMBRYO" /\ p \in Forking
  BY <1>1, <1>2, SMTT(30) DEF TableInv, TypeOK, PathInv, EmbryoOwned, Forking
<1>4. parent[k] = NoProc /\ k # initproc /\ k # p /\ child[k] = NoProc
  BY <1>2, <1>3 DEF TableInv, FamilyInv, Alive, EmbryoOwned, Forking
<1>5. /\ \/ state'[k] = "UNUSED" /\ parent'[k] = NoProc
         \/ state'[k] = "RUNNABLE" /\ parent'[k] = p
      /\ kpc'[p] = "user" /\ child'[p] = NoProc
      /\ \A r \in Slots \ {k} : state'[r] = state[r] /\ parent'[r] = parent[r]
      /\ \A r \in Slots \ {p} : child'[r] = child[r] /\ kpc'[r] = kpc[r]
      /\ UNCHANGED <<chan, killed, ctx, cpuVars, lock>>
  <2>1. /\ state \in [Slots -> States] /\ parent \in [Slots -> Slots \cup {NoProc}]
        /\ kpc \in [Slots -> {"user", "sys", "fork", "exit", "panic"}]
        /\ child \in [Slots -> Slots \cup {NoProc}]
    BY DEF TableInv, TypeOK
  <2>2. CASE ForkFails(c)
    BY <1>2, <1>3, <1>4, <2>1, <2>2 DEF ForkFails
  <2>3. CASE ForkDone(c)
    BY <1>2, <1>3, <1>4, <2>1, <2>3 DEF ForkDone
  <2> QED BY <2>2, <2>3
<1>6. TypeOK'
  <2>1. state' \in [Slots -> States] /\ parent' \in [Slots -> Slots \cup {NoProc}]
    <3>1. state \in [Slots -> States] /\ parent \in [Slots -> Slots \cup {NoProc}]
      BY DEF TableInv, TypeOK
    <3>2. "UNUSED" \in States /\ "RUNNABLE" \in States
      BY DEF States
    <3>3. CASE ForkFails(c)
      BY <3>1, <3>2, <3>3 DEF ForkFails
    <3>4. CASE ForkDone(c)
      BY <1>2, <3>1, <3>2, <3>4 DEF ForkDone
    <3> QED BY <3>3, <3>4
  <2>2. /\ kpc' \in [Slots -> {"user", "sys", "fork", "exit", "panic"}]
        /\ child' \in [Slots -> Slots \cup {NoProc}]
    BY <1>2 DEF ForkFails, ForkDone, TableInv, TypeOK
  <2>3. TypeOK /\ UNCHANGED <<pid, chan, killed, ctx, nextpid, mlfqVars, cpuVars, lock>>
    BY DEF ForkFails, ForkDone, TableInv
  <2> QED BY <2>1, <2>2, <2>3 DEF TypeOK
<1>7. \A r \in Forking : child[r] \in Slots /\ (child[r] = k => r = p)
  BY <1>3, SMTT(30) DEF TableInv, TypeOK, EmbryoOwned, Forking
<1> HIDE DEF p, k
<1>8. ProcessorInv' /\ OneCpuPerProcess'
  <2>1. /\ state'[k] # "RUNNING" /\ UNCHANGED <<cpuVars, lock>>
        /\ \A r \in Slots \ {k} : state'[r] = state[r] /\ ctx'[r] = ctx[r]
    BY <1>5
  <2> QED BY <1>3, <2>1, OffCpu
<1>9. PathInv'
  <2>1. PathInv
    BY DEF TableInv
  <2> QED BY <1>2, <1>5, <2>1 DEF PathInv
<1>10. FamilyInv'
  BY <1>2, <1>4, <1>5, Names, SMTT(30) DEF TableInv, FamilyInv, Alive
<1>11. EmbryoOwned'
  <2>1. \A r \in Slots : r \in Forking' <=> r \in Forking /\ r # p
    BY <1>2, <1>5, Names DEF Forking
  <2>2. \A r \in Forking : r \in Slots /\ r # k
    BY <1>4 DEF Forking
  <2> QED BY <1>3, <1>5, <1>7, <2>1, <2>2, SMTT(30) DEF TableInv, EmbryoOwned, Forking
<1>12. ParentAlive'
  BY <1>2, <1>3, <1>4, <1>5, SMTT(30) DEF TableInv, ParentAlive, Alive
<1>13. WaitNotMissed'
  BY <1>3, <1>4, <1>5, Names, WaitKept, SMTT(30) DEF StillWaiting
<1> QED BY <1>6, <1>8, <1>9, <1>10, <1>11, <1>12, <1>13 DEF TableInv

-----------------------------------------------------------------------------
\* Steps that leave every variable alone.
LEMMA TableStutter ==
  ASSUME TableInv, UNCHANGED vars
  PROVE  TableInv'
<1>1. TypeOK'
  BY DEF TableInv, TypeOK
<1>2. UNCHANGED <<procVars, cpc, cur, intr, lock>> /\ ProcessorInv /\ OneCpuPerProcess
  BY DEF TableInv
<1>3. ProcessorInv' /\ OneCpuPerProcess'
  <2>1. ProcessorInv'
    BY <1>2 DEF ProcessorInv, HasProcess, procVars
  <2>2. OneCpuPerProcess'
    <3>1. UNCHANGED <<state, cpc, cur, lock>>
      BY <1>2 DEF procVars
    <3> QED BY <1>2, <3>1, SMTT(30) DEF OneCpuPerProcess, HasProcess
  <2> QED BY <2>1, <2>2
<1>4. PathInv' /\ FamilyInv' /\ EmbryoOwned' /\ ParentAlive' /\ WaitNotMissed'
  BY <1>2, TableKept
<1> QED BY <1>1, <1>3, <1>4 DEF TableInv

\* Every step of every processor keeps the table in order.
LEMMA TableStep == QueueLaws /\ TableInv /\ [Next]_vars => TableInv'
<1> SUFFICES ASSUME QueueLaws, TableInv, [Next]_vars PROVE TableInv'
  OBVIOUS
<1>1. CASE UNCHANGED vars
  BY <1>1, TableStutter
<1>2. ASSUME NEW c \in Cpus, Scheduler(c) PROVE TableInv'
  BY <1>2, AcquireStep, PickStep, ReleaseStep, DispatchStep, SliceEndStep, ResumeStep, WaitStep
     DEF Scheduler
<1>3. ASSUME NEW c \in Cpus, Interrupt(c) PROVE TableInv'
  BY <1>3, InterruptStep, YieldStep DEF Interrupt
<1>4. ASSUME NEW c \in Cpus, SystemCall(c) PROVE TableInv'
  BY <1>4, WaitStep, ForkAllocStep, ForkEndStep, SleepStep, PathStep, ExitStep, KillStep
     DEF SystemCall
<1> QED BY <1>1, <1>2, <1>3, <1>4 DEF Next, Halted

-----------------------------------------------------------------------------
\* The queues and the table have the types the queue lemmas ask for.
LEMMA QueueTypes == TableInv => q \in Queues /\ state \in Tables
BY DEF TableInv, TypeOK, Queues, Tables

\* userinit leaves the first process at the head of q0, and nothing else.
LEMMA InitQueue == Init => QueueInv
<1> SUFFICES ASSUME Init PROVE QueueInv
  OBVIOUS
<1>1. /\ q[0] = <<initproc>> /\ q[1] = <<>> /\ q[2] = <<>>
      /\ \A p \in Slots : priority[p] = 0
      /\ \A p \in Slots : state[p] # "UNUSED" \/ pid[p] > 0 => p = initproc
      /\ \A c \in Cpus : cpc[c] = "idle"
      /\ ~fault /\ 0 \in Levels
  BY SMTT(30) DEF Init, Levels
<1>2. \A l \in Levels : NoDup(q[l]) /\ \A p \in Entries(q[l]) : l = 0 /\ p = initproc
  BY <1>1, SMTT(30) DEF Levels, NoDup, Entries
<1>3. initproc \in Entries(q[0])
  BY <1>1, SMTT(30) DEF Entries
<1>4. QueuesPartition
  BY <1>1, <1>2, <1>3, Names DEF QueuesPartition
<1> QED BY <1>1, <1>3, <1>4, Names DEF QueueInv, HighestPriorityFirst, HasProcess

-----------------------------------------------------------------------------
\* Steps that change neither the queues nor the priorities, let no new slot
\* into the table and no process become RUNNABLE between the choice of a
\* process and its first tick.
LEMMA Frame ==
  ASSUME TableInv, QueueInv, UNCHANGED <<q, priority, fault, recycled>>,
         \A p \in Slots : state'[p] # "UNUSED" => state[p] # "UNUSED",
         \A p \in Slots : pid'[p] > 0 => pid[p] > 0,
         \A c \in Cpus : HasProcess(c)' => HasProcess(c) /\ cur'[c] = cur[c] /\ lev'[c] = lev[c],
         \A c \in Cpus : cpc'[c] = "slice" /\ count'[c] = 0 =>
            /\ cpc[c] = "slice" /\ count[c] = 0
            /\ \A p \in Slots : state'[p] = "RUNNABLE" => state[p] = "RUNNABLE"
  PROVE  QueueInv'
<1> SUFFICES ASSUME ~recycled
             PROVE  /\ ~fault' /\ QueuesPartition' /\ HighestPriorityFirst'
                    /\ \A p \in Slots : pid'[p] > 0 => p \in Entries(q'[priority'[p]])
                    /\ \A c \in Cpus : HasProcess(c)' => lev'[c] = priority'[cur'[c]]
  BY DEF QueueInv
<1>1. /\ ~fault /\ QueuesPartition /\ HighestPriorityFirst
      /\ \A p \in Slots : pid[p] > 0 => p \in Entries(q[priority[p]])
      /\ \A c \in Cpus : HasProcess(c) => lev[c] = priority[cur[c]]
  BY DEF QueueInv
<1>2. QueuesPartition'
  BY <1>1 DEF QueuesPartition
<1>3. HighestPriorityFirst'
  BY <1>1 DEF HighestPriorityFirst, HasProcess
<1> QED BY <1>1, <1>2, <1>3

\* Steps of a running process, or of an interrupt, that need the lock and
\* give it back: nobody is inside the scheduler.
LEMMA UnlockedQueue ==
  ASSUME TableInv, QueueInv, NEW c \in Cpus, lock \in {NoCpu, c}, cpc[c] \in {"idle", "run"},
         UNCHANGED <<q, priority, fault, recycled, cpc, cur, lev, count>>,
         \A p \in Slots : state'[p] # "UNUSED" => state[p] # "UNUSED",
         \A p \in Slots : pid'[p] > 0 => pid[p] > 0
  PROVE  QueueInv'
<1>1. \A d \in Cpus : cpc'[d] # "slice"
  BY Outside
<1> QED BY <1>1, Frame DEF HasProcess

\* Steps without the lock: no process becomes RUNNABLE.
LEMMA LocalQueue ==
  ASSUME TableInv, QueueInv, UNCHANGED <<q, priority, fault, recycled, cpc, cur, lev, count, pid>>,
         \A p \in Slots : state'[p] = state[p] \/ state'[p] = "UNUSED"
  PROVE  QueueInv'
BY Frame DEF HasProcess

\* A process enters the scheduler: at least one tick of the slice is gone.
LEMMA SwitchQueue ==
  ASSUME TableInv, QueueInv, NEW c \in Cpus, lock \in {NoCpu, c}, cpc[c] = "run", EnterScheduler(c),
         UNCHANGED pid,
         \A p \in Slots : state'[p] # "UNUSED" => state[p] # "UNUSED"
  PROVE  QueueInv'
<1>1. /\ cpc'[c] = "slice" /\ count'[c] > 0
      /\ \A d \in Cpus \ {c} : cpc'[d] = cpc[d] /\ cpc[d] # "slice"
      /\ UNCHANGED <<q, priority, fault, recycled, cur, lev>>
  <2>1. count[c] \in Nat /\ count'[c] = count[c] + 1
    BY DEF TableInv, TypeOK, EnterScheduler
  <2>2. \A d \in Cpus \ {c} : cpc[d] # "slice"
    BY Outside
  <2> QED BY <2>1, <2>2, SMTT(30) DEF TableInv, TypeOK, EnterScheduler
<1> QED BY <1>1, Frame, SMTT(30) DEF HasProcess

-----------------------------------------------------------------------------
\* scheduler takes the lock; a chosen process starts its next tick.
LEMMA DispatchQueue ==
  ASSUME TableInv, QueueInv, NEW c \in Cpus, SchedulerAcquire(c) \/ Dispatch(c)
  PROVE  QueueInv'
<1>1. /\ UNCHANGED <<q, priority, fault, recycled, pid, lev, count>>
      /\ cpc'[c] \in {"scan", "run"} /\ (cpc'[c] = "run" => cpc[c] = "slice" /\ cur'[c] = cur[c])
      /\ \A d \in Cpus \ {c} : cpc'[d] = cpc[d] /\ cur'[d] = cur[d]
  BY DEF SchedulerAcquire, Dispatch, TableInv, TypeOK
<1>2. lock \in {NoCpu, c}
  BY DEF SchedulerAcquire, Dispatch, TableInv, OneCpuPerProcess
<1>3. \A d \in Cpus \ {c} : cpc[d] # "slice"
  BY <1>2, Outside
<1>4. \A p \in Slots : state'[p] # "UNUSED" => state[p] # "UNUSED"
  BY DEF SchedulerAcquire, Dispatch, InSlice, TableInv, TypeOK, ProcessorInv, HasProcess
<1> QED BY <1>1, <1>3, <1>4, Frame, SMTT(30) DEF HasProcess

\* returnProc swaps two entries of one queue: the queues hold the same
\* processes as before.
LEMMA SwapPartition ==
  ASSUME QueueLaws, TableInv, QueueInv, ~recycled, q' = SwapToHead(q, state), UNCHANGED <<procVars, priority>>
  PROVE  /\ QueuesPartition'
         /\ \A p \in Slots : pid'[p] > 0 => p \in Entries(q'[priority'[p]])
<1>1. \A l \in Levels : /\ Entries(q'[l]) = Entries(q[l])
                        /\ NoDup(q[l]) => NoDup(q'[l])
  BY QueueTypes DEF QueueLaws, SwapLaw
<1>2. \A p \in Slots : priority[p] \in Levels
  BY DEF TableInv, TypeOK
<1> QED BY <1>1, <1>2 DEF QueueInv, QueuesPartition

\* The chosen process comes from the highest level that can run.
LEMMA PickQueue ==
  ASSUME QueueLaws, TableInv, QueueInv, NEW c \in Cpus, SchedulerPick(c)
  PROVE  QueueInv'
<1> DEFINE p == returnProc(q, state)
           l == returnQueue(q, state)
<1> SUFFICES ASSUME ~recycled
             PROVE  /\ ~fault' /\ QueuesPartition' /\ HighestPriorityFirst'
                    /\ \A r \in Slots : pid'[r] > 0 => r \in Entries(q'[priority'[r]])
                    /\ \A d \in Cpus : HasProcess(d)' => lev'[d] = priority'[cur'[d]]
  BY DEF QueueInv, SchedulerPick
<1>1. /\ ~fault /\ QueuesPartition
      /\ \A d \in Cpus : HasProcess(d) => lev[d] = priority[cur[d]]
  BY DEF QueueInv
<1>2. /\ QueuesPartition'
      /\ \A r \in Slots : pid'[r] > 0 => r \in Entries(q'[priority'[r]])
  BY SwapPartition DEF SchedulerPick
<1>3. l \in Levels /\ p \in Slots /\ p \in Entries(q[l]) /\ state[p] = "RUNNABLE"
  BY QueueTypes DEF SchedulerPick, QueueLaws, ReturnLaw
<1>4. priority[p] = l
  BY <1>1, <1>3 DEF QueuesPartition
<1>5. \A r \in Slots : state[r] = "RUNNABLE" => l <= priority[r]
  <2> SUFFICES ASSUME NEW r \in Slots, state[r] = "RUNNABLE" PROVE l <= priority[r]
    OBVIOUS
  <2>1. priority[r] \in Levels /\ r \in Entries(q[priority[r]])
    <3>1. priority[r] \in Levels
      BY DEF TableInv, TypeOK
    <3> QED BY <1>1, <3>1 DEF QueuesPartition
  <2>2. HasRunnable(q[priority[r]], state)
    BY <2>1 DEF HasRunnable, Entries
  <2> QED BY <2>1, <2>2, SMTT(30) DEF returnQueue, Levels
<1> HIDE DEF p, l
<1>6. /\ cpc[c] = "scan" /\ lock = c /\ cpc'[c] = "slice" /\ cur'[c] = p /\ lev'[c] = l
      /\ \A d \in Cpus \ {c} : /\ cpc'[d] = cpc[d] /\ cur'[d] = cur[d] /\ lev'[d] = lev[d]
                               /\ count'[d] = count[d]
      /\ UNCHANGED <<state, priority, fault>>
  BY SMTT(30) DEF SchedulerPick, TableInv, TypeOK, OneCpuPerProcess, p, l
<1>7. \A d \in Cpus \ {c} : cpc[d] # "slice"
  BY <1>6, Outside
<1>8. HighestPriorityFirst'
  <2>1. ASSUME NEW d \in Cpus, cpc'[d] = "slice" PROVE d = c
    BY <1>6, <1>7, <2>1
  <2>2. \A r \in Slots : state'[r] = "RUNNABLE" => priority'[cur'[c]] <= priority'[r]
    BY <1>4, <1>5, <1>6
  <2> QED BY <2>1, <2>2 DEF HighestPriorityFirst
<1> QED BY <1>1, <1>2, <1>4, <1>6, <1>8 DEF HasProcess

\* No process is chosen: returnProc has still been called.
LEMMA ReleaseQueue ==
  ASSUME QueueLaws, TableInv, QueueInv, NEW c \in Cpus, SchedulerRelease(c)
  PROVE  QueueInv'
<1>1. /\ cpc[c] = "scan" /\ lock = c /\ cpc'[c] = "idle"
      /\ \A d \in Cpus \ {c} : cpc'[d] = cpc[d] /\ cur'[d] = cur[d]
      /\ UNCHANGED <<procVars, priority, fault, recycled, lev, count>>
  BY SMTT(30) DEF SchedulerRelease, TableInv, TypeOK, OneCpuPerProcess
<1>2. \A d \in Cpus \ {c} : cpc[d] # "slice"
  BY <1>1, Outside
<1>3. CASE q' = q
  BY <1>1, <1>2, <1>3, Frame DEF HasProcess
<1>4. CASE q' = SwapToHead(q, state)
  <2> SUFFICES ASSUME ~recycled
               PROVE  /\ ~fault' /\ QueuesPartition' /\ HighestPriorityFirst'
                      /\ \A r \in Slots : pid'[r] > 0 => r \in Entries(q'[priority'[r]])
                      /\ \A d \in Cpus : HasProcess(d)' => lev'[d] = priority'[cur'[d]]
    BY <1>1 DEF QueueInv
  <2>1. /\ QueuesPartition'
        /\ \A r \in Slots : pid'[r] > 0 => r \in Entries(q'[priority'[r]])
    BY <1>1, <1>4, SwapPartition
  <2>2. HighestPriorityFirst'
    <3>1. \A d \in Cpus : cpc'[d] # "slice"
      BY <1>1, <1>2
    <3> QED BY <3>1 DEF HighestPriorityFirst
  <2> QED BY <1>1, <2>1, <2>2 DEF QueueInv, HasProcess
<1> QED BY <1>3, <1>4 DEF SchedulerRelease

\* A process that is moved to the tail of a level is in the queue it is taken
\* from and there is room in the queue it is added to.
LEMMA MovePartition ==
  ASSUME QueueLaws, TableInv, QueueInv, ~recycled, NEW p \in Slots, state[p] # "UNUSED",
         NEW to \in Levels, Requeued(p, priority[p], to), UNCHANGED procVars
  PROVE  /\ ~fault' /\ QueuesPartition'
         /\ \A r \in Slots : pid'[r] > 0 => r \in Entries(q'[priority'[r]])
<1> DEFINE from == priority[p]
           d == deleteQueue(q, from, p)
<1>1. /\ ~fault /\ QueuesPartition
      /\ \A r \in Slots : pid[r] > 0 => r \in Entries(q[priority[r]])
      /\ q \in Queues /\ from \in Levels
  BY QueueTypes DEF QueueInv, TableInv, TypeOK
<1>2. /\ \A l \in Levels : NoDup(q[l])
      /\ \A l \in Levels : p \in Entries(q[l]) <=> l = from
  BY <1>1 DEF QueuesPartition
<1>3. /\ \A l \in Levels : NoDup(q'[l])
      /\ \A l \in Levels : \A r \in Slots \ {p} : r \in Entries(q'[l]) <=> r \in Entries(q[l])
      /\ \A l \in Levels : p \in Entries(q'[l]) <=> l = to
      /\ q' \in Queues
  <2>1. q' = Move(q, from, to, p)
    BY DEF Requeued
  <2>2. OnlyIn(q, p, from)
    BY <1>2 DEF OnlyIn
  <2>3. q' \in Queues /\ Moved(q, q', p, to)
    BY <1>1, <2>1, <2>2 DEF QueueLaws, MoveLaw
  <2> QED BY <2>3 DEF Moved, OnlyIn
<1>4. /\ priority'[p] = to
      /\ \A r \in Slots \ {p} : priority'[r] = priority[r] /\ priority[r] \in Levels
  BY DEF Requeued, TableInv, TypeOK
<1>5. \A l \in Levels : Entries(q'[l]) \subseteq Slots
  <2>1. \A l \in Levels : q'[l] \in Seq(Slots)
    BY <1>3 DEF Queues
  <2> QED BY <2>1, SMTT(30) DEF Entries
<1>6. QueuesPartition'
  <2>1. \A l \in Levels : \A r \in Entries(q'[l]) : priority'[r] = l
    BY <1>1, <1>3, <1>4, <1>5, SMTT(30) DEF QueuesPartition
  <2>2. \A r \in Slots : state'[r] # "UNUSED" => r \in Entries(q'[priority'[r]])
    BY <1>1, <1>3, <1>4, SMTT(30) DEF QueuesPartition
  <2> QED BY <1>3, <2>1, <2>2 DEF QueuesPartition
<1>7. \A r \in Slots : pid'[r] > 0 => r \in Entries(q'[priority'[r]])
  BY <1>1, <1>3, <1>4
<1>8. MoveFits(q, from, to, p)
  <2>1. q[from] \in Seq(Slots) /\ p \in Entries(q[from])
    BY <1>1, <1>2 DEF Queues
  <2>2. Len(q[from]) > 0
    BY <2>1, SMTT(30) DEF Entries
  <2>3. /\ d \in Queues
        /\ \A m \in Levels \ {from} : d[m] = q[m]
        /\ NoDup(d[from]) /\ Entries(d[from]) = Entries(q[from]) \ {p}
    <3> HIDE DEF from
    <3>1. /\ d \in Queues
          /\ \A m \in Levels \ {from} : d[m] = q[m]
          /\ NoDup(q[from]) => NoDup(d[from])
          /\ NoDup(q[from]) /\ p \in Entries(q[from]) => Entries(d[from]) = Entries(q[from]) \ {p}
      <4>1. DeleteLaw
        BY DEF QueueLaws
      <4> QED BY <1>1, <4>1, SMTT(30) DEF DeleteLaw
    <3> QED BY <1>1, <1>2, <3>1
  <2>4. d[to] \in Seq(Slots) /\ NoDup(d[to]) /\ p \notin Entries(d[to])
    BY <1>2, <2>3 DEF Queues
  <2>5. Len(d[to]) < NPROC
    BY <2>4 DEF QueueLaws, RoomLaw
  <2> QED BY <2>2, <2>5 DEF MoveFits, DeleteFits, AddFits
<1> QED BY <1>1, <1>6, <1>7, <1>8 DEF Requeued

\* The end of a slice.
LEMMA SliceEndQueue ==
  ASSUME QueueLaws, TableInv, QueueInv, NEW c \in Cpus,
         Degrade(c) \/ Boost(c) \/ RequeueSleeper(c) \/ KeepPlace(c)
  PROVE  QueueInv'
<1>1. SliceOver(c)
  BY DEF Degrade, Boost, RequeueSleeper, KeepPlace
<1>2. /\ cpc[c] = "slice" /\ lock = c /\ cpc'[c] = "scan" /\ cur[c] \in Slots
      /\ state[cur[c]] # "UNUSED"
      /\ \A d \in Cpus \ {c} : cpc'[d] = cpc[d] /\ cur'[d] = cur[d] /\ lev'[d] = lev[d]
      /\ UNCHANGED <<procVars, recycled>>
  <2>1. cpc[c] = "slice" /\ lock = c /\ cur[c] \in Slots /\ state[cur[c]] # "UNUSED"
    BY <1>1 DEF SliceOver, TableInv, OneCpuPerProcess, ProcessorInv, HasProcess
  <2> QED BY <1>1, <2>1 DEF SliceOver, TableInv, TypeOK
<1>3. \A d \in Cpus \ {c} : cpc[d] # "slice" /\ (HasProcess(d) => cur[d] \in Slots /\ cur[d] # cur[c])
  <2>1. ProcessorInv /\ OneCpuPerProcess
    BY DEF TableInv
  <2>2. \A d \in Cpus \ {c} : cpc[d] \in {"idle", "run"}
    BY <1>2, Outside
  <2> QED BY <1>2, <2>1, <2>2 DEF OneCpuPerProcess, ProcessorInv, HasProcess
<1>4. CASE UNCHANGED <<q, fault, priority>>
  BY <1>2, <1>3, <1>4, Frame DEF HasProcess
<1>5. ASSUME ~recycled, NEW to \in Levels, Requeued(cur[c], priority[cur[c]], to)
      PROVE  QueueInv'
  <2>1. /\ ~fault' /\ QueuesPartition'
        /\ \A r \in Slots : pid'[r] > 0 => r \in Entries(q'[priority'[r]])
    BY <1>2, <1>5, MovePartition
  <2>2. HighestPriorityFirst'
    <3>1. \A d \in Cpus : cpc'[d] # "slice"
      BY <1>2, <1>3
    <3> QED BY <3>1 DEF HighestPriorityFirst
  <2>3. \A d \in Cpus : HasProcess(d)' => lev'[d] = priority'[cur'[d]]
    <3>1. \A r \in Slots \ {cur[c]} : priority'[r] = priority[r]
      BY <1>5 DEF Requeued, TableInv, TypeOK
    <3>2. \A d \in Cpus \ {c} : HasProcess(d) => lev[d] = priority[cur[d]]
      BY <1>5 DEF QueueInv
    <3>3. \A d \in Cpus : HasProcess(d)' => d # c /\ HasProcess(d)
      BY <1>2 DEF HasProcess
    <3>4. \A d \in Cpus \ {c} : HasProcess(d) =>
            cur[d] \in Slots \ {cur[c]} /\ cur'[d] = cur[d] /\ lev'[d] = lev[d]
      BY <1>2, <1>3
    <3>5. ASSUME NEW d \in Cpus \ {c}, HasProcess(d) PROVE lev'[d] = priority'[cur'[d]]
      <4>1. cur[d] \in Slots \ {cur[c]} /\ cur'[d] = cur[d] /\ lev'[d] = lev[d]
        BY <3>4, <3>5
      <4>2. lev[d] = priority[cur[d]] /\ priority'[cur[d]] = priority[cur[d]]
        BY <3>1, <3>2, <3>5, <4>1
      <4> QED BY <4>1, <4>2
    <3> QED BY <3>3, <3>5
  <2> QED BY <2>1, <2>2, <2>3 DEF QueueInv
<1>6. CASE ~recycled
  <2>1. lev[c] = priority[cur[c]] /\ lev[c] \in Levels
    BY <1>2, <1>6 DEF QueueInv, HasProcess, TableInv, TypeOK
  <2>2. 0 \in Levels /\ (lev[c] # 2 => lev[c] + 1 \in Levels)
    BY <2>1, SMTT(30) DEF Levels
  <2> QED BY <1>4, <1>5, <1>6, <2>1, <2>2 DEF Degrade, Boost, RequeueSleeper, KeepPlace
<1>7. CASE recycled
  BY <1>2, <1>7 DEF QueueInv
<1> QED BY <1>6, <1>7

-----------------------------------------------------------------------------
\* A slot that is handed out for the first time is in no queue.
LEMMA ForkAllocQueue ==
  ASSUME QueueLaws, TableInv, QueueInv, NEW c \in Cpus, NEW k \in Slots, ForkAlloc(c, k)
  PROVE  QueueInv'
<1> SUFFICES ASSUME ~recycled' PROVE QueueInv'
  BY DEF QueueInv
<1>1. ~recycled /\ lock = NoCpu /\ cpc[c] = "run" /\ state[k] = "UNUSED"
      /\ \A l \in Levels : k \notin Entries(q[l])
  BY DEF ForkAlloc, Calls, Executes, Unused
<1>2. /\ ~fault /\ QueuesPartition
      /\ \A r \in Slots : pid[r] > 0 => r \in Entries(q[priority[r]])
      /\ \A d \in Cpus : HasProcess(d) => lev[d] = priority[cur[d]]
      /\ q \in Queues /\ 0 \in Levels /\ \A r \in Slots : priority[r] \in Levels
  <2>1. q \in Queues /\ \A r \in Slots : priority[r] \in Levels
    BY QueueTypes DEF TableInv, TypeOK
  <2>2. 0 \in Levels
    BY SMTT(30) DEF Levels
  <2> QED BY <1>1, <2>1, <2>2 DEF QueueInv
<1>3. q' = addQueue(q, 0, k) /\ (fault' = (fault \/ ~AddFits(q, 0)))
  BY <1>1, <1>2 DEF ForkAlloc, PurgedQueues, AllocFits
<1>4. /\ q' \in Queues
      /\ \A m \in Levels \ {0} : q'[m] = q[m]
      /\ Entries(q'[0]) = Entries(q[0]) \cup {k}
      /\ NoDup(q'[0])
  <2>1. /\ addQueue(q, 0, k) \in Queues
        /\ \A m \in Levels \ {0} : addQueue(q, 0, k)[m] = q[m]
        /\ Entries(addQueue(q, 0, k)[0]) = Entries(q[0]) \cup {k}
        /\ NoDup(q[0]) /\ k \notin Entries(q[0]) => NoDup(addQueue(q, 0, k)[0])
    BY <1>2 DEF QueueLaws, AddLaw
  <2>2. NoDup(q[0]) /\ k \notin Entries(q[0])
    BY <1>1, <1>2 DEF QueuesPartition
  <2> QED BY <1>3, <2>1, <2>2
<1>5. ~fault'
  <2>1. q[0] \in Seq(Slots) /\ NoDup(q[0])
    BY <1>2 DEF Queues, QueuesPartition
  <2>2. Len(q[0]) < NPROC
    BY <1>1, <1>2, <2>1 DEF QueueLaws, RoomLaw
  <2> QED BY <1>2, <1>3, <2>2 DEF AddFits
<1>6. /\ priority'[k] = 0 /\ \A r \in Slots \ {k} : priority'[r] = priority[r] /\ pid'[r] = pid[r]
      /\ \A r \in Slots \ {k} : state'[r] = state[r]
      /\ UNCHANGED <<cpc, cur, lev, count>>
  BY DEF ForkAlloc, TableInv, TypeOK
<1>7. \A l \in Levels : Entries(q[l]) \subseteq Slots
  BY <1>2, SMTT(30) DEF Entries, Queues
<1>8. QueuesPartition'
  <2>1. \A l \in Levels : NoDup(q'[l])
    BY <1>2, <1>4 DEF QueuesPartition
  <2>2. \A l \in Levels : \A r \in Entries(q'[l]) : priority'[r] = l
    BY <1>1, <1>2, <1>4, <1>6, <1>7, SMTT(30) DEF QueuesPartition
  <2>3. \A r \in Slots : state'[r] # "UNUSED" => r \in Entries(q'[priority'[r]])
    BY <1>2, <1>4, <1>6, SMTT(30) DEF QueuesPartition
  <2> QED BY <2>1, <2>2, <2>3 DEF QueuesPartition
<1>9. \A r \in Slots : pid'[r] > 0 => r \in Entries(q'[priority'[r]])
  BY <1>2, <1>4, <1>6, SMTT(30)
<1>10. \A d \in Cpus : HasProcess(d) => cur[d] \in Slots \ {k}
  BY <1>1 DEF TableInv, ProcessorInv, OneCpuPerProcess, HasProcess
<1>11. \A d \in Cpus : cpc'[d] # "slice"
  BY <1>1, <1>6, Unlocked
<1> QED BY <1>2, <1>5, <1>6, <1>8, <1>9, <1>10, <1>11 DEF QueueInv, HighestPriorityFirst, HasProcess

-----------------------------------------------------------------------------
\* wait, when it is called and when its sleep returns.
LEMMA WaitQueue ==
  ASSUME TableInv, QueueInv, NEW c \in Cpus, Wait(c) \/ ResumeWait(c) \/ Resume(c)
  PROVE  QueueInv'
<1>1. cpc[c] = "run" /\ lock \in {NoCpu, c} /\ (WaitScan(c) \/ Resume(c))
  BY DEF Wait, ResumeWait, Resume, Calls, Executes
<1>2. cur[c] \in Slots /\ state[cur[c]] = "RUNNING"
  BY <1>1, Executing
<1>3. ASSUME NEW k \in Slots, Reap(c, k) PROVE QueueInv'
  <2>1. /\ \A p \in Slots : state'[p] # "UNUSED" => state[p] # "UNUSED"
        /\ \A p \in Slots : pid'[p] > 0 => pid[p] > 0
        /\ UNCHANGED <<q, priority, fault, recycled, cpc, cur, lev, count>>
    BY <1>3, SMTT(30) DEF Reap, TableInv, TypeOK
  <2> QED BY <1>1, <2>1, UnlockedQueue
<1>4. CASE WaitFails(c) \/ Resume(c)
  <2>1. UNCHANGED <<q, priority, fault, recycled, cpc, cur, lev, count, state, pid>>
    BY <1>4 DEF WaitFails, Resume
  <2> QED BY <1>1, <2>1, UnlockedQueue
<1>5. CASE WaitSleeps(c)
  <2>1. /\ EnterScheduler(c) /\ UNCHANGED pid
        /\ \A p \in Slots : state'[p] # "UNUSED" => state[p] # "UNUSED"
    BY <1>2, <1>5 DEF WaitSleeps, TableInv, TypeOK
  <2> QED BY <1>1, <2>1, SwitchQueue
<1> QED BY <1>1, <1>3, <1>4, <1>5 DEF WaitScan

\* The other ways into the scheduler.
LEMMA SwitchStepQueue ==
  ASSUME TableInv, QueueInv, NEW c \in Cpus, Yield(c) \/ Exit(c) \/ \E ch \in SleepChans : Sleep(c, ch)
  PROVE  QueueInv'
<1>1. cpc[c] = "run" /\ lock = NoCpu /\ EnterScheduler(c) /\ UNCHANGED pid
  BY DEF Yield, Exit, Sleep, Calls, Executes, TableInv, ProcessorInv
<1>2. cur[c] \in Slots /\ state[cur[c]] = "RUNNING"
  BY <1>1, Executing
<1>3. \A p \in Slots : state'[p] # "UNUSED" => state[p] # "UNUSED"
  <2>1. CASE Exit(c)
    <3>1. state \in [Slots -> States]
      BY DEF TableInv, TypeOK
    <3> QED BY <1>2, <2>1, <3>1 DEF Exit, wakeup1
  <2>2. CASE Yield(c) \/ \E ch \in SleepChans : Sleep(c, ch)
    <3>1. state \in [Slots -> States]
      BY DEF TableInv, TypeOK
    <3> QED BY <1>2, <2>2, <3>1 DEF Yield, Sleep
  <2> QED BY <2>1, <2>2
<1> QED BY <1>1, <1>3, SwitchQueue

\* The end of fork, and the steps that do not concern the queues at all.
LEMMA OtherQueue ==
  ASSUME TableInv, QueueInv, NEW c \in Cpus,
         \/ ForkFails(c) \/ ForkDone(c) \/ WakeupIo(c) \/ TimerInterrupt(c)
         \/ SysReturn(c) \/ SysExit(c) \/ TrapExit(c) \/ UserFault(c)
         \/ \E p \in Slots : \E n \in KillPids : Kill(c, n, p)
  PROVE  QueueInv'
<1>1. UNCHANGED <<q, priority, fault, recycled, cpc, cur, lev, count, pid>>
  BY DEF ForkFails, ForkDone, WakeupIo, TimerInterrupt, SysReturn, SysExit, TrapExit,
               UserFault, Kill
<1>2. CASE ForkFails(c)
  <2>1. \A p \in Slots : state'[p] = state[p] \/ state'[p] = "UNUSED"
    BY <1>2 DEF ForkFails, TableInv, TypeOK
  <2> QED BY <1>1, <2>1, LocalQueue
<1>3. CASE UNCHANGED state
  BY <1>1, <1>3, LocalQueue
<1>4. CASE ForkDone(c)
  <2>1. cpc[c] = "run" /\ lock = NoCpu /\ kpc[cur[c]] = "fork" /\ cur[c] \in Slots
    BY <1>4, Executing DEF ForkDone, Executes
  <2>2. state[child[cur[c]]] = "EMBRYO"
    BY <2>1 DEF TableInv, PathInv, EmbryoOwned, Forking
  <2>3. \A p \in Slots : state'[p] # "UNUSED" => state[p] # "UNUSED"
    BY <1>4, <2>2 DEF ForkDone, TableInv, TypeOK
  <2> QED BY <1>1, <2>1, <2>3, UnlockedQueue
<1>5. CASE \/ WakeupIo(c) \/ (TimerInterrupt(c) /\ c = 0)
           \/ \E p \in Slots : \E n \in KillPids : Kill(c, n, p)
  <2>1. cpc[c] \in {"idle", "run"} /\ lock = NoCpu
    BY <1>5 DEF WakeupIo, TimerInterrupt, Interruptible, Kill, Calls, Executes
  <2>2. \A p \in Slots : state'[p] # "UNUSED" => state[p] # "UNUSED"
    <3>1. state \in [Slots -> States]
      BY DEF TableInv, TypeOK
    <3>2. CASE WakeupIo(c) \/ (TimerInterrupt(c) /\ c = 0)
      BY <3>1, <3>2 DEF WakeupIo, TimerInterrupt, wakeup1
    <3>3. CASE \E p \in Slots : \E n \in KillPids : Kill(c, n, p)
      BY <3>1, <3>3 DEF Kill
    <3> QED BY <1>5, <3>2, <3>3
  <2> QED BY <1>1, <2>1, <2>2, UnlockedQueue
<1> QED BY <1>2, <1>3, <1>4, <1>5 DEF TimerInterrupt, SysReturn, SysExit, TrapExit, UserFault

\* Every step keeps the queues in order until a slot is handed out again.
LEMMA QueueStep == QueueLaws /\ TableInv /\ QueueInv /\ [Next]_vars => QueueInv'
<1> SUFFICES ASSUME QueueLaws, TableInv, QueueInv, [Next]_vars PROVE QueueInv'
  OBVIOUS
<1>1. CASE UNCHANGED vars
  BY <1>1, LocalQueue
<1>2. ASSUME NEW c \in Cpus, Scheduler(c) PROVE QueueInv'
  BY <1>2, DispatchQueue, PickQueue, ReleaseQueue, SliceEndQueue, WaitQueue DEF Scheduler
<1>3. ASSUME NEW c \in Cpus, Interrupt(c) PROVE QueueInv'
  BY <1>3, OtherQueue, SwitchStepQueue DEF Interrupt
<1>4. ASSUME NEW c \in Cpus, SystemCall(c) PROVE QueueInv'
  BY <1>4, WaitQueue, ForkAllocQueue, OtherQueue, SwitchStepQueue DEF SystemCall
<1> QED BY <1>1, <1>2, <1>3, <1>4 DEF Next, Halted

\* The levels of a process before and after the step that ends its slice.
LEMMA SliceEndLevel ==
  ASSUME TableInv, QueueInv, ~recycled', NEW p \in Slots, priority'[p] # priority[p],
         NEW c \in Cpus, Degrade(c) \/ Boost(c) \/ RequeueSleeper(c)
  PROVE  \/ /\ priority'[p] = priority[p] + 1
            /\ \E d \in Cpus : cur[d] = p /\ count[d] >= Slice[priority[p]]
         \/ priority[p] = 2 /\ priority'[p] = 0 /\ Ticks[p] >= BoostTicks
<1>1. SliceOver(c)
  BY DEF Degrade, Boost, RequeueSleeper
<1>2. /\ cur[c] \in Slots /\ ~recycled /\ cpc[c] = "slice"
      /\ lev[c] \in Levels /\ count[c] \in Nat /\ Slice[lev[c]] \in Nat
  <2>1. TypeOK /\ ProcessorInv /\ cpc[c] = "slice" /\ ~recycled
    BY <1>1 DEF SliceOver, TableInv
  <2>2. lev[c] \in Levels /\ count[c] \in Nat
    BY <2>1 DEF TypeOK
  <2>3. Slice[lev[c]] \in Nat
    BY <2>2, MlfqAssumption DEF Levels
  <2> QED BY <2>1, <2>2, <2>3 DEF ProcessorInv, HasProcess
<1>3. lev[c] = priority[cur[c]]
  BY <1>2 DEF QueueInv, HasProcess
<1>4. CASE Degrade(c)
  <2>1. state[cur[c]] = "RUNNABLE" /\ ~InSlice(c)
    BY <1>4 DEF Degrade, SliceOver
  <2>2. count[c] >= Slice[lev[c]]
    <3>1. ~(count[c] < Slice[lev[c]])
      BY <2>1 DEF InSlice
    <3> QED BY <1>2, <3>1, SMTT(30)
  <2>3. lev[c] # 2 /\ priority' = [priority EXCEPT ![cur[c]] = lev[c] + 1]
    BY <1>4 DEF Degrade, Requeued
  <2>4. p = cur[c] /\ priority'[p] = lev[c] + 1
    BY <1>2, <2>3 DEF TableInv, TypeOK
  <2> QED BY <1>3, <2>2, <2>4
<1>5. CASE Boost(c)
  BY <1>2, <1>5 DEF Boost, Requeued, TableInv, TypeOK
<1>6. CASE RequeueSleeper(c)
  BY <1>2, <1>3, <1>6 DEF RequeueSleeper, Requeued, TableInv, TypeOK
<1> QED BY <1>4, <1>5, <1>6

\* A priority changes at the end of a slice, and when a slot is handed out.
LEMMA NextLevel == TableInv /\ QueueInv /\ [Next]_vars => [LevelRule]_vars
<1> SUFFICES ASSUME TableInv, QueueInv, [Next]_vars, ~recycled', NEW p \in Slots,
                    state[p] # "UNUSED", priority'[p] # priority[p]
             PROVE  \/ /\ priority'[p] = priority[p] + 1
                       /\ \E c \in Cpus : cur[c] = p /\ count[c] >= Slice[priority[p]]
                    \/ priority[p] = 2 /\ priority'[p] = 0 /\ Ticks[p] >= BoostTicks
  BY DEF LevelRule
<1>1. PICK c \in Cpus :
        \/ Degrade(c) \/ Boost(c) \/ RequeueSleeper(c)
        \/ \E k \in Slots : ForkAlloc(c, k)
  <2>1. ASSUME NEW c \in Cpus, WaitScan(c) PROVE UNCHANGED priority
    BY <2>1 DEF WaitScan, Reap, WaitFails, WaitSleeps, EnterScheduler
  <2>2. ASSUME NEW c \in Cpus, Scheduler(c)
        PROVE  UNCHANGED priority \/ Degrade(c) \/ Boost(c) \/ RequeueSleeper(c)
    BY <2>1, <2>2 DEF Scheduler, SchedulerAcquire, SchedulerPick, SchedulerRelease, Dispatch,
                      KeepPlace, Resume, ResumeWait
  <2>3. ASSUME NEW c \in Cpus, Interrupt(c) PROVE UNCHANGED priority
    BY <2>3 DEF Interrupt, WakeupIo, TimerInterrupt, Yield, EnterScheduler
  <2>4. ASSUME NEW c \in Cpus, SystemCall(c)
        PROVE  UNCHANGED priority \/ \E k \in Slots : ForkAlloc(c, k)
    BY <2>1, <2>4 DEF SystemCall, Wait, ForkFails, ForkDone, Sleep, SysReturn, SysExit, TrapExit,
                      UserFault, Exit, Kill, EnterScheduler
  <2> QED BY <2>2, <2>3, <2>4 DEF Next, Halted
<1>2. ~ \E k \in Slots : ForkAlloc(c, k)
  <2>1. priority \in [Slots -> Levels]
    BY DEF TableInv, TypeOK
  <2> SUFFICES ASSUME NEW k \in Slots, ForkAlloc(c, k) PROVE FALSE
    OBVIOUS
  <2>2. p # k /\ priority' = [priority EXCEPT ![k] = 0]
    BY DEF ForkAlloc, Unused
  <2> QED BY <2>1, <2>2
<1> QED BY <1>1, <1>2, SliceEndLevel
=============================================================================
