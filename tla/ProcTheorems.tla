---------------------------- MODULE ProcTheorems ----------------------------
(***************************************************************************)
(* The theorems about the scheduler, for every number of slots and         *)
(* processors, every length of the time slices and every bound.            *)
(*                                                                         *)
(* First what the queue helpers of module Mlfq return, for every content   *)
(* of the queues (the laws of MlfqLaws, the only facts about the helpers   *)
(* that the other proofs use).  Then the theorems: the process table       *)
(* (TableInv, inductive) and the multi-level feedback queue (QueueInv,     *)
(* inductive relative to TableInv).                                        *)
(***************************************************************************)
EXTENDS ProcProofs, FiniteSetTheorems, SequenceTheorems, WellFoundedInduction

\* Most leaves are first-order; a leaf that needs arithmetic, sequences or
\* large records names SMT.
USE ZenonT(30)

\* A non-empty set of naturals has a least element: the loops of proc.c that
\* stop at the first match stop somewhere.
LEMMA LeastElement ==
  ASSUME NEW T \in SUBSET Nat, T # {}
  PROVE  \E x \in T : \A y \in T : x <= y
<1>1. \E x \in T : \A y \in T : ~ (<<y, x>> \in OpToRel(<, Nat))
  BY NatLessThanWellFounded, WFMin
<1>2. ASSUME NEW x \in T, NEW y \in T, ~ (<<y, x>> \in OpToRel(<, Nat))
      PROVE  x <= y
  BY <1>2, SMTT(30) DEF OpToRel
<1> QED BY <1>1, <1>2

\* The search loop of returnProc finds a RUNNABLE entry when there is one.
LEMMA FirstRunnableFound ==
  ASSUME NEW s \in Seq(Slots), NEW st \in Tables, HasRunnable(s, st)
  PROVE  /\ FirstRunnable(s, st) \in 1 .. Len(s)
         /\ st[s[FirstRunnable(s, st)]] = "RUNNABLE"
<1> DEFINE T == {i \in 1 .. Len(s) : st[s[i]] = "RUNNABLE"}
<1>1. T # {} /\ T \in SUBSET Nat
  BY SMTT(30) DEF HasRunnable
<1>2. PICK i \in T : \A j \in T : i <= j
  BY <1>1, LeastElement
<1>3. /\ i \in 1 .. Len(s) /\ st[s[i]] = "RUNNABLE"
      /\ \A j \in 1 .. i-1 : st[s[j]] # "RUNNABLE"
  BY <1>2, SMTT(30)
<1> QED BY <1>3 DEF FirstRunnable

\* The search loop of deleteQueue stops at an occurrence of the process.
LEMMA IndexOfFound ==
  ASSUME NEW s \in Seq(Slots), NEW p \in Entries(s)
  PROVE  IndexOf(s, p) \in 1 .. Len(s) /\ s[IndexOf(s, p)] = p
<1> DEFINE T == {i \in 1 .. Len(s) : s[i] = p}
<1>1. T # {} /\ T \in SUBSET Nat
  BY SMTT(30) DEF Entries
<1>2. PICK i \in T : \A j \in T : i <= j
  BY <1>1, LeastElement
<1>3. i \in 1 .. Len(s) /\ s[i] = p /\ \A j \in 1 .. i-1 : s[j] # p
  BY <1>2, SMTT(30)
<1> QED BY <1>3 DEF IndexOf

\* The search loop of deleteQueue ends at end when the process is absent.
LEMMA IndexOfType ==
  ASSUME NEW s \in Seq(Slots), NEW p
  PROVE  IndexOf(s, p) \in 1 .. Len(s) + 1
<1>1. CASE p \in Entries(s)
  BY <1>1, IndexOfFound, SMTT(30)
<1>2. CASE p \notin Entries(s)
  BY <1>2, SMTT(30) DEF IndexOf
<1> QED BY <1>1, <1>2

\* The shift loop of deleteQueue leaves one entry less.
LEMMA DropAtType ==
  ASSUME NEW s \in Seq(Slots), s # <<>>, NEW i \in 1 .. Len(s) + 1
  PROVE  /\ DropAt(s, i) \in Seq(Slots)
         /\ Len(DropAt(s, i)) = Len(s) - 1
         /\ \A j \in 1 .. Len(s) - 1 : DropAt(s, i)[j] = IF j < i THEN s[j] ELSE s[j+1]
<1>1. Len(s) - 1 \in Nat
  BY SMTT(30)
<1>2. DropAt(s, i) \in [1 .. Len(s) - 1 -> Slots]
  BY SMTT(30) DEF DropAt
<1>3. DropAt(s, i) \in Seq(Slots)
  BY <1>1, <1>2, SeqDef
<1>4. DOMAIN DropAt(s, i) = 1 .. Len(s) - 1
  BY DEF DropAt
<1>5. Len(DropAt(s, i)) = Len(s) - 1
  BY <1>1, <1>3, <1>4, LenProperties, SMTT(30)
<1> QED BY <1>3, <1>5 DEF DropAt

\* returnQueue returns one of the three queues.
LEMMA ReturnQueueType ==
  ASSUME NEW qs \in Queues, NEW st \in Tables
  PROVE  returnQueue(qs, st) \in Levels
BY SMTT(30) DEF returnQueue, Levels

\* returnProc returns a RUNNABLE process of the queue returnQueue returns,
\* or the null pointer.
LEMMA ReturnProcType ==
  ASSUME NEW qs \in Queues, NEW st \in Tables
  PROVE  \/ returnProc(qs, st) = NoProc
         \/ /\ returnProc(qs, st) \in Slots
            /\ st[returnProc(qs, st)] = "RUNNABLE"
            /\ returnProc(qs, st) \in Entries(qs[returnQueue(qs, st)])
<1> DEFINE l == returnQueue(qs, st)
           s == qs[l]
<1>1. s \in Seq(Slots)
  BY ReturnQueueType DEF Queues
<1>2. CASE HasRunnable(s, st)
  <2>1. /\ FirstRunnable(s, st) \in 1 .. Len(s)
        /\ st[s[FirstRunnable(s, st)]] = "RUNNABLE"
    BY <1>1, <1>2, FirstRunnableFound
  <2>2. returnProc(qs, st) = s[FirstRunnable(s, st)]
    BY <1>2 DEF returnProc
  <2> HIDE DEF s
  <2>3. s[FirstRunnable(s, st)] \in Slots
    BY <1>1, <2>1, ElementOfSeq
  <2> QED BY <2>1, <2>2, <2>3 DEF Entries, s
<1>3. CASE ~ HasRunnable(s, st)
  BY <1>3 DEF returnProc
<1> QED BY <1>2, <1>3

-----------------------------------------------------------------------------
\* What it means for a queue to hold a process.
LEMMA EntriesIff ==
  ASSUME NEW s, NEW x
  PROVE  x \in Entries(s) <=> \E i \in 1 .. Len(s) : s[i] = x
BY DEF Entries

\* The swap of returnProc permutes one queue: no queue gains or loses an
\* entry, and no entry is doubled.
LEMMA SwapProperties ==
  ASSUME NEW qs \in Queues, NEW st \in Tables
  PROVE  /\ SwapToHead(qs, st) \in Queues
         /\ \A l \in Levels :
              /\ Len(SwapToHead(qs, st)[l]) = Len(qs[l])
              /\ Entries(SwapToHead(qs, st)[l]) = Entries(qs[l])
              /\ NoDup(qs[l]) => NoDup(SwapToHead(qs, st)[l])
<1> DEFINE l == returnQueue(qs, st)
           s == qs[l]
           i == FirstRunnable(s, st)
           t == [s EXCEPT ![1] = s[i], ![i] = s[1]]
<1>1. l \in Levels /\ s \in Seq(Slots)
  BY ReturnQueueType DEF Queues
<1>2. CASE HasRunnable(s, st)
  <2>1. i \in 1 .. Len(s) /\ 1 \in 1 .. Len(s)
    BY <1>1, <1>2, FirstRunnableFound, SMTT(30)
  <2>2. SwapToHead(qs, st) = [qs EXCEPT ![l] = t]
    BY <1>2 DEF SwapToHead
  <2> HIDE DEF l, i
  <2>3. /\ t \in Seq(Slots) /\ Len(t) = Len(s)
        /\ \A j \in 1 .. Len(s) : t[j] = IF j = i THEN s[1] ELSE IF j = 1 THEN s[i] ELSE s[j]
    BY <1>1, <2>1, SMTT(30)
  <2> HIDE DEF t, s
  <2>4. Entries(t) = Entries(s)
    <3>1. \A j \in 1 .. Len(s) : \E k \in 1 .. Len(s) : t[j] = s[k]
      BY <2>1, <2>3
    <3>2. \A j \in 1 .. Len(s) : \E k \in 1 .. Len(s) : s[j] = t[k]
      BY <2>1, <2>3
    <3>3. \A x : x \in Entries(t) <=> x \in Entries(s)
      <4> SUFFICES ASSUME NEW x
                   PROVE  x \in Entries(t) <=> x \in Entries(s)
        OBVIOUS
      <4>1. x \in Entries(t) <=> \E j \in 1 .. Len(t) : t[j] = x
        BY EntriesIff
      <4>2. x \in Entries(s) <=> \E j \in 1 .. Len(s) : s[j] = x
        BY EntriesIff
      <4>3. Len(t) = Len(s)
        BY <2>3
      <4> QED BY <3>1, <3>2, <4>1, <4>2, <4>3
    <3> QED BY <3>3
  <2>5. NoDup(s) => NoDup(t)
    BY <2>1, <2>3 DEF NoDup
  <2>6. [qs EXCEPT ![l] = t] \in Queues
    BY <1>1, <2>3 DEF Queues
  <2>7. \A m \in Levels : [qs EXCEPT ![l] = t][m] = IF m = l THEN t ELSE qs[m]
    BY DEF Queues
  <2> QED BY <2>2, <2>3, <2>4, <2>5, <2>6, <2>7 DEF s
<1>3. CASE ~ HasRunnable(s, st)
  BY <1>3 DEF SwapToHead
<1> QED BY <1>2, <1>3

\* addQueue adds the process to its queue and leaves the others alone.
LEMMA AddProperties ==
  ASSUME NEW qs \in Queues, NEW l \in Levels, NEW p \in Slots
  PROVE  /\ addQueue(qs, l, p) \in Queues
         /\ \A m \in Levels \ {l} : addQueue(qs, l, p)[m] = qs[m]
         /\ Entries(addQueue(qs, l, p)[l]) = Entries(qs[l]) \cup {p}
         /\ NoDup(qs[l]) /\ p \notin Entries(qs[l]) => NoDup(addQueue(qs, l, p)[l])
<1> DEFINE s == qs[l]
           t == Append(s, p)
<1>1. s \in Seq(Slots)
  BY DEF Queues
<1>2. /\ t \in Seq(Slots) /\ Len(t) = Len(s) + 1
      /\ \A j \in 1 .. Len(s) + 1 : t[j] = IF j = Len(s) + 1 THEN p ELSE s[j]
  BY <1>1, AppendProperties, SMTT(30)
<1>3. addQueue(qs, l, p) = [qs EXCEPT ![l] = t]
  BY DEF addQueue
<1> HIDE DEF s, t
<1>4. Entries(t) = Entries(s) \cup {p}
  <2>1. \A j \in 1 .. Len(s) + 1 : t[j] = p \/ \E k \in 1 .. Len(s) : t[j] = s[k]
    BY <1>1, <1>2, SMTT(30)
  <2>2. \A j \in 1 .. Len(s) : s[j] = t[j] /\ j \in 1 .. Len(s) + 1
    BY <1>1, <1>2, SMTT(30)
  <2>3. p = t[Len(s) + 1] /\ Len(s) + 1 \in 1 .. Len(s) + 1
    BY <1>1, <1>2, SMTT(30)
  <2>4. \A x : x \in Entries(t) <=> x \in Entries(s) \/ x = p
    BY <1>2, <2>1, <2>2, <2>3, EntriesIff, SMTT(30)
  <2> QED BY <2>4
<1>5. NoDup(s) /\ p \notin Entries(s) => NoDup(t)
  BY <1>1, <1>2, SMTT(30) DEF NoDup, Entries
<1>6. /\ [qs EXCEPT ![l] = t] \in Queues /\ [qs EXCEPT ![l] = t][l] = t
      /\ \A m \in Levels \ {l} : [qs EXCEPT ![l] = t][m] = qs[m]
  BY <1>2 DEF Queues
<1> QED BY <1>3, <1>4, <1>5, <1>6 DEF s

\* deleteQueue changes one queue; it adds nothing, and removes the process,
\* and no other, when the queue holds it once.
LEMMA DeleteProperties ==
  ASSUME NEW qs \in Queues, NEW l \in Levels, NEW p \in Slots
  PROVE  /\ deleteQueue(qs, l, p) \in Queues
         /\ \A m \in Levels \ {l} : deleteQueue(qs, l, p)[m] = qs[m]
         /\ NoDup(qs[l]) => NoDup(deleteQueue(qs, l, p)[l])
         /\ NoDup(qs[l]) /\ p \in Entries(qs[l])
              => Entries(deleteQueue(qs, l, p)[l]) = Entries(qs[l]) \ {p}
<1> DEFINE s == qs[l]
           i == IndexOf(s, p)
           t == IF s = <<>> THEN <<>> ELSE DropAt(s, i)
<1>1. s \in Seq(Slots)
  BY DEF Queues
<1>2. deleteQueue(qs, l, p) = [qs EXCEPT ![l] = t]
  BY DEF deleteQueue
<1>3. i \in 1 .. Len(s) + 1
  BY <1>1, IndexOfType
<1>4. CASE s = <<>>
  <2>1. t = s
    BY <1>4
  <2>2. p \notin Entries(s)
    BY <1>4, SMTT(30) DEF Entries
  <2> QED BY <1>2, <2>1, <2>2 DEF Queues
<1>5. CASE s # <<>>
  <2>1. t = DropAt(s, i)
    BY <1>5
  <2> HIDE DEF s, i, t
  <2>2. /\ t \in Seq(Slots) /\ Len(t) = Len(s) - 1
        /\ \A j \in 1 .. Len(s) - 1 : t[j] = IF j < i THEN s[j] ELSE s[j+1]
    BY <1>1, <1>3, <1>5, <2>1, DropAtType
  <2>3. NoDup(s) => NoDup(t)
    BY <1>1, <1>3, <2>2, SMTT(30) DEF NoDup
  <2>4. NoDup(s) /\ p \in Entries(s) => Entries(t) = Entries(s) \ {p}
    <3> SUFFICES ASSUME NoDup(s), p \in Entries(s)
                 PROVE  Entries(t) = Entries(s) \ {p}
      OBVIOUS
    <3>1. i \in 1 .. Len(s) /\ s[i] = p
      BY <1>1, IndexOfFound DEF i
    <3>2. \A j \in 1 .. Len(t) : \E k \in 1 .. Len(s) : t[j] = s[k] /\ k # i
      BY <1>1, <1>3, <2>2, SMTT(30)
    <3>3. \A k \in 1 .. Len(s) : k # i => \E j \in 1 .. Len(t) : t[j] = s[k]
      <4> SUFFICES ASSUME NEW k \in 1 .. Len(s), k # i
                   PROVE  \E j \in 1 .. Len(t) : t[j] = s[k]
        OBVIOUS
      <4>1. CASE k < i
        <5>1. k \in 1 .. Len(t) /\ t[k] = s[k]
          BY <1>1, <2>2, <3>1, <4>1, SMTT(30)
        <5> QED BY <5>1
      <4>2. CASE k > i
        <5>1. k - 1 \in 1 .. Len(t) /\ t[k-1] = s[k]
          BY <1>1, <2>2, <3>1, <4>2, SMTT(30)
        <5> QED BY <5>1
      <4> QED BY <1>1, <3>1, <4>1, <4>2, SMTT(30)
    <3>4. \A k \in 1 .. Len(s) : s[k] = p <=> k = i
      BY <3>1 DEF NoDup
    <3>5. \A x : x \in Entries(t) <=> x \in Entries(s) /\ x # p
      <4> SUFFICES ASSUME NEW x
                   PROVE  x \in Entries(t) <=> x \in Entries(s) /\ x # p
        OBVIOUS
      <4>1. x \in Entries(t) <=> \E j \in 1 .. Len(t) : t[j] = x
        BY EntriesIff
      <4>2. x \in Entries(s) <=> \E j \in 1 .. Len(s) : s[j] = x
        BY EntriesIff
      <4>3. ASSUME x \in Entries(t) PROVE x \in Entries(s) /\ x # p
        BY <3>2, <3>4, <4>1, <4>2, <4>3
      <4>4. ASSUME x \in Entries(s), x # p PROVE x \in Entries(t)
        <5>1. PICK k \in 1 .. Len(s) : s[k] = x
          BY <4>2, <4>4
        <5>2. k # i
          BY <3>4, <4>4, <5>1
        <5> QED BY <3>3, <4>1, <5>1, <5>2
      <4> QED BY <4>3, <4>4
    <3> QED BY <3>5
  <2>5. /\ [qs EXCEPT ![l] = t] \in Queues /\ [qs EXCEPT ![l] = t][l] = t
        /\ \A m \in Levels \ {l} : [qs EXCEPT ![l] = t][m] = qs[m]
    BY <2>2 DEF Queues
  <2> QED BY <1>2, <2>3, <2>4, <2>5 DEF s, t
<1> QED BY <1>4, <1>5

-----------------------------------------------------------------------------
\* Moving a process that its queue holds once, to a queue that does not hold
\* it or to the tail of the same queue, moves this entry and nothing else.
LEMMA MoveProperties ==
  ASSUME NEW qs \in Queues, NEW from \in Levels, NEW to \in Levels, NEW p \in Slots
  PROVE  /\ Move(qs, from, to, p) \in Queues
         /\ OnlyIn(qs, p, from) => Moved(qs, Move(qs, from, to, p), p, to)
<1> DEFINE d == deleteQueue(qs, from, p)
<1>1. /\ d \in Queues
      /\ \A m \in Levels \ {from} : d[m] = qs[m]
      /\ NoDup(qs[from]) => NoDup(d[from])
      /\ NoDup(qs[from]) /\ p \in Entries(qs[from]) => Entries(d[from]) = Entries(qs[from]) \ {p}
  <2>1. \A l \in Levels, r \in Slots :
          /\ deleteQueue(qs, l, r) \in Queues
          /\ \A m \in Levels \ {l} : deleteQueue(qs, l, r)[m] = qs[m]
          /\ NoDup(qs[l]) => NoDup(deleteQueue(qs, l, r)[l])
          /\ NoDup(qs[l]) /\ r \in Entries(qs[l])
               => Entries(deleteQueue(qs, l, r)[l]) = Entries(qs[l]) \ {r}
    BY DeleteProperties
  <2> QED BY <2>1
<1> HIDE DEF d
<1>2. /\ addQueue(d, to, p) \in Queues
      /\ \A m \in Levels \ {to} : addQueue(d, to, p)[m] = d[m]
      /\ Entries(addQueue(d, to, p)[to]) = Entries(d[to]) \cup {p}
      /\ NoDup(d[to]) /\ p \notin Entries(d[to]) => NoDup(addQueue(d, to, p)[to])
  BY <1>1, AddProperties
<1>3. Move(qs, from, to, p) = addQueue(d, to, p)
  BY DEF Move, d
<1> QED BY <1>1, <1>2, <1>3 DEF OnlyIn, Moved

\* A queue that holds no process twice, and one process not at all, has room:
\* addQueue's write at index end is inside the array of NPROC entries.
LEMMA NoDupFits ==
  ASSUME NEW s \in Seq(Slots), NoDup(s), NEW p \in Slots, p \notin Entries(s)
  PROVE  Len(s) < NPROC
<1> DEFINE T == Slots \ {p}
<1>1. Len(s) \in Nat /\ s \in [1 .. Len(s) -> Slots]
  BY LenProperties
<1>2. IsFiniteSet(Slots) /\ Cardinality(Slots) = NPROC
  BY FS_Interval, MlfqAssumption, SMTT(30) DEF Slots
<1>3. IsFiniteSet(T) /\ Cardinality(T) = NPROC - 1
  BY <1>2, FS_RemoveElement
<1>4. s \in [1 .. Len(s) -> T]
  BY <1>1 DEF Entries
<1>5. IsFiniteSet(1 .. Len(s)) /\ Cardinality(1 .. Len(s)) = Len(s)
  BY <1>1, FS_Interval, SMTT(30)
<1>6. ~ (Cardinality(T) < Cardinality(1 .. Len(s)))
  BY <1>3, <1>4, <1>5, FS_PigeonHole, SMTT(30) DEF NoDup
<1> QED BY <1>1, <1>3, <1>5, <1>6, MlfqAssumption, SMTT(30)

\* The queue helpers keep every law the proofs about the scheduler rely on.
THEOREM HelpersKeepLaws == QueueLaws
<1>1. ReturnLaw
  BY ReturnQueueType, ReturnProcType DEF ReturnLaw
<1>2. SwapLaw
  BY SwapProperties DEF SwapLaw
<1>3. AddLaw
  BY AddProperties DEF AddLaw
<1>4. DeleteLaw
  BY DeleteProperties DEF DeleteLaw
<1>5. MoveLaw
  BY MoveProperties DEF MoveLaw
<1>6. RoomLaw
  BY NoDupFits DEF RoomLaw
<1> QED BY <1>1, <1>2, <1>3, <1>4, <1>5, <1>6 DEF QueueLaws

-----------------------------------------------------------------------------
USE DEF vars, procVars, mlfqVars, cpuVars

\* The step lemmas without their premise on the helpers of the queues, which
\* HelpersKeepLaws proves.
LEMMA NextTable == TableInv /\ [Next]_vars => TableInv'
BY TableStep, HelpersKeepLaws

LEMMA NextQueue == TableInv /\ QueueInv /\ [Next]_vars => QueueInv'
BY QueueStep, HelpersKeepLaws

\* TableInv holds in every state of every behaviour.
THEOREM TableInvariant == Spec => []TableInv
BY InitTable, NextTable, PTL DEF Spec

\* Every field of the table, the queues and the processors keeps its type:
\* in particular no loop variable of scheduler ever points past the table.
THEOREM TypeCorrect == Spec => []TypeOK
<1>1. TableInv => TypeOK
  BY DEF TableInv
<1> QED BY <1>1, TableInvariant, PTL

\* The lock that swtch hands over protects every process: no two processors
\* ever have the same one.
THEOREM MutualExclusion == Spec => []OneCpuPerProcess
<1>1. TableInv => OneCpuPerProcess
  BY DEF TableInv
<1> QED BY <1>1, TableInvariant, PTL

\* A slot taken by allocproc belongs to one fork until that fork ends.
THEOREM SlotOwnership == Spec => []EmbryoOwned
<1>1. TableInv => EmbryoOwned
  BY DEF TableInv
<1> QED BY <1>1, TableInvariant, PTL

\* The parent of every process and of every zombie is alive.
THEOREM NoOrphans == Spec => []ParentAlive
<1>1. TableInv => ParentAlive
  BY DEF TableInv
<1> QED BY <1>1, TableInvariant, PTL

\* wait, exit and kill never miss each other.
THEOREM NoLostWakeup == Spec => []WaitNotMissed
<1>1. TableInv => WaitNotMissed
  BY DEF TableInv
<1> QED BY <1>1, TableInvariant, PTL

-----------------------------------------------------------------------------
\* QueueInv holds in every state of every behaviour.
THEOREM QueueInvariant == Spec => []QueueInv
BY InitTable, NextTable, InitQueue, NextQueue, PTL DEF Spec

\* Until a slot is handed out again, q0, q1 and q2 hold every process once,
\* at the level of its priority field.
THEOREM QueuesPartitioned == Spec => []QueuesPartitionFirstLife
<1>1. QueueInv => QueuesPartitionFirstLife
  BY DEF QueueInv, QueuesPartitionFirstLife
<1> QED BY <1>1, QueueInvariant, PTL

\* Until then addQueue and deleteQueue stay inside their arrays.
THEOREM NoOverrun == Spec => []NoOverrunFirstLife
<1>1. QueueInv => NoOverrunFirstLife
  BY DEF QueueInv, NoOverrunFirstLife
<1> QED BY <1>1, QueueInvariant, PTL

\* Until then scheduler chooses a process of the highest level that can run.
THEOREM HighestFirst == Spec => []HighestPriorityFirstLife
<1>1. QueueInv => HighestPriorityFirstLife
  BY DEF QueueInv, HighestPriorityFirstLife
<1> QED BY <1>1, QueueInvariant, PTL

\* A process goes down one level when its slice is used up, and up from q2
\* to q0 when it has run BoostTicks ticks there, and moves in no other way.
THEOREM LevelsMoveByRule == Spec => LevelsFollowRule
BY InitTable, NextTable, InitQueue, NextQueue, NextLevel, PTL DEF Spec, LevelsFollowRule
=============================================================================
