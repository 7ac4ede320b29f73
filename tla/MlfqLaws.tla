------------------------------ MODULE MlfqLaws ------------------------------
(***************************************************************************)
(* What the rest of the kernel relies on about the queue helpers of module *)
(* Mlfq.  ProcTheorems proves these laws; the proofs about Proc use them   *)
(* and nothing else about the helpers.                                     *)
(***************************************************************************)
EXTENDS Mlfq

Queues == [Levels -> Seq(Slots)]
Tables == [Slots -> States]

\* p is in the queue of level from, once, and in no other.
OnlyIn(q, p, from) ==
  /\ \A l \in Levels : NoDup(q[l])
  /\ \A l \in Levels : p \in Entries(q[l]) <=> l = from

\* r holds what q holds, except that p is in the queue of level to only.
Moved(q, r, p, to) ==
  /\ OnlyIn(r, p, to)
  /\ \A l \in Levels : \A s \in Slots \ {p} : s \in Entries(r[l]) <=> s \in Entries(q[l])

\* returnProc returns a RUNNABLE process of the queue returnQueue returns,
\* or the null pointer.
ReturnLaw ==
  \A q \in Queues, st \in Tables :
    /\ returnQueue(q, st) \in Levels
    /\ \/ returnProc(q, st) = NoProc
       \/ /\ returnProc(q, st) \in Slots
          /\ st[returnProc(q, st)] = "RUNNABLE"
          /\ returnProc(q, st) \in Entries(q[returnQueue(q, st)])

\* The swap of returnProc permutes one queue.
SwapLaw ==
  \A q \in Queues, st \in Tables :
    /\ SwapToHead(q, st) \in Queues
    /\ \A l \in Levels : /\ Entries(SwapToHead(q, st)[l]) = Entries(q[l])
                         /\ NoDup(q[l]) => NoDup(SwapToHead(q, st)[l])

\* addQueue adds the process to its queue and leaves the others alone.
AddLaw ==
  \A q \in Queues, l \in Levels, p \in Slots :
    /\ addQueue(q, l, p) \in Queues
    /\ \A m \in Levels \ {l} : addQueue(q, l, p)[m] = q[m]
    /\ Entries(addQueue(q, l, p)[l]) = Entries(q[l]) \cup {p}
    /\ NoDup(q[l]) /\ p \notin Entries(q[l]) => NoDup(addQueue(q, l, p)[l])

\* deleteQueue changes one queue, and removes the process, and no other,
\* when the queue holds it once.
DeleteLaw ==
  \A q \in Queues, l \in Levels, p \in Slots :
    /\ deleteQueue(q, l, p) \in Queues
    /\ \A m \in Levels \ {l} : deleteQueue(q, l, p)[m] = q[m]
    /\ NoDup(q[l]) => NoDup(deleteQueue(q, l, p)[l])
    /\ NoDup(q[l]) /\ p \in Entries(q[l])
         => Entries(deleteQueue(q, l, p)[l]) = Entries(q[l]) \ {p}

\* Moving a process that its queue holds once moves this entry and no other.
MoveLaw ==
  \A q \in Queues, from \in Levels, to \in Levels, p \in Slots :
    /\ Move(q, from, to, p) \in Queues
    /\ OnlyIn(q, p, from) => Moved(q, Move(q, from, to, p), p, to)

\* A queue that holds no process twice, and one process not at all, has room
\* for it in its NPROC entries.
RoomLaw ==
  \A s \in Seq(Slots), p \in Slots : NoDup(s) /\ p \notin Entries(s) => Len(s) < NPROC

QueueLaws == ReturnLaw /\ SwapLaw /\ AddLaw /\ DeleteLaw /\ MoveLaw /\ RoomLaw

=============================================================================
