-------------------------------- MODULE Mlfq --------------------------------
(***************************************************************************)
(* The three priority queues of the multi-level feedback queue scheduler   *)
(* (struct pqueue q0, q1, q2 in proc.h) and the helpers of proc.c that     *)
(* manage them, as operators over the value of the queues.                 *)
(*                                                                         *)
(* q[l] is the array queue[0 .. end-1] of level l as a sequence.  The      *)
(* fields end and numOfProc always change together and start equal, so     *)
(* both are Len(q[l]).  What the array holds at and past end is never read *)
(* before addQueue overwrites it, so it is not part of the value.          *)
(* A process is its slot of ptable.proc, a number in Slots.                *)
(***************************************************************************)
EXTENDS Integers, Sequences

CONSTANTS
  NPROC,       \* slots of ptable.proc, and entries of pqueue.queue
  Slice,       \* pqueue.ticks of the three queues (1, 2 and 8 in userinit)
  BoostTicks   \* run ticks in q2 after which boost is called (50)

ASSUME MlfqAssumption ==
  /\ NPROC \in Nat \ {0}
  /\ Slice \in [0..2 -> Nat \ {0}]
  /\ BoostTicks \in Nat

Slots  == 0 .. NPROC-1
Levels == 0 .. 2
NoProc == -1                      \* the null struct proc pointer

States == {"UNUSED", "EMBRYO", "SLEEPING", "RUNNABLE", "RUNNING", "ZOMBIE"}

Entries(s) == {s[i] : i \in 1 .. Len(s)}
NoDup(s)   == \A i, j \in 1 .. Len(s) : s[i] = s[j] => i = j

(***************************************************************************)
(* returnQueue: the first of q0, q1, q2 that holds a RUNNABLE process, and *)
(* q0 when none does.                                                      *)
(***************************************************************************)
HasRunnable(s, st) == \E i \in 1 .. Len(s) : st[s[i]] = "RUNNABLE"

returnQueue_SkipsQ1(q, st) ==
  IF HasRunnable(q[0], st) THEN 0
  ELSE IF HasRunnable(q[2], st) THEN 2
  ELSE IF HasRunnable(q[1], st) THEN 1
  ELSE 0

returnQueue(q, st) ==
  IF HasRunnable(q[0], st) THEN 0
  ELSE IF HasRunnable(q[1], st) THEN 1
  ELSE IF HasRunnable(q[2], st) THEN 2
  ELSE 0

(***************************************************************************)
(* returnProc: the first RUNNABLE entry of that queue.  As a side effect   *)
(* the entry changes places with the entry at the head; SwapToHead is the  *)
(* value the queues are left with.                                         *)
(***************************************************************************)
FirstRunnable(s, st) ==
  CHOOSE i \in 1 .. Len(s) :
    /\ st[s[i]] = "RUNNABLE"
    /\ \A j \in 1 .. i-1 : st[s[j]] # "RUNNABLE"

returnProc(q, st) ==
  LET s == q[returnQueue(q, st)] IN
  IF HasRunnable(s, st) THEN s[FirstRunnable(s, st)] ELSE NoProc

SwapToHead(q, st) ==
  LET l == returnQueue(q, st)
      s == q[l]
      i == FirstRunnable(s, st)
  IN  IF HasRunnable(s, st)
      THEN [q EXCEPT ![l] = [s EXCEPT ![1] = s[i], ![i] = s[1]]]
      ELSE q

(***************************************************************************)
(* addQueue writes at end without comparing end with the size of the       *)
(* array: AddFits says whether that write is inside it.                    *)
(***************************************************************************)
addQueue(q, l, p) == [q EXCEPT ![l] = Append(@, p)]

AddFits(q, l) == Len(q[l]) < NPROC

(***************************************************************************)
(* deleteQueue shifts the entries behind the first occurrence of p to the  *)
(* left and decrements end.  It decrements end also when p is not in the   *)
(* queue: the last entry, another process, is then dropped.  The shift     *)
(* also copies queue[end], one past the array when the queue is full, to   *)
(* the place that is free afterwards, where nothing reads it.  DeleteFits  *)
(* says whether end stays non-negative.                                    *)
(***************************************************************************)
IndexOf(s, p) ==
  IF p \in Entries(s)
  THEN CHOOSE i \in 1 .. Len(s) : s[i] = p /\ \A j \in 1 .. i-1 : s[j] # p
  ELSE Len(s) + 1

DropAt(s, i) == [j \in 1 .. Len(s)-1 |-> IF j < i THEN s[j] ELSE s[j+1]]

deleteQueue_KeepsEntry(q, l, p) == q

deleteQueue(q, l, p) ==
  [q EXCEPT ![l] = IF q[l] = <<>> THEN <<>> ELSE DropAt(q[l], IndexOf(q[l], p))]

DeleteFits(q, l) == Len(q[l]) > 0

(***************************************************************************)
(* Moving a process to the tail of another level, or of its own: degrade,  *)
(* boost, and the requeueing of a process that slept.                      *)
(***************************************************************************)
Move(q, from, to, p) == addQueue(deleteQueue(q, from, p), to, p)

MoveFits(q, from, to, p) ==
  /\ DeleteFits(q, from)
  /\ AddFits(deleteQueue(q, from, p), to)

=============================================================================
