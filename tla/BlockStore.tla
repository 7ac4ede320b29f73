----------------------------- MODULE BlockStore -----------------------------
(***************************************************************************)
(* What the block layer of the kernel promises to the code above it: every *)
(* disk block is a register with an owner.  bread gives a process the      *)
(* block and its contents, only the owner changes them, brelse gives the   *)
(* block back.  Buffers, their recycling and the disk do not appear.       *)
(***************************************************************************)
CONSTANTS Procs, Blocks, Values, NoProc

VARIABLES
  owner,  \* block -> the process between bread and brelse, or NoProc
  store   \* block -> its contents

storeVars == <<owner, store>>

StoreInit ==
  /\ owner = [k \in Blocks |-> NoProc]
  /\ store \in [Blocks -> Values]

Own(p, k) ==
  /\ owner[k] = NoProc
  /\ owner' = [owner EXCEPT ![k] = p]
  /\ UNCHANGED store

Modify(p, k, v) ==
  /\ owner[k] = p
  /\ store' = [store EXCEPT ![k] = v]
  /\ UNCHANGED owner

Disown(p, k) ==
  /\ owner[k] = p
  /\ owner' = [owner EXCEPT ![k] = NoProc]
  /\ UNCHANGED store

StoreNext ==
  \E p \in Procs, k \in Blocks :
    \/ Own(p, k)
    \/ Disown(p, k)
    \/ \E v \in Values : Modify(p, k, v)

StoreSpec == StoreInit /\ [][StoreNext]_storeVars
=============================================================================
