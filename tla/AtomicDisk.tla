----------------------------- MODULE AtomicDisk -----------------------------
(***************************************************************************)
(* What the log of log.c promises: a disk on which the writes of file      *)
(* system operations appear together or not at all.                        *)
(*                                                                         *)
(* mem is what the operations read and write.  disk is what the next boot  *)
(* will find.  It becomes mem only while no operation is active, so it     *)
(* never holds a part of an operation.                                     *)
(***************************************************************************)
CONSTANTS Procs, Blocks, Values

VARIABLES disk, mem, active

vars == <<disk, mem, active>>

Init ==
  /\ disk \in [Blocks -> Values]
  /\ mem = disk
  /\ active = {}

Begin(p) ==
  /\ p \notin active
  /\ active' = active \cup {p}
  /\ UNCHANGED <<disk, mem>>

Write(p, b, v) ==
  /\ p \in active
  /\ mem' = [mem EXCEPT ![b] = v]
  /\ UNCHANGED <<disk, active>>

End(p) ==
  /\ p \in active
  /\ active' = active \ {p}
  /\ UNCHANGED <<disk, mem>>

Commit ==
  /\ active = {}
  /\ disk' = mem
  /\ UNCHANGED <<mem, active>>

Crash ==
  /\ mem' = disk
  /\ active' = {}
  /\ UNCHANGED disk

Next ==
  \/ \E p \in Procs : Begin(p) \/ End(p)
  \/ \E p \in Procs, b \in Blocks, v \in Values : Write(p, b, v)
  \/ Commit
  \/ Crash

Spec == Init /\ [][Next]_vars

=============================================================================
