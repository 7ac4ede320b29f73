----------------------------- MODULE MCStorage ------------------------------
(***************************************************************************)
(* Bio and Log for TLC, in one run: the two layers between a system call   *)
(* and the disk.  The layer a behaviour is about is chosen in the initial  *)
(* state and the other one stands still; each sees the other the way its   *)
(* own module describes it.  Processes, blocks and values are              *)
(* interchangeable in both, and the configuration gives both the same      *)
(* processes and values.                                                   *)
(***************************************************************************)
EXTENDS Log, Bio, TLC

VARIABLE layer

\* The layer that stands still holds one value everywhere.
StorageInit ==
  /\ Init /\ BioInit
  /\ \/ layer = "cache" /\ \A b \in Bufs, h \in Blocks : home[h] = data[b] /\ logged[1] = data[b]
     \/ layer = "log" /\ \A b \in Bufs, k \in DiskBlocks : disk[k] = data[b] /\ logged[1] = data[b]

StorageNext ==
  /\ \/ layer = "cache" /\ BioNext /\ UNCHANGED vars
     \/ layer = "log" /\ Next /\ UNCHANGED biovars
  /\ UNCHANGED layer

StorageSpec == StorageInit /\ [][StorageNext]_<<vars, biovars, layer>>

Sym == Permutations(Procs) \cup Permutations(Blocks) \cup Permutations(Values)
         \cup Permutations(DiskBlocks)
=============================================================================
