------------------------------- MODULE MCProc -------------------------------
(***************************************************************************)
(* Instances of Proc for TLC.  The slices 1, 2, 8 of the kernel become     *)
(* 1, 2, 2: levels whose slice is longer than a tick remain.               *)
(***************************************************************************)
EXTENDS Proc

MCSlice  == [l \in 0..2 |-> IF l = 0 THEN 1 ELSE 2]

MCChans     == {TicksChan, IoChan}
MCIoOnly    == {IoChan}
MCTicksOnly == {TicksChan}

=============================================================================
