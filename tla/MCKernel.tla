------------------------------ MODULE MCKernel ------------------------------
(***************************************************************************)
(* Parts of the kernel that share no state with one another, checked side  *)
(* by side: the first step decides which of them runs, and the others stay *)
(* as they were at the start.                                              *)
(***************************************************************************)
EXTENDS Vm, Console, Spinlock, Stats, TLC

CONSTANT Parts
VARIABLE part

KernelInit == VmInit /\ ConsoleInit /\ SpinInit /\ StatInit /\ part \in Parts

KernelNext ==
  /\ \/ part = "memory" /\ VmNext /\ UNCHANGED <<convars, spinvars, statvars>>
     \/ part = "console" /\ ConsoleNext /\ UNCHANGED <<vmvars, spinvars, statvars>>
     \/ part = "locks" /\ SpinNext /\ UNCHANGED <<vmvars, convars, statvars>>
     \/ part = "run time" /\ StatNext /\ UNCHANGED <<vmvars, convars, spinvars>>
  /\ UNCHANGED part

KernelSpec ==
  KernelInit /\ [][KernelNext]_<<part, vmvars, convars, spinvars, statvars>>

-----------------------------------------------------------------------------
(* Programs of one page; of two segments, the second unaligned or cut      *)
(* short; without a header; with a segment that ends past the largest      *)
(* address, or that is longer in the file; with too many arguments, or     *)
(* more than the stack holds.                                              *)
Seg(vaddr, memsz, filesz, whole) ==
  [vaddr |-> vaddr, memsz |-> memsz, filesz |-> filesz, whole |-> whole]
Program(segs, argv) == [elf |-> segs # <<>>, segs |-> segs, argv |-> argv]
Text == Seg(0, 6, 5, TRUE)
MCPrograms ==
  {Program(<<>>, <<1>>), Program(<<Text>>, <<1>>), Program(<<Text>>, <<1, 1>>),
   Program(<<Text>>, <<4>>), Program(<<Seg(0, 2, 5, TRUE)>>, <<1>>)}
    \union {Program(<<Text, s>>, <<1>>) :
              s \in {Seg(8, 8, 3, TRUE), Seg(8, 8, 3, FALSE), Seg(12, 4, 3, TRUE), Seg(88, 20, 0, TRUE)}}
MCIncrements == {12, -12}

\* Paths through the locks of the kernel, and those of getpinfo.
MCCalls == {LockedSleep("cons"), Locked("cons"), Yield}
MCHandlers == {LockedWakeup("cons"), LockedWakeup("ticks")}
InfoCalls == {Getpinfo, Locked("cons")}

MCSlices == (0 :> 1) @@ (1 :> 1) @@ (2 :> 2)
=============================================================================
