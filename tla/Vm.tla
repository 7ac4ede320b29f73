--------------------------------- MODULE Vm ---------------------------------
(***************************************************************************)
(* Physical pages and address spaces: kalloc.c, vm.c, exec.c and the calls *)
(* of proc.c that take and give back memory (userinit, growproc, fork,     *)
(* exit, wait).                                                            *)
(*                                                                         *)
(* A page is as good as another, so the free list is counted: a page that  *)
(* leaks, or is freed while something still refers to it, shows in the sum.*)
(* Page tables are private to their process; all that calls on other CPUs  *)
(* can do to a call is to hold pages for a while, so a call finds only     *)
(* some number of the free pages (room), and may run out at any point.     *)
(***************************************************************************)
EXTENDS Integers, Sequences, FiniteSetsExt, SequencesExt

CONSTANTS
  Procs, InitProc,
  Memory,      \* bytes from the end of the kernel to PHYSTOP
  PGSIZE, KERNBASE,
  NPTENTRIES,  \* entries of a page table
  NKPT,        \* page tables that the kernel's own mappings (kmap) take
  MAXARG,
  ADDR,        \* unsigned int counts modulo ADDR
  Programs,    \* what exec may find in a file, and the lengths of its arguments
  Increments   \* arguments of sbrk

PGROUNDUP(a) == ((a + PGSIZE - 1) \div PGSIZE) * PGSIZE
PGROUNDDOWN(a) == (a \div PGSIZE) * PGSIZE
UserPages == 0..(KERNBASE \div PGSIZE - 1)
PDX(a) == (a \div PGSIZE) \div NPTENTRIES

ASSUME VmAssumption ==
  /\ KERNBASE % (PGSIZE * NPTENTRIES) = 0
  /\ 2 * KERNBASE <= ADDR

VARIABLES
  nfree,   \* length of kmem.freelist
  state,   \* of each process: UNUSED, ALIVE or ZOMBIE
  kstack,  \* whether p->kstack is a page
  sz, vm,  \* p->sz and p->pgdir
  last,    \* the last call: which, of which process, whether it failed
  panicked

vmvars == <<nfree, state, kstack, sz, vm, last, panicked>>

\* A page directory: the kernel's page tables, the user's page tables, and
\* the entry of each user page ("none", "user" or "guard": without PTE_U).
NoVm == [dir |-> FALSE, kpt |-> 0, upt |-> {}, pte |-> [v \in UserPages |-> "none"]]
Mapped(v) == {a \in UserPages : v.pte[a] # "none"}
Held(v) == (IF v.dir THEN 1 + v.kpt ELSE 0) + Cardinality(v.upt) + Cardinality(Mapped(v))

-----------------------------------------------------------------------------
(* Calls work on m: the free pages, a page directory, whether it panicked. *)

\* How many pages freerange puts on the list.
freerange(vstart, vend) == (vend - PGROUNDUP(vstart)) \div PGSIZE

deallocuvm(m, oldsz, newsz) ==
  LET gone == {a \in Mapped(m.vm) : PGROUNDUP(newsz) <= a * PGSIZE /\ a * PGSIZE < oldsz}
  IN IF newsz >= oldsz THEN m
     ELSE [m EXCEPT !.free = @ + Cardinality(gone),
                    !.vm.pte = [a \in UserPages |-> IF a \in gone THEN "none" ELSE @[a]]]

freevm(m) ==
  [deallocuvm(m, KERNBASE, 0)
     EXCEPT !.free = @ + Cardinality(m.vm.upt) + m.vm.kpt + 1, !.vm = NoVm]

\* setupkvm: the directory, then kmap's page tables one by one.
setupkvm(m) ==
  LET k == Min({m.free - 1, NKPT})
      d == [m EXCEPT !.free = @ - 1 - k, !.vm = [NoVm EXCEPT !.dir = TRUE, !.kpt = k]]
  IN IF m.free = 0 THEN m ELSE IF k < NKPT THEN freevm(d) ELSE d

\* kalloc and mappages of one user page: the page, then a page table if the
\* directory has none.  failed: the page (if any) is given back.
MapPage(m, a, flags) ==
  LET t == {PDX(a)} \ m.vm.upt
      need == 1 + Cardinality(t)
  IN IF m.free < need THEN [m EXCEPT !.failed = TRUE]
     ELSE [m EXCEPT !.free = @ - need, !.vm.upt = @ \union t, !.vm.pte[a \div PGSIZE] = flags,
                    !.panic = @ \/ m.vm.pte[a \div PGSIZE] # "none"]

\* allocuvm that leaves the pages it mapped when it runs out.
UndoNothing(m, newsz, oldsz) == m

\* What allocuvm does when it runs out at some page.
Undo(m, newsz, oldsz) == deallocuvm(m, newsz, oldsz)

\* allocuvm's loop, before and after the page at a.
RECURSIVE AllocPages(_, _, _, _)
AllocNext(m, a, oldsz, newsz) ==
  IF m.failed THEN [Undo(m, newsz, oldsz) EXCEPT !.sz = 0]
  ELSE AllocPages(m, a + PGSIZE, oldsz, newsz)
AllocPages(m, a, oldsz, newsz) ==
  IF a >= newsz THEN [m EXCEPT !.sz = newsz] ELSE AllocNext(MapPage(m, a, "user"), a, oldsz, newsz)

\* allocuvm: the size (0: failed) in m.sz.
allocuvm(m, oldsz, newsz) ==
  IF newsz >= KERNBASE THEN [m EXCEPT !.sz = 0]
  ELSE IF newsz < oldsz THEN [m EXCEPT !.sz = oldsz]
  ELSE AllocPages(m, PGROUNDUP(oldsz), oldsz, newsz)

\* copyuvm: v's pages below size, one by one, into a new directory.
RECURSIVE CopyPages(_, _, _, _)
CopyNext(m, v, a, size) == IF m.failed THEN freevm(m) ELSE CopyPages(m, v, a + PGSIZE, size)
CopyPages(m, v, a, size) ==
  IF a >= size THEN m
  ELSE CopyNext([MapPage(m, a, v.pte[a \div PGSIZE])
                   EXCEPT !.panic = @ \/ v.pte[a \div PGSIZE] = "none"], v, a, size)

CopyInto(d, v, size) == IF d.vm.dir THEN CopyPages(d, v, 0, size) ELSE d
copyuvm(m, v, size) == CopyInto(setupkvm(m), v, size)

-----------------------------------------------------------------------------
(* exec.  A program is whether its header is good, and its segments: where, *)
(* how large in memory and in the file, and whether the file has them all. *)

\* loaduvm of segment g, which panics at a page that is not mapped.
loaduvm(m, g) ==
  [m EXCEPT !.panic = @ \/ \E a \in UserPages \ Mapped(m.vm) :
                             g.vaddr <= a * PGSIZE /\ a * PGSIZE < g.vaddr + g.filesz,
            !.failed = ~g.whole]

RECURSIVE LoadSegments(_, _, _)
LoadNext(m, prog, i) ==
  IF m.sz = 0 \/ prog.segs[i].vaddr % PGSIZE # 0 THEN [m EXCEPT !.failed = TRUE]
  ELSE LoadSegments(loaduvm(m, prog.segs[i]), prog, i + 1)
LoadSegment(m, prog, i, g) ==
  IF g.memsz < g.filesz \/ (g.vaddr + g.memsz) % ADDR < g.vaddr THEN [m EXCEPT !.failed = TRUE]
  ELSE LoadNext(allocuvm(m, m.sz, (g.vaddr + g.memsz) % ADDR), prog, i)
LoadSegments(m, prog, i) ==
  IF i > Len(prog.segs) \/ m.failed THEN m ELSE LoadSegment(m, prog, i, prog.segs[i])

\* copyout of the bytes from sp up to the top of the stack.
copyout(m, sp, top) ==
  \A a \in UserPages : (a * PGSIZE < top /\ PGROUNDDOWN(sp) <= a * PGSIZE) => m.vm.pte[a] = "user"

\* The stack pointer after the strings of argv, and after ustack.
StackTop(size, argv) == size - FoldLeft(LAMBDA s, n : s + n + 1, 0, argv)
StackPointer(size, argv) == StackTop(size, argv) - (3 + Len(argv) + 1)

\* clearpteu
clearpteu(m, a) ==
  [m EXCEPT !.vm.pte[a \div PGSIZE] = "guard",
            !.panic = @ \/ m.vm.pte[a \div PGSIZE] = "none"]

\* exec up to its commit, stage by stage: failed (bad), or the new directory
\* and size.
bad(m) == [freevm(m) EXCEPT !.failed = TRUE]
PushArgs(m, argv) ==
  IF Len(argv) <= MAXARG /\ copyout(m, StackPointer(m.sz, argv), m.sz) THEN m ELSE bad(m)
GuardStack(m, argv) ==
  IF m.sz = 0 THEN bad(m) ELSE PushArgs(clearpteu(m, m.sz - 2 * PGSIZE), argv)
AllocStack(m, argv) ==
  IF m.failed THEN bad(m)
  ELSE GuardStack(allocuvm(m, PGROUNDUP(m.sz), PGROUNDUP(m.sz) + 2 * PGSIZE), argv)
LoadProgram(m, prog, argv) ==
  IF m.vm.dir THEN AllocStack(LoadSegments([m EXCEPT !.sz = 0], prog, 1), argv)
  ELSE [m EXCEPT !.failed = TRUE]
BuildImage(m, prog, argv) ==
  IF prog.elf THEN LoadProgram(setupkvm(m), prog, argv) ELSE [m EXCEPT !.failed = TRUE]

-----------------------------------------------------------------------------
CallWith(room, v) == [free |-> room, vm |-> v, sz |-> 0, failed |-> FALSE, panic |-> FALSE]

\* kinit, kvmalloc, then userinit: allocproc's stack, setupkvm, inituvm.
VmInit ==
  LET m0 == setupkvm(CallWith(freerange(1, Memory), NoVm))
      m1 == setupkvm([m0 EXCEPT !.free = @ - 1, !.vm = NoVm])
      m2 == MapPage(m1, 0, "user")
  IN /\ nfree = m2.free
     /\ state = [p \in Procs |-> IF p = InitProc THEN "ALIVE" ELSE "UNUSED"]
     /\ kstack = [p \in Procs |-> p = InitProc]
     /\ sz = [p \in Procs |-> IF p = InitProc THEN PGSIZE ELSE 0]
     /\ vm = [p \in Procs |-> IF p = InitProc THEN m2.vm ELSE NoVm]
     /\ last = [call |-> "boot", failed |-> FALSE]
     /\ panicked = FALSE

\* A process with no page of its own cannot run user code: it faults.
CanRun(p) == state[p] = "ALIVE" /\ \E a \in UserPages : vm[p].pte[a] = "user"

Result(p, room, m, call, failed) ==
  /\ nfree' = nfree - room + m.free
  /\ last' = [call |-> call, failed |-> failed]
  /\ panicked' = (panicked \/ m.panic)

\* sys_sbrk and growproc: a new size of 0 counts as a failure.
Grown(p, n, room, new) ==
  IF n > 0 THEN allocuvm(CallWith(room, vm[p]), sz[p], new)
  ELSE [deallocuvm(CallWith(room, vm[p]), sz[p], new) EXCEPT !.sz = Min({sz[p], new})]
Resized(p, n, room, m) ==
  /\ Result(p, room, m, IF n > 0 THEN "grow" ELSE "shrink", m.sz = 0)
  /\ vm' = [vm EXCEPT ![p] = m.vm]
  /\ sz' = [sz EXCEPT ![p] = IF m.sz = 0 THEN @ ELSE m.sz]
  /\ UNCHANGED <<state, kstack>>
Sbrk(p, n, room) ==
  CanRun(p) /\ Resized(p, n, room, Grown(p, n, room, (sz[p] + n + ADDR) % ADDR))

\* fork's error path without kfree(np->kstack).
ForkFailedKeeps(m) == m

\* fork when copyuvm fails: the stack allocproc took goes back.
ForkFailed(m) == [m EXCEPT !.free = @ + 1]

\* fork after allocproc, with the child's memory in m.
Forked(p, q, room, m) ==
  IF m.vm.dir
  THEN /\ Result(p, room, m, "fork", FALSE)
       /\ vm' = [vm EXCEPT ![q] = m.vm]
       /\ sz' = [sz EXCEPT ![q] = sz[p]]
       /\ state' = [state EXCEPT ![q] = "ALIVE"]
       /\ kstack' = [kstack EXCEPT ![q] = TRUE]
  ELSE Result(p, room, ForkFailed(m), "fork", TRUE) /\ UNCHANGED <<vm, sz, state, kstack>>

Fork(p, q, room) ==
  /\ CanRun(p) /\ state[q] = "UNUSED"
  /\ IF room = 0 THEN Result(p, room, CallWith(0, NoVm), "fork", TRUE) /\ UNCHANGED <<vm, sz, state, kstack>>
     ELSE Forked(p, q, room, copyuvm(CallWith(room - 1, NoVm), vm[p], sz[p]))

\* exec that gives up its old memory before it knows that the new one works.
CommitEarly(p, m) ==
  LET old == freevm(CallWith(0, vm[p]))
  IN IF m.failed THEN [free |-> m.free + old.free, vm |-> NoVm, sz |-> 0]
     ELSE [free |-> m.free + old.free, vm |-> m.vm, sz |-> m.sz]

\* exec's commit to the user image: the old memory is freed last.
Commit(p, m) ==
  IF m.failed THEN [free |-> m.free, vm |-> vm[p], sz |-> sz[p]]
  ELSE [free |-> m.free + freevm(CallWith(0, vm[p])).free, vm |-> m.vm, sz |-> m.sz]

Replaced(p, room, m, c) ==
  /\ Result(p, room, [m EXCEPT !.free = c.free], "exec", m.failed)
  /\ vm' = [vm EXCEPT ![p] = c.vm] /\ sz' = [sz EXCEPT ![p] = c.sz]
  /\ UNCHANGED <<state, kstack>>
ExecBuilt(p, room, m) == Replaced(p, room, m, Commit(p, m))
Exec(p, prog, room) ==
  CanRun(p) /\ ExecBuilt(p, room, BuildImage(CallWith(room, NoVm), prog, prog.argv))

\* exit, called by the process or by the trap that kills it.
Exit(p) ==
  /\ state[p] = "ALIVE" /\ p # InitProc
  /\ state' = [state EXCEPT ![p] = "ZOMBIE"]
  /\ last' = [call |-> "exit", failed |-> FALSE]
  /\ UNCHANGED <<nfree, kstack, sz, vm, panicked>>

\* wait finds the zombie q: its stack and its memory are freed.
Wait(q) ==
  LET m == freevm(CallWith(nfree + 1, vm[q]))
  IN /\ state[q] = "ZOMBIE"
     /\ nfree' = m.free
     /\ state' = [state EXCEPT ![q] = "UNUSED"] /\ kstack' = [kstack EXCEPT ![q] = FALSE]
     /\ vm' = [vm EXCEPT ![q] = NoVm]
     /\ last' = [call |-> "wait", failed |-> FALSE]
     /\ UNCHANGED <<sz, panicked>>

VmNext ==
  \/ \E p \in Procs :
       \/ \E room \in 0..nfree :
            \/ \E n \in Increments : Sbrk(p, n, room)
            \/ \E q \in Procs \ {p} : Fork(p, q, room)
            \/ \E prog \in Programs : Exec(p, prog, room)
       \/ Exit(p)
  \/ \E q \in Procs : Wait(q)

VmSpec == VmInit /\ [][VmNext]_vmvars

-----------------------------------------------------------------------------
\* Every page is on the free list, or is the kernel's page table, a stack, a
\* page table or a user page of a process: nothing leaks and nothing is freed
\* twice, also when a call runs out of memory half way.
PagesAccounted ==
  nfree + (1 + NKPT) + Cardinality({p \in Procs : kstack[p]})
     + FoldLeft(LAMBDA n, p : n + Held(vm[p]), 0, SetToSeq(Procs)) = freerange(1, Memory)

\* The pages below p->sz are mapped and the pages above are not, for every
\* process that can run, so that none of mappages' "remap", copyuvm's "page
\* not present", loaduvm's "address should exist" and clearpteu's panics is
\* reached, whatever failed before.
SizeIsMapped ==
  /\ \A p \in Procs : CanRun(p) => Mapped(vm[p]) = {a \in UserPages : a * PGSIZE < sz[p]}
  /\ ~panicked

\* An exec, a fork or a growing sbrk that fails leaves the memory of every
\* process as it was; exec and fork also leave as many free pages.
FailedCallsHarmless ==
  [][last'.failed /\ last'.call \in {"exec", "fork", "grow"} =>
       /\ sz' = sz /\ \A p \in Procs : vm'[p].pte = vm[p].pte
       /\ last'.call # "grow" => nfree' = nfree /\ vm' = vm]_vmvars
=============================================================================
