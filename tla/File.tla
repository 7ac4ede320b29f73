-------------------------------- MODULE File --------------------------------
(***************************************************************************)
(* Open files: the global table ftable (file.c), the descriptors of every  *)
(* process (sysfile.c, fork and exit in proc.c) and pipes (pipe.c).        *)
(*                                                                         *)
(* An action is one critical section of ftable.lock or of a pipe's lock,   *)
(* with the private work next to it.  A process has one thread, so nobody  *)
(* else touches its descriptors, nor a file that only it can reach; the    *)
(* table, the pipes and the references to inodes are shared.  A call that  *)
(* fails before it has changed anything is no step.                        *)
(***************************************************************************)
EXTENDS Pipe, FiniteSets

CONSTANTS
  Procs, InitProc, NFILE, NOFILE,
  Pages,    \* the pages kalloc has for pipes
  Sizes,    \* how many bytes a call reads or writes
  NoPage

ASSUME FileAssumption ==
  /\ IsFiniteSet(Procs) /\ InitProc \in Procs /\ NoProc \notin Procs /\ NoPage \notin Pages
  /\ NFILE \in Nat /\ NOFILE \in Nat /\ Sizes \subseteq Nat

VARIABLES
  ref,      \* ftable.file[f].ref
  file,     \* the rest of ftable.file[f]; a pipe's file is readable or writable
  page,     \* Pages -> the struct pipe in it
  ilinks,   \* references the file table holds on the inode it has open
  ofile,    \* proc -> place -> file, 0 for none
  np,       \* the child fork makes
  pc, killed,
  ff,       \* the copy fileclose makes of the file it frees; the file of a read or write
  left      \* bytes still to transfer

files == <<ref, file>>
vars == <<ref, file, page, ilinks, ofile, np, pc, killed, ff, left>>

FileIds == 1..NFILE
Fds == 0..(NOFILE - 1)

\* Where a process keeps a file: p->ofile, and the local variables of
\* sys_pipe, of which sys_open uses the first.
rf == NOFILE
wf == NOFILE + 1
Places == 0..(NOFILE + 1)

NoFile == [type |-> "NONE", pipe |-> NoPage, writable |-> FALSE]
InodeFile == [type |-> "INODE", pipe |-> NoPage, writable |-> FALSE]
PipeEnd(g, w) == [type |-> "PIPE", pipe |-> g, writable |-> w]

Init ==
  /\ ref = [f \in FileIds |-> 0]
  /\ file = [f \in FileIds |-> NoFile]
  /\ page = [g \in Pages |-> FreePage]
  /\ ilinks = 0
  /\ ofile = [p \in Procs |-> [i \in Places |-> 0]]
  /\ np = [p \in Procs |-> NoProc]
  /\ pc = [p \in Procs |-> IF p = InitProc THEN "run" ELSE "unused"]
  /\ killed = [p \in Procs |-> FALSE]
  /\ ff = [p \in Procs |-> NoFile]
  /\ left = [p \in Procs |-> 0]

-----------------------------------------------------------------------------
(***************************************************************************)
(* The table and the descriptors.                                          *)
(***************************************************************************)

\* filealloc and fdalloc take the first free entry.
First(x, S) == x \in S /\ \A y \in S : x <= y
FreeFiles == {f \in FileIds : ref[f] = 0}
FreeFds(p) == {fd \in Fds : ofile[p][fd] = 0}

\* A killed process makes no more system calls (trap), it exits.
Calls(p) == pc[p] = "run" /\ ~killed[p]

\* filealloc, for place i.
Filealloc(p, i, f) ==
  /\ First(f, FreeFiles)
  /\ ref' = [ref EXCEPT ![f] = 1]
  /\ ofile' = [ofile EXCEPT ![p][i] = f]

\* sys_open of an inode to which namei has taken a reference.  Without a
\* descriptor that reference is given back, and the file is closed while it
\* has no type.
SysOpen(p) ==
  /\ Calls(p)
  /\ \E f \in FileIds :
       \/ /\ \E fd \in Fds : First(fd, FreeFds(p)) /\ Filealloc(p, fd, f)
          /\ file' = [file EXCEPT ![f] = InodeFile]
          /\ ilinks' = ilinks + 1
          /\ UNCHANGED pc
       \/ /\ FreeFds(p) = {} /\ Filealloc(p, rf, f)
          /\ pc' = [pc EXCEPT ![p] = "close"]
          /\ UNCHANGED <<file, ilinks>>
  /\ UNCHANGED <<page, np, killed, ff, left>>

\* A copy of a file that is not counted.
FiledupNot(f) == ref

filedup(f) == [ref EXCEPT ![f] = @ + 1]

SysDup(p, fd) ==
  /\ Calls(p) /\ ofile[p][fd] # 0
  /\ \E to \in Fds :
       /\ First(to, FreeFds(p))
       /\ ofile' = [ofile EXCEPT ![p][to] = ofile[p][fd]]
  /\ ref' = filedup(ofile[p][fd])
  /\ UNCHANGED <<file, page, ilinks, np, pc, killed, ff, left>>

\* fork duplicates the descriptors one after the other.
Fork(p, child) ==
  /\ Calls(p) /\ pc[child] = "unused"
  /\ np' = [np EXCEPT ![p] = child]
  /\ pc' = [pc EXCEPT ![p] = "fork", ![child] = "embryo"]
  /\ UNCHANGED <<files, page, ilinks, ofile, killed, ff, left>>

Uncopied(p) == {fd \in Fds : ofile[np[p]][fd] # ofile[p][fd]}

ForkDup(p) ==
  /\ pc[p] = "fork"
  /\ \E fd \in Fds :
       /\ First(fd, Uncopied(p))
       /\ ref' = filedup(ofile[p][fd])
       /\ ofile' = [ofile EXCEPT ![np[p]][fd] = ofile[p][fd]]
  /\ UNCHANGED <<file, page, ilinks, np, pc, killed, ff, left>>

ForkDone(p) ==
  /\ pc[p] = "fork" /\ Uncopied(p) = {}
  /\ pc' = [pc EXCEPT ![p] = "run", ![np[p]] = "run"]
  /\ np' = [np EXCEPT ![p] = NoProc]
  /\ UNCHANGED <<files, page, ilinks, ofile, killed, ff, left>>

\* exit closes the descriptors in order.
Exit(p) ==
  /\ pc[p] = "run" /\ p # InitProc
  /\ pc' = [pc EXCEPT ![p] = "exit"]
  /\ UNCHANGED <<files, page, ilinks, ofile, np, killed, ff, left>>

\* The slot of a finished process is free for the next fork (wait).
Reap(p) ==
  /\ pc[p] = "dead"
  /\ pc' = [pc EXCEPT ![p] = "unused"]
  /\ killed' = [killed EXCEPT ![p] = FALSE]
  /\ UNCHANGED <<files, page, ilinks, ofile, np, ff, left>>

-----------------------------------------------------------------------------
(***************************************************************************)
(* fileclose.                                                              *)
(***************************************************************************)

\* Under ftable.lock, for the file in place i: drop the reference, and copy
\* and free the entry if it was the last.  (The next owner of the entry may
\* close it before it has a type; of the other fields nothing is read then.)
Fileclose(p, i) ==
  LET f == ofile[p][i] IN
  /\ f # 0
  /\ ref' = [ref EXCEPT ![f] = @ - 1]
  /\ ofile' = [ofile EXCEPT ![p][i] = 0]
  /\ IF ref[f] > 1 THEN UNCHANGED <<file, ff>>
     ELSE /\ ff' = [ff EXCEPT ![p] = file[f]]
          /\ file' = [file EXCEPT ![f] = NoFile]

SysClose(p, fd) ==
  /\ Calls(p) /\ Fileclose(p, fd)
  /\ pc' = [pc EXCEPT ![p] = "close"]
  /\ UNCHANGED <<page, ilinks, np, killed, left>>

\* What a failed call, or exit, still has to close.
ToClose(p) ==
  {i \in Places : ofile[p][i] # 0 /\ (i \in Fds <=> pc[p] = "exit")}

CloseNext(p) ==
  /\ pc[p] \in {"close", "exit"} /\ ff[p] = NoFile
  /\ \E i \in Places : First(i, ToClose(p)) /\ Fileclose(p, i)
  /\ UNCHANGED <<page, ilinks, np, pc, killed, left>>

\* All is closed: the call returns, or the process is a zombie.
CloseReturns(p) ==
  /\ pc[p] \in {"close", "exit"} /\ ff[p] = NoFile /\ ToClose(p) = {}
  /\ pc' = [pc EXCEPT ![p] = IF @ = "exit" THEN "dead" ELSE "run"]
  /\ UNCHANGED <<files, page, ilinks, ofile, np, killed, ff, left>>

\* wakeup on a channel of the pipe in g.
Wake(g, from, to) ==
  [q \in Procs |-> IF pc[q] = from /\ ff[q].pipe = g THEN to ELSE pc[q]]

\* Closing an end without telling the other one.
WakeNone(g, w) == pc

\* pipeclose wakes the sleepers of the other end.
WakeOther(g, w) ==
  IF w THEN Wake(g, "readsleep", "read") ELSE Wake(g, "writesleep", "write")

\* A pipe freed when one of its ends is closed.
FreedWithOneEnd(x, w) == FreePage

\* pipeclose of pipe x: one end is closed, and the page freed with the second.
pipeclose(x, w) ==
  IF w THEN IF x.readopen THEN [x EXCEPT !.writeopen = FALSE] ELSE FreePage
  ELSE IF x.writeopen THEN [x EXCEPT !.readopen = FALSE] ELSE FreePage

\* pipeclose, or the iput of the inode, on the copy.
FilecloseLast(p) ==
  /\ pc[p] \in {"close", "exit"}
  /\ LET g == ff[p].pipe IN
     \/ /\ ff[p].type = "INODE"
        /\ ilinks' = ilinks - 1
        /\ UNCHANGED <<page, pc>>
     \/ /\ ff[p].type = "PIPE" /\ page[g].lock = NoProc
        /\ page' = [page EXCEPT ![g] = pipeclose(@, ff[p].writable)]
        /\ pc' = WakeOther(g, ff[p].writable)
        /\ UNCHANGED ilinks
  /\ ff' = [ff EXCEPT ![p] = NoFile]
  /\ UNCHANGED <<files, ofile, np, killed, left>>

-----------------------------------------------------------------------------
(***************************************************************************)
(* sys_pipe.                                                               *)
(***************************************************************************)

\* The two filealloc of pipealloc; a failure closes what was allocated.
SysPipe(p) ==
  /\ Calls(p)
  /\ \E f \in FileIds : Filealloc(p, rf, f)
  /\ pc' = [pc EXCEPT ![p] = "pipe1"]
  /\ UNCHANGED <<file, page, ilinks, np, killed, ff, left>>

PipeFile(p) ==
  /\ pc[p] = "pipe1"
  /\ \/ /\ \E f \in FileIds : Filealloc(p, wf, f)
        /\ pc' = [pc EXCEPT ![p] = "pipe2"]
     \/ /\ FreeFiles = {}
        /\ pc' = [pc EXCEPT ![p] = "close"]
        /\ UNCHANGED <<ref, ofile>>
  /\ UNCHANGED <<file, page, ilinks, np, killed, ff, left>>

\* The two fdalloc: both descriptors, or neither.
PipeFds(p) ==
  \/ /\ \E fd0, fd1 \in Fds :
          /\ First(fd0, FreeFds(p)) /\ First(fd1, FreeFds(p) \ {fd0})
          /\ ofile' = [ofile EXCEPT ![p] = [@ EXCEPT ![fd0] = ofile[p][rf], ![fd1] = ofile[p][wf],
                                                     ![rf] = 0, ![wf] = 0]]
     /\ pc' = [pc EXCEPT ![p] = "run"]
  \/ /\ \A i, j \in FreeFds(p) : i = j
     /\ pc' = [pc EXCEPT ![p] = "close"]
     /\ UNCHANGED ofile

\* The page, the two ends and the two descriptors.
PipeAlloc(p) ==
  /\ pc[p] = "pipe2"
  /\ \/ /\ \A g \in Pages : page[g].used
        /\ pc' = [pc EXCEPT ![p] = "close"]
        /\ UNCHANGED <<file, page, ofile>>
     \/ \E g \in Pages :
          /\ ~page[g].used
          /\ page' = [page EXCEPT ![g] = NewPipe]
          /\ file' = [file EXCEPT ![ofile[p][rf]] = PipeEnd(g, FALSE),
                                  ![ofile[p][wf]] = PipeEnd(g, TRUE)]
          /\ PipeFds(p)
  /\ UNCHANGED <<ref, ilinks, np, killed, ff, left>>

-----------------------------------------------------------------------------
(***************************************************************************)
(* Reading and writing a pipe.                                             *)
(***************************************************************************)

\* sys_read, sys_write on descriptor fd: argfd, then the end of the pipe.
SysReadWrite(p, fd, n) ==
  /\ Calls(p)
  /\ LET f == ofile[p][fd] IN
       /\ f # 0 /\ file[f].type = "PIPE"
       /\ pc' = [pc EXCEPT ![p] = IF file[f].writable THEN "write" ELSE "read"]
       /\ ff' = [ff EXCEPT ![p] = file[f]]
  /\ left' = [left EXCEPT ![p] = n]
  /\ UNCHANGED <<files, page, ilinks, ofile, np, killed>>

\* The end of piperead or pipewrite.
PipeReturn(p, pcs) ==
  /\ pc' = [pcs EXCEPT ![p] = "run"]
  /\ ff' = [ff EXCEPT ![p] = NoFile]
  /\ left' = [left EXCEPT ![p] = 0]

\* Sleeping on the pipe: the decision is taken with the pipe's lock held, and
\* sleep gives the lock back once the process is asleep.
PreSleep(p, g, x, pcs, state) ==
  /\ page' = [page EXCEPT ![g] = [x EXCEPT !.lock = p]]
  /\ pc' = [pcs EXCEPT ![p] = state]
  /\ UNCHANGED ff

PipeSleep(p) ==
  /\ pc[p] \in {"readwait", "writewait"}
  /\ page' = [page EXCEPT ![ff[p].pipe].lock = NoProc]
  /\ pc' = [pc EXCEPT ![p] = IF @ = "readwait" THEN "readsleep" ELSE "writesleep"]
  /\ UNCHANGED <<files, ilinks, ofile, np, killed, ff, left>>

Lesser(m, n) == IF m < n THEN m ELSE n

\* pipewrite: all that fits; then return, fail, or wake the readers and sleep.
Pipewrite(p) ==
  LET g == ff[p].pipe  x == page[g]  k == Lesser(left[p], Room(x))
      woken == Wake(g, "readsleep", "read") IN
  /\ pc[p] = "write" /\ x.lock = NoProc
  /\ \E s \in [1..k -> Bytes] :
       \/ /\ k = left[p]
          /\ page' = [page EXCEPT ![g] = Put(x, s)]
          /\ PipeReturn(p, woken)
       \/ /\ k < left[p] /\ (~x.readopen \/ killed[p])
          /\ page' = [page EXCEPT ![g] = Put(x, s)]
          /\ PipeReturn(p, pc)
       \/ /\ k < left[p] /\ x.readopen /\ ~killed[p]
          /\ PreSleep(p, g, Put(x, s), woken, "writewait")
          /\ left' = [left EXCEPT ![p] = @ - k]
  /\ UNCHANGED <<files, ilinks, ofile, np, killed>>

\* piperead: sleep while the pipe is empty and somebody can still write.
Piperead(p) ==
  LET g == ff[p].pipe  x == page[g]  k == Lesser(left[p], Count(x)) IN
  /\ pc[p] = "read" /\ x.lock = NoProc
  /\ \/ /\ Empty(x) /\ x.writeopen /\ killed[p]
        /\ PipeReturn(p, pc)
        /\ UNCHANGED page
     \/ /\ Empty(x) /\ x.writeopen /\ ~killed[p]
        /\ PreSleep(p, g, x, pc, "readwait")
        /\ UNCHANGED left
     \/ /\ ~(Empty(x) /\ x.writeopen)
        /\ page' = [page EXCEPT ![g].nread = (@ + k) % Width]
        /\ PipeReturn(p, Wake(g, "writesleep", "write"))
  /\ UNCHANGED <<files, ilinks, ofile, np, killed>>

\* kill: the flag, and the sleeper made runnable.
Kill(p) ==
  /\ p # InitProc /\ pc[p] \notin {"unused", "dead"} /\ ~killed[p]
  /\ killed' = [killed EXCEPT ![p] = TRUE]
  /\ pc' = [pc EXCEPT ![p] = CASE @ = "readsleep" -> "read"
                               [] @ = "writesleep" -> "write"
                               [] OTHER -> @]
  /\ UNCHANGED <<files, page, ilinks, ofile, np, ff, left>>

Step(p) ==
  \/ SysOpen(p) \/ SysPipe(p) \/ PipeFile(p) \/ PipeAlloc(p)
  \/ \E fd \in Fds : SysDup(p, fd) \/ SysClose(p, fd)
  \/ \E fd \in Fds, n \in Sizes : SysReadWrite(p, fd, n)
  \/ \E child \in Procs : Fork(p, child)
  \/ ForkDup(p) \/ ForkDone(p)
  \/ CloseNext(p) \/ CloseReturns(p) \/ FilecloseLast(p)
  \/ PipeSleep(p) \/ Pipewrite(p) \/ Piperead(p)

Next == \E p \in Procs : Step(p) \/ Exit(p) \/ Reap(p) \/ Kill(p)

Spec == Init /\ [][Next]_vars

-----------------------------------------------------------------------------
Reading == {"read", "readwait", "readsleep"}
Writing == {"write", "writewait", "writesleep"}
Closing == {"close", "exit"}
Paths == Reading \cup Writing \cup Closing \cup {"unused", "embryo", "run", "fork", "pipe1", "pipe2", "dead"}
PipeEnds == {PipeEnd(g, w) : g \in Pages, w \in BOOLEAN}
OpenFiles == {NoFile, InodeFile} \cup PipeEnds
Pipes ==
  {x \in [used : BOOLEAN, lock : Procs \cup {NoProc}, readopen : BOOLEAN, writeopen : BOOLEAN,
          nread : 0..(Width - 1), nwrite : 0..(Width - 1), data : [0..(PIPESIZE - 1) -> Bytes]] :
     Count(x) <= PIPESIZE}

TypeOK ==
  /\ ref \in [FileIds -> Nat] /\ file \in [FileIds -> OpenFiles]
  /\ page \in [Pages -> Pipes]
  /\ ilinks \in Nat
  /\ ofile \in [Procs -> [Places -> FileIds \cup {0}]]
  /\ np \in [Procs -> Procs \cup {NoProc}]
  /\ pc \in [Procs -> Paths]
  /\ killed \in [Procs -> BOOLEAN] /\ ff \in [Procs -> OpenFiles] /\ left \in [Procs -> Nat]

\* The references to file f: the descriptors and, inside a call, the local
\* variables of all processes.
References(f) == {h \in Procs \X Places : ofile[h[1]][h[2]] = f}
InodeFiles == {f \in FileIds : file[f] = InodeFile}
InodeClosers == {p \in Procs : ff[p] = InodeFile}
Counted == \A f \in FileIds : ref[f] = Cardinality(References(f))
InodesCounted == ilinks = Cardinality(InodeFiles) + Cardinality(InodeClosers)
EndOpen(g, w) == IF w THEN page[g].writeopen ELSE page[g].readopen

\* The reference count of every file is the number of references there are,
\* through every failure of pipe and open and every interleaving of fork,
\* dup, close and exit; the same for the references to the inode.
RefsCounted == TypeOK /\ Counted /\ InodesCounted

\* An end of a pipe is open exactly while a file, or the close of one that is
\* under way, stands for it: no end is closed twice or forgotten, and a pipe
\* is freed once (pipeclose).  A process inside piperead or pipewrite works on
\* a pipe that exists, with its own end open, although the file was looked up
\* before it slept (argfd).
EndsMatchFiles ==
  /\ \A g \in Pages, w \in BOOLEAN :
       EndOpen(g, w) <=>
         \/ \E f \in FileIds : file[f] = PipeEnd(g, w)
         \/ \E p \in Procs : pc[p] \in Closing /\ ff[p] = PipeEnd(g, w)
  /\ \A p \in Procs : pc[p] \in Reading \cup Writing => EndOpen(ff[p].pipe, ff[p].writable)

\* Nobody sleeps for an end that is gone, or for room that is there.
PipeSleepersBlocked ==
  \A p \in Procs : LET x == page[ff[p].pipe] IN
    /\ pc[p] = "readsleep" => x.writeopen
    /\ pc[p] = "writesleep" => Full(x) /\ x.readopen

-----------------------------------------------------------------------------
(***************************************************************************)
(* The inductive invariant.                                                *)
(***************************************************************************)

\* A file in a local variable is known to its process only, and has no type
\* before pipealloc has its page.
Locals ==
  \A p \in Procs :
    /\ ofile[p][rf] # 0 => pc[p] \in {"pipe1", "pipe2", "close"}
    /\ ofile[p][wf] # 0 => pc[p] \in {"pipe2", "close"}
    /\ \A i \in {rf, wf} : ofile[p][i] # 0 =>
         /\ ref[ofile[p][i]] = 1
         /\ pc[p] # "close" => file[ofile[p][i]] = NoFile
    /\ pc[p] = "pipe1" => ofile[p][rf] # 0
    /\ pc[p] = "pipe2" => ofile[p][rf] # 0 /\ ofile[p][wf] # 0
    /\ pc[p] \in {"unused", "dead"} => \A i \in Places : ofile[p][i] = 0

\* A child belongs to one fork, and has some of the files of its parent.
Forks ==
  \A p \in Procs : pc[p] = "fork" =>
    /\ np[p] \in Procs /\ pc[np[p]] = "embryo"
    /\ \A q \in Procs : pc[q] = "fork" /\ np[q] = np[p] => q = p
    /\ \A fd \in Fds : ofile[np[p]][fd] \in {0, ofile[p][fd]}

\* A free entry has no type.  A copy is one that is being closed, or that of
\* a file which the process has open.
Copies ==
  /\ \A f \in FileIds : ref[f] = 0 => file[f] = NoFile
  /\ \A p \in Procs :
       /\ ff[p] # NoFile => pc[p] \in Closing \cup Reading \cup Writing
       /\ pc[p] \in Reading \cup Writing =>
            /\ ff[p] \in PipeEnds /\ (ff[p].writable <=> pc[p] \in Writing)
            /\ \E fd \in Fds : ofile[p][fd] # 0 /\ file[ofile[p][fd]] = ff[p]

\* One file, or one close, stands for an end, and a page is used by an end.
Ends ==
  /\ \A g \in Pages, w \in BOOLEAN :
       EndOpen(g, w) <=>
         \/ \E f \in FileIds : file[f] = PipeEnd(g, w)
         \/ \E p \in Procs : pc[p] \in Closing /\ ff[p] = PipeEnd(g, w)
  /\ \A e \in PipeEnds :
       /\ \A f, h \in FileIds : file[f] = e /\ file[h] = e => f = h
       /\ \A p, q \in Procs : pc[p] \in Closing /\ ff[p] = e /\ pc[q] \in Closing /\ ff[q] = e => p = q
       /\ \A f \in FileIds, p \in Procs : ~(file[f] = e /\ pc[p] \in Closing /\ ff[p] = e)
  /\ \A g \in Pages : page[g].used <=> page[g].readopen \/ page[g].writeopen

\* The lock of a pipe is held exactly by a process that is about to sleep, and
\* what a sleeper has seen still holds.
Sleepers ==
  /\ \A g \in Pages : page[g].lock # NoProc =>
       pc[page[g].lock] \in {"readwait", "writewait"} /\ ff[page[g].lock].pipe = g
  /\ \A p \in Procs :
       /\ pc[p] \in {"readwait", "writewait"} => page[ff[p].pipe].lock = p
       /\ pc[p] \in {"readwait", "readsleep"} => page[ff[p].pipe].writeopen
       /\ pc[p] \in {"writewait", "writesleep"} => Full(page[ff[p].pipe]) /\ page[ff[p].pipe].readopen

FileInv == RefsCounted /\ Locals /\ Forks /\ Copies /\ Ends /\ Sleepers
=============================================================================
