---------------------------- MODULE FileTheorems ----------------------------
(***************************************************************************)
(* The theorems about open files and pipes of module File: FileInv is an   *)
(* inductive invariant for every number of processes, files, descriptors   *)
(* and pipes, and implies what the model is checked for.                   *)
(*                                                                         *)
(* FileLemmas has the steps that open and close.  Here come the ring of a  *)
(* pipe and the steps of read, write and kill, then the theorems.          *)
(***************************************************************************)
EXTENDS FileLemmas

\* Most leaves are first-order; a leaf that needs arithmetic, sequences or
\* large records names SMT.
USE ZenonT(30)

-----------------------------------------------------------------------------
(***************************************************************************)
(* The counters of a pipe wrap; nwrite is at most PIPESIZE ahead of nread. *)
(***************************************************************************)

\* Count and Room of a pipe add up to PIPESIZE.
LEMMA CountAndRoom ==
  ASSUME NEW r \in 0..(Width - 1), NEW w \in 0..(Width - 1),
         (w + Width - r) % Width <= PIPESIZE
  PROVE  /\ (w + Width - r) % Width = IF r <= w THEN w - r ELSE w + Width - r
         /\ (r + PIPESIZE + Width - w) % Width = PIPESIZE - ((w + Width - r) % Width)
<1> DEFINE c == w + Width - r
           m == r + PIPESIZE + Width - w
<1>1. c \in Nat /\ c < 2 * Width /\ (r <= w => c >= Width) /\ (r > w => c < Width)
  BY PipeAssumption, SMTT(30)
<1>2. m \in Nat
  BY PipeAssumption, SMTT(30)
<1>3. c % Width = IF r <= w THEN w - r ELSE c
  BY <1>1, Wraps, PipeAssumption, SMTT(30)
<1>4. CASE r <= w
  <2>1. Width <= m /\ m < 2 * Width
    BY <1>3, <1>4, PipeAssumption, SMTT(30)
  <2> QED BY <1>2, <1>3, <1>4, <2>1, Wraps, PipeAssumption, SMTT(30)
<1>5. CASE r > w
  <2>1. 2 * Width <= m /\ m < 3 * Width
    BY <1>3, <1>5, PipeAssumption, SMTT(30)
  <2> QED BY <1>2, <1>3, <1>5, <2>1, Wraps, PipeAssumption, SMTT(30)
<1> QED BY <1>3, <1>4, <1>5, PipeAssumption, SMTT(30)

\* What pipewrite's loop adds before the pipe is full.
LEMMA AddToRing ==
  ASSUME NEW r \in 0..(Width - 1), NEW w \in 0..(Width - 1), NEW k \in Nat,
         (w + Width - r) % Width <= PIPESIZE, k <= (r + PIPESIZE + Width - w) % Width
  PROVE  /\ (w + k) % Width \in 0..(Width - 1)
         /\ (((w + k) % Width) + Width - r) % Width = ((w + Width - r) % Width) + k
         /\ k = (r + PIPESIZE + Width - w) % Width => (w + k) % Width = (r + PIPESIZE) % Width
         /\ w = (r + PIPESIZE) % Width => k = 0 /\ (w + k) % Width = w
<1> DEFINE c == (w + Width - r) % Width
<1>1. /\ c = IF r <= w THEN w - r ELSE w + Width - r
      /\ k <= PIPESIZE - c /\ (r + PIPESIZE + Width - w) % Width = PIPESIZE - c
  BY CountAndRoom
<1>2. w + k \in Nat /\ w + k < 2 * Width /\ r + PIPESIZE \in Nat /\ r + PIPESIZE < 2 * Width
  BY <1>1, PipeAssumption, SMTT(30)
<1>3. (w + k) % Width = IF w + k < Width THEN w + k ELSE w + k - Width
  BY <1>2, Wraps, PipeAssumption, SMTT(30)
<1>4. (r + PIPESIZE) % Width = IF r + PIPESIZE < Width THEN r + PIPESIZE ELSE r + PIPESIZE - Width
  BY <1>2, Wraps, PipeAssumption, SMTT(30)
<1> DEFINE v == (w + k) % Width
<1>5. v \in 0..(Width - 1) /\ v + Width - r \in Nat /\ v + Width - r < 2 * Width
  BY <1>2, <1>3, PipeAssumption, SMTT(30)
<1>6. (v + Width - r) % Width = IF v + Width - r < Width THEN v + Width - r ELSE v - r
  <2> HIDE DEF v
  <2> QED BY <1>5, Wraps, PipeAssumption, SMTT(30)
<1>7. (v + Width - r) % Width = c + k
  <2> HIDE DEF v, c
  <2> QED BY <1>1, <1>3, <1>5, <1>6, PipeAssumption, SMTT(30) DEF v
<1>8. k = PIPESIZE - c => v = (r + PIPESIZE) % Width
  BY <1>1, <1>3, <1>4, PipeAssumption, SMTT(30)
<1>9. w = (r + PIPESIZE) % Width => k = 0 /\ v = w
  BY <1>1, <1>3, <1>4, PipeAssumption, SMTT(30)
<1> QED BY <1>1, <1>5, <1>7, <1>8, <1>9

\* What piperead takes.
LEMMA TakeFromRing ==
  ASSUME NEW r \in 0..(Width - 1), NEW w \in 0..(Width - 1), NEW k \in Nat,
         (w + Width - r) % Width <= PIPESIZE, k <= (w + Width - r) % Width
  PROVE  /\ (r + k) % Width \in 0..(Width - 1)
         /\ (w + Width - ((r + k) % Width)) % Width <= PIPESIZE
<1> DEFINE c == (w + Width - r) % Width
           v == (r + k) % Width
<1>1. c = IF r <= w THEN w - r ELSE w + Width - r
  BY CountAndRoom
<1>2. r + k \in Nat /\ r + k < 2 * Width
  BY <1>1, PipeAssumption, SMTT(30)
<1>3. v = IF r + k < Width THEN r + k ELSE r + k - Width
  BY <1>2, Wraps, PipeAssumption, SMTT(30)
<1>5. v \in 0..(Width - 1) /\ w + Width - v \in Nat /\ w + Width - v < 2 * Width
  BY <1>2, <1>3, PipeAssumption, SMTT(30)
<1>6. (w + Width - v) % Width = IF w + Width - v < Width THEN w + Width - v ELSE w - v
  <2> HIDE DEF v
  <2> QED BY <1>5, Wraps, PipeAssumption, SMTT(30)
<1>7. (w + Width - v) % Width <= PIPESIZE
  <2> HIDE DEF v, c
  <2> QED BY <1>1, <1>3, <1>5, <1>6, PipeAssumption, SMTT(30) DEF c
<1> QED BY <1>5, <1>7

\* A write of k bytes that fit leaves a pipe, which is full if nothing else
\* fits; nothing fits into a full pipe.
LEMMA Written ==
  ASSUME NEW x \in Pipes, NEW k \in Nat, k <= Room(x), NEW s \in [1..k -> Bytes]
  PROVE  /\ Put(x, s) \in Pipes
         /\ Put(x, s).used = x.used /\ Put(x, s).lock = x.lock
         /\ Put(x, s).readopen = x.readopen /\ Put(x, s).writeopen = x.writeopen
         /\ k = Room(x) => Full(Put(x, s))
         /\ Full(x) => Full(Put(x, s))
<1> DEFINE y == Put(x, s)
<1>1. Len(s) = k
  BY SMTT(30)
<1>2. /\ x.nread \in 0..(Width - 1) /\ x.nwrite \in 0..(Width - 1) /\ Count(x) <= PIPESIZE
      /\ x.used \in BOOLEAN /\ x.lock \in Procs \cup {NoProc} /\ x.readopen \in BOOLEAN
      /\ x.writeopen \in BOOLEAN /\ x.data \in [0..(PIPESIZE - 1) -> Bytes]
  BY SMTT(30) DEF Pipes
<1>3. /\ y.used = x.used /\ y.lock = x.lock /\ y.readopen = x.readopen /\ y.writeopen = x.writeopen
      /\ y.nread = x.nread /\ y.nwrite = (x.nwrite + k) % Width
  BY <1>1, SMTT(30) DEF Put, Pipes
<1>4. y.data \in [0..(PIPESIZE - 1) -> Bytes]
  <2> DEFINE at(i) == {j \in DOMAIN s : ((x.nwrite + j - 1) % Width) % PIPESIZE = i}
             d == [i \in DOMAIN x.data |-> IF at(i) = {} THEN x.data[i] ELSE s[CHOOSE j \in at(i) : TRUE]]
  <2>1. DOMAIN x.data = 0..(PIPESIZE - 1)
    BY <1>2
  <2>2. ASSUME NEW i \in DOMAIN x.data
        PROVE  (IF at(i) = {} THEN x.data[i] ELSE s[CHOOSE j \in at(i) : TRUE]) \in Bytes
    <3>1. at(i) # {} => (CHOOSE j \in at(i) : TRUE) \in at(i)
      <4> HIDE DEF at
      <4> QED OBVIOUS
    <3>2. at(i) \subseteq 1..k
      BY SMTT(30)
    <3> HIDE DEF at
    <3> QED BY <1>2, <2>1, <2>2, <3>1, <3>2
  <2>3. d \in [0..(PIPESIZE - 1) -> Bytes]
    <3> HIDE DEF at
    <3> QED BY <2>1, <2>2
  <2>4. y.data = d
    BY SMTT(30) DEF Put, Pipes
  <2> QED BY <2>3, <2>4
<1>5. /\ y.nwrite \in 0..(Width - 1) /\ Count(y) <= PIPESIZE
      /\ k = Room(x) => Full(y)
      /\ Full(x) => Full(y)
  <2>1. /\ y.nwrite \in 0..(Width - 1) /\ Count(y) = Count(x) + k
        /\ k = Room(x) => y.nwrite = (x.nread + PIPESIZE) % Width
        /\ x.nwrite = (x.nread + PIPESIZE) % Width => y.nwrite = x.nwrite
    BY <1>2, <1>3, AddToRing, SMTT(30) DEF Count, Room
  <2>2. Room(x) = PIPESIZE - Count(x)
    BY <1>2, CountAndRoom DEF Count, Room
  <2>3. Count(x) \in Nat
    <3>1. Count(x) = IF x.nread <= x.nwrite THEN x.nwrite - x.nread ELSE x.nwrite + Width - x.nread
      BY <1>2, CountAndRoom DEF Count
    <3> QED BY <1>2, <3>1, PipeAssumption, SMTT(30)
  <2>4. Count(y) <= PIPESIZE
    BY <2>1, <2>2, <2>3, PipeAssumption, SMTT(30)
  <2> QED BY <1>3, <2>1, <2>4 DEF Full
<1>6. y \in [used : BOOLEAN, lock : Procs \cup {NoProc}, readopen : BOOLEAN, writeopen : BOOLEAN,
             nread : 0..(Width - 1), nwrite : 0..(Width - 1), data : [0..(PIPESIZE - 1) -> Bytes]]
  <2>1. y = [x EXCEPT !.nwrite = y.nwrite, !.data = y.data]
    BY SMTT(30) DEF Put, Pipes
  <2> DEFINE I == 0..(Width - 1)  D == [0..(PIPESIZE - 1) -> Bytes]
             R == [used : BOOLEAN, lock : Procs \cup {NoProc}, readopen : BOOLEAN, writeopen : BOOLEAN,
                   nread : I, nwrite : I, data : D]
  <2>2. x \in R
    BY DEF Pipes
  <2>3. ASSUME NEW n \in I, NEW d \in D PROVE [x EXCEPT !.nwrite = n, !.data = d] \in R
    <3> HIDE DEF I, D
    <3> QED BY <2>2
  <2> HIDE DEF y
  <2> QED BY <1>4, <1>5, <2>1, <2>3
<1>7. y \in Pipes
  BY <1>5, <1>6 DEF Pipes
<1> QED BY <1>3, <1>5, <1>7

\* A read of k bytes that are there leaves a pipe.
LEMMA Taken ==
  ASSUME NEW x \in Pipes, NEW k \in Nat, k <= Count(x)
  PROVE  /\ [x EXCEPT !.nread = (@ + k) % Width] \in Pipes
         /\ Count(x) \in Nat /\ Room(x) \in Nat
<1> DEFINE v == (x.nread + k) % Width
<1>1. x.nread \in 0..(Width - 1) /\ x.nwrite \in 0..(Width - 1) /\ Count(x) <= PIPESIZE
  BY SMTT(30) DEF Pipes
<1>2. v \in 0..(Width - 1) /\ (x.nwrite + Width - v) % Width <= PIPESIZE
  BY <1>1, TakeFromRing DEF Count
<1>3. [x EXCEPT !.nread = v] \in Pipes
  <2> HIDE DEF v
  <2> QED BY <1>2, SMTT(30) DEF Pipes, Count
<1>4. Count(x) \in Nat /\ Room(x) \in Nat
  BY <1>1, CountAndRoom, PipeAssumption, SMTT(30) DEF Count, Room
<1> QED BY <1>3, <1>4

-----------------------------------------------------------------------------
(***************************************************************************)
(* Transfers.                                                              *)
(***************************************************************************)

\* What no read, write, sleep or kill can disturb.
LEMMA Transfer ==
  ASSUME FileInv, UNCHANGED <<ref, file, ilinks, ofile, np>>, page' \in [Pages -> Pipes],
         killed' \in [Procs -> BOOLEAN], left' \in [Procs -> Nat],
         pc' \in [Procs -> Paths], ff' \in [Procs -> OpenFiles],
         \A g \in Pages : page'[g].used = page[g].used,
         \A g \in Pages : page'[g].readopen = page[g].readopen,
         \A g \in Pages : page'[g].writeopen = page[g].writeopen,
         \A q \in Procs :
           \/ /\ ff'[q] = ff[q]
              /\ \/ pc'[q] = pc[q] \/ (pc[q] \in Reading /\ pc'[q] \in Reading)
                 \/ pc[q] \in Writing /\ pc'[q] \in Writing
           \/ pc[q] \in Reading \cup Writing /\ pc'[q] = "run" /\ ff'[q] = NoFile
           \/ /\ pc[q] = "run" /\ ff'[q] \in PipeEnds
              /\ pc'[q] = IF ff'[q].writable THEN "write" ELSE "read"
              /\ \E fd \in Fds : ofile[q][fd] # 0 /\ file[ofile[q][fd]] = ff'[q]
  PROVE  RefsCounted' /\ Locals' /\ Forks' /\ Copies' /\ Ends'
<1> USE DEF FileInv, RefsCounted
<1>1. TypeOK'
  BY DEF TypeOK
<1>2. /\ "run" \notin Reading /\ "run" \notin Writing /\ "run" \notin Closing
      /\ "read" \in Reading /\ "write" \in Writing /\ "read" \notin Writing
      /\ \A s \in Reading : s \notin Writing /\ s \notin Closing
      /\ \A s \in Writing : s \notin Reading /\ s \notin Closing
  BY SMTT(30) DEF Reading, Writing, Closing
<1>3. ASSUME NEW q \in Procs
      PROVE  \/ pc'[q] = pc[q]
             \/ pc[q] \in Reading \cup Writing \cup {"run"} /\ pc'[q] \in Reading \cup Writing \cup {"run"}
  <2>1. (IF ff'[q].writable THEN "write" ELSE "read") \in {"read", "write"}
    OBVIOUS
  <2> QED BY <1>2, <2>1
<1>4. Counted' /\ Locals' /\ Forks'
  <2>1. Counted'
    BY SMTT(30) DEF Counted, References
  <2>2. \A q \in Procs :
          \/ pc'[q] = pc[q]
          \/ pc[q] \in Reading \cup Writing \cup {"run"} /\ pc'[q] \in Reading \cup Writing \cup {"run"}
    BY <1>3
  <2> HIDE DEF RefsCounted
  <2>3. Locals' /\ Forks'
    BY <2>2, TransferFrame
  <2> QED BY <2>1, <2>3
<1>5. ASSUME NEW q \in Procs, pc[q] = "run" PROVE ff[q] = NoFile
  BY <1>2, <1>5, SMTT(30) DEF Copies
<1>6. ASSUME NEW q \in Procs PROVE ff'[q] = InodeFile <=> ff[q] = InodeFile
  <2>1. pc[q] \in Reading \cup Writing => ff[q] # InodeFile
    BY EndsDiffer DEF Copies
  <2> QED BY <1>5, <2>1, EndsDiffer, KindsDiffer
<1>7. InodesCounted'
  BY <1>6, InodesKept
<1>8. ASSUME NEW q \in Procs, NEW e \in PipeEnds
      PROVE  pc'[q] \in Closing /\ ff'[q] = e <=> pc[q] \in Closing /\ ff[q] = e
  <2>1. pc'[q] # pc[q] => pc[q] \notin Closing /\ pc'[q] \notin Closing
    BY <1>2, <1>3
  <2>2. ff'[q] # ff[q] => pc[q] \notin Closing
    BY <1>2
  <2> QED BY <2>1, <2>2
<1>9. Ends'
  <2>1. \A g \in Pages, w \in BOOLEAN : PipeEnd(g, w) \in PipeEnds
    BY SMTT(30) DEF PipeEnds
  <2>2. ASSUME NEW g \in Pages, NEW w \in BOOLEAN PROVE EndOpen(g, w)' <=> EndOpen(g, w)
    BY DEF EndOpen
  <2>3. ASSUME NEW g \in Pages, NEW w \in BOOLEAN
        PROVE  EndOpen(g, w)' <=>
                 \/ \E f \in FileIds : file'[f] = PipeEnd(g, w)
                 \/ \E q \in Procs : pc'[q] \in Closing /\ ff'[q] = PipeEnd(g, w)
    <3>1. EndOpen(g, w) <=>
                 \/ \E f \in FileIds : file[f] = PipeEnd(g, w)
                 \/ \E q \in Procs : pc[q] \in Closing /\ ff[q] = PipeEnd(g, w)
      BY SMTT(30) DEF Ends
    <3>2. \A q \in Procs : pc'[q] \in Closing /\ ff'[q] = PipeEnd(g, w)
                            <=> pc[q] \in Closing /\ ff[q] = PipeEnd(g, w)
      BY <1>8, <2>1
    <3> QED BY <2>2, <3>1, <3>2
  <2>4. ASSUME NEW e \in PipeEnds
        PROVE  /\ \A f, h \in FileIds : file'[f] = e /\ file'[h] = e => f = h
               /\ \A q, t \in Procs :
                    pc'[q] \in Closing /\ ff'[q] = e /\ pc'[t] \in Closing /\ ff'[t] = e => q = t
               /\ \A f \in FileIds, q \in Procs : ~(file'[f] = e /\ pc'[q] \in Closing /\ ff'[q] = e)
    <3>1. /\ \A f, h \in FileIds : file[f] = e /\ file[h] = e => f = h
          /\ \A q, t \in Procs :
               pc[q] \in Closing /\ ff[q] = e /\ pc[t] \in Closing /\ ff[t] = e => q = t
          /\ \A f \in FileIds, q \in Procs : ~(file[f] = e /\ pc[q] \in Closing /\ ff[q] = e)
      BY DEF Ends
    <3>2. \A q \in Procs : pc'[q] \in Closing /\ ff'[q] = e <=> pc[q] \in Closing /\ ff[q] = e
      BY <1>8
    <3> QED BY <3>1, <3>2, SMTT(30)
  <2>5. \A g \in Pages : page'[g].used <=> page'[g].readopen \/ page'[g].writeopen
    BY DEF Ends
  <2> QED BY <2>3, <2>4, <2>5 DEF Ends
<1>10. ASSUME NEW q \in Procs PROVE
         /\ ff'[q] # NoFile => pc'[q] \in Closing \cup Reading \cup Writing
         /\ pc'[q] \in Reading \cup Writing =>
              /\ ff'[q] \in PipeEnds /\ (ff'[q].writable <=> pc'[q] \in Writing)
              /\ \E fd \in Fds : ofile'[q][fd] # 0 /\ file'[ofile'[q][fd]] = ff'[q]
  <2>1. /\ ff[q] # NoFile => pc[q] \in Closing \cup Reading \cup Writing
        /\ pc[q] \in Reading \cup Writing =>
             /\ ff[q] \in PipeEnds /\ (ff[q].writable <=> pc[q] \in Writing)
             /\ \E fd \in Fds : ofile[q][fd] # 0 /\ file[ofile[q][fd]] = ff[q]
    BY DEF Copies
  <2>2. CASE ff'[q] = ff[q] /\ \/ pc'[q] = pc[q] \/ (pc[q] \in Reading /\ pc'[q] \in Reading)
                               \/ pc[q] \in Writing /\ pc'[q] \in Writing
    BY <1>2, <2>1, <2>2
  <2>3. CASE pc[q] \in Reading \cup Writing /\ pc'[q] = "run" /\ ff'[q] = NoFile
    BY <1>2, <2>3
  <2>4. CASE /\ pc[q] = "run" /\ ff'[q] \in PipeEnds
             /\ pc'[q] = IF ff'[q].writable THEN "write" ELSE "read"
             /\ \E fd \in Fds : ofile[q][fd] # 0 /\ file[ofile[q][fd]] = ff'[q]
    <3>1. ff'[q].writable \in BOOLEAN
      BY <2>4, EndsDiffer
    <3>2. CASE ff'[q].writable
      BY <1>2, <2>4, <3>2
    <3>3. CASE ~ff'[q].writable
      BY <1>2, <2>4, <3>3
    <3> QED BY <3>2, <3>3
  <2> QED BY <2>2, <2>3, <2>4
<1>11. Copies'
  BY <1>10 DEF Copies
<1> QED BY <1>1, <1>4, <1>7, <1>9, <1>11

\* Sleepers of pipes that do not change.
LEMMA SleepersFrame ==
  ASSUME TypeOK, Sleepers, UNCHANGED page,
         \A q \in Procs : \/ pc'[q] = pc[q] /\ ff'[q] = ff[q]
                          \/ /\ pc[q] \notin {"readwait", "writewait"}
                             /\ pc'[q] \notin {"readwait", "writewait", "readsleep", "writesleep"}
  PROVE  Sleepers'
<1>1. ASSUME NEW g \in Pages, page'[g].lock # NoProc
      PROVE  pc'[page'[g].lock] \in {"readwait", "writewait"} /\ ff'[page'[g].lock].pipe = g
  <2>1. page[g].lock \in Procs
    BY <1>1, SMTT(30) DEF TypeOK, Pipes
  <2>2. pc[page[g].lock] \in {"readwait", "writewait"} /\ ff[page[g].lock].pipe = g
    BY <1>1 DEF Sleepers
  <2> QED BY <2>1, <2>2
<1>2. ASSUME NEW q \in Procs
      PROVE  /\ pc'[q] \in {"readwait", "writewait"} => page'[ff'[q].pipe].lock = q
             /\ pc'[q] \in {"readwait", "readsleep"} => page'[ff'[q].pipe].writeopen
             /\ pc'[q] \in {"writewait", "writesleep"} =>
                  Full(page'[ff'[q].pipe]) /\ page'[ff'[q].pipe].readopen
  <2>1. CASE pc'[q] = pc[q] /\ ff'[q] = ff[q]
    BY <2>1 DEF Sleepers
  <2>2. CASE pc'[q] \notin {"readwait", "writewait", "readsleep", "writesleep"}
    BY <2>2
  <2> QED BY <2>1, <2>2
<1> QED BY <1>1, <1>2 DEF Sleepers, Full

\* sys_read and sys_write up to the pipe.
LEMMA SysReadWriteStep ==
  ASSUME FileInv, NEW p \in Procs, NEW fd \in Fds, NEW n \in Sizes, SysReadWrite(p, fd, n)
  PROVE  FileInv'
<1> USE DEF FileInv, RefsCounted
<1> DEFINE f == ofile[p][fd]
           s == IF file[f].writable THEN "write" ELSE "read"
<1>1. /\ pc[p] = "run" /\ f # 0 /\ file[f].type = "PIPE"
      /\ pc' = [pc EXCEPT ![p] = s] /\ ff' = [ff EXCEPT ![p] = file[f]] /\ left' = [left EXCEPT ![p] = n]
      /\ UNCHANGED <<ref, file, page, ilinks, ofile, np, killed>>
  BY DEF SysReadWrite, Calls, files
<1>2. f \in FileIds
  BY <1>1, PlacesAre, Held
<1>3. file[f] \in PipeEnds /\ file[f] \in OpenFiles
  <2>1. file[f] \in OpenFiles
    BY <1>2 DEF TypeOK
  <2>2. file[f] # NoFile /\ file[f] # InodeFile
    BY <1>1, KindsDiffer
  <2> QED BY <2>1, <2>2 DEF OpenFiles
<1>4. s \in {"read", "write"} /\ s \in Paths
  BY SMTT(30) DEF Paths, Reading, Writing
<1> HIDE DEF s, f
<1>5. /\ pc' \in [Procs -> Paths] /\ pc'[p] = s /\ \A q \in Procs : q # p => pc'[q] = pc[q]
      /\ ff' \in [Procs -> OpenFiles] /\ ff'[p] = file[f] /\ \A q \in Procs : q # p => ff'[q] = ff[q]
  BY <1>1, <1>3, <1>4 DEF TypeOK
<1>6. left' \in [Procs -> Nat]
  BY <1>1, FileAssumption DEF TypeOK
<1>7. ASSUME NEW q \in Procs
      PROVE  \/ /\ ff'[q] = ff[q]
                /\ \/ pc'[q] = pc[q] \/ (pc[q] \in Reading /\ pc'[q] \in Reading)
                   \/ pc[q] \in Writing /\ pc'[q] \in Writing
             \/ pc[q] \in Reading \cup Writing /\ pc'[q] = "run" /\ ff'[q] = NoFile
             \/ /\ pc[q] = "run" /\ ff'[q] \in PipeEnds
                /\ pc'[q] = IF ff'[q].writable THEN "write" ELSE "read"
                /\ \E fe \in Fds : ofile[q][fe] # 0 /\ file[ofile[q][fe]] = ff'[q]
  <2>1. CASE q = p
    BY <1>1, <1>3, <1>5, <2>1 DEF s, f
  <2>2. CASE q # p
    <3>1. ff'[q] = ff[q] /\ pc'[q] = pc[q]
      BY <1>5, <2>2
    <3> QED BY <3>1
  <2> QED BY <2>1, <2>2
<1>8. page' \in [Pages -> Pipes] /\ killed' \in [Procs -> BOOLEAN]
  BY <1>1 DEF TypeOK
<1>9. RefsCounted' /\ Locals' /\ Forks' /\ Copies' /\ Ends'
  BY <1>1, <1>5, <1>6, <1>7, <1>8, Transfer
<1>10. Sleepers'
  <2>1. ASSUME NEW q \in Procs
        PROVE  \/ pc'[q] = pc[q] /\ ff'[q] = ff[q]
               \/ /\ pc[q] \notin {"readwait", "writewait"}
                  /\ pc'[q] \notin {"readwait", "writewait", "readsleep", "writesleep"}
    BY <1>1, <1>4, <1>5, SMTT(30)
  <2> QED BY <1>1, <2>1, SleepersFrame
<1> QED BY <1>9, <1>10

\* kill, which makes a sleeper look again.
LEMMA KillStep ==
  ASSUME FileInv, NEW p \in Procs, Kill(p)
  PROVE  FileInv'
<1> USE DEF FileInv, RefsCounted
<1>1. UNCHANGED <<ref, file, page, ilinks, ofile, np, ff, left>>
  BY DEF Kill, files
<1>2. /\ pc' \in [Procs -> Paths]
      /\ \A q \in Procs : \/ pc'[q] = pc[q] \/ (pc[q] = "readsleep" /\ pc'[q] = "read")
                          \/ pc[q] = "writesleep" /\ pc'[q] = "write"
  <2> DEFINE c == CASE pc[p] = "readsleep" -> "read" [] pc[p] = "writesleep" -> "write" [] OTHER -> pc[p]
  <2>1. pc' = [pc EXCEPT ![p] = c]
    BY DEF Kill
  <2>2. \/ c = pc[p] \/ (pc[p] = "readsleep" /\ c = "read") \/ (pc[p] = "writesleep" /\ c = "write")
    BY SMTT(30)
  <2>3. c \in Paths
    BY <2>2, SMTT(30) DEF TypeOK, Paths, Reading, Writing
  <2> HIDE DEF c
  <2>4. pc' \in [Procs -> Paths] /\ pc'[p] = c /\ \A q \in Procs : q # p => pc'[q] = pc[q]
    BY <2>1, <2>3 DEF TypeOK
  <2> QED BY <2>2, <2>4
<1>3. killed' \in [Procs -> BOOLEAN]
  BY DEF Kill, TypeOK
<1>4. "readsleep" \in Reading /\ "read" \in Reading /\ "writesleep" \in Writing /\ "write" \in Writing
  BY DEF Reading, Writing
<1>5. page' \in [Pages -> Pipes] /\ left' \in [Procs -> Nat] /\ ff' \in [Procs -> OpenFiles]
  BY <1>1 DEF TypeOK
<1>6. ASSUME NEW q \in Procs
      PROVE  /\ ff'[q] = ff[q]
             /\ \/ pc'[q] = pc[q] \/ (pc[q] \in Reading /\ pc'[q] \in Reading)
                \/ pc[q] \in Writing /\ pc'[q] \in Writing
  BY <1>1, <1>2, <1>4
<1>7. RefsCounted' /\ Locals' /\ Forks' /\ Copies' /\ Ends'
  BY <1>1, <1>2, <1>3, <1>5, <1>6, Transfer
<1>8. Sleepers'
  <2>1. ASSUME NEW q \in Procs
        PROVE  \/ pc'[q] = pc[q] /\ ff'[q] = ff[q]
               \/ /\ pc[q] \notin {"readwait", "writewait"}
                  /\ pc'[q] \notin {"readwait", "writewait", "readsleep", "writesleep"}
    BY <1>1, <1>2, SMTT(30)
  <2> QED BY <1>1, <2>1, SleepersFrame
<1> QED BY <1>7, <1>8

\* sleep gives the lock back.
LEMMA PipeSleepStep ==
  ASSUME FileInv, NEW p \in Procs, PipeSleep(p)
  PROVE  FileInv'
<1> USE DEF FileInv, RefsCounted
<1> DEFINE g == ff[p].pipe
           y == [page[g] EXCEPT !.lock = NoProc]
           s == IF pc[p] = "readwait" THEN "readsleep" ELSE "writesleep"
<1>1. /\ pc[p] \in {"readwait", "writewait"} /\ page' = [page EXCEPT ![g] = y]
      /\ pc' = [pc EXCEPT ![p] = s] /\ UNCHANGED <<ref, file, ilinks, ofile, np, killed, ff, left>>
  BY DEF PipeSleep, files
<1>2. pc[p] \in Reading \cup Writing
  BY <1>1, SMTT(30) DEF Reading, Writing
<1>3. g \in Pages /\ page[g] \in Pipes
  <2>1. g \in Pages
    BY <1>2, EndsDiffer DEF Copies
  <2> QED BY <2>1 DEF TypeOK
<1>4. /\ y \in Pipes /\ y.used = page[g].used /\ y.lock = NoProc /\ y.readopen = page[g].readopen
      /\ y.writeopen = page[g].writeopen /\ (Full(y) <=> Full(page[g]))
  BY <1>3, LockSet
<1>5. /\ pc[p] = "readwait" => s = "readsleep"
      /\ pc[p] = "writewait" => s = "writesleep"
      /\ s \in Paths
  BY SMTT(30) DEF Paths, Reading, Writing
<1> HIDE DEF g, y, s
<1>6. /\ page' \in [Pages -> Pipes] /\ page'[g] = y /\ \A h \in Pages : h # g => page'[h] = page[h]
      /\ pc' \in [Procs -> Paths] /\ pc'[p] = s /\ \A q \in Procs : q # p => pc'[q] = pc[q]
  BY <1>1, <1>3, <1>4, <1>5 DEF TypeOK
<1>7. /\ "readwait" \in Reading /\ "readsleep" \in Reading
      /\ "writewait" \in Writing /\ "writesleep" \in Writing
  BY DEF Reading, Writing
<1>8. ASSUME NEW q \in Procs
      PROVE  /\ ff'[q] = ff[q]
             /\ \/ pc'[q] = pc[q] \/ (pc[q] \in Reading /\ pc'[q] \in Reading)
                \/ pc[q] \in Writing /\ pc'[q] \in Writing
  <2>1. CASE q = p
    BY <1>1, <1>5, <1>6, <1>7, <2>1
  <2>2. CASE q # p
    BY <1>1, <1>6, <2>2
  <2> QED BY <2>1, <2>2
<1>9. ASSUME NEW h \in Pages
      PROVE  /\ page'[h].used = page[h].used /\ page'[h].readopen = page[h].readopen
             /\ page'[h].writeopen = page[h].writeopen /\ (Full(page'[h]) <=> Full(page[h]))
  BY <1>4, <1>6
<1>10. left' \in [Procs -> Nat] /\ killed' \in [Procs -> BOOLEAN] /\ ff' \in [Procs -> OpenFiles]
  BY <1>1 DEF TypeOK
<1>11. RefsCounted' /\ Locals' /\ Forks' /\ Copies' /\ Ends'
  BY <1>1, <1>6, <1>8, <1>9, <1>10, Transfer
<1>12. Sleepers'
  <2>1. ASSUME NEW h \in Pages, page'[h].lock # NoProc
        PROVE  pc'[page'[h].lock] \in {"readwait", "writewait"} /\ ff'[page'[h].lock].pipe = h
    <3>1. h # g /\ page'[h] = page[h]
      BY <1>4, <1>6, <2>1
    <3>2. pc[page[h].lock] \in {"readwait", "writewait"} /\ ff[page[h].lock].pipe = h
      BY <2>1, <3>1 DEF Sleepers
    <3>3. page[h].lock \in Procs /\ page[h].lock # p
      <4>1. page[h].lock \in Procs
        BY <2>1, <3>1, SMTT(30) DEF TypeOK, Pipes
      <4> QED BY <3>1, <3>2, <4>1 DEF g
    <3> QED BY <1>1, <1>6, <3>1, <3>2, <3>3
  <2>2. ASSUME NEW q \in Procs, pc'[q] \in {"readwait", "writewait"} PROVE page'[ff'[q].pipe].lock = q
    <3>1. q # p /\ pc[q] \in {"readwait", "writewait"}
      BY <1>1, <1>5, <1>6, <2>2, SMTT(30)
    <3>2. page[ff[q].pipe].lock = q /\ page[g].lock = p
      BY <1>1, <3>1 DEF Sleepers, g
    <3>3. ff[q] \in PipeEnds
      BY <1>7, <3>1 DEF Copies
    <3>4. ff[q].pipe \in Pages /\ ff[q].pipe # g
      BY <3>1, <3>2, <3>3, EndsDiffer
    <3> QED BY <1>1, <1>6, <3>2, <3>4
  <2>3. ASSUME NEW q \in Procs
        PROVE  /\ pc'[q] \in {"readwait", "readsleep"} => page'[ff'[q].pipe].writeopen
               /\ pc'[q] \in {"writewait", "writesleep"} =>
                    Full(page'[ff'[q].pipe]) /\ page'[ff'[q].pipe].readopen
    <3>1. /\ pc'[q] \in {"readwait", "readsleep"} => pc[q] \in {"readwait", "readsleep"}
          /\ pc'[q] \in {"writewait", "writesleep"} => pc[q] \in {"writewait", "writesleep"}
      BY <1>1, <1>5, <1>6, SMTT(30)
    <3>2. pc[q] \in {"readwait", "readsleep", "writewait", "writesleep"} => ff[q].pipe \in Pages
      BY <1>7, EndsDiffer DEF Copies
    <3>3. /\ pc[q] \in {"readwait", "readsleep"} => page[ff[q].pipe].writeopen
          /\ pc[q] \in {"writewait", "writesleep"} => Full(page[ff[q].pipe]) /\ page[ff[q].pipe].readopen
      BY DEF Sleepers
    <3> QED BY <1>1, <1>9, <3>1, <3>2, <3>3
  <2> QED BY <2>1, <2>2, <2>3 DEF Sleepers, Full
<1> QED BY <1>11, <1>12

\* p returns, or is about to sleep with the lock of pipe g.
ReturnsOrSleeps(p, g) ==
  \/ pc'[p] = "run" /\ page'[g].lock = NoProc
  \/ pc'[p] = "readwait" /\ page'[g].lock = p /\ ff'[p].pipe = g /\ page'[g].writeopen
  \/ /\ pc'[p] = "writewait" /\ page'[g].lock = p /\ ff'[p].pipe = g
     /\ page'[g].readopen /\ Full(page'[g])

\* Sleepers after a transfer by p on pipe g, which held its lock.
LEMMA SleepersOn ==
  ASSUME FileInv, NEW p \in Procs, NEW g \in Pages, page[g].lock = NoProc,
         page' \in [Pages -> Pipes], \A h \in Pages : h # g => page'[h] = page[h],
         page'[g].readopen = page[g].readopen, page'[g].writeopen = page[g].writeopen,
         pc[p] \in {"read", "write"},
         \A q \in Procs : q # p => ff'[q] = ff[q],
         \A q \in Procs : q # p => pc'[q] = pc[q] \/ pc'[q] \in {"read", "write"},
         \A q \in Procs : q # p /\ pc[q] \in {"readwait", "writewait"} => pc'[q] = pc[q],
         \A q \in Procs : q # p /\ pc'[q] = "writesleep" /\ ff[q].pipe = g => Full(page'[g]),
         ReturnsOrSleeps(p, g)
  PROVE  Sleepers'
<1> USE DEF FileInv, RefsCounted
<1>1. ASSUME NEW h \in Pages, page'[h].lock # NoProc
      PROVE  pc'[page'[h].lock] \in {"readwait", "writewait"} /\ ff'[page'[h].lock].pipe = h
  <2>1. CASE h = g
    BY <1>1, <2>1 DEF ReturnsOrSleeps
  <2>2. CASE h # g
    <3>1. page'[h] = page[h]
      BY <2>2
    <3>2. pc[page[h].lock] \in {"readwait", "writewait"} /\ ff[page[h].lock].pipe = h
      <4>1. page[h].lock # NoProc
        BY <1>1, <3>1
      <4> QED BY <4>1, SMTT(30) DEF Sleepers
    <3>3. page[h].lock \in Procs
      <4>1. page[h] \in Pipes /\ page[h].lock # NoProc
        BY <1>1, <3>1 DEF TypeOK
      <4> QED BY <4>1 DEF Pipes
    <3>4. page[h].lock # p
      BY <3>2
    <3> QED BY <3>1, <3>2, <3>3, <3>4
  <2> QED BY <2>1, <2>2
<1>2. {"readwait", "writewait", "readsleep", "writesleep"} \subseteq Reading \cup Writing
  BY DEF Reading, Writing
<1>3. ASSUME NEW q \in Procs
      PROVE  /\ pc'[q] \in {"readwait", "writewait"} => page'[ff'[q].pipe].lock = q
             /\ pc'[q] \in {"readwait", "readsleep"} => page'[ff'[q].pipe].writeopen
             /\ pc'[q] \in {"writewait", "writesleep"} =>
                  Full(page'[ff'[q].pipe]) /\ page'[ff'[q].pipe].readopen
  <2>1. CASE q = p
    BY <2>1, SMTT(30) DEF ReturnsOrSleeps
  <2>2. CASE q # p /\ pc'[q] \in {"read", "write"}
    BY <2>2, SMTT(30)
  <2>3. CASE q # p /\ pc'[q] = pc[q] /\ pc[q] \in {"readwait", "writewait", "readsleep", "writesleep"}
    <3>1. ff'[q] = ff[q] /\ ff[q] \in PipeEnds
      BY <1>2, <2>3 DEF Copies
    <3>2. ff[q].pipe \in Pages
      BY <3>1, EndsDiffer
    <3>3. /\ pc[q] \in {"readwait", "writewait"} => page[ff[q].pipe].lock = q
          /\ pc[q] \in {"readwait", "readsleep"} => page[ff[q].pipe].writeopen
          /\ pc[q] \in {"writewait", "writesleep"} => Full(page[ff[q].pipe]) /\ page[ff[q].pipe].readopen
      BY DEF Sleepers
    <3>4. CASE ff[q].pipe # g
      BY <2>3, <3>1, <3>2, <3>3, <3>4
    <3>5. CASE ff[q].pipe = g
      <4>1. pc[q] \notin {"readwait", "writewait"}
        BY <3>3, <3>5, FileAssumption
      <4> QED BY <2>3, <3>1, <3>3, <3>5, <4>1
    <3> QED BY <3>4, <3>5
  <2>4. CASE q # p /\ pc'[q] = pc[q] /\ pc[q] \notin {"readwait", "writewait", "readsleep", "writesleep"}
    BY <2>4
  <2> QED BY <2>1, <2>2, <2>3, <2>4
<1> QED BY <1>1, <1>3 DEF Sleepers, Full

\* How many bytes a call moves.
LEMMA Moved ==
  ASSUME NEW m \in Nat, NEW n \in Nat
  PROVE  Lesser(m, n) \in Nat /\ Lesser(m, n) <= m /\ Lesser(m, n) <= n /\ (Lesser(m, n) < m => Lesser(m, n) = n)
BY SMTT(30) DEF Lesser

\* The end of a call.
LEMMA PipeReturned ==
  ASSUME TypeOK, NEW p \in Procs, NEW pcs \in [Procs -> Paths], PipeReturn(p, pcs)
  PROVE  /\ pc' \in [Procs -> Paths] /\ pc'[p] = "run" /\ \A q \in Procs : q # p => pc'[q] = pcs[q]
         /\ ff' \in [Procs -> OpenFiles] /\ ff'[p] = NoFile /\ \A q \in Procs : q # p => ff'[q] = ff[q]
         /\ left' \in [Procs -> Nat]
<1>1. "run" \in Paths /\ NoFile \in OpenFiles /\ 0 \in Nat
  BY SMTT(30) DEF Paths, OpenFiles
<1> QED BY <1>1 DEF PipeReturn, TypeOK

\* A decision to sleep, with the lock held.
LEMMA PreSlept ==
  ASSUME TypeOK, NEW p \in Procs, NEW g \in Pages, NEW x \in Pipes, NEW pcs \in [Procs -> Paths],
         NEW s \in {"readwait", "writewait"}, PreSleep(p, g, x, pcs, s)
  PROVE  /\ pc' \in [Procs -> Paths] /\ pc'[p] = s /\ \A q \in Procs : q # p => pc'[q] = pcs[q]
         /\ UNCHANGED ff
         /\ page' \in [Pages -> Pipes] /\ \A h \in Pages : h # g => page'[h] = page[h]
         /\ page'[g].used = x.used /\ page'[g].lock = p /\ page'[g].readopen = x.readopen
         /\ page'[g].writeopen = x.writeopen /\ (Full(page'[g]) <=> Full(x))
<1> DEFINE y == [x EXCEPT !.lock = p]
<1>1. /\ y \in Pipes /\ y.used = x.used /\ y.lock = p /\ y.readopen = x.readopen
      /\ y.writeopen = x.writeopen /\ (Full(y) <=> Full(x))
  BY LockSet
<1>2. page' = [page EXCEPT ![g] = y] /\ pc' = [pcs EXCEPT ![p] = s] /\ UNCHANGED ff
  BY DEF PreSleep
<1>3. s \in Paths
  BY SMTT(30) DEF Paths, Reading, Writing
<1> HIDE DEF y
<1>4. page' \in [Pages -> Pipes] /\ page'[g] = y /\ \A h \in Pages : h # g => page'[h] = page[h]
  BY <1>1, <1>2 DEF TypeOK
<1>5. pc' \in [Procs -> Paths] /\ pc'[p] = s /\ \A q \in Procs : q # p => pc'[q] = pcs[q]
  BY <1>2, <1>3
<1> QED BY <1>1, <1>2, <1>4, <1>5

\* A process at a pipe.
LEMMA AtPipe ==
  ASSUME FileInv, NEW p \in Procs, pc[p] \in {"read", "write"}
  PROVE  /\ ff[p].pipe \in Pages /\ page[ff[p].pipe] \in Pipes /\ left[p] \in Nat
         /\ Count(page[ff[p].pipe]) \in Nat /\ Room(page[ff[p].pipe]) \in Nat
<1>1. pc[p] \in Reading \cup Writing
  BY SMTT(30) DEF Reading, Writing
<1>2. ff[p].pipe \in Pages
  BY <1>1, EndsDiffer DEF FileInv, Copies
<1>3. page[ff[p].pipe] \in Pipes /\ left[p] \in Nat
  BY <1>2 DEF FileInv, RefsCounted, TypeOK
<1>4. 0 <= Count(page[ff[p].pipe])
  <2> DEFINE x == page[ff[p].pipe]
  <2>1. x.nread \in 0..(Width - 1) /\ x.nwrite \in 0..(Width - 1) /\ Count(x) <= PIPESIZE
    BY <1>3, SMTT(30) DEF Pipes
  <2> HIDE DEF x
  <2>2. Count(x) = IF x.nread <= x.nwrite THEN x.nwrite - x.nread ELSE x.nwrite + Width - x.nread
    BY <2>1, CountAndRoom DEF Count
  <2>3. 0 <= Count(x)
    BY <2>1, <2>2, PipeAssumption, SMTT(30)
  <2> QED BY <2>3 DEF x
<1>5. 0 \in Nat
  OBVIOUS
<1> QED BY <1>2, <1>3, <1>4, <1>5, Taken

\* A transfer by p on pipe g, of which it leaves page y, with the sleepers of
\* the other end woken or not.
LEMMA Transferred ==
  ASSUME FileInv, NEW p \in Procs, pc[p] \in {"read", "write"}, NEW g \in Pages, g = ff[p].pipe,
         page[g].lock = NoProc, UNCHANGED <<ref, file, ilinks, ofile, np, killed>>,
         page' \in [Pages -> Pipes], \A h \in Pages : h # g => page'[h] = page[h],
         page'[g].used = page[g].used, page'[g].readopen = page[g].readopen,
         page'[g].writeopen = page[g].writeopen,
         left' \in [Procs -> Nat], pc' \in [Procs -> Paths], ff' \in [Procs -> OpenFiles],
         \A q \in Procs : q # p => ff'[q] = ff[q],
         \A q \in Procs : q # p => \/ pc'[q] = pc[q] \/ (pc[q] = "readsleep" /\ pc'[q] = "read")
                                   \/ (pc[q] = "writesleep" /\ pc'[q] = "write"),
         \A q \in Procs : q # p /\ pc'[q] = "writesleep" /\ ff[q].pipe = g => Full(page'[g]),
         \/ pc'[p] = "run" /\ ff'[p] = NoFile /\ page'[g].lock = NoProc
         \/ /\ pc[p] = "read" /\ pc'[p] = "readwait" /\ ff'[p] = ff[p] /\ page'[g].lock = p
            /\ page'[g].writeopen
         \/ /\ pc[p] = "write" /\ pc'[p] = "writewait" /\ ff'[p] = ff[p] /\ page'[g].lock = p
            /\ page'[g].readopen /\ Full(page'[g])
  PROVE  FileInv'
<1>1. /\ "readsleep" \in Reading /\ "read" \in Reading /\ "readwait" \in Reading
      /\ "writesleep" \in Writing /\ "write" \in Writing /\ "writewait" \in Writing
  BY DEF Reading, Writing
<1>2. ASSUME NEW q \in Procs
      PROVE  \/ /\ ff'[q] = ff[q]
                /\ \/ pc'[q] = pc[q] \/ (pc[q] \in Reading /\ pc'[q] \in Reading)
                   \/ pc[q] \in Writing /\ pc'[q] \in Writing
             \/ pc[q] \in Reading \cup Writing /\ pc'[q] = "run" /\ ff'[q] = NoFile
             \/ /\ pc[q] = "run" /\ ff'[q] \in PipeEnds
                /\ pc'[q] = IF ff'[q].writable THEN "write" ELSE "read"
                /\ \E fd \in Fds : ofile[q][fd] # 0 /\ file[ofile[q][fd]] = ff'[q]
  <2>1. CASE q = p
    <3>1. pc[p] \in Reading \cup Writing
      BY <1>1
    <3> QED BY <1>1, <2>1, <3>1
  <2>2. CASE q # p
    <3>1. /\ ff'[q] = ff[q]
          /\ \/ pc'[q] = pc[q] \/ (pc[q] \in Reading /\ pc'[q] \in Reading)
             \/ pc[q] \in Writing /\ pc'[q] \in Writing
      BY <1>1, <2>2
    <3> QED BY <3>1
  <2> QED BY <2>1, <2>2
<1>3. \A h \in Pages : page'[h].used = page[h].used
  OBVIOUS
<1>4. \A h \in Pages : page'[h].readopen = page[h].readopen
  OBVIOUS
<1>5. \A h \in Pages : page'[h].writeopen = page[h].writeopen
  OBVIOUS
<1>6. killed' \in [Procs -> BOOLEAN]
  BY DEF FileInv, RefsCounted, TypeOK
<1>7. RefsCounted' /\ Locals' /\ Forks' /\ Copies' /\ Ends'
  BY <1>2, <1>3, <1>4, <1>5, <1>6, Transfer
<1>8. Sleepers'
  <2>1. \A q \in Procs : q # p => pc'[q] = pc[q] \/ pc'[q] \in {"read", "write"}
    OBVIOUS
  <2>2. \A q \in Procs : q # p /\ pc[q] \in {"readwait", "writewait"} => pc'[q] = pc[q]
    OBVIOUS
  <2>3. ReturnsOrSleeps(p, g)
    BY DEF ReturnsOrSleeps
  <2> QED BY <2>1, <2>2, <2>3, SleepersOn
<1> QED BY <1>7, <1>8 DEF FileInv

\* pipewrite.
LEMMA PipewriteStep ==
  ASSUME FileInv, NEW p \in Procs, Pipewrite(p)
  PROVE  FileInv'
<1> DEFINE g == ff[p].pipe
           x == page[g]
           k == Lesser(left[p], Room(x))
           woken == Wake(g, "readsleep", "read")
<1>1. /\ pc[p] = "write" /\ x.lock = NoProc /\ UNCHANGED <<ref, file, ilinks, ofile, np, killed>>
  BY DEF Pipewrite, files
<1>2. PICK s \in [1..k -> Bytes] :
        \/ k = left[p] /\ page' = [page EXCEPT ![g] = Put(x, s)] /\ PipeReturn(p, woken)
        \/ k < left[p] /\ page' = [page EXCEPT ![g] = Put(x, s)] /\ PipeReturn(p, pc)
        \/ /\ k < left[p] /\ x.readopen /\ PreSleep(p, g, Put(x, s), woken, "writewait")
           /\ left' = [left EXCEPT ![p] = @ - k]
  BY DEF Pipewrite
<1>3. g \in Pages /\ x \in Pipes /\ left[p] \in Nat /\ Room(x) \in Nat
  BY <1>1, AtPipe
<1> DEFINE y == Put(x, s)
<1>4. k \in Nat /\ k <= left[p] /\ k <= Room(x) /\ (k < left[p] => k = Room(x))
  <2> HIDE DEF x
  <2> QED BY <1>3, Moved
<1>5. /\ woken \in [Procs -> Paths]
      /\ \A q \in Procs : woken[q] = pc[q] \/ (pc[q] = "readsleep" /\ woken[q] = "read")
  <2>1. TypeOK
    BY DEF FileInv, RefsCounted
  <2> HIDE DEF g
  <2> QED BY <2>1, ReadersWoken
<1>6. TypeOK /\ pc \in [Procs -> Paths]
  BY DEF FileInv, RefsCounted, TypeOK
<1> HIDE DEF g, woken, k
<1>7. /\ y \in Pipes /\ y.used = x.used /\ y.lock = NoProc /\ y.readopen = x.readopen
      /\ y.writeopen = x.writeopen /\ (k = Room(x) => Full(y)) /\ (Full(x) => Full(y))
  <2> HIDE DEF x
  <2> QED BY <1>1, <1>3, <1>4, Written
<1>8. ASSUME NEW q \in Procs, pc[q] = "writesleep", ff[q].pipe = g PROVE Full(x)
  BY <1>8 DEF FileInv, Sleepers
<1>9. CASE /\ page' = [page EXCEPT ![g] = y]
           /\ PipeReturn(p, woken) \/ PipeReturn(p, pc)
  <2> HIDE DEF y
  <2>1. page' \in [Pages -> Pipes] /\ page'[g] = y /\ \A h \in Pages : h # g => page'[h] = page[h]
    BY <1>3, <1>6, <1>7, <1>9 DEF TypeOK
  <2>2. PICK pcs \in [Procs -> Paths] :
          /\ PipeReturn(p, pcs)
          /\ \A q \in Procs : pcs[q] = pc[q] \/ (pc[q] = "readsleep" /\ pcs[q] = "read")
    BY <1>5, <1>6, <1>9
  <2>3. /\ pc' \in [Procs -> Paths] /\ pc'[p] = "run" /\ \A q \in Procs : q # p => pc'[q] = pcs[q]
        /\ ff' \in [Procs -> OpenFiles] /\ ff'[p] = NoFile /\ \A q \in Procs : q # p => ff'[q] = ff[q]
        /\ left' \in [Procs -> Nat]
    BY <1>6, <2>2, PipeReturned
  <2>4. \A q \in Procs : q # p => \/ pc'[q] = pc[q] \/ (pc[q] = "readsleep" /\ pc'[q] = "read")
                                  \/ (pc[q] = "writesleep" /\ pc'[q] = "write")
    BY <2>2, <2>3
  <2>5. \A q \in Procs : q # p /\ pc'[q] = "writesleep" /\ ff[q].pipe = g => Full(page'[g])
    BY <1>7, <1>8, <2>1, <2>4
  <2>6. /\ page'[g].used = page[g].used /\ page'[g].readopen = page[g].readopen
        /\ page'[g].writeopen = page[g].writeopen /\ page'[g].lock = NoProc
    BY <1>7, <2>1
  <2>7. pc[p] \in {"read", "write"} /\ g = ff[p].pipe
    BY <1>1 DEF g
  <2> QED BY <1>1, <1>3, <2>1, <2>3, <2>4, <2>5, <2>6, <2>7, Transferred
<1>10. CASE /\ k < left[p] /\ x.readopen /\ PreSleep(p, g, y, woken, "writewait")
            /\ left' = [left EXCEPT ![p] = @ - k]
  <2>1. left' \in [Procs -> Nat]
    BY <1>3, <1>4, <1>6, <1>10, SMTT(30) DEF TypeOK
  <2> HIDE DEF y
  <2>2. /\ pc' \in [Procs -> Paths] /\ pc'[p] = "writewait" /\ \A q \in Procs : q # p => pc'[q] = woken[q]
        /\ UNCHANGED ff
        /\ page' \in [Pages -> Pipes] /\ \A h \in Pages : h # g => page'[h] = page[h]
        /\ page'[g].used = y.used /\ page'[g].lock = p /\ page'[g].readopen = y.readopen
        /\ page'[g].writeopen = y.writeopen /\ (Full(page'[g]) <=> Full(y))
    BY <1>3, <1>5, <1>6, <1>7, <1>10, PreSlept
  <2>3. Full(page'[g]) /\ page'[g].readopen
    BY <1>4, <1>7, <1>10, <2>2
  <2>4. \A q \in Procs : q # p => \/ pc'[q] = pc[q] \/ (pc[q] = "readsleep" /\ pc'[q] = "read")
                                  \/ (pc[q] = "writesleep" /\ pc'[q] = "write")
    BY <1>5, <2>2
  <2>5. ff' \in [Procs -> OpenFiles] /\ \A q \in Procs : ff'[q] = ff[q]
    BY <1>6, <2>2 DEF TypeOK
  <2>6. /\ page'[g].used = page[g].used /\ page'[g].readopen = page[g].readopen
        /\ page'[g].writeopen = page[g].writeopen
    BY <1>7, <2>2
  <2>7. pc[p] \in {"read", "write"} /\ g = ff[p].pipe
    BY <1>1 DEF g
  <2> QED BY <1>1, <1>3, <2>1, <2>2, <2>3, <2>4, <2>5, <2>6, <2>7, Transferred
<1> QED BY <1>2, <1>9, <1>10

\* piperead.
LEMMA PipereadStep ==
  ASSUME FileInv, NEW p \in Procs, Piperead(p)
  PROVE  FileInv'
<1> DEFINE g == ff[p].pipe
           x == page[g]
           k == Lesser(left[p], Count(x))
           y == [x EXCEPT !.nread = (@ + k) % Width]
           woken == Wake(g, "writesleep", "write")
<1>1. /\ pc[p] = "read" /\ x.lock = NoProc /\ UNCHANGED <<ref, file, ilinks, ofile, np, killed>>
  BY DEF Piperead, files
<1>2. \/ PipeReturn(p, pc) /\ UNCHANGED page
      \/ x.writeopen /\ PreSleep(p, g, x, pc, "readwait") /\ UNCHANGED left
      \/ page' = [page EXCEPT ![g] = y] /\ PipeReturn(p, woken)
  BY DEF Piperead
<1>3. g \in Pages /\ x \in Pipes /\ left[p] \in Nat /\ Count(x) \in Nat
  BY <1>1, AtPipe
<1>4. k \in Nat /\ k <= Count(x)
  <2> HIDE DEF x
  <2> QED BY <1>3, Moved
<1>5. TypeOK /\ pc \in [Procs -> Paths] /\ page \in [Pages -> Pipes]
  BY DEF FileInv, RefsCounted, TypeOK
<1>6. /\ woken \in [Procs -> Paths]
      /\ \A q \in Procs : pc[q] = "writesleep" /\ ff[q].pipe = g => woken[q] = "write"
      /\ \A q \in Procs : ~(pc[q] = "writesleep" /\ ff[q].pipe = g) => woken[q] = pc[q]
  <2> HIDE DEF g
  <2> QED BY <1>5, WritersWoken
<1> HIDE DEF g, woken, k
<1>7. /\ y \in Pipes /\ y.used = x.used /\ y.lock = x.lock /\ y.readopen = x.readopen
      /\ y.writeopen = x.writeopen
  <2> HIDE DEF x
  <2>1. y \in Pipes
    BY <1>3, <1>4, Taken
  <2>2. DOMAIN x = {"used", "lock", "readopen", "writeopen", "nread", "nwrite", "data"}
    BY <1>3, SMTT(30) DEF Pipes
  <2>3. /\ y.used = x.used /\ y.lock = x.lock /\ y.readopen = x.readopen /\ y.writeopen = x.writeopen
    BY <2>2
  <2> QED BY <2>1, <2>3
<1>8. ASSUME NEW q \in Procs, pc[q] = "writesleep", ff[q].pipe = g PROVE Full(x)
  BY <1>8 DEF FileInv, Sleepers
<1>9. pc[p] \in {"read", "write"} /\ g = ff[p].pipe
  BY <1>1 DEF g
<1>10. CASE PipeReturn(p, pc) /\ UNCHANGED page
  <2>1. /\ pc' \in [Procs -> Paths] /\ pc'[p] = "run" /\ \A q \in Procs : q # p => pc'[q] = pc[q]
        /\ ff' \in [Procs -> OpenFiles] /\ ff'[p] = NoFile /\ \A q \in Procs : q # p => ff'[q] = ff[q]
        /\ left' \in [Procs -> Nat]
    BY <1>5, <1>10, PipeReturned
  <2>2. \A q \in Procs : q # p /\ pc'[q] = "writesleep" /\ ff[q].pipe = g => Full(page'[g])
    BY <1>8, <1>10, <2>1
  <2> QED BY <1>1, <1>3, <1>5, <1>9, <1>10, <2>1, <2>2, Transferred
<1>11. CASE x.writeopen /\ PreSleep(p, g, x, pc, "readwait") /\ UNCHANGED left
  <2>1. /\ pc' \in [Procs -> Paths] /\ pc'[p] = "readwait" /\ \A q \in Procs : q # p => pc'[q] = pc[q]
        /\ UNCHANGED ff
        /\ page' \in [Pages -> Pipes] /\ \A h \in Pages : h # g => page'[h] = page[h]
        /\ page'[g].used = x.used /\ page'[g].lock = p /\ page'[g].readopen = x.readopen
        /\ page'[g].writeopen = x.writeopen /\ (Full(page'[g]) <=> Full(x))
    <3> HIDE DEF x
    <3> QED BY <1>3, <1>5, <1>11, PreSlept
  <2>2. \A q \in Procs : q # p /\ pc'[q] = "writesleep" /\ ff[q].pipe = g => Full(page'[g])
    BY <1>8, <2>1
  <2>3. /\ left' \in [Procs -> Nat] /\ ff' \in [Procs -> OpenFiles] /\ \A q \in Procs : ff'[q] = ff[q]
        /\ page'[g].writeopen
    BY <1>5, <1>11, <2>1 DEF TypeOK
  <2> QED BY <1>1, <1>3, <1>9, <2>1, <2>2, <2>3, Transferred
<1>12. CASE page' = [page EXCEPT ![g] = y] /\ PipeReturn(p, woken)
  <2> HIDE DEF y
  <2>1. page' \in [Pages -> Pipes] /\ page'[g] = y /\ \A h \in Pages : h # g => page'[h] = page[h]
    BY <1>3, <1>5, <1>7, <1>12
  <2>2. /\ pc' \in [Procs -> Paths] /\ pc'[p] = "run" /\ \A q \in Procs : q # p => pc'[q] = woken[q]
        /\ ff' \in [Procs -> OpenFiles] /\ ff'[p] = NoFile /\ \A q \in Procs : q # p => ff'[q] = ff[q]
        /\ left' \in [Procs -> Nat]
    BY <1>5, <1>6, <1>12, PipeReturned
  <2>3. \A q \in Procs : q # p => \/ pc'[q] = pc[q] \/ (pc[q] = "readsleep" /\ pc'[q] = "read")
                                  \/ (pc[q] = "writesleep" /\ pc'[q] = "write")
    BY <1>6, <2>2
  <2>4. \A q \in Procs : q # p /\ pc'[q] = "writesleep" /\ ff[q].pipe = g => Full(page'[g])
    BY <1>6, <2>2
  <2>5. /\ page'[g].used = page[g].used /\ page'[g].readopen = page[g].readopen
        /\ page'[g].writeopen = page[g].writeopen /\ page'[g].lock = NoProc
    BY <1>1, <1>7, <2>1
  <2> QED BY <1>1, <1>3, <1>9, <2>1, <2>2, <2>3, <2>4, <2>5, Transferred
<1> QED BY <1>2, <1>10, <1>11, <1>12

-----------------------------------------------------------------------------
(***************************************************************************)
(* The invariant.                                                          *)
(***************************************************************************)

\* The first process starts without files.
LEMMA InitInv == Init => FileInv
<1> SUFFICES ASSUME Init PROVE FileInv
  OBVIOUS
<1>1. /\ \A f \in FileIds : ref[f] = 0 /\ file[f] = NoFile
      /\ \A g \in Pages : page[g] = FreePage
      /\ \A p \in Procs, i \in Places : ofile[p][i] = 0
      /\ \A p \in Procs : ff[p] = NoFile /\ pc[p] \in {"run", "unused"}
      /\ ilinks = 0
  BY SMTT(30) DEF Init
<1>2. TypeOK
  <2>1. pc \in [Procs -> Paths]
    BY SMTT(30) DEF Init, Paths
  <2>2. page \in [Pages -> Pipes]
    BY PagesAre DEF Init
  <2>3. ref \in [FileIds -> Nat] /\ left \in [Procs -> Nat] /\ ilinks \in Nat
    BY SMTT(30) DEF Init
  <2>4. /\ file \in [FileIds -> OpenFiles] /\ ff \in [Procs -> OpenFiles]
        /\ ofile \in [Procs -> [Places -> FileIds \cup {0}]] /\ np \in [Procs -> Procs \cup {NoProc}]
        /\ killed \in [Procs -> BOOLEAN]
    BY DEF Init, OpenFiles
  <2> QED BY <2>1, <2>2, <2>3, <2>4 DEF TypeOK
<1>3. Counted
  <2>1. ASSUME NEW f \in FileIds PROVE ref[f] = Cardinality(References(f))
    <3>1. f # 0
      BY PlacesAre
    <3>2. References(f) = {}
      BY <1>1, <3>1, SMTT(30) DEF References
    <3> QED BY <1>1, <3>2, FS_EmptySet
  <2> QED BY <2>1 DEF Counted
<1>4. InodesCounted
  <2>1. InodeFiles = {} /\ InodeClosers = {}
    BY <1>1, KindsDiffer DEF InodeFiles, InodeClosers
  <2>2. Cardinality({}) = 0
    BY FS_EmptySet
  <2> QED BY <1>1, <2>1, <2>2, SMTT(30) DEF InodesCounted
<1>5. rf \in Places /\ wf \in Places /\ \A p \in Procs : pc[p] \notin Reading \cup Writing \cup Closing
  <2>1. \A p \in Procs : pc[p] \notin Reading \cup Writing \cup Closing
    BY <1>1, SMTT(30) DEF Reading, Writing, Closing
  <2> QED BY <2>1, PlacesAre
<1>6. Locals
  <2>1. \A p \in Procs : pc[p] \notin {"pipe1", "pipe2"} /\ ofile[p][rf] = 0 /\ ofile[p][wf] = 0
    BY <1>1, <1>5, SMTT(30)
  <2> QED BY <1>1, <2>1 DEF Locals
<1>7. Forks
  BY <1>1, SMTT(30) DEF Forks
<1>8. Copies
  BY <1>1, <1>5 DEF Copies
<1>9. Ends
  <2>1. \A e \in PipeEnds, f \in FileIds : file[f] # e
    BY <1>1, EndsDiffer
  <2>2. \A g \in Pages, w \in BOOLEAN : PipeEnd(g, w) \in PipeEnds /\ ~EndOpen(g, w)
    <3>1. \A g \in Pages, w \in BOOLEAN : ~EndOpen(g, w)
      BY <1>1, PagesAre DEF EndOpen
    <3>2. \A g \in Pages, w \in BOOLEAN : PipeEnd(g, w) \in PipeEnds
      BY SMTT(30) DEF PipeEnds
    <3> QED BY <3>1, <3>2
  <2> QED BY <1>1, <1>5, <2>1, <2>2, PagesAre DEF Ends
<1>10. Sleepers
  <2>1. \A p \in Procs : pc[p] \notin {"readwait", "writewait", "readsleep", "writesleep"}
    BY <1>1, SMTT(30)
  <2> QED BY <1>1, <2>1, PagesAre DEF Sleepers
<1> QED BY <1>2, <1>3, <1>4, <1>6, <1>7, <1>8, <1>9, <1>10 DEF FileInv, RefsCounted

\* Every critical section keeps the invariant.
LEMMA NextStep == FileInv /\ [Next]_vars => FileInv'
<1> SUFFICES ASSUME FileInv, [Next]_vars PROVE FileInv'
  OBVIOUS
<1>1. ASSUME NEW p \in Procs, Step(p) PROVE FileInv'
  <2>1. CASE SysOpen(p) \/ SysPipe(p) \/ PipeFile(p) \/ PipeAlloc(p)
    BY <2>1, SysOpenStep, SysPipeStep, PipeFileStep, PipeAllocStep
  <2>2. CASE \E fd \in Fds : SysDup(p, fd) \/ SysClose(p, fd)
    BY <2>2, SysDupStep, SysCloseStep
  <2>3. CASE \E fd \in Fds, n \in Sizes : SysReadWrite(p, fd, n)
    BY <2>3, SysReadWriteStep
  <2>4. CASE \E child \in Procs : Fork(p, child)
    BY <2>4, ForkStep
  <2>5. CASE ForkDup(p) \/ ForkDone(p)
    BY <2>5, ForkDupStep, ForkDoneStep
  <2>6. CASE CloseNext(p) \/ CloseReturns(p) \/ FilecloseLast(p)
    BY <2>6, CloseNextStep, CloseReturnsStep, FilecloseLastStep
  <2>7. CASE PipeSleep(p) \/ Pipewrite(p) \/ Piperead(p)
    BY <2>7, PipeSleepStep, PipewriteStep, PipereadStep
  <2> QED BY <1>1, <2>1, <2>2, <2>3, <2>4, <2>5, <2>6, <2>7 DEF Step
<1>2. ASSUME NEW p \in Procs, Exit(p) \/ Reap(p) \/ Kill(p) PROVE FileInv'
  BY <1>2, ExitStep, ReapStep, KillStep
<1>3. CASE UNCHANGED vars
  <2>1. UNCHANGED <<ref, file, ilinks, page, ofile, np, pc, killed, ff, left>>
    BY <1>3 DEF vars
  <2>2. RefsCounted'
    BY <2>1 DEF FileInv, RefsCounted, TypeOK, Counted, References, InodesCounted, InodeFiles, InodeClosers
  <2>3. Locals'
    BY <2>1 DEF FileInv, Locals
  <2>4. Forks'
    BY <2>1 DEF FileInv, Forks
  <2>5. Copies'
    BY <2>1 DEF FileInv, Copies
  <2>6. Ends'
    BY <2>1 DEF FileInv, Ends, EndOpen
  <2>7. Sleepers'
    BY <2>1 DEF FileInv, Sleepers
  <2> QED BY <2>2, <2>3, <2>4, <2>5, <2>6, <2>7 DEF FileInv
<1> QED BY <1>1, <1>2, <1>3 DEF Next

\* The inductive invariant: what the local variables of sys_pipe, a fork under
\* way, a copied struct file and a sleeper in a pipe have to do with the
\* table, the pipes and the descriptors.
THEOREM FileInvariant == Spec => []FileInv
BY InitInv, NextStep, PTL DEF Spec

\* The reference counts of the file table and of the inode are exact
\* (filealloc, filedup, fileclose; fork, exit, sys_open, sys_pipe).
THEOREM ReferenceCounts == Spec => []RefsCounted
<1>1. FileInv => RefsCounted
  BY DEF FileInv
<1> QED BY <1>1, FileInvariant, PTL

\* The ends of a pipe are open exactly while there is a file for them, and a
\* transfer has its own end open although it slept (pipealloc, pipeclose,
\* piperead, pipewrite).
THEOREM PipeEndsMatch == Spec => []EndsMatchFiles
<1>1. FileInv => EndsMatchFiles
  <2> SUFFICES ASSUME FileInv PROVE EndsMatchFiles
    OBVIOUS
  <2>1. ASSUME NEW p \in Procs, pc[p] \in Reading \cup Writing PROVE EndOpen(ff[p].pipe, ff[p].writable)
    <3>1. PICK fd \in Fds : ofile[p][fd] # 0 /\ file[ofile[p][fd]] = ff[p]
      BY <2>1 DEF FileInv, Copies
    <3>2. ofile[p][fd] \in FileIds
      BY <3>1, PlacesAre, Held DEF FileInv, RefsCounted
    <3>3. ff[p] \in PipeEnds
      BY <2>1 DEF FileInv, Copies
    <3>4. ff[p].pipe \in Pages /\ ff[p].writable \in BOOLEAN /\ ff[p] = PipeEnd(ff[p].pipe, ff[p].writable)
      BY <3>3, EndsDiffer
    <3>5. \E f \in FileIds : file[f] = PipeEnd(ff[p].pipe, ff[p].writable)
      BY <3>1, <3>2, <3>4
    <3> QED BY <3>4, <3>5 DEF FileInv, Ends
  <2> QED BY <2>1 DEF FileInv, Ends, EndsMatchFiles
<1> QED BY <1>1, FileInvariant, PTL

\* No process sleeps in a pipe for what has already happened: no wakeup of
\* pipewrite, piperead and pipeclose is lost.
THEOREM NoLostPipeWakeup == Spec => []PipeSleepersBlocked
<1>1. FileInv => PipeSleepersBlocked
  BY DEF FileInv, Sleepers, PipeSleepersBlocked
<1> QED BY <1>1, FileInvariant, PTL
=============================================================================
