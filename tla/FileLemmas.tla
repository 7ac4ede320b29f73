----------------------------- MODULE FileLemmas -----------------------------
(***************************************************************************)
(* The steps of module File that open, share, close and allocate files and *)
(* pipes keep the invariant FileInv.  First come the places of a file and  *)
(* the counting of references, then one lemma for every action, in the     *)
(* order of module File.                                                   *)
(***************************************************************************)
EXTENDS File, FiniteSetTheorems, TLAPS

\* Most leaves are first-order; a leaf that needs arithmetic, sequences or
\* large records names SMT.
USE ZenonT(30)

-----------------------------------------------------------------------------
\* The places of a process are its descriptors and two local variables, and
\* no file has the number that stands for none.
LEMMA PlacesAre ==
  /\ Fds \subseteq Places /\ rf \in Places /\ wf \in Places /\ rf # wf
  /\ rf \notin Fds /\ wf \notin Fds /\ 0 \notin FileIds
  /\ \A i \in Places : i \in Fds \/ i = rf \/ i = wf
BY FileAssumption, SMTT(30) DEF Fds, Places, rf, wf, FileIds

\* The kinds of files differ.
LEMMA KindsDiffer ==
  /\ InodeFile # NoFile /\ NoFile.type = "NONE" /\ InodeFile.type = "INODE"
  /\ \A g, w : PipeEnd(g, w).pipe = g /\ PipeEnd(g, w).writable = w /\ PipeEnd(g, w).type = "PIPE"
BY DEF InodeFile, NoFile, PipeEnd

\* An end of a pipe is no other file, and has its pipe and its direction.
LEMMA EndsDiffer ==
  ASSUME NEW e \in PipeEnds
  PROVE  e # NoFile /\ e # InodeFile /\ e.type = "PIPE" /\ e.pipe \in Pages /\ e.writable \in BOOLEAN
         /\ e = PipeEnd(e.pipe, e.writable)
<1>1. PICK g \in Pages, w \in BOOLEAN : e = PipeEnd(g, w)
  BY SMTT(30) DEF PipeEnds
<1>2. e.type # NoFile.type /\ e.type # InodeFile.type
  BY <1>1, KindsDiffer
<1> QED BY <1>1, <1>2, KindsDiffer

\* The references to a file are finitely many.
LEMMA ReferencesFinite ==
  ASSUME NEW f
  PROVE  /\ IsFiniteSet(References(f)) /\ Cardinality(References(f)) \in Nat
         /\ Cardinality(References(f)) = 0 <=> References(f) = {}
<1>1. IsFiniteSet(Places)
  BY FileAssumption, FS_Interval, SMTT(30) DEF Places
<1>2. IsFiniteSet(Procs \X Places)
  BY <1>1, FileAssumption, FS_Product
<1>3. References(f) \subseteq Procs \X Places
  BY DEF References
<1>4. IsFiniteSet(References(f))
  BY <1>2, <1>3, FS_Subset
<1> QED BY <1>4, FS_CardinalityType, FS_EmptySet

\* A file in some place has a reference, and a file with one reference is in
\* one place.
LEMMA Held ==
  ASSUME TypeOK, Counted, NEW p \in Procs, NEW i \in Places, ofile[p][i] # 0
  PROVE  /\ ofile[p][i] \in FileIds /\ ref[ofile[p][i]] \in Nat /\ ref[ofile[p][i]] # 0
         /\ ref[ofile[p][i]] = 1 =>
              \A q \in Procs, j \in Places : ofile[q][j] = ofile[p][i] => q = p /\ j = i
<1> DEFINE f == ofile[p][i]
<1>1. f \in FileIds /\ ref[f] \in Nat
  BY SMTT(30) DEF TypeOK
<1>2. <<p, i>> \in References(f)
  BY SMTT(30) DEF References
<1>3. ref[f] = Cardinality(References(f))
  BY <1>1 DEF Counted
<1>4. ref[f] # 0
  BY <1>2, <1>3, ReferencesFinite
<1>5. ASSUME ref[f] = 1, NEW q \in Procs, NEW j \in Places, ofile[q][j] = f
      PROVE  q = p /\ j = i
  <2>1. <<q, j>> \in References(f)
    BY <1>5, SMTT(30) DEF References
  <2>2. PICK h : References(f) = {h}
    BY <1>3, <1>5, ReferencesFinite, FS_Singleton
  <2>3. <<q, j>> = <<p, i>>
    BY <1>2, <2>1, <2>2
  <2> QED BY <2>3
<1> QED BY <1>1, <1>4, <1>5

\* A free entry is in no place.
LEMMA Unheld ==
  ASSUME TypeOK, Counted, NEW f \in FileIds, ref[f] = 0, NEW q \in Procs, NEW j \in Places
  PROVE  ofile[q][j] # f
BY Held, PlacesAre DEF TypeOK

\* All places but one are as they were.
Others(p, i) == \A q \in Procs, j \in Places : q # p \/ j # i => ofile'[q][j] = ofile[q][j]

\* One place is changed.
LEMMA PlaceSet ==
  ASSUME TypeOK, NEW p \in Procs, NEW i \in Places, NEW f \in FileIds \cup {0},
         ofile' = [ofile EXCEPT ![p][i] = f]
  PROVE  /\ ofile' \in [Procs -> [Places -> FileIds \cup {0}]]
         /\ ofile'[p][i] = f
         /\ Others(p, i)
BY SMTT(30) DEF TypeOK, Others

\* A reference is added and counted.
LEMMA ReferenceAdded ==
  ASSUME TypeOK, Counted, NEW p \in Procs, NEW i \in Places, NEW f \in FileIds, ofile[p][i] = 0,
         ofile' = [ofile EXCEPT ![p][i] = f], ref' = [ref EXCEPT ![f] = @ + 1]
  PROVE  Counted'
<1>1. /\ ofile'[p][i] = f
      /\ \A q \in Procs, j \in Places : q # p \/ j # i => ofile'[q][j] = ofile[q][j]
  <2>1. /\ ofile'[p][i] = f
        /\ Others(p, i)
    BY PlaceSet
  <2> QED BY <2>1 DEF Others
<1> SUFFICES ASSUME NEW g \in FileIds PROVE ref'[g] = Cardinality(References(g)')
  BY DEF Counted
<1>2. ref[g] = Cardinality(References(g)) /\ g # 0
  BY PlacesAre DEF Counted
<1>3. CASE g = f
  <2>1. References(g)' = References(g) \cup {<<p, i>>} /\ <<p, i>> \notin References(g)
    BY <1>1, <1>2, <1>3, SMTT(30) DEF References
  <2>2. Cardinality(References(g)') = Cardinality(References(g)) + 1
    BY <2>1, ReferencesFinite, FS_AddElement
  <2>3. ref'[g] = ref[g] + 1
    BY <1>3 DEF TypeOK
  <2> QED BY <1>2, <2>2, <2>3
<1>4. CASE g # f
  <2>1. References(g)' = References(g)
    BY <1>1, <1>2, <1>4, SMTT(30) DEF References
  <2> QED BY <1>2, <1>4, <2>1 DEF TypeOK
<1> QED BY <1>3, <1>4

\* A reference is dropped and no longer counted.
LEMMA ReferenceDropped ==
  ASSUME TypeOK, Counted, NEW p \in Procs, NEW i \in Places, ofile[p][i] # 0,
         ofile' = [ofile EXCEPT ![p][i] = 0], ref' = [ref EXCEPT ![ofile[p][i]] = @ - 1]
  PROVE  Counted'
<1>1. /\ ofile'[p][i] = 0
      /\ \A q \in Procs, j \in Places : q # p \/ j # i => ofile'[q][j] = ofile[q][j]
  <2>1. /\ ofile'[p][i] = 0
        /\ Others(p, i)
    BY PlaceSet
  <2> QED BY <2>1 DEF Others
<1> SUFFICES ASSUME NEW g \in FileIds PROVE ref'[g] = Cardinality(References(g)')
  BY DEF Counted
<1>2. ref[g] = Cardinality(References(g)) /\ g # 0 /\ ofile[p][i] \in FileIds
  BY Held, PlacesAre DEF Counted
<1>3. CASE g = ofile[p][i]
  <2>1. References(g)' = References(g) \ {<<p, i>>} /\ <<p, i>> \in References(g)
    BY <1>1, <1>2, <1>3, SMTT(30) DEF References
  <2>2. Cardinality(References(g)') = Cardinality(References(g)) - 1
    BY <2>1, ReferencesFinite, FS_RemoveElement
  <2>3. ref'[g] = ref[g] - 1
    BY <1>3 DEF TypeOK
  <2> QED BY <1>2, <2>2, <2>3
<1>4. CASE g # ofile[p][i]
  <2>1. References(g)' = References(g)
    BY <1>1, <1>2, <1>4, SMTT(30) DEF References
  <2> QED BY <1>2, <1>4, <2>1 DEF TypeOK
<1> QED BY <1>3, <1>4

-----------------------------------------------------------------------------
(***************************************************************************)
(* The references to the inode: an open file has one, and so has a process *)
(* that has freed the file and not yet called iput.                        *)
(***************************************************************************)

\* The files and the closes that refer to the inode are finitely many.
LEMMA InodeSetsFinite ==
  /\ IsFiniteSet(InodeFiles) /\ Cardinality(InodeFiles) \in Nat
  /\ IsFiniteSet(InodeClosers) /\ Cardinality(InodeClosers) \in Nat
<1>1. IsFiniteSet(FileIds)
  BY FileAssumption, FS_Interval, SMTT(30) DEF FileIds
<1>2. InodeFiles \subseteq FileIds /\ InodeClosers \subseteq Procs
  BY DEF InodeFiles, InodeClosers
<1>3. IsFiniteSet(InodeFiles) /\ IsFiniteSet(InodeClosers)
  BY <1>1, <1>2, FileAssumption, FS_Subset
<1> QED BY <1>3, FS_CardinalityType

\* Nothing changes.
LEMMA InodesKept ==
  ASSUME InodesCounted, UNCHANGED ilinks,
         \A f \in FileIds : file'[f] = InodeFile <=> file[f] = InodeFile,
         \A q \in Procs : ff'[q] = InodeFile <=> ff[q] = InodeFile
  PROVE  InodesCounted'
<1>1. InodeFiles' = InodeFiles /\ InodeClosers' = InodeClosers
  BY SMTT(30) DEF InodeFiles, InodeClosers
<1> QED BY <1>1, SMTT(30) DEF InodesCounted

\* sys_open.
LEMMA InodeOpened ==
  ASSUME TypeOK, InodesCounted, NEW f \in FileIds, file[f] # InodeFile,
         file' = [file EXCEPT ![f] = InodeFile], UNCHANGED ff, ilinks' = ilinks + 1
  PROVE  InodesCounted'
<1>1. InodeFiles' = InodeFiles \cup {f} /\ f \notin InodeFiles /\ InodeClosers' = InodeClosers
  BY SMTT(30) DEF InodeFiles, InodeClosers, TypeOK
<1>2. Cardinality(InodeFiles') = Cardinality(InodeFiles) + 1
  BY <1>1, InodeSetsFinite, FS_AddElement
<1> QED BY <1>1, <1>2, InodeSetsFinite, SMTT(30) DEF InodesCounted

\* fileclose frees the file, and the process keeps its reference.
LEMMA InodeMoved ==
  ASSUME TypeOK, InodesCounted, NEW f \in FileIds, NEW p \in Procs,
         file[f] = InodeFile, ff[p] # InodeFile, UNCHANGED ilinks,
         file' = [file EXCEPT ![f] = NoFile], ff' = [ff EXCEPT ![p] = InodeFile]
  PROVE  InodesCounted'
<1>1. InodeFiles' = InodeFiles \ {f} /\ f \in InodeFiles
  BY KindsDiffer, SMTT(30) DEF InodeFiles, TypeOK
<1>2. InodeClosers' = InodeClosers \cup {p} /\ p \notin InodeClosers
  BY SMTT(30) DEF InodeClosers, TypeOK
<1>3. Cardinality(InodeFiles') = Cardinality(InodeFiles) - 1
  BY <1>1, InodeSetsFinite, FS_RemoveElement
<1>4. Cardinality(InodeClosers') = Cardinality(InodeClosers) + 1
  BY <1>2, InodeSetsFinite, FS_AddElement
<1> QED BY <1>3, <1>4, InodeSetsFinite, SMTT(30) DEF InodesCounted

\* iput.
LEMMA InodePut ==
  ASSUME TypeOK, InodesCounted, NEW p \in Procs, ff[p] = InodeFile,
         ilinks' = ilinks - 1, UNCHANGED file, ff' = [ff EXCEPT ![p] = NoFile]
  PROVE  InodesCounted' /\ ilinks' \in Nat
<1>1. InodeClosers' = InodeClosers \ {p} /\ p \in InodeClosers /\ InodeFiles' = InodeFiles
  BY KindsDiffer, SMTT(30) DEF InodeFiles, InodeClosers, TypeOK
<1>2. Cardinality(InodeClosers') = Cardinality(InodeClosers) - 1 /\ Cardinality(InodeClosers') \in Nat
  <2>1. IsFiniteSet(InodeClosers')
    BY <1>1, InodeSetsFinite, FS_RemoveElement
  <2> QED BY <1>1, <2>1, InodeSetsFinite, FS_RemoveElement, FS_CardinalityType
<1> QED BY <1>1, <1>2, InodeSetsFinite, SMTT(30) DEF InodesCounted

-----------------------------------------------------------------------------
(***************************************************************************)
(* The steps outside fileclose and pipes.                                  *)
(***************************************************************************)

\* Steps that leave the pipes alone, and the processes that read and write.
LEMMA SleepersKept ==
  ASSUME TypeOK, Sleepers, UNCHANGED page,
         \A q \in Procs, s \in Reading \cup Writing : pc'[q] = s <=> pc[q] = s,
         \A q \in Procs : pc[q] \in Reading \cup Writing => ff'[q] = ff[q]
  PROVE  Sleepers'
<1>1. \A g \in Pages : page[g].lock \in Procs \cup {NoProc}
  BY SMTT(30) DEF TypeOK, Pipes
<1>2. {"readwait", "writewait", "readsleep", "writesleep"} \subseteq Reading \cup Writing
  BY DEF Reading, Writing
<1>3. ASSUME NEW q \in Procs
      PROVE  /\ pc'[q] \in {"readwait", "writewait"} <=> pc[q] \in {"readwait", "writewait"}
             /\ pc'[q] \in {"readwait", "readsleep"} <=> pc[q] \in {"readwait", "readsleep"}
             /\ pc'[q] \in {"writewait", "writesleep"} <=> pc[q] \in {"writewait", "writesleep"}
             /\ pc[q] \in {"readwait", "writewait", "readsleep", "writesleep"} => ff'[q] = ff[q]
  BY <1>2, SMTT(30)
<1>4. \A g \in Pages : page[g].lock # NoProc =>
        pc'[page[g].lock] \in {"readwait", "writewait"} /\ ff'[page[g].lock].pipe = g
  BY <1>1, <1>3, SMTT(30) DEF Sleepers
<1> QED BY <1>3, <1>4, SMTT(30) DEF Sleepers, Full

\* Steps that, besides, leave the files and closes that stand for ends.
LEMMA EndsKept ==
  ASSUME TypeOK, Ends, Sleepers, UNCHANGED page,
         \A f \in FileIds, e \in PipeEnds : file'[f] = e <=> file[f] = e,
         \A q \in Procs, e \in PipeEnds :
           pc'[q] \in Closing /\ ff'[q] = e <=> pc[q] \in Closing /\ ff[q] = e,
         \A q \in Procs, s \in Reading \cup Writing : pc'[q] = s <=> pc[q] = s,
         \A q \in Procs : pc[q] \in Reading \cup Writing => ff'[q] = ff[q]
  PROVE  Ends' /\ Sleepers'
<1>1. \A g \in Pages, w \in BOOLEAN : PipeEnd(g, w) \in PipeEnds
  BY SMTT(30) DEF PipeEnds
<1>2. Ends'
  BY <1>1, SMTT(30) DEF Ends, EndOpen
<1> QED BY <1>2, SleepersKept

\* In particular, steps of processes that are not at work on a pipe.
LEMMA EndsFrame ==
  ASSUME TypeOK, Ends, Sleepers, UNCHANGED <<page, file, ff>>,
         \A q \in Procs : \/ pc'[q] = pc[q]
                          \/ /\ pc[q] \notin Reading \cup Writing /\ pc'[q] \notin Reading \cup Writing
                             /\ ff[q] = NoFile
  PROVE  Ends' /\ Sleepers'
<1>1. \A q \in Procs, e \in PipeEnds :
        pc'[q] \in Closing /\ ff'[q] = e <=> pc[q] \in Closing /\ ff[q] = e
  BY EndsDiffer
<1>2. \A q \in Procs, s \in Reading \cup Writing : pc'[q] = s <=> pc[q] = s
  OBVIOUS
<1> QED BY <1>1, <1>2, EndsKept

\* sys_dup.
LEMMA SysDupStep ==
  ASSUME FileInv, NEW p \in Procs, NEW fd \in Fds, SysDup(p, fd)
  PROVE  FileInv'
<1> USE DEF FileInv, RefsCounted
<1> DEFINE f == ofile[p][fd]
<1>1. PICK to \in Fds : ofile[p][to] = 0 /\ ofile' = [ofile EXCEPT ![p][to] = f]
  BY DEF SysDup, First, FreeFds
<1>2. /\ pc[p] = "run" /\ f # 0 /\ ref' = [ref EXCEPT ![f] = @ + 1]
      /\ UNCHANGED <<file, page, ilinks, np, pc, killed, ff, left>>
  BY DEF SysDup, Calls, filedup
<1>3. f \in FileIds /\ to \in Places /\ fd \in Places
  BY <1>2, Held, PlacesAre
<1>4. /\ ofile' \in [Procs -> [Places -> FileIds \cup {0}]]
      /\ ofile'[p][to] = f
      /\ \A q \in Procs, j \in Places : q # p \/ j # to => ofile'[q][j] = ofile[q][j]
  <2>1. /\ ofile' \in [Procs -> [Places -> FileIds \cup {0}]]
        /\ ofile'[p][to] = f
        /\ Others(p, to)
    BY <1>1, <1>3, PlaceSet
  <2> QED BY <2>1 DEF Others
<1>5. TypeOK'
  BY <1>2, <1>3, <1>4, SMTT(30) DEF TypeOK
<1>6. Counted'
  BY <1>1, <1>2, <1>3, ReferenceAdded
<1>7. InodesCounted' /\ Ends' /\ Sleepers'
  BY <1>2, InodesKept, EndsFrame
<1>8. /\ \A g \in FileIds : g # f => ref'[g] = ref[g]
      /\ ref'[f] # 0
  BY <1>2, <1>3, SMTT(30) DEF TypeOK
<1>9. Locals'
  <2>1. ASSUME NEW q \in Procs, NEW i \in {rf, wf}, ofile[q][i] # 0
        PROVE  ref'[ofile[q][i]] = 1
    <3>1. ref[ofile[q][i]] = 1 /\ i \in Places /\ i # fd
      BY <2>1, PlacesAre DEF Locals
    <3>2. ofile[q][i] # f /\ ofile[q][i] \in FileIds
      BY <1>3, <2>1, <3>1, Held
    <3> QED BY <1>8, <3>1, <3>2
  <2>2. \A q \in Procs, i \in {rf, wf} : ofile'[q][i] = ofile[q][i]
    BY <1>4, PlacesAre
  <2> QED BY <1>2, <1>4, <2>1, <2>2, SMTT(30) DEF Locals
<1>10. Forks'
  BY <1>2, <1>4, PlacesAre, SMTT(30) DEF Forks
<1>11. Copies'
  <2>1. \A q \in Procs : pc[q] \in Reading \cup Writing => q # p
    BY <1>2 DEF Reading, Writing
  <2> QED BY <1>2, <1>4, <1>8, <2>1, PlacesAre, SMTT(30) DEF Copies
<1> QED BY <1>5, <1>6, <1>7, <1>9, <1>10, <1>11

\* Steps that only change what a process does, outside of fileclose and of
\* pipes and with nothing in its local variables.
LEMMA QuietStep ==
  ASSUME FileInv, UNCHANGED <<ref, file, page, ilinks, ofile, ff>>,
         \A q \in Procs :
           \/ pc'[q] = pc[q]
           \/ /\ pc[q] \notin Reading \cup Writing /\ ff[q] = NoFile
              /\ ofile[q][rf] = 0 /\ ofile[q][wf] = 0
              /\ \/ pc'[q] \in {"run", "exit", "fork", "embryo"}
                 \/ pc'[q] \in {"unused", "dead"} /\ \A i \in Places : ofile[q][i] = 0
  PROVE  Counted' /\ InodesCounted' /\ Locals' /\ Copies' /\ Ends' /\ Sleepers'
<1> USE DEF FileInv, RefsCounted
<1>1. Counted' /\ InodesCounted'
  BY InodesKept DEF Counted, References
<1>2. \A q \in Procs : \/ pc'[q] = pc[q]
                        \/ /\ pc[q] \notin Reading \cup Writing /\ pc'[q] \notin Reading \cup Writing
                           /\ ff[q] = NoFile
  BY DEF Reading, Writing
<1>3. Ends' /\ Sleepers'
  BY <1>2, EndsFrame
<1>4. Locals'
  BY SMTT(30) DEF Locals
<1>5. Copies'
  BY <1>2, SMTT(30) DEF Copies
<1> QED BY <1>1, <1>3, <1>4, <1>5

\* A process outside of every call has no copy and nothing in its locals.
LEMMA Quiet ==
  ASSUME FileInv, NEW p \in Procs, pc[p] \in {"run", "fork", "embryo", "unused", "dead"}
  PROVE  /\ pc[p] \notin Reading \cup Writing /\ pc[p] \notin Closing
         /\ ff[p] = NoFile /\ ofile[p][rf] = 0 /\ ofile[p][wf] = 0
<1>1. pc[p] \notin Reading \cup Writing /\ pc[p] \notin Closing /\ pc[p] \notin {"pipe1", "pipe2", "close"}
  BY SMTT(30) DEF Reading, Writing, Closing
<1> QED BY <1>1, SMTT(30) DEF FileInv, Copies, Locals

\* fork: the child.
LEMMA ForkStep ==
  ASSUME FileInv, NEW p \in Procs, NEW child \in Procs, Fork(p, child)
  PROVE  FileInv'
<1> USE DEF FileInv, RefsCounted
<1>1. /\ pc[p] = "run" /\ pc[child] = "unused" /\ np' = [np EXCEPT ![p] = child]
      /\ UNCHANGED <<ref, file, page, ilinks, ofile, killed, ff, left>>
  BY DEF Fork, Calls, files
<1>2. /\ pc' \in [Procs -> Paths] /\ pc'[p] = "fork" /\ pc'[child] = "embryo"
      /\ \A q \in Procs : q # p /\ q # child => pc'[q] = pc[q]
  BY <1>1, SMTT(30) DEF Fork, TypeOK, Paths
<1>3. TypeOK'
  <2>1. np' \in [Procs -> Procs \cup {NoProc}]
    BY <1>1, SMTT(30) DEF TypeOK
  <2> QED BY <1>1, <1>2, <2>1 DEF TypeOK
<1>4. \A i \in Places : ofile[child][i] = 0
  BY <1>1 DEF Locals
<1>5. Counted' /\ InodesCounted' /\ Locals' /\ Copies' /\ Ends' /\ Sleepers'
  <2>1. /\ pc[p] \notin Reading \cup Writing /\ ff[p] = NoFile /\ ofile[p][rf] = 0 /\ ofile[p][wf] = 0
        /\ pc[child] \notin Reading \cup Writing /\ ff[child] = NoFile
        /\ ofile[child][rf] = 0 /\ ofile[child][wf] = 0
    BY <1>1, Quiet
  <2> QED BY <1>1, <1>2, <2>1, QuietStep
<1>6. Forks'
  BY <1>1, <1>2, <1>4, PlacesAre, SMTT(30) DEF Forks, TypeOK
<1> QED BY <1>3, <1>5, <1>6

\* fork: a descriptor.
LEMMA ForkDupStep ==
  ASSUME FileInv, NEW p \in Procs, ForkDup(p)
  PROVE  FileInv'
<1> USE DEF FileInv, RefsCounted
<1> DEFINE c == np[p]
<1>1. PICK fd \in Fds : /\ ofile[c][fd] # ofile[p][fd]
                        /\ ref' = [ref EXCEPT ![ofile[p][fd]] = @ + 1]
                        /\ ofile' = [ofile EXCEPT ![c][fd] = ofile[p][fd]]
  BY DEF ForkDup, First, Uncopied, filedup
<1> DEFINE f == ofile[p][fd]
<1>2. pc[p] = "fork" /\ UNCHANGED <<file, page, ilinks, np, pc, killed, ff, left>>
  BY DEF ForkDup
<1>3. c \in Procs /\ pc[c] = "embryo" /\ ofile[c][fd] = 0 /\ f # 0
  BY <1>1, <1>2, SMTT(30) DEF Forks
<1>4. f \in FileIds /\ fd \in Places
  BY <1>3, Held, PlacesAre
<1>5. /\ ofile' \in [Procs -> [Places -> FileIds \cup {0}]]
      /\ ofile'[c][fd] = f
      /\ \A q \in Procs, j \in Places : q # c \/ j # fd => ofile'[q][j] = ofile[q][j]
  <2>1. /\ ofile' \in [Procs -> [Places -> FileIds \cup {0}]]
        /\ ofile'[c][fd] = f
        /\ Others(c, fd)
    BY <1>1, <1>3, <1>4, PlaceSet
  <2> QED BY <2>1 DEF Others
<1>6. TypeOK'
  BY <1>1, <1>2, <1>4, <1>5, SMTT(30) DEF TypeOK
<1>7. Counted'
  BY <1>1, <1>3, <1>4, ReferenceAdded
<1>8. InodesCounted' /\ Ends' /\ Sleepers'
  BY <1>2, InodesKept, EndsFrame
<1>9. /\ \A g \in FileIds : g # f => ref'[g] = ref[g]
      /\ ref'[f] # 0
  BY <1>1, <1>4, SMTT(30) DEF TypeOK
<1>10. Locals'
  <2>1. ASSUME NEW q \in Procs, NEW i \in {rf, wf}, ofile[q][i] # 0
        PROVE  ref'[ofile[q][i]] = 1
    <3>1. ref[ofile[q][i]] = 1 /\ i \in Places /\ i # fd
      BY <2>1, PlacesAre DEF Locals
    <3>2. ofile[q][i] # f /\ ofile[q][i] \in FileIds
      BY <1>4, <2>1, <3>1, Held
    <3> QED BY <1>9, <3>1, <3>2
  <2>2. \A q \in Procs, i \in {rf, wf} : ofile'[q][i] = ofile[q][i]
    BY <1>5, PlacesAre
  <2> QED BY <1>2, <1>3, <1>5, <2>1, <2>2, SMTT(30) DEF Locals
<1>11. Forks'
  BY <1>2, <1>3, <1>5, PlacesAre, SMTT(30) DEF Forks
<1>12. Copies'
  <2>1. \A q \in Procs : pc[q] \in Reading \cup Writing => q # c
    BY <1>3 DEF Reading, Writing
  <2> QED BY <1>2, <1>5, <1>9, <2>1, PlacesAre, SMTT(30) DEF Copies
<1> QED BY <1>6, <1>7, <1>8, <1>10, <1>11, <1>12

\* fork: the child runs.
LEMMA ForkDoneStep ==
  ASSUME FileInv, NEW p \in Procs, ForkDone(p)
  PROVE  FileInv'
<1> USE DEF FileInv, RefsCounted
<1> DEFINE c == np[p]
<1>1. /\ pc[p] = "fork" /\ np' = [np EXCEPT ![p] = NoProc]
      /\ UNCHANGED <<ref, file, page, ilinks, ofile, killed, ff, left>>
  BY DEF ForkDone, files
<1>2. c \in Procs /\ pc[c] = "embryo" /\ \A q \in Procs : pc[q] = "fork" /\ np[q] = c => q = p
  BY <1>1 DEF Forks
<1>3. /\ pc' \in [Procs -> Paths] /\ pc'[p] = "run" /\ pc'[c] = "run"
      /\ \A q \in Procs : q # p /\ q # c => pc'[q] = pc[q]
  BY <1>2, SMTT(30) DEF ForkDone, TypeOK, Paths
<1>4. TypeOK'
  <2>1. np' \in [Procs -> Procs \cup {NoProc}]
    BY <1>1, SMTT(30) DEF TypeOK
  <2> QED BY <1>1, <1>3, <2>1 DEF TypeOK
<1>5. Counted' /\ InodesCounted' /\ Locals' /\ Copies' /\ Ends' /\ Sleepers'
  <2>1. /\ pc[p] \notin Reading \cup Writing /\ ff[p] = NoFile /\ ofile[p][rf] = 0 /\ ofile[p][wf] = 0
        /\ pc[c] \notin Reading \cup Writing /\ ff[c] = NoFile /\ ofile[c][rf] = 0 /\ ofile[c][wf] = 0
    BY <1>1, <1>2, Quiet
  <2> QED BY <1>1, <1>3, <2>1, QuietStep
<1>6. Forks'
  BY <1>1, <1>2, <1>3, SMTT(30) DEF Forks, TypeOK
<1> QED BY <1>4, <1>5, <1>6

\* exit: the process starts to close its files.
LEMMA ExitStep ==
  ASSUME FileInv, NEW p \in Procs, Exit(p)
  PROVE  FileInv'
<1> USE DEF FileInv, RefsCounted
<1>1. /\ pc[p] = "run" /\ pc' = [pc EXCEPT ![p] = "exit"]
      /\ UNCHANGED <<ref, file, page, ilinks, ofile, np, killed, ff, left>>
  BY DEF Exit, files
<1>2. pc' \in [Procs -> Paths] /\ pc'[p] = "exit" /\ \A q \in Procs : q # p => pc'[q] = pc[q]
  BY <1>1, SMTT(30) DEF TypeOK, Paths, Closing
<1>3. TypeOK'
  BY <1>1, <1>2 DEF TypeOK
<1>4. Counted' /\ InodesCounted' /\ Locals' /\ Copies' /\ Ends' /\ Sleepers'
  <2>1. pc[p] \notin Reading \cup Writing /\ ff[p] = NoFile /\ ofile[p][rf] = 0 /\ ofile[p][wf] = 0
    BY <1>1, Quiet
  <2> QED BY <1>1, <1>2, <2>1, QuietStep
<1>5. Forks'
  BY <1>1, <1>2, SMTT(30) DEF Forks
<1> QED BY <1>3, <1>4, <1>5

\* wait: the slot is free again.
LEMMA ReapStep ==
  ASSUME FileInv, NEW p \in Procs, Reap(p)
  PROVE  FileInv'
<1> USE DEF FileInv, RefsCounted
<1>1. /\ pc[p] = "dead" /\ pc' = [pc EXCEPT ![p] = "unused"] /\ killed' = [killed EXCEPT ![p] = FALSE]
      /\ UNCHANGED <<ref, file, page, ilinks, ofile, np, ff, left>>
  BY DEF Reap, files
<1>2. pc' \in [Procs -> Paths] /\ pc'[p] = "unused" /\ \A q \in Procs : q # p => pc'[q] = pc[q]
  BY <1>1, SMTT(30) DEF TypeOK, Paths
<1>3. TypeOK'
  BY <1>1, <1>2, SMTT(30) DEF TypeOK
<1>4. Counted' /\ InodesCounted' /\ Locals' /\ Copies' /\ Ends' /\ Sleepers'
  <2>1. /\ pc[p] \notin Reading \cup Writing /\ ff[p] = NoFile /\ ofile[p][rf] = 0 /\ ofile[p][wf] = 0
        /\ \A i \in Places : ofile[p][i] = 0
    BY <1>1, Quiet DEF Locals
  <2> QED BY <1>1, <1>2, <2>1, QuietStep
<1>5. Forks'
  BY <1>1, <1>2, SMTT(30) DEF Forks
<1> QED BY <1>3, <1>4, <1>5

\* All is closed.
LEMMA CloseReturnsStep ==
  ASSUME FileInv, NEW p \in Procs, CloseReturns(p)
  PROVE  FileInv'
<1> USE DEF FileInv, RefsCounted
<1>1. /\ pc[p] \in {"close", "exit"} /\ ff[p] = NoFile /\ ToClose(p) = {}
      /\ pc' = [pc EXCEPT ![p] = IF @ = "exit" THEN "dead" ELSE "run"]
      /\ UNCHANGED <<ref, file, page, ilinks, ofile, np, killed, ff, left>>
  BY DEF CloseReturns, files
<1>2. /\ pc' \in [Procs -> Paths] /\ pc'[p] = IF pc[p] = "exit" THEN "dead" ELSE "run"
      /\ \A q \in Procs : q # p => pc'[q] = pc[q]
  BY <1>1, SMTT(30) DEF TypeOK, Paths
<1>3. TypeOK'
  BY <1>1, <1>2 DEF TypeOK
<1>4. /\ pc[p] \notin Reading \cup Writing /\ ofile[p][rf] = 0 /\ ofile[p][wf] = 0
      /\ pc[p] = "exit" => \A i \in Places : ofile[p][i] = 0
  BY <1>1, PlacesAre, SMTT(30) DEF ToClose, Locals, Reading, Writing
<1>5. Counted' /\ InodesCounted' /\ Locals' /\ Copies' /\ Ends' /\ Sleepers'
  BY <1>1, <1>2, <1>4, QuietStep
<1>6. Forks'
  BY <1>1, <1>2, SMTT(30) DEF Forks
<1> QED BY <1>3, <1>5, <1>6

-----------------------------------------------------------------------------
(***************************************************************************)
(* Allocating files.                                                       *)
(***************************************************************************)

\* filealloc for a place that is free.
LEMMA Allocated ==
  ASSUME TypeOK, Counted, NEW p \in Procs, NEW i \in Places, NEW f \in FileIds,
         ofile[p][i] = 0, Filealloc(p, i, f)
  PROVE  /\ Counted' /\ ref' \in [FileIds -> Nat]
         /\ ref[f] = 0 /\ ref'[f] = 1 /\ \A g \in FileIds : g # f => ref'[g] = ref[g]
         /\ ofile' \in [Procs -> [Places -> FileIds \cup {0}]] /\ ofile'[p][i] = f
         /\ \A q \in Procs, j \in Places : ofile[q][j] # f
         /\ \A q \in Procs, j \in Places : q # p \/ j # i => ofile'[q][j] = ofile[q][j]
<1>1. ref[f] = 0 /\ ref' = [ref EXCEPT ![f] = 1] /\ ofile' = [ofile EXCEPT ![p][i] = f]
  BY DEF Filealloc, First, FreeFiles
<1>2. ref' = [ref EXCEPT ![f] = @ + 1]
  BY <1>1, SMTT(30) DEF TypeOK
<1>3. Counted'
  BY <1>1, <1>2, ReferenceAdded
<1>4. ref' \in [FileIds -> Nat] /\ ref'[f] = 1 /\ \A g \in FileIds : g # f => ref'[g] = ref[g]
  BY <1>1, SMTT(30) DEF TypeOK
<1>5. \A q \in Procs, j \in Places : ofile[q][j] # f
  BY <1>1, Unheld
<1>6. /\ ofile' \in [Procs -> [Places -> FileIds \cup {0}]] /\ ofile'[p][i] = f
      /\ \A q \in Procs, j \in Places : q # p \/ j # i => ofile'[q][j] = ofile[q][j]
  <2>1. /\ ofile' \in [Procs -> [Places -> FileIds \cup {0}]] /\ ofile'[p][i] = f
        /\ Others(p, i)
    BY <1>1, PlaceSet
  <2> QED BY <2>1 DEF Others
<1> QED BY <1>1, <1>3, <1>4, <1>5, <1>6

\* The local variables of the others, and the descriptors of the processes in
\* fork, read and write, when p puts a new file in place i.
LEMMA AllocationFrame ==
  ASSUME FileInv, NEW p \in Procs, NEW i \in Places, NEW f \in FileIds,
         ofile[p][i] = 0, Filealloc(p, i, f), pc[p] \in {"run", "pipe1"},
         \A q \in Procs : q # p => pc'[q] = pc[q],
         pc'[p] \in {"run", "pipe1", "pipe2", "close"},
         \A g \in FileIds : g # f => file'[g] = file[g], UNCHANGED <<np, ff>>
  PROVE  Forks' /\ Copies'
<1> USE DEF FileInv, RefsCounted
<1>1. /\ ref[f] = 0 /\ ref'[f] = 1 /\ \A g \in FileIds : g # f => ref'[g] = ref[g]
      /\ \A q \in Procs, j \in Places : ofile[q][j] # f
      /\ \A q \in Procs, j \in Places : q # p \/ j # i => ofile'[q][j] = ofile[q][j]
  BY Allocated, SMTT(30)
<1>2. pc[p] \notin Reading \cup Writing /\ pc'[p] \notin Reading \cup Writing /\ pc[p] \notin Closing
  BY SMTT(30) DEF Reading, Writing, Closing
<1>3. Forks'
  BY <1>1, PlacesAre, SMTT(30) DEF Forks
<1>4. \A g \in FileIds : ref'[g] = 0 => file'[g] = NoFile
  BY <1>1, SMTT(30) DEF Copies
<1>5. ASSUME NEW q \in Procs
      PROVE  /\ ff[q] # NoFile => pc'[q] \in Closing \cup Reading \cup Writing
             /\ pc'[q] \in Reading \cup Writing =>
                  /\ ff[q] \in PipeEnds /\ (ff[q].writable <=> pc'[q] \in Writing)
                  /\ \E fd \in Fds : ofile'[q][fd] # 0 /\ file'[ofile'[q][fd]] = ff[q]
  <2>1. CASE q = p
    BY <1>2, <2>1 DEF Copies
  <2>2. CASE q # p
    <3>1. ASSUME NEW fd \in Fds
          PROVE  /\ ofile'[q][fd] = ofile[q][fd]
                 /\ ofile[q][fd] # 0 => file'[ofile[q][fd]] = file[ofile[q][fd]]
      <4>1. fd \in Places /\ ofile[q][fd] # f /\ ofile'[q][fd] = ofile[q][fd]
        BY <1>1, <2>2, PlacesAre
      <4>2. ofile[q][fd] # 0 => ofile[q][fd] \in FileIds
        BY <4>1, Held
      <4> QED BY <4>1, <4>2
    <3> QED BY <2>2, <3>1, SMTT(30) DEF Copies
  <2> QED BY <2>1, <2>2
<1>6. Copies'
  BY <1>4, <1>5 DEF Copies
<1> QED BY <1>3, <1>6

\* A new file for a local variable of p.
LEMMA LocalStep ==
  ASSUME FileInv, NEW p \in Procs, NEW i \in {rf, wf}, NEW f \in FileIds, NEW s,
         Filealloc(p, i, f), pc' = [pc EXCEPT ![p] = s],
         \/ i = rf /\ pc[p] = "run" /\ s \in {"close", "pipe1"}
         \/ i = wf /\ pc[p] = "pipe1" /\ s = "pipe2",
         UNCHANGED <<file, page, ilinks, np, killed, ff, left>>
  PROVE  FileInv'
<1> USE DEF FileInv, RefsCounted
<1>1. i \in Places /\ rf \in Places /\ wf \in Places /\ rf # wf
  BY PlacesAre
<1>2. ofile[p][i] = 0 /\ ofile[p][wf] = 0 /\ (pc[p] = "run" => ofile[p][rf] = 0)
  BY <1>1, SMTT(30) DEF Locals
<1>3. /\ Counted' /\ ref' \in [FileIds -> Nat]
      /\ ref[f] = 0 /\ ref'[f] = 1 /\ \A g \in FileIds : g # f => ref'[g] = ref[g]
      /\ ofile' \in [Procs -> [Places -> FileIds \cup {0}]] /\ ofile'[p][i] = f
      /\ \A q \in Procs, j \in Places : ofile[q][j] # f
      /\ \A q \in Procs, j \in Places : q # p \/ j # i => ofile'[q][j] = ofile[q][j]
  BY <1>1, <1>2, Allocated, SMTT(30)
<1>4. pc' \in [Procs -> Paths] /\ pc'[p] = s /\ \A q \in Procs : q # p => pc'[q] = pc[q]
  BY SMTT(30) DEF TypeOK, Paths, Closing
<1>5. TypeOK'
  BY <1>3, <1>4 DEF TypeOK
<1>6. /\ s \notin Reading \cup Writing /\ pc[p] \notin Reading \cup Writing /\ pc[p] \notin Closing
      /\ ff[p] = NoFile
  <2>1. s \notin Reading \cup Writing /\ pc[p] \notin Reading \cup Writing /\ pc[p] \notin Closing
    BY SMTT(30) DEF Reading, Writing, Closing
  <2> QED BY <2>1 DEF Copies
<1>7. InodesCounted' /\ Ends' /\ Sleepers'
  BY <1>4, <1>6, InodesKept, EndsFrame
<1>8. Forks' /\ Copies'
  BY <1>1, <1>2, <1>4, AllocationFrame, SMTT(30)
<1>9. Locals'
  <2>1. ASSUME NEW q \in Procs, NEW j \in {rf, wf}, ofile[q][j] # 0
        PROVE  ref'[ofile[q][j]] = ref[ofile[q][j]]
    <3>1. j \in Places
      BY <1>1
    <3>2. ofile[q][j] \in FileIds /\ ofile[q][j] # f
      BY <1>3, <2>1, <3>1, Held
    <3> QED BY <1>3, <3>2
  <2>2. file[f] = NoFile /\ f # 0
    BY <1>3, PlacesAre DEF Copies
  <2> QED BY <1>1, <1>2, <1>3, <1>4, <2>1, <2>2, SMTT(30) DEF Locals
<1> QED BY <1>3, <1>5, <1>7, <1>8, <1>9

\* sys_open: a descriptor, or a file that is closed again.
LEMMA SysOpenStep ==
  ASSUME FileInv, NEW p \in Procs, SysOpen(p)
  PROVE  FileInv'
<1> USE DEF FileInv, RefsCounted
<1>1. pc[p] = "run" /\ UNCHANGED <<page, np, killed, ff, left>>
  BY DEF SysOpen, Calls
<1>2. ff[p] = NoFile /\ ofile[p][rf] = 0 /\ ofile[p][wf] = 0
  BY <1>1, Quiet
<1>3. PICK f \in FileIds :
        \/ /\ \E fd \in Fds : First(fd, FreeFds(p)) /\ Filealloc(p, fd, f)
           /\ file' = [file EXCEPT ![f] = InodeFile] /\ ilinks' = ilinks + 1 /\ UNCHANGED pc
        \/ /\ Filealloc(p, rf, f) /\ pc' = [pc EXCEPT ![p] = "close"]
           /\ UNCHANGED <<file, ilinks>>
  BY DEF SysOpen
<1>4. CASE /\ \E fd \in Fds : First(fd, FreeFds(p)) /\ Filealloc(p, fd, f)
           /\ file' = [file EXCEPT ![f] = InodeFile] /\ ilinks' = ilinks + 1 /\ UNCHANGED pc
  <2>1. PICK fd \in Fds : ofile[p][fd] = 0 /\ Filealloc(p, fd, f)
    BY <1>4 DEF First, FreeFds
  <2>2. fd \in Places /\ fd # rf /\ fd # wf
    BY PlacesAre
  <2>3. /\ Counted' /\ ref' \in [FileIds -> Nat]
        /\ ref[f] = 0 /\ ref'[f] = 1 /\ \A g \in FileIds : g # f => ref'[g] = ref[g]
        /\ ofile' \in [Procs -> [Places -> FileIds \cup {0}]] /\ ofile'[p][fd] = f
        /\ \A q \in Procs, j \in Places : ofile[q][j] # f
        /\ \A q \in Procs, j \in Places : q # p \/ j # fd => ofile'[q][j] = ofile[q][j]
    BY <2>1, <2>2, Allocated, SMTT(30)
  <2>4. /\ file[f] = NoFile /\ file'[f] = InodeFile /\ file' \in [FileIds -> OpenFiles]
        /\ \A g \in FileIds : g # f => file'[g] = file[g]
    BY <1>4, <2>3, SMTT(30) DEF Copies, TypeOK, OpenFiles
  <2>5. TypeOK'
    <3>1. ilinks' \in Nat
      BY <1>4, SMTT(30) DEF TypeOK
    <3> QED BY <1>1, <1>4, <2>3, <2>4, <3>1 DEF TypeOK
  <2>6. InodesCounted'
    BY <1>1, <1>4, <2>4, KindsDiffer, InodeOpened
  <2>7. Ends' /\ Sleepers'
    <3>1. \A g \in FileIds, e \in PipeEnds : file'[g] = e <=> file[g] = e
      BY <2>4, EndsDiffer
    <3> QED BY <1>1, <1>4, <3>1, EndsKept
  <2>8. Forks' /\ Copies'
    BY <1>1, <1>4, <2>1, <2>2, <2>4, AllocationFrame
  <2>9. Locals'
    <3>1. ASSUME NEW q \in Procs, NEW i \in {rf, wf}, ofile[q][i] # 0
          PROVE  ref'[ofile[q][i]] = ref[ofile[q][i]] /\ file'[ofile[q][i]] = file[ofile[q][i]]
      <4>1. i \in Places
        BY PlacesAre
      <4>2. ofile[q][i] \in FileIds /\ ofile[q][i] # f
        BY <2>3, <3>1, <4>1, Held
      <4> QED BY <2>3, <2>4, <4>2
    <3>2. ASSUME NEW q \in Procs, NEW i \in {rf, wf} PROVE ofile'[q][i] = ofile[q][i]
      <4>1. i \in Places /\ i # fd
        BY <2>2, PlacesAre
      <4> QED BY <2>3, <4>1
    <3> QED BY <1>1, <1>4, <2>3, <3>1, <3>2, SMTT(30) DEF Locals
  <2> QED BY <2>3, <2>5, <2>6, <2>7, <2>8, <2>9
<1>5. CASE /\ Filealloc(p, rf, f) /\ pc' = [pc EXCEPT ![p] = "close"]
           /\ UNCHANGED <<file, ilinks>>
  BY <1>1, <1>5, LocalStep DEF TypeOK
<1> QED BY <1>3, <1>4, <1>5

\* The first file of sys_pipe.
LEMMA SysPipeStep ==
  ASSUME FileInv, NEW p \in Procs, SysPipe(p)
  PROVE  FileInv'
<1>1. PICK f \in FileIds : Filealloc(p, rf, f)
  BY DEF SysPipe
<1>2. /\ pc[p] = "run" /\ pc' = [pc EXCEPT ![p] = "pipe1"]
      /\ UNCHANGED <<file, page, ilinks, np, killed, ff, left>>
  BY DEF SysPipe, Calls
<1> QED BY <1>1, <1>2, LocalStep

\* A failing sys_pipe closes what it has allocated.
LEMMA GivesUp ==
  ASSUME FileInv, NEW p \in Procs, pc[p] \in {"pipe1", "pipe2"}, pc' = [pc EXCEPT ![p] = "close"],
         UNCHANGED <<ref, file, page, ilinks, ofile, np, killed, ff, left>>
  PROVE  FileInv'
<1> USE DEF FileInv, RefsCounted
<1>1. pc' \in [Procs -> Paths] /\ pc'[p] = "close" /\ \A q \in Procs : q # p => pc'[q] = pc[q]
  BY SMTT(30) DEF TypeOK, Paths, Closing
<1>2. TypeOK'
  BY <1>1 DEF TypeOK
<1>3. /\ pc[p] \notin Reading \cup Writing /\ pc'[p] \notin Reading \cup Writing /\ pc[p] \notin Closing
      /\ ff[p] = NoFile
  <2>1. pc[p] \notin Reading \cup Writing /\ pc'[p] \notin Reading \cup Writing /\ pc[p] \notin Closing
    BY <1>1, SMTT(30) DEF Reading, Writing, Closing
  <2> QED BY <2>1 DEF Copies
<1>4. Counted' /\ InodesCounted' /\ Ends' /\ Sleepers'
  BY <1>1, <1>3, InodesKept, EndsFrame DEF Counted, References
<1>5. Locals'
  BY <1>1, SMTT(30) DEF Locals
<1>6. Forks'
  BY <1>1, SMTT(30) DEF Forks
<1>7. Copies'
  BY <1>1, <1>3, SMTT(30) DEF Copies
<1> QED BY <1>2, <1>4, <1>5, <1>6, <1>7

\* The second file, or none is left.
LEMMA PipeFileStep ==
  ASSUME FileInv, NEW p \in Procs, PipeFile(p)
  PROVE  FileInv'
<1>1. pc[p] = "pipe1" /\ UNCHANGED <<file, page, ilinks, np, killed, ff, left>>
  BY DEF PipeFile
<1>2. CASE \E f \in FileIds : Filealloc(p, wf, f) /\ pc' = [pc EXCEPT ![p] = "pipe2"]
  BY <1>1, <1>2, LocalStep
<1>3. CASE pc' = [pc EXCEPT ![p] = "close"] /\ UNCHANGED <<ref, ofile>>
  BY <1>1, <1>3, GivesUp
<1> QED BY <1>2, <1>3 DEF PipeFile

-----------------------------------------------------------------------------
(***************************************************************************)
(* fileclose.                                                              *)
(***************************************************************************)

\* The file that stands for an end becomes a close of that end.
LEMMA EndsMoved ==
  ASSUME Ends, NEW p \in Procs, NEW f \in FileIds, file[f] \in PipeEnds, UNCHANGED page,
         file'[f] = NoFile, \A g \in FileIds : g # f => file'[g] = file[g],
         ff[p] = NoFile, ff'[p] = file[f], \A q \in Procs : q # p => ff'[q] = ff[q],
         pc'[p] \in Closing, \A q \in Procs : q # p => pc'[q] = pc[q]
  PROVE  Ends'
<1>1. \A g \in Pages, w \in BOOLEAN : PipeEnd(g, w) \in PipeEnds
  BY SMTT(30) DEF PipeEnds
<1>2. \A e \in PipeEnds : e # NoFile
  BY EndsDiffer
<1>3. ASSUME NEW g \in Pages, NEW w \in BOOLEAN
      PROVE  EndOpen(g, w)' <=>
               \/ \E h \in FileIds : file'[h] = PipeEnd(g, w)
               \/ \E q \in Procs : pc'[q] \in Closing /\ ff'[q] = PipeEnd(g, w)
  <2>1. EndOpen(g, w) <=>
          \/ \E h \in FileIds : file[h] = PipeEnd(g, w)
          \/ \E q \in Procs : pc[q] \in Closing /\ ff[q] = PipeEnd(g, w)
    BY SMTT(30) DEF Ends
  <2>2. EndOpen(g, w)' <=> EndOpen(g, w)
    BY DEF EndOpen
  <2> QED BY <1>1, <1>2, <2>1, <2>2, SMTT(30)
<1>4. ASSUME NEW e \in PipeEnds
      PROVE  /\ \A g, h \in FileIds : file'[g] = e /\ file'[h] = e => g = h
             /\ \A q, r \in Procs :
                  pc'[q] \in Closing /\ ff'[q] = e /\ pc'[r] \in Closing /\ ff'[r] = e => q = r
             /\ \A g \in FileIds, q \in Procs : ~(file'[g] = e /\ pc'[q] \in Closing /\ ff'[q] = e)
  BY <1>2, SMTT(30) DEF Ends
<1>5. \A g \in Pages : page'[g].used <=> page'[g].readopen \/ page'[g].writeopen
  BY DEF Ends
<1> QED BY <1>3, <1>4, <1>5 DEF Ends

\* The section of fileclose under ftable.lock, of p that is about to close.
LEMMA FilecloseStep ==
  ASSUME FileInv, NEW p \in Procs, NEW i \in Places, Fileclose(p, i), ff[p] = NoFile,
         UNCHANGED <<page, ilinks, np, killed, left>>, pc' \in [Procs -> Paths],
         \A q \in Procs : q # p => pc'[q] = pc[q],
         \/ pc[p] = "run" /\ pc'[p] = "close"
         \/ pc[p] \in Closing /\ pc'[p] = pc[p]
  PROVE  FileInv'
<1> USE DEF FileInv, RefsCounted
<1> DEFINE f == ofile[p][i]
           last == ~(ref[f] > 1)
<1>1. /\ f # 0 /\ ref' = [ref EXCEPT ![f] = @ - 1] /\ ofile' = [ofile EXCEPT ![p][i] = 0]
      /\ ~last => UNCHANGED <<file, ff>>
      /\ last => ff' = [ff EXCEPT ![p] = file[f]] /\ file' = [file EXCEPT ![f] = NoFile]
  BY DEF Fileclose
<1>2. /\ f \in FileIds /\ ref[f] \in Nat /\ ref[f] # 0
      /\ ref[f] = 1 => \A q \in Procs, j \in Places : ofile[q][j] = f => q = p /\ j = i
  BY <1>1, Held
<1>3. last <=> ref[f] = 1
  BY <1>2, SMTT(30)
<1>4. /\ ofile' \in [Procs -> [Places -> FileIds \cup {0}]] /\ ofile'[p][i] = 0
      /\ \A q \in Procs, j \in Places : q # p \/ j # i => ofile'[q][j] = ofile[q][j]
  <2>1. /\ ofile' \in [Procs -> [Places -> FileIds \cup {0}]] /\ ofile'[p][i] = 0
        /\ Others(p, i)
    BY <1>1, PlaceSet
  <2> QED BY <2>1 DEF Others
<1>5. /\ ref' \in [FileIds -> Nat] /\ \A g \in FileIds : g # f => ref'[g] = ref[g]
      /\ ref'[f] = 0 <=> last
  <2> HIDE DEF f
  <2>1. ref \in [FileIds -> Nat] /\ ref' = [ref EXCEPT ![f] = ref[f] - 1]
    BY <1>1, <1>2 DEF TypeOK
  <2>2. ref[f] - 1 \in Nat /\ (ref[f] - 1 = 0 <=> ref[f] = 1)
    BY <1>2, SMTT(30)
  <2> HIDE DEF last
  <2> QED BY <1>2, <1>3, <2>1, <2>2
<1>6. /\ file' \in [FileIds -> OpenFiles] /\ ff' \in [Procs -> OpenFiles]
      /\ \A g \in FileIds : g # f => file'[g] = file[g]
      /\ \A q \in Procs : q # p => ff'[q] = ff[q]
      /\ last => file'[f] = NoFile /\ ff'[p] = file[f]
      /\ ~last => file'[f] = file[f] /\ ff'[p] = NoFile
  <2>1. CASE last
    BY <1>1, <1>2, <2>1 DEF TypeOK, OpenFiles
  <2>2. CASE ~last
    BY <1>1, <2>2 DEF TypeOK
  <2> QED BY <2>1, <2>2
<1> HIDE DEF last
<1>7. TypeOK'
  BY <1>4, <1>5, <1>6 DEF TypeOK
<1>8. Counted'
  BY <1>1, ReferenceDropped
<1>9. InodesCounted'
  <2>1. CASE last /\ file[f] = InodeFile
    BY <1>1, <1>2, <2>1, KindsDiffer, InodeMoved
  <2>2. CASE ~(last /\ file[f] = InodeFile)
    <3>1. \A g \in FileIds : file'[g] = InodeFile <=> file[g] = InodeFile
      BY <1>2, <1>6, <2>2, KindsDiffer
    <3>2. \A q \in Procs : ff'[q] = InodeFile <=> ff[q] = InodeFile
      BY <1>6, <2>2, KindsDiffer
    <3> QED BY <3>1, <3>2, InodesKept
  <2> QED BY <2>1, <2>2
<1>10. /\ pc[p] \notin Reading \cup Writing /\ pc'[p] \notin Reading \cup Writing
       /\ pc'[p] \in Closing /\ pc[p] \notin {"fork", "embryo"} /\ pc'[p] \notin {"fork", "embryo"}
  BY SMTT(30) DEF Reading, Writing, Closing
<1>11. Locals'
  <2>1. ASSUME NEW q \in Procs, NEW j \in {rf, wf}, ofile'[q][j] # 0
        PROVE  /\ ofile'[q][j] = ofile[q][j] /\ ref'[ofile[q][j]] = ref[ofile[q][j]]
               /\ file'[ofile[q][j]] = file[ofile[q][j]]
    <3>1. j \in Places
      BY PlacesAre
    <3>2. (q # p \/ j # i) /\ ofile'[q][j] = ofile[q][j]
      BY <1>4, <2>1, <3>1
    <3>3. ofile[q][j] \in FileIds /\ ref[ofile[q][j]] = 1
      BY <2>1, <3>1, <3>2, Held DEF Locals
    <3>4. ofile[q][j] # f
      BY <1>2, <3>1, <3>2, <3>3
    <3> QED BY <1>5, <1>6, <3>2, <3>3, <3>4
  <2>2. pc[p] = "run" => ofile[p][rf] = 0 /\ ofile[p][wf] = 0
    BY Quiet
  <2>3. rf \in Places /\ wf \in Places
    BY PlacesAre
  <2>4. pc'[p] \notin {"pipe1", "pipe2", "unused", "dead"}
    BY SMTT(30) DEF Closing
  <2> QED BY <1>4, <2>1, <2>2, <2>3, <2>4, SMTT(30) DEF Locals
<1>12. Forks'
  BY <1>4, <1>10, PlacesAre, SMTT(30) DEF Forks
<1>13. Copies'
  <2>1. \A g \in FileIds : ref'[g] = 0 => file'[g] = NoFile
    BY <1>5, <1>6, SMTT(30) DEF Copies
  <2>2. ASSUME NEW q \in Procs
        PROVE  /\ ff'[q] # NoFile => pc'[q] \in Closing \cup Reading \cup Writing
               /\ pc'[q] \in Reading \cup Writing =>
                    /\ ff'[q] \in PipeEnds /\ (ff'[q].writable <=> pc'[q] \in Writing)
                    /\ \E fd \in Fds : ofile'[q][fd] # 0 /\ file'[ofile'[q][fd]] = ff'[q]
    <3>1. CASE q = p
      BY <1>10, <3>1
    <3>2. CASE q # p
      <4>1. ASSUME NEW fd \in Fds
            PROVE  /\ ofile'[q][fd] = ofile[q][fd]
                   /\ ofile[q][fd] # 0 => file'[ofile[q][fd]] = file[ofile[q][fd]]
        <5>1. fd \in Places /\ ofile'[q][fd] = ofile[q][fd] /\ (last => ofile[q][fd] # f)
          BY <1>2, <1>3, <1>4, <3>2, PlacesAre
        <5>2. ofile[q][fd] # 0 => ofile[q][fd] \in FileIds
          BY <5>1, Held
        <5> QED BY <1>6, <5>1, <5>2
      <4> QED BY <1>6, <3>2, <4>1, SMTT(30) DEF Copies
    <3> QED BY <3>1, <3>2
  <2> QED BY <2>1, <2>2 DEF Copies
<1>14. Sleepers'
  BY <1>6, <1>10, SleepersKept, SMTT(30)
<1>15. Ends'
  <2>1. CASE last /\ file[f] \in PipeEnds
    BY <1>2, <1>6, <1>10, <2>1, EndsMoved
  <2>2. CASE ~(last /\ file[f] \in PipeEnds)
    <3>1. \A g \in FileIds, e \in PipeEnds : file'[g] = e <=> file[g] = e
      BY <1>2, <1>6, <2>2, EndsDiffer, SMTT(30)
    <3>2. \A q \in Procs, e \in PipeEnds :
            pc'[q] \in Closing /\ ff'[q] = e <=> pc[q] \in Closing /\ ff[q] = e
      BY <1>6, <2>2, EndsDiffer, SMTT(30)
    <3>3. /\ \A q \in Procs, s \in Reading \cup Writing : pc'[q] = s <=> pc[q] = s
          /\ \A q \in Procs : pc[q] \in Reading \cup Writing => ff'[q] = ff[q]
      BY <1>6, <1>10
    <3> QED BY <3>1, <3>2, <3>3, EndsKept
  <2> QED BY <2>1, <2>2
<1> QED BY <1>7, <1>8, <1>9, <1>11, <1>12, <1>13, <1>14, <1>15

\* sys_close.
LEMMA SysCloseStep ==
  ASSUME FileInv, NEW p \in Procs, NEW fd \in Fds, SysClose(p, fd)
  PROVE  FileInv'
<1>1. /\ pc[p] = "run" /\ Fileclose(p, fd) /\ pc' = [pc EXCEPT ![p] = "close"]
      /\ UNCHANGED <<page, ilinks, np, killed, left>>
  BY DEF SysClose, Calls
<1>2. pc' \in [Procs -> Paths] /\ pc'[p] = "close" /\ \A q \in Procs : q # p => pc'[q] = pc[q]
  BY <1>1, SMTT(30) DEF FileInv, RefsCounted, TypeOK, Paths, Closing
<1>3. ff[p] = NoFile /\ fd \in Places
  BY <1>1, Quiet, PlacesAre
<1> QED BY <1>1, <1>2, <1>3, FilecloseStep

\* The next file of a failing call, or of exit.
LEMMA CloseNextStep ==
  ASSUME FileInv, NEW p \in Procs, CloseNext(p)
  PROVE  FileInv'
<1>1. PICK i \in Places : Fileclose(p, i)
  BY DEF CloseNext
<1>2. pc[p] \in Closing /\ ff[p] = NoFile /\ UNCHANGED <<page, ilinks, np, pc, killed, left>>
  BY DEF CloseNext, Closing
<1>3. pc' \in [Procs -> Paths]
  BY <1>2 DEF FileInv, RefsCounted, TypeOK
<1> QED BY <1>1, <1>2, <1>3, FilecloseStep

\* Steps inside read and write leave the descriptors alone.
LEMMA TransferFrame ==
  ASSUME Locals, Forks, UNCHANGED <<ref, file, ofile, np>>,
         \A q \in Procs : \/ pc'[q] = pc[q]
                          \/ /\ pc[q] \in Reading \cup Writing \cup {"run"}
                             /\ pc'[q] \in Reading \cup Writing \cup {"run"}
  PROVE  Locals' /\ Forks'
<1>1. ASSUME NEW q \in Procs, NEW s \in {"pipe1", "pipe2", "close", "unused", "dead", "fork", "embryo"}
      PROVE  pc'[q] = s <=> pc[q] = s
  BY SMTT(30) DEF Reading, Writing
<1>2. Locals'
  BY <1>1, SMTT(30) DEF Locals
<1>3. Forks'
  BY <1>1, SMTT(30) DEF Forks
<1> QED BY <1>2, <1>3

\* wakeup of the readers of a pipe.
LEMMA ReadersWoken ==
  ASSUME TypeOK, NEW g
  PROVE  /\ Wake(g, "readsleep", "read") \in [Procs -> Paths]
         /\ \A q \in Procs : pc[q] = "readsleep" /\ ff[q].pipe = g => Wake(g, "readsleep", "read")[q] = "read"
         /\ \A q \in Procs : ~(pc[q] = "readsleep" /\ ff[q].pipe = g) => Wake(g, "readsleep", "read")[q] = pc[q]
BY SMTT(30) DEF Wake, TypeOK, Paths, Reading, Writing

\* wakeup of its writers.
LEMMA WritersWoken ==
  ASSUME TypeOK, NEW g
  PROVE  /\ Wake(g, "writesleep", "write") \in [Procs -> Paths]
         /\ \A q \in Procs : pc[q] = "writesleep" /\ ff[q].pipe = g => Wake(g, "writesleep", "write")[q] = "write"
         /\ \A q \in Procs : ~(pc[q] = "writesleep" /\ ff[q].pipe = g) => Wake(g, "writesleep", "write")[q] = pc[q]
BY SMTT(30) DEF Wake, TypeOK, Paths, Reading, Writing

\* A process that is woken goes on with the same call.
LEMMA SameCall ==
  ASSUME NEW s, NEW t, s = t \/ (s = "readsleep" /\ t = "read") \/ (s = "writesleep" /\ t = "write")
  PROVE  /\ t \in Reading <=> s \in Reading
         /\ t \in Writing <=> s \in Writing
         /\ t \in Closing <=> s \in Closing
BY SMTT(30) DEF Reading, Writing, Closing

\* What the remainder is within three times Width.
LEMMA Wraps ==
  ASSUME NEW n \in Nat
  PROVE  /\ n < Width => n % Width = n
         /\ Width <= n /\ n < 2 * Width => n % Width = n - Width
         /\ 2 * Width <= n /\ n < 3 * Width => n % Width = n - 2 * Width
<1>1. n < Width => n % Width = n
  BY PipeAssumption, SMTT(30)
<1>2. Width <= n /\ n < 2 * Width => n % Width = n - Width
  BY PipeAssumption, SMTT(30)
<1>3. 2 * Width <= n /\ n < 3 * Width => n % Width = n - 2 * Width
  BY PipeAssumption, SMTT(30)
<1> QED BY <1>1, <1>2, <1>3

\* A freed page, and a new pipe.
LEMMA PagesAre ==
  /\ FreePage \in Pipes /\ FreePage.lock = NoProc
  /\ ~FreePage.used /\ ~FreePage.readopen /\ ~FreePage.writeopen
  /\ NewPipe \in Pipes /\ NewPipe.lock = NoProc
  /\ NewPipe.used /\ NewPipe.readopen /\ NewPipe.writeopen
<1>1. (CHOOSE c \in Bytes : TRUE) \in Bytes
  BY PipeAssumption
<1> DEFINE d == [i \in 0..(PIPESIZE - 1) |-> CHOOSE c \in Bytes : TRUE]
           R == [used : BOOLEAN, lock : Procs \cup {NoProc}, readopen : BOOLEAN, writeopen : BOOLEAN,
                 nread : 0..(Width - 1), nwrite : 0..(Width - 1), data : [0..(PIPESIZE - 1) -> Bytes]]
<1>2. d \in [0..(PIPESIZE - 1) -> Bytes] /\ 0 \in 0..(Width - 1)
  BY <1>1, PipeAssumption, SMTT(30)
<1>3. FreePage \in R /\ FreePage.nread = 0 /\ FreePage.nwrite = 0
  BY <1>2 DEF FreePage
<1>4. NewPipe \in R /\ NewPipe.nread = 0 /\ NewPipe.nwrite = 0
  <2> HIDE DEF d
  <2> QED BY <1>2, <1>3 DEF NewPipe, FreePage
<1>5. (0 + Width - 0) % Width <= PIPESIZE
  BY PipeAssumption, Wraps, SMTT(30)
<1>6. FreePage \in Pipes /\ NewPipe \in Pipes
  BY <1>3, <1>4, <1>5 DEF Pipes, Count
<1> QED BY <1>6 DEF FreePage, NewPipe

\* What changes when one field of a pipe does.
LEMMA ReadopenSet ==
  ASSUME NEW x \in Pipes, NEW b \in BOOLEAN
  PROVE  /\ [x EXCEPT !.readopen = b] \in Pipes
         /\ [x EXCEPT !.readopen = b].used = x.used
         /\ [x EXCEPT !.readopen = b].lock = x.lock
         /\ [x EXCEPT !.readopen = b].readopen = b
         /\ [x EXCEPT !.readopen = b].writeopen = x.writeopen
<1> DEFINE I == 0..(Width - 1)  D == [0..(PIPESIZE - 1) -> Bytes]  L == Procs \cup {NoProc}
           R == [used : BOOLEAN, lock : L, readopen : BOOLEAN, writeopen : BOOLEAN,
                 nread : I, nwrite : I, data : D]
<1>1. x \in R /\ Count(x) <= PIPESIZE
  BY DEF Pipes
<1>2. /\ [x EXCEPT !.readopen = b] \in R
      /\ [x EXCEPT !.readopen = b].nread = x.nread
      /\ [x EXCEPT !.readopen = b].nwrite = x.nwrite
      /\ [x EXCEPT !.readopen = b].used = x.used
      /\ [x EXCEPT !.readopen = b].lock = x.lock
      /\ [x EXCEPT !.readopen = b].readopen = b
      /\ [x EXCEPT !.readopen = b].writeopen = x.writeopen
  <2> HIDE DEF I, D
  <2> QED BY <1>1
<1>3. [x EXCEPT !.readopen = b] \in Pipes
  BY <1>1, <1>2 DEF Pipes, Count
<1> QED BY <1>2, <1>3

\* The same for the writing end.
LEMMA WriteopenSet ==
  ASSUME NEW x \in Pipes, NEW b \in BOOLEAN
  PROVE  /\ [x EXCEPT !.writeopen = b] \in Pipes
         /\ [x EXCEPT !.writeopen = b].used = x.used
         /\ [x EXCEPT !.writeopen = b].lock = x.lock
         /\ [x EXCEPT !.writeopen = b].readopen = x.readopen
         /\ [x EXCEPT !.writeopen = b].writeopen = b
<1> DEFINE I == 0..(Width - 1)  D == [0..(PIPESIZE - 1) -> Bytes]  L == Procs \cup {NoProc}
           R == [used : BOOLEAN, lock : L, readopen : BOOLEAN, writeopen : BOOLEAN,
                 nread : I, nwrite : I, data : D]
<1>1. x \in R /\ Count(x) <= PIPESIZE
  BY DEF Pipes
<1>2. /\ [x EXCEPT !.writeopen = b] \in R
      /\ [x EXCEPT !.writeopen = b].nread = x.nread
      /\ [x EXCEPT !.writeopen = b].nwrite = x.nwrite
      /\ [x EXCEPT !.writeopen = b].used = x.used
      /\ [x EXCEPT !.writeopen = b].lock = x.lock
      /\ [x EXCEPT !.writeopen = b].readopen = x.readopen
      /\ [x EXCEPT !.writeopen = b].writeopen = b
  <2> HIDE DEF I, D
  <2> QED BY <1>1
<1>3. [x EXCEPT !.writeopen = b] \in Pipes
  BY <1>1, <1>2 DEF Pipes, Count
<1> QED BY <1>2, <1>3

\* Taking and giving back the lock of a pipe.
LEMMA LockSet ==
  ASSUME NEW x \in Pipes, NEW l \in Procs \cup {NoProc}
  PROVE  /\ [x EXCEPT !.lock = l] \in Pipes
         /\ [x EXCEPT !.lock = l].used = x.used
         /\ [x EXCEPT !.lock = l].lock = l
         /\ [x EXCEPT !.lock = l].readopen = x.readopen
         /\ [x EXCEPT !.lock = l].writeopen = x.writeopen
         /\ Full([x EXCEPT !.lock = l]) <=> Full(x)
<1> DEFINE I == 0..(Width - 1)  D == [0..(PIPESIZE - 1) -> Bytes]  L == Procs \cup {NoProc}
           R == [used : BOOLEAN, lock : L, readopen : BOOLEAN, writeopen : BOOLEAN,
                 nread : I, nwrite : I, data : D]
<1>1. x \in R /\ Count(x) <= PIPESIZE
  BY DEF Pipes
<1>2. /\ [x EXCEPT !.lock = l] \in R
      /\ [x EXCEPT !.lock = l].nread = x.nread
      /\ [x EXCEPT !.lock = l].nwrite = x.nwrite
      /\ [x EXCEPT !.lock = l].used = x.used
      /\ [x EXCEPT !.lock = l].lock = l
      /\ [x EXCEPT !.lock = l].readopen = x.readopen
      /\ [x EXCEPT !.lock = l].writeopen = x.writeopen
  <2> HIDE DEF I, D
  <2> QED BY <1>1
<1>3. [x EXCEPT !.lock = l] \in Pipes
  BY <1>1, <1>2 DEF Pipes, Count
<1> QED BY <1>2, <1>3 DEF Full

\* pipeclose closes one end, and the page is in use while the other is open.
LEMMA EndClosed ==
  ASSUME NEW x \in Pipes, NEW w \in BOOLEAN, x.lock = NoProc
  PROVE  LET y == pipeclose(x, w) IN
         /\ y \in Pipes /\ y.lock = NoProc
         /\ y.writeopen <=> x.writeopen /\ ~w
         /\ y.readopen <=> x.readopen /\ w
         /\ (x.used <=> x.readopen \/ x.writeopen) => (y.used <=> y.readopen \/ y.writeopen)
<1>1. x.readopen \in BOOLEAN /\ x.writeopen \in BOOLEAN /\ x.used \in BOOLEAN
  BY DEF Pipes
<1>2. CASE w /\ x.readopen
  <2>1. pipeclose(x, w) = [x EXCEPT !.writeopen = FALSE]
    BY <1>2 DEF pipeclose
  <2> QED BY <1>1, <1>2, <2>1, WriteopenSet
<1>3. CASE ~w /\ x.writeopen
  <2>1. pipeclose(x, w) = [x EXCEPT !.readopen = FALSE]
    BY <1>3 DEF pipeclose
  <2> QED BY <1>1, <1>3, <2>1, ReadopenSet
<1>4. CASE (w /\ ~x.readopen) \/ (~w /\ ~x.writeopen)
  <2>1. pipeclose(x, w) = FreePage
    BY <1>4 DEF pipeclose
  <2> QED BY <1>4, <2>1, PagesAre
<1> QED BY <1>2, <1>3, <1>4

\* iput of the copy.
LEMMA FilecloseInode ==
  ASSUME FileInv, NEW p \in Procs, pc[p] \in Closing, ff[p].type = "INODE", ilinks' = ilinks - 1,
         ff' = [ff EXCEPT ![p] = NoFile], UNCHANGED <<ref, file, page, ofile, np, pc, killed, left>>
  PROVE  FileInv'
<1> USE DEF FileInv, RefsCounted
<1>1. ff[p] = InodeFile
  BY KindsDiffer, EndsDiffer, SMTT(30) DEF TypeOK, OpenFiles
<1>2. InodesCounted' /\ ilinks' \in Nat
  BY <1>1, InodePut
<1>3. ff' \in [Procs -> OpenFiles] /\ ff'[p] = NoFile /\ \A q \in Procs : q # p => ff'[q] = ff[q]
  BY SMTT(30) DEF TypeOK, OpenFiles
<1>4. TypeOK'
  BY <1>2, <1>3 DEF TypeOK
<1>5. Counted' /\ Locals' /\ Forks'
  BY TransferFrame DEF Counted, References
<1>6. pc[p] \notin Reading \cup Writing
  BY SMTT(30) DEF Reading, Writing, Closing
<1>7. Copies'
  BY <1>3, <1>6, SMTT(30) DEF Copies
<1>8. Ends' /\ Sleepers'
  <2>1. \A q \in Procs, e \in PipeEnds :
          pc'[q] \in Closing /\ ff'[q] = e <=> pc[q] \in Closing /\ ff[q] = e
    BY <1>1, <1>3, EndsDiffer
  <2> QED BY <1>3, <1>6, <2>1, EndsKept
<1> QED BY <1>2, <1>4, <1>5, <1>7, <1>8

\* The ends when p closes one.
LEMMA EndsClosed ==
  ASSUME TypeOK, Ends, NEW p \in Procs, NEW g \in Pages, NEW w \in BOOLEAN,
         pc[p] \in Closing, ff[p] = PipeEnd(g, w), page[g].lock = NoProc,
         page' = [page EXCEPT ![g] = pipeclose(page[g], w)],
         ff'[p] = NoFile, \A q \in Procs : q # p => ff'[q] = ff[q],
         \A q \in Procs : pc'[q] \in Closing <=> pc[q] \in Closing, UNCHANGED file
  PROVE  Ends' /\ page' \in [Pages -> Pipes] /\ page'[g].lock = NoProc
<1> DEFINE e == PipeEnd(g, w)
           y == pipeclose(page[g], w)
<1>1. page[g] \in Pipes
  BY DEF TypeOK
<1>2. /\ y \in Pipes /\ y.lock = NoProc
      /\ y.writeopen <=> page[g].writeopen /\ ~w
      /\ y.readopen <=> page[g].readopen /\ w
      /\ (page[g].used <=> page[g].readopen \/ page[g].writeopen) => (y.used <=> y.readopen \/ y.writeopen)
  BY <1>1, EndClosed
<1> HIDE DEF y
<1>3. /\ page' \in [Pages -> Pipes] /\ page'[g] = y /\ \A h \in Pages : h # g => page'[h] = page[h]
  BY <1>2 DEF TypeOK, y
<1>4. \A h \in Pages, v \in BOOLEAN : PipeEnd(h, v) \in PipeEnds
  BY SMTT(30) DEF PipeEnds
<1>5. \A d \in PipeEnds : d # NoFile
  BY EndsDiffer
<1>6. \A h \in Pages, v \in BOOLEAN : PipeEnd(h, v) = e => h = g /\ v = w
  BY KindsDiffer, SMTT(30)
<1>7. /\ \A f \in FileIds : file[f] # e
      /\ \A q \in Procs : pc[q] \in Closing /\ ff[q] = e => q = p
  BY <1>4 DEF Ends
<1>8. ASSUME NEW h \in Pages, NEW v \in BOOLEAN
      PROVE  EndOpen(h, v)' <=>
               \/ \E f \in FileIds : file'[f] = PipeEnd(h, v)
               \/ \E q \in Procs : pc'[q] \in Closing /\ ff'[q] = PipeEnd(h, v)
  <2>1. EndOpen(h, v) <=>
          \/ \E f \in FileIds : file[f] = PipeEnd(h, v)
          \/ \E q \in Procs : pc[q] \in Closing /\ ff[q] = PipeEnd(h, v)
    BY DEF Ends
  <2>2. CASE h = g /\ v = w
    <3>1. ~EndOpen(h, v)'
      BY <1>2, <1>3, <2>2 DEF EndOpen
    <3> QED BY <1>4, <1>5, <1>7, <2>2, <3>1
  <2>3. CASE ~(h = g /\ v = w)
    <3>1. EndOpen(h, v)' <=> EndOpen(h, v)
      <4>1. CASE h # g
        BY <1>3, <4>1 DEF EndOpen
      <4>2. CASE h = g /\ v # w
        BY <1>2, <1>3, <4>2 DEF EndOpen
      <4> QED BY <2>3, <4>1, <4>2
    <3>2. PipeEnd(h, v) # e /\ PipeEnd(h, v) # NoFile
      BY <1>4, <1>5, <1>6, <2>3
    <3> QED BY <2>1, <3>1, <3>2
  <2> QED BY <2>2, <2>3
<1>9. ASSUME NEW d \in PipeEnds
      PROVE  /\ \A f, h \in FileIds : file'[f] = d /\ file'[h] = d => f = h
             /\ \A q, r \in Procs :
                  pc'[q] \in Closing /\ ff'[q] = d /\ pc'[r] \in Closing /\ ff'[r] = d => q = r
             /\ \A f \in FileIds, q \in Procs : ~(file'[f] = d /\ pc'[q] \in Closing /\ ff'[q] = d)
  BY <1>5, SMTT(30) DEF Ends
<1>10. \A h \in Pages : page'[h].used <=> page'[h].readopen \/ page'[h].writeopen
  BY <1>2, <1>3 DEF Ends
<1> QED BY <1>2, <1>3, <1>8, <1>9, <1>10 DEF Ends

\* pipeclose of the copy: who sleeps for the other end is woken, and nobody
\* uses the end that is closed.
LEMMA FilecloseEnd ==
  ASSUME FileInv, NEW p \in Procs, pc[p] \in Closing, NEW g, NEW w, g = ff[p].pipe, w = ff[p].writable,
         ff[p].type = "PIPE", page[g].lock = NoProc,
         page' = [page EXCEPT ![g] = pipeclose(page[g], w)], pc' = WakeOther(g, w),
         ff' = [ff EXCEPT ![p] = NoFile], UNCHANGED <<ref, file, ilinks, ofile, np, killed, left>>
  PROVE  FileInv'
<1> USE DEF FileInv, RefsCounted
<1>1. ff[p] \in PipeEnds
  BY KindsDiffer, SMTT(30) DEF TypeOK, OpenFiles
<1>2. g \in Pages /\ w \in BOOLEAN /\ ff[p] = PipeEnd(g, w)
  BY <1>1, EndsDiffer
<1>3. ff' \in [Procs -> OpenFiles] /\ ff'[p] = NoFile /\ \A q \in Procs : q # p => ff'[q] = ff[q]
  BY SMTT(30) DEF TypeOK, OpenFiles
<1> DEFINE s == IF w THEN "readsleep" ELSE "writesleep"
           t == IF w THEN "read" ELSE "write"
<1>4. /\ pc' \in [Procs -> Paths]
      /\ \A q \in Procs : pc[q] = s /\ ff[q].pipe = g => pc'[q] = t
      /\ \A q \in Procs : ~(pc[q] = s /\ ff[q].pipe = g) => pc'[q] = pc[q]
  <2>1. CASE w
    BY <2>1, ReadersWoken DEF WakeOther
  <2>2. CASE ~w
    BY <2>2, WritersWoken DEF WakeOther
  <2> QED BY <2>1, <2>2
<1>5. ASSUME NEW q \in Procs
      PROVE  /\ pc'[q] \in Reading <=> pc[q] \in Reading
             /\ pc'[q] \in Writing <=> pc[q] \in Writing
             /\ pc'[q] \in Closing <=> pc[q] \in Closing
  <2>1. \/ pc[q] = pc'[q] \/ (pc[q] = "readsleep" /\ pc'[q] = "read")
        \/ (pc[q] = "writesleep" /\ pc'[q] = "write")
    BY <1>4
  <2> QED BY <2>1, SameCall
<1>6. Ends' /\ page' \in [Pages -> Pipes] /\ page'[g].lock = NoProc
  BY <1>2, <1>3, <1>5, EndsClosed
<1>7. TypeOK'
  BY <1>3, <1>4, <1>6 DEF TypeOK
<1>8. s \in Reading \cup Writing
  BY DEF Reading, Writing
<1>9. ASSUME NEW q \in Procs
      PROVE  \/ pc'[q] = pc[q]
             \/ pc[q] \in Reading \cup Writing /\ pc'[q] \in Reading \cup Writing
  <2> HIDE DEF s, t
  <2>1. CASE pc[q] = s
    <3>1. pc[q] \in Reading \/ pc[q] \in Writing
      BY <1>8, <2>1
    <3> QED BY <1>5, <3>1
  <2>2. CASE pc[q] # s
    BY <1>4, <2>2
  <2> QED BY <2>1, <2>2
<1>10. Counted' /\ Locals' /\ Forks'
  BY <1>9, TransferFrame DEF Counted, References
<1>11. InodesCounted'
  <2>1. \A q \in Procs : ff'[q] = InodeFile <=> ff[q] = InodeFile
    BY <1>1, <1>3, EndsDiffer, KindsDiffer
  <2> QED BY <2>1, InodesKept
<1>12. pc[p] \notin Reading \cup Writing
  BY SMTT(30) DEF Reading, Writing, Closing
<1>13. Copies'
  BY <1>3, <1>5, <1>12, SMTT(30) DEF Copies
<1>14. \A h \in Pages : h # g => page'[h] = page[h]
  BY DEF TypeOK
<1>15. ASSUME NEW q \in Procs, pc'[q] \in {"readwait", "writewait", "readsleep", "writesleep"}
       PROVE  /\ pc'[q] = pc[q] /\ ff'[q] = ff[q] /\ ff[q].pipe \in Pages /\ ff[q].pipe # g
  <2>1. pc[q] \in Reading \cup Writing
    BY <1>9, <1>15, SMTT(30) DEF Reading, Writing
  <2>2. q # p /\ ff'[q] = ff[q] /\ ff[q] \in PipeEnds /\ (ff[q].writable <=> pc[q] \in Writing)
    BY <1>3, <1>12, <2>1 DEF Copies
  <2>3. \E f \in FileIds : file[f] = ff[q]
    <3>1. PICK fd \in Fds : ofile[q][fd] # 0 /\ file[ofile[q][fd]] = ff[q]
      BY <2>1 DEF Copies
    <3>2. ofile[q][fd] \in FileIds
      BY <3>1, PlacesAre, Held
    <3> QED BY <3>1, <3>2
  <2>4. ff[q] # ff[p]
    BY <1>1, <2>3 DEF Ends
  <2>5. ff[q].pipe = g => ff[q].writable # w
    BY <1>2, <2>2, <2>4, EndsDiffer
  <2>6. pc'[q] = pc[q] /\ ~(pc[q] = s /\ ff[q].pipe = g)
    BY <1>4, <1>15, SMTT(30)
  <2>7. pc[q] \in {"readwait", "writewait"} => ff[q].pipe # g
    BY FileAssumption, SMTT(30) DEF Sleepers
  <2>8. pc[q] = "readsleep" => pc[q] \notin Writing
    BY DEF Writing
  <2>9. pc[q] = "writesleep" => pc[q] \in Writing
    BY DEF Writing
  <2>10. pc[q] \in {"readsleep", "writesleep"} /\ ff[q].pipe = g => pc[q] = s
    <3>1. CASE w
      BY <2>2, <2>5, <2>9, <3>1
    <3>2. CASE ~w
      <4>1. ff[q].pipe = g => ff[q].writable
        BY <1>2, <2>2, <2>5, <3>2, EndsDiffer
      <4> QED BY <2>2, <2>8, <3>2, <4>1
    <3> QED BY <3>1, <3>2
  <2> QED BY <1>15, <2>2, <2>6, <2>7, <2>10, EndsDiffer
<1>16. Sleepers'
  <2>1. ASSUME NEW h \in Pages, page'[h].lock # NoProc
        PROVE  pc'[page'[h].lock] \in {"readwait", "writewait"} /\ ff'[page'[h].lock].pipe = h
    <3>1. page'[h] = page[h] /\ page[h].lock \in Procs
      BY <1>6, <1>14, <2>1, SMTT(30) DEF TypeOK, Pipes
    <3>2. pc[page[h].lock] \in {"readwait", "writewait"} /\ ff[page[h].lock].pipe = h
      BY <2>1, <3>1, SMTT(30) DEF Sleepers
    <3>3. page[h].lock # p /\ pc[page[h].lock] # s
      BY <3>2, SMTT(30) DEF Closing
    <3> QED BY <1>3, <1>4, <3>1, <3>2, <3>3, SMTT(30)
  <2>2. ASSUME NEW q \in Procs, pc'[q] \in {"readwait", "writewait", "readsleep", "writesleep"}
        PROVE  page'[ff'[q].pipe] = page[ff[q].pipe] /\ pc'[q] = pc[q]
    BY <1>14, <1>15, <2>2, SMTT(30)
  <2>3. ASSUME NEW q \in Procs
        PROVE  /\ pc'[q] \in {"readwait", "writewait"} => page'[ff'[q].pipe].lock = q
               /\ pc'[q] \in {"readwait", "readsleep"} => page'[ff'[q].pipe].writeopen
               /\ pc'[q] \in {"writewait", "writesleep"} =>
                    Full(page'[ff'[q].pipe]) /\ page'[ff'[q].pipe].readopen
    BY <2>2 DEF Sleepers
  <2> QED BY <2>1, <2>3 DEF Sleepers, Full
<1> QED BY <1>6, <1>7, <1>10, <1>11, <1>13, <1>16

\* The last reference: the end of the pipe, or the inode.
LEMMA FilecloseLastStep ==
  ASSUME FileInv, NEW p \in Procs, FilecloseLast(p)
  PROVE  FileInv'
<1>1. /\ pc[p] \in Closing /\ ff' = [ff EXCEPT ![p] = NoFile]
      /\ UNCHANGED <<ref, file, ofile, np, killed, left>>
  BY DEF FilecloseLast, Closing, files
<1>2. CASE ff[p].type = "INODE" /\ ilinks' = ilinks - 1 /\ UNCHANGED <<page, pc>>
  BY <1>1, <1>2, FilecloseInode
<1>3. CASE /\ ff[p].type = "PIPE" /\ page[ff[p].pipe].lock = NoProc
           /\ page' = [page EXCEPT ![ff[p].pipe] = pipeclose(@, ff[p].writable)]
           /\ pc' = WakeOther(ff[p].pipe, ff[p].writable)
           /\ UNCHANGED ilinks
  BY <1>1, <1>3, FilecloseEnd
<1> QED BY <1>2, <1>3 DEF FilecloseLast

-----------------------------------------------------------------------------
(***************************************************************************)
(* sys_pipe with a page.                                                   *)
(***************************************************************************)

\* The two files of pipealloc are known to their process only.
LEMMA PipeLocals ==
  ASSUME FileInv, NEW p \in Procs, pc[p] = "pipe2"
  PROVE  LET r == ofile[p][rf]  v == ofile[p][wf] IN
         /\ r \in FileIds /\ v \in FileIds /\ r # v /\ ref[r] = 1 /\ ref[v] = 1
         /\ file[r] = NoFile /\ file[v] = NoFile
         /\ \A q \in Procs, j \in Places : ofile[q][j] = r => q = p /\ j = rf
         /\ \A q \in Procs, j \in Places : ofile[q][j] = v => q = p /\ j = wf
<1> USE DEF FileInv, RefsCounted
<1> DEFINE r == ofile[p][rf]
           v == ofile[p][wf]
<1>1. rf \in Places /\ wf \in Places /\ rf # wf
  BY PlacesAre
<1>2. r # 0 /\ v # 0 /\ ref[r] = 1 /\ ref[v] = 1 /\ file[r] = NoFile /\ file[v] = NoFile
  BY SMTT(30) DEF Locals
<1>3. r \in FileIds /\ \A q \in Procs, j \in Places : ofile[q][j] = r => q = p /\ j = rf
  BY <1>1, <1>2, Held
<1>4. v \in FileIds /\ \A q \in Procs, j \in Places : ofile[q][j] = v => q = p /\ j = wf
  BY <1>1, <1>2, Held
<1>5. r # v
  BY <1>1, <1>3
<1> QED BY <1>2, <1>3, <1>4, <1>5

\* A free page has no reader and no writer.
LEMMA FreePageUnused ==
  ASSUME FileInv, NEW g \in Pages, ~page[g].used
  PROVE  /\ \A w \in BOOLEAN : /\ \A f \in FileIds : file[f] # PipeEnd(g, w)
                               /\ \A q \in Procs : ~(pc[q] \in Closing /\ ff[q] = PipeEnd(g, w))
         /\ \A q \in Procs : pc[q] \in Reading \cup Writing => ff[q].pipe # g
<1> USE DEF FileInv, RefsCounted
<1>1. \A w \in BOOLEAN : ~EndOpen(g, w)
  BY SMTT(30) DEF Ends, EndOpen
<1>2. ASSUME NEW w \in BOOLEAN
      PROVE  /\ \A f \in FileIds : file[f] # PipeEnd(g, w)
             /\ \A q \in Procs : ~(pc[q] \in Closing /\ ff[q] = PipeEnd(g, w))
  BY <1>1 DEF Ends
<1>3. ASSUME NEW q \in Procs, pc[q] \in Reading \cup Writing PROVE ff[q].pipe # g
  <2>1. PICK fd \in Fds : ofile[q][fd] # 0 /\ file[ofile[q][fd]] = ff[q]
    BY <1>3 DEF Copies
  <2>2. ofile[q][fd] \in FileIds
    BY <2>1, PlacesAre, Held
  <2>3. ff[q] \in PipeEnds
    BY <1>3 DEF Copies
  <2> QED BY <1>2, <2>1, <2>2, <2>3, EndsDiffer
<1> QED BY <1>2, <1>3

\* A new pipe in page g, with the files r and v for its ends.
LEMMA PipeMade ==
  ASSUME FileInv, NEW p \in Procs, NEW g \in Pages, ~page[g].used, pc[p] = "pipe2",
         page' = [page EXCEPT ![g] = NewPipe],
         file' = [file EXCEPT ![ofile[p][rf]] = PipeEnd(g, FALSE), ![ofile[p][wf]] = PipeEnd(g, TRUE)],
         pc'[p] \in {"run", "close"}, \A q \in Procs : q # p => pc'[q] = pc[q], UNCHANGED <<ilinks, ff>>
  PROVE  /\ page' \in [Pages -> Pipes] /\ file' \in [FileIds -> OpenFiles]
         /\ \A f \in FileIds : f # ofile[p][rf] /\ f # ofile[p][wf] => file'[f] = file[f]
         /\ InodesCounted' /\ Ends' /\ Sleepers' /\ ff[p] = NoFile
         /\ pc[p] \notin Reading \cup Writing /\ pc'[p] \notin Reading \cup Writing
<1> USE DEF FileInv, RefsCounted
<1> DEFINE r == ofile[p][rf]
           v == ofile[p][wf]
<1>1. /\ r \in FileIds /\ v \in FileIds /\ r # v /\ file[r] = NoFile /\ file[v] = NoFile
  BY PipeLocals
<1>2. \A h \in Pages, w \in BOOLEAN : PipeEnd(h, w) \in PipeEnds
  BY SMTT(30) DEF PipeEnds
<1>3. /\ file' \in [FileIds -> OpenFiles] /\ file'[r] = PipeEnd(g, FALSE) /\ file'[v] = PipeEnd(g, TRUE)
      /\ \A f \in FileIds : f # r /\ f # v => file'[f] = file[f]
  <2> HIDE DEF r, v
  <2>1. file' = [file EXCEPT ![r] = PipeEnd(g, FALSE), ![v] = PipeEnd(g, TRUE)]
    BY DEF r, v
  <2>2. file \in [FileIds -> OpenFiles] /\ PipeEnd(g, FALSE) \in OpenFiles /\ PipeEnd(g, TRUE) \in OpenFiles
    BY <1>2 DEF TypeOK, OpenFiles
  <2> QED BY <1>1, <2>1, <2>2
<1>4. /\ page' \in [Pages -> Pipes] /\ page'[g] = NewPipe /\ \A h \in Pages : h # g => page'[h] = page[h]
  BY PagesAre DEF TypeOK
<1>5. /\ pc[p] \notin Reading \cup Writing /\ pc'[p] \notin Reading \cup Writing /\ pc[p] \notin Closing
      /\ ff[p] = NoFile
  <2>1. pc[p] \notin Reading \cup Writing /\ pc'[p] \notin Reading \cup Writing /\ pc[p] \notin Closing
    BY SMTT(30) DEF Reading, Writing, Closing
  <2> QED BY <2>1 DEF Copies
<1>6. InodesCounted'
  <2>1. \A f \in FileIds : file'[f] = InodeFile <=> file[f] = InodeFile
    BY <1>1, <1>2, <1>3, EndsDiffer, KindsDiffer
  <2> QED BY <2>1, InodesKept
<1>7. /\ \A w \in BOOLEAN : /\ \A f \in FileIds : file[f] # PipeEnd(g, w)
                            /\ \A q \in Procs : ~(pc[q] \in Closing /\ ff[q] = PipeEnd(g, w))
      /\ \A q \in Procs : pc[q] \in Reading \cup Writing => ff[q].pipe # g
  BY FreePageUnused
<1>8. Sleepers'
  <2>1. ASSUME NEW h \in Pages, page'[h].lock # NoProc
        PROVE  pc'[page'[h].lock] \in {"readwait", "writewait"} /\ ff'[page'[h].lock].pipe = h
    <3>1. page'[h] = page[h] /\ page[h].lock \in Procs
      BY <1>4, <2>1, PagesAre, SMTT(30) DEF TypeOK, Pipes
    <3>2. pc[page[h].lock] \in {"readwait", "writewait"} /\ ff[page[h].lock].pipe = h
      BY <2>1, <3>1, SMTT(30) DEF Sleepers
    <3>3. page[h].lock # p
      BY <3>2
    <3> QED BY <3>1, <3>2, <3>3
  <2>2. ASSUME NEW q \in Procs, pc'[q] \in {"readwait", "writewait", "readsleep", "writesleep"}
        PROVE  page'[ff'[q].pipe] = page[ff[q].pipe] /\ pc'[q] = pc[q]
    <3>1. pc'[q] \in Reading \cup Writing /\ pc'[q] = pc[q]
      BY <1>5, <2>2, SMTT(30) DEF Reading, Writing
    <3>2. ff[q].pipe # g /\ ff[q].pipe \in Pages
      BY <1>7, <3>1, EndsDiffer DEF Copies
    <3> QED BY <1>4, <3>1, <3>2
  <2>3. ASSUME NEW q \in Procs
        PROVE  /\ pc'[q] \in {"readwait", "writewait"} => page'[ff'[q].pipe].lock = q
               /\ pc'[q] \in {"readwait", "readsleep"} => page'[ff'[q].pipe].writeopen
               /\ pc'[q] \in {"writewait", "writesleep"} =>
                    Full(page'[ff'[q].pipe]) /\ page'[ff'[q].pipe].readopen
    BY <2>2 DEF Sleepers
  <2> QED BY <2>1, <2>3 DEF Sleepers, Full
<1>9. Ends'
  <2>1. ASSUME NEW q \in Procs, NEW e \in PipeEnds
        PROVE  pc'[q] \in Closing /\ ff'[q] = e <=> pc[q] \in Closing /\ ff[q] = e
    BY <1>5, EndsDiffer
  <2>2. ASSUME NEW h \in Pages, NEW w \in BOOLEAN, h # g
        PROVE  \A f \in FileIds : file'[f] = PipeEnd(h, w) <=> file[f] = PipeEnd(h, w)
    <3>1. PipeEnd(h, w) # PipeEnd(g, FALSE) /\ PipeEnd(h, w) # PipeEnd(g, TRUE) /\ PipeEnd(h, w) # NoFile
      BY <2>2, SMTT(30) DEF PipeEnd, NoFile
    <3> QED BY <1>1, <1>3, <3>1
  <2>3. ASSUME NEW w \in BOOLEAN
        PROVE  \A f \in FileIds : file'[f] = PipeEnd(g, w) <=> f = IF w THEN v ELSE r
    <3>1. PipeEnd(g, FALSE) # PipeEnd(g, TRUE)
      BY SMTT(30) DEF PipeEnd
    <3> QED BY <1>1, <1>3, <1>7, <3>1
  <2>4. ASSUME NEW h \in Pages, NEW w \in BOOLEAN
        PROVE  EndOpen(h, w)' <=>
                 \/ \E f \in FileIds : file'[f] = PipeEnd(h, w)
                 \/ \E q \in Procs : pc'[q] \in Closing /\ ff'[q] = PipeEnd(h, w)
    <3>1. CASE h = g
      <4>1. EndOpen(h, w)'
        BY <1>4, <3>1, PagesAre DEF EndOpen
      <4> QED BY <1>1, <2>3, <3>1, <4>1
    <3>2. CASE h # g
      <4>1. EndOpen(h, w)' <=> EndOpen(h, w)
        BY <1>4, <3>2 DEF EndOpen
      <4>2. EndOpen(h, w) <=> \/ \E f \in FileIds : file[f] = PipeEnd(h, w)
                              \/ \E q \in Procs : pc[q] \in Closing /\ ff[q] = PipeEnd(h, w)
        BY DEF Ends
      <4>3. \A f \in FileIds : file'[f] = PipeEnd(h, w) <=> file[f] = PipeEnd(h, w)
        BY <2>2, <3>2
      <4>4. \A q \in Procs : pc'[q] \in Closing /\ ff'[q] = PipeEnd(h, w) <=> pc[q] \in Closing /\ ff[q] = PipeEnd(h, w)
        BY <1>2, <2>1
      <4> QED BY <4>1, <4>2, <4>3, <4>4
    <3> QED BY <3>1, <3>2
  <2>5. ASSUME NEW e \in PipeEnds
        PROVE  /\ \A f, h \in FileIds : file'[f] = e /\ file'[h] = e => f = h
               /\ \A q, t \in Procs :
                    pc'[q] \in Closing /\ ff'[q] = e /\ pc'[t] \in Closing /\ ff'[t] = e => q = t
               /\ \A f \in FileIds, q \in Procs : ~(file'[f] = e /\ pc'[q] \in Closing /\ ff'[q] = e)
    <3>1. e = PipeEnd(e.pipe, e.writable) /\ e.pipe \in Pages /\ e.writable \in BOOLEAN
      BY EndsDiffer
    <3>2. CASE e.pipe = g
      <4>1. \A f \in FileIds : file'[f] = e <=> f = IF e.writable THEN v ELSE r
        BY <2>3, <3>1, <3>2
      <4>2. \A q \in Procs : ~(pc'[q] \in Closing /\ ff'[q] = e)
        BY <1>7, <2>1, <3>1, <3>2
      <4> QED BY <4>1, <4>2
    <3>3. CASE e.pipe # g
      <4>1. \A f \in FileIds : file'[f] = PipeEnd(e.pipe, e.writable) <=> file[f] = PipeEnd(e.pipe, e.writable)
        BY <2>2, <3>1, <3>3
      <4>2. \A f \in FileIds : file'[f] = e <=> file[f] = e
        BY <3>1, <4>1
      <4>3. /\ \A f, h \in FileIds : file[f] = e /\ file[h] = e => f = h
            /\ \A q, t \in Procs :
                 pc[q] \in Closing /\ ff[q] = e /\ pc[t] \in Closing /\ ff[t] = e => q = t
            /\ \A f \in FileIds, q \in Procs : ~(file[f] = e /\ pc[q] \in Closing /\ ff[q] = e)
        BY DEF Ends
      <4>4. \A q \in Procs : pc'[q] \in Closing /\ ff'[q] = e <=> pc[q] \in Closing /\ ff[q] = e
        BY <2>1
      <4>5. \A f, h \in FileIds : file'[f] = e /\ file'[h] = e => f = h
        BY <4>2, <4>3
      <4>6. \A q, t \in Procs : pc'[q] \in Closing /\ ff'[q] = e /\ pc'[t] \in Closing /\ ff'[t] = e => q = t
        BY <4>3, <4>4
      <4>7. \A f \in FileIds, q \in Procs : ~(file'[f] = e /\ pc'[q] \in Closing /\ ff'[q] = e)
        BY <4>2, <4>3, <4>4
      <4> QED BY <4>5, <4>6, <4>7
    <3> QED BY <3>2, <3>3
  <2>6. \A h \in Pages : page'[h].used <=> page'[h].readopen \/ page'[h].writeopen
    BY <1>4, PagesAre DEF Ends
  <2> QED BY <2>4, <2>5, <2>6 DEF Ends
<1> QED BY <1>3, <1>4, <1>5, <1>6, <1>8, <1>9

\* The files move from the local variables to two descriptors.
LEMMA FilesMoved ==
  ASSUME FileInv, NEW p \in Procs, pc[p] = "pipe2", NEW fd0 \in Fds, NEW fd1 \in Fds, fd0 # fd1,
         ofile[p][fd0] = 0, ofile[p][fd1] = 0, UNCHANGED ref,
         ofile' = [ofile EXCEPT ![p] = [@ EXCEPT ![fd0] = ofile[p][rf], ![fd1] = ofile[p][wf],
                                                 ![rf] = 0, ![wf] = 0]]
  PROVE  /\ ofile' \in [Procs -> [Places -> FileIds \cup {0}]] /\ Counted'
         /\ ofile'[p][rf] = 0 /\ ofile'[p][wf] = 0 /\ \A q \in Procs : q # p => ofile'[q] = ofile[q]
<1> USE DEF FileInv, RefsCounted
<1> DEFINE r == ofile[p][rf]
           v == ofile[p][wf]
           o == [ofile[p] EXCEPT ![fd0] = r, ![fd1] = v, ![rf] = 0, ![wf] = 0]
<1>1. /\ r \in FileIds /\ v \in FileIds /\ r # v /\ ref[r] = 1 /\ ref[v] = 1
      /\ \A q \in Procs, j \in Places : ofile[q][j] = r => q = p /\ j = rf
      /\ \A q \in Procs, j \in Places : ofile[q][j] = v => q = p /\ j = wf
  BY PipeLocals
<1>2. /\ fd0 \in Places /\ fd1 \in Places /\ rf \in Places /\ wf \in Places /\ rf # wf
      /\ fd0 # rf /\ fd0 # wf /\ fd1 # rf /\ fd1 # wf /\ 0 \notin FileIds
  BY PlacesAre
<1>3. ofile[p] \in [Places -> FileIds \cup {0}]
  BY DEF TypeOK
<1>4. /\ o \in [Places -> FileIds \cup {0}] /\ o[fd0] = r /\ o[fd1] = v /\ o[rf] = 0 /\ o[wf] = 0
      /\ \A j \in Places : j \notin {fd0, fd1, rf, wf} => o[j] = ofile[p][j]
  <2> HIDE DEF r, v
  <2> QED BY <1>1, <1>2, <1>3, SMTT(30)
<1>5. /\ ofile' = [ofile EXCEPT ![p] = o]
  OBVIOUS
<1>6. /\ ofile' \in [Procs -> [Places -> FileIds \cup {0}]] /\ ofile'[p] = o
      /\ \A q \in Procs : q # p => ofile'[q] = ofile[q]
  <2> HIDE DEF o
  <2> QED BY <1>4, <1>5 DEF TypeOK
<1> HIDE DEF o, r, v
<1>7. ASSUME NEW f \in FileIds PROVE ref'[f] = Cardinality(References(f)')
  <2>1. CASE f = r
    <3>1. ASSUME NEW q \in Procs, NEW j \in Places PROVE ofile'[q][j] = r <=> q = p /\ j = fd0
      <4>1. CASE q = p
        BY <1>1, <1>2, <1>4, <1>6, <4>1, SMTT(30)
      <4>2. CASE q # p
        BY <1>1, <1>6, <4>2
      <4> QED BY <4>1, <4>2
    <3>2. References(f)' = {<<p, fd0>>}
      BY <1>2, <2>1, <3>1, SMTT(30) DEF References
    <3> QED BY <1>1, <2>1, <3>2, FS_Singleton
  <2>2. CASE f = v
    <3>1. ASSUME NEW q \in Procs, NEW j \in Places PROVE ofile'[q][j] = v <=> q = p /\ j = fd1
      <4>1. CASE q = p
        BY <1>1, <1>2, <1>4, <1>6, <4>1, SMTT(30)
      <4>2. CASE q # p
        BY <1>1, <1>6, <4>2
      <4> QED BY <4>1, <4>2
    <3>2. References(f)' = {<<p, fd1>>}
      BY <1>2, <2>2, <3>1, SMTT(30) DEF References
    <3> QED BY <1>1, <2>2, <3>2, FS_Singleton
  <2>3. CASE f # r /\ f # v
    <3>1. ASSUME NEW q \in Procs, NEW j \in Places PROVE ofile'[q][j] = f <=> ofile[q][j] = f
      <4>1. CASE q = p
        BY <1>2, <1>4, <1>6, <2>3, <4>1, SMTT(30) DEF r, v
      <4>2. CASE q # p
        BY <1>6, <4>2
      <4> QED BY <4>1, <4>2
    <3>2. References(f)' = References(f)
      BY <3>1, SMTT(30) DEF References
    <3> QED BY <3>2 DEF Counted
  <2> QED BY <2>1, <2>2, <2>3
<1> QED BY <1>4, <1>6, <1>7 DEF Counted

\* sys_pipe, from kalloc on.
LEMMA PipeAllocStep ==
  ASSUME FileInv, NEW p \in Procs, PipeAlloc(p)
  PROVE  FileInv'
<1> USE DEF FileInv, RefsCounted
<1>1. pc[p] = "pipe2" /\ UNCHANGED <<ref, ilinks, np, killed, ff, left>>
  BY DEF PipeAlloc
<1>2. CASE pc' = [pc EXCEPT ![p] = "close"] /\ UNCHANGED <<file, page, ofile>>
  BY <1>1, <1>2, GivesUp
<1>3. ASSUME NEW g \in Pages, ~page[g].used, page' = [page EXCEPT ![g] = NewPipe],
             file' = [file EXCEPT ![ofile[p][rf]] = PipeEnd(g, FALSE), ![ofile[p][wf]] = PipeEnd(g, TRUE)],
             PipeFds(p)
      PROVE  FileInv'
  <2>1. /\ pc' \in [Procs -> Paths] /\ pc'[p] \in {"run", "close"}
        /\ \A q \in Procs : q # p => pc'[q] = pc[q]
    BY <1>3, SMTT(30) DEF TypeOK, Paths, Closing, PipeFds
  <2>2. /\ page' \in [Pages -> Pipes] /\ file' \in [FileIds -> OpenFiles]
        /\ \A f \in FileIds : f # ofile[p][rf] /\ f # ofile[p][wf] => file'[f] = file[f]
        /\ InodesCounted' /\ Ends' /\ Sleepers' /\ ff[p] = NoFile
        /\ pc[p] \notin Reading \cup Writing /\ pc'[p] \notin Reading \cup Writing
    BY <1>1, <1>3, <2>1, PipeMade
  <2>3. /\ ofile' \in [Procs -> [Places -> FileIds \cup {0}]] /\ Counted'
        /\ \A q \in Procs : q # p => ofile'[q] = ofile[q]
        /\ \/ pc'[p] = "run" /\ ofile'[p][rf] = 0 /\ ofile'[p][wf] = 0
           \/ pc'[p] = "close" /\ ofile'[p] = ofile[p]
    <3>1. ASSUME NEW fd0 \in Fds, NEW fd1 \in Fds, First(fd0, FreeFds(p)), First(fd1, FreeFds(p) \ {fd0}),
                 pc' = [pc EXCEPT ![p] = "run"],
                 ofile' = [ofile EXCEPT ![p] = [@ EXCEPT ![fd0] = ofile[p][rf], ![fd1] = ofile[p][wf],
                                                         ![rf] = 0, ![wf] = 0]]
          PROVE  (/\ ofile' \in [Procs -> [Places -> FileIds \cup {0}]] /\ Counted'
                  /\ \A q \in Procs : q # p => ofile'[q] = ofile[q]
                  /\ pc'[p] = "run" /\ ofile'[p][rf] = 0 /\ ofile'[p][wf] = 0)
      <4>1. fd0 # fd1 /\ ofile[p][fd0] = 0 /\ ofile[p][fd1] = 0
        BY <3>1 DEF First, FreeFds
      <4>2. pc'[p] = "run"
        BY <3>1 DEF TypeOK
      <4> QED BY <1>1, <3>1, <4>1, <4>2, FilesMoved
    <3>2. CASE pc' = [pc EXCEPT ![p] = "close"] /\ UNCHANGED ofile
      BY <1>1, <3>2 DEF TypeOK, Counted, References
    <3> QED BY <1>3, <3>1, <3>2 DEF PipeFds
  <2>4. TypeOK'
    BY <1>1, <2>1, <2>2, <2>3 DEF TypeOK
  <2>5. /\ ref[ofile[p][rf]] = 1 /\ ref[ofile[p][wf]] = 1
        /\ \A q \in Procs, j \in Places : ofile[q][j] = ofile[p][rf] => q = p /\ j = rf
        /\ \A q \in Procs, j \in Places : ofile[q][j] = ofile[p][wf] => q = p /\ j = wf
    BY <1>1, PipeLocals
  <2>6. ASSUME NEW q \in Procs, q # p, NEW j \in Places, ofile[q][j] # 0
        PROVE  file'[ofile'[q][j]] = file[ofile[q][j]]
    <3>1. ofile[q][j] \in FileIds
      BY <2>6, Held
    <3> QED BY <2>2, <2>3, <2>5, <2>6, <3>1
  <2>7. Locals'
    <3>1. ASSUME NEW q \in Procs PROVE
             /\ ofile'[q][rf] # 0 => pc'[q] \in {"pipe1", "pipe2", "close"}
             /\ ofile'[q][wf] # 0 => pc'[q] \in {"pipe2", "close"}
             /\ \A i \in {rf, wf} : ofile'[q][i] # 0 =>
                  /\ ref'[ofile'[q][i]] = 1
                  /\ pc'[q] # "close" => file'[ofile'[q][i]] = NoFile
             /\ pc'[q] = "pipe1" => ofile'[q][rf] # 0
             /\ pc'[q] = "pipe2" => ofile'[q][rf] # 0 /\ ofile'[q][wf] # 0
             /\ pc'[q] \in {"unused", "dead"} => \A i \in Places : ofile'[q][i] = 0
      <4>1. CASE q = p
        BY <1>1, <2>3, <2>5, <4>1
      <4>2. CASE q # p
        <5>1. ofile'[q] = ofile[q] /\ pc'[q] = pc[q]
          BY <2>1, <2>3, <4>2
        <5>2. \A i \in {rf, wf} : ofile[q][i] # 0 => file'[ofile[q][i]] = file[ofile[q][i]]
          BY <2>6, <4>2, <5>1, PlacesAre
        <5> QED BY <1>1, <5>1, <5>2, SMTT(30) DEF Locals
      <4> QED BY <4>1, <4>2
    <3> QED BY <3>1 DEF Locals
  <2>8. Forks'
    <3>1. \A q \in Procs : (pc'[q] = "fork" <=> pc[q] = "fork") /\ (pc'[q] = "embryo" <=> pc[q] = "embryo")
      BY <1>1, <2>1, SMTT(30)
    <3>2. \A q \in Procs : pc[q] \in {"fork", "embryo"} => ofile'[q] = ofile[q]
      BY <1>1, <2>3, SMTT(30)
    <3> QED BY <1>1, <3>1, <3>2, SMTT(30) DEF Forks
  <2>9. Copies'
    <3>1. ASSUME NEW f \in FileIds, ref'[f] = 0 PROVE file'[f] = NoFile
      <4>1. f # ofile[p][rf] /\ f # ofile[p][wf]
        BY <1>1, <2>5, <3>1, SMTT(30)
      <4> QED BY <1>1, <2>2, <3>1, <4>1 DEF Copies
    <3>2. ASSUME NEW q \in Procs PROVE
             /\ ff'[q] # NoFile => pc'[q] \in Closing \cup Reading \cup Writing
             /\ pc'[q] \in Reading \cup Writing =>
                  /\ ff'[q] \in PipeEnds /\ (ff'[q].writable <=> pc'[q] \in Writing)
                  /\ \E fd \in Fds : ofile'[q][fd] # 0 /\ file'[ofile'[q][fd]] = ff'[q]
      <4>1. CASE q = p
        BY <1>1, <2>2, <4>1
      <4>2. CASE q # p
        <5>1. ofile'[q] = ofile[q] /\ pc'[q] = pc[q] /\ ff'[q] = ff[q]
          BY <1>1, <2>1, <2>3, <4>2
        <5>2. \A fd \in Fds : ofile[q][fd] # 0 => file'[ofile[q][fd]] = file[ofile[q][fd]]
          BY <2>6, <4>2, <5>1, PlacesAre
        <5>3. /\ ff[q] # NoFile => pc[q] \in Closing \cup Reading \cup Writing
              /\ pc[q] \in Reading \cup Writing =>
                   /\ ff[q] \in PipeEnds /\ (ff[q].writable <=> pc[q] \in Writing)
                   /\ \E fd \in Fds : ofile[q][fd] # 0 /\ file[ofile[q][fd]] = ff[q]
          BY DEF Copies
        <5>4. (\E fd \in Fds : ofile[q][fd] # 0 /\ file[ofile[q][fd]] = ff[q])
                => \E fd \in Fds : ofile'[q][fd] # 0 /\ file'[ofile'[q][fd]] = ff'[q]
          BY <5>1, <5>2
        <5> QED BY <5>1, <5>3, <5>4
      <4> QED BY <4>1, <4>2
    <3> QED BY <3>1, <3>2 DEF Copies
  <2> QED BY <2>2, <2>3, <2>4, <2>7, <2>8, <2>9
<1> QED BY <1>2, <1>3 DEF PipeAlloc
=============================================================================
