------------------------------ MODULE Content ------------------------------
(***************************************************************************)
(* The content of inodes: the disk mkfs lays out, the free bitmap (balloc, *)
(* bfree), the block map (bmap, itrunc), readi, writei and the chunks of   *)
(* filewrite.                                                              *)
(*                                                                         *)
(* A cell stands for what is BSIZE / NINDIRECT bytes: a block holds BSIZE  *)
(* cells, and one cell holds a block number of an indirect block, or an    *)
(* entry of a directory.  Calls of one step run under the inode's lock and *)
(* in one transaction (Log), so they are atomic; a write to a file takes   *)
(* one step per chunk.  The data is written as cells that name the place   *)
(* they belong to: readi and writei move data without looking at it.       *)
(***************************************************************************)
EXTENDS Integers, Sequences, FiniteSetsExt, SequencesExt

CONSTANTS
  BSIZE, NDIRECT, FSSIZE, LOGSIZE, BPB, MAXOPBLOCKS,
  UINT,      \* unsigned int counts modulo UINT
  NINODES,   \* inodes 1 (the root directory) and 2..NINODES (files)
  Images,    \* what mkfs is given: sequences of file sizes
  Sizes,     \* sizes passed to read and write
  MaxCalls   \* bound on system calls

NINDIRECT == BSIZE
MAXFILE == NDIRECT + NINDIRECT
ROOTINO == 1
Inodes == 1..NINODES
FileInodes == 2..NINODES

\* The super block mkfs computes: one block of inodes, and the bitmap.
nbitmap == FSSIZE \div BPB + 1
inodestart == 2 + LOGSIZE
bmapstart == inodestart + 1
nmeta == 2 + LOGSIZE + 1 + nbitmap
DataBlocks == nmeta..(FSSIZE - 1)
BBLOCK(b) == bmapstart + b \div BPB
IBLOCK == inodestart

\* Every file can grow to its limit.
ASSUME ContentAssumption ==
  /\ nmeta + NINODES * (MAXFILE + 1) <= FSSIZE
  /\ \A im \in Images : Len(im) < NINODES

VARIABLES
  disk,     \* the data blocks
  used,     \* the blocks whose bit is set in the bitmap
  dinode,   \* the inodes on disk
  inode,    \* the inodes in memory
  file,     \* one open file per inode: offset and cells still to write
  wrote,    \* how many blocks the last call passed to log_write
  data,     \* history: the content every inode should have
  calls     \* how many system calls were made

fsvars == <<disk, used, dinode, inode>>
cvars == <<disk, used, dinode, inode, file, wrote, data, calls>>

Zero == [k \in 0..(BSIZE - 1) |-> 0]
Cell(i, k) == 100 * i + k + 1
Cells(i, off, n) == [k \in 1..n |-> Cell(i, off + k - 1)]
NoAddrs == [k \in 0..NDIRECT |-> 0]
Fresh(t) == [type |-> t, size |-> 0, addrs |-> NoAddrs]

-----------------------------------------------------------------------------
(* A file system as a value: disk, used, node, dnode and the blocks written. *)

Logged(s, bs) == [s EXCEPT !.wrote = @ \union bs]

\* balloc: the first free block, marked and zeroed.
Taken(s, b) ==
  [s |-> Logged([s EXCEPT !.used = @ \union {b}, !.disk[b] = Zero], {BBLOCK(b), b}), b |-> b]
balloc(s) == Taken(s, Min((0..(FSSIZE - 1)) \ s.used))

\* bfree of every block of bs.
bfree(s, bs) == Logged([s EXCEPT !.used = @ \ bs], {BBLOCK(b) : b \in bs})

\* addrs[n] of inode i, after balloc if it was 0.
AddrSet(r, i, n) == [s |-> [r.s EXCEPT !.node[i].addrs[n] = r.b], b |-> r.b]
Addr(s, i, n) ==
  IF s.node[i].addrs[n] # 0 THEN [s |-> s, b |-> s.node[i].addrs[n]] ELSE AddrSet(balloc(s), i, n)

\* Cell a of the indirect block r.b, after balloc if it was 0.
EntrySet(r, ind, a) == [s |-> Logged([r.s EXCEPT !.disk[ind][a] = r.b], {ind}), b |-> r.b]
Entry(r, a) ==
  IF r.s.disk[r.b][a] # 0 THEN [s |-> r.s, b |-> r.s.disk[r.b][a]] ELSE EntrySet(balloc(r.s), r.b, a)

\* bmap: the block of inode i that holds its bn-th block, allocated (with the
\* indirect block) if it is not there.
bmap(s, i, bn) ==
  IF bn < NDIRECT THEN Addr(s, i, bn) ELSE Entry(Addr(s, i, NDIRECT), bn - NDIRECT)

iupdate(s, i) == Logged([s EXCEPT !.dnode[i] = s.node[i]], {IBLOCK})

\* itrunc that frees the indirect block and not the blocks it lists.
itruncShallow(s, i) ==
  LET as == s.node[i].addrs
  IN iupdate([bfree(s, {as[k] : k \in 0..NDIRECT} \ {0})
                EXCEPT !.node[i].addrs = NoAddrs, !.node[i].size = 0], i)

itrunc(s, i) ==
  LET as == s.node[i].addrs
      listed == IF as[NDIRECT] = 0 THEN {} ELSE {s.disk[as[NDIRECT]][k] : k \in 0..(NINDIRECT - 1)}
  IN iupdate([bfree(s, ({as[k] : k \in 0..NDIRECT} \union listed) \ {0})
                EXCEPT !.node[i].addrs = NoAddrs, !.node[i].size = 0], i)

\* How much of n cells at off is in the first block.
Piece(off, n) == Min({n, BSIZE - (off % BSIZE)})

\* The copy made at the start of the block.
PatchAtStart(blk, at, src) == [k \in 0..(Len(src) - 1) |-> src[k + 1]] @@ blk

\* A block with src copied into it from cell at on.
Patch(blk, at, src) == [k \in at..(at + Len(src) - 1) |-> src[k - at + 1]] @@ blk

\* readi's loop: m cells come from the block r.b.
RECURSIVE ReadBlocks(_, _, _, _)
CellsOf(r, off, m) == [k \in 1..m |-> r.s.disk[r.b][(off % BSIZE) + k - 1]]
ReadOn(r, i, off, n, m) ==
  [ReadBlocks(r.s, i, off + m, n - m) EXCEPT !.out = CellsOf(r, off, m) \o @]
ReadBlocks(s, i, off, n) ==
  IF n = 0 THEN [s |-> s, out |-> <<>>]
  ELSE ReadOn(bmap(s, i, off \div BSIZE), i, off, n, Piece(off, n))

\* readi: n is -1 (out of order, nothing read) or the number of cells read.
readi(s, i, off, n) ==
  IF off > s.node[i].size \/ (off + n) % UINT < off THEN [s |-> s, n |-> -1, out |-> <<>>]
  ELSE LET m == Min({n, s.node[i].size - off}) IN [n |-> m] @@ ReadBlocks(s, i, off, m)

\* writei's loop: m cells go to the block r.b.
RECURSIVE WriteBlocks(_, _, _, _)
Written(r, off, src) ==
  Logged([r.s EXCEPT !.disk[r.b] = Patch(@, off % BSIZE, src)], {r.b})
WriteOn(s, i, off, src, m) ==
  WriteBlocks(Written(bmap(s, i, off \div BSIZE), off, SubSeq(src, 1, m)),
              i, off + m, SubSeq(src, m + 1, Len(src)))
WriteBlocks(s, i, off, src) ==
  IF src = <<>> THEN s ELSE WriteOn(s, i, off, src, Piece(off, Len(src)))

\* writei's last step: a write past the end makes the inode longer.
Grown(s, i, end) == IF end > s.node[i].size THEN iupdate([s EXCEPT !.node[i].size = end], i) ELSE s

writei(s, i, off, src) ==
  IF off > s.node[i].size \/ (off + Len(src)) % UINT < off \/ off + Len(src) > MAXFILE * BSIZE
  THEN [s |-> s, n |-> -1]
  ELSE [s |-> Grown(WriteBlocks(s, i, off, src), i, off + Len(src)), n |-> Len(src)]

-----------------------------------------------------------------------------
(* mkfs: inode numbers and blocks are handed out in order. *)

\* iappend's loop: src goes to the end of inode i; the block comes from
\* freeblock where addrs, or the indirect block, has none.
MkAddr(s, i, slot) ==
  IF s.dnode[i].addrs[slot] # 0 THEN s
  ELSE [s EXCEPT !.dnode[i].addrs[slot] = s.free, !.free = @ + 1]
MkEntry(s, ib, a) ==
  IF s.disk[ib][a] # 0 THEN s ELSE [s EXCEPT !.disk[ib][a] = s.free, !.free = @ + 1]
MkIndirect(s, i, a) == MkEntry(s, s.dnode[i].addrs[NDIRECT], a)
MkBlock(s, i, fbn) ==
  IF fbn < NDIRECT THEN MkAddr(s, i, fbn) ELSE MkIndirect(MkAddr(s, i, NDIRECT), i, fbn - NDIRECT)
BlockOf(s, i, fbn) ==
  IF fbn < NDIRECT THEN s.dnode[i].addrs[fbn] ELSE s.disk[s.dnode[i].addrs[NDIRECT]][fbn - NDIRECT]
Filled(s, i, off, src) ==
  [s EXCEPT !.dnode[i].size = off + Len(src),
            !.disk[BlockOf(s, i, off \div BSIZE)] = Patch(@, off % BSIZE, src)]
RECURSIVE AppendCells(_, _, _)
AppendPiece(s, i, off, src, m) ==
  AppendCells(Filled(MkBlock(s, i, off \div BSIZE), i, off, SubSeq(src, 1, m)),
              i, SubSeq(src, m + 1, Len(src)))
AppendCells(s, i, src) ==
  IF src = <<>> THEN s
  ELSE AppendPiece(s, i, s.dnode[i].size, src, Piece(s.dnode[i].size, Len(src)))

\* One file of the image: an inode, an entry in the root directory, its data.
AddFile(s, n) ==
  AppendCells(AppendCells([s EXCEPT !.freeinode = @ + 1, !.dnode[s.freeinode] = Fresh("file")],
                          ROOTINO, <<Cell(ROOTINO, s.dnode[ROOTINO].size)>>),
              s.freeinode, Cells(s.freeinode, 0, n))

\* The disk mkfs writes for im: "." and "..", the files, the size of the root
\* directory rounded up, and the blocks handed out marked in the bitmap.
EmptyDisk ==
  [disk |-> [b \in DataBlocks |-> Zero], free |-> nmeta, freeinode |-> 2,
   dnode |-> [i \in Inodes |-> Fresh(IF i = ROOTINO THEN "dir" ELSE "none")]]
mkfs(im) ==
  [FoldLeft(AddFile, AppendCells(EmptyDisk, ROOTINO, Cells(ROOTINO, 0, 2)), im)
     EXCEPT !.dnode[ROOTINO].size = (@ \div BSIZE + 1) * BSIZE]

\* mkfs writes one block of the bitmap only, and asserts that it is enough.
ASSUME MkfsAssumption == \A im \in Images : mkfs(im).free < BPB

\* The content of an image, by its description alone.
ImageData(im, i) ==
  IF i = ROOTINO
  THEN LET n == Len(im) + 2
       IN Cells(ROOTINO, 0, n) \o [k \in 1..((n \div BSIZE + 1) * BSIZE - n) |-> 0]
  ELSE IF i - 1 <= Len(im) THEN Cells(i, 0, im[i - 1]) ELSE <<>>

MkfsDisk(m) ==
  disk = m.disk /\ used = 0..(m.free - 1) /\ dinode = m.dnode /\ inode = m.dnode
ContentInit ==
  \E im \in Images :
    /\ MkfsDisk(mkfs(im))
    /\ file = [i \in FileInodes |-> [off |-> 0, left |-> 0]]
    /\ wrote = 0
    /\ data = [i \in Inodes |-> ImageData(im, i)]
    /\ calls = 0

-----------------------------------------------------------------------------
Now == [disk |-> disk, used |-> used, node |-> inode, dnode |-> dinode, wrote |-> {}]
Becomes(s) ==
  /\ disk' = s.disk /\ used' = s.used /\ inode' = s.node /\ dinode' = s.dnode /\ wrote' = Cardinality(s.wrote)

\* A sequence with src laid over it from position off.
Over(seq, off, src) ==
  SubSeq(seq, 1, off) \o src \o SubSeq(seq, off + Len(src) + 1, Len(seq))

\* fileread: the offset advances by what was read.
ReadDone(i, r) ==
  Becomes(r.s) /\ file' = [file EXCEPT ![i].off = IF r.n > 0 THEN @ + r.n ELSE @]
FileRead(i, n) ==
  /\ inode[i].type = "file" /\ file[i].left = 0
  /\ ReadDone(i, readi(Now, i, file[i].off, n))
  /\ UNCHANGED data

\* write(fd, p, n): filewrite starts its loop.
SysWrite(i, n) ==
  /\ inode[i].type = "file" /\ file[i].left = 0
  /\ file' = [file EXCEPT ![i].left = n]
  /\ wrote' = 0 /\ UNCHANGED <<fsvars, data>>

\* The size of filewrite's next chunk.
Chunk(n) == Min({n, ((MAXOPBLOCKS - 1 - 1 - 2) \div 2) * BSIZE})

\* One turn of filewrite's loop: a transaction of at most max cells.
WriteDone(i, off, src, w) ==
  /\ Becomes(w.s)
  /\ file' = [file EXCEPT ![i] = IF w.n < 0 THEN [@ EXCEPT !.left = 0]
                                 ELSE [off |-> off + w.n, left |-> @.left - w.n]]
  /\ data' = IF w.n < 0 THEN data ELSE [data EXCEPT ![i] = Over(@, off, src)]
WriteChunk(i, off, src) == WriteDone(i, off, src, writei(Now, i, off, src))
FileWriteChunk(i) ==
  /\ file[i].left > 0
  /\ WriteChunk(i, file[i].off, Cells(i, file[i].off, Chunk(file[i].left)))

\* The file is unlinked and closed: iput truncates and frees the inode.
IputFree(i) ==
  /\ inode[i].type = "file" /\ file[i].left = 0
  /\ LET s == itrunc(Now, i)
     IN Becomes(iupdate([s EXCEPT !.node[i].type = "none"], i))
  /\ file' = [file EXCEPT ![i] = [off |-> 0, left |-> 0]]
  /\ data' = [data EXCEPT ![i] = <<>>]

\* ialloc and the iupdate of create: the inode is a new file, open at 0.
Create(i) ==
  /\ inode[i].type = "none"
  /\ Becomes(Logged([Now EXCEPT !.node[i] = Fresh("file"), !.dnode[i] = Fresh("file")], {IBLOCK}))
  /\ file' = [file EXCEPT ![i] = [off |-> 0, left |-> 0]]
  /\ UNCHANGED data

\* open of a file that is there: a new offset.
Reopen(i) ==
  /\ inode[i].type = "file" /\ file[i].left = 0
  /\ file' = [file EXCEPT ![i].off = 0]
  /\ wrote' = 0 /\ UNCHANGED <<fsvars, data>>

\* dirlink's search: the first empty slot from off on, as readi sees it.
RECURSIVE EmptySlot(_, _)
SlotSeen(r, off) == IF r.out = <<0>> THEN [s |-> r.s, off |-> off] ELSE EmptySlot(r.s, off + 1)
EmptySlot(s, off) ==
  IF off >= s.node[ROOTINO].size THEN [s |-> s, off |-> off]
  ELSE SlotSeen(readi(s, ROOTINO, off, 1), off)

\* writei of a directory entry.
WriteEntry(s, off, c) ==
  /\ Becomes(writei(s, ROOTINO, off, <<c>>).s)
  /\ data' = [data EXCEPT ![ROOTINO] = Over(@, off, <<c>>)]
  /\ UNCHANGED file

\* dirlink of one more entry into the root directory.
LinkAt(e) == e.off < MAXFILE * BSIZE /\ WriteEntry(e.s, e.off, Cell(ROOTINO, e.off))
Dirlink == LinkAt(EmptySlot(Now, 0))

\* unlink's memset of a directory entry.
ClearEntry(k) == data[ROOTINO][k + 1] # 0 /\ WriteEntry(Now, k, 0)

\* The in-memory inodes are read again from disk: evicted and looked up again
\* (ilock with valid == 0), or the machine restarts after a commit.
Reload ==
  /\ \A i \in FileInodes : file[i].left = 0
  /\ inode' = dinode /\ wrote' = 0
  /\ UNCHANGED <<disk, used, dinode, file, data>>

Call ==
  /\ calls < MaxCalls /\ calls' = calls + 1
  /\ \/ \E i \in FileInodes :
          \/ \E n \in Sizes : FileRead(i, n) \/ SysWrite(i, n)
          \/ IputFree(i) \/ Create(i) \/ Reopen(i)
     \/ Dirlink
     \/ \E k \in 2..(Len(data[ROOTINO]) - 1) : ClearEntry(k)

ContentNext ==
  \/ Call
  \/ (\E i \in FileInodes : FileWriteChunk(i)) /\ UNCHANGED calls
  \/ Reload /\ UNCHANGED calls

ContentSpec == ContentInit /\ [][ContentNext]_cvars

-----------------------------------------------------------------------------
\* Every place that refers to a data block: an address of an inode, or a
\* cell of an indirect block.
Places ==
  LET direct == {<<i, k>> : i \in Inodes, k \in 0..NDIRECT}
      at(p) == inode[p[1]].addrs[p[2]]
      indirect == {<<i, NDIRECT + 1 + k>> : i \in {j \in Inodes : inode[j].addrs[NDIRECT] # 0},
                                            k \in 0..(NINDIRECT - 1)}
      in(p) == disk[inode[p[1]].addrs[NDIRECT]][p[2] - NDIRECT - 1]
  IN {<<p, at(p)>> : p \in {q \in direct : at(q) # 0}}
     \union {<<p, in(p)>> : p \in {q \in indirect : in(q) # 0}}

\* A bit of the bitmap is set exactly for the blocks of the layout and the
\* blocks some inode refers to, and no block is referred to twice: balloc,
\* bfree, bmap and itrunc neither leak a block nor give it to two files.
\* Between calls the inode in memory equals the inode on disk (iupdate), so
\* that this holds of what a reboot finds.
BlocksExact ==
  /\ inode = dinode
  /\ used = 0..(nmeta - 1) \union {p[2] : p \in Places}
  /\ \A p, q \in Places : p[2] = q[2] => p = q

\* Reading any inode at any offset returns the cells last written there,
\* through the direct and the indirect blocks, after any history of writes,
\* truncations, reuse of the blocks by another file and reloads; and no
\* transaction on the way writes more blocks than begin_op reserves for it:
\* the chunk of filewrite leaves room for inode, indirect block and bitmap.
ReadsBack ==
  /\ wrote <= MAXOPBLOCKS
  /\ \A i \in Inodes :
    /\ inode[i].size = Len(data[i])
    /\ \A off \in 0..Len(data[i]) : \A n \in Sizes :
         readi(Now, i, off, n).out = SubSeq(data[i], off + 1, Min({off + n, Len(data[i])}))
=============================================================================
