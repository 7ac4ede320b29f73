-------------------------------- MODULE Bio --------------------------------
(***************************************************************************)
(* The buffer cache (bio.c) over the IDE driver (ide.c), with the sleep-   *)
(* lock of every buffer (sleeplock.c).                                     *)
(*                                                                         *)
(* An action is one critical section: a scan under bcache.lock, a step     *)
(* under the lk of a sleep-lock, or a step under idelock.  sleep() gives   *)
(* up its spin-lock only once ptable.lock is held, so "test the condition  *)
(* and go to sleep" is one step.  Processes are clients: they read a       *)
(* block, write it through (bwrite), or change it and leave it dirty for   *)
(* the log to write later (log_write).                                     *)
(***************************************************************************)
EXTENDS Naturals, Sequences, FiniteSets, Functions

CONSTANTS
  Clients, DiskBlocks, Contents,
  Bufs,       \* bcache.buf[NBUF]
  MaxPinned,  \* how many buffers the log keeps dirty at a time (LOGSIZE)
  NoProc, NoDiskBlock, NoBuf

ASSUME BioAssumption ==
  /\ IsFiniteSet(Clients) /\ IsFiniteSet(Bufs)
  /\ NoProc \notin Clients /\ NoDiskBlock \notin DiskBlocks /\ NoBuf \notin Bufs

VARIABLES
  lru,       \* bcache.head: the buffers from head.next to head.prev
  blockno, B_VALID, B_DIRTY, refcnt, data,   \* the fields of struct buf
  locker,    \* buf -> the process that holds its sleep-lock
  idequeue,  \* the buffers waiting for the disk, the active one first
  cmd,       \* what idestart last told the controller
  disk,      \* block -> contents
  unread,    \* buffers marked valid although their read failed (auxiliary)
  at,        \* what a client executes
  using,     \* the buffer it has from bget
  op         \* what it does with the block

bcache == <<lru, blockno, refcnt>>
device == <<idequeue, cmd, disk, unread>>
client == <<at, using, op>>
biovars == <<lru, blockno, B_VALID, B_DIRTY, refcnt, data, locker, idequeue, cmd,
             disk, unread, at, using, op>>

Ops == {"read", "write", "pin"}
NoCmd == [write |-> FALSE, block |-> NoDiskBlock]

\* binit: nothing cached, no buffer locked; the disk holds anything.
BioInit ==
  /\ lru = CHOOSE f \in Bijection(1..Cardinality(Bufs), Bufs) : TRUE
  /\ blockno = [b \in Bufs |-> NoDiskBlock]
  /\ B_VALID = [b \in Bufs |-> FALSE]
  /\ B_DIRTY = [b \in Bufs |-> FALSE]
  /\ refcnt = [b \in Bufs |-> 0]
  /\ disk \in [DiskBlocks -> Contents]
  /\ \E v \in Contents : data = [b \in Bufs |-> v]
  /\ locker = [b \in Bufs |-> NoProc]
  /\ idequeue = <<>> /\ cmd = NoCmd /\ unread = {}
  /\ at = [p \in Clients |-> "idle"]
  /\ using = [p \in Clients |-> NoBuf]
  /\ op = [p \in Clients |-> "read"]

-----------------------------------------------------------------------------
(***************************************************************************)
(* bget.                                                                   *)
(***************************************************************************)

\* A recycling scan that forgets B_DIRTY.
RecyclableAny(b) == refcnt[b] = 0

\* The buffers the recycling scan accepts.
Recyclable(b) == refcnt[b] = 0 /\ ~B_DIRTY[b]

\* A count that does not grow while others wait for the buffer.
RefOnce(b) == [refcnt EXCEPT ![b] = IF @ = 0 THEN 1 ELSE @]

\* b->refcnt++.
Ref(b) == [refcnt EXCEPT ![b] = @ + 1]

\* The scan of bget finds k: it only counts the new reference.
BgetHit(p, k) ==
  /\ at[p] = "idle"
  /\ \E b \in Bufs :
       /\ blockno[b] = k
       /\ refcnt' = Ref(b)
       /\ using' = [using EXCEPT ![p] = b]
  /\ UNCHANGED <<lru, blockno, B_VALID, unread>>

\* k is not cached: the scan from the end of the list recycles the first free
\* buffer it meets, the least recently used one.
BgetMiss(p, k) ==
  /\ at[p] = "idle"
  /\ \A b \in Bufs : blockno[b] # k
  /\ \E i \in DOMAIN lru : LET b == lru[i] IN
       /\ Recyclable(b) /\ \A j \in DOMAIN lru : j > i => ~Recyclable(lru[j])
       /\ blockno' = [blockno EXCEPT ![b] = k]
       /\ B_VALID' = [B_VALID EXCEPT ![b] = FALSE]
       /\ refcnt' = [refcnt EXCEPT ![b] = 1]
       /\ unread' = unread \ {b}
       /\ using' = [using EXCEPT ![p] = b]
  /\ UNCHANGED lru

Pinned == {b \in Bufs : B_DIRTY[b]}

\* A client asks for block k with bread, to do o with it.  The log admits
\* only MaxPinned blocks at a time (begin_op).
Bread(p, k, o) ==
  /\ o = "pin" =>
       Cardinality(Pinned \cup {using[q] : q \in {r \in Clients \ {p} :
                                   at[r] # "idle" /\ op[r] = "pin"}}) < MaxPinned
  /\ BgetHit(p, k) \/ BgetMiss(p, k)
  /\ at' = [at EXCEPT ![p] = "lock"]
  /\ op' = [op EXCEPT ![p] = o]
  /\ UNCHANGED <<B_DIRTY, data, locker, idequeue, cmd, disk>>

\* acquiresleep: take the lock or sleep; bread then looks at B_VALID.
Acquiresleep(p) ==
  LET b == using[p] IN
  /\ at[p] = "lock"
  /\ IF locker[b] # NoProc
     THEN /\ at' = [at EXCEPT ![p] = "locksleep"]
          /\ UNCHANGED locker
     ELSE /\ locker' = [locker EXCEPT ![b] = p]
          /\ at' = [at EXCEPT ![p] = IF B_VALID[b] THEN "use" ELSE "iderw"]
  /\ UNCHANGED <<bcache, B_VALID, B_DIRTY, data, device, using, op>>

-----------------------------------------------------------------------------
(***************************************************************************)
(* The disk.                                                               *)
(***************************************************************************)

\* idestart: B_DIRTY decides between writing the block and reading it.
idestart(b) == [write |-> B_DIRTY[b], block |-> blockno[b]]

\* Starting the disk even when it is busy.
StartAlways(b) == idestart(b)

\* iderw starts the disk only when the queue was empty.
StartIfIdle(b) == IF idequeue = <<>> THEN idestart(b) ELSE cmd

\* ideintr starts the next request.
StartNext(queue) == IF queue = <<>> THEN NoCmd ELSE idestart(Head(queue))

InSync(b) == B_VALID[b] /\ ~B_DIRTY[b]

\* iderw: append the buffer, start the disk when it is idle, and sleep.
Iderw(p) ==
  LET b == using[p] IN
  /\ at[p] = "iderw"
  /\ idequeue' = Append(idequeue, b)
  /\ cmd' = StartIfIdle(b)
  /\ at' = [at EXCEPT ![p] = "rwsleep"]
  /\ UNCHANGED <<bcache, B_VALID, B_DIRTY, data, locker, disk, unread, using, op>>

\* The loop of iderw after a wakeup.
IderwRecheck(p) ==
  /\ at[p] = "rwcheck"
  /\ at' = [at EXCEPT ![p] = IF ~InSync(using[p]) THEN "rwsleep"
                             ELSE IF op[p] = "wrote" THEN "release" ELSE "use"]
  /\ UNCHANGED <<bcache, B_VALID, B_DIRTY, data, locker, device, using, op>>

\* wakeup(chan): the sleepers on the buffer, or on its lock, look again.
Wake(b, from, to) ==
  [p \in Clients |-> IF at[p] = from /\ using[p] = b THEN to ELSE at[p]]

\* ideintr for the active request.  A failed read (idewait(1) < 0) skips insl
\* and still sets B_VALID.
Ideintr(failed) ==
  /\ idequeue # <<>> /\ cmd # NoCmd
  /\ LET b == Head(idequeue) rest == Tail(idequeue) IN
       /\ failed => ~B_DIRTY[b]
       /\ idequeue' = rest
       /\ disk' = IF cmd.write THEN [disk EXCEPT ![cmd.block] = data[b]] ELSE disk
       /\ data' = IF B_DIRTY[b] \/ failed THEN data
                  ELSE [data EXCEPT ![b] = disk[cmd.block]]
       /\ unread' = IF failed THEN unread \cup {b} ELSE unread
       /\ B_VALID' = [B_VALID EXCEPT ![b] = TRUE]
       /\ B_DIRTY' = [B_DIRTY EXCEPT ![b] = FALSE]
       /\ cmd' = StartNext(rest)
       /\ at' = Wake(b, "rwsleep", "rwcheck")
  /\ UNCHANGED <<bcache, locker, using, op>>

-----------------------------------------------------------------------------
(***************************************************************************)
(* The client between bread and brelse.                                    *)
(***************************************************************************)

\* A writer changes the block and sets B_DIRTY: bwrite goes on to iderw,
\* log_write leaves the block dirty in the cache.
UseWrite(p, v) ==
  LET b == using[p] IN
  /\ at[p] = "use" /\ op[p] \in {"write", "pin"}
  /\ data' = [data EXCEPT ![b] = v]
  /\ B_DIRTY' = [B_DIRTY EXCEPT ![b] = TRUE]
  /\ unread' = unread \ {b}
  /\ at' = [at EXCEPT ![p] = IF op[p] = "write" THEN "iderw" ELSE "release"]
  /\ op' = [op EXCEPT ![p] = IF @ = "write" THEN "wrote" ELSE @]
  /\ UNCHANGED <<bcache, B_VALID, locker, idequeue, cmd, disk, using>>

\* The wakeup of releasesleep.
WakeLockers(b) == Wake(b, "locksleep", "lock")

\* brelse, first half: releasesleep (a reader has nothing to do before it).
Releasesleep(p) ==
  LET b == using[p] IN
  /\ at[p] = "release" \/ (at[p] = "use" /\ op[p] = "read")
  /\ locker' = [locker EXCEPT ![b] = NoProc]
  /\ at' = [WakeLockers(b) EXCEPT ![p] = "unref"]
  /\ UNCHANGED <<bcache, B_VALID, B_DIRTY, data, device, using, op>>

\* The list with b moved to its head: the buffers before it move up by one.
MostRecent(b) ==
  LET i == CHOOSE j \in DOMAIN lru : lru[j] = b
  IN [j \in DOMAIN lru |-> IF j = 1 THEN b ELSE IF j <= i THEN lru[j - 1] ELSE lru[j]]

\* brelse, second half: drop the reference; an unused buffer becomes the
\* most recently used one.
Unref(p) ==
  LET b == using[p] IN
  /\ at[p] = "unref"
  /\ refcnt' = [refcnt EXCEPT ![b] = @ - 1]
  /\ lru' = IF refcnt[b] = 1 THEN MostRecent(b) ELSE lru
  /\ at' = [at EXCEPT ![p] = "idle"]
  /\ op' = [op EXCEPT ![p] = "read"]
  /\ using' = [using EXCEPT ![p] = NoBuf]
  /\ UNCHANGED <<blockno, B_VALID, B_DIRTY, data, locker, device>>

\* kill() makes a sleeper runnable: it tests its condition again.
KillWakes(p) ==
  /\ at[p] \in {"locksleep", "rwsleep"}
  /\ at' = [at EXCEPT ![p] = IF @ = "locksleep" THEN "lock" ELSE "rwcheck"]
  /\ UNCHANGED <<bcache, B_VALID, B_DIRTY, data, locker, device, using, op>>

BioStep(p) ==
  \/ Acquiresleep(p) \/ Iderw(p) \/ IderwRecheck(p)
  \/ \E v \in Contents : UseWrite(p, v)
  \/ Releasesleep(p) \/ Unref(p)

BioNext ==
  \/ \E p \in Clients, k \in DiskBlocks, o \in Ops : Bread(p, k, o)
  \/ \E p \in Clients : BioStep(p)
  \/ \E p \in Clients : KillWakes(p)
  \/ \E failed \in BOOLEAN : Ideintr(failed)

BioSpec == BioInit /\ [][BioNext]_biovars

-----------------------------------------------------------------------------
\* Where a client has the sleep-lock of its buffer.
Holders == {"use", "iderw", "rwsleep", "rwcheck", "release"}

CacheTypeOK ==
  /\ lru \in Seq(Bufs) /\ Range(lru) = Bufs /\ Len(lru) = Cardinality(Bufs)
  /\ blockno \in [Bufs -> DiskBlocks \cup {NoDiskBlock}]
  /\ B_VALID \in [Bufs -> BOOLEAN] /\ B_DIRTY \in [Bufs -> BOOLEAN]
  /\ refcnt \in [Bufs -> 0..Cardinality(Clients)]
  /\ data \in [Bufs -> Contents] /\ disk \in [DiskBlocks -> Contents]
  /\ locker \in [Bufs -> Clients \cup {NoProc}]
  /\ idequeue \in Seq(Bufs) /\ unread \in SUBSET Bufs
  /\ at \in [Clients -> Holders \cup {"idle", "lock", "locksleep", "unref"}]
  /\ using \in [Clients -> Bufs \cup {NoBuf}]
  /\ op \in [Clients -> Ops \cup {"wrote"}]

\* The buffer that caches block k, and the block as a client would read it.
Holding(k) == {b \in Bufs : blockno[b] = k /\ B_VALID[b] /\ b \notin unread}
View == [k \in DiskBlocks |-> IF Holding(k) = {} THEN disk[k]
                          ELSE data[CHOOSE b \in Holding(k) : TRUE]]
Owner == [k \in DiskBlocks |->
            LET held == {b \in Bufs : blockno[b] = k /\ locker[b] # NoProc}
            IN IF held = {} THEN NoProc ELSE locker[CHOOSE b \in held : TRUE]]

BS == INSTANCE BlockStore WITH Procs <- Clients, Blocks <- DiskBlocks, Values <- Contents,
                               owner <- Owner, store <- View

\* The cache over the disk implements BlockStore: recycling a buffer, filling
\* it, completing a request and waking the wrong process never change what
\* a block holds or who owns it (bget, brelse, ideintr).
BlocksAreRegisters == BS!StoreSpec

\* A request is queued exactly while somebody sleeps for it and owns the
\* buffer: no buffer is queued twice, and none that another process holds or
\* that was recycled meanwhile is handed to the disk (iderw, ideintr).  Nobody
\* sleeps on an event that is not coming: the sleeper for a lock has a holder
\* to wake it, the sleeper for the disk is still in the queue (releasesleep).
RequestsOwned ==
  /\ IsInjective(idequeue)
  /\ \A b \in Range(idequeue) :
       \E p \in Clients : using[p] = b /\ locker[b] = p /\ at[p] \in {"rwsleep", "rwcheck"}
  /\ idequeue # <<>> => cmd = idestart(Head(idequeue))
  /\ \A p \in Clients :
       /\ at[p] = "locksleep" => locker[using[p]] # NoProc
       /\ at[p] = "rwsleep" => using[p] \in Range(idequeue)

\* No buffer is lost: refcnt counts exactly the processes between bget and the
\* end of brelse, so bget reaches its panic only when the pinned blocks and
\* the processes at work really occupy all NBUF buffers.  The list of buffers
\* is a permutation of them (CacheTypeOK) through every brelse.
BuffersAccounted ==
  /\ CacheTypeOK
  /\ \A b \in Bufs : refcnt[b] = Cardinality({p \in Clients : using[p] = b})
  /\ (\A b \in Bufs : ~Recyclable(b)) =>
       Cardinality(Pinned) + Cardinality({p \in Clients : at[p] # "idle"})
         >= Cardinality(Bufs)

-----------------------------------------------------------------------------
(***************************************************************************)
(* The inductive invariant.                                                *)
(***************************************************************************)

\* A block is in one buffer at most, and a buffer in use is one of a block.
Placed ==
  /\ \A b, c \in Bufs : blockno[b] = blockno[c] /\ blockno[b] # NoDiskBlock => b = c
  /\ \A b \in Bufs : B_VALID[b] => blockno[b] # NoDiskBlock
  /\ \A p \in Clients :
       IF at[p] = "idle" THEN using[p] = NoBuf
       ELSE using[p] \in Bufs /\ blockno[using[p]] # NoDiskBlock

Users(b) == {p \in Clients : using[p] = b}
Counted == \A b \in Bufs : refcnt[b] = Cardinality(Users(b))

\* The sleep-lock of a buffer is held exactly by the client that works on it.
Exclusive ==
  /\ \A p \in Clients : at[p] \in Holders => locker[using[p]] = p
  /\ \A b \in Bufs : locker[b] # NoProc => using[locker[b]] = b /\ at[locker[b]] \in Holders

\* A buffer that was read, and has not been changed since, agrees with the disk.
Coherent ==
  /\ \A b \in Bufs :
       /\ B_DIRTY[b] => B_VALID[b] /\ b \notin unread
       /\ b \in unread => B_VALID[b]
       /\ InSync(b) /\ b \notin unread => data[b] = disk[blockno[b]]
  /\ \A p \in Clients : at[p] = "use" => B_VALID[using[p]]

\* A request waits exactly while its buffer is not in step with the disk.
Queued ==
  /\ RequestsOwned
  /\ \A b \in Range(idequeue) : ~InSync(b)
  /\ \A p \in Clients :
       /\ at[p] = "iderw" => ~InSync(using[p])
       /\ at[p] = "rwcheck" /\ ~InSync(using[p]) => using[p] \in Range(idequeue)

BioInv == CacheTypeOK /\ Placed /\ Counted /\ Exclusive /\ Coherent /\ Queued
=============================================================================
