-------------------------------- MODULE Log ---------------------------------
(***************************************************************************)
(* The write-ahead log of log.c: operations of several processes, group    *)
(* commit, crashes and recovery.                                           *)
(*                                                                         *)
(* A step is a critical section of log.lock, one disk write (bwrite waits  *)
(* for the disk, which writes a block at once), or what lies between two   *)
(* of these.  commit runs without log.lock, one disk write at a time.      *)
(*                                                                         *)
(* The buffer cache is seen from the log: a block is cached or not, a      *)
(* buffer that nobody has locked and that is not B_DIRTY may be evicted.   *)
(* Blocks are the home locations; the blocks of the log itself are written *)
(* through the cache and read by nobody else, so their buffers are left    *)
(* out.                                                                    *)
(***************************************************************************)
EXTENDS Integers, Sequences, FiniteSets

CONSTANTS
  Procs, Blocks, Values,
  MAXOPBLOCKS,   \* blocks one operation may write
  LOGSIZE,       \* entries of logheader.block
  size,          \* log.size: blocks of the log on disk, with its header
  NoBlock, NoValue

ASSUME LogAssumption ==
  /\ IsFiniteSet(Procs)
  /\ MAXOPBLOCKS \in Nat \ {0}
  /\ LOGSIZE \in Nat /\ MAXOPBLOCKS <= LOGSIZE
  /\ size \in Nat
  /\ NoBlock \notin Blocks /\ NoValue \notin Values

VARIABLES
  home,         \* the home locations on disk
  logged,       \* the data blocks of the log on disk
  head,         \* the header of the log on disk: the block numbers
  cache,        \* b->data of the cached blocks
  dirty,        \* the blocks whose buffer is B_DIRTY
  buf,          \* the buffer a process has locked, modified and not released
  lh,           \* log.lh in memory
  outstanding,  \* log.outstanding
  committing,   \* log.committing
  tail,         \* tail of write_log and install_trans: blocks already copied
  step,         \* what commit or recovery does next
  pc,           \* what a process executes
  wrote,        \* the blocks an operation has logged
  panicked,     \* log_write or end_op has called panic
  fault         \* a write past lh.block or past the log on disk has happened;
                \* what the program does then is not modelled

diskVars == <<home, logged, head>>
vars == <<diskVars, cache, dirty, buf, lh, outstanding, committing, tail, step,
          pc, wrote, panicked, fault>>

Entries(s) == {s[i] : i \in 1 .. Len(s)}

TypeOK ==
  /\ home \in [Blocks -> Values]
  /\ logged \in [1 .. LOGSIZE -> Values]
  /\ head \in Seq(Blocks) /\ lh \in Seq(Blocks)
  /\ cache \in [Blocks -> Values \cup {NoValue}]
  /\ dirty \subseteq Blocks
  /\ buf \in [Procs -> Blocks \cup {NoBlock}]
  /\ outstanding \in Nat
  /\ committing \in BOOLEAN
  /\ tail \in Nat
  /\ step \in {"none", "read_head", "write_log", "write_head", "install", "clear", "done"}
  /\ pc \in [Procs -> {"idle", "asleep", "woken", "op", "log_write", "commit"}]
  /\ wrote \in [Procs -> SUBSET Blocks]
  /\ panicked \in BOOLEAN
  /\ fault \in BOOLEAN

Active == {p \in Procs : pc[p] \in {"op", "log_write"}}

\* initlog is running: the first process calls it before there are others.
Booting == step = "read_head" \/ (step \in {"install", "clear"} /\ ~committing)

\* The machine before initlog, on a disk as mkfs makes it: a file system, and
\* a log that is empty and filled with zeroes.
Init ==
  /\ home \in [Blocks -> Values]
  /\ \E zero \in Values : logged = [i \in 1 .. LOGSIZE |-> zero]
  /\ head = <<>>
  /\ cache = [b \in Blocks |-> NoValue]
  /\ dirty = {}
  /\ buf = [p \in Procs |-> NoBlock]
  /\ lh = <<>>
  /\ outstanding = 0
  /\ committing = FALSE
  /\ tail = 0
  /\ step = "read_head"
  /\ pc = [p \in Procs |-> "idle"]
  /\ wrote = [p \in Procs |-> {}]
  /\ panicked = FALSE
  /\ fault = FALSE

-----------------------------------------------------------------------------
(***************************************************************************)
(* The buffer cache                                                        *)
(***************************************************************************)
Cached(b) == IF cache[b] = NoValue THEN home[b] ELSE cache[b]

Locked(b) == \E p \in Procs : buf[p] = b

\* bread by somebody who only reads.
Load(b) ==
  /\ ~Booting /\ cache[b] = NoValue
  /\ cache' = [cache EXCEPT ![b] = home[b]]
  /\ UNCHANGED <<diskVars, dirty, buf, lh, outstanding, committing, tail, step,
                 pc, wrote, panicked, fault>>

Evict_Dirty(b) ==
  /\ cache[b] # NoValue /\ ~Locked(b)
  /\ cache' = [cache EXCEPT ![b] = NoValue]
  /\ dirty' = dirty \ {b}
  /\ UNCHANGED <<diskVars, buf, lh, outstanding, committing, tail, step, pc,
                 wrote, panicked, fault>>

\* bget takes the buffer for another block.
Evict(b) ==
  /\ cache[b] # NoValue /\ ~Locked(b)
  /\ b \notin dirty
  /\ cache' = [cache EXCEPT ![b] = NoValue]
  /\ UNCHANGED <<diskVars, dirty, buf, lh, outstanding, committing, tail, step,
                 pc, wrote, panicked, fault>>

-----------------------------------------------------------------------------
(***************************************************************************)
(* Operations                                                              *)
(***************************************************************************)
Wakeup(f) == [p \in Procs |-> IF f[p] = "asleep" THEN "woken" ELSE f[p]]

HasSpace_ForgetsOwn == Len(lh) + outstanding * MAXOPBLOCKS <= LOGSIZE

HasSpace == Len(lh) + (outstanding + 1) * MAXOPBLOCKS <= LOGSIZE

BeginOp_DuringCommit(p) ==
  /\ ~Booting /\ pc[p] \in {"idle", "woken"} /\ HasSpace
  /\ pc' = [pc EXCEPT ![p] = "op"]
  /\ outstanding' = outstanding + 1
  /\ wrote' = [wrote EXCEPT ![p] = {}]
  /\ UNCHANGED <<diskVars, cache, dirty, buf, lh, committing, tail, step, panicked, fault>>

\* begin_op: one round of its loop.
BeginOp(p) ==
  /\ ~Booting /\ pc[p] \in {"idle", "woken"}
  /\ \/ /\ committing \/ ~HasSpace
        /\ pc' = [pc EXCEPT ![p] = "asleep"]
        /\ UNCHANGED <<outstanding, wrote>>
     \/ /\ ~committing /\ HasSpace
        /\ pc' = [pc EXCEPT ![p] = "op"]
        /\ outstanding' = outstanding + 1
        /\ wrote' = [wrote EXCEPT ![p] = {}]
  /\ UNCHANGED <<diskVars, cache, dirty, buf, lh, committing, tail, step, panicked, fault>>

(***************************************************************************)
(* An operation modifies a block in the cache and calls log_write, which   *)
(* looks at lh.n before it takes log.lock.  No operation writes more than  *)
(* MAXOPBLOCKS blocks (param.h).                                           *)
(***************************************************************************)
LogWrite(p, b, v) ==
  /\ pc[p] = "op" /\ ~Locked(b)
  /\ Cardinality(wrote[p] \cup {b}) <= MAXOPBLOCKS
  /\ buf' = [buf EXCEPT ![p] = b]
  /\ cache' = [cache EXCEPT ![b] = v]
  /\ pc' = [pc EXCEPT ![p] = "log_write"]
  /\ panicked' = (Len(lh) >= LOGSIZE \/ Len(lh) >= size - 1 \/ outstanding < 1)
  /\ UNCHANGED <<diskVars, dirty, lh, outstanding, committing, tail, step, wrote, fault>>

\* The rest of log_write, under log.lock, and brelse.
LogRecord(p) ==
  LET b == buf[p] IN
  /\ pc[p] = "log_write"
  /\ lh' = IF b \in Entries(lh) THEN lh ELSE Append(lh, b)
  /\ fault' = (Len(lh') > LOGSIZE)
  /\ dirty' = dirty \cup {b}
  /\ wrote' = [wrote EXCEPT ![p] = @ \cup {b}]
  /\ buf' = [buf EXCEPT ![p] = NoBlock]
  /\ pc' = [pc EXCEPT ![p] = "op"]
  /\ UNCHANGED <<diskVars, cache, outstanding, committing, tail, step, panicked>>

EndOp_NoCommit(p) ==
  /\ pc[p] = "op"
  /\ outstanding' = outstanding - 1
  /\ pc' = Wakeup([pc EXCEPT ![p] = "idle"])
  /\ panicked' = committing
  /\ UNCHANGED <<diskVars, cache, dirty, buf, lh, committing, tail, step, wrote, fault>>

\* end_op: the last operation commits.
EndOp(p) ==
  /\ pc[p] = "op"
  /\ outstanding' = outstanding - 1
  /\ \/ /\ outstanding = 1
        /\ committing' = TRUE
        /\ pc' = [pc EXCEPT ![p] = "commit"]
        /\ step' = IF lh = <<>> THEN "done" ELSE "write_log"
        /\ tail' = 0
     \/ /\ outstanding # 1
        /\ pc' = Wakeup([pc EXCEPT ![p] = "idle"])
        /\ UNCHANGED <<committing, step, tail>>
  /\ panicked' = committing
  /\ UNCHANGED <<diskVars, cache, dirty, buf, lh, wrote, fault>>

-----------------------------------------------------------------------------
(***************************************************************************)
(* commit                                                                  *)
(***************************************************************************)
WriteLog ==
  /\ step = "write_log"
  /\ logged' = [logged EXCEPT ![tail + 1] = Cached(lh[tail + 1])]
  /\ \/ tail + 1 < Len(lh) /\ tail' = tail + 1 /\ UNCHANGED step
     \/ tail + 1 = Len(lh) /\ tail' = 0 /\ step' = "write_head"
  /\ fault' = (tail + 1 > size - 1)
  /\ UNCHANGED <<home, head, cache, dirty, buf, lh, outstanding, committing,
                 pc, wrote, panicked>>

\* write_head, the point of commit.
WriteHead ==
  /\ step = "write_head"
  /\ head' = lh
  /\ step' = "install"
  /\ UNCHANGED <<home, logged, cache, dirty, buf, lh, outstanding, committing,
                 tail, pc, wrote, panicked, fault>>

\* install_trans, of commit and of recovery: bwrite leaves the buffer clean.
InstallTrans ==
  LET b == lh[tail + 1] IN
  /\ step = "install"
  /\ \/ /\ tail < Len(lh)
        /\ home' = [home EXCEPT ![b] = logged[tail + 1]]
        /\ cache' = [cache EXCEPT ![b] = logged[tail + 1]]
        /\ dirty' = dirty \ {b}
        /\ tail' = tail + 1
        /\ UNCHANGED step
     \/ /\ tail = Len(lh)
        /\ step' = "clear"
        /\ UNCHANGED <<home, cache, dirty, tail>>
  /\ UNCHANGED <<logged, head, buf, lh, outstanding, committing, pc, wrote,
                 panicked, fault>>

\* lh.n = 0 and the second write_head.
ClearLog ==
  /\ step = "clear"
  /\ lh' = <<>>
  /\ head' = <<>>
  /\ step' = IF committing THEN "done" ELSE "none"
  /\ tail' = 0
  /\ UNCHANGED <<home, logged, cache, dirty, buf, outstanding, committing, pc,
                 wrote, panicked, fault>>

CommitDone_WakesNobody(p) ==
  /\ pc[p] = "commit" /\ step = "done"
  /\ committing' = FALSE
  /\ step' = "none"
  /\ pc' = [pc EXCEPT ![p] = "idle"]
  /\ UNCHANGED <<diskVars, cache, dirty, buf, lh, outstanding, tail, wrote,
                 panicked, fault>>

\* The end of end_op.
CommitDone(p) ==
  /\ pc[p] = "commit" /\ step = "done"
  /\ committing' = FALSE
  /\ step' = "none"
  /\ pc' = Wakeup([pc EXCEPT ![p] = "idle"])
  /\ UNCHANGED <<diskVars, cache, dirty, buf, lh, outstanding, tail, wrote,
                 panicked, fault>>

-----------------------------------------------------------------------------
(***************************************************************************)
(* A crash at any moment, and recover_from_log at the next boot.           *)
(***************************************************************************)
Crash ==
  /\ cache' = [b \in Blocks |-> NoValue]
  /\ dirty' = {}
  /\ buf' = [p \in Procs |-> NoBlock]
  /\ lh' = <<>>
  /\ outstanding' = 0
  /\ committing' = FALSE
  /\ tail' = 0
  /\ step' = "read_head"
  /\ pc' = [p \in Procs |-> "idle"]
  /\ wrote' = [p \in Procs |-> {}]
  /\ panicked' = FALSE
  /\ UNCHANGED <<diskVars, fault>>

ReadHead ==
  /\ step = "read_head"
  /\ lh' = head
  /\ step' = "install"
  /\ UNCHANGED <<diskVars, cache, dirty, buf, outstanding, committing, tail, pc,
                 wrote, panicked, fault>>

-----------------------------------------------------------------------------
Commit == WriteLog \/ WriteHead \/ InstallTrans \/ ClearLog

Running ==
  \/ \E b \in Blocks : Load(b) \/ Evict(b)
  \/ \E p \in Procs : BeginOp(p) \/ LogRecord(p) \/ EndOp(p) \/ CommitDone(p)
  \/ \E p \in Procs, b \in Blocks, v \in Values : LogWrite(p, b, v)
  \/ Commit
  \/ ReadHead

Next ==
  \/ ~fault /\ ~panicked /\ Running
  \/ ~fault /\ Crash
  \/ fault /\ UNCHANGED vars

Spec == Init /\ [][Next]_vars

-----------------------------------------------------------------------------
(***************************************************************************)
(* The log implements AtomicDisk.  Durable is what a boot would make of    *)
(* the disk as it is now; Memory is what operations see.                   *)
(***************************************************************************)
IndexIn(s, b) == CHOOSE i \in 1 .. Len(s) : s[i] = b

Durable ==
  [b \in Blocks |-> IF b \in Entries(head) THEN logged[IndexIn(head, b)] ELSE home[b]]

Memory == IF Booting THEN Durable ELSE [b \in Blocks |-> Cached(b)]

AD == INSTANCE AtomicDisk WITH disk <- Durable, mem <- Memory, active <- Active

\* Whatever the order of the operations and wherever a crash falls, also in the
\* middle of recovery, a boot finds all of an operation or nothing of it: a
\* commit happens at once, in write_head, and only while nothing is active.
AtomicOps == AD!Spec

\* When end_op of the last operation has returned, nothing is left to be lost.
DurableWhenQuiet ==
  outstanding = 0 /\ ~committing /\ ~Booting => Durable = Memory

\* The reservation of begin_op keeps log_write inside lh.block: several calls
\* can pass the test of lh.n before any of them takes log.lock and adds a block,
\* so the test alone does not.
NoOverrun == Len(lh) <= LOGSIZE

\* The log commits only while no operation is active, and counts the active
\* ones right, across begin_op, end_op, a crash and a commit that runs without
\* log.lock: what makes the panics "log.committing" and "log_write outside of
\* trans" unreachable.
CommitsAlone == outstanding = Cardinality(Active) /\ (committing => Active = {})

\* The entries of lh.block that the active operations may still fill.
Reserved ==
  {x \in Active \X (1 .. MAXOPBLOCKS) : x[2] <= MAXOPBLOCKS - Cardinality(wrote[x[1]])}

\* Where commit and recovery can be, and that the entries in use and the
\* reserved ones together fit into lh.block: the inductive form of NoOverrun
\* and CommitsAlone.
ReserveInv ==
  /\ TypeOK /\ CommitsAlone
  /\ step # "none" => Active = {}
  /\ step \in {"write_log", "write_head", "done"} => committing
  /\ step \in {"none", "read_head"} => ~committing
  /\ \A p \in Procs : IsFiniteSet(wrote[p])
  /\ \A p \in Active : wrote[p] \subseteq Entries(lh)
  /\ \A p \in Procs :
       IF pc[p] = "log_write"
       THEN buf[p] \in Blocks /\ Cardinality(wrote[p] \cup {buf[p]}) <= MAXOPBLOCKS
       ELSE buf[p] = NoBlock
  /\ Len(head) <= LOGSIZE
  /\ Len(lh) + Cardinality(Reserved) <= LOGSIZE

Injective(s) == \A i, j \in 1 .. Len(s) : s[i] = s[j] => i = j

\* Until the header is written the log is empty on disk, and what it will
\* commit is in dirty buffers.
Gathering ==
  step \in {"none", "write_log", "write_head", "done"} => head = <<>> /\ dirty = Entries(lh)

\* write_log has copied the first blocks of the transaction.
Copied ==
  /\ step = "write_log" => tail < Len(lh) /\ \A i \in 1 .. tail : logged[i] = cache[lh[i]]
  /\ step = "write_head" => tail = 0 /\ \A i \in 1 .. Len(lh) : logged[i] = cache[lh[i]]

\* After that the disk has the whole transaction, and install_trans, of commit
\* or of recovery, has copied its first blocks home.
Installed ==
  /\ step \in {"install", "clear"} =>
       /\ head = lh /\ tail <= Len(lh)
       /\ \A i \in 1 .. tail : home[lh[i]] = logged[i]
       /\ committing => /\ \A i \in 1 .. Len(lh) : logged[i] = Cached(lh[i])
                        /\ dirty = {lh[i] : i \in (tail + 1) .. Len(lh)}
  /\ step = "clear" => tail = Len(lh)

\* A buffer that is neither dirty nor locked agrees with the disk; the others
\* are not evicted.
CacheInv ==
  \A b \in Blocks :
    IF b \in dirty \/ Locked(b) THEN cache[b] # NoValue ELSE cache[b] \in {NoValue, home[b]}

\* What the disk and the buffers hold at every point of commit and recovery:
\* the inductive form of AtomicOps and DurableWhenQuiet.
WriteAheadInv ==
  /\ Injective(lh) /\ Injective(head)
  /\ Gathering /\ Copied /\ Installed /\ CacheInv
  /\ Booting => dirty = {}
  /\ step = "read_head" => tail = 0
  /\ step = "done" \/ (step = "none" /\ Active = {}) => lh = <<>>

\* log.c keeps its counts, its reservations and the order of its disk writes
\* at every point of begin_op, log_write, end_op, commit and recovery.
LogInv == ReserveInv /\ WriteAheadInv

-----------------------------------------------------------------------------
(***************************************************************************)
(* Liveness: disk writes complete, and an operation that has begun ends    *)
(* (an operation makes a bounded number of calls of log_write).            *)
(***************************************************************************)
Fairness ==
  /\ WF_vars(~fault /\ ~panicked /\ (Commit \/ ReadHead))
  /\ \A p \in Procs :
       /\ WF_vars(~fault /\ ~panicked /\ (LogRecord(p) \/ CommitDone(p)))
       /\ SF_vars(~fault /\ ~panicked /\ EndOp(p))

FairSpec == Spec /\ Fairness

\* No wakeup is lost between begin_op, end_op and commit: whoever sleeps in
\* begin_op, for a commit or for space, is woken.
SleeperWoken ==
  \A p \in Procs : pc[p] = "asleep" ~> (pc[p] # "asleep" \/ panicked \/ fault)

=============================================================================
