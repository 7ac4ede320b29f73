---------------------------- MODULE LogTheorems -----------------------------
(***************************************************************************)
(* The theorems about the write-ahead log of module Log, for every number  *)
(* of processes, blocks and values and every size of the log and of an     *)
(* operation.                                                              *)
(*                                                                         *)
(* First the space of the log: every step keeps ReserveInv, so that no     *)
(* operation that was admitted overruns the log.  Then its contents: every *)
(* step keeps WriteAheadInv, with one lemma per action, and is a step of   *)
(* AtomicDisk or leaves its state unchanged.                               *)
(***************************************************************************)
EXTENDS Log, FiniteSetTheorems, TLAPS

USE DEF vars, diskVars

\* Most leaves are first-order; a leaf that needs arithmetic, sequences or
\* large records names SMT.
USE ZenonT(30)

-----------------------------------------------------------------------------
\* What the processes of A may still fill, when p has written w[p], is at most
\* MAXOPBLOCKS for each.
LEMMA ReservedBound ==
  ASSUME NEW A \in SUBSET Procs, NEW w, NEW R,
         R = {x \in A \X (1 .. MAXOPBLOCKS) : x[2] <= MAXOPBLOCKS - Cardinality(w[x[1]])}
  PROVE  /\ IsFiniteSet(A) /\ Cardinality(A) \in Nat
         /\ IsFiniteSet(R) /\ Cardinality(R) \in Nat
         /\ Cardinality(R) <= Cardinality(A) * MAXOPBLOCKS
<1>1. IsFiniteSet(A) /\ Cardinality(A) \in Nat
  BY LogAssumption, FS_Subset, FS_CardinalityType
<1>2. IsFiniteSet(1 .. MAXOPBLOCKS) /\ Cardinality(1 .. MAXOPBLOCKS) = MAXOPBLOCKS
  BY LogAssumption, FS_Interval, SMTT(30)
<1>3. /\ IsFiniteSet(A \X (1 .. MAXOPBLOCKS))
      /\ Cardinality(A \X (1 .. MAXOPBLOCKS)) = Cardinality(A) * MAXOPBLOCKS
  BY <1>1, <1>2, FS_Product
<1>4. R \in SUBSET (A \X (1 .. MAXOPBLOCKS))
  OBVIOUS
<1> QED BY <1>1, <1>3, <1>4, FS_Subset, FS_CardinalityType, SMTT(30)

\* The same for the active operations.
LEMMA ReservedFinite ==
  /\ IsFiniteSet(Active) /\ Cardinality(Active) \in Nat
  /\ IsFiniteSet(Reserved) /\ Cardinality(Reserved) \in Nat
<1>1. Active \in SUBSET Procs
  BY DEF Active
<1> QED BY <1>1, ReservedBound DEF Reserved

\* No active operation reserves nothing.
LEMMA NoneReserved ==
  ASSUME Active = {}
  PROVE  Cardinality(Reserved) = 0
BY FS_EmptySet DEF Reserved

\* Fewer reservations take less room.
LEMMA ReservedShrinks ==
  ASSUME NEW S, NEW T, IsFiniteSet(T), S \subseteq T
  PROVE  IsFiniteSet(S) /\ Cardinality(S) \in Nat /\ Cardinality(S) <= Cardinality(T)
BY FS_Subset, FS_CardinalityType

-----------------------------------------------------------------------------
\* An empty log, and nobody active.
LEMMA InitReserve == Init => ReserveInv
<1> SUFFICES ASSUME Init PROVE ReserveInv
  OBVIOUS
<1>0. PICK zero \in Values : logged = [i \in 1 .. LOGSIZE |-> zero]
  BY DEF Init
<1>1. TypeOK
  <2>1. /\ home \in [Blocks -> Values] /\ logged \in [1 .. LOGSIZE -> Values]
        /\ cache \in [Blocks -> Values \cup {NoValue}]
        /\ buf \in [Procs -> Blocks \cup {NoBlock}]
        /\ pc \in [Procs -> {"idle", "asleep", "woken", "op", "log_write", "commit"}]
        /\ wrote \in [Procs -> SUBSET Blocks]
    BY <1>0 DEF Init
  <2>2. head \in Seq(Blocks) /\ lh \in Seq(Blocks) /\ dirty \subseteq Blocks
    BY SMTT(30) DEF Init
  <2> QED BY <2>1, <2>2 DEF Init, TypeOK
<1>2. Active = {} /\ Cardinality(Active) = 0 /\ Cardinality(Reserved) = 0
  BY NoneReserved, FS_EmptySet DEF Init, Active
<1> QED BY <1>1, <1>2, LogAssumption, FS_EmptySet, SMTT(30) DEF Init, ReserveInv, CommitsAlone, Entries

\* Steps that leave the operations alone, and replace the log in memory only
\* while there are none: the cache, the disk writes of commit and recovery.
LEMMA CountsKept ==
  ASSUME ReserveInv, TypeOK', UNCHANGED <<buf, outstanding, pc, wrote>>,
         Len(head') <= LOGSIZE,
         lh' = lh \/ (Active = {} /\ Len(lh') <= LOGSIZE),
         step' # "none" \/ committing' => Active = {},
         step' \in {"write_log", "write_head", "done"} => committing',
         step' \in {"none", "read_head"} => ~committing'
  PROVE  ReserveInv'
<1>1. Active' = Active
  BY DEF Active
<1>2. Reserved' = Reserved
  BY <1>1 DEF Reserved
<1>3. Len(lh') + Cardinality(Reserved') <= LOGSIZE
  <2>1. CASE lh' = lh
    BY <1>2, <2>1 DEF ReserveInv
  <2>2. CASE Active = {} /\ Len(lh') <= LOGSIZE
    BY <1>2, <2>2, NoneReserved, SMTT(30) DEF TypeOK
  <2> QED BY <2>1, <2>2
<1>4. \A p \in Active' : wrote'[p] \subseteq Entries(lh')
  BY <1>1, SMTT(30) DEF ReserveInv, Entries
<1> QED BY <1>1, <1>3, <1>4 DEF ReserveInv, CommitsAlone

\* bread and bget leave the log alone.
LEMMA CacheSteps ==
  ASSUME ReserveInv, NEW b \in Blocks, Load(b) \/ Evict(b)
  PROVE  ReserveInv'
<1>1. TypeOK'
  BY DEF ReserveInv, TypeOK, Load, Evict
<1>2. UNCHANGED <<head, buf, lh, outstanding, committing, step, pc, wrote>>
  BY DEF Load, Evict
<1> QED BY <1>1, <1>2, CountsKept DEF ReserveInv, CommitsAlone

\* write_log only writes the disk.
LEMMA WriteLogReserve ==
  ASSUME ReserveInv, WriteLog
  PROVE  ReserveInv'
<1>1. tail + 1 \in 1 .. Len(lh) /\ lh[tail + 1] \in Blocks
  BY SMTT(30) DEF ReserveInv, TypeOK, WriteLog
<1>2. Cached(lh[tail + 1]) \in Values
  BY <1>1 DEF ReserveInv, TypeOK, Cached
<1>3. fault' \in BOOLEAN
  BY SMTT(30) DEF WriteLog
<1>4. TypeOK'
  <2>1. logged' \in [1 .. LOGSIZE -> Values]
    BY <1>2 DEF ReserveInv, TypeOK, WriteLog
  <2>2. tail' \in Nat /\ step' \in {"write_log", "write_head"}
    BY SMTT(30) DEF ReserveInv, TypeOK, WriteLog
  <2> QED BY <1>3, <2>1, <2>2 DEF ReserveInv, TypeOK, WriteLog
<1> QED BY <1>4, CountsKept DEF ReserveInv, CommitsAlone, WriteLog

\* write_head: the header has as many entries as lh.
LEMMA WriteHeadReserve ==
  ASSUME ReserveInv, WriteHead
  PROVE  ReserveInv'
<1>1. TypeOK'
  BY DEF ReserveInv, TypeOK, WriteHead
<1>2. Len(lh) <= LOGSIZE
  BY ReservedFinite, LogAssumption, SMTT(30) DEF ReserveInv, TypeOK
<1> QED BY <1>1, <1>2, CountsKept DEF ReserveInv, CommitsAlone, WriteHead

\* install_trans stays inside the blocks of the log.
LEMMA InstallTransReserve ==
  ASSUME ReserveInv, InstallTrans
  PROVE  ReserveInv'
<1>1. Len(lh) <= LOGSIZE
  BY ReservedFinite, LogAssumption, SMTT(30) DEF ReserveInv, TypeOK
<1>2. TypeOK'
  <2>1. CASE tail < Len(lh)
    <3>1. /\ tail + 1 \in 1 .. Len(lh) /\ lh[tail + 1] \in Blocks
          /\ tail + 1 \in 1 .. LOGSIZE /\ logged[tail + 1] \in Values
      BY <1>1, <2>1, LogAssumption, SMTT(30) DEF ReserveInv, TypeOK
    <3>2. /\ home' \in [Blocks -> Values] /\ cache' \in [Blocks -> Values \cup {NoValue}]
          /\ dirty' \subseteq Blocks /\ tail' \in Nat /\ step' = step
      BY <2>1, <3>1, SMTT(30) DEF ReserveInv, TypeOK, InstallTrans
    <3> QED BY <3>2 DEF ReserveInv, TypeOK, InstallTrans
  <2>2. CASE tail = Len(lh)
    BY <2>2, SMTT(30) DEF ReserveInv, TypeOK, InstallTrans
  <2> QED BY <2>1, <2>2 DEF InstallTrans
<1> QED BY <1>2, CountsKept DEF ReserveInv, CommitsAlone, InstallTrans

\* The log is emptied only while nobody is active.
LEMMA ClearLogReserve ==
  ASSUME ReserveInv, ClearLog
  PROVE  ReserveInv'
<1>1. TypeOK'
  BY SMTT(30) DEF ReserveInv, TypeOK, ClearLog
<1>2. Active = {} /\ Len(lh') <= LOGSIZE /\ Len(head') <= LOGSIZE
  BY LogAssumption, SMTT(30) DEF ReserveInv, ClearLog
<1>3. /\ step' \in {"done", "none"}
      /\ step' = "done" => committing'
      /\ step' = "none" => ~committing'
  BY DEF ClearLog
<1> QED BY <1>1, <1>2, <1>3, CountsKept DEF ClearLog

\* Recovery takes the header for lh before anybody is active.
LEMMA ReadHeadReserve ==
  ASSUME ReserveInv, ReadHead
  PROVE  ReserveInv'
<1>1. TypeOK'
  BY DEF ReserveInv, TypeOK, ReadHead
<1> QED BY <1>1, CountsKept DEF ReserveInv, CommitsAlone, ReadHead

-----------------------------------------------------------------------------
\* wakeup changes what sleepers do, and nobody else.
LEMMA WakeupKeeps ==
  ASSUME NEW f \in [Procs -> {"idle", "asleep", "woken", "op", "log_write", "commit"}]
  PROVE  /\ Wakeup(f) \in [Procs -> {"idle", "asleep", "woken", "op", "log_write", "commit"}]
         /\ \A p \in Procs : f[p] # "asleep" => Wakeup(f)[p] = f[p]
         /\ \A p \in Procs : f[p] = "asleep" => Wakeup(f)[p] = "woken"
BY DEF Wakeup

\* begin_op sleeps, or adds an operation when its MAXOPBLOCKS entries are free
\* besides those in use and those the others have reserved.
LEMMA BeginOpReserve ==
  ASSUME ReserveInv, NEW p \in Procs, BeginOp(p)
  PROVE  ReserveInv'
<1>1. p \notin Active /\ buf[p] = NoBlock
  BY DEF ReserveInv, Active, BeginOp
<1>2. CASE committing \/ ~HasSpace
  <2>1. TypeOK'
    BY <1>2 DEF ReserveInv, TypeOK, BeginOp
  <2>2. UNCHANGED <<outstanding, wrote, lh, buf, head, committing, step>>
    BY <1>2 DEF BeginOp
  <2>3. pc' = [pc EXCEPT ![p] = "asleep"]
    BY <1>2 DEF BeginOp
  <2>4. Active' = Active
    BY <1>1, <2>3 DEF Active, ReserveInv, TypeOK
  <2>5. Reserved' = Reserved
    BY <2>2, <2>4 DEF Reserved
  <2>6. \A r \in Procs : pc'[r] = "log_write" <=> pc[r] = "log_write"
    BY <2>3, <1>1 DEF ReserveInv, TypeOK, Active
  <2> QED BY <2>1, <2>2, <2>4, <2>5, <2>6 DEF ReserveInv, CommitsAlone
<1>3. CASE ~committing /\ HasSpace
  <2>1. /\ pc' = [pc EXCEPT ![p] = "op"] /\ outstanding' = outstanding + 1
        /\ wrote' = [wrote EXCEPT ![p] = {}]
        /\ UNCHANGED <<lh, buf, head, committing, step>>
    BY <1>3 DEF BeginOp
  <2>2. TypeOK'
    BY <2>1, SMTT(30) DEF ReserveInv, TypeOK, BeginOp
  <2>3. Active' = Active \cup {p}
    BY <2>1 DEF Active, ReserveInv, TypeOK
  <2>4. outstanding' = Cardinality(Active')
    BY <1>1, <2>1, <2>3, ReservedFinite, FS_AddElement DEF ReserveInv, CommitsAlone
  <2>5. step' = "none" /\ ~committing'
    BY <1>3, <2>1, SMTT(30) DEF ReserveInv, TypeOK, BeginOp, Booting
  <2>6. \A r \in Procs : IsFiniteSet(wrote'[r])
    BY <2>1, FS_EmptySet DEF ReserveInv, TypeOK
  <2>7. \A r \in Active' : wrote'[r] \subseteq Entries(lh')
    BY <2>1, <2>3, SMTT(30) DEF ReserveInv, TypeOK, Entries, Active
  <2>8. /\ Cardinality(Reserved') \in Nat
        /\ Cardinality(Reserved') <= Cardinality(Active') * MAXOPBLOCKS
    <3>1. Active' \in SUBSET Procs
      BY DEF Active
    <3> QED BY <3>1, ReservedBound DEF Reserved
  <2>9. Len(lh') + Cardinality(Reserved') <= LOGSIZE
    <3>1. Cardinality(Reserved') <= (outstanding + 1) * MAXOPBLOCKS
      BY <2>1, <2>4, <2>8
    <3>2. Len(lh') = Len(lh) /\ Len(lh) \in Nat /\ (outstanding + 1) * MAXOPBLOCKS \in Nat
      BY <2>1, LogAssumption, SMTT(30) DEF ReserveInv, TypeOK
    <3> QED BY <1>3, <2>8, <3>1, <3>2, LogAssumption, SMTT(30) DEF HasSpace
  <2>10. \A r \in Procs : IF pc'[r] = "log_write"
           THEN buf'[r] \in Blocks /\ Cardinality(wrote'[r] \cup {buf'[r]}) <= MAXOPBLOCKS
           ELSE buf'[r] = NoBlock
    BY <1>1, <2>1 DEF ReserveInv, TypeOK
  <2> QED BY <2>1, <2>2, <2>4, <2>5, <2>6, <2>7, <2>9, <2>10 DEF ReserveInv, CommitsAlone
<1> QED BY <1>2, <1>3

\* The first part of log_write adds no entry yet.
LEMMA LogWriteReserve ==
  ASSUME ReserveInv, NEW p \in Procs, NEW b \in Blocks, NEW v \in Values, LogWrite(p, b, v)
  PROVE  ReserveInv'
<1>1. /\ pc' = [pc EXCEPT ![p] = "log_write"] /\ buf' = [buf EXCEPT ![p] = b]
      /\ UNCHANGED <<head, lh, outstanding, committing, step, wrote>>
  BY DEF LogWrite
<1>2. TypeOK'
  <2>1. panicked' \in BOOLEAN
    BY DEF LogWrite
  <2>2. cache' \in [Blocks -> Values \cup {NoValue}]
    BY DEF ReserveInv, TypeOK, LogWrite
  <2> QED BY <1>1, <2>1, <2>2, SMTT(30) DEF ReserveInv, TypeOK, LogWrite
<1>3. Active' = Active
  BY <1>1 DEF Active, ReserveInv, TypeOK, LogWrite
<1>4. Reserved' = Reserved
  BY <1>1, <1>3 DEF Reserved
<1>5. \A r \in Procs : IF pc'[r] = "log_write"
        THEN buf'[r] \in Blocks /\ Cardinality(wrote'[r] \cup {buf'[r]}) <= MAXOPBLOCKS
        ELSE buf'[r] = NoBlock
  BY <1>1 DEF ReserveInv, TypeOK, LogWrite
<1> QED BY <1>1, <1>2, <1>3, <1>4, <1>5 DEF ReserveInv, CommitsAlone

\* A block that is new in the log takes one of the entries its operation has
\* reserved.
LEMMA ReservationUsed ==
  ASSUME ReserveInv, NEW p \in Procs, LogRecord(p), buf[p] \notin Entries(lh)
  PROVE  Cardinality(Reserved') <= Cardinality(Reserved) - 1
<1> DEFINE b == buf[p]
           n == Cardinality(wrote[p])
           x == <<p, MAXOPBLOCKS - n>>
<1>1. /\ pc[p] = "log_write" /\ wrote' = [wrote EXCEPT ![p] = @ \cup {b}]
      /\ pc' = [pc EXCEPT ![p] = "op"]
  BY DEF LogRecord
<1>2. p \in Active /\ Active' = Active
  BY <1>1 DEF Active, ReserveInv, TypeOK
<1>3. b \notin wrote[p] /\ IsFiniteSet(wrote[p]) /\ n \in Nat
  BY <1>2, FS_CardinalityType DEF ReserveInv
<1>4. Cardinality(wrote[p] \cup {b}) = n + 1 /\ n + 1 <= MAXOPBLOCKS
  <2>1. Cardinality(wrote[p] \cup {b}) = n + 1
    BY <1>3, FS_AddElement
  <2>2. Cardinality(wrote[p] \cup {b}) <= MAXOPBLOCKS
    BY <1>1 DEF ReserveInv
  <2> QED BY <2>1, <2>2
<1>5. x \in Reserved
  BY <1>2, <1>3, <1>4, LogAssumption, SMTT(30) DEF Reserved
<1>6. /\ wrote'[p] = wrote[p] \cup {b}
      /\ \A r \in Procs \ {p} : wrote'[r] = wrote[r]
  BY <1>1 DEF ReserveInv, TypeOK
<1>7. Reserved' \subseteq Reserved \ {x}
  <2> SUFFICES ASSUME NEW y \in Reserved' PROVE y \in Reserved \ {x}
    OBVIOUS
  <2>1. /\ y \in Active \X (1 .. MAXOPBLOCKS) /\ y[1] \in Procs
        /\ y[2] <= MAXOPBLOCKS - Cardinality(wrote'[y[1]])
    BY <1>2 DEF Reserved, Active
  <2>2. CASE y[1] = p
    <3>0. Cardinality(wrote'[y[1]]) = n + 1 /\ y[2] \in 1 .. MAXOPBLOCKS
      BY <1>4, <1>6, <2>1, <2>2
    <3>1. y[2] \in Int /\ y[2] < MAXOPBLOCKS - n
      <4> HIDE DEF n
      <4> QED BY <1>3, <2>1, <3>0, LogAssumption, SMTT(30)
    <3>2. y \in Reserved
      BY <1>3, <2>1, <2>2, <3>1, LogAssumption, SMTT(30) DEF Reserved
    <3> QED BY <3>1, <3>2, SMTT(30)
  <2>3. CASE y[1] # p
    BY <1>6, <2>1, <2>3, SMTT(30) DEF Reserved
  <2> QED BY <2>2, <2>3
<1>8. IsFiniteSet(Reserved \ {x}) /\ Cardinality(Reserved \ {x}) = Cardinality(Reserved) - 1
  BY <1>5, ReservedFinite, FS_RemoveElement
<1> QED BY <1>7, <1>8, ReservedShrinks

\* log_write adds a new block at the cost of a reserved entry, and a block that
\* is in the log already for nothing.
LEMMA LogRecordReserve ==
  ASSUME ReserveInv, NEW p \in Procs, LogRecord(p)
  PROVE  ReserveInv'
<1> DEFINE b == buf[p]
<1>1. /\ pc[p] = "log_write" /\ pc' = [pc EXCEPT ![p] = "op"]
      /\ buf' = [buf EXCEPT ![p] = NoBlock]
      /\ wrote' = [wrote EXCEPT ![p] = @ \cup {b}]
      /\ lh' = IF b \in Entries(lh) THEN lh ELSE Append(lh, b)
      /\ UNCHANGED <<head, outstanding, committing, step>>
  BY DEF LogRecord
<1>2. b \in Blocks
  BY <1>1 DEF ReserveInv
<1>3. TypeOK'
  <2>1. fault' \in BOOLEAN
    BY SMTT(30) DEF LogRecord
  <2>2. lh' \in Seq(Blocks) /\ dirty' \subseteq Blocks
    BY <1>1, <1>2, SMTT(30) DEF ReserveInv, TypeOK, LogRecord
  <2>3. /\ buf' \in [Procs -> Blocks \cup {NoBlock}] /\ wrote' \in [Procs -> SUBSET Blocks]
        /\ pc' \in [Procs -> {"idle", "asleep", "woken", "op", "log_write", "commit"}]
    BY <1>1, <1>2 DEF ReserveInv, TypeOK
  <2> QED BY <1>1, <2>1, <2>2, <2>3 DEF ReserveInv, TypeOK, LogRecord
<1>4. p \in Active /\ Active' = Active
  BY <1>1 DEF Active, ReserveInv, TypeOK
<1>5. \A r \in Procs : IsFiniteSet(wrote'[r])
  <2>1. IsFiniteSet(wrote[p] \cup {b})
    BY FS_AddElement DEF ReserveInv
  <2>2. \A r \in Procs : wrote'[r] = IF r = p THEN wrote[p] \cup {b} ELSE wrote[r]
    BY <1>1 DEF ReserveInv, TypeOK
  <2> QED BY <2>1, <2>2 DEF ReserveInv
<1>6. Entries(lh') = Entries(lh) \cup {b}
  <2>1. CASE b \in Entries(lh)
    BY <1>1, <2>1
  <2>2. CASE b \notin Entries(lh)
    BY <1>1, <1>2, <2>2, SMTT(30) DEF Entries, ReserveInv, TypeOK
  <2> QED BY <2>1, <2>2
<1>7. \A r \in Active' : wrote'[r] \subseteq Entries(lh')
  BY <1>1, <1>4, <1>6 DEF ReserveInv, TypeOK, Active
<1>8. \A r \in Procs : IF pc'[r] = "log_write"
        THEN buf'[r] \in Blocks /\ Cardinality(wrote'[r] \cup {buf'[r]}) <= MAXOPBLOCKS
        ELSE buf'[r] = NoBlock
  BY <1>1 DEF ReserveInv, TypeOK
<1>9. Len(lh') + Cardinality(Reserved') <= LOGSIZE
  <2>1. CASE b \in Entries(lh)
    <3>1. Reserved' \subseteq Reserved
      <4> SUFFICES ASSUME NEW y \in Reserved' PROVE y \in Reserved
        OBVIOUS
      <4>1. /\ y \in Active \X (1 .. MAXOPBLOCKS) /\ y[1] \in Procs
            /\ y[2] <= MAXOPBLOCKS - Cardinality(wrote'[y[1]])
        BY <1>4 DEF Reserved, Active
      <4>2. /\ IsFiniteSet(wrote'[y[1]]) /\ wrote[y[1]] \subseteq wrote'[y[1]]
        BY <1>1, <1>5, <4>1 DEF ReserveInv, TypeOK
      <4>3. /\ Cardinality(wrote[y[1]]) <= Cardinality(wrote'[y[1]])
            /\ Cardinality(wrote[y[1]]) \in Nat /\ Cardinality(wrote'[y[1]]) \in Nat
        BY <4>2, ReservedShrinks, FS_CardinalityType
      <4>4. y[2] <= MAXOPBLOCKS - Cardinality(wrote[y[1]])
        <5>1. y[2] \in Int /\ MAXOPBLOCKS \in Int
          BY <4>1, LogAssumption, SMTT(30)
        <5> QED BY <4>1, <4>3, <5>1, SMTT(30)
      <4> QED BY <4>1, <4>4 DEF Reserved
    <3>2. Cardinality(Reserved') <= Cardinality(Reserved) /\ Cardinality(Reserved') \in Nat
      BY <3>1, ReservedFinite, ReservedShrinks
    <3> QED BY <1>1, <2>1, <3>2, ReservedFinite, LogAssumption, SMTT(30) DEF ReserveInv, TypeOK
  <2>2. CASE b \notin Entries(lh)
    <3>1. Len(lh') = Len(lh) + 1 /\ Len(lh) \in Nat
      BY <1>1, <1>2, <2>2, SMTT(30) DEF ReserveInv, TypeOK
    <3>2. Cardinality(Reserved') <= Cardinality(Reserved) - 1
      BY <2>2, ReservationUsed
    <3>3. Cardinality(Reserved') \in Nat /\ Cardinality(Reserved) \in Nat
      <4>1. Active' \in SUBSET Procs
        BY DEF Active
      <4> QED BY <4>1, ReservedBound, ReservedFinite DEF Reserved
    <3> QED BY <3>1, <3>2, <3>3, LogAssumption, SMTT(30) DEF ReserveInv
  <2> QED BY <2>1, <2>2
<1> QED BY <1>1, <1>3, <1>4, <1>5, <1>7, <1>8, <1>9 DEF ReserveInv, CommitsAlone

\* Ending an operation gives back what it has reserved.
LEMMA EndOpReserve ==
  ASSUME ReserveInv, NEW p \in Procs, EndOp(p)
  PROVE  ReserveInv'
<1> DEFINE Pcs == {"idle", "asleep", "woken", "op", "log_write", "commit"}
<1>1. /\ pc[p] = "op" /\ p \in Active /\ step = "none" /\ committing = FALSE
      /\ outstanding' = outstanding - 1 /\ UNCHANGED <<head, buf, lh, wrote>>
  BY DEF EndOp, Active, ReserveInv, CommitsAlone, TypeOK
<1>2. outstanding = Cardinality(Active) /\ outstanding \in Nat /\ outstanding # 0
  <2>1. outstanding = Cardinality(Active) /\ outstanding \in Nat
    BY DEF ReserveInv, CommitsAlone, TypeOK
  <2>2. Cardinality(Active) # 0
    BY <1>1, ReservedFinite, FS_EmptySet
  <2> QED BY <2>1, <2>2
<1>3. /\ pc' \in [Procs -> Pcs] /\ pc'[p] \notin {"op", "log_write"}
      /\ \A r \in Procs \ {p} :
           /\ pc'[r] \in {"op", "log_write"} <=> pc[r] \in {"op", "log_write"}
           /\ pc'[r] = "log_write" <=> pc[r] = "log_write"
  <2> pc \in [Procs -> Pcs]
    BY DEF ReserveInv, TypeOK
  <2>1. CASE outstanding = 1
    BY <2>1 DEF EndOp
  <2>2. CASE outstanding # 1
    <3> DEFINE idled == [pc EXCEPT ![p] = "idle"]
    <3>1. /\ idled \in [Procs -> Pcs] /\ idled[p] = "idle"
          /\ \A r \in Procs \ {p} : idled[r] = pc[r]
      OBVIOUS
    <3>2. pc' = Wakeup(idled)
      BY <2>2 DEF EndOp
    <3> HIDE DEF idled
    <3>3. /\ pc' \in [Procs -> Pcs]
          /\ \A r \in Procs :
               /\ pc'[r] \in {"op", "log_write"} <=> idled[r] \in {"op", "log_write"}
               /\ pc'[r] = "log_write" <=> idled[r] = "log_write"
      BY <3>1, <3>2, WakeupKeeps, SMTT(30)
    <3> QED BY <3>1, <3>3
  <2> QED BY <2>1, <2>2
<1>4. Active' = Active \ {p}
  BY <1>3 DEF Active
<1>5. outstanding' = Cardinality(Active')
  BY <1>1, <1>2, <1>4, ReservedFinite, FS_RemoveElement
<1>6. /\ committing' \in BOOLEAN /\ panicked' \in BOOLEAN /\ tail' \in Nat
      /\ step' \in {"none", "write_log", "done"}
      /\ step' = "none" <=> ~committing'
      /\ committing' => outstanding = 1
  <2>1. panicked' = FALSE
    BY <1>1 DEF EndOp
  <2>2. CASE outstanding = 1
    <3>1. committing' = TRUE /\ tail' = 0
      BY <2>2 DEF EndOp
    <3>2. step' \in {"write_log", "done"}
      BY <2>2 DEF EndOp
    <3> QED BY <2>1, <2>2, <3>1, <3>2
  <2>3. CASE outstanding # 1
    <3>1. committing' = FALSE /\ tail' = tail /\ step' = "none"
      BY <1>1, <2>3 DEF EndOp
    <3> QED BY <2>1, <3>1 DEF ReserveInv, TypeOK
  <2> QED BY <2>2, <2>3
<1>7. committing' => Active' = {}
  BY <1>1, <1>2, <1>4, <1>5, <1>6, ReservedFinite, FS_RemoveElement, FS_EmptySet, SMTT(30)
<1>8. TypeOK'
  <2>1. outstanding' \in Nat
    BY <1>1, <1>2, SMTT(30)
  <2> QED BY <1>1, <1>3, <1>6, <2>1 DEF ReserveInv, TypeOK, EndOp
<1>9. Len(lh') + Cardinality(Reserved') <= LOGSIZE
  <2>1. Reserved' \subseteq Reserved
    BY <1>1, <1>4 DEF Reserved
  <2>2. Cardinality(Reserved') <= Cardinality(Reserved) /\ Cardinality(Reserved') \in Nat
    BY <2>1, ReservedFinite, ReservedShrinks
  <2> QED BY <1>1, <2>2, ReservedFinite, LogAssumption, SMTT(30) DEF ReserveInv, TypeOK
<1>10. \A r \in Procs : IF pc'[r] = "log_write"
         THEN buf'[r] \in Blocks /\ Cardinality(wrote'[r] \cup {buf'[r]}) <= MAXOPBLOCKS
         ELSE buf'[r] = NoBlock
  BY <1>1, <1>3 DEF ReserveInv
<1>11. \A r \in Active' : wrote'[r] \subseteq Entries(lh')
  BY <1>1, <1>4 DEF ReserveInv
<1> QED BY <1>1, <1>5, <1>6, <1>7, <1>8, <1>9, <1>10, <1>11 DEF ReserveInv, CommitsAlone

\* The end of a commit wakes sleepers and starts nobody.
LEMMA CommitDoneReserve ==
  ASSUME ReserveInv, NEW p \in Procs, CommitDone(p)
  PROVE  ReserveInv'
<1> DEFINE Pcs == {"idle", "asleep", "woken", "op", "log_write", "commit"}
<1>1. /\ Active = {} /\ committing' = FALSE /\ step' = "none"
      /\ pc' = Wakeup([pc EXCEPT ![p] = "idle"])
      /\ UNCHANGED <<head, buf, lh, outstanding, wrote>>
  BY DEF CommitDone, ReserveInv
<1>2. pc \in [Procs -> Pcs] /\ [pc EXCEPT ![p] = "idle"] \in [Procs -> Pcs]
  BY DEF ReserveInv, TypeOK
<1>3. /\ pc' \in [Procs -> Pcs]
      /\ \A r \in Procs : pc'[r] \notin {"op", "log_write"}
  BY <1>1, <1>2, WakeupKeeps DEF Active
<1>4. Active' = {}
  BY <1>3 DEF Active
<1>5. TypeOK'
  BY <1>1, <1>3 DEF ReserveInv, TypeOK, CommitDone
<1>6. Reserved' = Reserved
  BY <1>1, <1>4 DEF Reserved
<1>7. \A r \in Procs : buf'[r] = NoBlock
  BY <1>1 DEF ReserveInv, Active
<1> QED BY <1>1, <1>3, <1>4, <1>5, <1>6, <1>7 DEF ReserveInv, CommitsAlone

\* A crash forgets all counts together.
LEMMA CrashReserve ==
  ASSUME ReserveInv, Crash
  PROVE  ReserveInv'
<1>1. TypeOK'
  <2>1. /\ cache' \in [Blocks -> Values \cup {NoValue}]
        /\ buf' \in [Procs -> Blocks \cup {NoBlock}]
        /\ pc' \in [Procs -> {"idle", "asleep", "woken", "op", "log_write", "commit"}]
        /\ wrote' \in [Procs -> SUBSET Blocks]
    BY DEF Crash
  <2>2. lh' \in Seq(Blocks) /\ dirty' \subseteq Blocks
    BY SMTT(30) DEF Crash
  <2> QED BY <2>1, <2>2 DEF Crash, ReserveInv, TypeOK
<1>2. Active' = {}
  BY DEF Crash, Active
<1>3. Cardinality(Active') = 0 /\ Cardinality(Reserved') = 0
  BY <1>2, FS_EmptySet DEF Reserved
<1>4. \A r \in Procs : buf'[r] = NoBlock /\ pc'[r] = "idle" /\ IsFiniteSet(wrote'[r])
  BY FS_EmptySet DEF Crash
<1>5. /\ step' = "read_head" /\ committing' = FALSE /\ outstanding' = 0 /\ head' = head
      /\ Len(lh') = 0 /\ Len(head) <= LOGSIZE
  BY DEF Crash, ReserveInv, diskVars
<1>6. Len(lh') + Cardinality(Reserved') <= LOGSIZE
  BY <1>3, <1>5, LogAssumption, SMTT(30)
<1>7. CommitsAlone'
  BY <1>2, <1>3, <1>5 DEF CommitsAlone
<1> QED BY <1>1, <1>2, <1>4, <1>5, <1>6, <1>7 DEF ReserveInv

-----------------------------------------------------------------------------
\* Every step keeps the counts and the reservations of the log.
LEMMA NextReserve ==
  ASSUME ReserveInv, [Next]_vars
  PROVE  ReserveInv'
<1>1. CASE UNCHANGED vars
  BY <1>1, CountsKept DEF ReserveInv, CommitsAlone, TypeOK
<1>2. CASE Running
  BY <1>2, CacheSteps, BeginOpReserve, LogRecordReserve, EndOpReserve, CommitDoneReserve,
     LogWriteReserve, WriteLogReserve, WriteHeadReserve, InstallTransReserve, ClearLogReserve,
     ReadHeadReserve DEF Running, Commit
<1>3. CASE Crash
  BY <1>3, CrashReserve
<1> QED BY <1>1, <1>2, <1>3 DEF Next

\* log.c keeps its counts and reservations.
THEOREM Reservation == Spec => []ReserveInv
<1>1. Init => ReserveInv
  BY InitReserve
<1>2. ReserveInv /\ [Next]_vars => ReserveInv'
  BY NextReserve
<1> QED BY <1>1, <1>2, PTL DEF Spec

\* log_write never leaves lh.block, however its callers race.
THEOREM InsideTheLog == Spec => []NoOverrun
<1>1. ReserveInv => NoOverrun
  BY ReservedFinite, LogAssumption, SMTT(30) DEF ReserveInv, TypeOK, NoOverrun
<1> QED BY <1>1, Reservation, PTL

\* outstanding counts the active operations, and a commit has none.
THEOREM CommitIsAlone == Spec => []CommitsAlone
<1>1. ReserveInv => CommitsAlone
  BY DEF ReserveInv
<1> QED BY <1>1, Reservation, PTL

-----------------------------------------------------------------------------
\* While no operation is active no buffer is locked by one.
LEMMA NobodyLocks ==
  ASSUME ReserveInv, Active = {}
  PROVE  \A b \in Blocks : ~Locked(b)
BY LogAssumption DEF ReserveInv, Active, Locked

\* While an operation is active there is neither commit nor recovery.
LEMMA ActiveStep ==
  ASSUME ReserveInv, NEW p \in Procs, pc[p] \in {"op", "log_write"}
  PROVE  p \in Active /\ step = "none" /\ ~committing /\ ~Booting
BY DEF ReserveInv, CommitsAlone, Active, Booting

\* On a disk of mkfs, before recovery, there is nothing to commit or install.
LEMMA InitWriteAhead == Init => WriteAheadInv
<1> SUFFICES ASSUME Init PROVE WriteAheadInv
  OBVIOUS
<1>1. step = "read_head" /\ tail = 0 /\ dirty = {} /\ lh = <<>> /\ head = <<>>
  BY DEF Init
<1>2. CacheInv
  BY LogAssumption DEF Init, CacheInv, Locked
<1> QED BY <1>1, <1>2, SMTT(30) DEF WriteAheadInv, Injective, Gathering, Copied, Installed, Booting

\* A clean buffer may come or go: it agrees with the disk.
LEMMA CleanBuffer ==
  ASSUME LogInv, NEW b \in Blocks, b \notin dirty, ~Locked(b),
         cache'[b] \in {NoValue, home[b]},
         \A c \in Blocks \ {b} : cache'[c] = cache[c],
         UNCHANGED <<home, logged, head, dirty, buf, lh, committing, tail, step, pc>>
  PROVE  WriteAheadInv' /\ \A c \in Blocks : Cached(c)' = Cached(c)
<1>1. /\ cache \in [Blocks -> Values \cup {NoValue}] /\ home \in [Blocks -> Values]
      /\ lh \in Seq(Blocks) /\ tail \in Nat
  BY DEF LogInv, ReserveInv, TypeOK
<1>2. cache[b] \in {NoValue, home[b]} /\ cache'[b] \in {NoValue, home[b]}
  BY <1>1 DEF LogInv, WriteAheadInv, CacheInv
<1>3. \A c \in Blocks \ {b} : cache'[c] = cache[c]
  OBVIOUS
<1>4. \A c \in Blocks : Cached(c)' = Cached(c)
  BY <1>1, <1>2, <1>3 DEF Cached
<1>5. CacheInv'
  BY <1>2, <1>3 DEF LogInv, WriteAheadInv, CacheInv, Locked
<1>6. Copied'
  <2>1. CASE step \in {"write_log", "write_head"}
    <3>1. \A i \in 1 .. Len(lh) : lh[i] \in Blocks /\ lh[i] # b
      BY <1>1, <2>1, SMTT(30) DEF LogInv, WriteAheadInv, Gathering, Entries
    <3>2. \A i \in 1 .. Len(lh) : cache'[lh[i]] = cache[lh[i]]
      BY <1>3, <3>1
    <3> QED BY <1>1, <2>1, <3>2, SMTT(30) DEF LogInv, WriteAheadInv, Copied
  <2>2. CASE step \notin {"write_log", "write_head"}
    BY <2>2 DEF Copied
  <2> QED BY <2>1, <2>2
<1>7. Installed'
  <2>1. \A i \in 1 .. Len(lh) : Cached(lh[i])' = Cached(lh[i])
    BY <1>1, <1>4, SMTT(30) DEF Cached
  <2> QED BY <2>1, SMTT(30) DEF LogInv, WriteAheadInv, Installed
<1>8. Active' = Active /\ Booting' = Booting
  BY DEF Active, Booting
<1> QED BY <1>4, <1>5, <1>6, <1>7, <1>8, SMTT(30) DEF LogInv, WriteAheadInv, Gathering, Injective, Entries

\* bread and bget of somebody who does not write.
LEMMA CacheWriteAhead ==
  ASSUME LogInv, NEW b \in Blocks, Load(b) \/ Evict(b)
  PROVE  WriteAheadInv' /\ \A c \in Blocks : Cached(c)' = Cached(c)
<1>1. CASE Load(b)
  <2>1. b \notin dirty /\ ~Locked(b)
    BY <1>1 DEF LogInv, WriteAheadInv, CacheInv, Load
  <2>2. cache'[b] = home[b] /\ \A c \in Blocks \ {b} : cache'[c] = cache[c]
    BY <1>1 DEF Load, LogInv, ReserveInv, TypeOK
  <2> QED BY <1>1, <2>1, <2>2, CleanBuffer DEF Load
<1>2. CASE Evict(b)
  <2>1. cache'[b] = NoValue /\ \A c \in Blocks \ {b} : cache'[c] = cache[c]
    BY <1>2 DEF Evict, LogInv, ReserveInv, TypeOK
  <2> QED BY <1>2, <2>1, CleanBuffer DEF Evict
<1> QED BY <1>1, <1>2

-----------------------------------------------------------------------------
\* What a boot would make of the disk changes only when the disk does.
LEMMA DurableKept ==
  ASSUME UNCHANGED diskVars
  PROVE  Durable' = Durable
BY SMTT(30) DEF Durable, Entries, IndexIn

\* What the operations see changes only with the buffers, or at a boot.
LEMMA MemoryKept ==
  ASSUME Durable' = Durable, Booting' = Booting, \A c \in Blocks : Cached(c)' = Cached(c)
  PROVE  Memory' = Memory
BY DEF Memory

\* Steps that touch no buffer, no disk block and no entry of the log.
LEMMA BuffersKept ==
  ASSUME WriteAheadInv,
         UNCHANGED <<diskVars, cache, dirty, buf, lh, committing, tail, step>>,
         step = "none" /\ Active' = {} => lh = <<>>
  PROVE  WriteAheadInv' /\ UNCHANGED <<Durable, Memory>>
<1>1. Booting' = Booting /\ \A c \in Blocks : Cached(c)' = Cached(c)
  BY DEF Booting, Cached
<1>2. UNCHANGED <<Durable, Memory>>
  BY <1>1, DurableKept, MemoryKept
<1>3. CacheInv' /\ Gathering' /\ Copied'
  BY SMTT(30) DEF WriteAheadInv, CacheInv, Gathering, Copied, Locked, Entries
<1>4. Installed'
  BY SMTT(30) DEF WriteAheadInv, Installed, Cached
<1> QED BY <1>1, <1>2, <1>3, <1>4, SMTT(30) DEF WriteAheadInv, Injective

\* begin_op adds an operation, or puts its caller to sleep.
LEMMA BeginOpWriteAhead ==
  ASSUME LogInv, NEW p \in Procs, BeginOp(p)
  PROVE  WriteAheadInv' /\ (AD!Begin(p) \/ UNCHANGED AD!vars)
<1>1. p \notin Active
  BY DEF Active, BeginOp
<1>2. Active' = Active \/ Active' = Active \cup {p}
  BY <1>1 DEF LogInv, ReserveInv, TypeOK, Active, BeginOp
<1>3. step = "none" /\ Active' = {} => lh = <<>>
  BY <1>1, <1>2 DEF LogInv, WriteAheadInv
<1>4. WriteAheadInv' /\ UNCHANGED <<Durable, Memory>>
  BY <1>3, BuffersKept DEF LogInv, BeginOp
<1> QED BY <1>1, <1>2, <1>4 DEF AD!Begin, AD!vars

\* An operation writes a block in the cache and holds it.
LEMMA LogWriteWriteAhead ==
  ASSUME LogInv, NEW p \in Procs, NEW b \in Blocks, NEW v \in Values, LogWrite(p, b, v)
  PROVE  WriteAheadInv' /\ AD!Write(p, b, v)
<1>1. /\ pc[p] = "op" /\ ~Locked(b) /\ cache' = [cache EXCEPT ![b] = v]
      /\ buf' = [buf EXCEPT ![p] = b] /\ pc' = [pc EXCEPT ![p] = "log_write"]
      /\ UNCHANGED <<diskVars, dirty, lh, committing, tail, step>>
  BY DEF LogWrite
<1>2. p \in Active /\ step = "none" /\ ~Booting /\ buf[p] = NoBlock
  BY <1>1, ActiveStep DEF LogInv, ReserveInv
<1>3. Active' = Active /\ ~Booting'
  BY <1>1, <1>2 DEF LogInv, ReserveInv, TypeOK, Active, Booting
<1>4. /\ cache'[b] = v /\ v # NoValue
      /\ \A c \in Blocks \ {b} : cache'[c] = cache[c]
  BY <1>1, LogAssumption DEF LogInv, ReserveInv, TypeOK
<1>5. Locked(b)' /\ \A c \in Blocks \ {b} : Locked(c)' <=> Locked(c)
  BY <1>1, <1>2, LogAssumption DEF LogInv, ReserveInv, TypeOK, Locked
<1>6. CacheInv'
  BY <1>1, <1>4, <1>5 DEF LogInv, WriteAheadInv, CacheInv
<1>7. WriteAheadInv'
  BY <1>1, <1>2, <1>3, <1>6, SMTT(30)
     DEF LogInv, WriteAheadInv, Injective, Gathering, Entries, Copied, Installed
<1>8. Memory' = [Memory EXCEPT ![b] = v]
  BY <1>1, <1>2, <1>3, <1>4 DEF Memory, Cached
<1> QED BY <1>1, <1>2, <1>3, <1>7, <1>8, DurableKept DEF AD!Write

\* log_write enters the block into the log, once, and pins its buffer.
LEMMA LogRecordWriteAhead ==
  ASSUME LogInv, NEW p \in Procs, LogRecord(p)
  PROVE  WriteAheadInv' /\ UNCHANGED AD!vars
<1> DEFINE b == buf[p]
<1>1. /\ pc[p] = "log_write" /\ buf' = [buf EXCEPT ![p] = NoBlock]
      /\ pc' = [pc EXCEPT ![p] = "op"] /\ dirty' = dirty \cup {b}
      /\ lh' = IF b \in Entries(lh) THEN lh ELSE Append(lh, b)
      /\ UNCHANGED <<diskVars, cache, committing, tail, step>>
  BY DEF LogRecord
<1>2. p \in Active /\ step = "none" /\ ~Booting /\ b \in Blocks /\ lh \in Seq(Blocks)
  BY <1>1, ActiveStep DEF LogInv, ReserveInv, TypeOK
<1>3. Active' = Active /\ ~Booting' /\ Booting' = Booting
  BY <1>1, <1>2 DEF LogInv, ReserveInv, TypeOK, Active, Booting
<1>4. Entries(lh') = Entries(lh) \cup {b} /\ Injective(lh')
  <2>1. CASE b \in Entries(lh)
    BY <1>1, <2>1, SMTT(30) DEF LogInv, WriteAheadInv, Injective
  <2>2. CASE b \notin Entries(lh)
    BY <1>1, <1>2, <2>2, SMTT(30) DEF LogInv, WriteAheadInv, Entries, Injective
  <2> QED BY <2>1, <2>2
<1>5. Locked(b) /\ \A c \in Blocks \ {b} : Locked(c)' <=> Locked(c)
  BY <1>1, <1>2, LogAssumption DEF LogInv, ReserveInv, TypeOK, Locked
<1>6. CacheInv'
  BY <1>1, <1>2, <1>5 DEF LogInv, WriteAheadInv, CacheInv
<1>7. WriteAheadInv'
  BY <1>1, <1>2, <1>3, <1>4, <1>6, SMTT(30)
     DEF LogInv, WriteAheadInv, Injective, Gathering, Entries, Copied, Installed
<1>8. \A c \in Blocks : Cached(c)' = Cached(c)
  BY <1>1 DEF Cached
<1> QED BY <1>1, <1>2, <1>3, <1>7, <1>8, DurableKept, MemoryKept DEF AD!vars

\* end_op of the last operation starts the commit, and of another one wakes
\* who waits for space.
LEMMA EndOpWriteAhead ==
  ASSUME LogInv, NEW p \in Procs, EndOp(p)
  PROVE  WriteAheadInv' /\ AD!End(p)
<1>1. pc[p] = "op" /\ UNCHANGED <<diskVars, cache, dirty, buf, lh>>
  BY DEF EndOp
<1>2. p \in Active /\ step = "none" /\ ~Booting
  BY <1>1, ActiveStep DEF LogInv
<1>3. Active' = Active \ {p}
  <2> DEFINE Pcs == {"idle", "asleep", "woken", "op", "log_write", "commit"}
  <2>1. pc \in [Procs -> Pcs] /\ [pc EXCEPT ![p] = "idle"] \in [Procs -> Pcs]
    BY DEF LogInv, ReserveInv, TypeOK
  <2>2. CASE outstanding = 1
    BY <2>1, <2>2 DEF EndOp, Active
  <2>3. CASE outstanding # 1
    <3>1. pc' = Wakeup([pc EXCEPT ![p] = "idle"])
      BY <2>3 DEF EndOp
    <3> QED BY <2>1, <3>1, WakeupKeeps DEF Active
  <2> QED BY <2>2, <2>3
<1>4. CASE outstanding = 1
  <2>1. /\ step' = IF lh = <<>> THEN "done" ELSE "write_log"
        /\ committing' = TRUE /\ tail' = 0
    BY <1>4 DEF EndOp
  <2>2. ~Booting' /\ Booting' = Booting
    BY <1>2, <2>1 DEF Booting
  <2>3. CacheInv' /\ Gathering'
    BY <1>1, <1>2, SMTT(30) DEF LogInv, WriteAheadInv, CacheInv, Gathering, Locked, Entries
  <2>4. Copied' /\ Installed'
    BY <1>1, <2>1, SMTT(30) DEF LogInv, ReserveInv, TypeOK, Copied, Installed
  <2>5. WriteAheadInv'
    BY <1>1, <2>1, <2>2, <2>3, <2>4, SMTT(30) DEF LogInv, WriteAheadInv, Injective
  <2>6. \A c \in Blocks : Cached(c)' = Cached(c)
    BY <1>1 DEF Cached
  <2> QED BY <1>1, <1>2, <1>3, <2>2, <2>5, <2>6, DurableKept, MemoryKept DEF AD!End
<1>5. CASE outstanding # 1
  <2>1. UNCHANGED <<committing, step, tail>>
    BY <1>5 DEF EndOp
  <2>2. Active' # {}
    <3>1. outstanding = Cardinality(Active)
      BY DEF LogInv, ReserveInv, CommitsAlone
    <3>2. Active' = {} => Active = {p}
      BY <1>2, <1>3
    <3> QED BY <1>5, <3>1, <3>2, FS_Singleton
  <2> QED BY <1>1, <1>2, <1>3, <2>1, <2>2, BuffersKept DEF LogInv, AD!End
<1> QED BY <1>4, <1>5

-----------------------------------------------------------------------------
\* While the header is empty a boot finds the home locations as they are.
LEMMA EmptyLog ==
  head = <<>> => Durable = [b \in Blocks |-> home[b]]
BY SMTT(30) DEF Durable, Entries

\* A block of the log is found at its own entry.
LEMMA EntryFound ==
  ASSUME NEW s \in Seq(Blocks), Injective(s), NEW i \in 1 .. Len(s)
  PROVE  IndexIn(s, s[i]) = i
<1>1. \E j \in 1 .. Len(s) : s[j] = s[i]
  OBVIOUS
<1>2. IndexIn(s, s[i]) \in 1 .. Len(s) /\ s[IndexIn(s, s[i])] = s[i]
  BY <1>1 DEF IndexIn
<1> QED BY <1>2 DEF Injective

\* write_log copies a pinned buffer into the log; the header is still empty.
LEMMA WriteLogWriteAhead ==
  ASSUME LogInv, WriteLog
  PROVE  WriteAheadInv' /\ UNCHANGED AD!vars
<1>1. /\ step = "write_log" /\ logged' = [logged EXCEPT ![tail + 1] = Cached(lh[tail + 1])]
      /\ UNCHANGED <<home, head, cache, dirty, buf, lh, committing, pc>>
  BY DEF WriteLog
<1>2. /\ lh \in Seq(Blocks) /\ Len(lh) \in Nat /\ Len(lh) <= LOGSIZE /\ tail \in Nat
      /\ logged \in [1 .. LOGSIZE -> Values]
      /\ committing = TRUE
  BY <1>1, ReservedFinite, LogAssumption, SMTT(30) DEF LogInv, ReserveInv, TypeOK
<1>3. /\ head = <<>> /\ dirty = Entries(lh) /\ tail < Len(lh)
      /\ \A i \in 1 .. tail : logged[i] = cache[lh[i]]
  BY <1>1 DEF LogInv, WriteAheadInv, Gathering, Copied
<1>4. Cached(lh[tail + 1]) = cache[lh[tail + 1]]
  <2>1. lh[tail + 1] \in dirty /\ lh[tail + 1] \in Blocks
    BY <1>2, <1>3, SMTT(30) DEF Entries
  <2> QED BY <2>1 DEF LogInv, WriteAheadInv, CacheInv, Cached
<1>5. \A i \in 1 .. (tail + 1) : logged'[i] = cache'[lh'[i]]
  <2> SUFFICES ASSUME NEW i \in 1 .. (tail + 1) PROVE logged'[i] = cache[lh[i]]
    BY <1>1
  <2>1. i \in 1 .. LOGSIZE /\ (i = tail + 1 \/ i \in 1 .. tail)
    BY <1>2, <1>3, LogAssumption, SMTT(30)
  <2> QED BY <1>1, <1>2, <1>3, <1>4, <2>1
<1>6. \/ step' = "write_log" /\ tail' = tail + 1 /\ tail + 1 < Len(lh)
      \/ step' = "write_head" /\ tail' = 0 /\ tail + 1 = Len(lh)
  BY <1>1 DEF WriteLog
<1>7. Copied' /\ Installed'
  BY <1>1, <1>5, <1>6 DEF Copied, Installed
<1>8. CacheInv' /\ Gathering'
  BY <1>1, <1>3, <1>6, SMTT(30) DEF LogInv, WriteAheadInv, CacheInv, Gathering, Locked, Entries
<1>9. ~Booting' /\ Booting' = Booting /\ Active' = Active
  BY <1>1, <1>2, <1>6 DEF Booting, Active
<1>10. WriteAheadInv'
  BY <1>1, <1>6, <1>7, <1>8, <1>9, SMTT(30) DEF LogInv, WriteAheadInv, Injective
<1>11. Durable' = Durable
  BY <1>1, <1>3, SMTT(30) DEF Durable, Entries
<1>12. \A c \in Blocks : Cached(c)' = Cached(c)
  BY <1>1 DEF Cached
<1> QED BY <1>9, <1>10, <1>11, <1>12, MemoryKept DEF AD!vars

\* write_head makes the transaction durable as a whole.
LEMMA WriteHeadWriteAhead ==
  ASSUME LogInv, WriteHead
  PROVE  WriteAheadInv' /\ AD!Commit
<1>1. /\ step = "write_head" /\ head' = lh /\ step' = "install"
      /\ UNCHANGED <<home, logged, cache, dirty, buf, lh, committing, tail, pc>>
  BY DEF WriteHead
<1>2. lh \in Seq(Blocks) /\ Len(lh) \in Nat /\ committing /\ Active = {}
  BY <1>1, SMTT(30) DEF LogInv, ReserveInv, TypeOK
<1>3. /\ dirty = Entries(lh) /\ tail = 0 /\ Injective(lh)
      /\ \A i \in 1 .. Len(lh) : logged[i] = cache[lh[i]]
  BY <1>1 DEF LogInv, WriteAheadInv, Gathering, Copied
<1>4. \A i \in 1 .. Len(lh) : lh[i] \in Blocks /\ Cached(lh[i]) = logged[i]
  BY <1>2, <1>3, SMTT(30) DEF LogInv, WriteAheadInv, CacheInv, Cached, Entries
<1>5. \A c \in Blocks : Cached(c)' = Cached(c)
  BY <1>1 DEF Cached
<1>6. ~Booting /\ ~Booting' /\ Active' = {}
  BY <1>1, <1>2 DEF Booting, Active
<1>7. Installed'
  <2>1. \A i \in 1 .. Len(lh) : Cached(lh[i])' = logged[i]
    BY <1>1, <1>4 DEF Cached
  <2>2. dirty = {lh[i] : i \in (tail + 1) .. Len(lh)}
    BY <1>2, <1>3, SMTT(30) DEF Entries
  <2> QED BY <1>1, <1>2, <1>3, <2>1, <2>2, SMTT(30) DEF Installed
<1>8. CacheInv' /\ Gathering' /\ Copied'
  BY <1>1 DEF LogInv, WriteAheadInv, CacheInv, Gathering, Copied, Locked
<1>9. WriteAheadInv'
  BY <1>1, <1>3, <1>6, <1>7, <1>8 DEF Injective, WriteAheadInv
<1>10. Durable' = Memory
  <2> SUFFICES ASSUME NEW c \in Blocks PROVE Durable'[c] = Cached(c)
    BY <1>6 DEF Durable, Memory
  <2>1. CASE c \in Entries(lh)
    <3>1. PICK i \in 1 .. Len(lh) : c = lh[i]
      BY <2>1 DEF Entries
    <3>2. IndexIn(lh, c) = i
      BY <1>2, <1>3, <3>1, EntryFound
    <3>3. Durable'[c] = logged[IndexIn(lh, c)]
      BY <1>1, <2>1 DEF Durable
    <3> QED BY <1>4, <3>1, <3>2, <3>3
  <2>2. CASE c \notin Entries(lh)
    <3>1. Durable'[c] = home[c]
      BY <1>1, <2>2 DEF Durable
    <3>2. cache[c] \in {NoValue, home[c]}
      BY <1>2, <1>3, <2>2, NobodyLocks DEF LogInv, WriteAheadInv, CacheInv
    <3> QED BY <3>1, <3>2 DEF Cached
  <2> QED BY <2>1, <2>2
<1>11. Memory' = Memory
  BY <1>5, <1>6 DEF Memory
<1> QED BY <1>2, <1>6, <1>9, <1>10, <1>11 DEF AD!Commit

\* install_trans copies a block of the log home: a boot finds the same as
\* before, and so do the operations.
LEMMA InstallTransWriteAhead ==
  ASSUME LogInv, InstallTrans
  PROVE  WriteAheadInv' /\ UNCHANGED AD!vars
<1>1. /\ step = "install"
      /\ UNCHANGED <<logged, head, buf, lh, committing, pc>>
  BY DEF InstallTrans
<1>2. /\ lh \in Seq(Blocks) /\ Len(lh) \in Nat /\ Len(lh) <= LOGSIZE /\ tail \in Nat
      /\ logged \in [1 .. LOGSIZE -> Values] /\ home \in [Blocks -> Values]
      /\ cache \in [Blocks -> Values \cup {NoValue}]
      /\ Active = {}
  BY <1>1, ReservedFinite, LogAssumption, SMTT(30) DEF LogInv, ReserveInv, TypeOK
<1>3. /\ head = lh /\ tail <= Len(lh) /\ Injective(lh)
      /\ \A i \in 1 .. tail : home[lh[i]] = logged[i]
      /\ committing => /\ \A i \in 1 .. Len(lh) : logged[i] = Cached(lh[i])
                       /\ dirty = {lh[i] : i \in (tail + 1) .. Len(lh)}
  BY <1>1 DEF LogInv, WriteAheadInv, Installed
<1>4. Active' = {}
  BY <1>1, <1>2 DEF Active
<1>5. CASE tail < Len(lh)
  <2> DEFINE b == lh[tail + 1]
             x == logged[tail + 1]
  <2>1. /\ home' = [home EXCEPT ![b] = x] /\ cache' = [cache EXCEPT ![b] = x]
        /\ dirty' = dirty \ {b} /\ tail' = tail + 1 /\ step' = step
    BY <1>5, <1>2, SMTT(30) DEF InstallTrans
  <2>2. /\ tail + 1 \in 1 .. Len(lh) /\ b \in Blocks /\ x \in Values
        /\ b \in Entries(lh)
    BY <1>2, <1>5, LogAssumption, SMTT(30) DEF Entries
  <2>3. /\ home'[b] = x /\ cache'[b] = x /\ x # NoValue
        /\ \A c \in Blocks \ {b} : home'[c] = home[c] /\ cache'[c] = cache[c]
    BY <1>2, <2>1, <2>2, LogAssumption
  <2>4. \A i \in 1 .. Len(lh) : lh[i] \in Blocks /\ (i # tail + 1 => lh[i] # b)
    BY <1>2, <1>3, <2>2, SMTT(30) DEF Injective
  <2>5. \A c \in Blocks \ {b} : Cached(c)' = Cached(c)
    BY <2>3 DEF Cached
  <2>6. \A c \in Blocks : c = b => Cached(c)' = x
    BY <2>3 DEF Cached
  <2>7. Booting' = Booting
    BY <1>1, <2>1 DEF Booting
  <2>8. Installed'
    <3>1. \A i \in 1 .. (tail + 1) : home'[lh[i]] = logged[i]
      <4> SUFFICES ASSUME NEW i \in 1 .. (tail + 1) PROVE home'[lh[i]] = logged[i]
        OBVIOUS
      <4>1. i \in 1 .. Len(lh) /\ (i = tail + 1 \/ i \in 1 .. tail)
        BY <1>2, <1>5, SMTT(30)
      <4> QED BY <1>2, <1>3, <2>3, <2>4, <4>1
    <3>2. ASSUME committing
          PROVE  /\ \A i \in 1 .. Len(lh) : logged[i] = Cached(lh[i])'
                 /\ dirty' = {lh[i] : i \in (tail + 2) .. Len(lh)}
      <4>1. \A i \in 1 .. Len(lh) : logged[i] = Cached(lh[i])'
        <5> SUFFICES ASSUME NEW i \in 1 .. Len(lh) PROVE logged[i] = Cached(lh[i])'
          OBVIOUS
        <5>1. CASE i = tail + 1
          BY <1>1, <2>3, <5>1 DEF Cached
        <5>2. CASE i # tail + 1
          <6>1. lh[i] \in Blocks /\ lh[i] # b
            BY <2>4, <5>2
          <6>2. /\ home'[lh[i]] = home[lh[i]] /\ cache'[lh[i]] = cache[lh[i]]
            BY <2>3, <6>1
          <6> QED BY <1>1, <1>3, <3>2, <6>2 DEF Cached
        <5> QED BY <5>1, <5>2
      <4>2. dirty' = {lh[i] : i \in (tail + 2) .. Len(lh)}
        <5>1. (tail + 1) .. Len(lh) = {tail + 1} \cup ((tail + 2) .. Len(lh))
          BY <1>2, <1>5, SMTT(30)
        <5>2. \A i \in (tail + 2) .. Len(lh) : i \in 1 .. Len(lh) /\ i # tail + 1
          BY <1>2, SMTT(30)
        <5> QED BY <1>3, <2>1, <2>4, <3>2, <5>1, <5>2, SMTT(30)
      <4> QED BY <4>1, <4>2
    <3>3. tail' = tail + 1 /\ tail' + 1 = tail + 2 /\ tail' <= Len(lh)
      BY <1>2, <1>5, <2>1, SMTT(30)
    <3> QED BY <1>1, <1>3, <2>1, <3>1, <3>2, <3>3, SMTT(30) DEF Installed
  <2>9. CacheInv'
    <3>1. \A c \in Blocks : ~Locked(c) /\ (Locked(c)' <=> Locked(c))
      BY <1>1, <1>2, NobodyLocks DEF LogInv, Locked
    <3> QED BY <2>1, <2>3, <3>1 DEF LogInv, WriteAheadInv, CacheInv
  <2>10. Gathering' /\ Copied'
    BY <1>1, <2>1 DEF Gathering, Copied
  <2>11. WriteAheadInv'
    BY <1>1, <2>1, <2>7, <2>8, <2>9, <2>10, SMTT(30) DEF LogInv, WriteAheadInv, Injective
  <2>12. Durable' = Durable
    <3>1. \A c \in Blocks : c \in Entries(head) \/ home'[c] = home[c]
      BY <1>3, <2>2, <2>3
    <3> QED BY <1>1, <3>1 DEF Durable
  <2>13. Memory' = Memory
    <3>1. CASE Booting
      BY <2>7, <2>12, <3>1 DEF Memory
    <3>2. CASE ~Booting
      <4>1. Cached(b) = x
        BY <1>1, <1>3, <2>2, <3>2 DEF Booting
      <4>2. \A c \in Blocks : Cached(c)' = Cached(c)
        BY <2>5, <2>6, <4>1
      <4> QED BY <2>7, <2>12, <4>2, MemoryKept
    <3> QED BY <3>1, <3>2
  <2> QED BY <1>2, <1>4, <2>11, <2>12, <2>13 DEF AD!vars
<1>6. CASE tail = Len(lh)
  <2>1. step' = "clear" /\ UNCHANGED <<home, cache, dirty, tail>>
    BY <1>2, <1>6, SMTT(30) DEF InstallTrans
  <2>2. Booting' = Booting /\ \A c \in Blocks : Cached(c)' = Cached(c)
    BY <1>1, <2>1 DEF Booting, Cached
  <2>3. Installed'
    BY <1>1, <1>3, <1>6, <2>1, SMTT(30) DEF Installed, Cached
  <2>4. CacheInv' /\ Gathering' /\ Copied'
    BY <1>1, <2>1 DEF LogInv, WriteAheadInv, CacheInv, Gathering, Copied, Locked
  <2>5. WriteAheadInv'
    BY <1>1, <2>1, <2>2, <2>3, <2>4, SMTT(30) DEF LogInv, WriteAheadInv, Injective
  <2> QED BY <1>1, <1>2, <1>4, <2>1, <2>2, <2>5, DurableKept, MemoryKept DEF AD!vars
<1> QED BY <1>2, <1>3, <1>5, <1>6, SMTT(30)

\* The log is cleared when all of it is at home.
LEMMA ClearLogWriteAhead ==
  ASSUME LogInv, ClearLog
  PROVE  WriteAheadInv' /\ UNCHANGED AD!vars
<1>1. /\ step = "clear" /\ lh' = <<>> /\ head' = <<>> /\ tail' = 0
      /\ step' = IF committing THEN "done" ELSE "none"
      /\ UNCHANGED <<home, logged, cache, dirty, buf, committing, pc>>
  BY DEF ClearLog
<1>2. lh \in Seq(Blocks) /\ Len(lh) \in Nat /\ Active = {}
  BY <1>1, SMTT(30) DEF LogInv, ReserveInv, TypeOK
<1>3. /\ head = lh /\ tail = Len(lh) /\ Injective(lh)
      /\ \A i \in 1 .. Len(lh) : home[lh[i]] = logged[i]
  BY <1>1 DEF LogInv, WriteAheadInv, Installed
<1>4. dirty = {}
  <2>1. CASE committing
    BY <1>1, <1>2, <1>3, <2>1, SMTT(30) DEF LogInv, WriteAheadInv, Installed
  <2>2. CASE ~committing
    BY <1>1, <2>2 DEF LogInv, WriteAheadInv, Booting
  <2> QED BY <2>1, <2>2
<1>5. \A c \in Blocks : Cached(c) = home[c] /\ Cached(c)' = home[c]
  BY <1>1, <1>2, <1>4, NobodyLocks DEF LogInv, WriteAheadInv, CacheInv, Cached
<1>6. Durable = [c \in Blocks |-> home[c]]
  <2> SUFFICES ASSUME NEW c \in Blocks, c \in Entries(lh) PROVE logged[IndexIn(lh, c)] = home[c]
    BY <1>3 DEF Durable
  <2>1. PICK i \in 1 .. Len(lh) : c = lh[i]
    BY DEF Entries
  <2> QED BY <1>2, <1>3, <2>1, EntryFound
<1>7. Durable' = [c \in Blocks |-> home[c]]
  BY <1>1, SMTT(30) DEF Durable, Entries
<1>8. ~Booting' /\ Active' = Active
  BY <1>1 DEF Booting, Active
<1>9. Memory = [c \in Blocks |-> home[c]] /\ Memory' = [c \in Blocks |-> home[c]]
  BY <1>5, <1>6, <1>8 DEF Memory
<1>10. CacheInv'
  BY <1>1 DEF LogInv, WriteAheadInv, CacheInv, Locked
<1>11. WriteAheadInv'
  BY <1>1, <1>4, <1>8, <1>10, SMTT(30) DEF WriteAheadInv, Injective, Gathering, Entries, Copied, Installed
<1> QED BY <1>6, <1>7, <1>8, <1>9, <1>11 DEF AD!vars

\* The end of a commit lets operations begin again.
LEMMA CommitDoneWriteAhead ==
  ASSUME LogInv, NEW p \in Procs, CommitDone(p)
  PROVE  WriteAheadInv' /\ UNCHANGED AD!vars
<1> DEFINE Pcs == {"idle", "asleep", "woken", "op", "log_write", "commit"}
<1>1. /\ step = "done" /\ step' = "none" /\ pc' = Wakeup([pc EXCEPT ![p] = "idle"])
      /\ UNCHANGED <<diskVars, cache, dirty, buf, lh, tail>>
  BY DEF CommitDone
<1>2. Active = {} /\ pc \in [Procs -> Pcs] /\ [pc EXCEPT ![p] = "idle"] \in [Procs -> Pcs]
  BY <1>1 DEF LogInv, ReserveInv, TypeOK
<1>3. Active' = {}
  BY <1>1, <1>2, WakeupKeeps DEF Active
<1>4. ~Booting' /\ Booting' = Booting
  BY <1>1 DEF Booting
<1>5. CacheInv'
  BY <1>1 DEF LogInv, WriteAheadInv, CacheInv, Locked
<1>6. Gathering' /\ Copied' /\ Installed'
  <2>1. Gathering'
    BY <1>1 DEF LogInv, WriteAheadInv, Gathering, Entries
  <2>2. Copied' /\ Installed'
    BY <1>1 DEF Copied, Installed
  <2> QED BY <2>1, <2>2
<1>7. WriteAheadInv'
  BY <1>1, <1>4, <1>5, <1>6, SMTT(30) DEF LogInv, WriteAheadInv, Injective
<1>8. \A c \in Blocks : Cached(c)' = Cached(c)
  BY <1>1 DEF Cached
<1> QED BY <1>1, <1>2, <1>3, <1>4, <1>7, <1>8, DurableKept, MemoryKept DEF AD!vars

\* A crash leaves the disk.
LEMMA CrashWriteAhead ==
  ASSUME LogInv, Crash
  PROVE  WriteAheadInv' /\ AD!Crash
<1>1. /\ step' = "read_head" /\ lh' = <<>> /\ tail' = 0 /\ dirty' = {}
      /\ UNCHANGED diskVars
  BY DEF Crash
<1>2. \A c \in Blocks : cache'[c] = NoValue /\ ~Locked(c)'
  BY LogAssumption DEF Crash, Locked
<1>3. CacheInv'
  BY <1>1, <1>2 DEF CacheInv
<1>4. WriteAheadInv'
  <2>1. Gathering' /\ Copied' /\ Installed'
    BY <1>1 DEF Gathering, Copied, Installed
  <2>2. Injective(lh)' /\ Injective(head)'
    BY <1>1, SMTT(30) DEF LogInv, WriteAheadInv, Injective, diskVars
  <2> QED BY <1>1, <1>3, <2>1, <2>2 DEF WriteAheadInv
<1>5. Active' = {} /\ Booting'
  BY <1>1 DEF Crash, Active, Booting
<1>6. Memory' = Durable'
  BY <1>5 DEF Memory
<1> QED BY <1>1, <1>4, <1>5, <1>6, DurableKept DEF AD!Crash

\* Recovery reads the header it is going to install from.
LEMMA ReadHeadWriteAhead ==
  ASSUME LogInv, ReadHead
  PROVE  WriteAheadInv' /\ UNCHANGED AD!vars
<1>1. /\ step = "read_head" /\ lh' = head /\ step' = "install"
      /\ UNCHANGED <<diskVars, cache, dirty, buf, committing, tail, pc>>
  BY DEF ReadHead
<1>2. committing = FALSE /\ head \in Seq(Blocks) /\ Len(head) \in Nat /\ tail = 0
  BY <1>1, SMTT(30) DEF LogInv, ReserveInv, TypeOK, WriteAheadInv
<1>3. Booting /\ Booting' /\ Active' = Active
  BY <1>1, <1>2 DEF Booting, Active
<1>4. CacheInv' /\ Gathering' /\ Copied'
  BY <1>1 DEF LogInv, WriteAheadInv, CacheInv, Gathering, Copied, Locked
<1>5. Installed'
  <2>1. head' = lh' /\ tail' = 0 /\ committing' = FALSE /\ tail' <= Len(lh')
    BY <1>1, <1>2, SMTT(30) DEF diskVars
  <2>2. \A i \in 1 .. tail' : home'[lh'[i]] = logged'[i]
    BY <2>1, SMTT(30)
  <2> QED BY <1>1, <2>1, <2>2 DEF Installed
<1>6. WriteAheadInv'
  BY <1>1, <1>3, <1>4, <1>5 DEF LogInv, WriteAheadInv, Injective
<1>7. Memory' = Durable' /\ Memory = Durable
  BY <1>3 DEF Memory
<1> QED BY <1>1, <1>3, <1>6, <1>7, DurableKept DEF AD!vars

-----------------------------------------------------------------------------
\* Every step keeps LogInv.  It is a step of AtomicDisk, or the disk and the
\* operations look as before.
LEMMA NextWriteAhead ==
  ASSUME LogInv, [Next]_vars
  PROVE  LogInv' /\ [AD!Next]_(AD!vars)
<1>1. ReserveInv'
  BY NextReserve DEF LogInv
<1>2. WriteAheadInv' /\ [AD!Next]_(AD!vars)
  <2>1. CASE UNCHANGED vars
    <3>1. Active' = Active
      BY <2>1 DEF Active
    <3>2. step = "none" /\ Active' = {} => lh = <<>>
      BY <3>1 DEF LogInv, WriteAheadInv
    <3> QED BY <2>1, <3>1, <3>2, BuffersKept DEF LogInv, AD!vars
  <2>2. ASSUME NEW b \in Blocks, Load(b) \/ Evict(b)
        PROVE  WriteAheadInv' /\ UNCHANGED AD!vars
    <3>1. WriteAheadInv' /\ \A c \in Blocks : Cached(c)' = Cached(c)
      BY <2>2, CacheWriteAhead
    <3>2. UNCHANGED <<diskVars, committing, step, pc>>
      BY <2>2 DEF Load, Evict
    <3>3. Active' = Active /\ Booting' = Booting
      BY <3>2 DEF Active, Booting
    <3> QED BY <3>1, <3>2, <3>3, DurableKept, MemoryKept DEF AD!vars
  <2>3. ASSUME NEW p \in Procs, BeginOp(p) \/ LogRecord(p) \/ EndOp(p) \/ CommitDone(p)
        PROVE  WriteAheadInv' /\ [AD!Next]_(AD!vars)
    BY <2>3, BeginOpWriteAhead, LogRecordWriteAhead, EndOpWriteAhead, CommitDoneWriteAhead
       DEF AD!Next
  <2>4. ASSUME NEW p \in Procs, NEW b \in Blocks, NEW v \in Values, LogWrite(p, b, v)
        PROVE  WriteAheadInv' /\ [AD!Next]_(AD!vars)
    BY <2>4, LogWriteWriteAhead DEF AD!Next
  <2>5. CASE Commit
    BY <2>5, WriteLogWriteAhead, WriteHeadWriteAhead, InstallTransWriteAhead, ClearLogWriteAhead
       DEF Commit, AD!Next
  <2>6. CASE ReadHead
    BY <2>6, ReadHeadWriteAhead
  <2>7. CASE Crash
    BY <2>7, CrashWriteAhead DEF AD!Next
  <2> QED BY <2>1, <2>2, <2>3, <2>4, <2>5, <2>6, <2>7 DEF Next, Running
<1> QED BY <1>1, <1>2 DEF LogInv

\* log.c keeps LogInv, whatever the operations do and wherever it crashes.
THEOREM WriteAhead == Spec => []LogInv
<1>1. Init => LogInv
  BY InitReserve, InitWriteAhead DEF LogInv
<1>2. LogInv /\ [Next]_vars => LogInv'
  BY NextWriteAhead
<1> QED BY <1>1, <1>2, PTL DEF Spec

\* The log of log.c, with its group commit, its cache and its recovery,
\* implements AtomicDisk.
THEOREM Atomicity == Spec => AtomicOps
<1>1. Init => AD!Init
  <2> SUFFICES ASSUME Init PROVE AD!Init
    OBVIOUS
  <2>1. Durable = [b \in Blocks |-> home[b]] /\ Memory = Durable
    BY EmptyLog DEF Init, Memory, Booting
  <2>2. Active = {} /\ home \in [Blocks -> Values]
    BY DEF Init, Active
  <2> QED BY <2>1, <2>2 DEF AD!Init
<1>2. LogInv /\ [Next]_vars => [AD!Next]_(AD!vars)
  BY NextWriteAhead
<1> QED BY <1>1, <1>2, WriteAhead, PTL DEF Spec, AtomicOps, AD!Spec

\* When the last end_op has returned the disk has what the operations wrote.
THEOREM QuietIsDurable == Spec => []DurableWhenQuiet
<1>1. LogInv => DurableWhenQuiet
  <2> SUFFICES ASSUME LogInv, outstanding = 0, ~committing, ~Booting PROVE Durable = Memory
    BY DEF DurableWhenQuiet
  <2>1. step = "none" /\ Active = {}
    BY ReservedFinite, FS_EmptySet DEF LogInv, ReserveInv, TypeOK, CommitsAlone, Booting
  <2>2. lh = <<>> /\ head = <<>> /\ dirty = {}
    BY <2>1, SMTT(30) DEF LogInv, WriteAheadInv, Gathering, Entries
  <2>3. \A b \in Blocks : Cached(b) = home[b]
    BY <2>1, <2>2, NobodyLocks DEF LogInv, WriteAheadInv, CacheInv, Cached
  <2> QED BY <2>2, <2>3, EmptyLog DEF Memory
<1> QED BY <1>1, WriteAhead, PTL
=============================================================================
