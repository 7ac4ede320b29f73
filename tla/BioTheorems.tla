---------------------------- MODULE BioTheorems -----------------------------
(***************************************************************************)
(* The theorems about the buffer cache and the disk driver of module Bio,  *)
(* for every number of clients, buffers and blocks.                        *)
(*                                                                         *)
(* First that the invariant BioInv is inductive: what the list, the queue  *)
(* of the driver and the reference counts do, then one lemma per action.   *)
(* A lemma first states the effect of the action on the client, the buffer *)
(* and everything else; the steps about the conjuncts use that instead of  *)
(* the definition of the action.  Then the refinement: to its clients the  *)
(* cache is the store of locked blocks of module BlockStore, so a step     *)
(* either changes nothing that they see or is one of the store's actions.  *)
(***************************************************************************)
EXTENDS Bio, FiniteSetTheorems, TLAPS

USE DEF Holders, Ops

\* Most leaves are first-order; a leaf that needs arithmetic, sequences or
\* large records names SMT.
USE ZenonT(30)

-----------------------------------------------------------------------------
(***************************************************************************)
(* The list of buffers.                                                    *)
(***************************************************************************)

\* binit links every buffer once.
LEMMA ListOfBufs ==
  ASSUME BioInit
  PROVE  lru \in Seq(Bufs) /\ Range(lru) = Bufs /\ Len(lru) = Cardinality(Bufs)
<1> DEFINE n == Cardinality(Bufs)
<1>1. n \in Nat /\ ExistsBijection(1..n, Bufs)
  BY BioAssumption, FS_CardinalityType
<1>2. lru \in Bijection(1..n, Bufs)
  BY <1>1 DEF ExistsBijection, BioInit
<1>3. lru \in [1..n -> Bufs] /\ \A b \in Bufs : \E i \in 1..n : lru[i] = b
  BY <1>2 DEF Bijection, Surjection
<1>4. lru \in Seq(Bufs) /\ Len(lru) = n /\ DOMAIN lru = 1..n
  BY <1>1, <1>3, SMTT(30)
<1>5. Range(lru) = Bufs
  BY <1>3, <1>4 DEF Range
<1> QED BY <1>4, <1>5

\* brelse: unlinking a buffer and linking it again at the head loses none.
LEMMA ListKeepsBufs ==
  ASSUME CacheTypeOK, NEW b \in Bufs
  PROVE  MostRecent(b) \in Seq(Bufs) /\ Range(MostRecent(b)) = Bufs
         /\ Len(MostRecent(b)) = Cardinality(Bufs)
<1> DEFINE n == Len(lru)
           i == CHOOSE j \in DOMAIN lru : lru[j] = b
           m == MostRecent(b)
<1>1. lru \in Seq(Bufs) /\ n \in Nat /\ DOMAIN lru = 1..n /\ Range(lru) = Bufs
      /\ n = Cardinality(Bufs)
  BY SMTT(30) DEF CacheTypeOK
<1>2. i \in 1..n /\ lru[i] = b
  BY <1>1 DEF Range
<1>3. m = [j \in 1..n |-> IF j = 1 THEN b ELSE IF j <= i THEN lru[j - 1] ELSE lru[j]]
  BY <1>1 DEF MostRecent
<1> HIDE DEF i, m
<1>4. m \in [1..n -> Bufs]
  BY <1>1, <1>2, <1>3, SMTT(30)
<1>5. m \in Seq(Bufs) /\ Len(m) = n /\ DOMAIN m = 1..n
  BY <1>1, <1>4, SMTT(30)
<1>6. \A j \in 1..n : \E k \in 1..n : m[k] = lru[j]
  <2> TAKE j \in 1..n
  <2>1. CASE j = i
    <3>1. 1 \in 1..n /\ m[1] = lru[j]
      BY <1>1, <1>2, <1>3, <2>1, SMTT(30)
    <3> QED BY <3>1
  <2>2. CASE j < i
    <3>1. j + 1 \in 1..n /\ m[j + 1] = lru[j]
      BY <1>1, <1>2, <1>3, <2>2, SMTT(30)
    <3> QED BY <3>1
  <2>3. CASE j > i
    BY <1>1, <1>2, <1>3, <2>3, SMTT(30)
  <2> QED BY <1>1, <1>2, <2>1, <2>2, <2>3, SMTT(30)
<1>7. \A c \in Bufs : \E j \in 1..n : lru[j] = c
  BY <1>1 DEF Range
<1>8. Range(m) = Bufs
  <2>1. Range(m) = {m[k] : k \in 1..n}
    BY <1>5 DEF Range
  <2>2. \A c \in Bufs : \E k \in 1..n : m[k] = c
    BY <1>6, <1>7
  <2> QED BY <1>4, <2>1, <2>2
<1> QED BY <1>1, <1>5, <1>8 DEF m

\* A request at the end of a queue without repetitions.
LEMMA QueueAppend ==
  ASSUME NEW S, NEW s \in Seq(S), NEW x \in S
  PROVE  /\ Append(s, x) \in Seq(S) /\ Append(s, x) # <<>>
         /\ Range(Append(s, x)) = Range(s) \cup {x}
         /\ Head(Append(s, x)) = IF s = <<>> THEN x ELSE Head(s)
         /\ IsInjective(s) /\ x \notin Range(s) => IsInjective(Append(s, x))
<1> DEFINE t == Append(s, x)
<1>1. /\ t \in Seq(S) /\ Len(s) \in Nat /\ Len(t) = Len(s) + 1 /\ DOMAIN s = 1..Len(s)
      /\ DOMAIN t = 1..(Len(s) + 1) /\ t[Len(s) + 1] = x /\ \A i \in 1..Len(s) : t[i] = s[i]
  BY SMTT(30)
<1>2. t # <<>> /\ Head(t) = t[1]
  BY <1>1, SMTT(30)
<1> HIDE DEF t
<1>3. Range(t) = Range(s) \cup {x}
  <2>1. ASSUME NEW y \in Range(t) PROVE y \in Range(s) \cup {x}
    BY <1>1, <2>1, SMTT(30) DEF Range
  <2>2. ASSUME NEW y \in Range(s) PROVE y \in Range(t)
    BY <1>1, <2>2, SMTT(30) DEF Range
  <2>3. x \in Range(t)
    BY <1>1, SMTT(30) DEF Range
  <2> QED BY <2>1, <2>2, <2>3
<1>4. Head(t) = IF s = <<>> THEN x ELSE Head(s)
  BY <1>1, <1>2, SMTT(30)
<1>5. ASSUME IsInjective(s), x \notin Range(s) PROVE IsInjective(t)
  BY <1>1, <1>5, SMTT(30) DEF Range, IsInjective
<1> QED BY <1>1, <1>2, <1>3, <1>4, <1>5 DEF t

\* The first request leaves a queue without repetitions.
LEMMA QueueTail ==
  ASSUME NEW S, NEW s \in Seq(S), s # <<>>, IsInjective(s)
  PROVE  /\ Head(s) \in S /\ Head(s) \in Range(s)
         /\ Tail(s) \in Seq(S) /\ IsInjective(Tail(s))
         /\ Range(Tail(s)) = Range(s) \ {Head(s)}
         /\ Tail(s) # <<>> => Head(Tail(s)) \in Range(Tail(s))
<1> DEFINE t == Tail(s)
<1>1. /\ t \in Seq(S) /\ Len(s) \in Nat \ {0} /\ Len(t) = Len(s) - 1 /\ DOMAIN s = 1..Len(s)
      /\ DOMAIN t = 1..(Len(s) - 1) /\ Head(s) = s[1] /\ \A i \in 1..(Len(s) - 1) : t[i] = s[i + 1]
  BY SMTT(30)
<1>2. t # <<>> => Head(t) = t[1] /\ 1 \in DOMAIN t
  BY <1>1, SMTT(30)
<1>3. Head(s) \in S /\ Head(s) \in Range(s)
  BY <1>1, SMTT(30) DEF Range
<1> HIDE DEF t
<1>4. IsInjective(t)
  <2> SUFFICES ASSUME NEW i \in 1..(Len(s) - 1), NEW j \in 1..(Len(s) - 1), t[i] = t[j]
               PROVE  i = j
    BY <1>1 DEF IsInjective
  <2>1. i + 1 \in 1..Len(s) /\ j + 1 \in 1..Len(s) /\ s[i + 1] = s[j + 1]
    BY <1>1, SMTT(30)
  <2>2. i + 1 = j + 1
    BY <1>1, <2>1 DEF IsInjective
  <2> QED BY <2>2, SMTT(30)
<1>5. Range(t) = Range(s) \ {Head(s)}
  <2>1. ASSUME NEW y \in Range(t) PROVE y \in Range(s) \ {Head(s)}
    <3>1. PICK i \in 1..(Len(s) - 1) : y = t[i]
      BY <1>1, <2>1 DEF Range
    <3>2. y = s[i + 1] /\ i + 1 \in 1..Len(s) /\ 1 \in 1..Len(s) /\ i + 1 # 1
      BY <1>1, <3>1, SMTT(30)
    <3> QED BY <1>1, <3>2 DEF Range, IsInjective
  <2>2. ASSUME NEW y \in Range(s) \ {Head(s)} PROVE y \in Range(t)
    <3>1. PICK i \in 1..Len(s) : y = s[i]
      BY <1>1, <2>2 DEF Range
    <3>2. i - 1 \in 1..(Len(s) - 1) /\ t[i - 1] = s[(i - 1) + 1] /\ (i - 1) + 1 = i
      <4>1. i # 1
        BY <1>1, <2>2, <3>1
      <4>2. i - 1 \in 1..(Len(s) - 1) /\ (i - 1) + 1 = i
        BY <1>1, <4>1, SMTT(30)
      <4> QED BY <1>1, <4>2
    <3> QED BY <1>1, <3>1, <3>2 DEF Range
  <2> QED BY <2>1, <2>2
<1>6. t # <<>> => Head(t) \in Range(t)
  BY <1>2 DEF Range
<1> QED BY <1>1, <1>3, <1>4, <1>5, <1>6 DEF t

-----------------------------------------------------------------------------
(***************************************************************************)
(* The reference counts.                                                   *)
(***************************************************************************)

\* The users of a buffer can be counted, and are clients.
LEMMA UsersFinite ==
  ASSUME NEW b
  PROVE  IsFiniteSet(Users(b)) /\ Cardinality(Users(b)) \in 0..Cardinality(Clients)
<1>1. Users(b) \in SUBSET Clients
  BY DEF Users
<1>2. IsFiniteSet(Users(b)) /\ Cardinality(Users(b)) <= Cardinality(Clients)
  BY <1>1, BioAssumption, FS_Subset
<1> QED BY <1>2, BioAssumption, FS_CardinalityType, SMTT(30)

\* A buffer that somebody uses has a reference, so bget does not recycle it.
LEMMA UsedIsReferenced ==
  ASSUME Counted, NEW b \in Bufs, NEW p \in Clients, using[p] = b
  PROVE  refcnt[b] # 0
<1>1. p \in Users(b) /\ IsFiniteSet(Users(b))
  BY UsersFinite DEF Users
<1> QED BY <1>1, FS_EmptySet DEF Counted

\* bget: a client that used nothing uses b, and the count of b grows by one.
LEMMA EnterCounted ==
  ASSUME CacheTypeOK, Counted, NEW p \in Clients, NEW b \in Bufs, using[p] = NoBuf,
         using' = [using EXCEPT ![p] = b], refcnt' = [refcnt EXCEPT ![b] = refcnt[b] + 1]
  PROVE  Counted'
<1>1. using'[p] = b /\ \A q \in Clients \ {p} : using'[q] = using[q]
  BY DEF CacheTypeOK
<1>2. NoBuf # b /\ NoBuf \notin Bufs
  BY BioAssumption
<1>3. Users(b)' = Users(b) \cup {p} /\ p \notin Users(b)
  BY <1>1, <1>2 DEF Users
<1>4. \A c \in Bufs \ {b} : Users(c)' = Users(c)
  BY <1>1, <1>2 DEF Users
<1>5. Cardinality(Users(b)') = Cardinality(Users(b)) + 1
  BY <1>3, UsersFinite, FS_AddElement
<1>6. refcnt'[b] = refcnt[b] + 1 /\ \A c \in Bufs \ {b} : refcnt'[c] = refcnt[c]
  BY DEF CacheTypeOK
<1> SUFFICES ASSUME NEW c \in Bufs PROVE refcnt'[c] = Cardinality(Users(c)')
  BY DEF Counted
<1>7. CASE c = b
  BY <1>5, <1>6, <1>7 DEF Counted
<1>8. CASE c # b
  BY <1>4, <1>6, <1>8 DEF Counted
<1> QED BY <1>7, <1>8

\* brelse: a client stops using b, and the count of b shrinks by one.
LEMMA LeaveCounted ==
  ASSUME CacheTypeOK, Counted, NEW p \in Clients, NEW b \in Bufs, using[p] = b,
         using' = [using EXCEPT ![p] = NoBuf], refcnt' = [refcnt EXCEPT ![b] = refcnt[b] - 1]
  PROVE  Counted'
<1>1. using'[p] = NoBuf /\ \A q \in Clients \ {p} : using'[q] = using[q]
  BY DEF CacheTypeOK
<1>2. NoBuf # b /\ NoBuf \notin Bufs
  BY BioAssumption
<1>3. Users(b)' = Users(b) \ {p} /\ p \in Users(b)
  BY <1>1, <1>2 DEF Users
<1>4. \A c \in Bufs \ {b} : Users(c)' = Users(c)
  BY <1>1, <1>2 DEF Users
<1>5. Cardinality(Users(b)') = Cardinality(Users(b)) - 1
  BY <1>3, UsersFinite, FS_RemoveElement
<1>6. refcnt'[b] = refcnt[b] - 1 /\ \A c \in Bufs \ {b} : refcnt'[c] = refcnt[c]
  BY DEF CacheTypeOK
<1> SUFFICES ASSUME NEW c \in Bufs PROVE refcnt'[c] = Cardinality(Users(c)')
  BY DEF Counted
<1>7. CASE c = b
  BY <1>5, <1>6, <1>7 DEF Counted
<1>8. CASE c # b
  BY <1>4, <1>6, <1>8 DEF Counted
<1> QED BY <1>7, <1>8

\* The counts stay in their type: no buffer has more users than there are
\* clients.
LEMMA CountedBounded ==
  ASSUME refcnt' \in [Bufs -> Int], Counted'
  PROVE  refcnt' \in [Bufs -> 0..Cardinality(Clients)]
<1>1. ASSUME NEW b PROVE Cardinality(Users(b)') \in 0..Cardinality(Clients)
  <2>1. Users(b)' \in SUBSET Clients
    BY DEF Users
  <2>2. IsFiniteSet(Users(b)') /\ Cardinality(Users(b)') <= Cardinality(Clients)
    BY <2>1, BioAssumption, FS_Subset
  <2> QED BY <2>2, BioAssumption, FS_CardinalityType, SMTT(30)
<1> QED BY <1>1 DEF Counted

-----------------------------------------------------------------------------
(***************************************************************************)
(* Every step keeps the invariant.                                         *)
(***************************************************************************)

\* Who holds the lock of a buffer works on it.
LEMMA HolderWorks ==
  ASSUME BioInv, NEW c \in Bufs, locker[c] # NoProc
  PROVE  locker[c] \in Clients /\ using[locker[c]] = c /\ at[locker[c]] \in Holders
BY SMTT(30) DEF BioInv, CacheTypeOK, Exclusive

\* Who waits for a buffer of the queue, and what the request is for.
LEMMA QueueMember ==
  ASSUME BioInv, NEW c \in Range(idequeue)
  PROVE  /\ c \in Bufs /\ locker[c] \in Clients /\ using[locker[c]] = c
         /\ at[locker[c]] \in {"rwsleep", "rwcheck"} /\ ~InSync(c)
<1>1. c \in Bufs
  BY SMTT(30) DEF BioInv, CacheTypeOK, Range
<1> QED BY <1>1 DEF BioInv, Queued, RequestsOwned

\* Who sleeps waits for a holder or for a request.
LEMMA Sleepers ==
  ASSUME BioInv
  PROVE  \A q \in Clients :
           /\ at[q] = "locksleep" => using[q] \in Bufs /\ locker[using[q]] # NoProc
           /\ at[q] = "rwsleep" => using[q] \in Range(idequeue)
BY DEF BioInv, Placed, Queued, RequestsOwned

\* acquiresleep gives the lock of a buffer to one of its users.
LEMMA AcquiresleepInv ==
  ASSUME BioInv, NEW p \in Clients, Acquiresleep(p)
  PROVE  BioInv'
<1> DEFINE b == using[p]
<1>1. /\ at[p] = "lock" /\ b \in Bufs
      /\ UNCHANGED <<lru, blockno, refcnt, B_VALID, B_DIRTY, data, idequeue, cmd, disk,
                     unread, using, op>>
  BY DEF BioInv, Placed, Acquiresleep, bcache, device
<1>2. \/ /\ locker[b] # NoProc /\ locker' = locker
         /\ at' = [at EXCEPT ![p] = "locksleep"]
      \/ /\ locker[b] = NoProc /\ locker' = [locker EXCEPT ![b] = p]
         /\ at' = [at EXCEPT ![p] = IF B_VALID[b] THEN "use" ELSE "iderw"]
  BY DEF Acquiresleep
<1>3. CacheTypeOK'
  <2>1. locker' \in [Bufs -> Clients \cup {NoProc}]
    <3>1. locker \in [Bufs -> Clients \cup {NoProc}]
      BY DEF BioInv, CacheTypeOK
    <3>2. CASE locker' = locker
      BY <3>1, <3>2
    <3>3. CASE locker' = [locker EXCEPT ![b] = p]
      BY <3>1, <3>3
    <3> QED BY <1>2, <3>2, <3>3
  <2>2. at' \in [Clients -> Holders \cup {"idle", "lock", "locksleep", "unref"}]
    BY <1>1, <1>2 DEF BioInv, CacheTypeOK
  <2> QED BY <1>1, <2>1, <2>2 DEF BioInv, CacheTypeOK
<1>4. Placed'
  BY <1>1, <1>2, SMTT(30) DEF BioInv, CacheTypeOK, Placed
<1>5. Counted'
  BY <1>1 DEF BioInv, Counted, Users
<1>a. /\ \A q \in Clients \ {p} : at'[q] = at[q]
      /\ \A c \in Bufs \ {b} : locker'[c] = locker[c]
      /\ locker[b] # NoProc => locker'[b] = locker[b]
      /\ IF locker[b] # NoProc THEN at'[p] = "locksleep"
         ELSE locker'[b] = p /\ at'[p] = IF B_VALID[b] THEN "use" ELSE "iderw"
  BY <1>1, <1>2, SMTT(30) DEF BioInv, CacheTypeOK
<1>6. Exclusive'
  <2>1. ASSUME NEW q \in Clients, at'[q] \in Holders PROVE locker'[using'[q]] = q
    BY <1>1, <1>a, <2>1, BioAssumption, SMTT(30) DEF BioInv, Exclusive, Placed
  <2>2. ASSUME NEW c \in Bufs, locker'[c] # NoProc
        PROVE  using'[locker'[c]] = c /\ at'[locker'[c]] \in Holders
    <3>1. CASE locker[c] # NoProc
      BY <1>1, <1>a, <3>1, HolderWorks, SMTT(30)
    <3>2. CASE locker[c] = NoProc
      BY <1>1, <1>a, <2>2, <3>2
    <3> QED BY <3>1, <3>2
  <2> QED BY <2>1, <2>2 DEF Exclusive
<1>7. Coherent'
  BY <1>1, <1>2, SMTT(30) DEF BioInv, CacheTypeOK, Coherent, InSync
<1>8. Queued'
  <2>1. ASSUME NEW c \in Range(idequeue')
        PROVE  \E q \in Clients : using'[q] = c /\ locker'[c] = q /\ at'[q] \in {"rwsleep", "rwcheck"}
    BY <1>1, <1>a, <2>1, QueueMember, BioAssumption, SMTT(30)
  <2>2. ASSUME NEW q \in Clients, at'[q] = "locksleep" PROVE locker'[using'[q]] # NoProc
    BY <1>1, <1>a, <2>2, BioAssumption, SMTT(30) DEF BioInv, Queued, RequestsOwned, Placed
  <2>3. RequestsOwned'
    BY <1>1, <1>a, <2>1, <2>2, SMTT(30) DEF BioInv, Queued, RequestsOwned, idestart
  <2> QED BY <1>1, <1>a, <2>3 DEF BioInv, Queued, Coherent, InSync
<1> QED BY <1>3, <1>4, <1>5, <1>6, <1>7, <1>8 DEF BioInv

\* A client that wakes up, or looks again, changes nothing but its own place.
LEMMA PlaceInv ==
  ASSUME BioInv, NEW p \in Clients, NEW to,
         /\ UNCHANGED <<lru, blockno, refcnt, B_VALID, B_DIRTY, data, locker, idequeue, cmd,
                        disk, unread, using, op>>
         /\ at' = [at EXCEPT ![p] = to]
         /\ \/ at[p] = "locksleep" /\ to = "lock"
            \/ at[p] = "rwsleep" /\ to = "rwcheck"
            \/ at[p] = "rwcheck" /\ ~InSync(using[p]) /\ to = "rwsleep"
            \/ at[p] = "rwcheck" /\ InSync(using[p]) /\ to \in {"use", "release"}
  PROVE  BioInv'
<1>1. at'[p] = to /\ \A q \in Clients \ {p} : at'[q] = at[q]
  BY DEF BioInv, CacheTypeOK
<1>2. CacheTypeOK'
  <2>1. at' \in [Clients -> Holders \cup {"idle", "lock", "locksleep", "unref"}]
    BY DEF BioInv, CacheTypeOK
  <2> QED BY <2>1 DEF BioInv, CacheTypeOK
<1>3. Placed'
  BY <1>1 DEF BioInv, Placed
<1>4. Counted'
  BY DEF BioInv, Counted, Users
<1>5. Exclusive'
  BY <1>1, SMTT(30) DEF BioInv, Exclusive, CacheTypeOK
<1>6. Coherent'
  BY <1>1 DEF BioInv, Coherent, InSync
<1>7. Queued'
  <2>1. ASSUME NEW c \in Range(idequeue')
        PROVE  \E q \in Clients : using'[q] = c /\ locker'[c] = q /\ at'[q] \in {"rwsleep", "rwcheck"}
    BY <1>1, <2>1, QueueMember, SMTT(30)
  <2>2. at'[p] = "rwsleep" => using[p] \in Range(idequeue)
    BY <1>1 DEF BioInv, Queued
  <2>3. RequestsOwned'
    BY <1>1, <2>1, <2>2, SMTT(30) DEF BioInv, Queued, RequestsOwned, idestart
  <2>4. at'[p] = "rwcheck" => using[p] \in Range(idequeue)
    BY <1>1 DEF BioInv, Queued, RequestsOwned
  <2> QED BY <1>1, <2>3, <2>4 DEF BioInv, Queued, InSync
<1> QED BY <1>2, <1>3, <1>4, <1>5, <1>6, <1>7 DEF BioInv

\* iderw after a wakeup.
LEMMA IderwRecheckInv ==
  ASSUME BioInv, NEW p \in Clients, IderwRecheck(p)
  PROVE  BioInv'
<1> DEFINE to == IF ~InSync(using[p]) THEN "rwsleep"
                 ELSE IF op[p] = "wrote" THEN "release" ELSE "use"
<1>1. /\ UNCHANGED <<lru, blockno, refcnt, B_VALID, B_DIRTY, data, locker, idequeue, cmd,
                     disk, unread, using, op>>
      /\ at' = [at EXCEPT ![p] = to] /\ at[p] = "rwcheck"
  BY DEF IderwRecheck, bcache, device
<1>2. CASE ~InSync(using[p])
  BY <1>1, <1>2, PlaceInv
<1>3. CASE InSync(using[p])
  BY <1>1, <1>3, PlaceInv
<1> QED BY <1>2, <1>3

\* kill wakes a sleeper.
LEMMA KillWakesInv ==
  ASSUME BioInv, NEW p \in Clients, KillWakes(p)
  PROVE  BioInv'
<1>1. /\ UNCHANGED <<lru, blockno, refcnt, B_VALID, B_DIRTY, data, locker, idequeue, cmd,
                     disk, unread, using, op>>
      /\ at' = [at EXCEPT ![p] = IF at[p] = "locksleep" THEN "lock" ELSE "rwcheck"]
      /\ at[p] \in {"locksleep", "rwsleep"}
  BY DEF KillWakes, bcache, device
<1>2. CASE at[p] = "locksleep"
  BY <1>1, <1>2, PlaceInv
<1>3. CASE at[p] = "rwsleep"
  BY <1>1, <1>3, PlaceInv
<1> QED BY <1>1, <1>2, <1>3

\* releasesleep frees the lock of the buffer and wakes those who wait for it.
LEMMA ReleasesleepInv ==
  ASSUME BioInv, NEW p \in Clients, Releasesleep(p)
  PROVE  BioInv'
<1> DEFINE b == using[p]
<1>1. /\ at[p] \in {"release", "use"}
      /\ UNCHANGED <<lru, blockno, refcnt, B_VALID, B_DIRTY, data, idequeue, cmd, disk,
                     unread, using, op>>
      /\ locker' = [locker EXCEPT ![b] = NoProc]
      /\ at' = [WakeLockers(b) EXCEPT ![p] = "unref"]
  BY DEF Releasesleep, bcache, device
<1>2. b \in Bufs /\ locker[b] = p
  BY <1>1 DEF BioInv, Placed, Exclusive
<1>3. /\ at'[p] = "unref" /\ at' \in [Clients -> Holders \cup {"idle", "lock", "locksleep", "unref"}]
      /\ \A q \in Clients \ {p} :
           at'[q] = IF at[q] = "locksleep" /\ using[q] = b THEN "lock" ELSE at[q]
  BY <1>1 DEF WakeLockers, Wake, BioInv, CacheTypeOK
<1>4. /\ locker' \in [Bufs -> Clients \cup {NoProc}]
      /\ locker'[b] = NoProc /\ \A c \in Bufs \ {b} : locker'[c] = locker[c]
  BY <1>1, <1>2 DEF BioInv, CacheTypeOK
<1>5. CacheTypeOK'
  BY <1>1, <1>3, <1>4 DEF BioInv, CacheTypeOK
<1>6. Placed'
  BY <1>1, <1>3 DEF BioInv, Placed
<1>7. Counted'
  BY <1>1 DEF BioInv, Counted, Users
<1>8. Exclusive'
  <2>1. ASSUME NEW q \in Clients, at'[q] \in Holders PROVE locker'[using'[q]] = q
    <3>1. q # p /\ at[q] = at'[q]
      BY <1>3, <2>1
    <3>2. locker[using[q]] = q /\ using[q] \in Bufs
      BY <2>1, <3>1 DEF BioInv, Exclusive, Placed
    <3> QED BY <1>1, <1>2, <1>4, <3>1, <3>2
  <2>2. ASSUME NEW c \in Bufs, locker'[c] # NoProc
        PROVE  using'[locker'[c]] = c /\ at'[locker'[c]] \in Holders
    <3>1. c # b /\ locker[c] = locker'[c]
      BY <1>4, <2>2
    <3>2. locker[c] \in Clients /\ using[locker[c]] = c /\ at[locker[c]] \in Holders
      BY <2>2, <3>1, HolderWorks
    <3> QED BY <1>1, <1>3, <3>1, <3>2, SMTT(30)
  <2> QED BY <2>1, <2>2 DEF Exclusive
<1>9. Coherent'
  BY <1>1, <1>3 DEF BioInv, Coherent, InSync
<1>10. Queued'
  <2>1. ASSUME NEW c \in Range(idequeue')
        PROVE  \E q \in Clients : using'[q] = c /\ locker'[c] = q /\ at'[q] \in {"rwsleep", "rwcheck"}
    <3>1. c \in Bufs /\ locker[c] \in Clients /\ using[locker[c]] = c
          /\ at[locker[c]] \in {"rwsleep", "rwcheck"}
      BY <1>1, <2>1, QueueMember
    <3>2. c # b
      BY <1>1, <1>2, <3>1
    <3> QED BY <1>1, <1>3, <1>4, <3>1, <3>2
  <2>2. ASSUME NEW q \in Clients, at'[q] = "locksleep" PROVE locker'[using'[q]] # NoProc
    <3>1. q # p /\ at[q] = "locksleep" /\ using[q] # b
      BY <1>3, <2>2
    <3>2. using[q] \in Bufs /\ locker[using[q]] # NoProc
      BY <3>1, Sleepers
    <3> QED BY <1>1, <1>4, <3>1, <3>2
  <2>3. \A q \in Clients : at'[q] = "rwsleep" => using'[q] \in Range(idequeue')
    BY <1>1, <1>3, Sleepers
  <2>4. IsInjective(idequeue') /\ (idequeue' # <<>> => cmd' = idestart(Head(idequeue))')
    BY <1>1 DEF BioInv, Queued, RequestsOwned, idestart
  <2>5. RequestsOwned'
    BY <2>1, <2>2, <2>3, <2>4 DEF RequestsOwned
  <2> QED BY <1>1, <1>3, <2>5 DEF BioInv, Queued, InSync
<1> QED BY <1>5, <1>6, <1>7, <1>8, <1>9, <1>10 DEF BioInv

\* iderw puts the buffer that its caller has locked at the end of the queue.
LEMMA IderwInv ==
  ASSUME BioInv, NEW p \in Clients, Iderw(p)
  PROVE  BioInv'
<1> DEFINE b == using[p]
<1>1. /\ at[p] = "iderw" /\ at' = [at EXCEPT ![p] = "rwsleep"]
      /\ idequeue' = Append(idequeue, b) /\ cmd' = StartIfIdle(b)
      /\ UNCHANGED <<lru, blockno, refcnt, B_VALID, B_DIRTY, data, locker, disk, unread, using, op>>
  BY DEF Iderw, bcache
<1>2. b \in Bufs /\ locker[b] = p /\ ~InSync(b)
  BY <1>1 DEF BioInv, Placed, Exclusive, Queued
<1>3. /\ at'[p] = "rwsleep" /\ \A q \in Clients \ {p} : at'[q] = at[q]
      /\ at' \in [Clients -> Holders \cup {"idle", "lock", "locksleep", "unref"}]
  BY <1>1 DEF BioInv, CacheTypeOK
<1>4. b \notin Range(idequeue)
  BY <1>1, <1>2, QueueMember
<1>5. idequeue \in Seq(Bufs) /\ IsInjective(idequeue)
  BY DEF BioInv, CacheTypeOK, Queued, RequestsOwned
<1>6. /\ idequeue' \in Seq(Bufs) /\ idequeue' # <<>> /\ IsInjective(idequeue')
      /\ Range(idequeue') = Range(idequeue) \cup {b}
      /\ Head(idequeue') = IF idequeue = <<>> THEN b ELSE Head(idequeue)
  BY <1>1, <1>2, <1>4, <1>5, QueueAppend, SMTT(30)
<1>7. CacheTypeOK'
  BY <1>1, <1>3, <1>6 DEF BioInv, CacheTypeOK
<1>8. Placed'
  BY <1>1, <1>3 DEF BioInv, Placed
<1>9. Counted'
  BY <1>1 DEF BioInv, Counted, Users
<1>10. Exclusive'
  BY <1>1, <1>3, SMTT(30) DEF BioInv, Exclusive, CacheTypeOK
<1>11. Coherent'
  BY <1>1, <1>3 DEF BioInv, Coherent, InSync
<1>12. Queued'
  <2>1. ASSUME NEW c \in Range(idequeue')
        PROVE  \E q \in Clients : using'[q] = c /\ locker'[c] = q /\ at'[q] \in {"rwsleep", "rwcheck"}
    BY <1>1, <1>2, <1>3, <1>6, <2>1, QueueMember, SMTT(30)
  <2>2. cmd' = idestart(Head(idequeue))'
    <3>1. cmd' = idestart(Head(idequeue'))
      BY <1>1, <1>6 DEF StartIfIdle, BioInv, Queued, RequestsOwned
    <3> QED BY <1>1, <3>1 DEF idestart
  <2>3. \A q \in Clients :
          /\ at'[q] = "locksleep" => locker'[using'[q]] # NoProc
          /\ at'[q] = "rwsleep" => using'[q] \in Range(idequeue')
    BY <1>1, <1>3, <1>6, Sleepers
  <2>4. RequestsOwned'
    BY <1>6, <2>1, <2>2, <2>3 DEF RequestsOwned
  <2>5. ASSUME NEW c \in Range(idequeue') PROVE ~InSync(c)'
    BY <1>1, <1>2, <1>6, QueueMember DEF InSync
  <2> QED BY <1>1, <1>3, <1>6, <2>4, <2>5 DEF BioInv, Queued, InSync
<1> QED BY <1>7, <1>8, <1>9, <1>10, <1>11, <1>12 DEF BioInv

\* ideintr completes the first request and starts the next one.
LEMMA IdeintrInv ==
  ASSUME BioInv, NEW failed \in BOOLEAN, Ideintr(failed)
  PROVE  BioInv'
<1> DEFINE b == Head(idequeue)
           rest == Tail(idequeue)
           k == blockno[b]
<1>1. /\ idequeue # <<>> /\ (failed => ~B_DIRTY[b])
      /\ idequeue' = rest /\ cmd' = StartNext(rest)
      /\ disk' = IF cmd.write THEN [disk EXCEPT ![cmd.block] = data[b]] ELSE disk
      /\ data' = IF B_DIRTY[b] \/ failed THEN data ELSE [data EXCEPT ![b] = disk[cmd.block]]
      /\ unread' = IF failed THEN unread \cup {b} ELSE unread
      /\ B_VALID' = [B_VALID EXCEPT ![b] = TRUE]
      /\ B_DIRTY' = [B_DIRTY EXCEPT ![b] = FALSE]
      /\ at' = Wake(b, "rwsleep", "rwcheck")
      /\ UNCHANGED <<lru, blockno, refcnt, locker, using, op>>
  BY DEF Ideintr, bcache
<1>2. /\ idequeue \in Seq(Bufs) /\ IsInjective(idequeue)
      /\ cmd.write = B_DIRTY[b] /\ cmd.block = k
  <2>1. idequeue \in Seq(Bufs) /\ IsInjective(idequeue)
    BY DEF BioInv, CacheTypeOK, Queued, RequestsOwned
  <2>2. cmd = [write |-> B_DIRTY[b], block |-> k]
    BY <1>1 DEF BioInv, Queued, RequestsOwned, idestart
  <2> QED BY <2>1, <2>2
<1>3. /\ b \in Range(idequeue) /\ rest \in Seq(Bufs) /\ IsInjective(rest)
      /\ Range(rest) = Range(idequeue) \ {b}
      /\ rest # <<>> => Head(rest) \in Range(rest)
  BY <1>1, <1>2, QueueTail
<1>4. /\ b \in Bufs /\ locker[b] \in Clients /\ using[locker[b]] = b /\ ~InSync(b)
      /\ at[locker[b]] \in {"rwsleep", "rwcheck"}
  BY <1>3, QueueMember
<1>5. k \in DiskBlocks /\ k # NoDiskBlock
  BY <1>4, SMTT(30) DEF BioInv, Placed, CacheTypeOK
<1> HIDE DEF b, rest, k
<1>6. /\ at' \in [Clients -> Holders \cup {"idle", "lock", "locksleep", "unref"}]
      /\ \A q \in Clients :
           at'[q] = IF at[q] = "rwsleep" /\ using[q] = b THEN "rwcheck" ELSE at[q]
  BY <1>1 DEF Wake, BioInv, CacheTypeOK
<1>7. /\ B_VALID' \in [Bufs -> BOOLEAN] /\ B_DIRTY' \in [Bufs -> BOOLEAN]
      /\ B_VALID'[b] /\ ~B_DIRTY'[b]
      /\ \A c \in Bufs \ {b} : B_VALID'[c] = B_VALID[c] /\ B_DIRTY'[c] = B_DIRTY[c]
  BY <1>1, <1>4 DEF BioInv, CacheTypeOK
<1>8. /\ disk' \in [DiskBlocks -> Contents] /\ data' \in [Bufs -> Contents]
      /\ \A c \in Bufs \ {b} : data'[c] = data[c]
      /\ \A j \in DiskBlocks \ {k} : disk'[j] = disk[j]
      /\ IF B_DIRTY[b] THEN disk'[k] = data[b] /\ data'[b] = data[b]
         ELSE disk'[k] = disk[k] /\ (~failed => data'[b] = disk[k])
  BY <1>1, <1>2, <1>4, <1>5 DEF BioInv, CacheTypeOK
<1>9. CacheTypeOK'
  <2>1. /\ lru' \in Seq(Bufs) /\ Range(lru') = Bufs /\ Len(lru') = Cardinality(Bufs)
        /\ blockno' \in [Bufs -> DiskBlocks \cup {NoDiskBlock}]
        /\ refcnt' \in [Bufs -> 0..Cardinality(Clients)]
        /\ locker' \in [Bufs -> Clients \cup {NoProc}]
        /\ using' \in [Clients -> Bufs \cup {NoBuf}]
        /\ op' \in [Clients -> Ops \cup {"wrote"}]
    BY <1>1 DEF BioInv, CacheTypeOK
  <2>2. idequeue' \in Seq(Bufs) /\ unread' \in SUBSET Bufs
    BY <1>1, <1>3, <1>4 DEF BioInv, CacheTypeOK
  <2> QED BY <1>6, <1>7, <1>8, <2>1, <2>2 DEF CacheTypeOK
<1>10. Placed'
  <2>1. \A c \in Bufs : B_VALID'[c] => blockno'[c] # NoDiskBlock
    BY <1>1, <1>4, <1>5, <1>7 DEF BioInv, Placed, k
  <2>2. \A q \in Clients : IF at'[q] = "idle" THEN using'[q] = NoBuf
                           ELSE using'[q] \in Bufs /\ blockno'[using'[q]] # NoDiskBlock
    BY <1>1, <1>6 DEF BioInv, Placed
  <2> QED BY <1>1, <2>1, <2>2 DEF BioInv, Placed
<1>11. Counted'
  BY <1>1 DEF BioInv, Counted, Users
<1>12. Exclusive'
  BY <1>1, <1>6, SMTT(30) DEF BioInv, Exclusive, CacheTypeOK
<1>13. Coherent'
  <2>1. ASSUME NEW c \in Bufs \ {b}
        PROVE  /\ B_DIRTY'[c] => B_VALID'[c] /\ c \notin unread'
               /\ c \in unread' => B_VALID'[c]
               /\ InSync(c)' /\ c \notin unread' => data'[c] = disk'[blockno'[c]]
    <3>1. c \in unread' <=> c \in unread
      BY <1>1
    <3>2. blockno[c] # k
      BY <1>4, <1>5 DEF k, BioInv, Placed
    <3>3. B_VALID'[c] = B_VALID[c] /\ B_DIRTY'[c] = B_DIRTY[c] /\ data'[c] = data[c]
      BY <1>7, <1>8
    <3>4. /\ B_DIRTY[c] => B_VALID[c] /\ c \notin unread
          /\ c \in unread => B_VALID[c]
          /\ InSync(c) /\ c \notin unread => data[c] = disk[blockno[c]]
      BY DEF BioInv, Coherent
    <3>5. B_VALID[c] => disk'[blockno'[c]] = disk[blockno[c]]
      BY <1>1, <1>8, <3>2 DEF BioInv, CacheTypeOK, Placed
    <3> QED BY <3>1, <3>3, <3>4, <3>5 DEF InSync
  <2>2. ~failed => data'[b] = disk'[k]
    BY <1>8
  <2>3. failed => b \in unread'
    BY <1>1
  <2>4. ASSUME NEW q \in Clients, at'[q] = "use" PROVE B_VALID'[using'[q]]
    BY <1>1, <1>6, <1>7, <2>4 DEF BioInv, Coherent, Placed
  <2> QED BY <1>1, <1>7, <2>1, <2>2, <2>3, <2>4 DEF Coherent, InSync, k
<1>14. Queued'
  <2>1. ASSUME NEW c \in Range(idequeue')
        PROVE  /\ c \in Bufs \ {b} /\ ~InSync(c)'
               /\ \E q \in Clients : using'[q] = c /\ locker'[c] = q /\ at'[q] \in {"rwsleep", "rwcheck"}
    <3>1. c # b /\ c \in Range(idequeue)
      BY <1>1, <1>3, <2>1
    <3>2. /\ c \in Bufs /\ locker[c] \in Clients /\ using[locker[c]] = c
          /\ at[locker[c]] \in {"rwsleep", "rwcheck"} /\ ~InSync(c)
      BY <3>1, QueueMember
    <3> QED BY <1>1, <1>6, <1>7, <3>1, <3>2 DEF InSync
  <2>2. idequeue' # <<>> => cmd' = idestart(Head(idequeue))'
    <3> SUFFICES ASSUME idequeue' # <<>> PROVE cmd' = idestart(Head(idequeue))'
      OBVIOUS
    <3>1. cmd' = idestart(Head(rest)) /\ Head(rest) \in Range(idequeue')
      BY <1>1, <1>3 DEF StartNext
    <3>2. Head(rest) \in Bufs \ {b}
      BY <2>1, <3>1
    <3> QED BY <1>1, <1>7, <3>1, <3>2 DEF idestart
  <2>3. ASSUME NEW q \in Clients, at'[q] = "locksleep" PROVE locker'[using'[q]] # NoProc
    BY <1>1, <1>6, <2>3, Sleepers
  <2>4. ASSUME NEW q \in Clients, at'[q] = "rwsleep" PROVE using'[q] \in Range(idequeue')
    <3>1. at[q] = "rwsleep" /\ using[q] # b
      BY <1>6, <2>4
    <3> QED BY <1>1, <1>3, <3>1, Sleepers
  <2>5. RequestsOwned'
    BY <1>1, <1>3, <2>1, <2>2, <2>3, <2>4 DEF RequestsOwned
  <2>6. ASSUME NEW q \in Clients, at'[q] = "iderw" PROVE ~InSync(using[q])'
    <3>1. at[q] = "iderw" /\ using[q] \in Bufs /\ locker[using[q]] = q /\ ~InSync(using[q])
      BY <1>6, <2>6 DEF BioInv, Placed, Exclusive, Queued
    <3>2. using[q] # b
      BY <1>4, <3>1
    <3> QED BY <1>1, <1>7, <3>1, <3>2 DEF InSync
  <2>7. ASSUME NEW q \in Clients, at'[q] = "rwcheck", ~InSync(using[q])'
        PROVE  using'[q] \in Range(idequeue')
    <3>1. using[q] # b
      BY <1>1, <1>7, <2>7 DEF InSync
    <3>2. at[q] = "rwcheck" /\ using[q] \in Bufs
      BY <1>6, <2>7, <3>1 DEF BioInv, Placed
    <3>3. ~InSync(using[q])
      BY <1>1, <1>7, <2>7, <3>1, <3>2 DEF InSync
    <3> QED BY <1>1, <1>3, <3>1, <3>2, <3>3 DEF BioInv, Queued
  <2> QED BY <2>1, <2>5, <2>6, <2>7 DEF Queued
<1> QED BY <1>9, <1>10, <1>11, <1>12, <1>13, <1>14 DEF BioInv

\* A writer changes the buffer it has locked and marks it dirty.
LEMMA UseWriteInv ==
  ASSUME BioInv, NEW p \in Clients, NEW v \in Contents, UseWrite(p, v)
  PROVE  BioInv'
<1> DEFINE b == using[p]
<1>1. /\ at[p] = "use" /\ op[p] \in {"write", "pin"}
      /\ data' = [data EXCEPT ![b] = v] /\ B_DIRTY' = [B_DIRTY EXCEPT ![b] = TRUE]
      /\ unread' = unread \ {b}
      /\ at' = [at EXCEPT ![p] = IF op[p] = "write" THEN "iderw" ELSE "release"]
      /\ op' = [op EXCEPT ![p] = IF op[p] = "write" THEN "wrote" ELSE op[p]]
      /\ UNCHANGED <<lru, blockno, refcnt, B_VALID, locker, idequeue, cmd, disk, using>>
  BY DEF UseWrite, bcache
<1>2. b \in Bufs /\ locker[b] = p /\ B_VALID[b]
  BY <1>1 DEF BioInv, Placed, Exclusive, Coherent
<1>3. /\ at'[p] \in {"iderw", "release"} /\ \A q \in Clients \ {p} : at'[q] = at[q]
      /\ at' \in [Clients -> Holders \cup {"idle", "lock", "locksleep", "unref"}]
      /\ op' \in [Clients -> Ops \cup {"wrote"}]
  BY <1>1 DEF BioInv, CacheTypeOK
<1>4. /\ data' \in [Bufs -> Contents] /\ B_DIRTY' \in [Bufs -> BOOLEAN] /\ B_DIRTY'[b]
      /\ \A c \in Bufs \ {b} : data'[c] = data[c] /\ B_DIRTY'[c] = B_DIRTY[c]
  BY <1>1, <1>2 DEF BioInv, CacheTypeOK
<1>5. b \notin Range(idequeue)
  BY <1>1, <1>2, QueueMember
<1>6. CacheTypeOK'
  <2>1. unread' \in SUBSET Bufs
    BY <1>1 DEF BioInv, CacheTypeOK
  <2>2. /\ lru' \in Seq(Bufs) /\ Range(lru') = Bufs /\ Len(lru') = Cardinality(Bufs)
        /\ blockno' \in [Bufs -> DiskBlocks \cup {NoDiskBlock}]
        /\ B_VALID' \in [Bufs -> BOOLEAN] /\ refcnt' \in [Bufs -> 0..Cardinality(Clients)]
        /\ disk' \in [DiskBlocks -> Contents] /\ locker' \in [Bufs -> Clients \cup {NoProc}]
        /\ idequeue' \in Seq(Bufs) /\ using' \in [Clients -> Bufs \cup {NoBuf}]
    BY <1>1 DEF BioInv, CacheTypeOK
  <2> QED BY <1>3, <1>4, <2>1, <2>2 DEF CacheTypeOK
<1>7. Placed'
  BY <1>1, <1>3, SMTT(30) DEF BioInv, Placed
<1>8. Counted'
  BY <1>1 DEF BioInv, Counted, Users
<1>9. Exclusive'
  BY <1>1, <1>3, SMTT(30) DEF BioInv, Exclusive, CacheTypeOK
<1>10. Coherent'
  <2>1. ASSUME NEW c \in Bufs
        PROVE  /\ B_DIRTY'[c] => B_VALID'[c] /\ c \notin unread'
               /\ c \in unread' => B_VALID'[c]
               /\ InSync(c)' /\ c \notin unread' => data'[c] = disk'[blockno'[c]]
    <3>1. CASE c = b
      BY <1>1, <1>2, <1>4, <3>1 DEF InSync
    <3>2. CASE c # b
      BY <1>1, <1>4, <3>2 DEF BioInv, Coherent, InSync
    <3> QED BY <3>1, <3>2
  <2>2. ASSUME NEW q \in Clients, at'[q] = "use" PROVE B_VALID'[using'[q]]
    BY <1>1, <1>3, <2>2 DEF BioInv, Coherent
  <2> QED BY <2>1, <2>2 DEF Coherent
<1>11. Queued'
  <2>1. ASSUME NEW c \in Range(idequeue')
        PROVE  /\ c \in Bufs \ {b} /\ ~InSync(c)'
               /\ \E q \in Clients : using'[q] = c /\ locker'[c] = q /\ at'[q] \in {"rwsleep", "rwcheck"}
    <3>1. /\ c \in Bufs \ {b} /\ locker[c] \in Clients /\ using[locker[c]] = c
          /\ at[locker[c]] \in {"rwsleep", "rwcheck"} /\ ~InSync(c)
      BY <1>1, <1>5, <2>1, QueueMember
    <3> QED BY <1>1, <1>3, <1>4, <3>1, SMTT(30) DEF InSync
  <2>2. idequeue' # <<>> => cmd' = idestart(Head(idequeue))'
    <3> SUFFICES ASSUME idequeue # <<>> PROVE cmd' = idestart(Head(idequeue))'
      BY <1>1
    <3>1. Head(idequeue) \in Range(idequeue)
      BY QueueTail DEF BioInv, CacheTypeOK, Queued, RequestsOwned
    <3>2. Head(idequeue) \in Bufs \ {b}
      BY <1>1, <2>1, <3>1
    <3>3. cmd' = idestart(Head(idequeue))
      BY <1>1 DEF BioInv, Queued, RequestsOwned
    <3>4. B_DIRTY'[Head(idequeue)] = B_DIRTY[Head(idequeue)]
      BY <1>4, <3>2
    <3> QED BY <1>1, <3>3, <3>4 DEF idestart
  <2>3. RequestsOwned'
    <3>1. \A q \in Clients :
            /\ at'[q] = "locksleep" => locker'[using'[q]] # NoProc
            /\ at'[q] = "rwsleep" => using'[q] \in Range(idequeue')
      BY <1>1, <1>3, Sleepers
    <3>2. IsInjective(idequeue')
      BY <1>1 DEF BioInv, Queued, RequestsOwned
    <3> QED BY <2>1, <2>2, <3>1, <3>2 DEF RequestsOwned
  <2>4. ASSUME NEW q \in Clients \ {p}, at[q] \in Holders
        PROVE  using[q] \in Bufs \ {b} /\ InSync(using[q])' = InSync(using[q])
    <3>1. using[q] \in Bufs \ {b}
      BY <1>2, <2>4 DEF BioInv, Placed, Exclusive
    <3> QED BY <1>1, <1>4, <3>1 DEF InSync
  <2>5. ASSUME NEW q \in Clients
        PROVE  /\ at'[q] = "iderw" => ~InSync(using[q])'
               /\ at'[q] = "rwcheck" /\ ~InSync(using[q])' => using'[q] \in Range(idequeue')
    <3>1. CASE q = p
      BY <1>1, <1>3, <1>4, <3>1 DEF InSync
    <3>2. CASE q # p
      BY <1>1, <1>3, <2>4, <3>2 DEF BioInv, Queued
    <3> QED BY <3>1, <3>2
  <2> QED BY <2>1, <2>3, <2>5 DEF Queued
<1> QED BY <1>6, <1>7, <1>8, <1>9, <1>10, <1>11 DEF BioInv

\* The end of brelse drops a reference and moves an unused buffer to the head.
LEMMA UnrefInv ==
  ASSUME BioInv, NEW p \in Clients, Unref(p)
  PROVE  BioInv'
<1> DEFINE b == using[p]
<1>1. /\ at[p] = "unref" /\ refcnt' = [refcnt EXCEPT ![b] = refcnt[b] - 1]
      /\ lru' = IF refcnt[b] = 1 THEN MostRecent(b) ELSE lru
      /\ at' = [at EXCEPT ![p] = "idle"] /\ op' = [op EXCEPT ![p] = "read"]
      /\ using' = [using EXCEPT ![p] = NoBuf]
      /\ UNCHANGED <<blockno, B_VALID, B_DIRTY, data, locker, idequeue, cmd, disk, unread>>
  BY DEF Unref, device
<1>2. b \in Bufs
  BY <1>1 DEF BioInv, Placed
<1>3. /\ at'[p] = "idle" /\ using'[p] = NoBuf
      /\ \A q \in Clients \ {p} : at'[q] = at[q] /\ using'[q] = using[q]
      /\ at' \in [Clients -> Holders \cup {"idle", "lock", "locksleep", "unref"}]
      /\ using' \in [Clients -> Bufs \cup {NoBuf}]
      /\ op' \in [Clients -> Ops \cup {"wrote"}]
  BY <1>1 DEF BioInv, CacheTypeOK
<1>4. Counted'
  BY <1>1, <1>2, LeaveCounted DEF BioInv
<1>5. CacheTypeOK'
  <2>1. refcnt' \in [Bufs -> Int]
    <3>1. refcnt \in [Bufs -> Int]
      BY BioAssumption, FS_CardinalityType, SMTT(30) DEF BioInv, CacheTypeOK
    <3> QED BY <1>1, <1>2, <3>1, SMTT(30)
  <2>2. refcnt' \in [Bufs -> 0..Cardinality(Clients)]
    BY <1>4, <2>1, CountedBounded
  <2>3. lru' \in Seq(Bufs) /\ Range(lru') = Bufs /\ Len(lru') = Cardinality(Bufs)
    BY <1>1, <1>2, ListKeepsBufs DEF BioInv, CacheTypeOK
  <2> QED BY <1>1, <1>3, <2>2, <2>3 DEF BioInv, CacheTypeOK
<1>6. Placed'
  <2>1. \A q \in Clients : IF at'[q] = "idle" THEN using'[q] = NoBuf
                           ELSE using'[q] \in Bufs /\ blockno'[using'[q]] # NoDiskBlock
    BY <1>1, <1>3 DEF BioInv, Placed
  <2> QED BY <1>1, <2>1 DEF BioInv, Placed
<1>7. Exclusive'
  BY <1>1, <1>3, SMTT(30) DEF BioInv, Exclusive, CacheTypeOK
<1>8. Coherent'
  BY <1>1, <1>3 DEF BioInv, Coherent, InSync
<1>9. Queued'
  <2>1. ASSUME NEW c \in Range(idequeue')
        PROVE  \E q \in Clients : using'[q] = c /\ locker'[c] = q /\ at'[q] \in {"rwsleep", "rwcheck"}
    <3>1. locker[c] \in Clients /\ using[locker[c]] = c /\ at[locker[c]] \in {"rwsleep", "rwcheck"}
      BY <1>1, <2>1, QueueMember
    <3> QED BY <1>1, <1>3, <3>1
  <2>2. \A q \in Clients :
          /\ at'[q] = "locksleep" => locker'[using'[q]] # NoProc
          /\ at'[q] = "rwsleep" => using'[q] \in Range(idequeue')
    BY <1>1, <1>3, Sleepers
  <2>3. IsInjective(idequeue') /\ (idequeue' # <<>> => cmd' = idestart(Head(idequeue))')
    BY <1>1 DEF BioInv, Queued, RequestsOwned, idestart
  <2>4. RequestsOwned'
    BY <2>1, <2>2, <2>3 DEF RequestsOwned
  <2> QED BY <1>1, <1>3, <2>4 DEF BioInv, Queued, InSync
<1> QED BY <1>4, <1>5, <1>6, <1>7, <1>8, <1>9 DEF BioInv

\* The two outcomes of bget: a buffer with one more reference, which has the
\* block already or was recycled for it.
Hit(b, k) == blockno[b] = k /\ UNCHANGED <<blockno, B_VALID, unread>>
Miss(b, k) ==
  /\ \A c \in Bufs : blockno[c] # k
  /\ Recyclable(b)
  /\ blockno' = [blockno EXCEPT ![b] = k]
  /\ B_VALID' = [B_VALID EXCEPT ![b] = FALSE]
  /\ unread' = unread \ {b}

\* What bget does, whichever buffer it finds.
LEMMA BgetOutcome ==
  ASSUME BioInv, NEW p \in Clients, NEW k \in DiskBlocks, BgetHit(p, k) \/ BgetMiss(p, k)
  PROVE  /\ at[p] = "idle" /\ lru' = lru
         /\ \E b \in Bufs : /\ using' = [using EXCEPT ![p] = b]
                            /\ refcnt' = [refcnt EXCEPT ![b] = refcnt[b] + 1]
                            /\ Hit(b, k) \/ Miss(b, k)
<1>1. CASE BgetHit(p, k)
  BY <1>1 DEF BgetHit, Ref, Hit
<1>2. CASE BgetMiss(p, k)
  <2>1. PICK i \in DOMAIN lru :
          /\ Recyclable(lru[i])
          /\ blockno' = [blockno EXCEPT ![lru[i]] = k]
          /\ B_VALID' = [B_VALID EXCEPT ![lru[i]] = FALSE]
          /\ refcnt' = [refcnt EXCEPT ![lru[i]] = 1]
          /\ unread' = unread \ {lru[i]}
          /\ using' = [using EXCEPT ![p] = lru[i]]
    BY <1>2 DEF BgetMiss
  <2>2. lru[i] \in Bufs
    BY SMTT(30) DEF BioInv, CacheTypeOK
  <2>3. refcnt[lru[i]] + 1 = 1
    BY <2>1, SMTT(30) DEF Recyclable
  <2> QED BY <1>2, <2>1, <2>2, <2>3 DEF BgetMiss, Miss
<1> QED BY <1>1, <1>2

\* bread up to the lock: the client gets a buffer of the block.
LEMMA BreadInv ==
  ASSUME BioInv, NEW p \in Clients, NEW k \in DiskBlocks, NEW o \in Ops, Bread(p, k, o)
  PROVE  BioInv'
<1>1. /\ at[p] = "idle" /\ lru' = lru
      /\ at' = [at EXCEPT ![p] = "lock"] /\ op' = [op EXCEPT ![p] = o]
      /\ UNCHANGED <<B_DIRTY, data, locker, idequeue, cmd, disk>>
  BY BgetOutcome DEF Bread
<1>2. PICK b \in Bufs : /\ using' = [using EXCEPT ![p] = b]
                        /\ refcnt' = [refcnt EXCEPT ![b] = refcnt[b] + 1]
                        /\ Hit(b, k) \/ Miss(b, k)
  BY BgetOutcome DEF Bread
<1>3. using[p] = NoBuf /\ NoDiskBlock \notin DiskBlocks
  BY <1>1, BioAssumption DEF BioInv, Placed
<1>4. /\ at'[p] = "lock" /\ using'[p] = b
      /\ \A q \in Clients \ {p} : at'[q] = at[q] /\ using'[q] = using[q]
      /\ at' \in [Clients -> Holders \cup {"idle", "lock", "locksleep", "unref"}]
      /\ using' \in [Clients -> Bufs \cup {NoBuf}]
      /\ op' \in [Clients -> Ops \cup {"wrote"}]
  BY <1>1, <1>2 DEF BioInv, CacheTypeOK
<1>5. Counted'
  BY <1>2, <1>3, EnterCounted DEF BioInv
<1>6. /\ blockno' \in [Bufs -> DiskBlocks \cup {NoDiskBlock}] /\ B_VALID' \in [Bufs -> BOOLEAN]
      /\ unread' \in SUBSET Bufs /\ blockno'[b] = k
      /\ \A c \in Bufs \ {b} : /\ blockno'[c] = blockno[c] /\ B_VALID'[c] = B_VALID[c]
                               /\ c \in unread' <=> c \in unread
  <2>1. CASE Hit(b, k)
    BY <2>1 DEF BioInv, CacheTypeOK, Hit
  <2>2. CASE Miss(b, k)
    <3>1. /\ blockno' \in [Bufs -> DiskBlocks \cup {NoDiskBlock}] /\ blockno'[b] = k
          /\ \A c \in Bufs \ {b} : blockno'[c] = blockno[c]
      BY <2>2 DEF BioInv, CacheTypeOK, Miss
    <3>2. B_VALID' \in [Bufs -> BOOLEAN] /\ \A c \in Bufs \ {b} : B_VALID'[c] = B_VALID[c]
      BY <2>2 DEF BioInv, CacheTypeOK, Miss
    <3>3. unread' \in SUBSET Bufs /\ \A c \in Bufs \ {b} : c \in unread' <=> c \in unread
      BY <2>2 DEF BioInv, CacheTypeOK, Miss
    <3> QED BY <3>1, <3>2, <3>3
  <2> QED BY <1>2, <2>1, <2>2
<1>7. ASSUME Miss(b, k)
      PROVE  /\ ~B_VALID'[b] /\ b \notin unread' /\ ~B_DIRTY[b]
             /\ \A q \in Clients : using[q] # b
             /\ locker[b] = NoProc /\ b \notin Range(idequeue)
  <2>1. ~B_VALID'[b] /\ b \notin unread' /\ refcnt[b] = 0 /\ ~B_DIRTY[b]
    BY <1>7 DEF Miss, Recyclable, BioInv, CacheTypeOK
  <2>2. \A q \in Clients : using[q] # b
    BY <2>1, UsedIsReferenced DEF BioInv
  <2>3. locker[b] = NoProc
    BY <2>2, HolderWorks
  <2> QED BY <2>1, <2>2, <2>3, QueueMember
<1>8. CacheTypeOK'
  <2>1. refcnt' \in [Bufs -> Int]
    <3>1. refcnt \in [Bufs -> Int]
      BY BioAssumption, FS_CardinalityType, SMTT(30) DEF BioInv, CacheTypeOK
    <3> QED BY <1>2, <3>1, SMTT(30)
  <2>2. refcnt' \in [Bufs -> 0..Cardinality(Clients)]
    BY <1>5, <2>1, CountedBounded
  <2> QED BY <1>1, <1>4, <1>6, <2>2 DEF BioInv, CacheTypeOK
<1>9. Placed'
  <2>1. ASSUME NEW c \in Bufs \ {b} PROVE blockno'[c] # k
    BY <1>2, <1>3, <1>6, SMTT(30) DEF BioInv, Placed, Hit, Miss
  <2>2. \A c, d \in Bufs : blockno'[c] = blockno'[d] /\ blockno'[c] # NoDiskBlock => c = d
    <3>1. \A c, d \in Bufs \ {b} :
            blockno'[c] = blockno'[d] /\ blockno'[c] # NoDiskBlock => c = d
      BY <1>6, SMTT(30) DEF BioInv, Placed
    <3> QED BY <1>6, <2>1, <3>1
  <2>3. \A c \in Bufs : B_VALID'[c] => blockno'[c] # NoDiskBlock
    BY <1>3, <1>6 DEF BioInv, Placed
  <2>4. ASSUME NEW q \in Clients \ {p}
        PROVE  IF at'[q] = "idle" THEN using'[q] = NoBuf
               ELSE using'[q] \in Bufs /\ blockno'[using'[q]] # NoDiskBlock
    <3>1. at'[q] = at[q] /\ using'[q] = using[q]
      BY <1>4
    <3>2. CASE at[q] = "idle"
      BY <3>1, <3>2 DEF BioInv, Placed
    <3>3. CASE at[q] # "idle"
      <4>1. using[q] \in Bufs /\ blockno[using[q]] # NoDiskBlock
        BY <3>3 DEF BioInv, Placed
      <4>2. blockno'[using[q]] # NoDiskBlock
        BY <1>3, <1>6, <4>1
      <4> QED BY <3>1, <3>3, <4>1, <4>2
    <3> QED BY <3>2, <3>3
  <2>5. /\ at'[p] # "idle" /\ using'[p] \in Bufs
        /\ blockno'[using'[p]] # NoDiskBlock
    BY <1>3, <1>4, <1>6
  <2>6. \A q \in Clients : IF at'[q] = "idle" THEN using'[q] = NoBuf
                           ELSE using'[q] \in Bufs /\ blockno'[using'[q]] # NoDiskBlock
    BY <2>4, <2>5
  <2> QED BY <2>2, <2>3, <2>6 DEF Placed
<1>10. Exclusive'
  BY <1>1, <1>4, SMTT(30) DEF BioInv, Exclusive, CacheTypeOK
<1>11. ASSUME NEW c \in Bufs, c = b => Hit(b, k)
       PROVE  blockno'[c] = blockno[c] /\ B_VALID'[c] = B_VALID[c] /\ (c \in unread' <=> c \in unread)
  BY <1>6, <1>11 DEF Hit
<1>12. Coherent'
  <2>1. ASSUME NEW c \in Bufs
        PROVE  /\ B_DIRTY'[c] => B_VALID'[c] /\ c \notin unread'
               /\ c \in unread' => B_VALID'[c]
               /\ InSync(c)' /\ c \notin unread' => data'[c] = disk'[blockno'[c]]
    <3>1. CASE c = b /\ Miss(b, k)
      BY <1>1, <1>7, <3>1 DEF InSync
    <3>2. CASE c = b => Hit(b, k)
      BY <1>1, <1>11, <3>2 DEF BioInv, Coherent, InSync
    <3> QED BY <1>2, <3>1, <3>2
  <2>2. ASSUME NEW q \in Clients, at'[q] = "use" PROVE B_VALID'[using'[q]]
    <3>1. q # p /\ at[q] = "use" /\ using'[q] = using[q] /\ using[q] \in Bufs /\ B_VALID[using[q]]
      BY <1>4, <2>2 DEF BioInv, Coherent, Placed
    <3> QED BY <1>2, <1>7, <1>11, <3>1
  <2> QED BY <2>1, <2>2 DEF Coherent
<1>13. Queued'
  <2>1. ASSUME NEW c \in Range(idequeue')
        PROVE  /\ c \in Bufs /\ (c = b => Hit(b, k)) /\ ~InSync(c)'
               /\ \E q \in Clients : using'[q] = c /\ locker'[c] = q /\ at'[q] \in {"rwsleep", "rwcheck"}
    <3>1. /\ c \in Bufs /\ locker[c] \in Clients /\ using[locker[c]] = c
          /\ at[locker[c]] \in {"rwsleep", "rwcheck"} /\ ~InSync(c)
      BY <1>1, <2>1, QueueMember
    <3>2. c = b => Hit(b, k)
      BY <1>1, <1>2, <1>7, <2>1
    <3> QED BY <1>1, <1>4, <1>11, <3>1, <3>2, SMTT(30) DEF InSync
  <2>2. idequeue' # <<>> => cmd' = idestart(Head(idequeue))'
    <3> SUFFICES ASSUME idequeue # <<>> PROVE cmd' = idestart(Head(idequeue))'
      BY <1>1
    <3>1. Head(idequeue) \in Range(idequeue)
      BY QueueTail DEF BioInv, CacheTypeOK, Queued, RequestsOwned
    <3>2. blockno'[Head(idequeue)] = blockno[Head(idequeue)]
      BY <1>1, <1>11, <2>1, <3>1
    <3> QED BY <1>1, <3>2 DEF idestart, BioInv, Queued, RequestsOwned
  <2>3. RequestsOwned'
    <3>1. \A q \in Clients :
            /\ at'[q] = "locksleep" => locker'[using'[q]] # NoProc
            /\ at'[q] = "rwsleep" => using'[q] \in Range(idequeue')
      BY <1>1, <1>4, Sleepers, SMTT(30)
    <3>2. IsInjective(idequeue')
      BY <1>1 DEF BioInv, Queued, RequestsOwned
    <3> QED BY <2>1, <2>2, <3>1, <3>2 DEF RequestsOwned
  <2>4. ASSUME NEW q \in Clients, at'[q] \in {"iderw", "rwcheck"}
        PROVE  at[q] = at'[q] /\ using'[q] = using[q] /\ InSync(using[q])' = InSync(using[q])
    <3>1. q # p /\ at[q] = at'[q] /\ using'[q] = using[q] /\ using[q] \in Bufs
      BY <1>4, <2>4 DEF BioInv, Placed
    <3>2. using[q] = b => Hit(b, k)
      BY <1>2, <1>7
    <3> QED BY <1>1, <1>11, <3>1, <3>2 DEF InSync
  <2> QED BY <1>1, <2>1, <2>3, <2>4 DEF BioInv, Queued
<1> QED BY <1>5, <1>8, <1>9, <1>10, <1>12, <1>13 DEF BioInv

\* binit.
LEMMA BioInitInv == BioInit => BioInv
<1> SUFFICES ASSUME BioInit PROVE BioInv
  OBVIOUS
<1> USE DEF BioInit
<1>1. Range(idequeue) = {}
  BY SMTT(30) DEF Range
<1>2. \A b \in Bufs : Users(b) = {}
  BY BioAssumption DEF Users
<1>3. Counted
  BY <1>2, FS_EmptySet DEF Counted
<1>4. CacheTypeOK
  <2>1. lru \in Seq(Bufs) /\ Range(lru) = Bufs /\ Len(lru) = Cardinality(Bufs)
    BY ListOfBufs
  <2>2. refcnt \in [Bufs -> 0..Cardinality(Clients)]
    BY BioAssumption, FS_CardinalityType, SMTT(30)
  <2> QED BY <2>1, <2>2, SMTT(30) DEF CacheTypeOK
<1>5. Placed /\ Exclusive /\ Coherent
  BY DEF Placed, Exclusive, Coherent, InSync
<1>6. IsInjective(idequeue)
  BY SMTT(30) DEF IsInjective
<1>7. Queued
  BY <1>1, <1>6 DEF Queued, RequestsOwned
<1> QED BY <1>3, <1>4, <1>5, <1>7 DEF BioInv

\* The invariant of the cache and the driver holds in every reachable state.
THEOREM CacheInvariant == BioSpec => []BioInv
<1>1. BioInv /\ [BioNext]_biovars => BioInv'
  <2> SUFFICES ASSUME BioInv, [BioNext]_biovars PROVE BioInv'
    OBVIOUS
  <2>1. ASSUME NEW p \in Clients, NEW k \in DiskBlocks, NEW o \in Ops, Bread(p, k, o)
        PROVE  BioInv'
    BY <2>1, BreadInv
  <2>2. ASSUME NEW p \in Clients, BioStep(p) PROVE BioInv'
    BY <2>2, AcquiresleepInv, IderwInv, IderwRecheckInv, UseWriteInv, ReleasesleepInv, UnrefInv
       DEF BioStep
  <2>3. ASSUME NEW p \in Clients, KillWakes(p) PROVE BioInv'
    BY <2>3, KillWakesInv
  <2>4. ASSUME NEW failed \in BOOLEAN, Ideintr(failed) PROVE BioInv'
    BY <2>4, IdeintrInv
  <2>5. CASE UNCHANGED biovars
    <3>1. CacheTypeOK' /\ Placed' /\ Counted'
      BY <2>5, SMTT(30) DEF biovars, BioInv, CacheTypeOK, Placed, Counted, Users
    <3>2. Exclusive' /\ Coherent'
      BY <2>5 DEF biovars, BioInv, Exclusive, Coherent, InSync
    <3>3. RequestsOwned'
      BY <2>5 DEF biovars, BioInv, Queued, RequestsOwned, idestart
    <3>4. Queued'
      BY <2>5, <3>3 DEF biovars, BioInv, Queued, InSync
    <3> QED BY <3>1, <3>2, <3>4 DEF BioInv
  <2> QED BY <2>1, <2>2, <2>3, <2>4, <2>5 DEF BioNext
<1> QED BY <1>1, BioInitInv, PTL DEF BioSpec

\* No request is lost, doubled or handed to the disk for somebody who does not
\* own the buffer, and nobody sleeps for an event that is not coming (iderw,
\* ideintr, acquiresleep, releasesleep), for any number of clients and buffers.
THEOREM RequestsAreOwned == BioSpec => []RequestsOwned
<1>1. BioInv => RequestsOwned
  BY DEF BioInv, Queued
<1> QED BY <1>1, CacheInvariant, PTL

\* The counts of references are exact, the list of buffers keeps all of them,
\* and bget finds none only when every buffer is pinned or in use (bget, brelse).
THEOREM BuffersAreAccounted == BioSpec => []BuffersAccounted
<1>1. BioInv => BuffersAccounted
  <2> SUFFICES ASSUME BioInv PROVE BuffersAccounted
    OBVIOUS
  <2>1. CacheTypeOK /\ \A b \in Bufs : refcnt[b] = Cardinality({p \in Clients : using[p] = b})
    BY DEF BioInv, Counted, Users
  <2>2. ASSUME \A b \in Bufs : ~Recyclable(b)
        PROVE  Cardinality(Pinned) + Cardinality({p \in Clients : at[p] # "idle"}) >= Cardinality(Bufs)
    <3> DEFINE A == {p \in Clients : at[p] # "idle"}
               T == {using[p] : p \in A}
               f == [p \in A |-> using[p]]
    <3>1. IsFiniteSet(A) /\ IsFiniteSet(Pinned)
      BY BioAssumption, FS_Subset DEF Pinned
    <3>2. f \in Surjection(A, T)
      BY DEF Surjection
    <3>3. IsFiniteSet(T) /\ Cardinality(T) <= Cardinality(A)
      BY <3>1, <3>2, FS_Surjection
    <3>4. ASSUME NEW b \in Bufs, b \notin Pinned PROVE b \in T
      <4>1. refcnt[b] # 0
        BY <2>2, <3>4 DEF Recyclable, Pinned, BioInv, CacheTypeOK
      <4>2. Users(b) # {}
        BY <4>1, FS_EmptySet DEF BioInv, Counted
      <4>3. PICK p \in Clients : using[p] = b
        BY <4>2 DEF Users
      <4>4. at[p] # "idle"
        BY <4>3, BioAssumption DEF BioInv, Placed
      <4> QED BY <4>3, <4>4
    <3> HIDE DEF T, A
    <3>5. Bufs \subseteq Pinned \cup T
      BY <3>4
    <3>6. /\ IsFiniteSet(Pinned \cup T)
          /\ Cardinality(Pinned \cup T) = Cardinality(Pinned) + Cardinality(T) - Cardinality(Pinned \cap T)
      BY <3>1, <3>3, FS_Union
    <3>7. Cardinality(Bufs) <= Cardinality(Pinned \cup T)
      BY <3>5, <3>6, FS_Subset
    <3>8. /\ Cardinality(Pinned) \in Nat /\ Cardinality(T) \in Nat /\ Cardinality(A) \in Nat
          /\ Cardinality(Pinned \cap T) \in Nat /\ Cardinality(Bufs) \in Nat
      BY <3>1, <3>3, BioAssumption, FS_CardinalityType, FS_Intersection
    <3> QED BY <3>3, <3>6, <3>7, <3>8, SMTT(30) DEF A
  <2> QED BY <2>1, <2>2 DEF BuffersAccounted
<1> QED BY <1>1, CacheInvariant, PTL

-----------------------------------------------------------------------------
\* What buffer b makes a client see of its block.
Seen(b) == IF B_VALID[b] /\ b \notin unread THEN data[b] ELSE disk[blockno[b]]

\* The store and the owners, from the buffers.
AsSeen ==
  /\ \A b \in Bufs : blockno[b] \in DiskBlocks =>
       View[blockno[b]] = Seen(b) /\ Owner[blockno[b]] = locker[b]
  /\ \A k \in DiskBlocks : (\A b \in Bufs : blockno[b] # k) =>
       View[k] = disk[k] /\ Owner[k] = NoProc

\* The refinement mapping, block by block: the buffer of a block decides, and
\* there is one at most.
LEMMA BlockSeen == BioInv => AsSeen
<1> SUFFICES ASSUME BioInv PROVE AsSeen
  OBVIOUS
<1>1. ASSUME NEW b \in Bufs, blockno[b] \in DiskBlocks
      PROVE  View[blockno[b]] = Seen(b) /\ Owner[blockno[b]] = locker[b]
  <2> DEFINE k == blockno[b]
             held == {c \in Bufs : blockno[c] = k /\ locker[c] # NoProc}
  <2>1. \A c \in Bufs : blockno[c] = k => c = b
    BY <1>1, BioAssumption DEF BioInv, Placed
  <2>2. Holding(k) = IF B_VALID[b] /\ b \notin unread THEN {b} ELSE {}
    BY <2>1 DEF Holding
  <2>3. held = IF locker[b] # NoProc THEN {b} ELSE {}
    BY <2>1
  <2>4. View[k] = IF Holding(k) = {} THEN disk[k] ELSE data[CHOOSE c \in Holding(k) : TRUE]
    BY <1>1 DEF View
  <2>5. Owner[k] = IF held = {} THEN NoProc ELSE locker[CHOOSE c \in held : TRUE]
    BY <1>1 DEF Owner
  <2>6. (CHOOSE c \in {b} : TRUE) = b
    OBVIOUS
  <2>7. View[k] = Seen(b)
    BY <2>2, <2>4, <2>6 DEF Seen
  <2>8. Owner[k] = locker[b]
    BY <2>3, <2>5, <2>6
  <2> QED BY <2>7, <2>8
<1>2. ASSUME NEW k \in DiskBlocks, \A b \in Bufs : blockno[b] # k
      PROVE  View[k] = disk[k] /\ Owner[k] = NoProc
  BY <1>2 DEF View, Owner, Holding
<1> QED BY <1>1, <1>2 DEF AsSeen

\* A block has one buffer at most.
LEMMA OneBuffer ==
  ASSUME BioInv, NEW b \in Bufs, NEW c \in Bufs, blockno[b] = blockno[c], blockno[b] \in DiskBlocks
  PROVE  b = c
BY BioAssumption DEF BioInv, Placed

\* A client works on a buffer of a block, which is valid and its own after iderw.
LEMMA InUse ==
  ASSUME BioInv, NEW p \in Clients, at[p] # "idle"
  PROVE  /\ using[p] \in Bufs /\ blockno[using[p]] \in DiskBlocks
         /\ at[p] \in Holders => locker[using[p]] = p
         /\ at[p] = "use" => B_VALID[using[p]]
<1>1. using[p] \in Bufs /\ blockno[using[p]] \in DiskBlocks
  BY SMTT(30) DEF BioInv, CacheTypeOK, Placed
<1> QED BY <1>1 DEF BioInv, Exclusive, Coherent

\* A step that keeps what every buffer shows, and the disk elsewhere, keeps the
\* store.
LEMMA SameStore ==
  ASSUME BioInv, BioInv', blockno' = blockno,
         \A b \in Bufs : blockno[b] \in DiskBlocks => Seen(b)' = Seen(b),
         \A k \in DiskBlocks : (\A b \in Bufs : blockno[b] # k) => disk'[k] = disk[k]
  PROVE  View' = View
<1>1. AsSeen /\ AsSeen'
  BY BlockSeen, PTL
<1>2. ASSUME NEW k \in DiskBlocks PROVE View'[k] = View[k]
  <2>1. CASE \E b \in Bufs : blockno[b] = k
    BY <1>1, <2>1, SMTT(30) DEF AsSeen
  <2>2. CASE \A b \in Bufs : blockno[b] # k
    BY <1>1, <2>2 DEF AsSeen
  <2> QED BY <2>1, <2>2
<1>3. View = [k \in DiskBlocks |-> View[k]] /\ View' = [k \in DiskBlocks |-> View'[k]]
  BY SMTT(30) DEF View
<1> QED BY <1>2, <1>3

\* A step that keeps the holders of the locks keeps the owners.
LEMMA SameOwners ==
  ASSUME BioInv, BioInv', blockno' = blockno, locker' = locker
  PROVE  Owner' = Owner
BY SMTT(30) DEF Owner

\* bget recycles a clean buffer that nobody holds, so that no block changes.
LEMMA BreadStutters ==
  ASSUME BioInv, BioInv', NEW p \in Clients, NEW k \in DiskBlocks, NEW o \in Ops, Bread(p, k, o)
  PROVE  View' = View /\ Owner' = Owner
<1>1. AsSeen /\ AsSeen'
  BY BlockSeen, PTL
<1>2. PICK b \in Bufs : /\ refcnt' = [refcnt EXCEPT ![b] = refcnt[b] + 1]
                        /\ Hit(b, k) \/ Miss(b, k)
  BY BgetOutcome DEF Bread
<1>3. UNCHANGED <<B_DIRTY, data, locker, disk>>
  BY DEF Bread
<1>4. CASE Hit(b, k)
  BY <1>3, <1>4, SameStore, SameOwners DEF Hit, Seen
<1>5. CASE Miss(b, k)
  <2>1. /\ \A c \in Bufs : blockno[c] # k
        /\ blockno'[b] = k /\ \A c \in Bufs \ {b} : blockno'[c] = blockno[c]
        /\ ~B_VALID'[b] /\ \A c \in Bufs \ {b} : B_VALID'[c] = B_VALID[c]
        /\ \A c \in Bufs \ {b} : c \in unread' <=> c \in unread
    BY <1>5 DEF Miss, BioInv, CacheTypeOK
  <2>2. refcnt[b] = 0 /\ ~B_DIRTY[b]
    BY <1>5 DEF Miss, Recyclable
  <2>3. locker[b] = NoProc
    BY <2>2, UsedIsReferenced, HolderWorks DEF BioInv
  <2>4. \A c \in Bufs \ {b} : Seen(c)' = Seen(c)
    BY <1>3, <2>1 DEF Seen
  <2>5. Seen(b)' = disk[k]
    BY <1>3, <2>1 DEF Seen
  <2>6. Seen(b) = disk[blockno[b]]
    BY <2>2 DEF Seen, BioInv, Coherent, InSync
  <2>7. ASSUME NEW j \in DiskBlocks PROVE View'[j] = View[j] /\ Owner'[j] = Owner[j]
    <3>1. CASE j = k
      BY <1>1, <1>3, <2>1, <2>3, <2>5, <3>1, SMTT(30) DEF AsSeen
    <3>2. CASE j # k /\ \E c \in Bufs \ {b} : blockno[c] = j
      BY <1>1, <1>3, <2>1, <2>4, <3>2, SMTT(30) DEF AsSeen
    <3>3. CASE j # k /\ blockno[b] = j
      <4>1. \A c \in Bufs : blockno'[c] # j
        BY <2>1, <3>3, OneBuffer
      <4>2. View'[j] = disk[j] /\ Owner'[j] = NoProc
        BY <1>1, <1>3, <4>1 DEF AsSeen
      <4> QED BY <1>1, <2>3, <2>6, <3>3, <4>2 DEF AsSeen
    <3>4. CASE j # k /\ \A c \in Bufs : blockno[c] # j
      <4>1. \A c \in Bufs : blockno'[c] # j
        BY <2>1, <3>4
      <4> QED BY <1>1, <1>3, <3>4, <4>1 DEF AsSeen
    <3> QED BY <3>1, <3>2, <3>3, <3>4
  <2>8. View = [j \in DiskBlocks |-> View[j]] /\ View' = [j \in DiskBlocks |-> View'[j]]
    BY SMTT(30) DEF View
  <2>9. Owner = [j \in DiskBlocks |-> Owner[j]] /\ Owner' = [j \in DiskBlocks |-> Owner'[j]]
    BY SMTT(30) DEF Owner
  <2> QED BY <2>7, <2>8, <2>9
<1> QED BY <1>2, <1>4, <1>5

\* ideintr fills a buffer with what its block holds, or writes to the disk what
\* clients see already.
LEMMA IdeintrStutters ==
  ASSUME BioInv, BioInv', NEW failed \in BOOLEAN, Ideintr(failed)
  PROVE  View' = View /\ Owner' = Owner
<1> DEFINE b == Head(idequeue)
           k == blockno[b]
<1>1. /\ idequeue # <<>> /\ (failed => ~B_DIRTY[b])
      /\ disk' = IF cmd.write THEN [disk EXCEPT ![cmd.block] = data[b]] ELSE disk
      /\ data' = IF B_DIRTY[b] \/ failed THEN data ELSE [data EXCEPT ![b] = disk[cmd.block]]
      /\ unread' = IF failed THEN unread \cup {b} ELSE unread
      /\ B_VALID' = [B_VALID EXCEPT ![b] = TRUE]
      /\ UNCHANGED <<blockno, locker>>
  BY DEF Ideintr, bcache
<1>2. cmd.write = B_DIRTY[b] /\ cmd.block = k
  <2>1. cmd = [write |-> B_DIRTY[b], block |-> k]
    BY <1>1 DEF BioInv, Queued, RequestsOwned, idestart
  <2> QED BY <2>1
<1>3. b \in Bufs /\ ~InSync(b)
  BY <1>1, QueueTail, QueueMember DEF BioInv, CacheTypeOK, Queued, RequestsOwned
<1>4. k \in DiskBlocks
  <2>1. b \in Range(idequeue)
    BY <1>1, QueueTail DEF BioInv, CacheTypeOK, Queued, RequestsOwned
  <2>2. PICK q \in Clients : using[q] = b /\ at[q] # "idle"
    BY <2>1, QueueMember
  <2> QED BY <2>2, InUse
<1> HIDE DEF b, k
<1>5. ASSUME NEW c \in Bufs \ {b}, blockno[c] \in DiskBlocks PROVE Seen(c)' = Seen(c)
  <2>1. blockno[c] # k
    BY <1>3, <1>5, OneBuffer DEF k
  <2>2. disk'[blockno[c]] = disk[blockno[c]] /\ data'[c] = data[c]
    BY <1>1, <1>2, <1>5, <2>1, SMTT(30) DEF BioInv, CacheTypeOK
  <2> QED BY <1>1, <2>2 DEF Seen, BioInv, CacheTypeOK
<1>6. ASSUME NEW c \in Bufs, c = b PROVE Seen(c)' = Seen(c)
  <2>1. B_VALID'[c] /\ blockno'[c] = k /\ blockno[c] = k /\ ~InSync(c)
    BY <1>1, <1>3, <1>6 DEF BioInv, CacheTypeOK, k
  <2>2. CASE B_DIRTY[c]
    <3>1. B_VALID[c] /\ c \notin unread /\ data' = data /\ unread' = unread
      BY <1>1, <1>6, <2>2 DEF BioInv, Coherent
    <3> QED BY <2>1, <3>1 DEF Seen
  <2>3. CASE ~B_DIRTY[c]
    <3>1. ~B_VALID[c] /\ c \notin unread
      BY <2>1, <2>3 DEF InSync, BioInv, Coherent
    <3>2. Seen(c) = disk[k] /\ disk' = disk
      BY <1>1, <1>2, <1>6, <2>1, <2>3, <3>1 DEF Seen
    <3>3. CASE failed
      <4>1. c \in unread'
        BY <1>1, <1>6, <3>3
      <4> QED BY <2>1, <3>2, <4>1 DEF Seen
    <3>4. CASE ~failed
      <4>1. unread' = unread /\ data'[c] = disk[k]
        BY <1>1, <1>2, <1>6, <2>3, <3>4 DEF BioInv, CacheTypeOK
      <4> QED BY <2>1, <3>1, <3>2, <4>1 DEF Seen
    <3> QED BY <3>3, <3>4
  <2> QED BY <2>2, <2>3
<1>7. ASSUME NEW j \in DiskBlocks, \A c \in Bufs : blockno[c] # j PROVE disk'[j] = disk[j]
  BY <1>1, <1>2, <1>3, <1>7 DEF k, BioInv, CacheTypeOK
<1> QED BY <1>1, <1>5, <1>6, <1>7, SameStore, SameOwners

\* Only the holder of a buffer changes what its block holds.
LEMMA UseWriteModifies ==
  ASSUME BioInv, BioInv', NEW p \in Clients, NEW v \in Contents, UseWrite(p, v)
  PROVE  BS!Modify(p, blockno[using[p]], v) /\ blockno[using[p]] \in DiskBlocks
<1>1. AsSeen /\ AsSeen'
  BY BlockSeen, PTL
<1>2. PICK b \in Bufs : b = using[p] /\ locker[b] = p /\ B_VALID[b] /\ blockno[b] \in DiskBlocks
  BY InUse DEF UseWrite
<1>3. /\ data' = [data EXCEPT ![b] = v] /\ unread' = unread \ {b}
      /\ UNCHANGED <<blockno, B_VALID, locker, disk>>
  BY <1>2 DEF UseWrite, bcache
<1>4. Seen(b)' = v /\ \A c \in Bufs \ {b} : Seen(c)' = Seen(c)
  BY <1>2, <1>3, SMTT(30) DEF Seen, BioInv, CacheTypeOK
<1>5. Owner' = Owner /\ Owner[blockno[b]] = p
  BY <1>1, <1>2, <1>3, SameOwners DEF AsSeen
<1>6. ASSUME NEW j \in DiskBlocks PROVE View'[j] = IF j = blockno[b] THEN v ELSE View[j]
  <2>1. CASE j = blockno[b]
    BY <1>1, <1>2, <1>3, <1>4, <2>1 DEF AsSeen
  <2>2. CASE \E c \in Bufs \ {b} : blockno[c] = j
    <3>1. j # blockno[b]
      BY <1>2, <2>2, OneBuffer
    <3> QED BY <1>1, <1>3, <1>4, <2>2, <3>1, SMTT(30) DEF AsSeen
  <2>3. CASE \A c \in Bufs : blockno[c] # j
    <3>1. View'[j] = disk[j] /\ View[j] = disk[j]
      BY <1>1, <1>3, <2>3 DEF AsSeen
    <3> QED BY <1>2, <2>3, <3>1
  <2> QED BY <1>2, <2>1, <2>2, <2>3
<1>7. View' = [View EXCEPT ![blockno[b]] = v]
  <2>1. View = [j \in DiskBlocks |-> View[j]]
    BY SMTT(30) DEF View
  <2>2. View' = [j \in DiskBlocks |-> View'[j]]
    BY SMTT(30) DEF View
  <2> QED BY <1>6, <2>1, <2>2
<1> QED BY <1>2, <1>5, <1>7 DEF BS!Modify

\* Taking and giving back the sleep-lock of a buffer is taking and giving back
\* its block.
LEMMA LockOwns ==
  ASSUME BioInv, BioInv', NEW p \in Clients, NEW b \in Bufs, blockno[b] \in DiskBlocks,
         UNCHANGED <<blockno, B_VALID, data, disk, unread>>, NEW q,
         locker' = [locker EXCEPT ![b] = q]
  PROVE  View' = View /\ Owner[blockno[b]] = locker[b] /\ Owner' = [Owner EXCEPT ![blockno[b]] = q]
<1>1. AsSeen /\ AsSeen'
  BY BlockSeen, PTL
<1>2. View' = View
  BY SameStore DEF Seen
<1>3. locker'[b] = q /\ \A c \in Bufs \ {b} : locker'[c] = locker[c]
  BY DEF BioInv, CacheTypeOK
<1>4. ASSUME NEW j \in DiskBlocks PROVE Owner'[j] = IF j = blockno[b] THEN q ELSE Owner[j]
  <2>1. CASE j = blockno[b]
    BY <1>1, <1>3, <2>1 DEF AsSeen
  <2>2. CASE \E c \in Bufs \ {b} : blockno[c] = j
    <3>1. j # blockno[b]
      BY <2>2, OneBuffer
    <3> QED BY <1>1, <1>3, <2>2, <3>1, SMTT(30) DEF AsSeen
  <2>3. CASE \A c \in Bufs : blockno[c] # j
    BY <1>1, <2>3 DEF AsSeen
  <2> QED BY <2>1, <2>2, <2>3
<1>5. Owner' = [Owner EXCEPT ![blockno[b]] = q]
  <2>1. /\ Owner = [j \in DiskBlocks |-> Owner[j]]
        /\ Owner' = [j \in DiskBlocks |-> Owner'[j]]
    BY SMTT(30) DEF Owner
  <2> QED BY <1>4, <2>1
<1> QED BY <1>1, <1>2, <1>5 DEF AsSeen

\* The cache over the disk implements BlockStore (bget, brelse, iderw, ideintr):
\* whatever is recycled, read, written back or woken, a block keeps the value
\* its last owner gave it, and has one owner at a time.
THEOREM CacheImplementsBlocks == BioSpec => BlocksAreRegisters
<1>1. BioInit => BS!StoreInit
  <2> SUFFICES ASSUME BioInit PROVE BS!StoreInit
    OBVIOUS
  <2>1. \A b \in Bufs : blockno[b] = NoDiskBlock
    BY DEF BioInit
  <2>2. \A k \in DiskBlocks : View[k] = disk[k] /\ Owner[k] = NoProc
    BY <2>1, BioInitInv, BlockSeen, BioAssumption DEF AsSeen
  <2>3. View \in [DiskBlocks -> Contents]
    BY <2>2 DEF View, BioInit
  <2>4. Owner = [k \in DiskBlocks |-> NoProc]
    BY <2>2 DEF Owner
  <2> QED BY <2>3, <2>4 DEF BS!StoreInit
<1>2. BioInv /\ BioInv' /\ [BioNext]_biovars => [BS!StoreNext]_(BS!storeVars)
  <2> SUFFICES ASSUME BioInv, BioInv', [BioNext]_biovars
               PROVE  BS!StoreNext \/ (View' = View /\ Owner' = Owner)
    BY DEF BS!storeVars
  <2>1. ASSUME NEW p \in Clients, NEW k \in DiskBlocks, NEW o \in Ops, Bread(p, k, o)
        PROVE  View' = View /\ Owner' = Owner
    BY <2>1, BreadStutters
  <2>2. ASSUME NEW p \in Clients, Acquiresleep(p)
        PROVE  BS!StoreNext \/ (View' = View /\ Owner' = Owner)
    <3>1. PICK b \in Bufs : b = using[p] /\ blockno[b] \in DiskBlocks
      BY <2>2, InUse DEF Acquiresleep
    <3>2. UNCHANGED <<blockno, B_VALID, data, disk, unread>>
      BY <2>2 DEF Acquiresleep, bcache, device
    <3>3. CASE locker' = locker
      BY <3>2, <3>3, SameStore, SameOwners DEF Seen
    <3>4. CASE locker[b] = NoProc /\ locker' = [locker EXCEPT ![b] = p]
      BY <3>1, <3>2, <3>4, LockOwns DEF BS!StoreNext, BS!Own
    <3> QED BY <2>2, <3>1, <3>3, <3>4 DEF Acquiresleep
  <2>3. ASSUME NEW p \in Clients, Releasesleep(p)
        PROVE  BS!StoreNext
    <3>1. PICK b \in Bufs : b = using[p] /\ blockno[b] \in DiskBlocks /\ locker[b] = p
      BY <2>3, InUse DEF Releasesleep
    <3>2. UNCHANGED <<blockno, B_VALID, data, disk, unread>> /\ locker' = [locker EXCEPT ![b] = NoProc]
      BY <2>3, <3>1 DEF Releasesleep, bcache, device
    <3> QED BY <3>1, <3>2, LockOwns DEF BS!StoreNext, BS!Disown
  <2>4. ASSUME NEW p \in Clients, NEW v \in Contents, UseWrite(p, v)
        PROVE  BS!StoreNext
    BY <2>4, UseWriteModifies DEF BS!StoreNext
  <2>5. ASSUME NEW failed \in BOOLEAN, Ideintr(failed)
        PROVE  View' = View /\ Owner' = Owner
    BY <2>5, IdeintrStutters
  <2>6. ASSUME UNCHANGED <<blockno, B_VALID, data, disk, unread, locker>>
        PROVE  View' = View /\ Owner' = Owner
    BY <2>6, SameStore, SameOwners DEF Seen
  <2>7. ASSUME NEW p \in Clients, Iderw(p) \/ IderwRecheck(p) \/ Unref(p) \/ KillWakes(p)
        PROVE  View' = View /\ Owner' = Owner
    BY <2>6, <2>7 DEF Iderw, IderwRecheck, Unref, KillWakes, bcache, device
  <2>8. CASE UNCHANGED biovars
    BY <2>6, <2>8 DEF biovars
  <2> QED BY <2>1, <2>2, <2>3, <2>4, <2>5, <2>7, <2>8 DEF BioNext, BioStep
<1> QED BY <1>1, <1>2, CacheInvariant, PTL DEF BioSpec, BlocksAreRegisters, BS!StoreSpec
=============================================================================
