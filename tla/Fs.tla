--------------------------------- MODULE Fs ---------------------------------
(***************************************************************************)
(* Inodes and directories (fs.c) under the system calls that name files    *)
(* (sysfile.c): open, mkdir, mknod, link, unlink, chdir and close.         *)
(*                                                                         *)
(* Processes interleave at the sleep-locks of inodes.  An action takes one *)
(* such lock and does the work up to the next one; a reference that is to  *)
(* be dropped with iput waits in "puts", whose entries are served, in      *)
(* order, before the call goes on.  Inode cache entries are named by the   *)
(* inode they hold (iget keeps one per inode), directory entries are a     *)
(* function from names, and the blocks of files belong to module Content.  *)
(***************************************************************************)
EXTENDS Naturals, Sequences, FiniteSets, FiniteSetsExt, SequencesExt, TLC

CONSTANTS
  Procs,
  NINODES,   \* inodes on the disk; 1 is the root directory
  Names,     \* the names in directories, besides "." and ".."
  Calls,     \* the system calls of a run: records with op, path and new
  MaxCalls,  \* how many calls begin in a behaviour
  NoProc

Inodes == 1..NINODES
Root == 1
Dots == {".", ".."}

ASSUME FsAssumption == NINODES >= 1 /\ NoProc \notin Procs /\ Names \cap Dots = {}

VARIABLES
  ino,          \* inode -> its dinode, its cache entry and its contents
  pr,           \* process -> registers; "lost" is not in the program
  outstanding,  \* log.outstanding
  begun         \* calls begun, up to MaxCalls

vars == <<ino, pr, outstanding, begun>>

NoCall == [op |-> "none", path |-> <<>>, new |-> <<>>]
Bare == [n \in Names |-> 0]

\* type and dnlink are on disk; nlink is the cached copy, correct when valid.
\* ent and parent are the contents of a directory ("." needs no state).
FreeInode == [type |-> "NONE", dnlink |-> 0, ent |-> Bare, parent |-> 0,
              ref |-> 0, valid |-> FALSE, nlink |-> 0, locker |-> NoProc]

\* mkfs has made the root; every process starts there with nothing open.
Init ==
  /\ ino = [i \in Inodes |-> IF i # Root THEN FreeInode
              ELSE [FreeInode EXCEPT !.type = "DIR", !.dnlink = 1, !.parent = Root,
                                     !.ref = Cardinality(Procs)]]
  /\ pr = [p \in Procs |-> [pc |-> "idle", call |-> NoCall, path |-> <<>>, ip |-> 0, dp |-> 0,
                            old |-> 0, puts |-> <<>>, put |-> "", fd |-> 0, cwd |-> Root,
                            lost |-> FALSE]]
  /\ outstanding = 0 /\ begun = 0

-----------------------------------------------------------------------------
(***************************************************************************)
(* Inodes: operators from a table t to the table after the operation.      *)
(***************************************************************************)

\* iget, idup: count the reference; a new entry is not valid yet.
Iget(t, i) == [t EXCEPT ![i].ref = @ + 1, ![i].valid = @ /\ t[i].ref > 0]

\* ilock (of a free lock): read the inode if the entry is not valid.
Ilock(t, i, p) ==
  [t EXCEPT ![i].locker = p, ![i].valid = TRUE,
            ![i].nlink = IF t[i].valid THEN t[i].nlink ELSE t[i].dnlink]

Iunlock(t, i) == [t EXCEPT ![i].locker = NoProc]

\* A change of nlink that stays in memory.
LinksUnwritten(t, i, n) == [t EXCEPT ![i].nlink = n]

\* ip->nlink = n and iupdate.
Links(t, i, n) == [t EXCEPT ![i].nlink = n, ![i].dnlink = n]

\* dirlookup and the writei of dirlink and unlink.
Lookup(t, d, n) ==
  CASE n = "." -> d [] n = ".." -> t[d].parent [] OTHER -> t[d].ent[n]
Entry(t, d, n, i) == [t EXCEPT ![d].ent[n] = i]

\* ialloc: the first inode the disk says is free.
FreeInodes == {i \in Inodes : ino[i].type = "NONE"}
Ialloc(t, i, type) ==
  Iget([t EXCEPT ![i].type = type, ![i].dnlink = 0, ![i].ent = Bare, ![i].parent = 0], i)

\* begin_op and end_op; the calls of module Log are not repeated here.
BeginOp == outstanding' = outstanding + 1 /\ begun < MaxCalls /\ begun' = begun + 1
EndOp == outstanding' = outstanding - 1 /\ UNCHANGED begun
InOp == UNCHANGED <<outstanding, begun>>

Go(p, r) == pr' = [pr EXCEPT ![p] = r @@ pr[p]]

\* The inode a process locks next, in the states where it does so.
Target(p) ==
  CASE pr[p].pc = "dir" -> pr[p].dp
    [] pr[p].pc = "undo" -> pr[p].old
    [] OTHER -> pr[p].ip
Locking(p) == pr[p].pc \in {"walk", "at", "dir", "found", "new", "victim", "undo"}

Ready(p, at) == pr[p].puts = <<>> /\ pr[p].pc = at

\* The panic of ilock: the entry is read from a disk inode that is free.
NoType(e) == ~e.valid /\ e.type = "NONE"

\* The panic of sys_unlink: the inode behind the entry has no link.
NoLink(e) == (IF e.valid THEN e.nlink ELSE e.dnlink) < 1

\* The lock is free, and ilock returns with it.
LockFree(p, at) == Ready(p, at) /\ ino[Target(p)].locker = NoProc
MayLock(p, at) == LockFree(p, at) /\ ~NoType(ino[Target(p)])

-----------------------------------------------------------------------------
(***************************************************************************)
(* iput.                                                                   *)
(***************************************************************************)

\* Freeing an inode that others still use.
IputUnlinked(e) == e.valid /\ e.nlink = 0

\* Nobody else refers to the inode and no directory does.
IputLast(e) == e.valid /\ e.nlink = 0 /\ e.ref = 1

\* With ip->lock held, read the count.
IputCheck(p) ==
  /\ pr[p].puts # <<>> /\ pr[p].put = ""
  /\ LET i == Head(pr[p].puts) IN
       /\ ino[i].locker = NoProc
       /\ IF IputLast(ino[i])
          THEN Go(p, [put |-> "trunc"]) /\ ino' = [ino EXCEPT ![i].locker = p]
          ELSE Go(p, [put |-> "unref"]) /\ UNCHANGED ino
  /\ InOp

\* itrunc and iupdate: the inode is free on the disk, and still locked.
IputTrunc(p) ==
  /\ pr[p].put = "trunc"
  /\ ino' = [ino EXCEPT ![Head(pr[p].puts)] =
               [@ EXCEPT !.type = "NONE", !.dnlink = 0, !.ent = Bare, !.parent = 0]]
  /\ Go(p, [put |-> "freed"])
  /\ InOp

\* Leaving the freed inode valid in the cache.
Forget(t, i) == Iunlock(t, i)

\* The entry no longer describes the inode.
Invalidate(t, i) == [Iunlock(t, i) EXCEPT ![i].valid = FALSE]

IputFreed(p) ==
  /\ pr[p].put = "freed"
  /\ ino' = Invalidate(ino, Head(pr[p].puts))
  /\ Go(p, [put |-> "unref"])
  /\ InOp

\* ip->ref--, after the lock was given up.
IputUnref(p) ==
  /\ pr[p].put = "unref"
  /\ ino' = [ino EXCEPT ![Head(pr[p].puts)].ref = @ - 1]
  /\ Go(p, [put |-> "", puts |-> Tail(pr[p].puts)])
  /\ InOp

-----------------------------------------------------------------------------
(***************************************************************************)
(* namex.                                                                  *)
(***************************************************************************)

\* A path starts at the root or at the current directory.
Start(p, pth) == IF Head(pth) = "/" THEN Root ELSE pr[p].cwd
Elements(pth) == IF Head(pth) = "/" THEN Tail(pth) ELSE pth

\* A system call begins: begin_op, then namex.
Begin(p, c) ==
  /\ Ready(p, "idle")
  /\ BeginOp
  /\ ino' = Iget(ino, Start(p, c.path))
  /\ Go(p, [pc |-> "walk", call |-> c, path |-> Elements(c.path), ip |-> Start(p, c.path)])

\* namei for open, chdir and the old name of link, nameiparent for the others.
WantsParent(p) ==
  pr[p].call.op \in {"creat", "mkdir", "mknod", "unlink"}
  \/ (pr[p].call.op = "link" /\ pr[p].old # 0)
WhenMissing(p) == IF pr[p].old # 0 THEN "undo" ELSE "done"

\* The path is used up.
WalkEnd(p) ==
  /\ Ready(p, "walk") /\ pr[p].path = <<>>
  /\ IF WantsParent(p)
     THEN Go(p, [pc |-> WhenMissing(p), ip |-> 0, puts |-> <<pr[p].ip>>])
     ELSE Go(p, [pc |-> "at"])
  /\ UNCHANGED ino /\ InOp

\* The directory has lost its name: its ".." no longer counts as a link.
Nameless(t, d) == d # Root /\ \A e \in Inodes : \A n \in Names : t[e].ent[n] # d

\* One turn of the loop: lock the directory, find the element, let go of it.
Walk(p) ==
  /\ pr[p].path # <<>> /\ MayLock(p, "walk")
  /\ LET d == pr[p].ip
         n == Head(pr[p].path)
         t == Iunlock(Ilock(ino, d, p), d)
         next == IF ino[d].type = "DIR" THEN Lookup(t, d, n) ELSE 0 IN
       \/ /\ ino[d].type = "DIR" /\ WantsParent(p) /\ Len(pr[p].path) = 1
          /\ ino' = t
          /\ Go(p, [pc |-> "dir", dp |-> d, ip |-> 0])
       \/ /\ ~(ino[d].type = "DIR" /\ WantsParent(p) /\ Len(pr[p].path) = 1)
          /\ ino' = IF next = 0 THEN t ELSE Iget(t, next)
          /\ Go(p, [ip |-> next, puts |-> <<d>>, path |-> Tail(pr[p].path),
                    lost |-> n = ".." /\ Nameless(t, d),
                    pc |-> IF next = 0 THEN WhenMissing(p) ELSE "walk"])
  /\ InOp

-----------------------------------------------------------------------------
(***************************************************************************)
(* The calls, once the path is resolved.                                   *)
(***************************************************************************)

\* iunlock where iunlockput is meant.
UnlockedOnly(p, i, fail) == [pc |-> fail, ip |-> 0]

\* iunlockput(ip), then fail.
Unlocked(p, i, fail) == [pc |-> fail, ip |-> 0, puts |-> <<i>>]

\* The end of sys_open with ip locked: the descriptor takes the reference, or
\* no descriptor is free.
OpenLocked(p, t, i) ==
  /\ ino' = Iunlock(t, i)
  /\ Go(p, IF pr[p].fd = 0 THEN [pc |-> "done", ip |-> 0, fd |-> i] ELSE Unlocked(p, i, "done"))

Open(p) ==
  /\ MayLock(p, "at") /\ pr[p].call.op \in {"open", "openw"}
  /\ LET i == pr[p].ip t == Ilock(ino, i, p) IN
       IF ino[i].type = "DIR" /\ pr[p].call.op = "openw"
       THEN ino' = Iunlock(t, i) /\ Go(p, Unlocked(p, i, "done"))
       ELSE OpenLocked(p, t, i)
  /\ InOp

\* sys_chdir: the reference becomes the current directory, the old one is put.
Chdir(p) ==
  /\ MayLock(p, "at") /\ pr[p].call.op = "chdir"
  /\ LET i == pr[p].ip IN
       /\ ino' = Iunlock(Ilock(ino, i, p), i)
       /\ IF ino[i].type # "DIR" THEN Go(p, Unlocked(p, i, "done"))
          ELSE Go(p, [pc |-> "done", ip |-> 0, cwd |-> i, puts |-> <<pr[p].cwd>>])
  /\ InOp

\* sys_link counts the link before it makes it, and looks for its directory.
Link(p) ==
  /\ MayLock(p, "at") /\ pr[p].call.op = "link"
  /\ LET i == pr[p].ip
         t == Ilock(ino, i, p)
         start == Start(p, pr[p].call.new) IN
       IF ino[i].type = "DIR"
       THEN ino' = Iunlock(t, i) /\ Go(p, Unlocked(p, i, "done"))
       ELSE /\ ino' = Iget(Iunlock(Links(t, i, t[i].nlink + 1), i), start)
            /\ Go(p, [pc |-> "walk", old |-> i, ip |-> start, path |-> Elements(pr[p].call.new),
                      lost |-> FALSE])
  /\ InOp

\* dirlink in sys_link.  The entry it finds is put with dp still locked.
LinkDir(p) ==
  /\ MayLock(p, "dir") /\ pr[p].call.op = "link"
  /\ LET d == pr[p].dp n == Head(pr[p].path) t == Ilock(ino, d, p) e == Lookup(t, d, n) IN
       IF e # 0
       THEN ino' = Iget(t, e) /\ Go(p, [pc |-> "undo1", puts |-> <<e>>])
       ELSE /\ ino' = Iunlock(Entry(t, d, n, pr[p].old), d)
            /\ Go(p, [pc |-> "done", dp |-> 0, old |-> 0, puts |-> <<d, pr[p].old>>])
  /\ InOp

LinkBad(p) ==
  /\ Ready(p, "undo1")
  /\ ino' = Iunlock(ino, pr[p].dp)
  /\ Go(p, [pc |-> "undo", dp |-> 0, puts |-> <<pr[p].dp>>])
  /\ InOp

\* bad: take the count back.
LinkUndo(p) ==
  /\ MayLock(p, "undo")
  /\ LET i == pr[p].old t == Ilock(ino, i, p) IN
       /\ ino' = Iunlock(Links(t, i, t[i].nlink - 1), i)
       /\ Go(p, [pc |-> "done", old |-> 0, puts |-> <<i>>])
  /\ InOp

CreateType(p) ==
  CASE pr[p].call.op = "mkdir" -> "DIR" [] pr[p].call.op = "mknod" -> "DEV" [] OTHER -> "FILE"

\* create: the name exists, or a new inode is allocated with dp locked.
Create(p) ==
  /\ MayLock(p, "dir") /\ pr[p].call.op \in {"creat", "mkdir", "mknod"}
  /\ LET d == pr[p].dp t == Ilock(ino, d, p) e == Lookup(t, d, Head(pr[p].path)) IN
       \/ /\ e # 0
          /\ ino' = Iget(Iunlock(t, d), e)
          /\ Go(p, [pc |-> "found", dp |-> 0, ip |-> e, puts |-> <<d>>])
       \/ /\ e = 0 /\ FreeInodes # {}
          /\ LET i == Min(FreeInodes) IN
               ino' = Ialloc(t, i, CreateType(p)) /\ Go(p, [pc |-> "new", ip |-> i])
  /\ InOp

\* create of a name that exists succeeds for a file, as an open.
CreateFound(p) ==
  /\ MayLock(p, "found")
  /\ LET i == pr[p].ip t == Ilock(ino, i, p) IN
       IF pr[p].call.op = "creat" /\ ino[i].type = "FILE"
       THEN OpenLocked(p, t, i)
       ELSE ino' = Iunlock(t, i) /\ Go(p, Unlocked(p, i, "done"))
  /\ InOp

\* "." and ".." of a new directory; ".." is a link to its parent.
DotDot(t, d, i) == [Links(t, d, t[d].nlink + 1) EXCEPT ![i].parent = d]

\* create: the new inode is complete before its name appears.
CreateNew(p) ==
  /\ MayLock(p, "new")
  /\ LET i == pr[p].ip d == pr[p].dp
         t == Links(Ilock(ino, i, p), i, 1)
         u == IF CreateType(p) = "DIR" THEN DotDot(t, d, i) ELSE t IN
       ino' = Iunlock(Entry(u, d, Head(pr[p].path), i), d)
  /\ Go(p, [pc |-> "made", dp |-> 0, puts |-> <<pr[p].dp>>])
  /\ InOp

Made(p) ==
  /\ Ready(p, "made")
  /\ IF pr[p].call.op = "creat" THEN OpenLocked(p, ino, pr[p].ip)
     ELSE ino' = Iunlock(ino, pr[p].ip) /\ Go(p, Unlocked(p, pr[p].ip, "done"))
  /\ InOp

\* sys_unlink, up to the lock of the victim.
Unlink(p) ==
  /\ MayLock(p, "dir") /\ pr[p].call.op = "unlink"
  /\ LET d == pr[p].dp n == Head(pr[p].path) t == Ilock(ino, d, p)
         e == IF n \in Dots THEN 0 ELSE Lookup(t, d, n) IN
       IF e = 0
       THEN ino' = Iunlock(t, d) /\ Go(p, [pc |-> "done", dp |-> 0, puts |-> <<d>>])
       ELSE ino' = Iget(t, e) /\ Go(p, [pc |-> "victim", ip |-> e])
  /\ InOp

isdirempty(t, i) == t[i].ent = Bare

\* With both locks: remove the entry, and the link ".." was.
UnlinkVictim(p) ==
  /\ MayLock(p, "victim") /\ ~NoLink(ino[pr[p].ip])
  /\ LET i == pr[p].ip d == pr[p].dp t == Ilock(ino, i, p)
         u == Entry(t, d, Head(pr[p].path), 0) IN
       \/ /\ t[i].type = "DIR" /\ ~isdirempty(t, i)
          /\ ino' = Iunlock(t, i)
          /\ Go(p, Unlocked(p, i, "bad"))
       \/ /\ ~(t[i].type = "DIR" /\ ~isdirempty(t, i))
          /\ ino' = Iunlock(IF t[i].type = "DIR" THEN Links(u, d, u[d].nlink - 1) ELSE u, d)
          /\ Go(p, [pc |-> "cut", dp |-> 0, puts |-> <<d>>])
  /\ InOp

\* bad: dp is unlocked when the victim has been put.
UnlinkBad(p) ==
  /\ Ready(p, "bad")
  /\ ino' = Iunlock(ino, pr[p].dp)
  /\ Go(p, [pc |-> "done", dp |-> 0, puts |-> <<pr[p].dp>>])
  /\ InOp

UnlinkCut(p) ==
  /\ Ready(p, "cut")
  /\ LET i == pr[p].ip IN
       /\ ino' = Iunlock(Links(ino, i, ino[i].nlink - 1), i)
       /\ Go(p, Unlocked(p, i, "done"))
  /\ InOp

\* sys_close of the last descriptor of a file: fileclose puts the inode.
Close(p) ==
  /\ Ready(p, "idle") /\ pr[p].fd # 0
  /\ BeginOp
  /\ Go(p, [pc |-> "done", fd |-> 0, puts |-> <<pr[p].fd>>])
  /\ UNCHANGED ino

\* end_op.
Done(p) ==
  /\ Ready(p, "done")
  /\ EndOp
  /\ Go(p, [pc |-> "idle", call |-> NoCall, path |-> <<>>, lost |-> FALSE])
  /\ UNCHANGED ino

\* create with no inode left.
NoInodes(p) ==
  /\ pr[p].pc = "dir" /\ pr[p].call.op \in {"creat", "mkdir", "mknod"}
  /\ Lookup(ino, pr[p].dp, Head(pr[p].path)) = 0 /\ FreeInodes = {}

\* panic: the processor stops, with the lock held.  Others go on until they
\* print.
Panic(p) ==
  /\ Locking(p) /\ LockFree(p, pr[p].pc)
  /\ LET i == Target(p) IN
       /\ NoType(ino[i]) \/ (pr[p].pc = "victim" /\ NoLink(ino[i])) \/ NoInodes(p)
       /\ ino' = Ilock(ino, i, p)
  /\ Go(p, [pc |-> "panic"])
  /\ InOp

Step(p) ==
  \/ IputCheck(p) \/ IputTrunc(p) \/ IputFreed(p) \/ IputUnref(p)
  \/ WalkEnd(p) \/ Walk(p) \/ Open(p) \/ Chdir(p) \/ Link(p) \/ LinkDir(p) \/ LinkBad(p)
  \/ LinkUndo(p) \/ Create(p) \/ CreateFound(p) \/ CreateNew(p) \/ Made(p) \/ Unlink(p)
  \/ UnlinkVictim(p) \/ UnlinkBad(p) \/ UnlinkCut(p) \/ Close(p) \/ Done(p) \/ Panic(p)

Next == \E p \in Procs : Step(p) \/ \E c \in Calls : Begin(p, c)

Spec == Init /\ [][Next]_vars

-----------------------------------------------------------------------------
TypeOK ==
  /\ ino \in [Inodes -> [type : {"NONE", "FILE", "DIR", "DEV"}, dnlink : Nat, nlink : Nat,
                          ent : [Names -> Inodes \cup {0}], parent : Inodes \cup {0},
                          ref : Nat, valid : BOOLEAN, locker : Procs \cup {NoProc}]]
  /\ outstanding \in 0..Cardinality(Procs)

\* The references a process has to inode i.
Holds(p, i) ==
  Cardinality({r \in {"ip", "dp", "old", "fd", "cwd"} : pr[p][r] = i})
  + Cardinality({k \in DOMAIN pr[p].puts : pr[p].puts[k] = i})

\* ip->ref is the number of pointers to the entry, through every error path of
\* every call: no inode is freed under a user, none stays cached for ever.
RefsExact ==
  /\ TypeOK
  /\ \A i \in Inodes : ino[i].ref = MapThenSumSet(LAMBDA p : Holds(p, i), Procs)

\* ilock does not find the inode freed ("ilock: no type") and sys_unlink finds
\* a link ("unlink: nlink < 1"): the inode whose number a process read from a
\* directory it has unlocked since is still there when it locks it.  The one
\* exception is the step ".." out of a directory that has lost its name, by a
\* process inside it: there the parent may be gone, and the kernel panics.
ReachedInodesExist ==
  \A p \in Procs : Locking(p) /\ LockFree(p, pr[p].pc) =>
    LET e == ino[Target(p)] IN
      /\ NoType(e) => pr[p].lost /\ pr[p].pc \in {"walk", "at", "dir"}
      /\ pr[p].pc = "victim" => ~NoLink(e)

\* The names of i, and the directories named in i, whose ".." is a link to i.
Entries(i) == {<<d, n>> \in Inodes \X Names : ino[d].ent[n] = i}
Subdirs(i) == {n \in Names : ino[i].ent[n] # 0 /\ ino[ino[i].ent[n]].type = "DIR"}

\* No name dangles: whatever the calls in progress, the inode behind an entry
\* is allocated, and a link count on disk covers the entries that name the
\* inode and the ".." of the directories named in it, so no unlink frees it
\* early (link counts first, unlink last, mkdir before the entry appears).
NamesResolve ==
  \A i \in Inodes :
    /\ Entries(i) # {} => ino[i].type # "NONE"
    /\ ino[i].dnlink >= Cardinality(Entries(i)) + Cardinality(Subdirs(i))

\* The tree that a commit writes, hence the tree after any crash: with no call
\* in progress the cache agrees with the disk, and every directory with a
\* name lies in one directory, the one its ".." says.
CommittedTree ==
  outstanding = 0 =>
    /\ \A i \in Inodes : ino[i].valid => ino[i].type # "NONE" /\ ino[i].nlink = ino[i].dnlink
    /\ \A i \in Inodes : ino[i].locker = NoProc
    /\ \A d \in Inodes \ {Root} : ino[d].type = "DIR" =>
         /\ Cardinality(Entries(d)) <= 1
         /\ \A e \in Entries(d) : ino[d].parent = e[1]
=============================================================================
