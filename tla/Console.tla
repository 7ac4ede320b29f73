------------------------------ MODULE Console ------------------------------
(***************************************************************************)
(* The console's input (console.c): consoleintr edits and commits lines in *)
(* a ring of INPUT_BUF characters, consoleread takes them out, both under  *)
(* cons.lock; and the cursor of cgaputc.                                   *)
(***************************************************************************)
EXTENDS Naturals, Sequences, FiniteSets, FiniteSetsExt

CONSTANTS
  Readers,     \* processes that read the console
  INPUT_BUF,
  Width,       \* r, w and e count modulo Width (2^32 in the code)
  Letters, Newline, CtrlD, CtrlU, Backspace, CtrlP,
  ReadSizes,
  COLS, ROWS   \* of the screen

\* Two rows at least: the cursor keeps off the last one.
ASSUME ConsoleAssumption ==
  /\ INPUT_BUF \in Nat \ {0} /\ Width \in Nat /\ Width > INPUT_BUF /\ Width % INPUT_BUF = 0
  /\ ReadSizes \subseteq Nat
  /\ COLS \in Nat \ {0} /\ ROWS \in Nat \ {0, 1}

VARIABLES
  input,    \* buf, r, w and e
  reader,   \* where each reader is, what is left of its n, and killed
  got,      \* the characters the last step gave a reader
  pos       \* the cursor

convars == <<input, reader, got, pos>>

NoChar == "0"
Plus(i, k) == (i + k) % Width
Minus(i, k) == (i + Width - k) % Width
Between(i, j) == [k \in 1..Minus(j, i) |-> input.buf[Plus(i, k - 1) % INPUT_BUF]]

-----------------------------------------------------------------------------
\* cgaputc: the cursor after c; the last line scrolls away.
Cursor(p, c) ==
  LET q == IF c = Newline THEN p + COLS - (p % COLS)
           ELSE IF c = Backspace THEN IF p > 0 THEN p - 1 ELSE p
           ELSE p + 1
  IN IF q \div COLS >= ROWS - 1 THEN q - COLS ELSE q

-----------------------------------------------------------------------------
ConsoleInit ==
  /\ input = [buf |-> [i \in 0..(INPUT_BUF - 1) |-> NoChar], r |-> 0, w |-> 0, e |-> 0]
  /\ reader = [p \in Readers |-> [at |-> "idle", n |-> 0, target |-> 0, killed |-> FALSE]]
  /\ got = <<>>
  /\ pos = 0

\* wakeup(&input.r)
Awake(at) == IF at = "asleep" THEN "running" ELSE at
WakeReaders == [p \in Readers |-> [reader[p] EXCEPT !.at = Awake(reader[p].at)]]

Echo(c) == pos' = Cursor(pos, c)

\* consoleintr, ^U: the line is erased, with one BACKSPACE per character.
KillLine ==
  LET line == Between(input.w, input.e)
      n == Cardinality({k \in DOMAIN line : \A i \in k..Len(line) : line[i] # Newline})
  IN /\ input' = [input EXCEPT !.e = Minus(@, n)]
     /\ pos' = IF pos < n THEN 0 ELSE pos - n
     /\ UNCHANGED <<reader, got>>

\* consoleintr, backspace.
EraseChar ==
  /\ IF input.e # input.w
     THEN input' = [input EXCEPT !.e = Minus(@, 1)] /\ Echo(Backspace)
     ELSE UNCHANGED <<input, pos>>
  /\ UNCHANGED <<reader, got>>

\* consoleintr with a test for a full line instead of a full ring.
HasRoomAfterW(in) == Minus(in.e, in.w) < INPUT_BUF

\* consoleintr's test before a character is stored.
HasRoom(in) == Minus(in.e, in.r) < INPUT_BUF

\* consoleintr's test whether the line goes to the readers.
Commits(in, c) == c \in {Newline, CtrlD} \/ in.e = Plus(in.r, INPUT_BUF)

\* consoleintr without the wakeup.
WakeNobody(in, c) == reader

\* Who is woken when c has been stored.
Woken(in, c) == IF Commits(in, c) THEN WakeReaders ELSE reader

\* consoleintr, any other character.
StoreChar(c) ==
  LET in == [input EXCEPT !.buf[input.e % INPUT_BUF] = c, !.e = Plus(@, 1)]
  IN /\ IF HasRoom(input)
        THEN /\ input' = IF Commits(in, c) THEN [in EXCEPT !.w = in.e] ELSE in
             /\ reader' = Woken(in, c)
             /\ Echo(c)
        ELSE UNCHANGED <<input, reader, pos>>
     /\ UNCHANGED got

\* consoleintr, ^P: procdump, after the lock is released, changes nothing.
ProcDump == UNCHANGED convars

Consoleintr(c) ==
  \/ c = CtrlP /\ ProcDump
  \/ c = CtrlU /\ KillLine
  \/ c = Backspace /\ EraseChar
  \/ c \notin {CtrlP, CtrlU, Backspace} /\ StoreChar(c)

-----------------------------------------------------------------------------
\* read(console, p, n): consoleread is called.
Consoleread(p, n) ==
  /\ reader[p].at = "idle"
  /\ reader' = [reader EXCEPT ![p] = [at |-> "running", n |-> n, target |-> n, killed |-> FALSE]]
  /\ got' = <<>> /\ UNCHANGED <<input, pos>>

\* consoleread's test to save ^D for the next read.
KeepEof(n, target) == n < target

\* consoleread's loop over the characters in avail, until it returns or
\* sleeps: how many it moves, whether it then takes an ^D, and whether it is
\* done.
Stops(avail, n) ==
  {k \in 0..Len(avail) :
     /\ k <= n /\ \A i \in 1..k : avail[i] # CtrlD /\ (i < k => avail[i] # Newline)
     /\ k = n \/ k = Len(avail) \/ (k > 0 /\ avail[k] = Newline) \/ avail[k + 1] = CtrlD}
LineEnds(avail, k) == k > 0 /\ avail[k] = Newline
AtEof(avail, n, k) == k < n /\ ~LineEnds(avail, k) /\ k < Len(avail)
LoopEnd(avail, n, target, k) ==
  [k |-> k,
   eof |-> AtEof(avail, n, k) /\ ~KeepEof(n - k, target),
   done |-> k = n \/ AtEof(avail, n, k) \/ LineEnds(avail, k)]
Loop(avail, n, target) == LoopEnd(avail, n, target, Min(Stops(avail, n)))

ReadMoved(p, l) ==
  /\ input' = [input EXCEPT !.r = Plus(@, l.k + (IF l.eof THEN 1 ELSE 0))]
  /\ got' = Between(input.r, Plus(input.r, l.k))
  /\ reader' = [reader EXCEPT ![p] =
                  IF l.done \/ reader[p].killed
                  THEN [at |-> "idle", n |-> 0, target |-> 0, killed |-> reader[p].killed]
                  ELSE [reader[p] EXCEPT !.n = reader[p].n - l.k, !.at = "asleep"]]
  /\ UNCHANGED pos
ReadLoop(p) ==
  /\ reader[p].at = "running"
  /\ ReadMoved(p, Loop(Between(input.r, input.w), reader[p].n, reader[p].target))

\* kill: the process is marked, and made runnable if it sleeps.
KillReader(p) ==
  /\ reader' = [reader EXCEPT ![p] = [reader[p] EXCEPT !.killed = TRUE, !.at = Awake(reader[p].at)]]
  /\ reader[p].at # "idle" /\ ~reader[p].killed
  /\ UNCHANGED <<input, got, pos>>

\* consolewrite and cprintf of a character.
Consolewrite(c) == Echo(c) /\ UNCHANGED <<input, reader, got>>

ConsoleNext ==
  \/ \E c \in Letters \union {Newline, CtrlD, CtrlU, Backspace, CtrlP} : Consoleintr(c)
  \/ \E p \in Readers :
       \/ \E n \in ReadSizes : Consoleread(p, n)
       \/ ReadLoop(p)
       \/ KillReader(p)
  \/ \E c \in Letters \union {Newline} : Consolewrite(c)

ConsoleSpec == ConsoleInit /\ [][ConsoleNext]_convars

-----------------------------------------------------------------------------
\* A reader sleeps only while nothing is committed, so a committed line never
\* waits for a reader that waits for it (consoleread, consoleintr); and the
\* cursor stays on the screen, off its last line, whatever is echoed, erased
\* and printed (cgaputc).
NoLineWaits ==
  /\ \A p \in Readers : reader[p].at = "asleep" => input.r = input.w
  /\ pos \in 0..(COLS * (ROWS - 1) - 1)

\* What the readers may take, and what can still be edited.
Ready == Between(input.r, input.w)
Line == Between(input.w, input.e)

LD == INSTANCE LineDiscipline
        WITH Capacity <- INPUT_BUF, EndOfFile <- CtrlD,
             Chars <- Letters \union {Newline, CtrlD},
             line <- Line, ready <- Ready, out <- got

\* The ring with its three wrapping counters, an interrupt handler and many
\* readers is a line discipline: no character is lost, repeated, reordered or
\* given to two readers, and editing never reaches a committed character.
IsLineDiscipline == LD!LdSpec

-----------------------------------------------------------------------------
(* The inductive invariant behind NoLineWaits and IsLineDiscipline: the    *)
(* readers' part, where w lies between r and e and the ring is not         *)
(* overfull, and no line that is still edited has a newline in it.         *)
Chars == Letters \union {Newline, CtrlD, CtrlU, Backspace, CtrlP, NoChar}

ConsoleTypeOK ==
  /\ input \in [buf : [0..(INPUT_BUF - 1) -> Chars],
               r : 0..(Width - 1), w : 0..(Width - 1), e : 0..(Width - 1)]
  /\ reader \in [Readers -> [at : {"idle", "running", "asleep"}, n : Nat, target : Nat,
                             killed : BOOLEAN]]

ReadsLeft == \A p \in Readers : reader[p].n <= reader[p].target
RingOrder ==
  /\ Minus(input.w, input.r) + Minus(input.e, input.w) = Minus(input.e, input.r)
  /\ Minus(input.e, input.r) <= INPUT_BUF
LineOpen == \A k \in 1..Minus(input.e, input.w) : Line[k] # Newline

ConsoleInv == ConsoleTypeOK /\ ReadsLeft /\ RingOrder /\ LineOpen /\ NoLineWaits
=============================================================================
