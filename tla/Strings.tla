------------------------------ MODULE Strings ------------------------------
(***************************************************************************)
(* The routines on memory, strings and numbers that kernel and programs    *)
(* share: string.c, ulib.c, printf.c, the formatting of console.c, skipelem*)
(* and namecmp of fs.c, and the checks of system call arguments in         *)
(* syscall.c, as functions of their input.  An address is a natural        *)
(* number; a memory is a function of its addresses; machine words count    *)
(* modulo WORD.                                                            *)
(***************************************************************************)
EXTENDS Integers, Sequences, FiniteSetsExt, SequencesExt

CONSTANTS
  WORD,      \* words count modulo WORD (2^32)
  DIRSIZ

EOS == "nul"
CellAt(s, i) == IF i \in DOMAIN s THEN s[i] ELSE EOS
Rest(s, i) == SubSeq(s, i, Len(s))
Signed(x) == IF x < WORD \div 2 THEN x ELSE x - WORD

-----------------------------------------------------------------------------
(* memmove *)

RECURSIVE Forward(_, _, _, _)
Forward(m, d, s, n) ==
  IF n = 0 THEN m ELSE Forward([m EXCEPT ![d] = m[s]], d + 1, s + 1, n - 1)
RECURSIVE Backward(_, _, _, _)
Backward(m, d, s, n) ==
  IF n = 0 THEN m ELSE Backward([m EXCEPT ![d + n - 1] = m[s + n - 1]], d, s, n - 1)

Overlaps(d, s, n) == s < d /\ s + n > d

memmove(m, d, s, n) == IF Overlaps(d, s, n) THEN Backward(m, d, s, n) ELSE Forward(m, d, s, n)

\* The kernel's memmove moves the bytes whatever the overlap, and that of
\* ulib.c does when it moves down or the areas are apart, the ways it is used
\* (grep.c and ls.c).
MovesBytes(m, d, s, n) ==
  LET moved == [i \in DOMAIN m |-> IF i \in d..(d + n - 1) THEN m[s + i - d] ELSE m[i]]
  IN memmove(m, d, s, n) = moved /\ (d <= s \/ s + n <= d => Forward(m, d, s, n) = moved)

-----------------------------------------------------------------------------
(* Path elements and the names in directories. *)

\* strncpy: n cells from t, filled up with zeros.
strncpy(t, n) == [i \in 1..n |-> CellAt(t, i)]

\* strncmp(p, q, n) = 0 for cells p and q.
RECURSIVE SameCells(_, _, _)
SameCells(p, q, n) ==
  n = 0 \/ (p[1] = q[1] /\ (p[1] = EOS \/ SameCells(Tail(p), Tail(q), n - 1)))
namecmp(p, q) == SameCells(p, q, DIRSIZ)

\* safestrcpy: how many characters are copied, and the cells of the
\* destination afterwards; a zero that was copied is followed by another.
Copies(t, n) == Min({Len(t), n - 1})

safestrcpy(s, t, n) ==
  LET k == Copies(t, n)
  IN IF n <= 0 THEN s
     ELSE [i \in DOMAIN s |->
             IF i <= k THEN t[i]
             ELSE IF i = k + 1 \/ (i = Len(t) + 2 /\ i <= n) THEN EOS
             ELSE s[i]]

\* skipelem's copy of an element of len cells that leaves out the final zero.
CopiedOpen(elem, name) ==
  [i \in 1..DIRSIZ |-> IF i \in DOMAIN elem THEN elem[i] ELSE name[i]]

\* skipelem: what name holds after an element was copied over it.
Copied(elem, name) ==
  [i \in 1..DIRSIZ |->
     IF i \in DOMAIN elem THEN elem[i] ELSE IF i = Len(elem) + 1 THEN EOS ELSE name[i]]

\* skipelem: the element, the rest of the path, and name afterwards.
Slashes(path) == Min({i \in 1..(Len(path) + 1) : CellAt(path, i) # "/"})
skipelem(path, name) ==
  LET p == Rest(path, Slashes(path))
      end == Min({i \in 1..(Len(p) + 1) : CellAt(p, i) \in {"/", EOS}})
      rest == Rest(p, end)
  IN [found |-> p # <<>>, name |-> Copied(SubSeq(p, 1, end - 1), name),
      path |-> Rest(rest, Slashes(rest))]

RECURSIVE Elements(_, _)
Elements(path, name) ==
  LET e == skipelem(path, name)
  IN IF e.found THEN <<e.name>> \o Elements(e.path, e.name) ELSE <<>>

\* What an element names: its first DIRSIZ characters.
Meant(path) ==
  LET cuts == SetToSortSeq({i \in DOMAIN path : path[i] = "/"} \union {0, Len(path) + 1}, <)
      pieces == [k \in 1..(Len(cuts) - 1) |-> SubSeq(path, cuts[k] + 1, cuts[k + 1] - 1)]
  IN SelectSeq(pieces, LAMBDA e : e # <<>>)
Cut(e) == SubSeq(e, 1, IF Len(e) < DIRSIZ THEN Len(e) ELSE DIRSIZ)

\* A lookup along a path, whatever name held before, finds the entry that was
\* made with the same name, and no other: the stored name (strncpy) and the
\* element that skipelem leaves in name, with what an earlier and longer
\* element left behind it, compare as the names themselves do, up to DIRSIZ.
NamesFound(path, other) ==
  LET garbage == [i \in 1..DIRSIZ |-> "x"]
      es == Elements(path, garbage)
  IN /\ Len(es) = Len(Meant(path))
     /\ \A k \in DOMAIN es : namecmp(strncpy(other, DIRSIZ), es[k]) <=> Cut(other) = Cut(Meant(path)[k])

\* safestrcpy leaves a string that ends within its n cells, is the start of
\* what was copied, and is all of it when it fits; the cells behind stay.
CopyEnds(s, t, n) ==
  LET r == safestrcpy(s, t, n)
      len == IF Len(t) < n THEN Len(t) ELSE n - 1
  IN /\ n > 0 => SubSeq(r, 1, len) = SubSeq(t, 1, len) /\ r[len + 1] = EOS
     /\ Rest(r, n + 1) = Rest(s, n + 1)

-----------------------------------------------------------------------------
(* printint, atoi, printf and cprintf. *)

\* The digits of console.c and of printf.c.
Decimal == <<"0", "1", "2", "3", "4", "5", "6", "7", "8", "9">>
ConsoleDigits == Decimal \o <<"a", "b", "c", "d", "e", "f">>
PrintfDigits == Decimal \o <<"A", "B", "C", "D", "E", "F">>

\* The digits of x with a loop that tests first.
RECURSIVE DigitsOf(_, _, _)
DigitsOf(x, base, digits) ==
  IF x = 0 THEN <<>> ELSE Append(DigitsOf(x \div base, base, digits), digits[(x % base) + 1])

\* do ... while((x /= base) != 0), read from the end of buf.
Digits(x, base, digits) == Append(DigitsOf(x \div base, base, digits), digits[(x % base) + 1])

\* printint: xx is a word.
printint(xx, base, sign, digits) ==
  LET neg == sign /\ Signed(xx) < 0
      x == IF neg THEN (-xx) % WORD ELSE xx
  IN (IF neg THEN <<"-">> ELSE <<>>) \o Digits(x, base, digits)

atoi(s) ==
  LET value(c) == (CHOOSE v \in 1..10 : Decimal[v] = c) - 1
      end == Min({i \in 1..(Len(s) + 1) : \A v \in 1..10 : CellAt(s, i) # Decimal[v]})
  IN FoldLeft(LAMBDA n, c : (n * 10 + value(c)) % WORD, 0, SubSeq(s, 1, end - 1))

\* A printed number reads back as the number, from zero to the smallest one,
\* whose negation is itself.
NumbersReadBack(x) ==
  LET t == printint(x, 10, TRUE, PrintfDigits)
  IN /\ t # <<>>
     /\ IF t[1] = "-" THEN Signed(x) < 0 /\ (-atoi(Tail(t))) % WORD = x
        ELSE Signed(x) >= 0 /\ atoi(t) = x /\ (Len(t) > 1 => t[1] # "0")

-----------------------------------------------------------------------------
(* What one conversion writes, and how many arguments it takes; args holds  *)
(* the words behind the format.                                             *)

Word(args) == IF args = <<>> THEN 0 ELSE args[1]
Converted(c, args, digits) ==
  IF c = "s" THEN <<"the string at">> \o Digits(Word(args), 16, ConsoleDigits)
  ELSE printint(Word(args), IF c = "d" THEN 10 ELSE 16, c = "d", digits)

\* printf: the state after the character that follows a "%".
StateAfter(state) == "text"

\* printf of printf.c: one character after another, with a state.
RECURSIVE printf(_, _, _)
printf(fmt, args, state) ==
  IF fmt = <<>> THEN <<>>
  ELSE LET c == fmt[1]
           rest == Tail(fmt)
           taken == IF args = <<>> THEN args ELSE Tail(args)
       IN IF state = "text"
          THEN IF c = "%" THEN printf(rest, args, "%") ELSE <<c>> \o printf(rest, args, state)
          ELSE CASE c \in {"d", "x", "p", "s"} -> Converted(c, args, PrintfDigits) \o printf(rest, taken, StateAfter(state))
                 [] c = "c" -> <<"the character">> \o Digits(Word(args), 16, ConsoleDigits)
                               \o printf(rest, taken, StateAfter(state))
                 [] c = "%" -> <<"%">> \o printf(rest, args, StateAfter(state))
                 [] OTHER -> <<"%", c>> \o printf(rest, args, StateAfter(state))

\* cprintf of console.c: an index that steps over the conversion.
RECURSIVE cprintf(_, _, _)
cprintf(fmt, args, i) ==
  LET c == CellAt(fmt, i + 1)
      taken == IF args = <<>> THEN args ELSE Tail(args)
  IN IF i > Len(fmt) THEN <<>>
     ELSE IF fmt[i] # "%" THEN <<fmt[i]>> \o cprintf(fmt, args, i + 1)
     ELSE CASE c = EOS -> <<>>
            [] c \in {"d", "x", "p", "s"} -> Converted(c, args, ConsoleDigits) \o cprintf(fmt, taken, i + 2)
            [] c = "%" -> <<"%">> \o cprintf(fmt, args, i + 2)
            [] OTHER -> <<"%", c>> \o cprintf(fmt, args, i + 2)

\* A text with the digits of printf.c written as those of console.c.
LowerDigits(t) ==
  [i \in DOMAIN t |-> IF \E v \in DOMAIN PrintfDigits : PrintfDigits[v] = t[i]
                      THEN ConsoleDigits[CHOOSE v \in DOMAIN PrintfDigits : PrintfDigits[v] = t[i]]
                      ELSE t[i]]

\* The two ways to go through a format, with a state and with an index, write
\* the same text, up to the case of hexadecimal digits, and take the same
\* arguments, also at a "%" at the end, for formats without "%c", which only
\* printf knows.
FormatsAgree(fmt, args) == LowerDigits(printf(fmt, args, "text")) = cprintf(fmt, args, 1)

-----------------------------------------------------------------------------
(* gets *)

\* The characters that fit a buffer of max cells.
GetsRoom(max) == max - 1

\* gets: what is stored before the final zero.
gets(input, max) ==
  LET ends == {i \in DOMAIN input : input[i] \in {"\n", "\r"}} \union {Len(input), GetsRoom(max)}
  IN SubSeq(input, 1, Min(ends))

RECURSIVE GetsAll(_, _)
GetsAll(input, max) ==
  LET l == gets(input, max)
  IN IF l = <<>> THEN <<>> ELSE <<l>> \o GetsAll(Rest(input, Len(l) + 1), max)

\* Calls of gets one after the other give the whole input, cut behind the
\* ends of lines and where a line is longer than the buffer, and none writes
\* past the buffer.
GetsCutsLines(input, max) ==
  LET ls == GetsAll(input, max)
  IN /\ FlattenSeq(ls) = input
     /\ \A k \in DOMAIN ls :
          /\ Len(ls[k]) + 1 <= max
          /\ \A i \in 1..(Len(ls[k]) - 1) : ls[k][i] \notin {"\n", "\r"}
          /\ \/ Last(ls[k]) \in {"\n", "\r"}
             \/ Len(ls[k]) + 1 = max \/ k = Len(ls)

-----------------------------------------------------------------------------
(* Arguments of system calls, for a process of size sz <= KERNBASE, which  *)
(* is WORD \div 2, and sleep.                                              *)

fetchint(addr, sz) == ~(addr >= sz \/ (addr + 4) % WORD > sz)

\* argptr: i is the argument, size a word.
PtrInside(i, size, sz) == ~(Signed(size) < 0 \/ i >= sz \/ (i + size) % WORD > sz)

ArgAddr(esp, n) == (esp + 4 + 4 * n) % WORD
argptr(esp, n, i, size, sz) == fetchint(ArgAddr(esp, n), sz) /\ PtrInside(i, size, sz)

\* fetchstr: the length, or -1; zeros are the addresses below sz that hold 0.
fetchstr(addr, sz, zeros) ==
  LET ends == {a \in zeros : a >= addr}
  IN IF addr >= sz \/ ends = {} THEN -1 ELSE Min(ends) - addr

\* What argptr and argstr accept lies in the memory of the process, the word
\* with the argument included, although the sums may wrap.
ArgumentsInside(esp, n, i, size, sz) ==
  /\ argptr(esp, n, i, size, sz) =>
       ArgAddr(esp, n) + 4 <= sz /\ \A b \in 0..(size - 1) : i + b < sz
  /\ \A zeros \in {{}, {sz - 1}, {0, sz - 2}} : fetchstr(i, sz, zeros \intersect 0..(sz - 1)) >= 0 =>
       i + fetchstr(i, sz, zeros \intersect 0..(sz - 1)) < sz

\* sys_sleep: the condition of the loop; n is converted to unsigned.
StillSleeps(ticks, ticks0, n) == (ticks - ticks0) % WORD < n

\* A process that asks for n ticks sleeps for n of them, when ticks wraps as
\* well; a negative n counts as the word it is.
SleepsThatLong(ticks0, n) ==
  /\ \A k \in 0..(WORD - 1) : k < n => StillSleeps((ticks0 + k) % WORD, ticks0, n)
  /\ ~StillSleeps((ticks0 + n) % WORD, ticks0, n)
=============================================================================
