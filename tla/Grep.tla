-------------------------------- MODULE Grep --------------------------------
(***************************************************************************)
(* The matcher and the line loop of grep.c, and the counters of wc.c, as   *)
(* functions of their input.  An input is the sequence of pieces in which  *)
(* it arrives: a file is one piece, what the console commits is one, and a *)
(* pipe holds whatever its writer has written so far.  A read returns at   *)
(* most what is left of one piece.                                         *)
(***************************************************************************)
EXTENDS Naturals, Sequences, FiniteSets, SequencesExt

NL == "\n"
At(s, i) == IF i \in DOMAIN s THEN s[i] ELSE "0"
From(s, i) == SubSeq(s, i, Len(s))

RECURSIVE matchhere(_, _)
RECURSIVE matchstar(_, _, _)
matchhere(re, text) ==
  IF re = <<>> THEN TRUE
  ELSE IF At(re, 2) = "*" THEN matchstar(re[1], From(re, 3), text)
  ELSE IF re = <<"$">> THEN text = <<>>
  ELSE /\ text # <<>> /\ re[1] \in {".", text[1]}
       /\ matchhere(From(re, 2), From(text, 2))

matchstar(c, re, text) ==
  \/ matchhere(re, text)
  \/ text # <<>> /\ c \in {".", text[1]} /\ matchstar(c, re, From(text, 2))

match(re, text) ==
  IF At(re, 1) = "^" THEN matchhere(From(re, 2), text)
  ELSE \E i \in 1..(Len(text) + 1) : matchhere(re, From(text, i))

-----------------------------------------------------------------------------
\* read with room for so many characters: what it returns, and what is left.
ReadSome(pieces, room) ==
  LET p == IF pieces = <<>> THEN <<>> ELSE pieces[1]
      n == IF Len(p) < room THEN Len(p) ELSE room
  IN [got |-> SubSeq(p, 1, n),
      pieces |-> (IF n = Len(p) THEN <<>> ELSE <<From(p, n + 1)>>) \o From(pieces, 2)]

\* What stays in the buffer after its lines were handled: the part behind the
\* last newline, or nothing if there is no newline at all.
Keep(buf) ==
  LET ends == {i \in DOMAIN buf : buf[i] = NL}
  IN IF ends = {} THEN <<>> ELSE From(buf, 1 + CHOOSE i \in ends : \A j \in ends : j <= i)

\* The lines of a text that end with a newline, without it.
Lines(text) ==
  LET ends == SetToSortSeq({i \in DOMAIN text : text[i] = NL}, <)
  IN [k \in DOMAIN ends |-> SubSeq(text, IF k = 1 THEN 1 ELSE ends[k - 1] + 1, ends[k] - 1)]

\* grep's loop: the lines written, for a buffer of size cells.
RECURSIVE grep(_, _, _, _)
grep(pattern, pieces, buf, size) ==
  LET r == ReadSome(pieces, size - Len(buf) - 1)
      b == buf \o r.got
  IN IF r.got = <<>> THEN <<>>
     ELSE SelectSeq(Lines(b), LAMBDA l : match(pattern, l))
          \o grep(pattern, r.pieces, Keep(b), size)

\* wc's loop: lines, words, characters and inword after one more character.
CountChar(t, c) ==
  LET white == c \in {" ", NL}
  IN [l |-> IF c = NL THEN t.l + 1 ELSE t.l,
      w |-> IF ~white /\ ~t.inword THEN t.w + 1 ELSE t.w,
      c |-> t.c + 1, inword |-> ~white]
Counts == [l |-> 0, w |-> 0, c |-> 0, inword |-> FALSE]

CountPiece(t, s) == FoldLeft(CountChar, t, s)

RECURSIVE wc(_, _, _)
wc(t, pieces, size) ==
  LET r == ReadSome(pieces, size)
  IN IF r.got = <<>> THEN t ELSE wc(CountPiece(t, r.got), r.pieces, size)

-----------------------------------------------------------------------------
(* The reference: what a pattern means. *)

\* The items of a pattern (without a leading ^): a character, starred or not,
\* and the end of the text.
RECURSIVE Items(_)
Items(re) ==
  IF re = <<>> THEN <<>>
  ELSE IF At(re, 2) = "*" THEN <<[c |-> re[1], star |-> TRUE]>> \o Items(From(re, 3))
  ELSE <<[c |-> IF re = <<"$">> THEN "end" ELSE re[1], star |-> FALSE]>> \o Items(From(re, 2))

\* text can be cut into one piece per item: f[k] cells are used after k items.
Means(re, text) ==
  LET anchored == At(re, 1) = "^"
      items == Items(IF anchored THEN From(re, 2) ELSE re)
      fits(it, piece) ==
        IF it.star THEN \A i \in DOMAIN piece : it.c \in {".", piece[i]}
        ELSE Len(piece) = 1 /\ it.c \in {".", piece[1]}
  IN \E f \in [0..Len(items) -> 0..Len(text)] :
       /\ anchored => f[0] = 0
       /\ \A k \in 1..Len(items) :
            IF items[k].c = "end" /\ ~items[k].star THEN f[k - 1] = Len(text) /\ f[k] = Len(text)
            ELSE f[k - 1] <= f[k] /\ fits(items[k], SubSeq(text, f[k - 1] + 1, f[k]))

\* The matcher finds a match exactly where the pattern has one.
MatchIsMeaning(re, text) == match(re, text) <=> Means(re, text)

\* Whatever the size of the buffer, grep writes the lines that match, when
\* every line fits the buffer and no piece but the last ends inside a line.  (A
\* buffer that holds no newline is emptied, so the start of a line that
\* arrives in two pieces may be lost.)
GrepWritesMatches(re, pieces, size) ==
  LET text == FlattenSeq(pieces)
  IN /\ \A i \in DOMAIN Lines(text) : Len(Lines(text)[i]) < size - 1
     /\ \A k \in DOMAIN pieces : k = Len(pieces) \/ Last(pieces[k]) = NL
     => grep(re, pieces, <<>>, size) = SelectSeq(Lines(text), LAMBDA l : Means(re, l))

\* wc counts the words of the text, not of the reads, wherever these end: a word
\* starts at a character that is not white and has no such character before it.
WcCountsText(pieces, size) ==
  LET t == wc(Counts, pieces, size)
      text == FlattenSeq(pieces)
      word(i) == text[i] \notin {" ", NL}
  IN /\ t.c = Len(text) /\ t.l = Len(Lines(text))
     /\ t.w = Cardinality({i \in DOMAIN text : word(i) /\ (i = 1 \/ ~word(i - 1))})
=============================================================================
