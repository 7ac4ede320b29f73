--------------------------- MODULE LineDiscipline ---------------------------
(***************************************************************************)
(* What the console promises its readers: the characters typed form a line *)
(* that can be edited until it is committed; committed characters are      *)
(* handed out once, in order, at most a line at a time.                    *)
(***************************************************************************)
EXTENDS Sequences, Naturals

CONSTANTS Capacity, Chars, Newline, EndOfFile

VARIABLES line, ready, out

LdInit == line = <<>> /\ ready = <<>> /\ out = <<>>

Typed(c) ==
  /\ Len(ready) + Len(line) < Capacity
  /\ c \notin {Newline, EndOfFile}
  /\ Len(ready) + Len(line) + 1 < Capacity
  /\ line' = Append(line, c) /\ UNCHANGED <<ready, out>>

\* A newline, an end of file or the last free place commits the line.
Committed(c) ==
  /\ Len(ready) + Len(line) < Capacity
  /\ c \in {Newline, EndOfFile} \/ Len(ready) + Len(line) + 1 = Capacity
  /\ ready' = ready \o Append(line, c)
  /\ line' = <<>> /\ UNCHANGED out

Erased ==
  /\ line # <<>>
  /\ line' = SubSeq(line, 1, Len(line) - 1) /\ UNCHANGED <<ready, out>>

Killed == line' = <<>> /\ UNCHANGED <<ready, out>>

\* A piece of a read takes k characters.  A newline ends the piece; an end
\* of file is taken only by a read that has nothing else.
Taken(k) ==
  /\ k <= Len(ready)
  /\ \A i \in 1..(k - 1) : ready[i] \notin {Newline, EndOfFile}
  /\ \/ (k > 0 => ready[k] # EndOfFile) /\ out' = SubSeq(ready, 1, k)
     \/ k = 1 /\ ready[1] = EndOfFile /\ out' = <<>>
  /\ ready' = SubSeq(ready, k + 1, Len(ready)) /\ UNCHANGED line

LdNext ==
  \/ \E c \in Chars : Typed(c) \/ Committed(c)
  \/ Erased \/ Killed
  \/ \E k \in 0..Capacity : Taken(k)

\* out is free while the two sequences stand still.
LdSpec == LdInit /\ [][LdNext]_<<ready, line>>
=============================================================================
