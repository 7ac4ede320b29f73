-------------------------------- MODULE Pipe --------------------------------
(***************************************************************************)
(* struct pipe (pipe.c): a ring of PIPESIZE bytes between two counters     *)
(* that only grow, and wrap around with the width of an unsigned int.      *)
(***************************************************************************)
EXTENDS Naturals, Sequences

CONSTANTS
  PIPESIZE,
  Width,    \* nread and nwrite count modulo Width (2^32 in the code)
  Bytes, NoProc

ASSUME PipeAssumption ==
  /\ PIPESIZE \in Nat \ {0} /\ Width \in Nat /\ Width > PIPESIZE /\ Width % PIPESIZE = 0
  /\ Bytes # {}

\* A page without a pipe, and the pipe pipealloc makes in it.
FreePage == [used |-> FALSE, lock |-> NoProc, readopen |-> FALSE, writeopen |-> FALSE,
             nread |-> 0, nwrite |-> 0, data |-> [i \in 0..(PIPESIZE - 1) |-> CHOOSE c \in Bytes : TRUE]]
NewPipe == [FreePage EXCEPT !.used = TRUE, !.readopen = TRUE, !.writeopen = TRUE]

Empty(x) == x.nread = x.nwrite
Full(x) == x.nwrite = (x.nread + PIPESIZE) % Width
Count(x) == (x.nwrite + Width - x.nread) % Width

\* The bytes in the pipe, oldest first.
Contents(x) == [i \in 1..Count(x) |-> x.data[((x.nread + i - 1) % Width) % PIPESIZE]]

\* A test that compares positions in the buffer instead of counters.
RoomByIndex(x) == (x.nread + PIPESIZE - x.nwrite) % PIPESIZE

\* How many bytes fit before nwrite == nread + PIPESIZE.
Room(x) == (x.nread + PIPESIZE + Width - x.nwrite) % Width

\* x after s is written to it.
Put(x, s) ==
  [x EXCEPT !.nwrite = (@ + Len(s)) % Width,
            !.data = [i \in DOMAIN x.data |->
               LET at == {j \in DOMAIN s : ((x.nwrite + j - 1) % Width) % PIPESIZE = i}
               IN IF at = {} THEN x.data[i] ELSE s[CHOOSE j \in at : TRUE]]]

-----------------------------------------------------------------------------
\* The rings a program can reach.
Rings == {[FreePage EXCEPT !.nread = r, !.nwrite = (r + k) % Width, !.data = d] :
            r \in 0..(Width - 1), k \in 0..PIPESIZE, d \in [0..(PIPESIZE - 1) -> Bytes]}

\* The ring is a queue of PIPESIZE bytes wherever the counters are, also when
\* they wrap: what pipewrite's test lets in is added at the end and nothing
\* that waits is overwritten, and bytes are let in exactly up to PIPESIZE.
RingIsFifo(x, s) ==
  /\ Full(x) = (Count(x) = PIPESIZE) /\ Room(x) + Count(x) = PIPESIZE
  /\ Len(s) <= Room(x) => Contents(Put(x, s)) = Contents(x) \o s
=============================================================================
