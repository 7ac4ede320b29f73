-------------------------------- MODULE Laws --------------------------------
(***************************************************************************)
(* The laws of the pure code, on every input of small sets: a sample is    *)
(* one input, and each invariant is a law on the inputs it is about.       *)
(* Three sequential state machines, the heap of a program, the keyboard    *)
(* driver and the contents of a file, have a sample each in which they     *)
(* run.                                                                    *)
(***************************************************************************)
EXTENDS Strings, Shell, Grep, Pipe, Umalloc, Kbd, Content

VARIABLE sample

Texts(alphabet, n) == UNION {[1..k -> alphabet] : k \in 0..n}
Bits == 0..(WORD - 1)

\* Commands that use every kind of node under every other.
Grow(cmds) ==
  cmds \union {RedirCmd(c, <<"f">>, fd) : c \in cmds, fd \in {0, 1}}
       \union {RedirCmd(c, <<"g", "h">>, 1) : c \in cmds} \union {BackCmd(c) : c \in cmds}
       \union {PipeCmd(c, d) : c \in cmds, d \in cmds} \union {ListCmd(c, d) : c \in cmds, d \in cmds}
Commands == Grow(Grow({ExecCmd(<<>>), ExecCmd(<< <<"a">> >>), ExecCmd(<< <<"a">>, <<"b", "c">> >>)}))
MCUnopenable == {<<"g", "h">>}

Inputs ==
  [memmove : [d : 0..4, s : 0..4, n : 0..3]]
    \union [path : Texts({"a", "b", "/"}, 5), other : Texts({"a", "b"}, 3)]
    \union [copy : Texts({"a", "b"}, 4), n : 0..4]
    \union [number : Bits]
    \union [format : Texts({"%", "d", "x", "y"}, 5)]
    \union [input : Texts({"a", "\n", "\r"}, 5), max : 2..4]
    \union [esp : Bits, i : Bits, size : {0, 1, 5, WORD \div 2 - 1, WORD \div 2, WORD - 1}, sz : {0, 3, 9, WORD \div 2}]
    \union [ticks0 : Bits, n : Bits]
    \union [command : Commands]
    \union [line : Texts({"a", " ", "<", ">", "|", "&", ";", "(", ")"}, 4)]
    \union [re : Texts({"a", ".", "*", "^", "$"}, 3), text : Texts({"a", "b"}, 3)]
    \union [grep : Texts({"a", "b", NL}, 6), size : {3, 5}]
    \union [wc : Texts({"a", " ", NL}, 6), size : {1, 2}]
    \union [ring : Rings, bytes : Texts(Bytes, PIPESIZE)]
    \union [runs : {"heap", "keyboard", "contents"}]

MCKeys == {<<42>>, <<54>>, <<29>>, <<E0, 29>>, <<E0, 56>>, <<58>>, <<30>>}

\* A text in pieces that end at the cuts.
Pieces(text, cuts) ==
  LET ends == SetToSortSeq(cuts \union ({Len(text)} \ {0}), <)
  IN [k \in DOMAIN ends |-> SubSeq(text, IF k = 1 THEN 1 ELSE ends[k - 1] + 1, ends[k])]
Inside(text) == 1..(Len(text) - 1)

Is(field) == field \in DOMAIN sample

\* The images mkfs makes: directories of different lengths.
MCImages == {<<3>>, <<5>>}

LawsInit ==
  /\ ContentInit /\ HeapInit /\ KbdInit /\ sample \in Inputs
  /\ Len(data[2]) = 3 \/ sample = [runs |-> "contents"]
LawsNext ==
  /\ Is("runs")
  /\ \/ sample.runs = "heap" /\ HeapNext /\ UNCHANGED <<kbdvars, cvars>>
     \/ sample.runs = "keyboard" /\ KbdNext /\ UNCHANGED <<heapvars, cvars>>
     \/ sample.runs = "contents" /\ ContentNext /\ UNCHANGED <<heapvars, kbdvars>>
  /\ UNCHANGED sample
LawsSpec == LawsInit /\ [][LawsNext]_<<sample, heapvars, kbdvars, cvars>>

-----------------------------------------------------------------------------
\* Moving and converting lose nothing: memmove moves the bytes, also when they
\* overlap; a path element finds the name it was linked under, cut to DIRSIZ;
\* safestrcpy ends what it copies, within its cells; numbers read back as they
\* were printed; the two formatters agree, but for the case of hexadecimal
\* digits; gets cuts its input into lines
\* (string.c, fs.c, console.c, printf.c, ulib.c).
ConversionLaw ==
  /\ Is("memmove") => LET x == sample.memmove IN MovesBytes([a \in 0..6 |-> a], x.d, x.s, x.n)
  /\ Is("path") => NamesFound(sample.path, sample.other)
  /\ Is("copy") => CopyEnds(<<"p", "q", "r", "s">>, sample.copy, sample.n)
  /\ Is("number") => NumbersReadBack(sample.number)
  /\ Is("format") => FormatsAgree(sample.format, <<WORD - 1, 0, 5>>)
  /\ Is("max") => GetsCutsLines(sample.input, sample.max)

\* Arithmetic on words that wrap around does what it is for: the arguments a
\* system call accepts lie inside the process, sleep(n) sleeps for n ticks, and
\* the counters of a pipe make its ring a bounded queue (syscall.c, sysproc.c,
\* pipe.c).
WrapLaw ==
  /\ Is("esp") => \A n \in 0..2 : ArgumentsInside(sample.esp, n, sample.i, sample.size, sample.sz)
  /\ Is("ticks0") => SleepsThatLong(sample.ticks0, sample.n)
  /\ Is("ring") => RingIsFifo(sample.ring, sample.bytes)

\* The programs do what they say.  The shell reads every command back from its
\* text, connects commands, files and pipes as written, and damages no word of
\* a line; grep's matcher is the meaning of its pattern; the buffers of grep and
\* wc show neither in the lines nor in the counts, whatever the reads return,
\* for grep as long as its input arrives in whole lines (sh.c, grep.c, wc.c).
ProgramLaw ==
  /\ Is("command") => ParsesText(sample.command) /\ WiredAsWritten(sample.command)
  /\ Is("line") => WordsSurvive(sample.line)
  /\ Is("re") => MatchIsMeaning(sample.re, sample.text)
  /\ Is("grep") => \A cuts \in SUBSET {i \in Inside(sample.grep) : sample.grep[i] = NL} :
                     \A re \in {<<"a", "b">>, <<"^", "a">>, <<"b", "$">>} :
                       GrepWritesMatches(re, Pieces(sample.grep, cuts), sample.size)
  /\ Is("wc") => \A cuts \in SUBSET Inside(sample.wc) : WcCountsText(Pieces(sample.wc, cuts), sample.size)
=============================================================================
