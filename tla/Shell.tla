------------------------------- MODULE Shell -------------------------------
(***************************************************************************)
(* The shell (sh.c): its parser over lines of characters, nulterminate,    *)
(* and the descriptors runcmd gives to the commands it starts.             *)
(***************************************************************************)
EXTENDS Naturals, Sequences, FiniteSets, FiniteSetsExt, SequencesExt

CONSTANTS MAXARGS,       \* the words of a command, with the final 0
          Unopenable     \* the names of files that open refuses

whitespace == {" ", "\t", "\r", "\n", "VT"}
symbols == {"<", "|", ">", "&", ";", "(", ")"}
NUL == "0"
CharAt(s, i) == IF i \in DOMAIN s THEN s[i] ELSE NUL

\* The first position from i on whose character is not in chars.
Skip(s, i, chars) == Min({j \in i..(Len(s) + 1) : CharAt(s, j) \notin chars})

\* The end of the token that starts at q.
TokenEnd(s, q) ==
  IF CharAt(s, q) = NUL THEN q
  ELSE IF CharAt(s, q) = ">" /\ CharAt(s, q + 1) = ">" THEN q + 2
  ELSE IF CharAt(s, q) \in symbols THEN q + 1
  ELSE Min({j \in q..(Len(s) + 1) : CharAt(s, j) \in whitespace \union symbols \union {NUL}})

Token(s, q, eq) ==
  [ret |-> IF CharAt(s, q) = ">" /\ eq = q + 2 THEN "+"
           ELSE IF CharAt(s, q) \in symbols \union {NUL} THEN CharAt(s, q) ELSE "a",
   q |-> q, eq |-> eq, ps |-> Skip(s, eq, whitespace)]

\* gettoken: what the token is, where it starts and ends, where to go on.
TokenAt(s, q) == Token(s, q, TokenEnd(s, q))
gettoken(s, i) == TokenAt(s, Skip(s, i, whitespace))

peek(s, i, toks) == CharAt(s, Skip(s, i, whitespace)) \in toks
After(s, i) == gettoken(s, i).ps

\* The nodes of a command.
ExecCmd(argv) == [type |-> "EXEC", argv |-> argv]
RedirCmd(c, file, fd) == [type |-> "REDIR", cmd |-> c, file |-> file, fd |-> fd]
PipeCmd(l, r) == [type |-> "PIPE", left |-> l, right |-> r]
ListCmd(l, r) == [type |-> "LIST", left |-> l, right |-> r]
BackCmd(c) == [type |-> "BACK", cmd |-> c]

\* A parser returns a command, where it stopped, and whether it panicked.
Parsed(c, i) == [cmd |-> c, ps |-> i, err |-> FALSE]
Panic == [cmd |-> ExecCmd(<<>>), ps |-> 0, err |-> TRUE]

\* What follows a parser that has not panicked.
Then(r, F(_)) == IF r.err THEN Panic ELSE F(r)

RECURSIVE parseredirs(_, _, _)
Redirected(c, tok, f, s) ==
  IF f.ret # "a" THEN Panic
  ELSE parseredirs(RedirCmd(c, <<f.q, f.eq>>, IF tok.ret = "<" THEN 0 ELSE 1), s, f.ps)
RedirectedBy(c, tok, s) == Redirected(c, tok, gettoken(s, tok.ps), s)
parseredirs(c, s, i) ==
  IF peek(s, i, {"<", ">"}) THEN RedirectedBy(c, gettoken(s, i), s) ELSE Parsed(c, i)

\* The node the innermost redirection applies to, and a command with it
\* replaced: cmd of parseexec points into ret.
RECURSIVE WithArgs(_, _)
WithArgs(c, argv) ==
  IF c.type = "EXEC" THEN ExecCmd(argv) ELSE [c EXCEPT !.cmd = WithArgs(@, argv)]

\* parseexec's loop, with ret so far and the words found; t is the next token.
RECURSIVE ParseArgs(_, _, _, _)
NextArg(s, i, ret, argv, t) ==
  IF t.ret = NUL THEN Parsed(WithArgs(ret, argv), i)
  ELSE IF t.ret # "a" \/ Len(argv) + 1 >= MAXARGS THEN Panic
  ELSE Then(parseredirs(ret, s, t.ps),
            LAMBDA r : ParseArgs(s, r.ps, r.cmd, Append(argv, <<t.q, t.eq>>)))
ParseArgs(s, i, ret, argv) ==
  IF peek(s, i, {"|", ")", "&", ";"}) THEN Parsed(WithArgs(ret, argv), i)
  ELSE NextArg(s, i, ret, argv, gettoken(s, i))

RECURSIVE parseline(_, _)

parseblock(s, i) ==
  Then(parseline(s, After(s, i)),
       LAMBDA l : IF peek(s, l.ps, {")"}) THEN parseredirs(l.cmd, s, After(s, l.ps)) ELSE Panic)

parseexec(s, i) ==
  IF peek(s, i, {"("}) THEN parseblock(s, i)
  ELSE Then(parseredirs(ExecCmd(<<>>), s, i), LAMBDA r : ParseArgs(s, r.ps, r.cmd, <<>>))

RECURSIVE parsepipe(_, _)
parsepipe(s, i) ==
  Then(parseexec(s, i),
       LAMBDA l : IF peek(s, l.ps, {"|"})
                  THEN Then(parsepipe(s, After(s, l.ps)),
                            LAMBDA r : Parsed(PipeCmd(l.cmd, r.cmd), r.ps))
                  ELSE l)

\* parseline's loop over "&".
RECURSIVE Backs(_, _, _)
Backs(s, i, c) == IF peek(s, i, {"&"}) THEN Backs(s, After(s, i), BackCmd(c)) ELSE Parsed(c, i)

parseline(s, i) ==
  Then(Then(parsepipe(s, i), LAMBDA p : Backs(s, p.ps, p.cmd)),
       LAMBDA b : IF peek(s, b.ps, {";"})
                  THEN Then(parseline(s, After(s, b.ps)),
                            LAMBDA r : Parsed(ListCmd(b.cmd, r.cmd), r.ps))
                  ELSE b)

parsecmd(s) ==
  Then(parseline(s, 1),
       LAMBDA l : IF Skip(s, l.ps, whitespace) = Len(s) + 1 THEN l ELSE Panic)

-----------------------------------------------------------------------------
FileEnd(c) == {c.file[2]}

\* nulterminate: the positions of the line that are set to 0.
RECURSIVE Terminated(_)
Terminated(c) ==
  CASE c.type = "EXEC" -> {c.argv[k][2] : k \in DOMAIN c.argv}
    [] c.type = "REDIR" -> Terminated(c.cmd) \union FileEnd(c)
    [] c.type = "BACK" -> Terminated(c.cmd)
    [] OTHER -> Terminated(c.left) \union Terminated(c.right)

nulterminate(s, c) == [i \in DOMAIN s |-> IF i \in Terminated(c) THEN NUL ELSE s[i]]

\* The string that starts at q, as exec and open see it.
StringAt(s, q) == SubSeq(s, q, Skip(s, q, {CharAt(s, j) : j \in DOMAIN s} \ {NUL}) - 1)

\* A command with its strings in the place of the pointers.
RECURSIVE Strings(_, _)
Strings(s, c) ==
  CASE c.type = "EXEC" -> ExecCmd([k \in DOMAIN c.argv |-> StringAt(s, c.argv[k][1])])
    [] c.type = "REDIR" -> RedirCmd(Strings(s, c.cmd), StringAt(s, c.file[1]), c.fd)
    [] c.type = "BACK" -> BackCmd(Strings(s, c.cmd))
    [] OTHER -> [c EXCEPT !.left = Strings(s, @), !.right = Strings(s, @)]

Command(s, p) == Strings(nulterminate(s, p.cmd), p.cmd)

-----------------------------------------------------------------------------
(* runcmd.  A descriptor table maps the open descriptors to what they are  *)
(* open on; id names the place in the command, so that pipes differ.       *)

Lowest(fds) == Min({n \in 0..(Cardinality(DOMAIN fds) + 1) : n \notin DOMAIN fds})
Close(fds, n) == [d \in DOMAIN fds \ {n} |-> fds[d]]
OpenOn(fds, x) == (Lowest(fds) :> x) @@ fds
Dup(fds, n) == OpenOn(fds, fds[n])

\* A process that closes one end of the pipe only.
EndClosed(fds, p) == Close(fds, p[1])

\* close(p[0]); close(p[1])
EndsClosed(fds, p) == Close(Close(fds, p[1]), p[2])

\* The processes that run: commands with their descriptors, and the shells
\* that wait.
RECURSIVE runcmd(_, _, _)
runcmd(c, fds, id) ==
  CASE c.type = "EXEC" -> IF c.argv = <<>> THEN {} ELSE {[run |-> c.argv, id |-> id, fds |-> fds]}
    [] c.type = "REDIR" -> IF c.file \in Unopenable THEN {}
                           ELSE runcmd(c.cmd, OpenOn(Close(fds, c.fd), c.file), id)
    [] c.type = "LIST" -> runcmd(c.left, fds, Append(id, 0)) \union runcmd(c.right, fds, Append(id, 1))
    [] c.type = "BACK" -> runcmd(c.cmd, fds, Append(id, 0))
    [] OTHER ->
         LET p0 == Lowest(fds)
             p1 == Lowest(OpenOn(fds, id))
             both == (p0 :> <<"r", "pipe", id>>) @@ (p1 :> <<"w", "pipe", id>>) @@ fds
             left == EndsClosed(Dup(Close(both, 1), p1), <<p0, p1>>)
             right == EndsClosed(Dup(Close(both, 0), p0), <<p0, p1>>)
         IN runcmd(c.left, left, Append(id, 0)) \union runcmd(c.right, right, Append(id, 1))
            \union {[run |-> <<>>, id |-> id, fds |-> EndsClosed(both, <<p0, p1>>)]}

\* main: open the console until descriptors 0, 1 and 2 are open.
RECURSIVE OpenStd(_)
OpenStd(fds) ==
  IF Lowest(fds) >= 3 THEN fds ELSE OpenStd(OpenOn(fds, <<"console">>))
Std == OpenStd(<<>>)

-----------------------------------------------------------------------------
(* The reference: the text of a command, and what it should be wired to. *)

\* A command in parentheses where the grammar needs them.
RECURSIVE Text(_)
Block(c) == <<"(">> \o Text(c) \o <<")">>
Unit(c) == IF c.type \in {"EXEC", "REDIR"} THEN Text(c) ELSE Block(c)
Text(c) ==
  CASE c.type = "EXEC" -> FoldLeft(LAMBDA t, w : t \o <<" ">> \o w, <<>>, c.argv)
    [] c.type = "REDIR" ->
         Unit(c.cmd) \o <<IF c.fd = 0 THEN "<" ELSE ">">> \o c.file
    [] c.type = "PIPE" ->
         Unit(c.left) \o <<"|">> \o (IF c.right.type = "PIPE" THEN Text(c.right) ELSE Unit(c.right))
    [] c.type = "BACK" -> (IF c.cmd.type = "LIST" THEN Block(c.cmd) ELSE Text(c.cmd)) \o <<"&">>
    [] OTHER -> (IF c.left.type = "LIST" THEN Block(c.left) ELSE Text(c.left)) \o <<";">> \o Text(c.right)

RECURSIVE Wired(_, _, _)
Wired(c, fds, id) ==
  CASE c.type = "EXEC" -> IF c.argv = <<>> THEN {} ELSE {[run |-> c.argv, id |-> id, fds |-> fds]}
    [] c.type = "REDIR" -> IF c.file \in Unopenable THEN {}
                           ELSE Wired(c.cmd, [fds EXCEPT ![c.fd] = c.file], id)
    [] c.type = "LIST" -> Wired(c.left, fds, Append(id, 0)) \union Wired(c.right, fds, Append(id, 1))
    [] c.type = "BACK" -> Wired(c.cmd, fds, Append(id, 0))
    [] OTHER -> Wired(c.left, [fds EXCEPT ![1] = <<"w", "pipe", id>>], Append(id, 0))
                \union Wired(c.right, [fds EXCEPT ![0] = <<"r", "pipe", id>>], Append(id, 1))
                \union {[run |-> <<>>, id |-> id, fds |-> fds]}

RECURSIVE WordsOf(_)
WordsOf(c) ==
  CASE c.type = "EXEC" -> {c.argv[k] : k \in DOMAIN c.argv}
    [] c.type = "REDIR" -> WordsOf(c.cmd) \union {c.file}
    [] c.type = "BACK" -> WordsOf(c.cmd)
    [] OTHER -> WordsOf(c.left) \union WordsOf(c.right)

\* The parser gives back every command from its text: nothing of the line is
\* dropped, regrouped or refused.
ParsedAs(c, s, p) == ~p.err /\ Command(s, p) = c
ParsesTextOf(c, s) == ParsedAs(c, s, parsecmd(s))
ParsesText(c) == ParsesTextOf(c, Text(c))

\* The words that the pointers of a parsed line reach, once nulterminate has
\* written its zeros over the line, are the words that gettoken found: no
\* zero lands in another word.
WordsOfSurvive(s, p) ==
  ~p.err => \A w \in WordsOf(p.cmd) :
              StringAt(nulterminate(s, p.cmd), w[1]) = SubSeq(s, w[1], w[2] - 1)
WordsSurvive(s) == WordsOfSurvive(s, parsecmd(s))

\* Every command has descriptors 0, 1 and 2 and no other, on what the command
\* line says, and no shell that waits keeps an end of a pipe: every reader of
\* a pipe sees its end when the writer is done.
WiredAsWritten(c) == runcmd(c, Std, <<>>) = Wired(c, Std, <<>>)
=============================================================================
