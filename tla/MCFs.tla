-------------------------------- MODULE MCFs --------------------------------
(***************************************************************************)
(* Fs for TLC: the calls of every run.                                     *)
(***************************************************************************)
EXTENDS Fs

Call(op, pth) == [op |-> op, path |-> pth, new |-> <<>>]
LinkCall(old, new) == [op |-> "link", path |-> old, new |-> new]

Sym == Permutations(Procs)

A == <<"/", "a">>
D == <<"/", "d">>
DA == <<"/", "d", "a">>
Up == <<"/", "d", "a", "..">>

MCCalls == {Call("creat", <<"a">>), Call("openw", D), Call("open", Up), Call("chdir", D), Call("mkdir", D),
  Call("mkdir", DA), Call("unlink", A), Call("unlink", DA), Call("unlink", D), LinkCall(<<"a">>, DA)}
=============================================================================
