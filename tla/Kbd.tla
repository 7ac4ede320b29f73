-------------------------------- MODULE Kbd --------------------------------
(***************************************************************************)
(* The keyboard driver (kbd.c, kbd.h): kbdgetc turns the scan codes that   *)
(* the controller sends into characters, and keeps in shift which modifier *)
(* keys are down, which locks are on and whether an escape code was seen.  *)
(***************************************************************************)
EXTENDS Naturals, Sequences

CONSTANTS
  Keys,         \* keys as sequences of scan codes: <<code>> or <<E0, code>>
  MaxPending    \* bound on the codes that wait in the controller

VARIABLES
  shift,        \* the static variable of kbdgetc, as a set of flags
  down,         \* the keys that are held down
  pending       \* the codes that the controller holds

kbdvars == <<shift, down, pending>>

E0 == 224
RELEASE == 128

\* Code 96 does not exist: released, it would be E0.
ASSUME KbdAssumption == \A k \in Keys : \E c \in 0..(RELEASE - 1) \ {96} : k = <<c>> \/ k = <<E0, c>>

shiftcode(data) ==
  CASE data \in {29, 157} -> {"CTL"}
    [] data \in {42, 54} -> {"SHIFT"}
    [] data \in {56, 184} -> {"ALT"}
    [] OTHER -> {}

togglecode(data) ==
  CASE data = 58 -> {"CAPSLOCK"} [] data = 69 -> {"NUMLOCK"} [] data = 70 -> {"SCROLLLOCK"}
    [] OTHER -> {}

\* A released key that leaves an escape code pending.
ReleasedKeepsEscape(s, data) == s \ shiftcode(data)

Released(s, data) == s \ (shiftcode(data) \union {"E0ESC"})

\* kbdgetc: shift after the code data was read.
kbdgetc(s, data) ==
  LET escaped == "E0ESC" \in s
      pressed == IF escaped THEN data + RELEASE ELSE data
      mods == (s \ {"E0ESC"}) \union shiftcode(pressed)
      toggled == togglecode(pressed)
  IN IF data = E0 THEN s \union {"E0ESC"}
     ELSE IF data >= RELEASE THEN Released(s, IF escaped THEN data ELSE data - RELEASE)
     ELSE (mods \ toggled) \union (toggled \ mods)

-----------------------------------------------------------------------------
KbdInit == shift = {} /\ down = {} /\ pending = <<>>

\* A key goes down, or repeats; its codes go to the controller.
Press(k) ==
  /\ Len(pending) + Len(k) <= MaxPending
  /\ down' = down \union {k}
  /\ pending' = pending \o k
  /\ UNCHANGED shift

\* A key goes up: its last code is sent with the top bit set.
Release(k) ==
  /\ k \in down /\ Len(pending) + Len(k) <= MaxPending
  /\ down' = down \ {k}
  /\ pending' = pending \o [k EXCEPT ![Len(k)] = @ + RELEASE]
  /\ UNCHANGED shift

\* The keyboard interrupt: consoleintr calls kbdgetc.
KbdIntr ==
  /\ pending # <<>>
  /\ shift' = kbdgetc(shift, Head(pending))
  /\ pending' = Tail(pending)
  /\ UNCHANGED down

KbdNext == (\E k \in Keys : Press(k) \/ Release(k)) \/ KbdIntr

KbdSpec == KbdInit /\ [][KbdNext]_kbdvars

-----------------------------------------------------------------------------
\* The modifier that a key is, and those of which a key is down.
Modifiers == {"SHIFT", "CTL", "ALT"}
Modifier(k) == shiftcode(IF Len(k) = 2 THEN k[2] + RELEASE ELSE k[1])
Held == UNION {Modifier(k) : k \in down}

\* When every code was read, no modifier is on of which no key is down, and
\* no escape code is waiting for the next key.
NoStuckModifier ==
  pending = <<>> => "E0ESC" \notin shift /\ shift \intersect Modifiers \subseteq Held

-----------------------------------------------------------------------------
(* The inductive invariant behind NoStuckModifier: the last code is that   *)
(* of a key, and a modifier that is on, or that a waiting code turns on,   *)
(* is held down or is turned off by a later code.                          *)
Escaped(i) == IF i = 1 THEN "E0ESC" \in shift ELSE pending[i - 1] = E0
TurnsOn(code, escaped) ==
  IF code >= RELEASE THEN {} ELSE shiftcode(IF escaped THEN code + RELEASE ELSE code)
TurnsOff(code, escaped) ==
  IF code < RELEASE \/ code = E0 THEN {} ELSE shiftcode(IF escaped THEN code ELSE code - RELEASE)
On(i) == TurnsOn(pending[i], Escaped(i))
Off(i) == TurnsOff(pending[i], Escaped(i))

KbdTypeOK == pending \in Seq(0..255) /\ down \subseteq Keys
KeysComplete == IF pending = <<>> THEN "E0ESC" \notin shift ELSE pending[Len(pending)] # E0
\* From i on, m is turned off.
OffFrom(m, i) == \E j \in i..Len(pending) : m \in Off(j)
OnIsHeld ==
  /\ \A m \in shift \intersect Modifiers : OffFrom(m, 1) \/ m \in Held
  /\ \A i \in 1..Len(pending) : \A m \in On(i) : OffFrom(m, i + 1) \/ m \in Held

KbdInv == KbdTypeOK /\ KeysComplete /\ OnIsHeld
=============================================================================
