-------------------------- MODULE ConsoleTheorems --------------------------
(***************************************************************************)
(* The theorems about the modifiers of kbdgetc, for any keys, and about    *)
(* the console, for every size of its buffer and any number of readers.    *)
(***************************************************************************)
EXTENDS Console, Kbd, FiniteSetTheorems, SequenceTheorems, WellFoundedInduction, TLAPS

\* Most leaves are first-order; a leaf that needs arithmetic or sequences
\* names SMT.
USE ZenonT(30)

-----------------------------------------------------------------------------
(***************************************************************************)
(* The keyboard.                                                           *)
(***************************************************************************)

\* The codes of shiftcode are modifiers, those of togglecode are locks, and
\* neither is the escape.
LEMMA Codes ==
  ASSUME NEW x
  PROVE  /\ shiftcode(x) \subseteq Modifiers /\ "E0ESC" \notin shiftcode(x) /\ "E0ESC" \notin Modifiers
         /\ togglecode(x) \cap Modifiers = {} /\ "E0ESC" \notin togglecode(x)
<1>1. shiftcode(x) \in {{"CTL"}, {"SHIFT"}, {"ALT"}, {}}
  BY SMTT(30) DEF shiftcode
<1>2. togglecode(x) \in {{"CAPSLOCK"}, {"NUMLOCK"}, {"SCROLLLOCK"}, {}}
  BY SMTT(30) DEF togglecode
<1>3. shiftcode(x) \subseteq Modifiers /\ "E0ESC" \notin shiftcode(x) /\ "E0ESC" \notin Modifiers
  BY <1>1 DEF Modifiers
<1>4. togglecode(x) \cap Modifiers = {} /\ "E0ESC" \notin togglecode(x)
  BY <1>2 DEF Modifiers
<1> QED BY <1>3, <1>4

\* What kbdgetc leaves in shift: an escape after E0 only, and no modifier that
\* was off and is not turned on, or that was turned off.
LEMMA KbdgetcIs ==
  ASSUME NEW s, NEW x \in 0..255, NEW esc, esc = ("E0ESC" \in s)
  PROVE  /\ "E0ESC" \in kbdgetc(s, x) <=> x = E0
         /\ \A m \in Modifiers :
              m \in kbdgetc(s, x) => m \in TurnsOn(x, esc) \/ (m \in s /\ m \notin TurnsOff(x, esc))
<1> DEFINE pressed == IF esc THEN x + RELEASE ELSE x
           released == IF esc THEN x ELSE x - RELEASE
           mods == (s \ {"E0ESC"}) \union shiftcode(pressed)
           toggled == togglecode(pressed)
<1>1. kbdgetc(s, x) = IF x = E0 THEN s \union {"E0ESC"}
                      ELSE IF x >= RELEASE THEN s \ (shiftcode(released) \union {"E0ESC"})
                      ELSE (mods \ toggled) \union (toggled \ mods)
  BY DEF kbdgetc, Released
<1>2. CASE x = E0
  <2>1. ~(x < RELEASE) /\ x >= RELEASE
    BY <1>2, SMTT(30) DEF E0, RELEASE
  <2>2. TurnsOff(x, esc) = {}
    BY <1>2 DEF TurnsOff
  <2>3. kbdgetc(s, x) = s \union {"E0ESC"}
    BY <1>1, <1>2
  <2>4. "E0ESC" \notin Modifiers
    BY Codes
  <2> QED BY <1>2, <2>2, <2>3, <2>4
<1>3. CASE x # E0 /\ x >= RELEASE
  <2>1. ~(x < RELEASE)
    BY <1>3, SMTT(30) DEF RELEASE
  <2>2. TurnsOff(x, esc) = shiftcode(released)
    BY <1>3, <2>1 DEF TurnsOff
  <2>3. kbdgetc(s, x) = s \ (shiftcode(released) \union {"E0ESC"})
    BY <1>1, <1>3
  <2> HIDE DEF released
  <2> QED BY <1>3, <2>2, <2>3
<1>4. CASE x # E0 /\ ~(x >= RELEASE)
  <2>1. TurnsOn(x, esc) = shiftcode(pressed)
    BY <1>4 DEF TurnsOn
  <2>2. TurnsOff(x, esc) = {}
    BY <1>4, SMTT(30) DEF TurnsOff, RELEASE
  <2>3. kbdgetc(s, x) = (mods \ toggled) \union (toggled \ mods)
    BY <1>1, <1>4
  <2>4. "E0ESC" \notin shiftcode(pressed) /\ toggled \cap Modifiers = {} /\ "E0ESC" \notin toggled
    BY Codes
  <2> HIDE DEF pressed, toggled
  <2> QED BY <1>4, <2>1, <2>2, <2>3, <2>4
<1> QED BY <1>2, <1>3, <1>4

\* consoleintr reads the next code.
LEMMA KbdIntrStep ==
  ASSUME KbdInv, KbdIntr
  PROVE  KbdInv'
<1> DEFINE n == Len(pending)
           x == pending[1]
           esc == "E0ESC" \in shift
<1>1. /\ pending # <<>> /\ shift' = kbdgetc(shift, Head(pending)) /\ pending' = Tail(pending)
      /\ down' = down
  BY DEF KbdIntr
<1>2. pending \in Seq(0..255)
  BY DEF KbdInv, KbdTypeOK
<1>3. /\ n \in Nat \ {0} /\ x \in 0..255 /\ Head(pending) = x
      /\ pending' \in Seq(0..255) /\ Len(pending') = n - 1
      /\ \A i \in 1..(n - 1) : pending'[i] = pending[i + 1]
  <2>1. n \in Nat \ {0}
    BY <1>1, <1>2, EmptySeq
  <2>2. 1 \in 1..n
    BY <2>1, SMTT(30)
  <2>3. x \in 0..255
    BY <1>2, <2>2, ElementOfSeq
  <2>4. /\ pending' \in Seq(0..255) /\ Len(pending') = n - 1
        /\ \A i \in 1..(n - 1) : pending'[i] = pending[i + 1]
    BY <1>1, <1>2, HeadTailProperties
  <2>5. Head(pending) = x
    BY <1>1, <1>2, <2>1, SMTT(30)
  <2> QED BY <2>1, <2>3, <2>4, <2>5
<1>4. /\ "E0ESC" \in shift' <=> x = E0
      /\ \A m \in Modifiers : m \in shift' => m \in TurnsOn(x, esc) \/ (m \in shift /\ m \notin TurnsOff(x, esc))
  BY <1>1, <1>3, KbdgetcIs
<1>5. Held' = Held
  BY <1>1 DEF Held
<1> HIDE DEF n, x
<1>6. ASSUME NEW i \in 1..(n - 1)
      PROVE  On(i)' = On(i + 1) /\ Off(i)' = Off(i + 1)
  <2>1. pending'[i] = pending[i + 1]
    BY <1>3
  <2>2. Escaped(i)' = Escaped(i + 1)
    <3>1. CASE i = 1
      <4>1. (i + 1) - 1 = 1 /\ i + 1 # 1
        BY <3>1, SMTT(30)
      <4>2. Escaped(i)' = ("E0ESC" \in shift') /\ Escaped(i + 1) = (x = E0)
        BY <3>1, <4>1 DEF Escaped, x
      <4>3. ("E0ESC" \in shift') = (x = E0)
        BY <1>4, SMTT(30)
      <4> QED BY <4>2, <4>3
    <3>2. CASE i # 1
      <4>1. (i + 1) - 1 = i /\ i + 1 # 1 /\ i - 1 \in 1..(n - 1) /\ (i - 1) + 1 = i
        BY <1>3, <3>2, SMTT(30)
      <4>2. pending'[i - 1] = pending[i]
        BY <1>3, <4>1
      <4>3. Escaped(i)' = (pending'[i - 1] = E0) /\ Escaped(i + 1) = (pending[i] = E0)
        BY <3>2, <4>1 DEF Escaped
      <4> QED BY <4>2, <4>3
    <3> QED BY <3>1, <3>2
  <2>3. On(i)' = TurnsOn(pending'[i], Escaped(i)') /\ Off(i)' = TurnsOff(pending'[i], Escaped(i)')
    BY DEF On, Off, TurnsOn, TurnsOff
  <2> QED BY <2>1, <2>2, <2>3 DEF On, Off
<1>7. ASSUME NEW i \in 1..n, NEW m, OffFrom(m, i + 1)
      PROVE  OffFrom(m, i)'
  <2>1. PICK j \in (i + 1)..n : m \in Off(j)
    BY <1>7 DEF OffFrom, n
  <2>2. j - 1 \in 1..(n - 1) /\ j - 1 \in i..(n - 1) /\ (j - 1) + 1 = j
    BY <1>3, SMTT(30)
  <2>3. m \in Off(j - 1)'
    BY <1>6, <2>1, <2>2
  <2>4. OffFrom(m, i)' <=> \E k \in i..(n - 1) : m \in Off(k)'
    BY <1>3 DEF OffFrom
  <2> QED BY <2>2, <2>3, <2>4
<1>8. KbdTypeOK'
  BY <1>1, <1>3 DEF KbdInv, KbdTypeOK
<1>9. KeysComplete'
  <2>1. pending[n] # E0
    BY <1>1 DEF KbdInv, KeysComplete, n
  <2>2. CASE n = 1
    <3>1. pending' = <<>>
      BY <1>3, <2>2, SMTT(30)
    <3> QED BY <1>4, <2>1, <2>2, <3>1 DEF KeysComplete, x
  <2>3. CASE n # 1
    <3>1. n - 1 \in 1..(n - 1) /\ (n - 1) + 1 = n /\ pending' # <<>>
      BY <1>3, <2>3, SMTT(30)
    <3>2. pending'[Len(pending')] = pending[n]
      BY <1>3, <3>1
    <3> QED BY <2>1, <3>1, <3>2 DEF KeysComplete
  <2> QED BY <2>2, <2>3
<1>10. 1 \in 1..n /\ \A i \in 1..(n - 1) : i + 1 \in 1..n
  BY <1>3, SMTT(30)
<1>11. On(1) = TurnsOn(x, esc) /\ Off(1) = TurnsOff(x, esc)
  BY DEF On, Off, Escaped, x
<1>12. ASSUME NEW m \in shift' \cap Modifiers
       PROVE  OffFrom(m, 1)' \/ m \in Held'
  <2>1. CASE m \in On(1)
    <3>1. OffFrom(m, 1 + 1) \/ m \in Held
      BY <1>10, <2>1 DEF KbdInv, OnIsHeld, n
    <3> QED BY <1>5, <1>7, <1>10, <3>1
  <2>2. CASE m \notin On(1)
    <3>1. m \in shift /\ m \notin Off(1)
      BY <1>4, <1>11, <2>2
    <3>2. OffFrom(m, 1) \/ m \in Held
      BY <3>1 DEF KbdInv, OnIsHeld
    <3>3. OffFrom(m, 1) => OffFrom(m, 1 + 1)
      <4>1. \A j \in 1..n : j = 1 \/ j \in (1 + 1)..n
        BY <1>3, SMTT(30)
      <4> QED BY <3>1, <4>1 DEF OffFrom, n
    <3> QED BY <1>5, <1>7, <1>10, <3>2, <3>3
  <2> QED BY <2>1, <2>2
<1>13. ASSUME NEW i \in 1..(n - 1), NEW m \in On(i)'
       PROVE  OffFrom(m, i + 1)' \/ m \in Held'
  <2>1. m \in On(i + 1) /\ i + 1 \in 1..n
    BY <1>6, <1>10
  <2>2. OffFrom(m, (i + 1) + 1) \/ m \in Held
    BY <2>1 DEF KbdInv, OnIsHeld, n
  <2> QED BY <1>5, <1>7, <2>1, <2>2
<1>14. OnIsHeld'
  BY <1>3, <1>12, <1>13 DEF OnIsHeld
<1> QED BY <1>8, <1>9, <1>14 DEF KbdInv

\* After the n codes that wait, m - n more are put: they end with code c, and
\* what was waiting means what it meant.
Sent(c, esc, n, m) ==
  /\ pending' \in Seq(0..255) /\ KeysComplete'
  /\ m \in Nat /\ n \in Nat /\ n < m
  /\ \A i \in 1..n : On(i)' = On(i) /\ Off(i)' = Off(i)
  /\ \A i \in (n + 1)..m :
       On(i)' \subseteq TurnsOn(c, esc) /\ Off(i)' \subseteq TurnsOff(c, esc)
  /\ Off(m)' = TurnsOff(c, esc)

\* The codes of a key that goes down or up are added behind the others.  Code
\* c ends them, after an escape or not; what was waiting means what it meant.
LEMMA KeySent ==
  ASSUME KbdInv, NEW c \in 0..255, c # E0, NEW esc \in BOOLEAN, NEW q,
         q = IF esc THEN <<E0, c>> ELSE <<c>>,
         pending' = pending \o q, shift' = shift,
         NEW n, n = Len(pending), NEW m, m = Len(pending')
  PROVE  Sent(c, esc, n, m)
<1>1. pending \in Seq(0..255) /\ n \in Nat /\ E0 \in 0..255
  BY LenProperties, SMTT(30) DEF KbdInv, KbdTypeOK, E0
<1>2. q \in Seq(0..255) /\ Len(q) = (IF esc THEN 2 ELSE 1) /\ q[Len(q)] = c /\ (esc => q[1] = E0)
  <2>1. CASE esc
    BY <1>1, <2>1, SMTT(30)
  <2>2. CASE ~esc
    BY <1>1, <2>2, SMTT(30)
  <2> QED BY <2>1, <2>2
<1>3. pending' \in Seq(0..255) /\ m = n + Len(q)
  <2>1. pending \in Seq(0..255) /\ q \in Seq(0..255)
    BY <1>1, <1>2
  <2>2. pending \o q \in Seq(0..255) /\ Len(pending \o q) = Len(pending) + Len(q)
    BY <2>1, ConcatProperties
  <2> QED BY <2>2
<1>4. \A i \in 1..n : pending'[i] = pending[i]
  <2> SUFFICES ASSUME NEW i \in 1..n PROVE pending'[i] = pending[i]
    OBVIOUS
  <2>1. i \in 1..(n + Len(q)) /\ i <= n
    BY <1>1, <1>2, SMTT(30)
  <2> QED BY <1>1, <1>2, <2>1, ConcatProperties, SMTT(30)
<1>5. \A i \in 1..Len(q) : pending'[n + i] = q[i]
  <2> SUFFICES ASSUME NEW i \in 1..Len(q) PROVE pending'[n + i] = q[i]
    OBVIOUS
  <2>1. n + i \in 1..(n + Len(q)) /\ ~(n + i <= n) /\ (n + i) - n = i
    BY <1>1, <1>2, SMTT(30)
  <2> QED BY <1>1, <1>2, <2>1, SMTT(30)
<1>6. m \in Nat /\ n < m /\ n + 1 \in Nat
  BY <1>1, <1>2, <1>3, SMTT(30)
<1>7. Len(q) \in 1..Len(q) /\ 1 \in 1..Len(q)
  BY <1>2, SMTT(30)
<1>8. pending'[m] = c /\ (esc => pending'[n + 1] = E0)
  BY <1>2, <1>3, <1>5, <1>7
<1>9. KeysComplete'
  <2>1. pending' # <<>>
    BY <1>3, <1>6, <1>1, SMTT(30)
  <2> QED BY <1>8, <2>1 DEF KeysComplete
<1>10. ASSUME NEW i \in 1..n
       PROVE  On(i)' = On(i) /\ Off(i)' = Off(i)
  <2>1. Escaped(i)' = Escaped(i)
    <3>1. CASE i = 1
      BY <3>1 DEF Escaped
    <3>2. CASE i # 1
      <4>1. i - 1 \in 1..n
        BY <1>1, <3>2, SMTT(30)
      <4> QED BY <1>4, <3>2, <4>1 DEF Escaped
    <3> QED BY <3>1, <3>2
  <2>2. On(i)' = TurnsOn(pending'[i], Escaped(i)') /\ Off(i)' = TurnsOff(pending'[i], Escaped(i)')
    BY DEF On, Off, TurnsOn, TurnsOff
  <2> QED BY <1>4, <2>1, <2>2 DEF On, Off
<1>11. Escaped(n + 1)' = FALSE
  <2>1. CASE n = 0
    <3>1. pending = <<>>
      BY <1>1, <2>1, EmptySeq
    <3>2. "E0ESC" \notin shift /\ n + 1 = 1
      BY <2>1, <3>1, SMTT(30) DEF KbdInv, KeysComplete
    <3> QED BY <3>2, SMTT(30) DEF Escaped
  <2>2. CASE n # 0
    <3>1. pending # <<>>
      BY <2>2, EmptySeq
    <3>2. pending[n] # E0
      BY <3>1 DEF KbdInv, KeysComplete
    <3>3. n + 1 # 1 /\ (n + 1) - 1 = n /\ n \in 1..n
      BY <1>1, <2>2, SMTT(30)
    <3> QED BY <1>4, <3>2, <3>3 DEF Escaped
  <2> QED BY <2>1, <2>2
<1>12. Escaped(m)' = esc
  <2>1. CASE esc
    <3>1. m = n + 2 /\ m # 1 /\ m - 1 = n + 1
      BY <1>1, <1>2, <1>3, <2>1, SMTT(30)
    <3> QED BY <1>8, <2>1, <3>1 DEF Escaped
  <2>2. CASE ~esc
    <3>1. m = n + 1
      BY <1>2, <1>3, <2>2
    <3> QED BY <1>11, <2>2, <3>1
  <2> QED BY <2>1, <2>2
<1>13. On(m)' = TurnsOn(c, esc) /\ Off(m)' = TurnsOff(c, esc)
  <2>1. On(m)' = TurnsOn(pending'[m], Escaped(m)') /\ Off(m)' = TurnsOff(pending'[m], Escaped(m)')
    BY DEF On, Off, TurnsOn, TurnsOff
  <2> QED BY <1>8, <1>12, <2>1
<1>14. ASSUME NEW i \in (n + 1)..m
       PROVE  On(i)' \subseteq TurnsOn(c, esc) /\ Off(i)' \subseteq TurnsOff(c, esc)
  <2>1. CASE i = m
    BY <1>13, <2>1
  <2>2. CASE i # m
    <3>1. esc /\ i = n + 1
      <4>1. CASE esc
        BY <1>1, <1>2, <1>3, <2>2, <4>1, SMTT(30)
      <4>2. CASE ~esc
        BY <1>1, <1>2, <1>3, <2>2, <4>2, SMTT(30)
      <4> QED BY <4>1, <4>2
    <3>2. pending'[i] = E0
      BY <1>8, <3>1
    <3>3. On(i)' = TurnsOn(E0, Escaped(i)') /\ Off(i)' = TurnsOff(E0, Escaped(i)')
      BY <3>2 DEF On, Off, TurnsOn, TurnsOff
    <3>4. E0 >= RELEASE
      BY SMTT(30) DEF E0, RELEASE
    <3>5. On(i)' = {} /\ Off(i)' = {}
      BY <3>3, <3>4 DEF TurnsOn, TurnsOff
    <3> QED BY <3>5
  <2> QED BY <2>1, <2>2
<1> QED BY <1>1, <1>3, <1>6, <1>9, <1>10, <1>13, <1>14 DEF Sent

\* A code that turns something on is that of a key going down, as the key is.
LEMMA KeyIs ==
  ASSUME NEW k \in Keys
  PROVE  \E c \in 0..(RELEASE - 1), esc \in BOOLEAN :
           /\ c \in 0..255 /\ c + RELEASE \in 0..255 /\ c # E0 /\ c + RELEASE # E0
           /\ k = (IF esc THEN <<E0, c>> ELSE <<c>>)
           /\ [k EXCEPT ![Len(k)] = @ + RELEASE] = (IF esc THEN <<E0, c + RELEASE>> ELSE <<c + RELEASE>>)
           /\ TurnsOn(c, esc) = Modifier(k) /\ TurnsOff(c, esc) = {}
           /\ TurnsOn(c + RELEASE, esc) = {} /\ TurnsOff(c + RELEASE, esc) = Modifier(k)
<1>1. PICK c \in 0..(RELEASE - 1) \ {96} : k = <<c>> \/ k = <<E0, c>>
  BY KbdAssumption
<1>2. /\ c \in 0..(RELEASE - 1) /\ c \in 0..255 /\ c + RELEASE \in 0..255 /\ c # E0 /\ c + RELEASE # E0
      /\ ~(c >= RELEASE) /\ c < RELEASE /\ c + RELEASE >= RELEASE /\ ~(c + RELEASE < RELEASE)
      /\ (c + RELEASE) - RELEASE = c
  BY SMTT(30) DEF RELEASE, E0
<1>3. \A esc \in BOOLEAN : TurnsOff(c, esc) = {} /\ TurnsOn(c + RELEASE, esc) = {}
  BY <1>2 DEF TurnsOff, TurnsOn
<1>4. \A esc \in BOOLEAN :
        /\ TurnsOn(c, esc) = shiftcode(IF esc THEN c + RELEASE ELSE c)
        /\ TurnsOff(c + RELEASE, esc) = shiftcode(IF esc THEN c + RELEASE ELSE c)
  BY <1>2 DEF TurnsOff, TurnsOn
<1>5. CASE k = <<c>>
  <2>1. Len(k) = 1 /\ k[1] = c /\ Len(k) # 2
    BY <1>5, SMTT(30)
  <2>2. Modifier(k) = shiftcode(c)
    BY <2>1 DEF Modifier
  <2>3. [k EXCEPT ![Len(k)] = @ + RELEASE] = <<c + RELEASE>>
    BY <1>2, <1>5, <2>1, SMTT(30)
  <2>4. TurnsOn(c, FALSE) = Modifier(k) /\ TurnsOff(c + RELEASE, FALSE) = Modifier(k)
    BY <1>4, <2>2
  <2>5. TurnsOff(c, FALSE) = {} /\ TurnsOn(c + RELEASE, FALSE) = {}
    BY <1>3
  <2> WITNESS c \in 0..(RELEASE - 1), FALSE \in BOOLEAN
  <2> QED BY <1>2, <1>5, <2>3, <2>4, <2>5
<1>6. CASE k = <<E0, c>>
  <2>1. Len(k) = 2 /\ k[2] = c
    BY <1>6, SMTT(30)
  <2>2. Modifier(k) = shiftcode(c + RELEASE)
    BY <2>1 DEF Modifier
  <2>3. [k EXCEPT ![Len(k)] = @ + RELEASE] = <<E0, c + RELEASE>>
    BY <1>2, <1>6, <2>1, SMTT(30)
  <2>4. TurnsOn(c, TRUE) = Modifier(k) /\ TurnsOff(c + RELEASE, TRUE) = Modifier(k)
    BY <1>4, <2>2
  <2>5. TurnsOff(c, TRUE) = {} /\ TurnsOn(c + RELEASE, TRUE) = {}
    BY <1>3
  <2> WITNESS c \in 0..(RELEASE - 1), TRUE \in BOOLEAN
  <2> QED BY <1>2, <1>6, <2>3, <2>4, <2>5
<1> QED BY <1>1, <1>5, <1>6

\* A key goes down: what its codes turn on, it holds.
LEMMA PressStep ==
  ASSUME KbdInv, NEW k \in Keys, Press(k)
  PROVE  KbdInv'
<1>1. pending' = pending \o k /\ down' = down \union {k} /\ shift' = shift
  BY DEF Press
<1>2. PICK c \in 0..(RELEASE - 1), esc \in BOOLEAN :
           /\ c \in 0..255 /\ c # E0
           /\ k = (IF esc THEN <<E0, c>> ELSE <<c>>)
           /\ TurnsOn(c, esc) = Modifier(k) /\ TurnsOff(c, esc) = {}
  BY KeyIs
<1>3. PICK n : n = Len(pending)
  OBVIOUS
<1>4. PICK m : m = Len(pending')
  OBVIOUS
<1>5. /\ pending' \in Seq(0..255) /\ KeysComplete'
      /\ m \in Nat /\ n \in Nat /\ n < m
      /\ \A i \in 1..n : On(i)' = On(i) /\ Off(i)' = Off(i)
      /\ \A i \in (n + 1)..m : On(i)' \subseteq Modifier(k)
  <2>1. /\ pending' \in Seq(0..255) /\ KeysComplete'
        /\ m \in Nat /\ n \in Nat /\ n < m
        /\ \A i \in 1..n : On(i)' = On(i) /\ Off(i)' = Off(i)
        /\ \A i \in (n + 1)..m : On(i)' \subseteq TurnsOn(c, esc)
    <3> HIDE <1>2
    <3>1. c \in 0..255 /\ c # E0 /\ k = (IF esc THEN <<E0, c>> ELSE <<c>>)
      BY <1>2
    <3>2. Sent(c, esc, n, m)
      BY <1>1, <1>3, <1>4, <3>1, KeySent
    <3> QED BY <3>2 DEF Sent
  <2> QED BY <1>2, <2>1, SMTT(30)
<1>6. Held \subseteq Held' /\ Modifier(k) \subseteq Held'
  <2>1. Held' = UNION {Modifier(j) : j \in down'}
    BY DEF Held, Modifier, shiftcode
  <2> QED BY <1>1, <2>1 DEF Held
<1>7. \A x, i : i \in Nat \ {0} /\ OffFrom(x, i) => OffFrom(x, i)'
  <2> SUFFICES ASSUME NEW x, NEW i \in Nat \ {0}, OffFrom(x, i)
               PROVE  OffFrom(x, i)'
    OBVIOUS
  <2>1. PICK j \in i..n : x \in Off(j)
    BY <1>3 DEF OffFrom
  <2>2. j \in 1..n /\ j \in i..m
    BY <1>5, SMTT(30)
  <2>3. x \in Off(j)'
    BY <1>5, <2>1, <2>2
  <2> QED BY <1>4, <2>2, <2>3 DEF OffFrom
<1>8. OnIsHeld'
  <2>1. ASSUME NEW x \in shift' \intersect Modifiers
        PROVE  OffFrom(x, 1)' \/ x \in Held'
    <3>1. x \in shift \intersect Modifiers /\ 1 \in Nat \ {0}
      BY <1>1, <2>1, SMTT(30)
    <3> QED BY <1>6, <1>7, <3>1 DEF KbdInv, OnIsHeld
  <2>2. ASSUME NEW i \in 1..m, NEW x \in On(i)'
        PROVE  OffFrom(x, i + 1)' \/ x \in Held'
    <3>1. CASE i \in 1..n
      <4>1. x \in On(i) /\ i + 1 \in Nat \ {0}
        BY <1>5, <3>1, <2>2, SMTT(30)
      <4> QED BY <1>3, <1>6, <1>7, <3>1, <4>1 DEF KbdInv, OnIsHeld
    <3>2. CASE i \notin 1..n
      <4>1. i \in (n + 1)..m
        BY <1>5, <3>2, SMTT(30)
      <4> QED BY <1>5, <1>6, <2>2, <4>1
    <3> QED BY <3>1, <3>2
  <2> QED BY <1>4, <2>1, <2>2 DEF OnIsHeld, Modifiers
<1>9. KbdTypeOK'
  BY <1>1, <1>5 DEF KbdInv, KbdTypeOK
<1> QED BY <1>5, <1>8, <1>9 DEF KbdInv

\* A key goes up: its last code turns off what only it held.
LEMMA ReleaseStep ==
  ASSUME KbdInv, NEW k \in Keys, Release(k)
  PROVE  KbdInv'
<1>1. /\ pending' = pending \o [k EXCEPT ![Len(k)] = @ + RELEASE]
      /\ down' = down \ {k} /\ shift' = shift
  BY DEF Release
<1>2. PICK c \in 0..(RELEASE - 1), esc \in BOOLEAN :
           /\ c + RELEASE \in 0..255 /\ c + RELEASE # E0
           /\ [k EXCEPT ![Len(k)] = @ + RELEASE] = (IF esc THEN <<E0, c + RELEASE>> ELSE <<c + RELEASE>>)
           /\ TurnsOn(c + RELEASE, esc) = {} /\ TurnsOff(c + RELEASE, esc) = Modifier(k)
  BY KeyIs
<1>3. PICK n : n = Len(pending)
  OBVIOUS
<1>4. PICK m : m = Len(pending')
  OBVIOUS
<1>5. /\ pending' \in Seq(0..255) /\ KeysComplete'
      /\ m \in Nat /\ n \in Nat /\ n < m
      /\ \A i \in 1..n : On(i)' = On(i) /\ Off(i)' = Off(i)
      /\ \A i \in (n + 1)..m : On(i)' = {}
      /\ Off(m)' = Modifier(k)
  <2>1. PICK up : up = c + RELEASE
    OBVIOUS
  <2>2. /\ up \in 0..255 /\ up # E0
        /\ [k EXCEPT ![Len(k)] = @ + RELEASE] = (IF esc THEN <<E0, up>> ELSE <<up>>)
        /\ TurnsOn(up, esc) = {} /\ TurnsOff(up, esc) = Modifier(k)
    BY <1>2, <2>1
  <2>3. /\ pending' \in Seq(0..255) /\ KeysComplete'
        /\ m \in Nat /\ n \in Nat /\ n < m
        /\ \A i \in 1..n : On(i)' = On(i) /\ Off(i)' = Off(i)
        /\ \A i \in (n + 1)..m : On(i)' \subseteq TurnsOn(up, esc)
        /\ Off(m)' = TurnsOff(up, esc)
    <3> DEFINE q == [k EXCEPT ![Len(k)] = @ + RELEASE]
    <3>1. up \in 0..255 /\ up # E0 /\ q = (IF esc THEN <<E0, up>> ELSE <<up>>)
      BY <2>2
    <3>2. pending' = pending \o q /\ shift' = shift
      BY <1>1
    <3> HIDE DEF q
    <3>3. Sent(up, esc, n, m)
      BY <1>3, <1>4, <3>1, <3>2, KeySent
    <3> QED BY <3>3 DEF Sent
  <2>4. \A i \in (n + 1)..m : On(i)' = {}
    BY <2>2, <2>3
  <2> QED BY <2>2, <2>3, <2>4
<1>6. Held \subseteq Held' \union Modifier(k)
  <2>1. Held' = UNION {Modifier(j) : j \in down'}
    BY DEF Held, Modifier, shiftcode
  <2> QED BY <1>1, <2>1 DEF Held
<1>7. \A x, i : i \in 1..m /\ (OffFrom(x, i) \/ x \in Held) => OffFrom(x, i)' \/ x \in Held'
  <2> SUFFICES ASSUME NEW x, NEW i \in 1..m, OffFrom(x, i) \/ x \in Held
               PROVE  OffFrom(x, i)' \/ x \in Held'
    OBVIOUS
  <2>1. CASE OffFrom(x, i)
    <3>1. PICK j \in i..n : x \in Off(j)
      BY <1>3, <2>1 DEF OffFrom
    <3>2. j \in 1..n /\ j \in i..m
      BY <1>5, SMTT(30)
    <3>3. x \in Off(j)'
      BY <1>5, <3>1, <3>2
    <3> QED BY <1>4, <3>2, <3>3 DEF OffFrom
  <2>2. CASE x \in Held /\ x \notin Held'
    <3>1. x \in Off(m)'
      BY <1>5, <1>6, <2>2
    <3>2. m \in i..m
      BY <1>5, SMTT(30)
    <3> QED BY <1>4, <3>1, <3>2 DEF OffFrom
  <2> QED BY <2>1, <2>2
<1>8. OnIsHeld'
  <2>1. ASSUME NEW x \in shift' \intersect Modifiers
        PROVE  OffFrom(x, 1)' \/ x \in Held'
    <3>1. x \in shift \intersect Modifiers /\ 1 \in 1..m
      BY <1>1, <1>5, <2>1, SMTT(30)
    <3> QED BY <1>7, <3>1 DEF KbdInv, OnIsHeld
  <2>2. ASSUME NEW i \in 1..m, NEW x \in On(i)'
        PROVE  OffFrom(x, i + 1)' \/ x \in Held'
    <3>1. CASE i \in 1..n
      <4>1. x \in On(i) /\ i + 1 \in 1..m
        BY <1>5, <3>1, <2>2, SMTT(30)
      <4> QED BY <1>3, <1>7, <3>1, <4>1 DEF KbdInv, OnIsHeld
    <3>2. CASE i \notin 1..n
      <4>1. i \in (n + 1)..m
        BY <1>5, <3>2, SMTT(30)
      <4> QED BY <1>5, <2>2, <4>1
    <3> QED BY <3>1, <3>2
  <2> QED BY <1>4, <2>1, <2>2 DEF OnIsHeld, Modifiers
<1>9. KbdTypeOK'
  BY <1>1, <1>5 DEF KbdInv, KbdTypeOK
<1> QED BY <1>5, <1>8, <1>9 DEF KbdInv

\* At first no code waits and nothing is on.
LEMMA KbdStart ==
  ASSUME KbdInit
  PROVE  KbdInv
<1>1. pending = <<>> /\ shift = {} /\ down = {}
  BY DEF KbdInit
<1>2. pending \in Seq(0..255) /\ 1..Len(pending) = {}
  BY <1>1, SMTT(30)
<1>3. KbdTypeOK /\ KeysComplete
  BY <1>1, <1>2 DEF KbdTypeOK, KeysComplete
<1>4. OnIsHeld
  BY <1>1, <1>2 DEF OnIsHeld
<1> QED BY <1>3, <1>4 DEF KbdInv

\* The keyboard driver (kbdgetc, with the keys that are pressed and released in
\* any order and any number of codes waiting): once every code was read, no
\* modifier is on of which no key is down, and no escape code is pending.
THEOREM NoModifierSticks == KbdSpec => []NoStuckModifier
<1>1. KbdInit => KbdInv
  BY KbdStart
<1>2. KbdInv /\ [KbdNext]_kbdvars => KbdInv'
  <2> SUFFICES ASSUME KbdInv, [KbdNext]_kbdvars PROVE KbdInv'
    OBVIOUS
  <2>1. ASSUME NEW k \in Keys, Press(k) PROVE KbdInv'
    BY <2>1, PressStep
  <2>2. ASSUME NEW k \in Keys, Release(k) PROVE KbdInv'
    BY <2>2, ReleaseStep
  <2>3. CASE KbdIntr
    BY <2>3, KbdIntrStep
  <2>4. CASE UNCHANGED kbdvars
    BY <2>4 DEF kbdvars, KbdInv, KbdTypeOK, KeysComplete, OnIsHeld, OffFrom, On, Off, TurnsOn,
                TurnsOff, Escaped, Held, Modifier, Modifiers
  <2> QED BY <2>1, <2>2, <2>3, <2>4 DEF KbdNext
<1>3. KbdInv => NoStuckModifier
  <2> SUFFICES ASSUME KbdInv, pending = <<>>
               PROVE  "E0ESC" \notin shift /\ shift \intersect Modifiers \subseteq Held
    BY DEF NoStuckModifier
  <2>1. 1..Len(pending) = {}
    BY SMTT(30)
  <2> QED BY <2>1 DEF KbdInv, KeysComplete, OnIsHeld, OffFrom
<1> QED BY <1>1, <1>2, <1>3, PTL DEF KbdSpec

-----------------------------------------------------------------------------
(***************************************************************************)
(* The console.                                                            *)
(***************************************************************************)

\* Products of natural numbers are ordered as their second factors.
LEMMA TimesMonotone ==
  ASSUME NEW c \in Nat, NEW x \in Int, NEW y \in Int, x <= y
  PROVE  c * x <= c * y
BY SMTT(30)

\* Quotient and remainder.
LEMMA Division ==
  ASSUME NEW c \in Nat \ {0}, NEW x \in Nat
  PROVE  /\ x \div c \in Nat /\ x % c \in 0..(c - 1)
         /\ x = c * (x \div c) + (x % c)
BY SMTT(30)

\* The remainder is the only one.
LEMMA Remainder ==
  ASSUME NEW c \in Nat \ {0}, NEW x \in Nat, NEW d \in Int, NEW m \in 0..(c - 1), x = c * d + m
  PROVE  x % c = m
<1> DEFINE q == x \div c
           n == x % c
<1>1. q \in Nat /\ n \in 0..(c - 1) /\ x = c * q + n
  BY Division
<1> HIDE DEF q, n
<1>2. CASE q = d
  BY <1>1, <1>2, SMTT(30) DEF n
<1>3. CASE q + 1 <= d
  <2>1. c * (q + 1) <= c * d
    BY <1>1, <1>3, TimesMonotone, SMTT(30)
  <2>2. c * (q + 1) = c * q + c
    BY <1>1, SMTT(30)
  <2> QED BY <1>1, <2>1, <2>2, SMTT(30)
<1>4. CASE d + 1 <= q
  <2>1. c * (d + 1) <= c * q
    BY <1>1, <1>4, TimesMonotone, SMTT(30)
  <2>2. c * (d + 1) = c * d + c
    BY <1>1, SMTT(30)
  <2> QED BY <1>1, <2>1, <2>2, SMTT(30)
<1> QED BY <1>1, <1>2, <1>3, <1>4, SMTT(30)

\* Two positions of the ring less than INPUT_BUF apart are different places.
LEMMA PlacesDiffer ==
  ASSUME NEW x \in Nat, NEW a \in 1..(INPUT_BUF - 1)
  PROVE  (x + a) % INPUT_BUF # x % INPUT_BUF
<1> DEFINE q == x \div INPUT_BUF
           m == x % INPUT_BUF
<1>1. INPUT_BUF \in Nat \ {0} /\ q \in Nat /\ m \in 0..(INPUT_BUF - 1) /\ x = INPUT_BUF * q + m
  BY ConsoleAssumption, Division
<1> HIDE DEF q, m
<1>2. CASE m + a < INPUT_BUF
  <2>1. x + a \in Nat /\ m + a \in 0..(INPUT_BUF - 1) /\ x + a = INPUT_BUF * q + (m + a)
    BY <1>1, <1>2, SMTT(30)
  <2>2. (x + a) % INPUT_BUF = m + a
    BY <1>1, <2>1, Remainder, SMTT(30)
  <2> QED BY <1>1, <2>2, SMTT(30) DEF m
<1>3. CASE m + a >= INPUT_BUF
  <2>1. INPUT_BUF * (q + 1) = INPUT_BUF * q + INPUT_BUF
    BY <1>1, SMTT(30)
  <2>2. /\ x + a \in Nat /\ (m + a) - INPUT_BUF \in 0..(INPUT_BUF - 1) /\ q + 1 \in Int
        /\ x + a = INPUT_BUF * (q + 1) + ((m + a) - INPUT_BUF)
    BY <1>1, <1>3, <2>1, SMTT(30)
  <2>3. (x + a) % INPUT_BUF = (m + a) - INPUT_BUF
    BY <1>1, <2>2, Remainder
  <2> QED BY <1>1, <2>3, SMTT(30) DEF m
<1> QED BY <1>1, <1>2, <1>3, SMTT(30)

\* The places of the ring go on where the counters wrap: Width is a multiple
\* of INPUT_BUF.
LEMMA PlaceWraps ==
  ASSUME NEW x \in Nat, Width <= x
  PROVE  (x - Width) % INPUT_BUF = x % INPUT_BUF
<1> DEFINE v == Width \div INPUT_BUF
           q == x \div INPUT_BUF
           m == x % INPUT_BUF
<1>1. /\ INPUT_BUF \in Nat \ {0} /\ Width \in Nat
      /\ q \in Nat /\ m \in 0..(INPUT_BUF - 1) /\ x = INPUT_BUF * q + m
      /\ v \in Nat /\ Width = INPUT_BUF * v + (Width % INPUT_BUF)
  BY ConsoleAssumption, Division
<1>2. Width = INPUT_BUF * v
  BY <1>1, ConsoleAssumption, SMTT(30)
<1> HIDE DEF q, m, v
<1>3. INPUT_BUF * (q - v) = INPUT_BUF * q - INPUT_BUF * v
  BY <1>1, SMTT(30)
<1>4. x - Width \in Nat /\ q - v \in Int /\ x - Width = INPUT_BUF * (q - v) + m
  BY <1>1, <1>2, <1>3, SMTT(30)
<1>5. (x - Width) % INPUT_BUF = m
  BY <1>1, <1>4, Remainder
<1> QED BY <1>5 DEF m

\* A counter moved on by k.
LEMMA PlusIs ==
  ASSUME NEW i \in 0..(Width - 1), NEW k \in 0..Width
  PROVE  /\ Plus(i, k) \in 0..(Width - 1)
         /\ Plus(i, k) = IF i + k < Width THEN i + k ELSE (i + k) - Width
         /\ Plus(i, k) % INPUT_BUF = (i + k) % INPUT_BUF
         /\ (i + k) % INPUT_BUF \in 0..(INPUT_BUF - 1)
<1>1. Width \in Nat \ {0} /\ INPUT_BUF \in Nat \ {0} /\ i + k \in Nat
  BY ConsoleAssumption, SMTT(30)
<1>2. CASE i + k < Width
  <2>1. (i + k) % Width = i + k
    BY <1>1, <1>2, Remainder, SMTT(30)
  <2>2. (i + k) % INPUT_BUF \in 0..(INPUT_BUF - 1)
    BY <1>1, Division
  <2>3. Plus(i, k) = i + k /\ i + k \in 0..(Width - 1)
    BY <1>1, <1>2, <2>1, SMTT(30) DEF Plus
  <2> QED BY <1>2, <2>2, <2>3
<1>3. CASE Width <= i + k
  <2>1. i + k = Width * 1 + ((i + k) - Width) /\ (i + k) - Width \in 0..(Width - 1)
    BY <1>1, <1>3, SMTT(30)
  <2>2. (i + k) % Width = (i + k) - Width
    BY <1>1, <2>1, Remainder, SMTT(30)
  <2>3. ((i + k) - Width) % INPUT_BUF = (i + k) % INPUT_BUF
    <3> DEFINE x == i + k
    <3>1. x \in Nat /\ Width <= x
      BY <1>1, <1>3
    <3> HIDE DEF x
    <3>2. (x - Width) % INPUT_BUF = x % INPUT_BUF
      BY <3>1, PlaceWraps
    <3> QED BY <3>2 DEF x
  <2>4. (i + k) % INPUT_BUF \in 0..(INPUT_BUF - 1)
    BY <1>1, Division
  <2> HIDE <2>3
  <2>5. Plus(i, k) = (i + k) - Width
    BY <2>2 DEF Plus
  <2>6. Plus(i, k) \in 0..(Width - 1) /\ ~(i + k < Width)
    BY <1>1, <1>3, <2>1, <2>5, SMTT(30)
  <2> QED BY <2>3, <2>4, <2>5, <2>6
<1> QED BY <1>1, <1>2, <1>3, SMTT(30)

\* The distance from one counter to another.
LEMMA MinusIs ==
  ASSUME NEW i \in 0..(Width - 1), NEW k \in 0..Width
  PROVE  /\ Minus(i, k) \in 0..(Width - 1)
         /\ Minus(i, k) = IF k <= i THEN i - k ELSE i + Width - k
<1>1. Width \in Nat \ {0} /\ i + Width - k \in Nat
  BY ConsoleAssumption, SMTT(30)
<1>2. CASE k <= i
  <2>1. i + Width - k = Width * 1 + (i - k) /\ i - k \in 0..(Width - 1)
    BY <1>1, <1>2, SMTT(30)
  <2>2. (i + Width - k) % Width = i - k
    BY <1>1, <2>1, Remainder, SMTT(30)
  <2> QED BY <1>2, <2>1, <2>2 DEF Minus
<1>3. CASE ~(k <= i)
  <2>1. i + Width - k = Width * 0 + (i + Width - k) /\ i + Width - k \in 0..(Width - 1)
    BY <1>1, <1>3, SMTT(30)
  <2>2. (i + Width - k) % Width = i + Width - k
    BY <1>1, <2>1, Remainder, SMTT(30)
  <2> QED BY <1>3, <2>1, <2>2 DEF Minus
<1> QED BY <1>2, <1>3

\* A counter is reached from another by their distance.
LEMMA Reached ==
  ASSUME NEW i \in 0..(Width - 1), NEW j \in 0..(Width - 1)
  PROVE  /\ Minus(j, i) \in 0..(Width - 1)
         /\ Plus(i, Minus(j, i)) = j
         /\ j % INPUT_BUF = (i + Minus(j, i)) % INPUT_BUF
<1>1. /\ Minus(j, i) \in 0..(Width - 1)
      /\ Minus(j, i) = IF i <= j THEN j - i ELSE j + (Width - i)
  BY MinusIs, ConsoleAssumption, SMTT(30)
<1> DEFINE k == Minus(j, i)
<1> HIDE DEF k
<1>2. k \in 0..(Width - 1) /\ k \in 0..Width /\ k = IF i <= j THEN j - i ELSE j + (Width - i)
  BY <1>1, ConsoleAssumption, SMTT(30) DEF k
<1>3. /\ Plus(i, k) = IF i + k < Width THEN i + k ELSE (i + k) - Width
      /\ Plus(i, k) % INPUT_BUF = (i + k) % INPUT_BUF
  BY <1>2, PlusIs
<1>4. Plus(i, k) = j
  BY <1>2, <1>3, ConsoleAssumption, SMTT(30)
<1> QED BY <1>2, <1>3, <1>4 DEF k

\* The distance to a counter that has moved on.
LEMMA MovedOn ==
  ASSUME NEW i \in 0..(Width - 1), NEW j \in 0..(Width - 1), NEW k \in 0..(Width - 1)
  PROVE  /\ Plus(j, k) \in 0..(Width - 1)
         /\ Minus(j, i) + k < Width => Minus(Plus(j, k), i) = Minus(j, i) + k
         /\ k <= Minus(j, i) => Minus(j, Plus(i, k)) = Minus(j, i) - k
         /\ Minus(Plus(i, k), i) = k
<1>1. k \in 0..Width /\ Width \in Nat /\ i \in 0..Width
  BY ConsoleAssumption, SMTT(30)
<1> DEFINE u == Plus(j, k)
           v == Plus(i, k)
<1>2. u \in 0..(Width - 1) /\ u = IF j + k < Width THEN j + k ELSE (j + k) - Width
  BY <1>1, PlusIs
<1>3. v \in 0..(Width - 1) /\ v = IF i + k < Width THEN i + k ELSE (i + k) - Width
  BY <1>1, PlusIs
<1> HIDE DEF u, v
<1>4. v \in 0..Width
  BY <1>1, <1>3, SMTT(30)
<1>5. /\ Minus(j, i) = IF i <= j THEN j - i ELSE j + Width - i
      /\ Minus(u, i) = IF i <= u THEN u - i ELSE u + Width - i
      /\ Minus(j, v) = IF v <= j THEN j - v ELSE j + Width - v
      /\ Minus(v, i) = IF i <= v THEN v - i ELSE v + Width - i
  BY <1>1, <1>2, <1>3, <1>4, MinusIs
<1>6. Minus(j, i) + k < Width => Minus(u, i) = Minus(j, i) + k
  BY <1>1, <1>2, <1>5, SMTT(30)
<1>7. k <= Minus(j, i) => Minus(j, v) = Minus(j, i) - k
  BY <1>1, <1>3, <1>5, SMTT(30)
<1>8. Minus(v, i) = k
  BY <1>1, <1>3, <1>5, SMTT(30)
<1> QED BY <1>2, <1>6, <1>7, <1>8 DEF u, v

-----------------------------------------------------------------------------
\* What the buffer b holds from counter i up to counter j.
Text(b, i, j) == [k \in 1..Minus(j, i) |-> b[(i + (k - 1)) % INPUT_BUF]]
Bufs == [0..(INPUT_BUF - 1) -> Chars]

LEMMA TextIs ==
  ASSUME NEW b \in Bufs, NEW i \in 0..(Width - 1), NEW j \in 0..(Width - 1)
  PROVE  /\ Minus(j, i) \in Nat
         /\ Text(b, i, j) \in Seq(Chars) /\ Len(Text(b, i, j)) = Minus(j, i)
         /\ \A k \in 1..Minus(j, i) : Text(b, i, j)[k] = b[(i + (k - 1)) % INPUT_BUF]
<1>1. Minus(j, i) \in Nat
  BY Reached, ConsoleAssumption, SMTT(30)
<1>2. ASSUME NEW k \in 1..Minus(j, i)
      PROVE  b[(i + (k - 1)) % INPUT_BUF] \in Chars
  <2>1. i + (k - 1) \in Nat /\ INPUT_BUF \in Nat \ {0}
    BY <1>1, ConsoleAssumption, SMTT(30)
  <2>2. (i + (k - 1)) % INPUT_BUF \in 0..(INPUT_BUF - 1)
    BY <2>1, Division
  <2> QED BY <2>2 DEF Bufs
<1> DEFINE m == Minus(j, i)
           f(k) == b[(i + (k - 1)) % INPUT_BUF]
<1>3. m \in Nat /\ \A k \in 1..m : f(k) \in Chars
  BY <1>1, <1>2
<1> HIDE DEF m, f
<1>4. [k \in 1..m |-> f(k)] \in Seq(Chars) /\ Len([k \in 1..m |-> f(k)]) = m
  BY <1>3, SMTT(30)
<1>5. Text(b, i, j) = [k \in 1..m |-> f(k)]
  BY DEF Text, m, f
<1> QED BY <1>1, <1>4, <1>5 DEF m, f

\* Storing at e changes nothing before e.
LEMMA TextKept ==
  ASSUME NEW b \in Bufs, NEW c \in Chars, NEW i \in 0..(Width - 1), NEW j \in 0..(Width - 1),
         NEW e \in 0..(Width - 1),
         Minus(j, i) + Minus(e, j) = Minus(e, i), Minus(e, i) < INPUT_BUF
  PROVE  /\ [b EXCEPT ![e % INPUT_BUF] = c] \in Bufs
         /\ Text([b EXCEPT ![e % INPUT_BUF] = c], i, j) = Text(b, i, j)
<1> DEFINE d == [b EXCEPT ![e % INPUT_BUF] = c]
<1>1. d \in Bufs
  BY DEF Bufs
<1>2. ASSUME NEW k \in 1..Minus(j, i)
      PROVE  d[(i + (k - 1)) % INPUT_BUF] = b[(i + (k - 1)) % INPUT_BUF]
  <2> DEFINE x == i + (k - 1)
             a == Minus(e, i) - (k - 1)
  <2>1. /\ Minus(e, i) \in 0..(Width - 1) /\ Minus(j, i) \in 0..(Width - 1)
        /\ Minus(e, j) \in 0..(Width - 1) /\ e % INPUT_BUF = (i + Minus(e, i)) % INPUT_BUF
    BY Reached
  <2>3. x \in Nat /\ a \in 1..INPUT_BUF /\ x + a = i + Minus(e, i)
    BY <2>1, ConsoleAssumption, SMTT(30)
  <2>4. INPUT_BUF \in Nat \ {0} /\ a # INPUT_BUF
    BY <2>1, ConsoleAssumption, SMTT(30)
  <2> HIDE DEF x, a
  <2>5. a \in 1..(INPUT_BUF - 1)
    BY <2>3, <2>4, SMTT(30)
  <2>6. (x + a) % INPUT_BUF # x % INPUT_BUF
    BY <2>3, <2>5, PlacesDiffer
  <2>7. e % INPUT_BUF # x % INPUT_BUF
    BY <2>1, <2>3, <2>6
  <2>8. x % INPUT_BUF \in 0..(INPUT_BUF - 1)
    BY <2>3, <2>4, Division
  <2>9. d[x % INPUT_BUF] = b[x % INPUT_BUF]
    BY <2>7, <2>8 DEF Bufs
  <2> QED BY <2>9 DEF x
<1> HIDE DEF d
<1>3. Text(d, i, j) = Text(b, i, j)
  BY <1>2 DEF Text
<1> QED BY <1>1, <1>3 DEF d

\* Storing at e adds a character to the text that ends there.
LEMMA TextStored ==
  ASSUME NEW b \in Bufs, NEW c \in Chars, NEW i \in 0..(Width - 1), NEW e \in 0..(Width - 1),
         Minus(e, i) < INPUT_BUF
  PROVE  /\ Plus(e, 1) \in 0..(Width - 1) /\ Minus(Plus(e, 1), i) = Minus(e, i) + 1
         /\ Text([b EXCEPT ![e % INPUT_BUF] = c], i, Plus(e, 1)) = Append(Text(b, i, e), c)
<1> DEFINE d == [b EXCEPT ![e % INPUT_BUF] = c]
           n == Minus(e, i)
           s == Text(d, i, Plus(e, 1))
           t == Text(b, i, e)
<1>2. n \in Nat /\ n + 1 <= INPUT_BUF /\ INPUT_BUF < Width /\ 1 \in 0..(Width - 1) /\ 0 \in 0..(Width - 1)
  BY Reached, ConsoleAssumption, SMTT(30)
<1>3. /\ Minus(e, e) = 0 /\ e % INPUT_BUF = (i + n) % INPUT_BUF
  BY MinusIs, Reached, ConsoleAssumption, SMTT(30)
<1>4. n + 1 < Width
  BY <1>2, ConsoleAssumption, SMTT(30)
<1>5. Plus(e, 1) \in 0..(Width - 1) /\ Minus(Plus(e, 1), i) = n + 1
  BY <1>2, <1>4, MovedOn, SMTT(30)
<1>6. n + Minus(e, e) = n
  BY <1>2, <1>3, SMTT(30)
<1>7. d \in Bufs /\ Text(d, i, e) = t
  BY <1>6, TextKept
<1>8. s \in Seq(Chars) /\ Len(s) = n + 1 /\ \A k \in 1..(n + 1) : s[k] = d[(i + (k - 1)) % INPUT_BUF]
  <2> DEFINE w == Plus(e, 1)
             m == Minus(w, i)
  <2>1. w \in 0..(Width - 1) /\ m = n + 1 /\ d \in Bufs /\ s = Text(d, i, w)
    BY <1>5, <1>7
  <2> HIDE DEF s, d, n, w
  <2>2. s \in Seq(Chars) /\ Len(s) = m /\ \A k \in 1..m : s[k] = d[(i + (k - 1)) % INPUT_BUF]
    BY <2>1, TextIs
  <2> HIDE DEF m
  <2> QED BY <2>1, <2>2
<1>9. t \in Seq(Chars) /\ Len(t) = n
  BY TextIs
<1>10. \A k \in 1..n : t[k] = d[(i + (k - 1)) % INPUT_BUF]
  <2> HIDE DEF d
  <2>1. \A k \in 1..n : Text(d, i, e)[k] = d[(i + (k - 1)) % INPUT_BUF]
    BY <1>7, TextIs
  <2> QED BY <1>7, <2>1
<1>11. d[(i + n) % INPUT_BUF] = c
  <2>1. (i + n) % INPUT_BUF \in 0..(INPUT_BUF - 1)
    BY <1>2, Division, ConsoleAssumption, SMTT(30)
  <2> QED BY <1>3, <2>1 DEF Bufs
<1> HIDE DEF s, t, d, n
<1>12. s[n + 1] = c
  <2>1. n + 1 \in 1..(n + 1) /\ (n + 1) - 1 = n
    BY <1>2, SMTT(30)
  <2> QED BY <1>8, <1>11, <2>1
<1>13. \A k \in 1..n : s[k] = t[k]
  BY <1>2, <1>8, <1>10, SMTT(30)
<1>14. s = Append(t, c)
  BY <1>2, <1>8, <1>9, <1>12, <1>13, SMTT(30)
<1> QED BY <1>5, <1>14 DEF s, t, d, n

\* The text up to e is the text up to j and the text from there.
LEMMA TextJoins ==
  ASSUME NEW b \in Bufs, NEW i \in 0..(Width - 1), NEW j \in 0..(Width - 1), NEW e \in 0..(Width - 1),
         Minus(j, i) + Minus(e, j) = Minus(e, i)
  PROVE  Text(b, i, e) = Text(b, i, j) \o Text(b, j, e)
<1> DEFINE m == Minus(j, i)
           n == Minus(e, j)
           at(x) == b[x % INPUT_BUF]
           s == Text(b, i, e)
           t == Text(b, i, j)
           u == Text(b, j, e)
<1>1. m \in Nat /\ n \in Nat
  BY TextIs
<1>2. s \in Seq(Chars) /\ Len(s) = m + n /\ \A k \in 1..(m + n) : s[k] = at(i + (k - 1))
  BY TextIs, SMTT(30)
<1>3. t \in Seq(Chars) /\ Len(t) = m /\ \A k \in 1..m : t[k] = at(i + (k - 1))
  BY TextIs
<1>4. u \in Seq(Chars) /\ Len(u) = n /\ \A k \in 1..n : u[k] = at(j + (k - 1))
  BY TextIs
<1>5. ASSUME NEW k \in 1..n
      PROVE  at(j + (k - 1)) = at(i + ((m + k) - 1))
  <2>1. /\ m \in 0..(Width - 1) /\ j = Plus(i, m) /\ n \in 0..(Width - 1)
        /\ m + n \in 0..(Width - 1)
    BY Reached
  <2>2. j = IF i + m < Width THEN i + m ELSE (i + m) - Width
    <3>1. m \in 0..Width
      BY <2>1, ConsoleAssumption, SMTT(30)
    <3> QED BY <2>1, <3>1, PlusIs
  <2> DEFINE x == i + ((m + k) - 1)
             y == j + (k - 1)
  <2> HIDE DEF m, n
  <2>3. x \in Nat /\ (y = x \/ (Width <= x /\ y = x - Width))
    BY <1>1, <2>1, <2>2, ConsoleAssumption, SMTT(30)
  <2> HIDE DEF x, y
  <2>4. y % INPUT_BUF = x % INPUT_BUF
    BY <2>3, PlaceWraps
  <2> QED BY <2>4 DEF x, y
<1> HIDE DEF s, t, u, m, n, at
<1>6. \A k \in 1..n : s[m + k] = u[k]
  <2> SUFFICES ASSUME NEW k \in 1..n PROVE s[m + k] = u[k]
    OBVIOUS
  <2>1. m + k \in 1..(m + n)
    BY <1>1, SMTT(30)
  <2> QED BY <1>2, <1>4, <1>5, <2>1
<1>7. \A k \in 1..m : s[k] = t[k]
  BY <1>1, <1>2, <1>3, SMTT(30)
<1>8. \A k \in (m + 1)..(m + n) : s[k] = u[k - m]
  <2> SUFFICES ASSUME NEW k \in (m + 1)..(m + n) PROVE s[k] = u[k - m]
    OBVIOUS
  <2>1. k - m \in 1..n /\ m + (k - m) = k
    BY <1>1, SMTT(30)
  <2> QED BY <1>6, <2>1
<1>9. /\ t \o u \in Seq(Chars) /\ Len(t \o u) = m + n
      /\ \A k \in 1..(m + n) : (t \o u)[k] = IF k <= m THEN t[k] ELSE u[k - m]
  BY <1>3, <1>4, ConcatProperties
<1>10. \A k \in 1..(m + n) : s[k] = (t \o u)[k]
  <2> SUFFICES ASSUME NEW k \in 1..(m + n) PROVE s[k] = (t \o u)[k]
    OBVIOUS
  <2>1. CASE k <= m
    <3>1. k \in 1..m
      BY <1>1, <2>1, SMTT(30)
    <3> QED BY <1>7, <1>9, <2>1, <3>1
  <2>2. CASE ~(k <= m)
    <3>1. k \in (m + 1)..(m + n)
      BY <1>1, <2>2, SMTT(30)
    <3> QED BY <1>8, <1>9, <2>2, <3>1
  <2> QED BY <2>1, <2>2
<1>11. s = t \o u
  BY <1>2, <1>9, <1>10, SeqEqual
<1> QED BY <1>11 DEF s, t, u

\* The text up to the k-th counter is a prefix; what follows is the rest.
LEMMA TextCut ==
  ASSUME NEW b \in Bufs, NEW i \in 0..(Width - 1), NEW j \in 0..(Width - 1),
         NEW k \in 0..Minus(j, i)
  PROVE  /\ Plus(i, k) \in 0..(Width - 1)
         /\ Minus(Plus(i, k), i) = k /\ Minus(j, Plus(i, k)) = Minus(j, i) - k
         /\ Text(b, i, Plus(i, k)) = SubSeq(Text(b, i, j), 1, k)
         /\ Text(b, Plus(i, k), j) = SubSeq(Text(b, i, j), k + 1, Len(Text(b, i, j)))
<1> DEFINE m == Minus(j, i)
           v == Plus(i, k)
           s == Text(b, i, j)
           t == Text(b, i, v)
           u == Text(b, v, j)
<1>1. m \in 0..(Width - 1) /\ m \in Nat /\ k \in Nat /\ k <= m /\ k \in 0..(Width - 1)
  BY Reached, ConsoleAssumption, SMTT(30)
<1>2. v \in 0..(Width - 1) /\ Minus(v, i) = k /\ Minus(j, v) = m - k
  BY <1>1, MovedOn, SMTT(30)
<1> HIDE DEF v
<1>3. Minus(v, i) + Minus(j, v) = m
  BY <1>1, <1>2, SMTT(30)
<1>4. s = t \o u
  BY <1>2, <1>3, TextJoins
<1>5. t \in Seq(Chars) /\ Len(t) = k
  BY <1>2, TextIs
<1>6. u \in Seq(Chars) /\ Len(u) = m - k
  BY <1>2, TextIs
<1> HIDE DEF s, t, u, m
<1>7. t = SubSeq(t \o u, 1, Len(t)) /\ u = SubSeq(t \o u, Len(t) + 1, Len(t) + Len(u))
  BY <1>5, <1>6, SMTT(30)
<1>8. Len(s) = Len(t) + Len(u)
  BY <1>4, <1>5, <1>6, ConcatProperties
<1>9. t = SubSeq(s, 1, k) /\ u = SubSeq(s, k + 1, Len(s))
  BY <1>4, <1>5, <1>7, <1>8
<1> QED BY <1>2, <1>9 DEF s, t, u, v, m

\* Between is the text of the ring.
LEMMA BetweenIsText ==
  ASSUME ConsoleTypeOK, NEW i \in 0..(Width - 1), NEW j \in 0..(Width - 1)
  PROVE  input.buf \in Bufs /\ Between(i, j) = Text(input.buf, i, j)
<1>1. input.buf \in Bufs
  BY DEF ConsoleTypeOK, Bufs
<1>2. ASSUME NEW k \in 1..Minus(j, i)
      PROVE  Plus(i, k - 1) % INPUT_BUF = (i + (k - 1)) % INPUT_BUF
  <2>1. k - 1 \in 0..Width
    BY Reached, ConsoleAssumption, SMTT(30)
  <2> QED BY <2>1, PlusIs
<1> QED BY <1>1, <1>2 DEF Between, Text

\* The same after a step.
LEMMA BetweenIsTextNext ==
  ASSUME ConsoleTypeOK', NEW i \in 0..(Width - 1), NEW j \in 0..(Width - 1)
  PROVE  input'.buf \in Bufs /\ Between(i, j)' = Text(input'.buf, i, j)
<1>1. input'.buf \in Bufs
  BY DEF ConsoleTypeOK, Bufs
<1>2. ASSUME NEW k \in 1..Minus(j, i)
      PROVE  Plus(i, k - 1) % INPUT_BUF = (i + (k - 1)) % INPUT_BUF
  <2>1. k - 1 \in 0..Width
    BY Reached, ConsoleAssumption, SMTT(30)
  <2> QED BY <2>1, PlusIs
<1> QED BY <1>1, <1>2 DEF Between, Text

\* What is committed and what is edited, before and after a step.
LEMMA Mapped ==
  ASSUME ConsoleTypeOK
  PROVE  /\ input.r \in 0..(Width - 1) /\ input.w \in 0..(Width - 1) /\ input.e \in 0..(Width - 1)
         /\ input.buf \in Bufs
         /\ Ready = Text(input.buf, input.r, input.w)
         /\ Line = Text(input.buf, input.w, input.e)
<1>1. input.r \in 0..(Width - 1) /\ input.w \in 0..(Width - 1) /\ input.e \in 0..(Width - 1)
  BY DEF ConsoleTypeOK
<1> QED BY <1>1, BetweenIsText DEF Ready, Line

LEMMA MappedNext ==
  ASSUME ConsoleTypeOK'
  PROVE  /\ input'.r \in 0..(Width - 1) /\ input'.w \in 0..(Width - 1) /\ input'.e \in 0..(Width - 1)
         /\ input'.buf \in Bufs
         /\ Ready' = Text(input'.buf, input'.r, input'.w)
         /\ Line' = Text(input'.buf, input'.w, input'.e)
<1>1. input'.r \in 0..(Width - 1) /\ input'.w \in 0..(Width - 1) /\ input'.e \in 0..(Width - 1)
  BY DEF ConsoleTypeOK
<1> QED BY <1>1, BetweenIsTextNext DEF Ready, Line

-----------------------------------------------------------------------------
\* cgaputc keeps the cursor on the screen, off the last line.
LEMMA CursorStays ==
  ASSUME NEW p \in 0..(COLS * (ROWS - 1) - 1), NEW c
  PROVE  Cursor(p, c) \in 0..(COLS * (ROWS - 1) - 1)
<1> DEFINE S == COLS * (ROWS - 1)
           q == IF c = Newline THEN p + COLS - (p % COLS)
                ELSE IF c = Backspace THEN IF p > 0 THEN p - 1 ELSE p
                ELSE p + 1
           d == q \div COLS
<1>1. COLS \in Nat \ {0} /\ ROWS \in Nat /\ ROWS >= 2
  BY ConsoleAssumption, SMTT(30)
<1>2. S \in Nat /\ p \in 0..(S - 1) /\ S = COLS * (ROWS - 2) + COLS /\ COLS * (ROWS - 2) >= 0
  BY <1>1, SMTT(30)
<1>3. p % COLS \in 0..(COLS - 1)
  BY <1>1, Division, SMTT(30)
<1> HIDE DEF S
<1>4. q \in Nat /\ q <= p + COLS
  BY <1>1, <1>2, <1>3, SMTT(30)
<1> HIDE DEF q
<1>5. d \in Nat /\ COLS * d <= q /\ q < COLS * d + COLS
  <2>1. d \in Nat /\ q % COLS \in 0..(COLS - 1) /\ q = COLS * d + (q % COLS)
    BY <1>1, <1>4, Division
  <2> HIDE DEF d
  <2>2. COLS * d \in Nat
    BY <1>1, <2>1, SMTT(30)
  <2> QED BY <1>1, <2>1, <2>2, SMTT(30)
<1> HIDE DEF d
<1>6. CASE d >= ROWS - 1
  <2>1. S <= COLS * d
    BY <1>1, <1>5, <1>6, TimesMonotone, SMTT(30) DEF S
  <2>2. q - COLS \in 0..(S - 1)
    BY <1>1, <1>2, <1>4, <1>5, <2>1, SMTT(30)
  <2> QED BY <1>6, <2>2 DEF Cursor, d, q, S
<1>7. CASE ~(d >= ROWS - 1)
  <2>1. COLS * d <= COLS * (ROWS - 2)
    BY <1>1, <1>5, <1>7, TimesMonotone, SMTT(30)
  <2>2. q \in 0..(S - 1)
    BY <1>1, <1>2, <1>4, <1>5, <2>1, SMTT(30)
  <2> QED BY <1>7, <2>2 DEF Cursor, d, q, S
<1> QED BY <1>6, <1>7

\* A set of natural numbers that is not empty has a least element.
LEMMA LeastExists ==
  ASSUME NEW T, T \subseteq Nat, T # {}
  PROVE  Min(T) \in T /\ \A y \in T : Min(T) <= y
<1> DEFINE R == {ss \in Nat \X Nat : ss[1] < ss[2]}
<1>1. IsWellFoundedOn(R, Nat)
  BY NatLessThanWellFounded DEF OpToRel
<1>2. \E x \in T : \A y \in T : ~(<<y, x>> \in R)
  <2> HIDE DEF R
  <2> QED BY <1>1, WFMin
<1>3. PICK x \in T : \A y \in T : ~(<<y, x>> \in R)
  BY <1>2
<1>4. ASSUME NEW y \in T
      PROVE  x <= y
  <2>1. x \in Nat /\ y \in Nat
    OBVIOUS
  <2>2. y < x => <<y, x>> \in R
    BY <2>1
  <2>3. ~(y < x)
    BY <1>3, <2>2
  <2> QED BY <2>1, <2>3, SMTT(30)
<1> QED BY <1>4 DEF Min

\* consoleread's loop stops at one place at least, and so at the first.
LEMMA LoopStops ==
  ASSUME NEW avail \in Seq(Chars), NEW n \in Nat
  PROVE  Min(Stops(avail, n)) \in Stops(avail, n)
<1> DEFINE At(k) == k = n \/ k = Len(avail) \/ (k > 0 /\ avail[k] = Newline) \/ avail[k + 1] = CtrlD
           K == {k \in 0..Len(avail) : At(k)}
           m == Min(K)
<1>1. Len(avail) \in K /\ Len(avail) \in Nat
  BY LenProperties, SMTT(30)
<1>2. K \subseteq Nat
  BY <1>1, SMTT(30)
<1>3. m \in K /\ \A y \in K : m <= y
  <2> HIDE DEF K
  <2> QED BY <1>1, <1>2, LeastExists
<1> HIDE DEF m
<1>4. m \in 0..Len(avail) /\ At(m)
  BY <1>3
<1>5. \A y \in 0..Len(avail) : At(y) => m <= y
  BY <1>3
<1>6. m <= n
  <2>1. CASE n <= Len(avail)
    <3>1. n \in 0..Len(avail)
      BY <1>1, <2>1, SMTT(30)
    <3> QED BY <1>5, <3>1
  <2>2. CASE ~(n <= Len(avail))
    BY <1>1, <1>4, <2>2, SMTT(30)
  <2> QED BY <2>1, <2>2
<1>7. ASSUME NEW i \in 1..m
      PROVE  avail[i] # CtrlD /\ (i < m => avail[i] # Newline)
  <2>1. /\ i - 1 \in 0..Len(avail) /\ ~(m <= i - 1) /\ (i - 1) + 1 = i
        /\ i \in 0..Len(avail) /\ i > 0 /\ (i < m => ~(m <= i))
    BY <1>1, <1>4, SMTT(30)
  <2>2. ~At(i - 1) /\ (i < m => ~At(i))
    BY <1>5, <2>1
  <2> QED BY <2>1, <2>2
<1>8. m \in Stops(avail, n)
  BY <1>4, <1>6, <1>7 DEF Stops
<1>9. Stops(avail, n) \subseteq Nat
  BY <1>1, SMTT(30) DEF Stops
<1> QED BY <1>8, <1>9, LeastExists

-----------------------------------------------------------------------------
(* What every step shows: the invariant, and a step of the line discipline *)
(* or none.                                                                *)
Disciplines == LD!LdNext \/ UNCHANGED <<Ready, Line>>

\* The readers are where they were and the cursor is on the screen.
LEMMA ReadersStay ==
  ASSUME ConsoleInv, input'.r = input.r, input'.w = input.w, reader' = reader,
         pos' \in 0..(COLS * (ROWS - 1) - 1)
  PROVE  ReadsLeft' /\ NoLineWaits'
<1>1. ReadsLeft'
  BY DEF ConsoleInv, ReadsLeft
<1>2. NoLineWaits'
  BY DEF ConsoleInv, NoLineWaits
<1> QED BY <1>1, <1>2

\* The ring is left alone.
LEMMA RingStays ==
  ASSUME ConsoleInv, input' = input
  PROVE  RingOrder' /\ LineOpen' /\ Disciplines
<1>1. Ready' = Ready /\ Line' = Line
  BY DEF Ready, Line, Between
<1>2. RingOrder'
  BY DEF ConsoleInv, RingOrder
<1>3. LineOpen'
  BY <1>1 DEF ConsoleInv, LineOpen
<1> QED BY <1>1, <1>2, <1>3 DEF Disciplines

\* read(console, p, n)
LEMMA ConsolereadStep ==
  ASSUME ConsoleInv, NEW p \in Readers, NEW n \in ReadSizes, Consoleread(p, n)
  PROVE  ConsoleInv' /\ Disciplines
<1>1. /\ reader' = [reader EXCEPT ![p] = [at |-> "running", n |-> n, target |-> n, killed |-> FALSE]]
      /\ input' = input /\ pos' = pos /\ n \in Nat
  BY ConsoleAssumption DEF Consoleread
<1> DEFINE x == [at |-> "running", n |-> n, target |-> n, killed |-> FALSE]
<1>2. /\ x \in [at : {"idle", "running", "asleep"}, n : Nat, target : Nat, killed : BOOLEAN]
      /\ x.at # "asleep" /\ x.n = x.target
  BY <1>1
<1> HIDE DEF x
<1>3. ConsoleTypeOK'
  BY <1>1, <1>2 DEF x, ConsoleInv, ConsoleTypeOK
<1>4. \A q \in Readers : reader'[q] = IF q = p THEN x ELSE reader[q]
  BY <1>1 DEF x, ConsoleInv, ConsoleTypeOK
<1>5. ReadsLeft'
  BY <1>1, <1>2, <1>4, SMTT(30) DEF ConsoleInv, ReadsLeft
<1>6. NoLineWaits'
  BY <1>1, <1>2, <1>4 DEF ConsoleInv, NoLineWaits
<1>7. RingOrder' /\ LineOpen' /\ Disciplines
  BY <1>1, RingStays
<1> QED BY <1>3, <1>5, <1>6, <1>7 DEF ConsoleInv

\* kill
LEMMA KillReaderStep ==
  ASSUME ConsoleInv, NEW p \in Readers, KillReader(p)
  PROVE  ConsoleInv' /\ Disciplines
<1> DEFINE x == [reader[p] EXCEPT !.killed = TRUE, !.at = Awake(reader[p].at)]
<1>1. input' = input /\ pos' = pos /\ reader' = [reader EXCEPT ![p] = x]
  BY DEF KillReader
<1>2. /\ x \in [at : {"idle", "running", "asleep"}, n : Nat, target : Nat, killed : BOOLEAN]
      /\ x.at # "asleep" /\ x.n = reader[p].n /\ x.target = reader[p].target
  <2>1. reader[p] \in [at : {"idle", "running", "asleep"}, n : Nat, target : Nat, killed : BOOLEAN]
    BY DEF ConsoleInv, ConsoleTypeOK
  <2>2. Awake(reader[p].at) \in {"idle", "running"}
    BY <2>1 DEF Awake
  <2> QED BY <2>1, <2>2
<1>3. reader' = [reader EXCEPT ![p] = x]
  BY <1>1
<1> HIDE DEF x
<1>4. ConsoleTypeOK'
  BY <1>1, <1>2, <1>3 DEF ConsoleInv, ConsoleTypeOK
<1>5. \A q \in Readers : reader'[q] = IF q = p THEN x ELSE reader[q]
  BY <1>3 DEF ConsoleInv, ConsoleTypeOK
<1>6. ReadsLeft'
  BY <1>2, <1>5 DEF ConsoleInv, ReadsLeft
<1>7. NoLineWaits'
  BY <1>1, <1>2, <1>5, SMTT(30) DEF ConsoleInv, NoLineWaits
<1>8. RingOrder' /\ LineOpen' /\ Disciplines
  BY <1>1, RingStays
<1> QED BY <1>4, <1>6, <1>7, <1>8 DEF ConsoleInv

\* consolewrite
LEMMA ConsolewriteStep ==
  ASSUME ConsoleInv, NEW c, Consolewrite(c)
  PROVE  ConsoleInv' /\ Disciplines
<1>1. input' = input /\ reader' = reader /\ pos' = Cursor(pos, c)
  BY DEF Consolewrite, Echo
<1>2. pos' \in 0..(COLS * (ROWS - 1) - 1)
  BY <1>1, CursorStays DEF ConsoleInv, NoLineWaits
<1>3. ReadsLeft' /\ NoLineWaits'
  BY <1>1, <1>2, ReadersStay
<1>4. ConsoleTypeOK'
  BY <1>1 DEF ConsoleInv, ConsoleTypeOK
<1>5. RingOrder' /\ LineOpen' /\ Disciplines
  BY <1>1, RingStays
<1> QED BY <1>3, <1>4, <1>5 DEF ConsoleInv

\* Only the end of the line is taken back: the first k characters stay.
LEMMA LineCut ==
  ASSUME ConsoleInv, NEW k \in 0..Minus(input.e, input.w),
         input' = [input EXCEPT !.e = Plus(input.w, k)],
         reader' = reader, pos' \in 0..(COLS * (ROWS - 1) - 1)
  PROVE  ConsoleInv' /\ Ready' = Ready /\ Line' = SubSeq(Line, 1, k)
<1>1. /\ ConsoleTypeOK /\ input.r \in 0..(Width - 1) /\ input.w \in 0..(Width - 1)
      /\ input.e \in 0..(Width - 1) /\ input.buf \in Bufs
      /\ Ready = Text(input.buf, input.r, input.w) /\ Line = Text(input.buf, input.w, input.e)
  BY Mapped DEF ConsoleInv
<1> DEFINE v == Plus(input.w, k)
<1>2. /\ v \in 0..(Width - 1) /\ Minus(v, input.w) = k
      /\ Text(input.buf, input.w, v) = SubSeq(Line, 1, k)
  BY <1>1, TextCut, SMTT(30)
<1> HIDE DEF v
<1>3. input' = [input EXCEPT !.e = v]
  BY DEF v
<1>4. ConsoleTypeOK' /\ input'.r = input.r /\ input'.w = input.w /\ input'.e = v /\ input'.buf = input.buf
  BY <1>1, <1>2, <1>3 DEF ConsoleTypeOK
<1>5. Ready' = Ready /\ Line' = SubSeq(Line, 1, k)
  BY <1>1, <1>2, <1>4, MappedNext
<1>6. ReadsLeft' /\ NoLineWaits'
  BY <1>4, ReadersStay
<1> DEFINE a == Minus(input.w, input.r)
           n == Minus(input.e, input.w)
<1>7. /\ a \in Nat /\ n \in Nat /\ k \in Nat /\ k <= n
      /\ a + n = Minus(input.e, input.r) /\ a + n <= INPUT_BUF /\ INPUT_BUF < Width
  <2>1. a \in Nat /\ n \in Nat
    BY <1>1, TextIs
  <2>2. a + n = Minus(input.e, input.r) /\ Minus(input.e, input.r) <= INPUT_BUF
    BY DEF ConsoleInv, RingOrder
  <2>3. k \in 0..n
    BY <1>1
  <2> HIDE DEF a, n
  <2> QED BY <2>1, <2>2, <2>3, ConsoleAssumption, SMTT(30)
<1>8. RingOrder'
  <2>1. k \in 0..(Width - 1) /\ a + k < Width /\ a + k <= INPUT_BUF
    BY <1>7, ConsoleAssumption, SMTT(30)
  <2>2. Minus(v, input.r) = a + k
    BY <1>1, <2>1, MovedOn DEF v
  <2> QED BY <1>2, <1>4, <2>1, <2>2 DEF RingOrder
<1>9. LineOpen'
  <2>1. Line \in Seq(Chars) /\ Len(Line) = n
    BY <1>1, TextIs
  <2> HIDE DEF n
  <2>2. \A i \in 1..k : i \in 1..n /\ SubSeq(Line, 1, k)[i] = Line[i]
    BY <1>7, <2>1, SMTT(30)
  <2>3. \A i \in 1..n : Line[i] # Newline
    BY DEF n, ConsoleInv, LineOpen
  <2>4. Minus(input.e, input.w)' = k
    BY <1>2, <1>4 DEF Minus
  <2> QED BY <1>5, <2>2, <2>3, <2>4 DEF LineOpen
<1> QED BY <1>4, <1>5, <1>6, <1>8, <1>9 DEF ConsoleInv

\* consoleintr, ^U
LEMMA KillLineStep ==
  ASSUME ConsoleInv, KillLine
  PROVE  ConsoleInv' /\ Disciplines
<1> DEFINE m == Minus(input.e, input.w)
           n == Cardinality({k \in DOMAIN Line : \A i \in k..Len(Line) : Line[i] # Newline})
<1>1. /\ input' = [input EXCEPT !.e = Minus(input.e, n)]
      /\ pos' = IF pos < n THEN 0 ELSE pos - n
      /\ reader' = reader /\ got' = got
  BY DEF KillLine, Line
<1>2. /\ ConsoleTypeOK /\ input.w \in 0..(Width - 1) /\ input.e \in 0..(Width - 1)
      /\ input.buf \in Bufs /\ Line = Text(input.buf, input.w, input.e)
  BY Mapped DEF ConsoleInv
<1>3. m \in Nat /\ Line \in Seq(Chars) /\ Len(Line) = m
  BY <1>2, TextIs
<1>4. n = m
  <2>1. DOMAIN Line = 1..m
    BY <1>3, LenProperties
  <2>2. \A i \in 1..m : Line[i] # Newline
    BY DEF ConsoleInv, LineOpen
  <2> HIDE DEF m
  <2>3. \A k \in 1..m : \A i \in k..m : i \in 1..m
    BY <1>3, SMTT(30)
  <2>4. {k \in DOMAIN Line : \A i \in k..Len(Line) : Line[i] # Newline} = 1..m
    BY <1>3, <2>1, <2>2, <2>3
  <2>5. Cardinality(1..m) = m
    BY <1>3, FS_Interval, SMTT(30)
  <2> QED BY <2>4, <2>5
<1> HIDE DEF n
<1>5. Minus(input.e, n) = Plus(input.w, 0)
  <2>1. m \in 0..Width /\ 0 \in 0..Width /\ input.w \in 0..Width
    <3>1. m \in 0..(Width - 1)
      BY <1>2, Reached
    <3> HIDE DEF m
    <3> QED BY <1>2, <3>1, ConsoleAssumption, SMTT(30)
  <2>2. m = IF input.w <= input.e THEN input.e - input.w ELSE input.e + Width - input.w
    BY <1>2, <2>1, MinusIs
  <2> HIDE DEF m
  <2>3. Minus(input.e, m) = IF m <= input.e THEN input.e - m ELSE input.e + Width - m
    BY <1>2, <2>1, MinusIs
  <2>4. Plus(input.w, 0) = IF input.w + 0 < Width THEN input.w + 0 ELSE (input.w + 0) - Width
    BY <1>2, <2>1, PlusIs
  <2> QED BY <1>2, <1>4, <2>1, <2>2, <2>3, <2>4, ConsoleAssumption, SMTT(30)
<1>6. pos' \in 0..(COLS * (ROWS - 1) - 1)
  <2> DEFINE S == COLS * (ROWS - 1) - 1
  <2>1. pos \in 0..S /\ S \in Int
    BY ConsoleAssumption, SMTT(30) DEF ConsoleInv, NoLineWaits
  <2> HIDE DEF S
  <2>2. pos' \in 0..S
    BY <1>1, <1>3, <1>4, <2>1, SMTT(30)
  <2> QED BY <2>2 DEF S
<1>7. 0 \in 0..m
  BY <1>3, SMTT(30)
<1>8. ConsoleInv' /\ Ready' = Ready /\ Line' = SubSeq(Line, 1, 0)
  BY <1>1, <1>5, <1>6, <1>7, LineCut
<1>9. SubSeq(Line, 1, 0) = <<>>
  BY <1>3, SMTT(30)
<1>10. LD!Killed
  BY <1>1, <1>8, <1>9 DEF LD!Killed
<1> QED BY <1>8, <1>10 DEF Disciplines, LD!LdNext

\* consoleintr, backspace
LEMMA EraseCharStep ==
  ASSUME ConsoleInv, EraseChar
  PROVE  ConsoleInv' /\ Disciplines
<1>1. reader' = reader /\ got' = got
  BY DEF EraseChar
<1>2. CASE input.e = input.w
  <2>1. input' = input /\ pos' = pos
    BY <1>2 DEF EraseChar
  <2>2. ReadsLeft' /\ NoLineWaits'
    BY <1>1, <2>1, ReadersStay DEF ConsoleInv, NoLineWaits
  <2>3. ConsoleTypeOK'
    BY <1>1, <2>1 DEF ConsoleInv, ConsoleTypeOK
  <2>4. RingOrder' /\ LineOpen' /\ Disciplines
    BY <2>1, RingStays
  <2> QED BY <2>2, <2>3, <2>4 DEF ConsoleInv
<1>3. CASE input.e # input.w
  <2> DEFINE m == Minus(input.e, input.w)
  <2>1. input' = [input EXCEPT !.e = Minus(input.e, 1)] /\ pos' = Cursor(pos, Backspace)
    BY <1>3 DEF EraseChar, Echo
  <2>2. /\ ConsoleTypeOK /\ input.w \in 0..(Width - 1) /\ input.e \in 0..(Width - 1)
        /\ input.buf \in Bufs /\ Line = Text(input.buf, input.w, input.e)
    BY Mapped DEF ConsoleInv
  <2>3. m \in Nat /\ Line \in Seq(Chars) /\ Len(Line) = m
    BY <2>2, TextIs
  <2>4. m \in 0..(Width - 1) /\ 1 \in 0..Width /\ input.w \in 0..Width /\ Width \in Nat
    <3>1. m \in 0..(Width - 1)
      BY <2>2, Reached
    <3> HIDE DEF m
    <3> QED BY <2>2, <3>1, ConsoleAssumption, SMTT(30)
  <2>5. m = IF input.w <= input.e THEN input.e - input.w ELSE input.e + Width - input.w
    BY <2>2, <2>4, MinusIs
  <2> HIDE DEF m
  <2>6. m >= 1 /\ m - 1 \in 0..Width /\ m - 1 \in 0..m
    BY <1>3, <2>2, <2>4, <2>5, SMTT(30)
  <2>7. Minus(input.e, 1) = IF 1 <= input.e THEN input.e - 1 ELSE input.e + Width - 1
    BY <2>2, <2>4, MinusIs
  <2>8. Plus(input.w, m - 1) =
          IF input.w + (m - 1) < Width THEN input.w + (m - 1) ELSE (input.w + (m - 1)) - Width
    BY <2>2, <2>6, PlusIs
  <2>9. Minus(input.e, 1) = Plus(input.w, m - 1)
    BY <2>2, <2>4, <2>5, <2>6, <2>7, <2>8, SMTT(30)
  <2>10. pos' \in 0..(COLS * (ROWS - 1) - 1)
    BY <2>1, CursorStays DEF ConsoleInv, NoLineWaits
  <2>11. ConsoleInv' /\ Ready' = Ready /\ Line' = SubSeq(Line, 1, m - 1)
    BY <1>1, <2>1, <2>6, <2>9, <2>10, LineCut DEF m
  <2>12. Line # <<>>
    BY <2>3, <2>6, SMTT(30)
  <2>13. LD!Erased
    BY <1>1, <2>3, <2>11, <2>12 DEF LD!Erased
  <2> QED BY <2>11, <2>13 DEF Disciplines, LD!LdNext
<1> QED BY <1>2, <1>3

\* wakeup leaves nobody asleep, and changes nothing else.
LEMMA WakeReadersIs ==
  ASSUME ConsoleInv, reader' = WakeReaders
  PROVE  /\ reader' \in [Readers -> [at : {"idle", "running", "asleep"}, n : Nat, target : Nat,
                                     killed : BOOLEAN]]
         /\ \A p \in Readers : reader'[p].at # "asleep"
         /\ ReadsLeft'
<1> DEFINE R == [at : {"idle", "running", "asleep"}, n : Nat, target : Nat, killed : BOOLEAN]
           x(p) == [reader[p] EXCEPT !.at = Awake(reader[p].at)]
<1>1. ASSUME NEW p \in Readers
      PROVE  x(p) \in R /\ x(p).at # "asleep" /\ x(p).n <= x(p).target
  <2>1. reader[p] \in R /\ reader[p].n <= reader[p].target
    BY DEF ConsoleInv, ConsoleTypeOK, ReadsLeft
  <2>2. Awake(reader[p].at) \in {"idle", "running"}
    BY <2>1 DEF Awake
  <2>3. x(p) \in R
    BY <2>1, <2>2
  <2>4. x(p).at = Awake(reader[p].at) /\ x(p).n = reader[p].n /\ x(p).target = reader[p].target
    BY <2>1
  <2> QED BY <2>1, <2>2, <2>3, <2>4
<1>2. reader' = [p \in Readers |-> x(p)]
  BY DEF WakeReaders
<1> HIDE DEF x, R
<1>3. reader' \in [Readers -> R]
  BY <1>1, <1>2
<1>4. \A p \in Readers : reader'[p] = x(p)
  BY <1>2
<1> QED BY <1>1, <1>3, <1>4 DEF R, ReadsLeft

\* consoleintr, a character that is stored.
LEMMA StoreCharStep ==
  ASSUME ConsoleInv, NEW c \in Letters \union {Newline, CtrlD}, StoreChar(c)
  PROVE  ConsoleInv' /\ Disciplines
<1>1. CASE ~HasRoom(input)
  <2>1. input' = input /\ reader' = reader /\ pos' = pos
    BY <1>1 DEF StoreChar
  <2>2. ReadsLeft' /\ NoLineWaits'
    BY <2>1, ReadersStay DEF ConsoleInv, NoLineWaits
  <2>3. ConsoleTypeOK'
    BY <2>1 DEF ConsoleInv, ConsoleTypeOK
  <2>4. RingOrder' /\ LineOpen' /\ Disciplines
    BY <2>1, RingStays
  <2> QED BY <2>2, <2>3, <2>4 DEF ConsoleInv
<1>2. CASE HasRoom(input)
  <2> DEFINE r == input.r
             w == input.w
             e == input.e
             b == input.buf
             v == Plus(e, 1)
             d == [b EXCEPT ![e % INPUT_BUF] = c]
             in == [input EXCEPT !.buf[input.e % INPUT_BUF] = c, !.e = Plus(@, 1)]
             a == Minus(w, r)
             n == Minus(e, w)
  <2>1. /\ input' = (IF Commits(in, c) THEN [in EXCEPT !.w = in.e] ELSE in)
        /\ reader' = Woken(in, c) /\ pos' = Cursor(pos, c) /\ got' = got
    BY <1>2 DEF StoreChar, Echo
  <2>2. /\ ConsoleTypeOK /\ r \in 0..(Width - 1) /\ w \in 0..(Width - 1) /\ e \in 0..(Width - 1)
        /\ b \in Bufs /\ Ready = Text(b, r, w) /\ Line = Text(b, w, e)
    BY Mapped DEF ConsoleInv
  <2>3. c \in Chars
    BY DEF Chars
  <2>4. a + n = Minus(e, r) /\ Minus(e, r) < INPUT_BUF
    BY <1>2 DEF ConsoleInv, RingOrder, HasRoom
  <2>5. a \in Nat /\ n \in Nat
    BY <2>2, TextIs
  <2>6. n < INPUT_BUF
    BY <2>4, <2>5, ConsoleAssumption, SMTT(30)
  <2>7. /\ v \in 0..(Width - 1) /\ Minus(v, w) = n + 1
        /\ Text(d, w, v) = Append(Line, c)
    BY <2>2, <2>3, <2>6, TextStored
  <2>8. d \in Bufs /\ Text(d, r, w) = Ready
    <3>1. a + n = Minus(e, r) /\ Minus(e, r) < INPUT_BUF
      BY <2>4
    <3> HIDE DEF r, w, e, b
    <3> QED BY <2>2, <2>3, <3>1, TextKept
  <2>9. Minus(v, r) = Minus(e, r) + 1
    BY <2>2, <2>3, <2>4, TextStored
  <2>10. in = [buf |-> d, r |-> r, w |-> w, e |-> v]
    <3>1. in = [input EXCEPT !.buf = d, !.e = v]
      OBVIOUS
    <3> HIDE DEF in, d, v
    <3> QED BY <2>2, <3>1 DEF ConsoleTypeOK
  <2>11. Ready \in Seq(Chars) /\ Len(Ready) = a /\ Line \in Seq(Chars) /\ Len(Line) = n
    BY <2>2, TextIs
  <2>12. pos' \in 0..(COLS * (ROWS - 1) - 1)
    BY <2>1, CursorStays DEF ConsoleInv, NoLineWaits
  <2> HIDE DEF in, d, v, a, n
  <2>13. in.e = v /\ in.r = r /\ in.w = w /\ in.buf = d
    BY <2>10
  <2>14. v = Plus(r, INPUT_BUF) <=> a + n + 1 = INPUT_BUF
    <3>1. INPUT_BUF \in 0..(Width - 1) /\ Width \in Nat
      BY ConsoleAssumption, SMTT(30)
    <3>2. Minus(Plus(r, INPUT_BUF), r) = INPUT_BUF
      BY <2>2, <3>1, MovedOn
    <3>3. Plus(r, Minus(v, r)) = v
      BY <2>2, <2>7, Reached
    <3>4. v = Plus(r, INPUT_BUF) <=> Minus(v, r) = INPUT_BUF
      BY <3>2, <3>3
    <3> QED BY <2>4, <2>5, <2>9, <3>4, SMTT(30)
  <2>15. CASE Commits(in, c)
    <3>1. input' = [buf |-> d, r |-> r, w |-> v, e |-> v] /\ reader' = WakeReaders
      BY <2>1, <2>10, <2>15 DEF Woken
    <3>2. input'.buf = d /\ input'.r = r /\ input'.w = v /\ input'.e = v
      BY <3>1
    <3>3. /\ reader' \in [Readers -> [at : {"idle", "running", "asleep"}, n : Nat, target : Nat,
                                      killed : BOOLEAN]]
          /\ \A p \in Readers : reader'[p].at # "asleep"
          /\ ReadsLeft'
      BY <3>1, WakeReadersIs
    <3>4. ConsoleTypeOK'
      BY <2>2, <2>7, <2>8, <3>1, <3>3 DEF ConsoleTypeOK, Bufs
    <3>5. NoLineWaits'
      BY <2>12, <3>3 DEF NoLineWaits
    <3>6. Minus(v, v) = 0
      BY <2>7, MinusIs, ConsoleAssumption, SMTT(30)
    <3>7. RingOrder'
      <4>1. Minus(v, r) + Minus(v, v) = Minus(v, r) /\ Minus(v, r) <= INPUT_BUF
        BY <2>4, <2>5, <2>9, <3>6, ConsoleAssumption, SMTT(30)
      <4> QED BY <3>2, <4>1 DEF RingOrder
    <3>8. Minus(input.e, input.w)' = 0
      BY <3>2, <3>6 DEF Minus
    <3>9. LineOpen'
      BY <3>8, SMTT(30) DEF LineOpen
    <3>10. Ready' = Ready \o Append(Line, c)
      <4>1. Minus(w, r) + Minus(v, w) = Minus(v, r)
        BY <2>4, <2>5, <2>7, <2>9, SMTT(30) DEF a
      <4>2. Text(d, r, v) = Text(d, r, w) \o Text(d, w, v)
        BY <2>2, <2>7, <2>8, <4>1, TextJoins
      <4>3. Ready' = Text(d, r, v)
        BY <3>2, <3>4, MappedNext
      <4> QED BY <2>7, <2>8, <4>2, <4>3
    <3>11. Line' = <<>>
      <4>1. Line' = Text(d, v, v)
        BY <3>2, <3>4, MappedNext
      <4>2. Text(d, v, v) \in Seq(Chars) /\ Len(Text(d, v, v)) = 0
        BY <2>7, <2>8, <3>6, TextIs
      <4> QED BY <4>1, <4>2, EmptySeq, SMTT(30)
    <3>12. c \in {Newline, CtrlD} \/ Len(Ready) + Len(Line) + 1 = INPUT_BUF
      BY <2>11, <2>13, <2>14, <2>15 DEF Commits
    <3>13. Len(Ready) + Len(Line) < INPUT_BUF
      BY <2>4, <2>11
    <3>14. LD!Committed(c)
      BY <2>1, <3>10, <3>11, <3>12, <3>13 DEF LD!Committed
    <3>15. Disciplines
      BY <3>14 DEF Disciplines, LD!LdNext
    <3> QED BY <3>3, <3>4, <3>5, <3>7, <3>9, <3>15 DEF ConsoleInv
  <2>16. CASE ~Commits(in, c)
    <3>1. input' = [buf |-> d, r |-> r, w |-> w, e |-> v] /\ reader' = reader
      BY <2>1, <2>10, <2>16 DEF Woken
    <3>2. input'.buf = d /\ input'.r = r /\ input'.w = w /\ input'.e = v
      BY <3>1
    <3>3. ConsoleTypeOK'
      BY <2>2, <2>7, <2>8, <3>1 DEF ConsoleTypeOK, Bufs
    <3>4. ReadsLeft' /\ NoLineWaits'
      BY <2>12, <3>1, <3>2, ReadersStay
    <3>5. RingOrder'
      <4>1. Minus(w, r) + Minus(v, w) = Minus(v, r) /\ Minus(v, r) <= INPUT_BUF
        BY <2>4, <2>5, <2>7, <2>9, ConsoleAssumption, SMTT(30) DEF a
      <4> QED BY <3>2, <4>1 DEF RingOrder
    <3>6. Ready' = Ready /\ Line' = Append(Line, c)
      BY <2>7, <2>8, <3>2, <3>3, MappedNext
    <3>7. c \notin {Newline, CtrlD} /\ a + n + 1 # INPUT_BUF
      BY <2>13, <2>14, <2>16 DEF Commits
    <3>8. LineOpen'
      <4>1. \A i \in 1..n : Line[i] # Newline
        BY DEF n, ConsoleInv, LineOpen
      <4>2. Append(Line, c)[n + 1] = c /\ \A i \in 1..n : Append(Line, c)[i] = Line[i]
        BY <2>3, <2>11, AppendProperties, SMTT(30)
      <4>3. \A i \in 1..(n + 1) : i = n + 1 \/ i \in 1..n
        BY <2>5, SMTT(30)
      <4>4. \A i \in 1..(n + 1) : Append(Line, c)[i] # Newline
        BY <3>7, <4>1, <4>2, <4>3
      <4>5. Minus(input.e, input.w)' = n + 1
        BY <2>7, <3>2 DEF Minus
      <4> QED BY <3>6, <4>4, <4>5 DEF LineOpen
    <3>9. Len(Ready) + Len(Line) < INPUT_BUF /\ Len(Ready) + Len(Line) + 1 < INPUT_BUF
      BY <2>4, <2>5, <2>11, <3>7, ConsoleAssumption, SMTT(30)
    <3>10. LD!Typed(c)
      BY <2>1, <3>6, <3>7, <3>9 DEF LD!Typed
    <3>11. Disciplines
      BY <3>10 DEF Disciplines, LD!LdNext
    <3> QED BY <3>3, <3>4, <3>5, <3>8, <3>11 DEF ConsoleInv
  <2> QED BY <2>15, <2>16
<1> QED BY <1>1, <1>2

\* Where consoleread's loop stops: what it has moved and may still take.
LEMMA LoopIs ==
  ASSUME NEW avail \in Seq(Chars), NEW n \in Nat, NEW target \in Nat, n <= target,
         NEW l, l = Loop(avail, n, target)
  PROVE  /\ l.eof \in BOOLEAN /\ l.done \in BOOLEAN
         /\ l.k \in 0..Len(avail) /\ l.k <= n
         /\ \A i \in 1..l.k : avail[i] # CtrlD /\ (i < l.k => avail[i] # Newline)
         /\ l.eof => l.k = 0 /\ l.done /\ 1 <= Len(avail) /\ avail[1] = CtrlD
         /\ ~l.done => l.k = Len(avail)
<1> DEFINE k == Min(Stops(avail, n))
<1>1. k \in Stops(avail, n)
  BY LoopStops
<1> HIDE DEF k
<1>2. l = LoopEnd(avail, n, target, k)
  BY DEF Loop, k
<1>3. /\ l.k = k /\ l.eof = (AtEof(avail, n, k) /\ ~KeepEof(n - k, target))
      /\ l.done = (k = n \/ AtEof(avail, n, k) \/ LineEnds(avail, k))
  <2> DEFINE E == AtEof(avail, n, k) /\ ~KeepEof(n - k, target)
             D == k = n \/ AtEof(avail, n, k) \/ LineEnds(avail, k)
  <2>1. l = [k |-> k, eof |-> E, done |-> D]
    BY <1>2 DEF LoopEnd
  <2> HIDE DEF E, D
  <2>2. l.k = k /\ l.eof = E /\ l.done = D
    BY <2>1, SMTT(30)
  <2> QED BY <2>2 DEF E, D
<1>4. /\ k \in 0..Len(avail) /\ k <= n
      /\ \A i \in 1..k : avail[i] # CtrlD /\ (i < k => avail[i] # Newline)
      /\ k = n \/ k = Len(avail) \/ (k > 0 /\ avail[k] = Newline) \/ avail[k + 1] = CtrlD
  BY <1>1 DEF Stops
<1>5. Len(avail) \in Nat /\ k \in Nat
  BY <1>4, LenProperties, SMTT(30)
<1>6. ASSUME AtEof(avail, n, k), ~KeepEof(n - k, target)
      PROVE  k = 0 /\ 1 <= Len(avail) /\ avail[1] = CtrlD
  <2>1. k < n /\ k < Len(avail) /\ ~(k > 0 /\ avail[k] = Newline) /\ ~(n - k < target)
    BY <1>6 DEF AtEof, LineEnds, KeepEof
  <2>2. k = 0 /\ k # n /\ k # Len(avail) /\ 1 <= Len(avail) /\ k + 1 = 1
    BY <1>5, <2>1, SMTT(30)
  <2> QED BY <1>4, <2>1, <2>2
<1>7. ASSUME k # n, ~AtEof(avail, n, k), ~LineEnds(avail, k)
      PROVE  k = Len(avail)
  <2>1. k < n
    BY <1>4, <1>5, <1>7, SMTT(30)
  <2>2. ~(k < Len(avail))
    BY <1>7, <2>1 DEF AtEof
  <2> QED BY <1>4, <1>5, <2>2, SMTT(30)
<1>8. l.eof \in BOOLEAN /\ l.done \in BOOLEAN
  BY <1>3
<1>9. l.eof => l.k = 0 /\ l.done /\ 1 <= Len(avail) /\ avail[1] = CtrlD
  BY <1>3, <1>6
<1>10. ~l.done => l.k = Len(avail)
  BY <1>3, <1>7
<1> QED BY <1>3, <1>4, <1>8, <1>9, <1>10

\* consoleread's loop, until it returns or sleeps.
LEMMA ReadLoopStep ==
  ASSUME ConsoleInv, NEW p \in Readers, ReadLoop(p)
  PROVE  ConsoleInv' /\ Disciplines
<1> DEFINE r == input.r
           w == input.w
           e == input.e
           b == input.buf
           a == Minus(w, r)
           l == Loop(Ready, reader[p].n, reader[p].target)
           t == l.k + (IF l.eof THEN 1 ELSE 0)
           v == Plus(r, t)
           R == [at : {"idle", "running", "asleep"}, n : Nat, target : Nat, killed : BOOLEAN]
           x == IF l.done \/ reader[p].killed
                THEN [at |-> "idle", n |-> 0, target |-> 0, killed |-> reader[p].killed]
                ELSE [reader[p] EXCEPT !.n = reader[p].n - l.k, !.at = "asleep"]
<1>1. /\ input' = [input EXCEPT !.r = v] /\ got' = Between(r, Plus(r, l.k))
      /\ reader' = [reader EXCEPT ![p] = x] /\ pos' = pos
  BY DEF ReadLoop, ReadMoved, Ready
<1>2. /\ ConsoleTypeOK /\ r \in 0..(Width - 1) /\ w \in 0..(Width - 1) /\ e \in 0..(Width - 1)
      /\ b \in Bufs /\ Ready = Text(b, r, w) /\ Line = Text(b, w, e)
  BY Mapped DEF ConsoleInv
<1>3. a \in Nat /\ Ready \in Seq(Chars) /\ Len(Ready) = a
  BY <1>2, TextIs
<1>4. reader[p] \in R /\ reader[p].n <= reader[p].target
  BY DEF ConsoleInv, ConsoleTypeOK, ReadsLeft
<1>5. reader[p].n \in Nat /\ reader[p].target \in Nat
  BY <1>4
<1>6. /\ l.eof \in BOOLEAN /\ l.done \in BOOLEAN
      /\ l.k \in 0..a /\ l.k <= reader[p].n
      /\ \A i \in 1..l.k : Ready[i] # CtrlD /\ (i < l.k => Ready[i] # Newline)
      /\ l.eof => l.k = 0 /\ l.done /\ 1 <= a /\ Ready[1] = CtrlD
      /\ ~l.done => l.k = a
  <2> DEFINE n == reader[p].n
             target == reader[p].target
             avail == Ready
  <2>1. l = Loop(avail, n, target) /\ n \in Nat /\ target \in Nat /\ n <= target /\ avail \in Seq(Chars)
    BY <1>3, <1>4, <1>5
  <2> HIDE DEF l, a, n, target, avail
  <2>2. /\ l.eof \in BOOLEAN /\ l.done \in BOOLEAN
        /\ l.k \in 0..Len(avail) /\ l.k <= n
        /\ \A i \in 1..l.k : avail[i] # CtrlD /\ (i < l.k => avail[i] # Newline)
        /\ l.eof => l.k = 0 /\ l.done /\ 1 <= Len(avail) /\ avail[1] = CtrlD
        /\ ~l.done => l.k = Len(avail)
    BY <2>1, LoopIs
  <2>3. /\ l.eof \in BOOLEAN /\ l.done \in BOOLEAN
        /\ l.k \in 0..Len(Ready) /\ l.k <= reader[p].n
        /\ \A i \in 1..l.k : Ready[i] # CtrlD /\ (i < l.k => Ready[i] # Newline)
        /\ l.eof => l.k = 0 /\ l.done /\ 1 <= Len(Ready) /\ Ready[1] = CtrlD
        /\ ~l.done => l.k = Len(Ready)
    BY <2>2 DEF n, avail
  <2> QED BY <1>3, <2>3
<1> HIDE DEF l
<1>7. t \in 0..a /\ (l.eof => t = 1) /\ (~l.eof => t = l.k)
  <2>1. CASE l.eof
    <3>1. l.k = 0 /\ 1 <= a /\ t = l.k + 1
      BY <1>6, <2>1
    <3> HIDE DEF t, a
    <3>2. t = 1 /\ t \in 0..a
      BY <1>3, <3>1, SMTT(30)
    <3> QED BY <2>1, <3>2
  <2>2. CASE ~l.eof
    <3>1. l.k \in 0..a /\ t = l.k + 0
      BY <1>6, <2>2
    <3> HIDE DEF t, a
    <3>2. t = l.k /\ t \in 0..a
      BY <1>3, <3>1, SMTT(30)
    <3> QED BY <2>2, <3>2
  <2> QED BY <2>1, <2>2
<1> HIDE DEF t
<1>8. /\ v \in 0..(Width - 1) /\ Minus(w, v) = a - t
      /\ Text(b, v, w) = SubSeq(Ready, t + 1, Len(Ready))
  BY <1>2, <1>7, TextCut, SMTT(30)
<1>9. got' = SubSeq(Ready, 1, l.k)
  <2>1. Plus(r, l.k) \in 0..(Width - 1) /\ Text(b, r, Plus(r, l.k)) = SubSeq(Ready, 1, l.k)
    <3> DEFINE k == l.k
    <3>1. k \in 0..a
      BY <1>6
    <3> HIDE DEF k
    <3>2. Plus(r, k) \in 0..(Width - 1) /\ Text(b, r, Plus(r, k)) = SubSeq(Ready, 1, k)
      BY <1>2, <3>1, TextCut
    <3> QED BY <3>2 DEF k
  <2> QED BY <1>1, <1>2, <2>1, BetweenIsText
<1>10. /\ x \in R /\ x.n <= x.target
       /\ x.at = "asleep" => ~l.done
  <2>1. CASE l.done \/ reader[p].killed
    <3>1. x = [at |-> "idle", n |-> 0, target |-> 0, killed |-> reader[p].killed]
      BY <2>1
    <3>2. reader[p].killed \in BOOLEAN
      BY <1>4
    <3> HIDE DEF x
    <3>3. x \in R /\ x.n = 0 /\ x.target = 0 /\ x.at = "idle"
      BY <3>1, <3>2
    <3> QED BY <3>3, SMTT(30)
  <2>2. CASE ~(l.done \/ reader[p].killed)
    <3>1. x = [reader[p] EXCEPT !.n = reader[p].n - l.k, !.at = "asleep"]
      BY <2>2
    <3>2. reader[p].n - l.k \in Nat /\ reader[p].n - l.k <= reader[p].target
      BY <1>3, <1>4, <1>5, <1>6, SMTT(30)
    <3> HIDE DEF x
    <3>3. x \in R /\ x.n = reader[p].n - l.k /\ x.target = reader[p].target
      BY <1>4, <3>1, <3>2
    <3> QED BY <2>2, <3>2, <3>3
  <2> QED BY <2>1, <2>2
<1> HIDE DEF x, v
<1>11. /\ ConsoleTypeOK' /\ input'.r = v /\ input'.w = w /\ input'.e = e /\ input'.buf = b
       /\ \A q \in Readers : reader'[q] = IF q = p THEN x ELSE reader[q]
  BY <1>1, <1>2, <1>8, <1>10 DEF ConsoleTypeOK
<1>12. Line' = Line /\ Ready' = SubSeq(Ready, t + 1, Len(Ready))
  BY <1>2, <1>8, <1>11, MappedNext
<1>13. ReadsLeft'
  BY <1>10, <1>11 DEF ConsoleInv, ReadsLeft
<1>14. NoLineWaits'
  <2>1. pos' \in 0..(COLS * (ROWS - 1) - 1)
    BY <1>1 DEF ConsoleInv, NoLineWaits
  <2>2. Plus(r, a) = w
    BY <1>2, Reached
  <2>3. ASSUME x.at = "asleep" PROVE v = w
    <3>1. ~l.done /\ l.k = a /\ ~l.eof
      BY <1>6, <1>10, <2>3
    <3> QED BY <1>7, <2>2, <3>1 DEF v
  <2>4. ASSUME NEW q \in Readers, reader[q].at = "asleep" PROVE v = w
    <3>1. r = w
      BY <2>4 DEF ConsoleInv, NoLineWaits
    <3>2. a = 0
      <4>1. w \in 0..Width /\ w \in Nat
        BY <1>2, ConsoleAssumption, SMTT(30)
      <4>2. Minus(w, w) = IF w <= w THEN w - w ELSE w + Width - w
        BY <1>2, <4>1, MinusIs
      <4>3. Minus(w, w) = 0
        BY <4>1, <4>2, SMTT(30)
      <4> QED BY <3>1, <4>3
    <3>3. t = a
      BY <1>7, <3>2, SMTT(30)
    <3> QED BY <2>2, <3>3 DEF v
  <2> QED BY <1>11, <2>1, <2>3, <2>4 DEF NoLineWaits
<1>15. a + Minus(e, w) = Minus(e, r) /\ Minus(e, r) <= INPUT_BUF /\ Minus(e, w) \in Nat
  BY <1>2, TextIs DEF ConsoleInv, RingOrder
<1>16. RingOrder'
  <2>1. /\ t \in 0..(Width - 1) /\ t <= Minus(e, r)
        /\ (a - t) + Minus(e, w) = Minus(e, r) - t /\ Minus(e, r) - t <= INPUT_BUF
    <3> DEFINE m == Minus(e, w)
               n == Minus(e, r)
    <3>1. m \in Nat /\ a + m = n /\ n <= INPUT_BUF
      BY <1>15
    <3> HIDE DEF m, n, a
    <3>2. t \in 0..(Width - 1) /\ t <= n /\ (a - t) + m = n - t /\ n - t <= INPUT_BUF
      BY <1>3, <1>7, <3>1, ConsoleAssumption, SMTT(30)
    <3> QED BY <3>2 DEF m, n
  <2>2. Minus(e, v) = Minus(e, r) - t
    BY <1>2, <2>1, MovedOn DEF v
  <2> QED BY <1>8, <1>11, <2>1, <2>2 DEF RingOrder
<1>17. LineOpen'
  <2>1. Minus(input.e, input.w)' = Minus(input.e, input.w)
    BY <1>11 DEF Minus
  <2> QED BY <1>12, <2>1 DEF ConsoleInv, LineOpen
<1>18. Disciplines
  <2>1. t \in 0..INPUT_BUF /\ t <= Len(Ready)
    <3> HIDE DEF a
    <3>1. a + Minus(e, w) <= INPUT_BUF /\ Minus(e, w) \in Nat
      BY <1>15
    <3> HIDE DEF e, w
    <3> QED BY <1>3, <1>7, <3>1, ConsoleAssumption, SMTT(30)
  <2>2. LD!Taken(t)
    <3>1. CASE l.eof
      <4>1. t = 1 /\ Ready[1] = CtrlD /\ l.k = 0
        BY <1>6, <1>7, <3>1
      <4>2. got' = <<>>
        BY <1>3, <1>9, <4>1, SMTT(30)
      <4>3. \A i \in 1..(t - 1) : FALSE
        BY <4>1, SMTT(30)
      <4> QED BY <1>12, <2>1, <4>1, <4>2, <4>3 DEF LD!Taken
    <3>2. CASE ~l.eof
      <4>1. t = l.k
        BY <1>7, <3>2
      <4>2. t \in Nat /\ \A i \in 1..(t - 1) : i \in 1..t /\ i < t
        BY <1>3, <1>7, SMTT(30)
      <4>3. \A i \in 1..(t - 1) : Ready[i] \notin {Newline, CtrlD}
        BY <1>6, <4>1, <4>2
      <4>4. t > 0 => Ready[t] # CtrlD
        <5>1. t > 0 => t \in 1..t
          BY <4>2, SMTT(30)
        <5> QED BY <1>6, <4>1, <5>1
      <4> QED BY <1>9, <1>12, <2>1, <4>1, <4>3, <4>4 DEF LD!Taken
    <3> QED BY <3>1, <3>2
  <2> QED BY <2>1, <2>2 DEF Disciplines, LD!LdNext
<1> QED BY <1>11, <1>13, <1>14, <1>16, <1>17, <1>18 DEF ConsoleInv

-----------------------------------------------------------------------------
\* At the start nothing has been typed and nobody reads.
LEMMA ConsoleInitInv ==
  ASSUME ConsoleInit
  PROVE  ConsoleInv /\ LD!LdInit
<1>1. /\ input = [buf |-> [i \in 0..(INPUT_BUF - 1) |-> NoChar], r |-> 0, w |-> 0, e |-> 0]
      /\ reader = [p \in Readers |-> [at |-> "idle", n |-> 0, target |-> 0, killed |-> FALSE]]
      /\ got = <<>> /\ pos = 0
  BY DEF ConsoleInit
<1>2. 0 \in 0..(Width - 1) /\ 0 \in 0..Width /\ 0 \in Nat
  BY ConsoleAssumption, SMTT(30)
<1>3. NoChar \in Chars
  BY DEF Chars
<1>4. [at |-> "idle", n |-> 0, target |-> 0, killed |-> FALSE]
        \in [at : {"idle", "running", "asleep"}, n : Nat, target : Nat, killed : BOOLEAN]
  BY <1>2
<1>5. ConsoleTypeOK
  <2>1. [i \in 0..(INPUT_BUF - 1) |-> NoChar] \in Bufs
    BY <1>3 DEF Bufs
  <2>2. reader \in [Readers -> [at : {"idle", "running", "asleep"}, n : Nat, target : Nat,
                                killed : BOOLEAN]]
    BY <1>1, <1>4
  <2> QED BY <1>1, <1>2, <2>1, <2>2 DEF ConsoleTypeOK, Bufs
<1>6. input.r = 0 /\ input.w = 0 /\ input.e = 0
  BY <1>1
<1>7. Minus(0, 0) = 0
  <2>1. Minus(0, 0) = IF 0 <= 0 THEN 0 - 0 ELSE 0 + Width - 0
    BY <1>2, MinusIs
  <2> QED BY <2>1, SMTT(30)
<1>8. ReadsLeft
  BY <1>1, SMTT(30) DEF ReadsLeft
<1>9. RingOrder
  <2>1. Minus(0, 0) + Minus(0, 0) = Minus(0, 0) /\ Minus(0, 0) <= INPUT_BUF
    BY <1>7, ConsoleAssumption, SMTT(30)
  <2> QED BY <1>6, <2>1 DEF RingOrder
<1>10. LineOpen
  <2>1. Minus(input.e, input.w) = 0
    BY <1>6, <1>7
  <2> QED BY <2>1, SMTT(30) DEF LineOpen
<1>11. NoLineWaits
  <2>1. pos \in 0..(COLS * (ROWS - 1) - 1)
    <3>1. COLS * (ROWS - 1) >= 1
      BY ConsoleAssumption, TimesMonotone, SMTT(30)
    <3>2. COLS * (ROWS - 1) \in Nat
      BY ConsoleAssumption, SMTT(30)
    <3> QED BY <1>1, <3>1, <3>2, SMTT(30)
  <2> QED BY <1>6, <2>1 DEF NoLineWaits
<1>12. Ready = <<>> /\ Line = <<>>
  <2>1. Ready = Text(input.buf, 0, 0) /\ Line = Text(input.buf, 0, 0) /\ input.buf \in Bufs
    BY <1>5, <1>6, Mapped
  <2>2. Text(input.buf, 0, 0) \in Seq(Chars) /\ Len(Text(input.buf, 0, 0)) = 0
    BY <1>2, <1>7, <2>1, TextIs
  <2> QED BY <2>1, <2>2, SMTT(30)
<1>13. LD!LdInit
  BY <1>1, <1>12 DEF LD!LdInit
<1> QED BY <1>5, <1>8, <1>9, <1>10, <1>11, <1>13 DEF ConsoleInv

\* Nothing happens; procdump.
LEMMA ConsoleStutter ==
  ASSUME ConsoleInv, UNCHANGED convars
  PROVE  ConsoleInv' /\ Disciplines
<1>1. input' = input /\ reader' = reader /\ pos' = pos
  BY DEF convars
<1>2. ReadsLeft' /\ NoLineWaits'
  BY <1>1, ReadersStay DEF ConsoleInv, NoLineWaits
<1>3. ConsoleTypeOK'
  BY <1>1 DEF ConsoleInv, ConsoleTypeOK
<1>4. RingOrder' /\ LineOpen' /\ Disciplines
  BY <1>1, RingStays
<1> QED BY <1>2, <1>3, <1>4 DEF ConsoleInv

\* Every step keeps the invariant and is a step of the line discipline.
LEMMA ConsoleNextStep ==
  ASSUME ConsoleInv, ConsoleNext
  PROVE  ConsoleInv' /\ Disciplines
<1>1. ASSUME NEW c \in Letters \union {Newline, CtrlD, CtrlU, Backspace, CtrlP}, Consoleintr(c)
      PROVE  ConsoleInv' /\ Disciplines
  <2>1. ASSUME ProcDump PROVE ConsoleInv' /\ Disciplines
    BY <2>1, ConsoleStutter DEF ProcDump
  <2>2. ASSUME KillLine PROVE ConsoleInv' /\ Disciplines
    BY <2>2, KillLineStep
  <2>3. ASSUME EraseChar PROVE ConsoleInv' /\ Disciplines
    BY <2>3, EraseCharStep
  <2>4. ASSUME c \notin {CtrlP, CtrlU, Backspace}, StoreChar(c) PROVE ConsoleInv' /\ Disciplines
    <3>1. c \in Letters \union {Newline, CtrlD}
      BY <2>4
    <3> QED BY <2>4, <3>1, StoreCharStep
  <2> QED BY <1>1, <2>1, <2>2, <2>3, <2>4 DEF Consoleintr
<1>2. ASSUME NEW p \in Readers, NEW n \in ReadSizes, Consoleread(p, n)
      PROVE  ConsoleInv' /\ Disciplines
  BY <1>2, ConsolereadStep
<1>3. ASSUME NEW p \in Readers, ReadLoop(p)
      PROVE  ConsoleInv' /\ Disciplines
  BY <1>3, ReadLoopStep
<1>4. ASSUME NEW p \in Readers, KillReader(p)
      PROVE  ConsoleInv' /\ Disciplines
  BY <1>4, KillReaderStep
<1>5. ASSUME NEW c \in Letters \union {Newline}, Consolewrite(c)
      PROVE  ConsoleInv' /\ Disciplines
  BY <1>5, ConsolewriteStep
<1> QED BY <1>1, <1>2, <1>3, <1>4, <1>5 DEF ConsoleNext

\* The inductive invariant of the console: w lies between r and e, the ring
\* is never overfull, a line still edited has no newline, readers sleep only
\* at an empty ring and the cursor is on the screen (console.c).
THEOREM ConsoleInvariant == ConsoleSpec => []ConsoleInv
<1>1. ConsoleInit => ConsoleInv
  BY ConsoleInitInv
<1>2. ConsoleInv /\ [ConsoleNext]_convars => ConsoleInv'
  BY ConsoleNextStep, ConsoleStutter
<1> QED BY <1>1, <1>2, PTL DEF ConsoleSpec

\* No committed line waits for a reader that waits for it, and the cursor
\* stays off the last line, for every size of ring, counter and screen
\* (consoleread, consoleintr, cgaputc).
THEOREM CommittedLinesAreRead == ConsoleSpec => []NoLineWaits
<1>1. ConsoleInv => NoLineWaits
  BY DEF ConsoleInv
<1> QED BY <1>1, ConsoleInvariant, PTL

\* The ring with its three wrapping counters implements the line discipline,
\* whatever the sizes of the ring and the counters: the mapping takes the text
\* between r and w for what is committed and that between w and e for what
\* can be edited (consoleintr, consoleread).
THEOREM ConsoleRefines == ConsoleSpec => IsLineDiscipline
<1>1. ConsoleInit => LD!LdInit
  BY ConsoleInitInv
<1>2. ConsoleInv /\ [ConsoleNext]_convars => [LD!LdNext]_<<Ready, Line>>
  BY ConsoleNextStep, ConsoleStutter DEF Disciplines
<1> QED BY <1>1, <1>2, ConsoleInvariant, PTL DEF ConsoleSpec, IsLineDiscipline, LD!LdSpec
=============================================================================
