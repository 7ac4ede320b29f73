--------------------------- MODULE KernelTheorems ---------------------------
(***************************************************************************)
(* The theorems about the run times of Stats and about spin-locks, for     *)
(* every number of processors and all paths that keep the discipline of    *)
(* the kernel.                                                             *)
(***************************************************************************)
EXTENDS Spinlock, Stats, FiniteSetTheorems, TLAPS

\* Most leaves are first-order; a leaf that needs arithmetic or sequences
\* names SMT.
USE ZenonT(30)

-----------------------------------------------------------------------------
(***************************************************************************)
(* The run times of the scheduling statistics.                             *)
(***************************************************************************)

\* The fields of a slot of the process table.
SlotStates == {"UNUSED", "RUNNABLE", "RUNNING", "SLEEPING", "ZOMBIE"}
Slots ==
  [state : SlotStates, life : Nat, priority : Nat, Ticks : Nat, start_tick : Nat,
   duration : [Entries -> Nat], num_stat_used : Nat]

\* What is true of one slot, with the ticks h that its process has run.
SlotOK(r, h) ==
  /\ r \in Slots
  /\ r.state = "RUNNING" => r.start_tick <= clock /\ r.num_stat_used \in Entries
  /\ r.life = 0 => r.state = "UNUSED" /\ r.duration = NoTime
  /\ r.life = 1 =>
       \A k \in Entries :
         r.duration[k] + (IF r.state = "RUNNING" /\ k = r.num_stat_used
                          THEN clock - r.start_tick ELSE 0) = h[k]

\* The fields of a slot, one by one.
LEMMA SlotFields ==
  ASSUME NEW r \in Slots, NEW s \in SlotStates, NEW l \in Nat, NEW q \in Nat, NEW t \in Nat,
         NEW m \in Nat
  PROVE  [r EXCEPT !.state = s, !.life = l, !.priority = q, !.Ticks = t, !.num_stat_used = m] \in Slots
<1> DEFINE D == [Entries -> Nat]
<1>1. Slots = [state : SlotStates, life : Nat, priority : Nat, Ticks : Nat, start_tick : Nat,
               duration : D, num_stat_used : Nat]
  BY DEF Slots
<1> HIDE DEF D
<1> QED BY <1>1

\* The invariant, slot by slot.
LEMMA BySlot ==
  ASSUME StatTypeOK
  PROVE  RunsSince /\ NeverUsed /\ RunTimeExact <=> \A p \in Tasks : SlotOK(task[p], ran[p])
<1>1. \A p \in Tasks : task[p] \in Slots
  BY DEF StatTypeOK, Slots, SlotStates
<1> QED BY <1>1 DEF RunsSince, NeverUsed, RunTimeExact, OnCpu, SlotOK

LEMMA BySlotNext ==
  ASSUME StatTypeOK'
  PROVE  (RunsSince /\ NeverUsed /\ RunTimeExact)' <=> \A p \in Tasks : SlotOK(task[p], ran[p])'
<1>1. \A p \in Tasks : task'[p] \in Slots
  BY DEF StatTypeOK, Slots, SlotStates
<1> QED BY <1>1 DEF RunsSince, NeverUsed, RunTimeExact, OnCpu, SlotOK

\* A step on one slot, with the clock as it is.
LEMMA SlotStep ==
  ASSUME StatInv, clock' = clock, NEW p \in Tasks, NEW r, NEW h,
         task' = [task EXCEPT ![p] = r], ran' = [ran EXCEPT ![p] = h],
         h \in [Entries -> Nat], SlotOK(r, h),
         slice' \in [Processors -> {NoSlice} \union [p : Tasks, count : Nat]],
         OnOneProcessor'
  PROVE  StatInv'
<1>1. StatTypeOK /\ \A q \in Tasks : SlotOK(task[q], ran[q])
  BY BySlot DEF StatInv
<1>2. r \in Slots
  BY DEF SlotOK
<1>3. StatTypeOK'
  BY <1>1, <1>2 DEF StatTypeOK, Slots, SlotStates
<1>4. \A q \in Tasks : /\ task'[q] = IF q = p THEN r ELSE task[q]
                       /\ ran'[q] = IF q = p THEN h ELSE ran[q]
  BY <1>1 DEF StatTypeOK
<1>5. ASSUME NEW q \in Tasks
      PROVE  SlotOK(task[q], ran[q])'
  <2>1. CASE q = p
    <3>1. task'[q] = r /\ ran'[q] = h
      BY <1>4, <2>1
    <3> QED BY <3>1 DEF SlotOK
  <2>2. CASE q # p
    <3>1. task'[q] = task[q] /\ ran'[q] = ran[q]
      BY <1>4, <2>2
    <3>2. SlotOK(task[q], ran[q])
      BY <1>1
    <3> QED BY <3>1, <3>2, SMTT(30) DEF SlotOK
  <2> QED BY <2>1, <2>2
<1>6. RunsSince' /\ NeverUsed' /\ RunTimeExact'
  BY <1>3, <1>5, BySlotNext
<1> QED BY <1>3, <1>6 DEF StatInv

\* A process that no processor has changes its state: the processors keep
\* theirs.
LEMMA ProcessorsKeep ==
  ASSUME StatInv, NEW p \in Tasks, NEW r, task' = [task EXCEPT ![p] = r], slice' = slice,
         task[p].state # "RUNNING"
  PROVE  /\ slice' \in [Processors -> {NoSlice} \union [p : Tasks, count : Nat]]
         /\ OnOneProcessor'
<1>1. slice' \in [Processors -> {NoSlice} \union [p : Tasks, count : Nat]]
  BY DEF StatInv, StatTypeOK
<1>2. ASSUME NEW c \in Processors, slice[c] # NoSlice
      PROVE  slice[c].p \in Tasks /\ slice[c].p # p
  <2>1. slice[c] \in [p : Tasks, count : Nat]
    BY <1>2 DEF StatInv, StatTypeOK
  <2> QED BY <1>2, <2>1 DEF StatInv, OnOneProcessor
<1>3. \A q \in Tasks : q # p => task'[q] = task[q]
  BY DEF StatInv, StatTypeOK
<1> QED BY <1>1, <1>2, <1>3 DEF StatInv, OnOneProcessor

\* What a slot that is not running has recorded is all it has run.
LEMMA AllocStep ==
  ASSUME StatInv, NEW p \in Tasks, Alloc(p)
  PROVE  StatInv'
<1> DEFINE r == Allocated(task[p])
<1>1. /\ task[p].state = "UNUSED" /\ task' = [task EXCEPT ![p] = r]
      /\ ran' = [ran EXCEPT ![p] = NoTime] /\ clock' = clock /\ slice' = slice
  BY DEF Alloc
<1>2. SlotOK(task[p], ran[p])
  BY BySlot DEF StatInv
<1>3. task[p] \in Slots
  BY <1>2 DEF SlotOK
<1>4. /\ r \in Slots /\ r.state = "RUNNABLE" /\ r.life = task[p].life + 1
      /\ r.duration = task[p].duration
  <2>1. r.state = "RUNNABLE" /\ r.life = task[p].life + 1 /\ r.duration = task[p].duration
    BY <1>3 DEF Allocated, Slots
  <2>2. task[p].life + 1 \in Nat /\ 0 \in Nat
    BY <1>3, SMTT(30) DEF Slots
  <2>3. r \in Slots
    BY <1>3, <2>2, SlotFields DEF Allocated, SlotStates
  <2> QED BY <2>1, <2>3
<1>5. NoTime \in [Entries -> Nat] /\ \A k \in Entries : NoTime[k] = 0
  BY DEF NoTime
<1>6. task[p].life \in Nat
  BY <1>3 DEF Slots
<1> HIDE DEF r
<1>7. r.life # 0 /\ (r.life = 1 => task[p].life = 0)
  BY <1>4, <1>6, SMTT(30)
<1>8. r.life = 1 => \A k \in Entries : r.duration[k] + 0 = NoTime[k]
  <2>1. task[p].life = 0 => task[p].duration = NoTime
    BY <1>2 DEF SlotOK
  <2>2. 0 + 0 = 0
    BY SMTT(30)
  <2> QED BY <1>4, <1>5, <1>7, <2>1, <2>2
<1>9. SlotOK(r, NoTime)
  BY <1>4, <1>7, <1>8 DEF SlotOK
<1>10. /\ slice' \in [Processors -> {NoSlice} \union [p : Tasks, count : Nat]]
       /\ OnOneProcessor'
  BY <1>1, ProcessorsKeep
<1> QED BY <1>1, <1>5, <1>9, <1>10, SlotStep

\* A process that is not running changes its state only.
LEMMA Moved ==
  ASSUME StatInv, NEW p \in Tasks, NEW state \in {"UNUSED", "RUNNABLE"},
         task[p].state \in {"ZOMBIE", "SLEEPING"},
         task' = [task EXCEPT ![p].state = state], UNCHANGED <<clock, slice, ran>>
  PROVE  StatInv'
<1> DEFINE r == [task[p] EXCEPT !.state = state]
<1>1. SlotOK(task[p], ran[p]) /\ StatTypeOK
  BY BySlot DEF StatInv
<1>2. task[p] \in Slots
  BY <1>1 DEF SlotOK
<1>3. /\ r \in Slots /\ r.state = state /\ r.life = task[p].life /\ r.duration = task[p].duration
  BY <1>2 DEF Slots, SlotStates
<1>4. task' = [task EXCEPT ![p] = r]
  BY DEF r
<1> HIDE DEF r
<1>5. SlotOK(r, ran[p])
  BY <1>1, <1>3 DEF SlotOK
<1>6. ran' = [ran EXCEPT ![p] = ran[p]] /\ ran[p] \in [Entries -> Nat]
  BY <1>1 DEF StatTypeOK
<1>7. /\ slice' \in [Processors -> {NoSlice} \union [p : Tasks, count : Nat]]
      /\ OnOneProcessor'
  BY <1>4, ProcessorsKeep
<1> QED BY <1>4, <1>5, <1>6, <1>7, SlotStep

\* The switch to a process keeps what its slot has recorded.
LEMMA SwitchedOK ==
  ASSUME clock \in Nat, NEW r \in Slots, NEW h, r.num_stat_used \in Entries, r.life # 0,
         r.life = 1 => \A k \in Entries : r.duration[k] = h[k]
  PROVE  SlotOK(Switched(r), h) /\ Switched(r).state = "RUNNING"
<1> DEFINE x == Switched(r)
           D == [Entries -> Nat]
<1>1. Slots = [state : SlotStates, life : Nat, priority : Nat, Ticks : Nat, start_tick : Nat,
               duration : D, num_stat_used : Nat] /\ "RUNNING" \in SlotStates
  BY DEF Slots, SlotStates
<1>2. \A k \in Entries : r.duration[k] \in Nat
  BY DEF Slots
<1> HIDE DEF D
<1>3. /\ x \in Slots /\ x.state = "RUNNING" /\ x.life = r.life /\ x.start_tick = clock
      /\ x.duration = r.duration /\ x.num_stat_used = r.num_stat_used
  BY <1>1 DEF Switched
<1> HIDE DEF x
<1>4. clock <= clock /\ clock - clock = 0 /\ \A n \in Nat : n + 0 = n
  BY SMTT(30)
<1>5. ASSUME r.life = 1, NEW k \in Entries
      PROVE  x.duration[k] + (IF x.state = "RUNNING" /\ k = x.num_stat_used
                              THEN clock - x.start_tick ELSE 0) = h[k]
  BY <1>2, <1>3, <1>4, <1>5
<1>6. SlotOK(x, h)
  BY <1>3, <1>4, <1>5 DEF SlotOK
<1> QED BY <1>3, <1>6 DEF x

\* The scheduler takes p.
LEMMA TakeStep ==
  ASSUME StatInv, NEW c \in Processors, NEW p \in Tasks, Take(c, p)
  PROVE  StatInv'
<1> DEFINE r == Switched(task[p])
           s == [p |-> p, count |-> 0]
<1>1. /\ slice[c] = NoSlice /\ task[p].state = "RUNNABLE" /\ task[p].num_stat_used < NSCHEDSTATS
      /\ task' = [task EXCEPT ![p] = r] /\ slice' = [slice EXCEPT ![c] = s]
      /\ clock' = clock /\ ran' = ran
  BY DEF Take
<1>2. SlotOK(task[p], ran[p]) /\ StatTypeOK
  BY BySlot DEF StatInv
<1>3. task[p] \in Slots /\ task[p].life # 0 /\ clock \in Nat
  BY <1>1, <1>2 DEF SlotOK, StatTypeOK
<1>4. task[p].num_stat_used \in Entries
  <2>1. task[p].num_stat_used \in Nat
    BY <1>3 DEF Slots
  <2> QED BY <1>1, <2>1, StatAssumption, SMTT(30) DEF Entries
<1>5. task[p].life = 1 => \A k \in Entries : task[p].duration[k] = ran[p][k]
  <2>1. task[p].life = 1 => \A k \in Entries : task[p].duration[k] + 0 = ran[p][k]
    BY <1>1, <1>2 DEF SlotOK
  <2>2. \A k \in Entries : task[p].duration[k] \in Nat
    BY <1>3 DEF Slots
  <2>3. \A n \in Nat : n + 0 = n
    BY SMTT(30)
  <2> QED BY <2>1, <2>2, <2>3
<1>6. SlotOK(r, ran[p]) /\ r.state = "RUNNING"
  BY <1>3, <1>4, <1>5, SwitchedOK
<1>7. ran' = [ran EXCEPT ![p] = ran[p]] /\ ran[p] \in [Entries -> Nat]
  BY <1>1, <1>2 DEF StatTypeOK
<1>8. s \in [p : Tasks, count : Nat] /\ s.p = p
  BY SMTT(30)
<1> HIDE DEF r, s
<1>9. slice' \in [Processors -> {NoSlice} \union [p : Tasks, count : Nat]]
  BY <1>1, <1>2, <1>8 DEF StatTypeOK
<1>10. \A d \in Processors : slice'[d] = IF d = c THEN s ELSE slice[d]
  BY <1>1, <1>2 DEF StatTypeOK
<1>11. \A d \in Processors : slice[d] # NoSlice => slice[d].p \in Tasks /\ slice[d].p # p
  <2> SUFFICES ASSUME NEW d \in Processors, slice[d] # NoSlice
               PROVE  slice[d].p \in Tasks /\ slice[d].p # p
    OBVIOUS
  <2>1. slice[d] \in [p : Tasks, count : Nat]
    BY <1>2 DEF StatTypeOK
  <2> QED BY <1>1, <2>1 DEF StatInv, OnOneProcessor
<1>12. task'[p] = r /\ \A q \in Tasks : q # p => task'[q] = task[q]
  BY <1>1, <1>2 DEF StatTypeOK
<1>13. OnOneProcessor'
  <2> SUFFICES ASSUME NEW d \in Processors, slice'[d] # NoSlice
               PROVE  /\ task'[slice'[d].p].state = "RUNNING"
                      /\ \A f \in Processors \ {d} : slice'[f] # NoSlice => slice'[f].p # slice'[d].p
    BY DEF OnOneProcessor
  <2>1. CASE d = c
    BY <1>6, <1>8, <1>10, <1>11, <1>12, <2>1
  <2>2. CASE d # c
    <3>1. slice'[d] = slice[d] /\ slice[d] # NoSlice
      BY <1>10, <2>2
    <3>2. task'[slice[d].p].state = "RUNNING"
      BY <1>11, <1>12, <3>1 DEF StatInv, OnOneProcessor
    <3>3. ASSUME NEW f \in Processors \ {d}, slice'[f] # NoSlice
          PROVE  slice'[f].p # slice[d].p
      <4>1. CASE f = c
        BY <1>8, <1>10, <1>11, <3>1, <4>1
      <4>2. CASE f # c
        <5>1. slice'[f] = slice[f]
          BY <1>10, <4>2
        <5> QED BY <3>1, <3>3, <5>1 DEF StatInv, OnOneProcessor
      <4> QED BY <4>1, <4>2
    <3> QED BY <3>1, <3>2, <3>3
  <2> QED BY <2>1, <2>2
<1> QED BY <1>1, <1>6, <1>7, <1>9, <1>13, SlotStep

\* The end of a slice keeps the state, the life and the durations.
LEMMA EndSliceIs ==
  ASSUME NEW r \in Slots
  PROVE  /\ EndSlice(r) \in Slots
         /\ EndSlice(r).state = r.state /\ EndSlice(r).life = r.life
         /\ EndSlice(r).duration = r.duration
<1> DEFINE D == [Entries -> Nat]
           n == [r EXCEPT !.num_stat_used = @ + 1, !.Ticks = 0]
           Same(x) == x \in Slots /\ x.state = r.state /\ x.life = r.life /\ x.duration = r.duration
<1>1. Slots = [state : SlotStates, life : Nat, priority : Nat, Ticks : Nat, start_tick : Nat,
               duration : D, num_stat_used : Nat]
  BY DEF Slots
<1> HIDE DEF D
<1>2. r.num_stat_used + 1 \in Nat /\ r.priority + 1 \in Nat /\ 0 \in Nat /\ r.priority \in Nat
  BY <1>1, SMTT(30)
<1>3. Same(n) /\ n.priority = r.priority
  BY <1>1, <1>2
<1>4. Same([n EXCEPT !.priority = n.priority + 1]) /\ Same([n EXCEPT !.priority = 0])
  <2> HIDE DEF n
  <2> QED BY <1>1, <1>2, <1>3
<1>5. Same(r)
  OBVIOUS
<1>6. Same(EndSlice(r))
  <2> DEFINE A == r.state = "RUNNABLE" /\ r.priority < 2
             B == r.state = "RUNNABLE" /\ r.priority = 2 /\ r.Ticks >= BoostAfter
             C == r.state = "SLEEPING"
             up == [n EXCEPT !.priority = n.priority + 1]
             top == [n EXCEPT !.priority = 0]
  <2>1. EndSlice(r) = CASE A -> up [] B -> top [] C -> n [] OTHER -> r
    BY DEF EndSlice
  <2>2. ~(A /\ B) /\ ~(A /\ C) /\ ~(B /\ C)
    BY <1>2, SMTT(30)
  <2>3. Same(up) /\ Same(top)
    BY <1>4
  <2> HIDE DEF A, B, C, up, top, n, Same
  <2>4. EndSlice(r) = up \/ EndSlice(r) = top \/ EndSlice(r) = n \/ EndSlice(r) = r
    BY <2>1, <2>2
  <2> QED BY <1>3, <1>5, <2>3, <2>4
<1> QED BY <1>6

\* A process gives up the processor.
LEMMA GiveUpStep ==
  ASSUME StatInv, NEW c \in Processors, NEW state \in {"RUNNABLE", "SLEEPING", "ZOMBIE"},
         GiveUp(c, state)
  PROVE  StatInv'
<1> DEFINE s == slice[c]
           p == s.p
           h == ran[p]
           t == Left(task[p], state)
           again == state = "RUNNABLE" /\ s.count + 1 < SliceOf[task[p].priority]
           r == IF again THEN Switched(t) ELSE EndSlice(t)
           z == IF again THEN [p |-> p, count |-> s.count + 1] ELSE NoSlice
<1>1. /\ s # NoSlice /\ task' = [task EXCEPT ![p] = r] /\ slice' = [slice EXCEPT ![c] = z]
      /\ clock' = clock /\ ran' = ran
  BY DEF GiveUp
<1>2. StatTypeOK /\ s \in [p : Tasks, count : Nat]
  BY <1>1 DEF StatInv, StatTypeOK
<1>3. p \in Tasks /\ s.count \in Nat
  BY <1>2
<1>4. task[p].state = "RUNNING" /\ \A d \in Processors \ {c} : slice[d] # NoSlice => slice[d].p # p
  BY <1>1 DEF StatInv, OnOneProcessor
<1> HIDE DEF s, p, again
<1>5. SlotOK(task[p], ran[p])
  BY <1>2, <1>3, BySlot DEF StatInv
<1>6. /\ task[p] \in Slots /\ task[p].life # 0 /\ clock \in Nat
      /\ task[p].start_tick <= clock /\ task[p].num_stat_used \in Entries
      /\ task[p].life = 1 =>
           \A k \in Entries :
             task[p].duration[k] + (IF k = task[p].num_stat_used
                                    THEN clock - task[p].start_tick ELSE 0) = h[k]
  BY <1>2, <1>4, <1>5 DEF SlotOK, StatTypeOK
<1>7. /\ t \in Slots /\ t.state = state /\ t.life = task[p].life
      /\ t.num_stat_used = task[p].num_stat_used
      /\ \A k \in Entries : t.duration[k] = task[p].duration[k] +
           (IF k = task[p].num_stat_used THEN clock - task[p].start_tick ELSE 0)
  <2> DEFINE x == task[p]
             D == [Entries -> Nat]
             g == [x.duration EXCEPT ![x.num_stat_used] = Duration(x)]
  <2> HIDE DEF x
  <2>1. /\ x \in Slots /\ x.start_tick <= clock /\ x.num_stat_used \in Entries /\ clock \in Nat
    BY <1>6 DEF x
  <2>2. Slots = [state : SlotStates, life : Nat, priority : Nat, Ticks : Nat, start_tick : Nat,
                 duration : D, num_stat_used : Nat] /\ state \in SlotStates
    BY DEF Slots, SlotStates
  <2>3. x.duration \in D /\ x.start_tick \in Nat /\ x.Ticks \in Nat /\ x.duration[x.num_stat_used] \in Nat
    BY <2>1, <2>2
  <2>4. /\ Duration(x) = x.duration[x.num_stat_used] + (clock - x.start_tick)
        /\ Duration(x) \in Nat /\ x.Ticks + 1 \in Nat
    BY <2>1, <2>3, SMTT(30) DEF Duration
  <2>5. /\ g \in D
        /\ \A k \in Entries : g[k] = IF k = x.num_stat_used THEN Duration(x) ELSE x.duration[k]
    BY <2>3, <2>4
  <2>6. \A k \in Entries : x.duration[k] + 0 = x.duration[k]
    <3>1. \A k \in Entries : x.duration[k] \in Nat
      BY <2>3
    <3> QED BY <3>1, SMTT(30)
  <2>7. t = [x EXCEPT !.state = state, !.Ticks = x.Ticks + 1, !.duration = g]
    BY DEF Left, x
  <2> HIDE DEF g, D, t
  <2>8. /\ t \in Slots /\ t.state = state /\ t.life = x.life /\ t.num_stat_used = x.num_stat_used
        /\ t.duration = g
    BY <2>1, <2>2, <2>4, <2>5, <2>7
  <2>9. \A k \in Entries : t.duration[k] = x.duration[k] +
           (IF k = x.num_stat_used THEN clock - x.start_tick ELSE 0)
    BY <2>4, <2>5, <2>6, <2>8
  <2> QED BY <2>8, <2>9 DEF x
<1> HIDE DEF t, h
<1>8. t.life # 0 /\ t.num_stat_used \in Entries /\ (t.life = 1 => \A k \in Entries : t.duration[k] = h[k])
  BY <1>6, <1>7
<1>9. SlotOK(r, h) /\ (again => r.state = "RUNNING")
  <2>1. CASE again
    <3>1. r = Switched(t)
      BY <2>1
    <3> QED BY <1>6, <1>7, <1>8, <3>1, SwitchedOK
  <2>2. CASE ~again
    <3>1. r = EndSlice(t)
      BY <2>2
    <3> HIDE DEF r
    <3>2. r \in Slots /\ r.state = state /\ r.life = t.life /\ r.duration = t.duration
      BY <1>7, <3>1, EndSliceIs
    <3>3. r.life = 1 => \A k \in Entries : r.duration[k] + 0 = h[k]
      <4>1. \A k \in Entries : t.duration[k] \in Nat
        BY <1>7 DEF Slots
      <4>2. \A n \in Nat : n + 0 = n
        BY SMTT(30)
      <4> QED BY <1>8, <3>2, <4>1, <4>2
    <3>4. state # "RUNNING"
      OBVIOUS
    <3>5. SlotOK(r, h)
      BY <1>8, <3>2, <3>3, <3>4 DEF SlotOK
    <3> QED BY <2>2, <3>5
  <2> QED BY <2>1, <2>2
<1>10. ran' = [ran EXCEPT ![p] = h] /\ h \in [Entries -> Nat]
  BY <1>1, <1>2, <1>3 DEF h, StatTypeOK
<1>11. z \in {NoSlice} \union [p : Tasks, count : Nat] /\ (z # NoSlice => again /\ z.p = p)
  <2>1. s.count + 1 \in Nat
    BY <1>3, SMTT(30)
  <2>2. CASE again
    BY <1>3, <2>1, <2>2, SMTT(30)
  <2>3. CASE ~again
    BY <2>3
  <2> QED BY <2>2, <2>3
<1> HIDE DEF r, z
<1>12. slice' \in [Processors -> {NoSlice} \union [p : Tasks, count : Nat]]
  BY <1>1, <1>2, <1>11 DEF StatTypeOK
<1>13. \A d \in Processors : slice'[d] = IF d = c THEN z ELSE slice[d]
  BY <1>1, <1>2 DEF StatTypeOK
<1>14. task'[p] = r /\ \A q \in Tasks : q # p => task'[q] = task[q]
  BY <1>1, <1>2, <1>3 DEF StatTypeOK
<1>15. OnOneProcessor'
  <2> SUFFICES ASSUME NEW d \in Processors, slice'[d] # NoSlice
               PROVE  /\ task'[slice'[d].p].state = "RUNNING"
                      /\ \A f \in Processors \ {d} : slice'[f] # NoSlice => slice'[f].p # slice'[d].p
    BY DEF OnOneProcessor
  <2>1. CASE d = c
    BY <1>4, <1>9, <1>11, <1>13, <1>14, <2>1
  <2>2. CASE d # c
    <3>1. slice'[d] = slice[d] /\ slice[d] # NoSlice /\ slice[d].p # p
      BY <1>4, <1>13, <2>2
    <3>2. slice[d].p \in Tasks
      <4>1. slice[d] \in [p : Tasks, count : Nat]
        BY <1>2, <3>1 DEF StatTypeOK
      <4> QED BY <4>1
    <3>3. task'[slice[d].p].state = "RUNNING"
      BY <1>14, <3>1, <3>2 DEF StatInv, OnOneProcessor
    <3>4. ASSUME NEW f \in Processors \ {d}, slice'[f] # NoSlice
          PROVE  slice'[f].p # slice[d].p
      <4>1. CASE f = c
        BY <1>11, <1>13, <3>1, <3>4, <4>1
      <4>2. CASE f # c
        <5>1. slice'[f] = slice[f]
          BY <1>13, <4>2
        <5> QED BY <3>1, <3>4, <5>1 DEF StatInv, OnOneProcessor
      <4> QED BY <4>1, <4>2
    <3> QED BY <3>1, <3>3, <3>4
  <2> QED BY <2>1, <2>2
<1> QED BY <1>1, <1>3, <1>9, <1>10, <1>12, <1>15, SlotStep

\* ticks++ in trap.
LEMMA ClockTickStep ==
  ASSUME StatInv, ClockTick
  PROVE  StatInv'
<1>1. /\ clock' = clock + 1 /\ task' = task /\ slice' = slice
      /\ ran' = [p \in Tasks |-> IF task[p].state = "RUNNING"
                                 THEN [ran[p] EXCEPT ![task[p].num_stat_used] = @ + 1]
                                 ELSE ran[p]]
  BY DEF ClockTick
<1>2. StatTypeOK /\ clock \in Nat /\ clock + 1 \in Nat
  BY SMTT(30) DEF StatInv, StatTypeOK
<1>3. ASSUME NEW p \in Tasks
      PROVE  ran'[p] \in [Entries -> Nat] /\ SlotOK(task[p], ran[p])'
  <2> DEFINE x == task[p]
             h == ran[p]
             g == ran'[p]
             m == x.num_stat_used
             Good(y, f) ==
               /\ y \in Slots
               /\ y.state = "RUNNING" => y.start_tick <= clock' /\ y.num_stat_used \in Entries
               /\ y.life = 0 => y.state = "UNUSED" /\ y.duration = NoTime
               /\ y.life = 1 =>
                    \A k \in Entries :
                      y.duration[k] + (IF y.state = "RUNNING" /\ k = y.num_stat_used
                                       THEN clock' - y.start_tick ELSE 0) = f[k]
  <2>1. SlotOK(x, h) /\ h \in [Entries -> Nat] /\ x \in Slots
    BY <1>2, BySlot DEF StatInv, StatTypeOK, SlotOK
  <2>2. g = IF x.state = "RUNNING" THEN [h EXCEPT ![m] = h[m] + 1] ELSE h
    BY <1>1
  <2>3. Good(x, g) => SlotOK(task[p], ran[p])'
    BY <1>1 DEF SlotOK
  <2>4. CASE x.state # "RUNNING"
    <3>1. g = h
      BY <2>2, <2>4
    <3>2. x.life = 1 => \A k \in Entries : x.duration[k] + 0 = h[k]
      BY <2>1, <2>4 DEF SlotOK
    <3>3. x.life = 0 => x.state = "UNUSED" /\ x.duration = NoTime
      BY <2>1 DEF SlotOK
    <3> HIDE DEF x, g, h
    <3>4. Good(x, g)
      BY <2>1, <2>4, <3>1, <3>2, <3>3
    <3> QED BY <2>1, <2>3, <3>1, <3>4 DEF g
  <2>5. CASE x.state = "RUNNING"
    <3>1. m \in Entries /\ x.start_tick <= clock /\ x.start_tick \in Nat
      BY <2>1, <2>5 DEF SlotOK, Slots
    <3>2. h[m] \in Nat /\ h[m] + 1 \in Nat /\ x.start_tick <= clock + 1
      <4>1. h[m] \in Nat
        BY <2>1, <3>1
      <4> HIDE DEF h, m, x
      <4> QED BY <1>2, <3>1, <4>1, SMTT(30)
    <3>3. g \in [Entries -> Nat] /\ \A k \in Entries : g[k] = IF k = m THEN h[m] + 1 ELSE h[k]
      BY <2>1, <2>2, <2>5, <3>1, <3>2
    <3>4. ASSUME x.life = 1, NEW k \in Entries
          PROVE  x.duration[k] + (IF x.state = "RUNNING" /\ k = m
                                  THEN clock' - x.start_tick ELSE 0) = g[k]
      <4>1. x.duration[k] \in Nat
        BY <2>1 DEF Slots
      <4>2. CASE k = m
        <5>1. x.duration[k] + (clock - x.start_tick) = h[k] /\ g[k] = h[k] + 1
          BY <2>1, <2>5, <3>3, <3>4, <4>2 DEF SlotOK
        <5> HIDE DEF g, h, m, x
        <5>2. x.duration[k] + ((clock + 1) - x.start_tick) = g[k]
          BY <1>2, <3>1, <4>1, <5>1, SMTT(30)
        <5> QED BY <1>1, <2>5, <4>2, <5>2
      <4>3. CASE k # m
        <5>1. x.duration[k] + 0 = h[k] /\ g[k] = h[k]
          BY <2>1, <3>3, <3>4, <4>3 DEF SlotOK
        <5> QED BY <4>3, <5>1
      <4> QED BY <4>2, <4>3
    <3>5. x.life # 0
      BY <2>1, <2>5 DEF SlotOK
    <3> HIDE DEF g, x
    <3>6. x.start_tick <= clock'
      BY <1>1, <3>2
    <3>7. Good(x, g)
      BY <2>1, <3>1, <3>4, <3>5, <3>6
    <3> QED BY <2>3, <3>3, <3>7 DEF g
  <2> QED BY <2>4, <2>5
<1>4. StatTypeOK'
  BY <1>1, <1>2, <1>3 DEF StatTypeOK
<1>5. OnOneProcessor'
  BY <1>1 DEF StatInv, OnOneProcessor
<1>6. RunsSince' /\ NeverUsed' /\ RunTimeExact'
  BY <1>3, <1>4, BySlotNext
<1> QED BY <1>4, <1>5, <1>6 DEF StatInv

\* At the start every slot is unused.
LEMMA StatInitInv ==
  ASSUME StatInit
  PROVE  StatInv
<1>1. /\ clock = 0 /\ task = [p \in Tasks |-> FreshTask] /\ slice = [c \in Processors |-> NoSlice]
      /\ ran = [p \in Tasks |-> NoTime]
  BY DEF StatInit
<1>2. 0 \in Nat /\ 0 # 1
  BY SMTT(30)
<1>3. NoTime \in [Entries -> Nat]
  BY <1>2 DEF NoTime
<1>4. /\ FreshTask \in Slots /\ FreshTask.state = "UNUSED" /\ FreshTask.life = 0
      /\ FreshTask.duration = NoTime
  BY <1>2, <1>3 DEF FreshTask, Slots, SlotStates
<1>5. \A p \in Tasks : SlotOK(task[p], ran[p])
  BY <1>1, <1>2, <1>4 DEF SlotOK
<1>6. StatTypeOK
  BY <1>1, <1>2, <1>3, <1>4 DEF StatTypeOK, Slots, SlotStates
<1>7. OnOneProcessor
  BY <1>1 DEF OnOneProcessor
<1> QED BY <1>5, <1>6, <1>7, BySlot DEF StatInv

\* Nothing happens.
LEMMA StatStutter ==
  ASSUME StatInv, UNCHANGED statvars
  PROVE  StatInv'
<1>1. clock' = clock /\ task' = task /\ slice' = slice /\ ran' = ran
  BY DEF statvars
<1>2. StatTypeOK'
  BY <1>1 DEF StatInv, StatTypeOK
<1>3. OnOneProcessor'
  BY <1>1 DEF StatInv, OnOneProcessor
<1>4. RunsSince' /\ NeverUsed'
  BY <1>1 DEF StatInv, RunsSince, NeverUsed
<1>5. RunTimeExact'
  BY <1>1 DEF StatInv, RunTimeExact, OnCpu
<1> QED BY <1>2, <1>3, <1>4, <1>5 DEF StatInv

\* Every step of the scheduler's accounting keeps the invariant.
LEMMA StatNextStep ==
  ASSUME StatInv, StatNext
  PROVE  StatInv'
<1>1. ASSUME NEW p \in Tasks, Alloc(p) PROVE StatInv'
  BY <1>1, AllocStep
<1>2. ASSUME NEW p \in Tasks, Reap(p) PROVE StatInv'
  BY <1>2, Moved DEF Reap
<1>3. ASSUME NEW p \in Tasks, WakeTask(p) PROVE StatInv'
  BY <1>3, Moved DEF WakeTask
<1>4. ASSUME ClockTick PROVE StatInv'
  BY <1>4, ClockTickStep
<1>5. ASSUME NEW c \in Processors, NEW p \in Tasks, Take(c, p) PROVE StatInv'
  BY <1>5, TakeStep
<1>6. ASSUME NEW c \in Processors, NEW state \in {"RUNNABLE", "SLEEPING", "ZOMBIE"},
             GiveUp(c, state)
      PROVE  StatInv'
  BY <1>6, GiveUpStep
<1> QED BY <1>1, <1>2, <1>3, <1>4, <1>5, <1>6 DEF StatNext

\* The run time that getpinfo reports for the first process of a slot is the
\* time it was on a processor, entry by entry, for any number of processes,
\* processors, entries and levels (scheduler, proc.c).
THEOREM RunTimeIsExact == StatSpec => []RunTimeExact
<1>1. StatInit => StatInv
  BY StatInitInv
<1>2. StatInv /\ [StatNext]_statvars => StatInv'
  BY StatNextStep, StatStutter
<1>3. StatInv => RunTimeExact
  BY DEF StatInv
<1> QED BY <1>1, <1>2, <1>3, PTL DEF StatSpec

-----------------------------------------------------------------------------
(***************************************************************************)
(* Paths.                                                                  *)
(***************************************************************************)

\* The three kinds of steps of a path.
LEMMA OpKinds ==
  /\ \A l, m : Acq(l) = Acq(m) => l = m
  /\ \A l, m : Rel(l) = Rel(m) => l = m
  /\ \A l, m : Acq(l) # Rel(m) /\ Acq(l) # Sched /\ Rel(l) # Sched
  /\ \A l : Acq(l).op = "acquire" /\ Acq(l).lk = l /\ Rel(l).op = "release" /\ Rel(l).lk = l
  /\ Sched.op = "sched"
  /\ \A o \in Ops : /\ o.op = "acquire" => o.lk \in Locks /\ o = Acq(o.lk)
                    /\ o.op = "release" => o.lk \in Locks /\ o = Rel(o.lk)
                    /\ o.op = "sched" => o = Sched
                    /\ o.op \in {"acquire", "release", "sched"}
<1>1. /\ \A l : Acq(l).op = "acquire" /\ Acq(l).lk = l /\ Rel(l).op = "release" /\ Rel(l).lk = l
      /\ Sched.op = "sched"
  BY DEF Acq, Rel, Sched
<1>2. /\ \A l, m : Acq(l) = Acq(m) => l = m
      /\ \A l, m : Rel(l) = Rel(m) => l = m
      /\ \A l, m : Acq(l) # Rel(m) /\ Acq(l) # Sched /\ Rel(l) # Sched
  BY <1>1, SMTT(30)
<1>3. ASSUME NEW o \in Ops
      PROVE  /\ o.op = "acquire" => o.lk \in Locks /\ o = Acq(o.lk)
             /\ o.op = "release" => o.lk \in Locks /\ o = Rel(o.lk)
             /\ o.op = "sched" => o = Sched
             /\ o.op \in {"acquire", "release", "sched"}
  <2>1. (\E l \in Locks : o = Acq(l)) \/ (\E l \in Locks : o = Rel(l)) \/ o = Sched
    BY SMTT(30) DEF Ops
  <2> QED BY <1>1, <2>1, SMTT(30)
<1> QED BY <1>1, <1>2, <1>3

\* The rest of a path.
LEMMA HeldByTail ==
  ASSUME NEW p \in Seq(Ops), p # <<>>, NEW k \in Nat \ {0}
  PROVE  HeldFrom(Tail(p), k) = HeldFrom(p, k + 1)
<1>1. /\ Len(p) \in Nat \ {0} /\ Len(Tail(p)) = Len(p) - 1
      /\ \A i \in 1..(Len(p) - 1) : Tail(p)[i] = p[i + 1]
  BY SMTT(30)
<1>2. ASSUME NEW l \in Locks, l \in HeldFrom(Tail(p), k) PROVE l \in HeldFrom(p, k + 1)
  <2>1. PICK i \in k..Len(Tail(p)) : Tail(p)[i] = Rel(l) /\ \A j \in k..(i - 1) : Tail(p)[j] # Acq(l)
    BY <1>2 DEF HeldFrom
  <2>2. i + 1 \in (k + 1)..Len(p) /\ p[i + 1] = Rel(l)
    BY <1>1, <2>1, SMTT(30)
  <2>3. ASSUME NEW j \in (k + 1)..((i + 1) - 1) PROVE p[j] # Acq(l)
    <3>1. j - 1 \in k..(i - 1) /\ Tail(p)[j - 1] = p[j]
      BY <1>1, <2>1, SMTT(30)
    <3> QED BY <2>1, <3>1
  <2> QED BY <2>2, <2>3 DEF HeldFrom
<1>3. ASSUME NEW l \in Locks, l \in HeldFrom(p, k + 1) PROVE l \in HeldFrom(Tail(p), k)
  <2>1. PICK i \in (k + 1)..Len(p) : p[i] = Rel(l) /\ \A j \in (k + 1)..(i - 1) : p[j] # Acq(l)
    BY <1>3 DEF HeldFrom
  <2>2. i - 1 \in k..Len(Tail(p)) /\ Tail(p)[i - 1] = Rel(l)
    BY <1>1, <2>1, SMTT(30)
  <2>3. ASSUME NEW j \in k..((i - 1) - 1) PROVE Tail(p)[j] # Acq(l)
    <3>1. j + 1 \in (k + 1)..(i - 1) /\ Tail(p)[j] = p[j + 1]
      BY <1>1, <2>1, SMTT(30)
    <3> QED BY <2>1, <3>1
  <2> QED BY <2>2, <2>3 DEF HeldFrom
<1>4. HeldFrom(Tail(p), k) \subseteq Locks /\ HeldFrom(p, k + 1) \subseteq Locks
  BY DEF HeldFrom
<1> QED BY <1>2, <1>3, <1>4

\* What one step of a path changes.
LEMMA HeldByHead ==
  ASSUME NEW p \in Seq(Ops), p # <<>>
  PROVE  /\ \A l \in Locks : p[1] = Acq(l) => HeldFrom(p, 1) = HeldFrom(p, 2) \ {l}
         /\ \A l \in Locks : p[1] = Rel(l) => HeldFrom(p, 1) = HeldFrom(p, 2) \cup {l}
         /\ p[1] = Sched => HeldFrom(p, 1) = HeldFrom(p, 2)
<1>1. Len(p) \in Nat \ {0}
  BY SMTT(30)
<1>2. ASSUME NEW m \in Locks
      PROVE  m \in HeldFrom(p, 1) <=> p[1] = Rel(m) \/ (p[1] # Acq(m) /\ m \in HeldFrom(p, 2))
  <2>1. ASSUME p[1] = Rel(m) PROVE m \in HeldFrom(p, 1)
    <3>1. 1 \in 1..Len(p) /\ \A j \in 1..(1 - 1) : p[j] # Acq(m)
      BY <1>1, SMTT(30)
    <3> QED BY <2>1, <3>1 DEF HeldFrom
  <2>2. ASSUME p[1] # Acq(m), m \in HeldFrom(p, 2) PROVE m \in HeldFrom(p, 1)
    <3>1. PICK i \in 2..Len(p) : p[i] = Rel(m) /\ \A j \in 2..(i - 1) : p[j] # Acq(m)
      BY <2>2 DEF HeldFrom
    <3>2. i \in 1..Len(p) /\ \A j \in 1..(i - 1) : j = 1 \/ j \in 2..(i - 1)
      BY <1>1, <3>1, SMTT(30)
    <3>3. \A j \in 1..(i - 1) : p[j] # Acq(m)
      BY <2>2, <3>1, <3>2
    <3> QED BY <3>1, <3>2, <3>3 DEF HeldFrom
  <2>3. ASSUME m \in HeldFrom(p, 1), p[1] # Rel(m) PROVE p[1] # Acq(m) /\ m \in HeldFrom(p, 2)
    <3>1. PICK i \in 1..Len(p) : p[i] = Rel(m) /\ \A j \in 1..(i - 1) : p[j] # Acq(m)
      BY <2>3 DEF HeldFrom
    <3>2. i # 1
      BY <2>3, <3>1
    <3>3. i \in 2..Len(p) /\ 1 \in 1..(i - 1) /\ \A j \in 2..(i - 1) : j \in 1..(i - 1)
      BY <1>1, <3>1, <3>2, SMTT(30)
    <3> QED BY <3>1, <3>3 DEF HeldFrom
  <2> QED BY <2>1, <2>2, <2>3
<1>3. HeldFrom(p, 1) \subseteq Locks /\ HeldFrom(p, 2) \subseteq Locks
  BY DEF HeldFrom
<1>4. ASSUME NEW l \in Locks, p[1] = Acq(l) PROVE HeldFrom(p, 1) = HeldFrom(p, 2) \ {l}
  <2>1. ASSUME NEW m \in Locks PROVE m \in HeldFrom(p, 1) <=> m \in HeldFrom(p, 2) /\ m # l
    <3>1. p[1] # Rel(m) /\ (p[1] = Acq(m) <=> m = l)
      BY <1>4, OpKinds, SMTT(30)
    <3> QED BY <1>2, <3>1
  <2> QED BY <1>3, <2>1
<1>5. ASSUME NEW l \in Locks, p[1] = Rel(l) PROVE HeldFrom(p, 1) = HeldFrom(p, 2) \cup {l}
  <2>1. ASSUME NEW m \in Locks PROVE m \in HeldFrom(p, 1) <=> m \in HeldFrom(p, 2) \/ m = l
    <3>1. p[1] # Acq(m) /\ (p[1] = Rel(m) <=> m = l)
      BY <1>5, OpKinds
    <3> QED BY <1>2, <3>1
  <2> QED BY <1>3, <2>1
<1>6. ASSUME p[1] = Sched PROVE HeldFrom(p, 1) = HeldFrom(p, 2)
  BY <1>2, <1>3, <1>6, OpKinds
<1> QED BY <1>4, <1>5, <1>6

\* The rest of a path keeps the discipline.
LEMMA NestedTail ==
  ASSUME NEW p \in Seq(Ops), p # <<>>, Nested(p)
  PROVE  Tail(p) \in Seq(Ops) /\ Nested(Tail(p))
<1>1. /\ Len(p) \in Nat \ {0} /\ Tail(p) \in Seq(Ops) /\ Len(Tail(p)) = Len(p) - 1
      /\ \A i \in 1..(Len(p) - 1) : Tail(p)[i] = p[i + 1]
  BY SMTT(30)
<1>2. ASSUME NEW k \in 1..Len(Tail(p))
      PROVE  /\ k + 1 \in 1..Len(p) /\ Tail(p)[k] = p[k + 1]
             /\ HeldFrom(Tail(p), k) = HeldFrom(p, k + 1)
             /\ HeldFrom(Tail(p), k + 1) = HeldFrom(p, (k + 1) + 1)
  <2>1. k + 1 \in 1..Len(p) /\ Tail(p)[k] = p[k + 1] /\ k \in Nat \ {0} /\ k + 1 \in Nat \ {0}
    BY <1>1, SMTT(30)
  <2> QED BY <2>1, HeldByTail
<1>3. ASSUME NEW k \in 1..Len(Tail(p))
      PROVE  /\ \A l \in Locks : Tail(p)[k] = Acq(l) => l \in HeldFrom(Tail(p), k + 1)
             /\ \A l \in Locks : Tail(p)[k] = Rel(l) => l \notin HeldFrom(Tail(p), k + 1)
             /\ Tail(p)[k] = Sched => HeldFrom(Tail(p), k) = {"ptable"}
  BY <1>2, SMTT(30) DEF Nested
<1> QED BY <1>1, <1>3 DEF Nested

\* The locks of a path are finitely many.
LEMMA HeldFinite ==
  ASSUME NEW p, NEW k
  PROVE  /\ HeldFrom(p, k) \subseteq Locks /\ IsFiniteSet(HeldFrom(p, k))
         /\ Cardinality(HeldFrom(p, k)) \in Nat
         /\ Cardinality(HeldFrom(p, k)) = 0 <=> HeldFrom(p, k) = {}
<1>1. IsFiniteSet(Locks)
  <2>1. IsFiniteSet({"cons"}) /\ IsFiniteSet({"ptable"}) /\ IsFiniteSet({"ticks"}) /\ IsFiniteSet({"ide"})
    BY FS_Singleton
  <2>2. Locks = ({"cons"} \cup {"ptable"}) \cup ({"ticks"} \cup {"ide"})
    BY DEF Locks
  <2> QED BY <2>1, <2>2, FS_Union
<1>2. HeldFrom(p, k) \subseteq Locks
  BY DEF HeldFrom
<1>3. IsFiniteSet(HeldFrom(p, k))
  BY <1>1, <1>2, FS_Subset
<1> QED BY <1>2, <1>3, FS_CardinalityType, FS_EmptySet

\* Each kind of step changes them by one lock, or not at all.
LEMMA PathStep ==
  ASSUME NEW p \in Seq(Ops), p # <<>>, Nested(p)
  PROVE  LET H == HeldFrom(p, 1)  T == HeldFrom(Tail(p), 1)  l == Head(p).lk IN
         /\ Head(p).op \in {"acquire", "release", "sched"}
         /\ Head(p).op = "acquire" =>
              l \in Locks /\ Head(p) = Acq(l) /\ l \notin H /\ T = H \cup {l} /\ Cardinality(T) = Cardinality(H) + 1
         /\ Head(p).op = "release" =>
              l \in Locks /\ Head(p) = Rel(l) /\ l \notin T /\ H = T \cup {l} /\ Cardinality(H) = Cardinality(T) + 1
         /\ Head(p).op = "sched" =>
              Head(p) = Sched /\ T = H /\ H = {"ptable"} /\ Cardinality(H) = 1
<1> DEFINE H == HeldFrom(p, 1)  T == HeldFrom(Tail(p), 1)  l == Head(p).lk
<1>1. Head(p) = p[1] /\ p[1] \in Ops /\ 1 \in 1..Len(p) /\ 1 + 1 = 2 /\ 1 \in Nat \ {0}
  BY SMTT(30)
<1>2. T = HeldFrom(p, 2)
  BY <1>1, HeldByTail
<1>3. /\ IsFiniteSet(H) /\ IsFiniteSet(T) /\ Cardinality(H) \in Nat /\ Cardinality(T) \in Nat
  BY HeldFinite
<1>4. /\ \A m \in Locks : p[1] = Acq(m) => m \in HeldFrom(p, 2)
      /\ \A m \in Locks : p[1] = Rel(m) => m \notin HeldFrom(p, 2)
      /\ p[1] = Sched => HeldFrom(p, 1) = {"ptable"}
  BY <1>1 DEF Nested
<1>5. ASSUME Head(p).op = "acquire"
      PROVE  l \in Locks /\ Head(p) = Acq(l) /\ l \notin H /\ T = H \cup {l} /\ Cardinality(T) = Cardinality(H) + 1
  <2>1. l \in Locks /\ Head(p) = Acq(l)
    BY <1>1, <1>5, OpKinds
  <2>2. l \in T /\ H = T \ {l}
    BY <1>1, <1>2, <1>4, <2>1, HeldByHead
  <2>3. l \notin H /\ T = H \cup {l}
    BY <2>2
  <2>4. Cardinality(T) = Cardinality(H) + 1
    BY <1>3, <2>3, FS_AddElement
  <2> QED BY <2>1, <2>3, <2>4
<1>6. ASSUME Head(p).op = "release"
      PROVE  l \in Locks /\ Head(p) = Rel(l) /\ l \notin T /\ H = T \cup {l} /\ Cardinality(H) = Cardinality(T) + 1
  <2>1. l \in Locks /\ Head(p) = Rel(l)
    BY <1>1, <1>6, OpKinds
  <2>2. l \notin T /\ H = T \cup {l}
    BY <1>1, <1>2, <1>4, <2>1, HeldByHead
  <2>3. Cardinality(H) = Cardinality(T) + 1
    BY <1>3, <2>2, FS_AddElement
  <2> QED BY <2>1, <2>2, <2>3
<1>7. ASSUME Head(p).op = "sched"
      PROVE  Head(p) = Sched /\ T = H /\ H = {"ptable"} /\ Cardinality(H) = 1
  <2>1. Head(p) = Sched
    BY <1>1, <1>7, OpKinds
  <2>2. T = H /\ H = {"ptable"}
    BY <1>1, <1>2, <1>4, <2>1, HeldByHead
  <2> QED BY <2>1, <2>2, FS_Singleton
<1>8. Head(p).op \in {"acquire", "release", "sched"}
  BY <1>1, OpKinds
<1> QED BY <1>5, <1>6, <1>7, <1>8

-----------------------------------------------------------------------------
(***************************************************************************)
(* Frames and stacks.                                                      *)
(***************************************************************************)

\* What a frame holds, and what names it as the owner, at each place.
LEMMA Standing ==
  ASSUME NEW f \in Frames, Sound(f)
  PROVE  LET H == HeldFrom(f.path, 1)  k == Head(f.path).lk IN
         /\ f.path \in Seq(Ops) /\ f.irq \in BOOLEAN
         /\ f.path = <<>> => H = {} /\ f.at = "start"
         /\ f.at \in {"start", "holding", "whose", "spin", "unlock"} => \A l \in Locks : Holds(f, l) <=> l \in H
         /\ f.at = "locked" => \A l \in Locks : Holds(f, l) <=> l \in H \/ l = k
         /\ f.at = "popcli" => \A l \in Locks : Holds(f, l) <=> l \in H /\ l # k
         /\ f.at \in {"start"} \cup Acquiring => \A l \in Locks : Owns(f, l) <=> l \in H
         /\ f.at \in Releasing => \A l \in Locks : Owns(f, l) <=> l \in H /\ l # k
<1> DEFINE H == HeldFrom(f.path, 1)  k == Head(f.path).lk
<1>1. f.path \in Seq(Ops) /\ f.irq \in BOOLEAN /\ f.at \in {"start"} \cup Acquiring \cup Releasing
  BY DEF Frames
<1>2. ASSUME f.path = <<>> PROVE H = {} /\ f.at = "start"
  <2>1. H = {}
    BY <1>2, SMTT(30) DEF HeldFrom
  <2> QED BY <1>1, <1>2, <2>1 DEF Sound
<1>3. ASSUME f.at \in Acquiring
      PROVE  f.path # <<>> /\ Head(f.path) = Acq(k) /\ \A l : Head(f.path) # Rel(l)
  <2>1. f.path # <<>> /\ Head(f.path).op = "acquire"
    BY <1>3 DEF Sound
  <2>2. Head(f.path) \in Ops
    BY <1>1, <2>1, SMTT(30)
  <2> QED BY <2>1, <2>2, OpKinds
<1>4. ASSUME f.at \in Releasing
      PROVE  f.path # <<>> /\ Head(f.path) = Rel(k) /\ \A l : Head(f.path) = Rel(l) <=> l = k
  <2>1. f.path # <<>> /\ Head(f.path).op = "release"
    BY <1>4 DEF Sound
  <2>2. Head(f.path) \in Ops
    BY <1>1, <2>1, SMTT(30)
  <2> QED BY <2>1, <2>2, OpKinds
<1>5. /\ "locked" \in Acquiring /\ "popcli" \in Releasing
      /\ \A a \in Acquiring : a # "popcli" /\ a # "start"
      /\ \A a \in Releasing : a # "locked" /\ a # "start"
  BY SMTT(30) DEF Acquiring, Releasing
<1>6. ASSUME f.at \in {"start", "holding", "whose", "spin", "unlock"}, NEW l \in Locks
      PROVE  Holds(f, l) <=> l \in H
  <2>1. f.at # "locked" /\ f.at # "popcli"
    BY <1>6
  <2> QED BY <2>1 DEF Holds
<1>7. ASSUME f.at = "locked", NEW l \in Locks PROVE Holds(f, l) <=> l \in H \/ l = k
  <2>1. f.path # <<>> /\ Head(f.path) = Acq(k) /\ \A m : Head(f.path) # Rel(m)
    BY <1>3, <1>5, <1>7
  <2>2. Head(f.path) = Acq(l) <=> l = k
    BY <2>1, OpKinds
  <2> QED BY <1>7, <2>1, <2>2 DEF Holds
<1>8. ASSUME f.at = "popcli", NEW l \in Locks PROVE Holds(f, l) <=> l \in H /\ l # k
  <2>1. f.path # <<>> /\ \A m : Head(f.path) = Rel(m) <=> m = k
    BY <1>4, <1>5, <1>8
  <2> QED BY <1>8, <2>1 DEF Holds
<1>9. ASSUME f.at \in {"start"} \cup Acquiring, NEW l \in Locks PROVE Owns(f, l) <=> l \in H
  BY <1>3, <1>9 DEF Owns
<1>10. ASSUME f.at \in Releasing, NEW l \in Locks PROVE Owns(f, l) <=> l \in H /\ l # k
  BY <1>4, <1>5, <1>10 DEF Owns
<1> QED BY <1>1, <1>2, <1>6, <1>7, <1>8, <1>9, <1>10

\* The frame that runs.
LEMMA TopFrame ==
  ASSUME SpinTypeOK, Stacks, NEW c \in CPUs, frames[c] # <<>>
  PROVE  /\ Len(frames[c]) \in 1..Len(frames[c]) /\ Top(c) \in Frames /\ Sound(Top(c))
         /\ frames[c] \in Seq(Frames) /\ Len(frames[c]) \in {1, 2}
<1>1. frames[c] \in Seq(Frames)
  BY DEF SpinTypeOK
<1>2. Len(frames[c]) <= 2
  BY DEF Stacks
<1>3. /\ Len(frames[c]) \in 1..Len(frames[c]) /\ Top(c) \in Frames /\ Len(frames[c]) \in {1, 2}
  <2> DEFINE s == frames[c]
  <2>1. s \in Seq(Frames) /\ s # <<>> /\ Len(s) <= 2
    BY <1>1, <1>2
  <2> HIDE DEF s
  <2>2. Len(s) \in Nat \ {0}
    BY <2>1, SMTT(30)
  <2>3. Len(s) \in 1..Len(s) /\ (Len(s) = 1 \/ Len(s) = 2)
    <3>1. \A n \in Nat \ {0} : n <= 2 => n \in 1..n /\ (n = 1 \/ n = 2)
      BY SMTT(30)
    <3> QED BY <2>1, <2>2, <3>1
  <2>4. s[Len(s)] \in Frames
    BY <2>1, <2>3, SMTT(30)
  <2> QED BY <2>3, <2>4 DEF s, Top
<1>4. Sound(Top(c))
  BY <1>3 DEF Stacks, Top
<1> QED BY <1>1, <1>3, <1>4

\* A step inside a frame.
LEMMA Replaced ==
  ASSUME SpinTypeOK, Stacks, NEW c \in CPUs, frames[c] # <<>>, NEW f \in Frames, Sound(f), f.irq = Top(c).irq,
         frames' = [frames EXCEPT ![c] = [@ EXCEPT ![Len(frames[c])] = f]]
  PROVE  /\ frames' \in [CPUs -> Seq(Frames)] /\ frames'[c] # <<>> /\ Top(c)' = f
         /\ \A d \in CPUs : d # c => frames'[d] = frames[d]
         /\ Stacks'
         /\ \A d \in CPUs : InHandler(d)' <=> InHandler(d)
<1> DEFINE n == Len(frames[c])
           s == [frames[c] EXCEPT ![n] = f]
<1>1. /\ n \in 1..n /\ frames[c] \in Seq(Frames) /\ n \in {1, 2}
  BY TopFrame
<1>2. /\ s \in Seq(Frames) /\ Len(s) = n /\ s # <<>> /\ s[n] = f
      /\ \A i \in 1..n : i # n => s[i] = frames[c][i]
  <2> HIDE DEF n
  <2>1. n = Len(frames[c])
    BY DEF n
  <2> QED BY <1>1, <2>1, SMTT(30)
<1> HIDE DEF s
<1>3. /\ frames' \in [CPUs -> Seq(Frames)] /\ frames'[c] = s
      /\ \A d \in CPUs : d # c => frames'[d] = frames[d]
  BY <1>2 DEF SpinTypeOK, s
<1>4. Top(c)' = f
  BY <1>2, <1>3 DEF Top
<1>5. ASSUME NEW d \in CPUs
      PROVE  /\ Len(frames'[d]) <= 2
             /\ \A i \in 1..Len(frames'[d]) : Sound(frames'[d][i])
             /\ Len(frames'[d]) = 2 => Idle(frames'[d][1]) /\ ~frames'[d][1].irq /\ frames'[d][2].irq
  <2>1. CASE d # c
    BY <1>3, <2>1 DEF Stacks
  <2>2. CASE d = c
    <3>1. Len(s) <= 2 /\ \A i \in 1..n : Sound(frames[c][i])
      BY <1>2 DEF Stacks
    <3>2. \A i \in 1..Len(s) : Sound(s[i])
      BY <1>2, <3>1
    <3>3. ASSUME n = 2 PROVE Idle(s[1]) /\ ~s[1].irq /\ s[2].irq
      <4>1. 1 \in 1..n /\ 1 # n
        BY <3>3, SMTT(30)
      <4>2. Idle(frames[c][1]) /\ ~frames[c][1].irq /\ frames[c][2].irq
        BY <3>3 DEF Stacks
      <4> QED BY <1>2, <3>3, <4>1, <4>2 DEF Top
    <3> QED BY <1>2, <1>3, <2>2, <3>1, <3>2, <3>3
  <2> QED BY <2>1, <2>2
<1>6. Stacks'
  BY <1>5 DEF Stacks, Sound, Idle, Nested, HeldFrom
<1>7. ASSUME NEW d \in CPUs PROVE InHandler(d)' <=> InHandler(d)
  <2>1. CASE d # c
    BY <1>3, <2>1 DEF InHandler, Top
  <2>2. CASE d = c
    BY <1>2, <1>3, <1>4, <2>2 DEF InHandler
  <2> QED BY <2>1, <2>2
<1> QED BY <1>2, <1>3, <1>4, <1>6, <1>7

\* A step inside acquire or release.
LEMMA WentTo ==
  ASSUME SpinTypeOK, Stacks, NEW c \in CPUs, frames[c] # <<>>, NEW a \in {"start"} \cup Acquiring \cup Releasing,
         GoTo(c, a)
  PROVE  \E f \in Frames : /\ f.path = Top(c).path /\ f.at = a /\ f.irq = Top(c).irq
                           /\ frames' = [frames EXCEPT ![c] = [@ EXCEPT ![Len(frames[c])] = f]]
<1>1. Top(c) \in Frames /\ Len(frames[c]) \in 1..Len(frames[c]) /\ frames[c] \in Seq(Frames)
  BY TopFrame
<1> DEFINE f == [Top(c) EXCEPT !.at = a]
<1>2. f \in Frames /\ f.path = Top(c).path /\ f.at = a /\ f.irq = Top(c).irq
  BY <1>1 DEF Frames
<1>3. frames' = [frames EXCEPT ![c] = [@ EXCEPT ![Len(frames[c])] = f]]
  BY DEF GoTo, Top
<1> QED BY <1>2, <1>3

\* A step that ends acquire, release or sched.
LEMMA WentOn ==
  ASSUME SpinTypeOK, Stacks, NEW c \in CPUs, frames[c] # <<>>, Top(c).path # <<>>, NextOp(c)
  PROVE  \E f \in Frames : /\ f.path = Tail(Top(c).path) /\ f.at = "start" /\ f.irq = Top(c).irq
                           /\ Sound(f)
                           /\ frames' = [frames EXCEPT ![c] = [@ EXCEPT ![Len(frames[c])] = f]]
<1>1. /\ Top(c) \in Frames /\ Sound(Top(c)) /\ Len(frames[c]) \in 1..Len(frames[c])
      /\ frames[c] \in Seq(Frames)
  BY TopFrame
<1> DEFINE f == [Top(c) EXCEPT !.path = Tail(Top(c).path), !.at = "start"]
<1>2. Top(c).path \in Seq(Ops) /\ Nested(Top(c).path)
  BY <1>1 DEF Frames, Sound
<1>3. Tail(Top(c).path) \in Seq(Ops) /\ Nested(Tail(Top(c).path))
  BY <1>2, NestedTail
<1>4. f \in Frames /\ f.path = Tail(Top(c).path) /\ f.at = "start" /\ f.irq = Top(c).irq
  BY <1>1, <1>3 DEF Frames
<1>5. Sound(f)
  BY <1>3, <1>4 DEF Sound, Acquiring, Releasing
<1>6. frames' = [frames EXCEPT ![c] = [@ EXCEPT ![Len(frames[c])] = f]]
  BY DEF NextOp, Top
<1> QED BY <1>4, <1>5, <1>6

\* A lock that processor c neither takes nor gives back.
LEMMA LockedKept ==
  ASSUME NEW c \in CPUs, NEW l \in Locks, LockedRight(l),
         \A d \in CPUs : d # c => frames'[d] = frames[d], Has(c, l)' <=> Has(c, l), locked'[l] <=> locked[l]
  PROVE  LockedRight(l)'
<1>1. \A d \in CPUs : Has(d, l)' <=> Has(d, l)
  BY DEF Has, Top
<1> QED BY <1>1 DEF LockedRight

\* A lock whose owner stays the same.
LEMMA OwnerKept ==
  ASSUME NEW c \in CPUs, NEW l \in Locks, OwnerRight(l),
         \A d \in CPUs : d # c => frames'[d] = frames[d], Marks(c, l)' <=> Marks(c, l), owner'[l] = owner[l]
  PROVE  OwnerRight(l)'
<1>1. \A d \in CPUs : Marks(d, l)' <=> Marks(d, l)
  BY DEF Marks, Top
<1> QED BY <1>1 DEF OwnerRight

\* The counters of the other processors.
LEMMA NestingKept ==
  ASSUME Nesting, NEW c \in CPUs, \A d \in CPUs : d # c => frames'[d] = frames[d],
         \A d \in CPUs : d # c => ncli'[d] = ncli[d],
         \A d \in CPUs : d # c => IF_'[d] = IF_[d],
         \A d \in CPUs : d # c => intena'[d] = intena[d],
         ncli'[c] = IF frames'[c] = <<>> THEN 0 ELSE Depth(Top(c)'),
         IF_'[c] <=> ncli'[c] = 0 /\ ~InHandler(c)',
         ncli'[c] # 0 => (intena'[c] <=> ~InHandler(c)')
  PROVE  Nesting'
<1>1. ASSUME NEW d \in CPUs
      PROVE  /\ ncli'[d] = IF frames'[d] = <<>> THEN 0 ELSE Depth(Top(d)')
             /\ IF_'[d] <=> ncli'[d] = 0 /\ ~InHandler(d)'
             /\ ncli'[d] # 0 => (intena'[d] <=> ~InHandler(d)')
  <2>1. CASE d = c
    BY <2>1
  <2>2. CASE d # c
    <3>1. frames'[d] = frames[d] /\ ncli'[d] = ncli[d] /\ IF_'[d] = IF_[d] /\ intena'[d] = intena[d]
      BY <2>2
    <3>2. Top(d)' = Top(d) /\ (InHandler(d)' <=> InHandler(d))
      BY <3>1 DEF Top, InHandler
    <3>3. /\ ncli[d] = IF frames[d] = <<>> THEN 0 ELSE Depth(Top(d))
          /\ IF_[d] <=> ncli[d] = 0 /\ ~InHandler(d)
          /\ ncli[d] # 0 => (intena[d] <=> ~InHandler(d))
      BY DEF Nesting
    <3> QED BY <3>1, <3>2, <3>3
  <2> QED BY <2>1, <2>2
<1> QED BY <1>1 DEF Nesting, Depth, HeldFrom

\* A step of the frame that runs, after which it is f: f has the same depth
\* and each lock is held and owned as the variables say.
LEMMA FrameStep ==
  ASSUME SpinInv, NEW c \in CPUs, frames[c] # <<>>, NEW f \in Frames, Sound(f), f.irq = Top(c).irq,
         frames' = [frames EXCEPT ![c] = [@ EXCEPT ![Len(frames[c])] = f]],
         Depth(f) = Depth(Top(c)), UNCHANGED <<IF_, ncli, intena>>,
         locked' \in [Locks -> BOOLEAN], owner' \in [Locks -> CPUs \cup {NoCpu}],
         \A l \in Locks : LockedRight(l)', \A l \in Locks : OwnerRight(l)'
  PROVE  SpinInv'
<1>1. /\ frames' \in [CPUs -> Seq(Frames)] /\ frames'[c] # <<>> /\ Top(c)' = f
      /\ \A d \in CPUs : d # c => frames'[d] = frames[d]
      /\ Stacks'
      /\ \A d \in CPUs : InHandler(d)' <=> InHandler(d)
  BY Replaced DEF SpinInv
<1>2. SpinTypeOK'
  BY <1>1 DEF SpinInv, SpinTypeOK
<1>3. Nesting'
  <2>1. /\ ncli[c] = Depth(Top(c))
        /\ IF_[c] <=> ncli[c] = 0 /\ ~InHandler(c)
        /\ ncli[c] # 0 => (intena[c] <=> ~InHandler(c))
    BY DEF SpinInv, Nesting
  <2>2. /\ ncli'[c] = IF frames'[c] = <<>> THEN 0 ELSE Depth(Top(c)')
        /\ IF_'[c] <=> ncli'[c] = 0 /\ ~InHandler(c)'
        /\ ncli'[c] # 0 => (intena'[c] <=> ~InHandler(c)')
    BY <1>1, <2>1
  <2> QED BY <1>1, <2>2, NestingKept DEF SpinInv
<1> QED BY <1>1, <1>2, <1>3 DEF SpinInv, Ownership

\* The next step of the frame that runs, and where the frame stands.
LEMMA AtStep ==
  ASSUME SpinInv, NEW c \in CPUs, NEW op, NEW a, AtOp(c, op, a)
  PROVE  /\ frames[c] # <<>> /\ Top(c).path # <<>> /\ Top(c).path \in Seq(Ops) /\ Nested(Top(c).path)
         /\ Head(Top(c).path).op = op /\ Top(c).at = a /\ Top(c) \in Frames /\ Sound(Top(c))
         /\ op \in {"acquire", "release"} => Lk(c) \in Locks
<1>1. frames[c] # <<>> /\ Top(c).path # <<>> /\ Head(Top(c).path).op = op /\ Top(c).at = a
  BY DEF AtOp
<1>2. Top(c) \in Frames /\ Sound(Top(c))
  BY <1>1, TopFrame DEF SpinInv
<1>3. Top(c).path \in Seq(Ops) /\ Nested(Top(c).path)
  BY <1>2 DEF Frames, Sound
<1>4. op \in {"acquire", "release"} => Lk(c) \in Locks
  BY <1>1, <1>3, PathStep DEF Lk
<1> QED BY <1>1, <1>2, <1>3, <1>4

\* Steps inside acquire and release that change the place of the frame only.
LEMMA PlaceStep ==
  ASSUME SpinInv, NEW c \in CPUs, frames[c] # <<>>, NEW a \in {"holding", "whose", "spin"},
         Top(c).at \in {"holding", "whose", "spin"}, GoTo(c, a), UNCHANGED <<locked, owner, IF_, ncli, intena>>
  PROVE  SpinInv'
<1>1. a \in Acquiring /\ a \notin Releasing /\ Top(c).at \in Acquiring
  BY SMTT(30) DEF Acquiring, Releasing
<1>2. Top(c) \in Frames /\ Sound(Top(c))
  BY TopFrame DEF SpinInv
<1>3. PICK f \in Frames : /\ f.path = Top(c).path /\ f.at = a /\ f.irq = Top(c).irq
                         /\ frames' = [frames EXCEPT ![c] = [@ EXCEPT ![Len(frames[c])] = f]]
  BY <1>1, WentTo DEF SpinInv
<1>4. Sound(f)
  BY <1>1, <1>2, <1>3 DEF Sound
<1>5. /\ frames'[c] # <<>> /\ Top(c)' = f /\ \A d \in CPUs : d # c => frames'[d] = frames[d]
  BY <1>3, <1>4, Replaced DEF SpinInv
<1>6. ASSUME NEW l \in Locks PROVE (Has(c, l)' <=> Has(c, l)) /\ (Marks(c, l)' <=> Marks(c, l))
  <2>1. Holds(f, l) <=> Holds(Top(c), l)
    BY <1>2, <1>3, <1>4, Standing
  <2>2. Owns(f, l) <=> Owns(Top(c), l)
    BY <1>1, <1>2, <1>3, <1>4, Standing
  <2> QED BY <1>5, <2>1, <2>2 DEF Has, Marks, Holds, Owns, HeldFrom
<1>7. \A l \in Locks : LockedRight(l)' /\ OwnerRight(l)'
  BY <1>5, <1>6, LockedKept, OwnerKept DEF SpinInv, Ownership
<1>8. Depth(f) = Depth(Top(c))
  BY <1>1, <1>3 DEF Depth
<1> QED BY <1>3, <1>4, <1>7, <1>8, FrameStep DEF SpinInv, SpinTypeOK

-----------------------------------------------------------------------------
(***************************************************************************)
(* acquire and release.                                                    *)
(***************************************************************************)

\* pushcli.
LEMMA AcquireCliStep ==
  ASSUME SpinInv, NEW c \in CPUs, AcquireCli(c)
  PROVE  SpinInv'
<1>1. /\ frames[c] # <<>> /\ Top(c).path # <<>> /\ Top(c).path \in Seq(Ops) /\ Nested(Top(c).path)
      /\ Head(Top(c).path).op = "acquire" /\ Top(c).at = "start" /\ Top(c) \in Frames /\ Sound(Top(c))
  BY AtStep DEF AcquireCli
<1>2. "holding" \in Acquiring /\ "holding" \notin Releasing /\ "start" \notin Acquiring
  BY SMTT(30) DEF Acquiring, Releasing
<1>3. PICK f \in Frames : /\ f.path = Top(c).path /\ f.at = "holding" /\ f.irq = Top(c).irq
                         /\ frames' = [frames EXCEPT ![c] = [@ EXCEPT ![Len(frames[c])] = f]]
  BY <1>1, <1>2, WentTo DEF SpinInv, AcquireCli
<1>4. Sound(f)
  BY <1>1, <1>2, <1>3 DEF Sound
<1>5. /\ frames' \in [CPUs -> Seq(Frames)] /\ frames'[c] # <<>> /\ Top(c)' = f
      /\ \A d \in CPUs : d # c => frames'[d] = frames[d]
      /\ Stacks'
      /\ \A d \in CPUs : InHandler(d)' <=> InHandler(d)
  BY <1>1, <1>3, <1>4, Replaced DEF SpinInv
<1>6. ASSUME NEW l \in Locks PROVE (Has(c, l)' <=> Has(c, l)) /\ (Marks(c, l)' <=> Marks(c, l))
  <2>1. Holds(f, l) <=> Holds(Top(c), l)
    BY <1>1, <1>3, <1>4, Standing
  <2>2. Owns(f, l) <=> Owns(Top(c), l)
    BY <1>1, <1>2, <1>3, <1>4, Standing
  <2> QED BY <1>1, <1>5, <2>1, <2>2 DEF Has, Marks, Holds, Owns, HeldFrom
<1>7. Ownership'
  BY <1>5, <1>6, LockedKept, OwnerKept DEF SpinInv, Ownership, AcquireCli
<1>8. /\ intena' = [intena EXCEPT ![c] = IF ncli[c] = 0 THEN IF_[c] ELSE @]
      /\ ncli' = [ncli EXCEPT ![c] = @ + 1] /\ IF_' = [IF_ EXCEPT ![c] = FALSE] /\ UNCHANGED <<locked, owner>>
  BY DEF AcquireCli, pushcli
<1>9. ncli[c] \in Nat /\ ncli[c] + 1 \in Nat /\ ncli[c] + 1 # 0
  <2>1. ncli[c] \in Nat
    BY DEF SpinInv, SpinTypeOK
  <2> QED BY <2>1, SMTT(30)
<1>10. /\ intena' \in [CPUs -> BOOLEAN] /\ ncli' \in [CPUs -> Nat] /\ IF_' \in [CPUs -> BOOLEAN]
       /\ ncli'[c] = ncli[c] + 1 /\ IF_'[c] = FALSE /\ intena'[c] = IF ncli[c] = 0 THEN IF_[c] ELSE intena[c]
       /\ \A d \in CPUs : d # c => ncli'[d] = ncli[d]
       /\ \A d \in CPUs : d # c => IF_'[d] = IF_[d]
       /\ \A d \in CPUs : d # c => intena'[d] = intena[d]
  BY <1>8, <1>9 DEF SpinInv, SpinTypeOK
<1>11. SpinTypeOK'
  BY <1>5, <1>8, <1>10 DEF SpinInv, SpinTypeOK
<1>12. Nesting'
  <2>1. /\ ncli[c] = Depth(Top(c))
        /\ IF_[c] <=> ncli[c] = 0 /\ ~InHandler(c)
        /\ ncli[c] # 0 => (intena[c] <=> ~InHandler(c))
    BY <1>1 DEF SpinInv, Nesting
  <2>2. ncli'[c] = Depth(f)
    <3>1. Depth(f) = Cardinality(HeldFrom(Top(c).path, 1)) + 1
      BY <1>2, <1>3 DEF Depth
    <3>2. Depth(Top(c)) = Cardinality(HeldFrom(Top(c).path, 1)) + 0
      BY <1>1, <1>2 DEF Depth
    <3>3. Cardinality(HeldFrom(Top(c).path, 1)) \in Nat
      BY HeldFinite
    <3> QED BY <1>10, <2>1, <3>1, <3>2, <3>3, SMTT(30)
  <2>3. intena'[c] <=> ~InHandler(c)
    <3>1. CASE ncli[c] = 0
      BY <1>10, <2>1, <3>1
    <3>2. CASE ncli[c] # 0
      BY <1>10, <2>1, <3>2
    <3> QED BY <3>1, <3>2
  <2>4. /\ ncli'[c] = IF frames'[c] = <<>> THEN 0 ELSE Depth(Top(c)')
        /\ IF_'[c] <=> ncli'[c] = 0 /\ ~InHandler(c)'
        /\ ncli'[c] # 0 => (intena'[c] <=> ~InHandler(c)')
    BY <1>5, <1>9, <1>10, <2>2, <2>3
  <2> QED BY <1>5, <1>10, <2>4, NestingKept DEF SpinInv
<1> QED BY <1>5, <1>7, <1>11, <1>12 DEF SpinInv

\* holding finds the lock free, or taken.
LEMMA AcquireHoldingStep ==
  ASSUME SpinInv, NEW c \in CPUs, AcquireHolding(c)
  PROVE  SpinInv'
<1>1. frames[c] # <<>> /\ Top(c).at = "holding"
  BY AtStep DEF AcquireHolding
<1>2. (IF locked[Lk(c)] THEN "whose" ELSE "spin") \in {"holding", "whose", "spin"}
  OBVIOUS
<1> QED BY <1>1, <1>2, PlaceStep DEF AcquireHolding

\* holding reads the owner: it is never the processor itself, which would
\* hold the lock.
LEMMA AcquireWhoseStep ==
  ASSUME SpinInv, NEW c \in CPUs, AcquireWhose(c)
  PROVE  SpinInv'
<1>1. /\ frames[c] # <<>> /\ Top(c).path # <<>> /\ Top(c).path \in Seq(Ops) /\ Nested(Top(c).path)
      /\ Head(Top(c).path).op = "acquire" /\ Top(c).at = "whose" /\ Top(c) \in Frames /\ Sound(Top(c))
  BY AtStep DEF AcquireWhose
<1>2. Lk(c) \in Locks /\ Lk(c) \notin HeldFrom(Top(c).path, 1)
  BY <1>1, PathStep DEF Lk
<1>3. owner[Lk(c)] # c
  <2>1. ~Owns(Top(c), Lk(c))
    BY <1>2 DEF Owns
  <2> QED BY <1>2, <2>1 DEF SpinInv, Ownership, OwnerRight, Marks
<1>4. GoTo(c, "spin") /\ UNCHANGED <<locked, owner, IF_, ncli, intena>>
  BY <1>3 DEF AcquireWhose
<1> QED BY <1>1, <1>4, PlaceStep

\* xchg takes the lock.
LEMMA AcquireXchgStep ==
  ASSUME SpinInv, NEW c \in CPUs, AcquireXchg(c)
  PROVE  SpinInv'
<1> DEFINE k == Lk(c)
<1>1. /\ frames[c] # <<>> /\ Top(c).path # <<>> /\ Top(c).path \in Seq(Ops) /\ Nested(Top(c).path)
      /\ Head(Top(c).path).op = "acquire" /\ Top(c).at = "spin" /\ Top(c) \in Frames /\ Sound(Top(c))
      /\ k \in Locks
  BY AtStep DEF AcquireXchg
<1>2. /\ "locked" \in Acquiring /\ "locked" \notin Releasing /\ "spin" \in Acquiring
  BY SMTT(30) DEF Acquiring, Releasing
<1>3. PICK f \in Frames : /\ f.path = Top(c).path /\ f.at = "locked" /\ f.irq = Top(c).irq
                         /\ frames' = [frames EXCEPT ![c] = [@ EXCEPT ![Len(frames[c])] = f]]
  <2>1. GoTo(c, "locked")
    BY DEF AcquireXchg
  <2>2. SpinTypeOK /\ Stacks /\ "locked" \in {"start"} \cup Acquiring \cup Releasing
    BY <1>2 DEF SpinInv
  <2> HIDE DEF k
  <2> QED BY <1>1, <2>1, <2>2, WentTo
<1>4. Sound(f)
  BY <1>1, <1>2, <1>3 DEF Sound
<1>5. /\ frames'[c] # <<>> /\ Top(c)' = f /\ \A d \in CPUs : d # c => frames'[d] = frames[d]
  BY <1>1, <1>3, <1>4, Replaced DEF SpinInv
<1>6. /\ ~locked[k] /\ locked' = [locked EXCEPT ![k] = TRUE] /\ UNCHANGED <<owner, IF_, ncli, intena>>
  BY DEF AcquireXchg
<1>7. /\ locked' \in [Locks -> BOOLEAN] /\ locked'[k] /\ \A l \in Locks : l # k => locked'[l] = locked[l]
      /\ owner' \in [Locks -> CPUs \cup {NoCpu}]
  BY <1>1, <1>6 DEF SpinInv, SpinTypeOK
<1>8. ASSUME NEW l \in Locks
      PROVE  /\ Has(c, l)' <=> Has(c, l) \/ l = k
             /\ Marks(c, l)' <=> Marks(c, l)
  <2>1. Holds(f, l) <=> Holds(Top(c), l) \/ l = k
    BY <1>1, <1>3, <1>4, Standing DEF Lk
  <2>2. Owns(f, l) <=> Owns(Top(c), l)
    BY <1>1, <1>2, <1>3, <1>4, Standing
  <2> QED BY <1>1, <1>5, <2>1, <2>2 DEF Has, Marks, Holds, Owns, HeldFrom
<1>9. \A l \in Locks : OwnerRight(l)'
  BY <1>5, <1>6, <1>8, OwnerKept DEF SpinInv, Ownership
<1>10. ASSUME NEW l \in Locks PROVE LockedRight(l)'
  <2>1. CASE l # k
    BY <1>5, <1>7, <1>8, <2>1, LockedKept DEF SpinInv, Ownership
  <2>2. CASE l = k
    <3>1. \A d \in CPUs : ~Has(d, l)
      BY <1>1, <1>6, <2>2 DEF SpinInv, Ownership, LockedRight
    <3>2. ASSUME NEW d \in CPUs PROVE Has(d, l)' <=> d = c
      <4>1. CASE d = c
        BY <1>1, <1>8, <2>2, <4>1
      <4>2. CASE d # c
        BY <1>5, <3>1, <4>2 DEF Has, Top
      <4> QED BY <4>1, <4>2
    <3> QED BY <1>7, <2>2, <3>2 DEF LockedRight
  <2> QED BY <2>1, <2>2
<1>11. Depth(f) = Depth(Top(c))
  BY <1>1, <1>2, <1>3 DEF Depth
<1> QED BY <1>1, <1>3, <1>4, <1>6, <1>7, <1>9, <1>10, <1>11, FrameStep

\* The owner is written down.
LEMMA AcquireOwnStep ==
  ASSUME SpinInv, NEW c \in CPUs, AcquireOwn(c)
  PROVE  SpinInv'
<1> DEFINE k == Lk(c)
           H == HeldFrom(Top(c).path, 1)
<1>1. /\ frames[c] # <<>> /\ Top(c).path # <<>> /\ Top(c).path \in Seq(Ops) /\ Nested(Top(c).path)
      /\ Head(Top(c).path).op = "acquire" /\ Top(c).at = "locked" /\ Top(c) \in Frames /\ Sound(Top(c))
      /\ k \in Locks
  BY AtStep DEF AcquireOwn
<1>2. /\ "locked" \in Acquiring /\ "start" \notin Acquiring
  BY SMTT(30) DEF Acquiring
<1>3. PICK f \in Frames : /\ f.path = Tail(Top(c).path) /\ f.at = "start" /\ f.irq = Top(c).irq /\ Sound(f)
                         /\ frames' = [frames EXCEPT ![c] = [@ EXCEPT ![Len(frames[c])] = f]]
  BY <1>1, WentOn DEF SpinInv, AcquireOwn
<1>4. /\ k \notin H /\ HeldFrom(f.path, 1) = H \cup {k} /\ Cardinality(HeldFrom(f.path, 1)) = Cardinality(H) + 1
  BY <1>1, <1>3, PathStep DEF Lk
<1>5. /\ frames'[c] # <<>> /\ Top(c)' = f /\ \A d \in CPUs : d # c => frames'[d] = frames[d]
  BY <1>1, <1>3, Replaced DEF SpinInv
<1>6. owner' = [owner EXCEPT ![k] = c] /\ UNCHANGED <<locked, IF_, ncli, intena>>
  BY DEF AcquireOwn
<1>7. /\ owner' \in [Locks -> CPUs \cup {NoCpu}] /\ owner'[k] = c
      /\ \A l \in Locks : l # k => owner'[l] = owner[l]
      /\ locked' \in [Locks -> BOOLEAN]
  BY <1>1, <1>6 DEF SpinInv, SpinTypeOK
<1>8. ASSUME NEW l \in Locks
      PROVE  /\ Has(c, l)' <=> Has(c, l)
             /\ Marks(c, l)' <=> Marks(c, l) \/ l = k
             /\ Has(c, k)
  <2>1. (Holds(f, l) <=> l \in HeldFrom(f.path, 1)) /\ (Holds(Top(c), l) <=> l \in H \/ l = k)
    BY <1>1, <1>3, Standing DEF Lk
  <2>2. (Owns(f, l) <=> l \in HeldFrom(f.path, 1)) /\ (Owns(Top(c), l) <=> l \in H)
    BY <1>1, <1>2, <1>3, Standing
  <2>3. Holds(Top(c), k)
    BY <1>1, Standing DEF Lk
  <2> QED BY <1>1, <1>4, <1>5, <2>1, <2>2, <2>3 DEF Has, Marks, Holds, Owns, HeldFrom
<1>9. \A l \in Locks : LockedRight(l)'
  BY <1>5, <1>6, <1>8, LockedKept DEF SpinInv, Ownership
<1>10. ASSUME NEW l \in Locks PROVE OwnerRight(l)'
  <2>1. CASE l # k
    BY <1>5, <1>7, <1>8, <2>1, OwnerKept DEF SpinInv, Ownership
  <2>2. CASE l = k
    <3>1. ASSUME NEW d \in CPUs, d # c PROVE ~Marks(d, l)'
      <4>1. ~Has(d, l)
        BY <1>1, <1>8, <2>2, <3>1 DEF SpinInv, Ownership, LockedRight
      <4>2. ~Marks(d, l)
        BY <4>1 DEF Has, Marks, Holds, Owns
      <4> QED BY <1>5, <3>1, <4>2 DEF Marks, Top
    <3>2. Marks(c, l)'
      BY <1>1, <1>8, <2>2
    <3> QED BY <1>7, <2>2, <3>1, <3>2 DEF OwnerRight
  <2> QED BY <2>1, <2>2
<1>11. Depth(f) = Depth(Top(c))
  <2>1. Cardinality(H) \in Nat
    BY HeldFinite
  <2>2. Depth(f) = (Cardinality(H) + 1) + 0 /\ Depth(Top(c)) = Cardinality(H) + 1
    BY <1>1, <1>2, <1>3, <1>4 DEF Depth
  <2> QED BY <2>1, <2>2, SMTT(30)
<1> QED BY <1>1, <1>3, <1>6, <1>7, <1>9, <1>10, <1>11, FrameStep

\* release: the owner is cleared, and was the processor itself.
LEMMA ReleaseOwnerStep ==
  ASSUME SpinInv, NEW c \in CPUs, ReleaseOwner(c)
  PROVE  SpinInv'
<1> DEFINE k == Lk(c)
           H == HeldFrom(Top(c).path, 1)
<1>1. /\ frames[c] # <<>> /\ Top(c).path # <<>> /\ Top(c).path \in Seq(Ops) /\ Nested(Top(c).path)
      /\ Head(Top(c).path).op = "release" /\ Top(c).at = "start" /\ Top(c) \in Frames /\ Sound(Top(c))
      /\ k \in Locks
  BY AtStep DEF ReleaseOwner
<1>2. /\ "unlock" \in Releasing /\ "unlock" \notin Acquiring /\ "start" \notin Acquiring
  BY SMTT(30) DEF Acquiring, Releasing
<1>3. k \in H
  BY <1>1, PathStep DEF Lk
<1>4. Has(c, k) /\ Marks(c, k)
  BY <1>1, <1>3, Standing DEF Has, Marks
<1>5. locked[k] /\ owner[k] = c
  BY <1>1, <1>4 DEF SpinInv, Ownership, LockedRight, OwnerRight
<1>6. owner' = [owner EXCEPT ![k] = NoCpu] /\ GoTo(c, "unlock") /\ UNCHANGED <<locked, IF_, ncli, intena>>
  BY <1>5 DEF ReleaseOwner, Disown
<1>7. PICK f \in Frames : /\ f.path = Top(c).path /\ f.at = "unlock" /\ f.irq = Top(c).irq
                         /\ frames' = [frames EXCEPT ![c] = [@ EXCEPT ![Len(frames[c])] = f]]
  <2>1. SpinTypeOK /\ Stacks /\ "unlock" \in {"start"} \cup Acquiring \cup Releasing
    BY <1>2 DEF SpinInv
  <2> HIDE DEF k
  <2> QED BY <1>1, <1>6, <2>1, WentTo
<1>8. Sound(f)
  BY <1>1, <1>2, <1>7 DEF Sound
<1>9. /\ frames'[c] # <<>> /\ Top(c)' = f /\ \A d \in CPUs : d # c => frames'[d] = frames[d]
  BY <1>1, <1>7, <1>8, Replaced DEF SpinInv
<1>10. /\ owner' \in [Locks -> CPUs \cup {NoCpu}] /\ owner'[k] = NoCpu
       /\ \A l \in Locks : l # k => owner'[l] = owner[l]
       /\ locked' \in [Locks -> BOOLEAN]
  BY <1>1, <1>6 DEF SpinInv, SpinTypeOK
<1>11. ASSUME NEW l \in Locks
       PROVE  /\ Has(c, l)' <=> Has(c, l)
              /\ Marks(c, l)' <=> Marks(c, l) /\ l # k
  <2>1. (Holds(f, l) <=> l \in H) /\ (Holds(Top(c), l) <=> l \in H)
    BY <1>1, <1>7, <1>8, Standing
  <2>2. (Owns(f, l) <=> l \in H /\ l # k) /\ (Owns(Top(c), l) <=> l \in H)
    BY <1>1, <1>2, <1>7, <1>8, Standing DEF Lk
  <2> QED BY <1>1, <1>9, <2>1, <2>2 DEF Has, Marks, Holds, Owns, HeldFrom
<1>12. \A l \in Locks : LockedRight(l)'
  BY <1>6, <1>9, <1>11, LockedKept DEF SpinInv, Ownership
<1>13. ASSUME NEW l \in Locks PROVE OwnerRight(l)'
  <2>1. CASE l # k
    BY <1>9, <1>10, <1>11, <2>1, OwnerKept DEF SpinInv, Ownership
  <2>2. CASE l = k
    <3>1. ASSUME NEW d \in CPUs PROVE ~Marks(d, l)'
      <4>1. CASE d = c
        BY <1>11, <2>2, <4>1
      <4>2. CASE d # c
        <5>1. ~Marks(d, l)
          BY <1>1, <1>5, <2>2, <4>2 DEF SpinInv, Ownership, OwnerRight
        <5> QED BY <1>9, <4>2, <5>1 DEF Marks, Top
      <4> QED BY <4>1, <4>2
    <3> QED BY <1>10, <2>2, <3>1, SpinAssumption DEF OwnerRight
  <2> QED BY <2>1, <2>2
<1>14. Depth(f) = Depth(Top(c))
  BY <1>1, <1>2, <1>7 DEF Depth
<1> QED BY <1>1, <1>6, <1>7, <1>8, <1>10, <1>12, <1>13, <1>14, FrameStep

\* The store that frees the lock.
LEMMA ReleaseUnlockStep ==
  ASSUME SpinInv, NEW c \in CPUs, ReleaseUnlock(c)
  PROVE  SpinInv'
<1> DEFINE k == Lk(c)
           H == HeldFrom(Top(c).path, 1)
<1>1. /\ frames[c] # <<>> /\ Top(c).path # <<>> /\ Top(c).path \in Seq(Ops) /\ Nested(Top(c).path)
      /\ Head(Top(c).path).op = "release" /\ Top(c).at = "unlock" /\ Top(c) \in Frames /\ Sound(Top(c))
      /\ k \in Locks
  BY AtStep DEF ReleaseUnlock
<1>2. /\ "popcli" \in Releasing /\ "popcli" \notin Acquiring /\ "unlock" \in Releasing /\ "unlock" \notin Acquiring
  BY SMTT(30) DEF Acquiring, Releasing
<1>3. k \in H
  BY <1>1, PathStep DEF Lk
<1>4. Has(c, k)
  BY <1>1, <1>3, Standing DEF Has
<1>5. locked' = [locked EXCEPT ![k] = FALSE] /\ GoTo(c, "popcli") /\ UNCHANGED <<owner, IF_, ncli, intena>>
  BY DEF ReleaseUnlock
<1>6. PICK f \in Frames : /\ f.path = Top(c).path /\ f.at = "popcli" /\ f.irq = Top(c).irq
                         /\ frames' = [frames EXCEPT ![c] = [@ EXCEPT ![Len(frames[c])] = f]]
  <2>1. SpinTypeOK /\ Stacks /\ "popcli" \in {"start"} \cup Acquiring \cup Releasing
    BY <1>2 DEF SpinInv
  <2> HIDE DEF k
  <2> QED BY <1>1, <1>5, <2>1, WentTo
<1>7. Sound(f)
  BY <1>1, <1>2, <1>6 DEF Sound
<1>8. /\ frames'[c] # <<>> /\ Top(c)' = f /\ \A d \in CPUs : d # c => frames'[d] = frames[d]
  BY <1>1, <1>6, <1>7, Replaced DEF SpinInv
<1>9. /\ locked' \in [Locks -> BOOLEAN] /\ ~locked'[k] /\ \A l \in Locks : l # k => locked'[l] = locked[l]
      /\ owner' \in [Locks -> CPUs \cup {NoCpu}]
  BY <1>1, <1>5 DEF SpinInv, SpinTypeOK
<1>10. ASSUME NEW l \in Locks
       PROVE  /\ Has(c, l)' <=> Has(c, l) /\ l # k
              /\ Marks(c, l)' <=> Marks(c, l)
  <2>1. (Holds(f, l) <=> l \in H /\ l # k) /\ (Holds(Top(c), l) <=> l \in H)
    BY <1>1, <1>6, <1>7, Standing DEF Lk
  <2>2. Owns(f, l) <=> Owns(Top(c), l)
    BY <1>1, <1>2, <1>6, <1>7, Standing
  <2> QED BY <1>1, <1>8, <2>1, <2>2 DEF Has, Marks, Holds, Owns, HeldFrom
<1>11. \A l \in Locks : OwnerRight(l)'
  BY <1>5, <1>8, <1>10, OwnerKept DEF SpinInv, Ownership
<1>12. ASSUME NEW l \in Locks PROVE LockedRight(l)'
  <2>1. CASE l # k
    BY <1>8, <1>9, <1>10, <2>1, LockedKept DEF SpinInv, Ownership
  <2>2. CASE l = k
    <3>1. ASSUME NEW d \in CPUs PROVE ~Has(d, l)'
      <4>1. CASE d = c
        BY <1>10, <2>2, <4>1
      <4>2. CASE d # c
        <5>1. ~Has(d, l)
          BY <1>1, <1>4, <2>2, <4>2 DEF SpinInv, Ownership, LockedRight
        <5> QED BY <1>8, <4>2, <5>1 DEF Has, Top
      <4> QED BY <4>1, <4>2
    <3> QED BY <1>9, <2>2, <3>1 DEF LockedRight
  <2> QED BY <2>1, <2>2
<1>13. Depth(f) = Depth(Top(c))
  BY <1>1, <1>2, <1>6 DEF Depth
<1> QED BY <1>1, <1>5, <1>6, <1>7, <1>9, <1>11, <1>12, <1>13, FrameStep

\* popcli: interrupts are on again with the last lock, outside handlers.
LEMMA ReleasePopcliStep ==
  ASSUME SpinInv, NEW c \in CPUs, ReleasePopcli(c)
  PROVE  SpinInv'
<1> DEFINE k == Lk(c)
           H == HeldFrom(Top(c).path, 1)
<1>1. /\ frames[c] # <<>> /\ Top(c).path # <<>> /\ Top(c).path \in Seq(Ops) /\ Nested(Top(c).path)
      /\ Head(Top(c).path).op = "release" /\ Top(c).at = "popcli" /\ Top(c) \in Frames /\ Sound(Top(c))
      /\ k \in Locks
  BY AtStep DEF ReleasePopcli
<1>2. /\ "popcli" \in Releasing /\ "popcli" \notin Acquiring /\ "start" \notin Acquiring
  BY SMTT(30) DEF Acquiring, Releasing
<1>3. k \notin HeldFrom(Tail(Top(c).path), 1) /\ H = HeldFrom(Tail(Top(c).path), 1) \cup {k}
      /\ Cardinality(H) = Cardinality(HeldFrom(Tail(Top(c).path), 1)) + 1
  BY <1>1, PathStep DEF Lk
<1>4. /\ ncli[c] = Depth(Top(c))
      /\ IF_[c] <=> ncli[c] = 0 /\ ~InHandler(c)
      /\ ncli[c] # 0 => (intena[c] <=> ~InHandler(c))
  BY <1>1 DEF SpinInv, Nesting
<1>5. /\ ncli[c] = Cardinality(HeldFrom(Tail(Top(c).path), 1)) + 1
      /\ Cardinality(HeldFrom(Tail(Top(c).path), 1)) \in Nat /\ ncli[c] # 0
  <2>1. Cardinality(HeldFrom(Tail(Top(c).path), 1)) \in Nat
    BY HeldFinite
  <2>2. ncli[c] = Cardinality(H) + 0
    BY <1>1, <1>2, <1>4 DEF Depth
  <2> QED BY <1>3, <2>1, <2>2, SMTT(30)
<1>6. popcli(c) /\ NextOp(c) /\ UNCHANGED <<locked, owner>>
  BY <1>4, <1>5 DEF ReleasePopcli
<1>7. PICK f \in Frames : /\ f.path = Tail(Top(c).path) /\ f.at = "start" /\ f.irq = Top(c).irq /\ Sound(f)
                         /\ frames' = [frames EXCEPT ![c] = [@ EXCEPT ![Len(frames[c])] = f]]
  BY <1>1, <1>6, WentOn DEF SpinInv
<1>8. /\ frames' \in [CPUs -> Seq(Frames)] /\ frames'[c] # <<>> /\ Top(c)' = f
      /\ \A d \in CPUs : d # c => frames'[d] = frames[d]
      /\ Stacks'
      /\ \A d \in CPUs : InHandler(d)' <=> InHandler(d)
  BY <1>1, <1>7, Replaced DEF SpinInv
<1>9. ASSUME NEW l \in Locks PROVE (Has(c, l)' <=> Has(c, l)) /\ (Marks(c, l)' <=> Marks(c, l))
  <2>1. (Holds(f, l) <=> l \in HeldFrom(f.path, 1)) /\ (Holds(Top(c), l) <=> l \in H /\ l # k)
    BY <1>1, <1>7, Standing DEF Lk
  <2>2. (Owns(f, l) <=> l \in HeldFrom(f.path, 1)) /\ (Owns(Top(c), l) <=> l \in H /\ l # k)
    BY <1>1, <1>2, <1>7, Standing DEF Lk
  <2>3. (Holds(f, l) <=> Holds(Top(c), l)) /\ (Owns(f, l) <=> Owns(Top(c), l))
    BY <1>3, <1>7, <2>1, <2>2
  <2> QED BY <1>1, <1>8, <2>3 DEF Has, Marks, Holds, Owns, HeldFrom
<1>10. Ownership'
  BY <1>6, <1>8, <1>9, LockedKept, OwnerKept DEF SpinInv, Ownership
<1>11. ncli[c] - 1 \in Nat /\ ncli[c] - 1 = Cardinality(HeldFrom(f.path, 1)) /\ (ncli[c] = 1 <=> ncli[c] - 1 = 0)
  BY <1>5, <1>7, SMTT(30)
<1>12. /\ intena' \in [CPUs -> BOOLEAN] /\ ncli' \in [CPUs -> Nat] /\ IF_' \in [CPUs -> BOOLEAN]
       /\ ncli'[c] = ncli[c] - 1 /\ (IF_'[c] <=> IF_[c] \/ (ncli[c] = 1 /\ intena[c])) /\ intena' = intena
       /\ \A d \in CPUs : d # c => ncli'[d] = ncli[d]
       /\ \A d \in CPUs : d # c => IF_'[d] = IF_[d]
  BY <1>6, <1>11 DEF popcli, SpinInv, SpinTypeOK
<1>13. SpinTypeOK'
  BY <1>6, <1>8, <1>12 DEF SpinInv, SpinTypeOK
<1>14. Nesting'
  <2>1. Depth(f) = Cardinality(HeldFrom(f.path, 1)) + 0
    BY <1>2, <1>7 DEF Depth
  <2>2. ncli'[c] = Depth(f)
    BY <1>5, <1>7, <1>11, <1>12, <2>1, SMTT(30)
  <2>3. /\ ncli'[c] = IF frames'[c] = <<>> THEN 0 ELSE Depth(Top(c)')
        /\ IF_'[c] <=> ncli'[c] = 0 /\ ~InHandler(c)'
        /\ ncli'[c] # 0 => (intena'[c] <=> ~InHandler(c)')
    BY <1>4, <1>5, <1>8, <1>11, <1>12, <2>2
  <2> QED BY <1>8, <1>12, <2>3, NestingKept DEF SpinInv
<1> QED BY <1>8, <1>10, <1>13, <1>14 DEF SpinInv

\* sched passes its tests.
LEMMA SchedSwitchStep ==
  ASSUME SpinInv, NEW c \in CPUs, SchedSwitch(c)
  PROVE  SpinInv'
<1> DEFINE H == HeldFrom(Top(c).path, 1)
<1>1. /\ frames[c] # <<>> /\ Top(c).path # <<>> /\ Top(c).path \in Seq(Ops) /\ Nested(Top(c).path)
      /\ Head(Top(c).path).op = "sched" /\ Top(c).at = "start" /\ Top(c) \in Frames /\ Sound(Top(c))
  BY AtStep DEF SchedSwitch
<1>2. "start" \notin Acquiring
  BY SMTT(30) DEF Acquiring
<1>3. HeldFrom(Tail(Top(c).path), 1) = H /\ H = {"ptable"} /\ Cardinality(H) = 1
  BY <1>1, PathStep
<1>4. owner["ptable"] = c
  <2>1. "ptable" \in Locks
    BY DEF Locks
  <2>2. Marks(c, "ptable")
    BY <1>1, <1>3, <2>1, Standing DEF Marks
  <2> QED BY <2>1, <2>2 DEF SpinInv, Ownership, OwnerRight
<1>5. ncli[c] = 1 /\ ~IF_[c]
  <2>1. ncli[c] = Depth(Top(c)) /\ (IF_[c] <=> ncli[c] = 0 /\ ~InHandler(c))
    BY <1>1 DEF SpinInv, Nesting
  <2>2. Depth(Top(c)) = 1 + 0
    BY <1>1, <1>2, <1>3 DEF Depth
  <2>3. 1 + 0 = 1 /\ 1 # 0
    BY SMTT(30)
  <2> QED BY <2>1, <2>2, <2>3
<1>6. NextOp(c) /\ UNCHANGED <<locked, owner, IF_, ncli, intena>>
  BY <1>4, <1>5 DEF SchedSwitch
<1>7. PICK f \in Frames : /\ f.path = Tail(Top(c).path) /\ f.at = "start" /\ f.irq = Top(c).irq /\ Sound(f)
                         /\ frames' = [frames EXCEPT ![c] = [@ EXCEPT ![Len(frames[c])] = f]]
  BY <1>1, <1>6, WentOn DEF SpinInv
<1>8. /\ frames'[c] # <<>> /\ Top(c)' = f /\ \A d \in CPUs : d # c => frames'[d] = frames[d]
  BY <1>1, <1>7, Replaced DEF SpinInv
<1>9. ASSUME NEW l \in Locks PROVE (Has(c, l)' <=> Has(c, l)) /\ (Marks(c, l)' <=> Marks(c, l))
  <2>1. (Holds(f, l) <=> l \in H) /\ (Holds(Top(c), l) <=> l \in H)
    BY <1>1, <1>3, <1>7, Standing
  <2>2. (Owns(f, l) <=> l \in H) /\ (Owns(Top(c), l) <=> l \in H)
    BY <1>1, <1>2, <1>3, <1>7, Standing
  <2> QED BY <1>1, <1>8, <2>1, <2>2 DEF Has, Marks, Holds, Owns, HeldFrom
<1>10. \A l \in Locks : LockedRight(l)' /\ OwnerRight(l)'
  BY <1>6, <1>8, <1>9, LockedKept, OwnerKept DEF SpinInv, Ownership
<1>11. Depth(f) = Depth(Top(c))
  BY <1>1, <1>2, <1>3, <1>7 DEF Depth
<1> QED BY <1>1, <1>6, <1>7, <1>10, <1>11, FrameStep DEF SpinInv, SpinTypeOK

-----------------------------------------------------------------------------
(***************************************************************************)
(* Paths that start and end.                                               *)
(***************************************************************************)

\* An idle frame holds and owns nothing.
LEMMA IdleFrame ==
  ASSUME NEW f, Idle(f)
  PROVE  Depth(f) = 0 /\ \A l \in Locks : ~Holds(f, l) /\ ~Owns(f, l)
<1>1. f.at = "start" /\ HeldFrom(f.path, 1) = {} /\ "start" \notin Acquiring /\ "start" # "locked"
  BY DEF Idle, Acquiring
<1>2. Cardinality(HeldFrom(f.path, 1)) = 0
  BY <1>1, FS_EmptySet
<1>3. Depth(f) = 0 + 0
  BY <1>1, <1>2 DEF Depth
<1>4. 0 + 0 = 0
  BY SMTT(30)
<1> QED BY <1>1, <1>3, <1>4 DEF Holds, Owns

\* The stack of a processor changes from one that is empty or has an idle
\* frame on top to another, and interrupts are set to fit.
LEMMA StackStep ==
  ASSUME SpinInv, NEW c \in CPUs, NEW s \in Seq(Frames), frames' = [frames EXCEPT ![c] = s],
         Len(s) <= 2, \A i \in 1..Len(s) : Sound(s[i]),
         Len(s) = 2 => Idle(s[1]) /\ ~s[1].irq /\ s[2].irq,
         s # <<>> => Idle(s[Len(s)]), frames[c] # <<>> => Idle(Top(c)),
         NEW b \in BOOLEAN, IF_' = [IF_ EXCEPT ![c] = b], b <=> ~(s # <<>> /\ s[Len(s)].irq),
         UNCHANGED <<locked, owner, ncli, intena>>
  PROVE  SpinInv'
<1>1. /\ frames' \in [CPUs -> Seq(Frames)] /\ frames'[c] = s
      /\ \A d \in CPUs : d # c => frames'[d] = frames[d]
      /\ IF_' \in [CPUs -> BOOLEAN] /\ IF_'[c] = b /\ \A d \in CPUs : d # c => IF_'[d] = IF_[d]
  BY DEF SpinInv, SpinTypeOK
<1>2. SpinTypeOK'
  BY <1>1 DEF SpinInv, SpinTypeOK
<1>3. Stacks'
  <2>1. ASSUME NEW d \in CPUs
        PROVE  /\ Len(frames'[d]) <= 2
               /\ \A i \in 1..Len(frames'[d]) : Sound(frames'[d][i])
               /\ Len(frames'[d]) = 2 => Idle(frames'[d][1]) /\ ~frames'[d][1].irq /\ frames'[d][2].irq
    <3>1. CASE d # c
      BY <1>1, <3>1 DEF SpinInv, Stacks
    <3>2. CASE d = c
      BY <1>1, <3>2
    <3> QED BY <3>1, <3>2
  <2> QED BY <2>1 DEF Stacks, Sound, Idle, Nested, HeldFrom
<1>4. Top(c)' = s[Len(s)] /\ (InHandler(c)' <=> s # <<>> /\ s[Len(s)].irq)
  BY <1>1 DEF Top, InHandler
<1>5. ASSUME NEW l \in Locks PROVE ~Has(c, l) /\ ~Marks(c, l) /\ ~Has(c, l)' /\ ~Marks(c, l)'
  <2>1. ~Has(c, l) /\ ~Marks(c, l)
    BY IdleFrame DEF Has, Marks
  <2>2. ~Has(c, l)' /\ ~Marks(c, l)'
    <3>1. CASE s = <<>>
      BY <1>1, <3>1 DEF Has, Marks
    <3>2. CASE s # <<>>
      <4> DEFINE g == s[Len(s)]
      <4>1. ~Holds(g, l) /\ ~Owns(g, l) /\ Top(c)' = g
        BY <1>4, <3>2, IdleFrame
      <4> HIDE DEF g
      <4> QED BY <4>1 DEF Has, Marks, Holds, Owns, HeldFrom
    <3> QED BY <3>1, <3>2
  <2> QED BY <2>1, <2>2
<1>6. Ownership'
  BY <1>1, <1>5, LockedKept, OwnerKept DEF SpinInv, Ownership
<1>7. ncli[c] = 0
  BY IdleFrame DEF SpinInv, Nesting
<1>8. /\ ncli'[c] = IF frames'[c] = <<>> THEN 0 ELSE Depth(Top(c)')
      /\ IF_'[c] <=> ncli'[c] = 0 /\ ~InHandler(c)'
      /\ ncli'[c] # 0 => (intena'[c] <=> ~InHandler(c)')
  <2>1. s # <<>> => Depth(s[Len(s)]) = 0
    BY IdleFrame
  <2> QED BY <1>1, <1>4, <1>7, <2>1
<1>9. Nesting'
  BY <1>1, <1>8, NestingKept DEF SpinInv
<1> QED BY <1>2, <1>3, <1>6, <1>9 DEF SpinInv

\* The frame of a path that starts.
LEMMA Started ==
  ASSUME NEW p \in Calls \cup Handlers, NEW b \in BOOLEAN
  PROVE  LET f == [path |-> p, at |-> "start", irq |-> b] IN f \in Frames /\ Sound(f) /\ Idle(f) /\ f.irq = b
<1> DEFINE f == [path |-> p, at |-> "start", irq |-> b]
<1>1. p \in Seq(Ops) /\ HeldFrom(p, 1) = {} /\ Nested(p)
  BY SpinAssumption DEF Disciplined
<1>2. f.path = p /\ f.at = "start" /\ f.irq = b /\ f \in Frames
  BY <1>1 DEF Frames
<1>3. "start" \notin Acquiring /\ "start" \notin Releasing
  BY SMTT(30) DEF Acquiring, Releasing
<1> HIDE DEF f
<1>4. Sound(f) /\ Idle(f)
  BY <1>1, <1>2, <1>3 DEF Sound, Idle
<1> QED BY <1>2, <1>4 DEF f

\* A system call starts.
LEMMA SyscallStep ==
  ASSUME SpinInv, NEW c \in CPUs, Syscall(c)
  PROVE  SpinInv'
<1>1. PICK p \in Calls : frames' = [frames EXCEPT ![c] = <<[path |-> p, at |-> "start", irq |-> FALSE]>>]
  BY DEF Syscall
<1> DEFINE f == [path |-> p, at |-> "start", irq |-> FALSE]
<1>2. f \in Frames /\ Sound(f) /\ Idle(f) /\ f.irq = FALSE
  BY Started
<1>3. frames[c] = <<>> /\ frames' = [frames EXCEPT ![c] = <<f>>] /\ UNCHANGED <<locked, owner, IF_, ncli, intena>>
  BY <1>1 DEF Syscall
<1> HIDE DEF f
<1>4. /\ <<f>> \in Seq(Frames) /\ Len(<<f>>) = 1 /\ 1 <= 2 /\ 1 # 2 /\ <<f>> # <<>> /\ <<f>>[1] = f
      /\ \A i \in 1..1 : i = 1
  BY <1>2, SMTT(30)
<1>5. IF_[c] = TRUE /\ IF_ \in [CPUs -> BOOLEAN]
  <2>1. ncli[c] = 0 /\ (IF_[c] <=> ncli[c] = 0 /\ ~InHandler(c))
    BY <1>3 DEF SpinInv, Nesting
  <2> QED BY <1>3, <2>1 DEF InHandler, SpinInv, SpinTypeOK
<1>6. IF_' = [IF_ EXCEPT ![c] = TRUE]
  BY <1>3, <1>5
<1> DEFINE s == <<f>>
<1>7. /\ s \in Seq(Frames) /\ Len(s) <= 2 /\ s # <<>> /\ Len(s) # 2 /\ s[Len(s)] = f
      /\ \A i \in 1..Len(s) : Sound(s[i])
  BY <1>2, <1>4
<1>8. frames' = [frames EXCEPT ![c] = s] /\ TRUE \in BOOLEAN
  BY <1>3
<1> HIDE DEF s
<1> QED BY <1>2, <1>3, <1>6, <1>7, <1>8, StackStep

\* An interrupt is taken: the code it interrupts holds no lock.
LEMMA InterruptStep ==
  ASSUME SpinInv, NEW c \in CPUs, Interrupt(c)
  PROVE  SpinInv'
<1>1. PICK p \in Handlers :
        frames' = [frames EXCEPT ![c] = Append(frames[c], [path |-> p, at |-> "start", irq |-> TRUE])]
  BY DEF Interrupt
<1> DEFINE f == [path |-> p, at |-> "start", irq |-> TRUE]
           n == Len(frames[c])
           s == Append(frames[c], f)
<1>2. f \in Frames /\ Sound(f) /\ Idle(f) /\ f.irq = TRUE
  BY Started
<1>3. /\ IF_[c] /\ frames' = [frames EXCEPT ![c] = s] /\ IF_' = [IF_ EXCEPT ![c] = FALSE]
      /\ UNCHANGED <<locked, owner, ncli, intena>>
  BY <1>1 DEF Interrupt
<1> HIDE DEF f
<1>4. ncli[c] = 0 /\ ~InHandler(c)
  BY <1>3 DEF SpinInv, Nesting
<1>5. ASSUME frames[c] # <<>> PROVE Idle(Top(c)) /\ ~Top(c).irq /\ n = 1
  <2>1. Top(c) \in Frames /\ Sound(Top(c)) /\ (n = 1 \/ n = 2)
    BY <1>5, TopFrame DEF SpinInv
  <2>2. Depth(Top(c)) = 0 /\ ~Top(c).irq
    BY <1>4, <1>5 DEF SpinInv, Nesting, InHandler
  <2>3. Cardinality(HeldFrom(Top(c).path, 1)) = 0 /\ Top(c).at \notin Acquiring
    <3>1. Cardinality(HeldFrom(Top(c).path, 1)) \in Nat
      BY HeldFinite
    <3>2. \A i \in Nat : i + 1 # 0 /\ (i + 0 = 0 => i = 0)
      BY SMTT(30)
    <3> QED BY <2>2, <3>1, <3>2 DEF Depth
  <2>4. HeldFrom(Top(c).path, 1) = {}
    BY <2>3, HeldFinite
  <2>5. Top(c).at \notin Releasing
    <3> SUFFICES ASSUME Top(c).at \in Releasing PROVE FALSE
      OBVIOUS
    <3>1. Top(c).path # <<>> /\ Head(Top(c).path).op = "release" /\ Nested(Top(c).path)
      BY <2>1 DEF Sound
    <3>2. Top(c).path \in Seq(Ops)
      BY <2>1 DEF Frames
    <3> QED BY <2>4, <3>1, <3>2, PathStep, SMTT(30)
  <2>6. Top(c).at = "start"
    BY <2>1, <2>3, <2>5 DEF Frames
  <2>7. n # 2
    BY <2>2 DEF SpinInv, Stacks, Top
  <2> QED BY <2>1, <2>2, <2>4, <2>6, <2>7 DEF Idle
<1>6. /\ frames[c] \in Seq(Frames) /\ n \in Nat /\ (n = 0 \/ n = 1) /\ (n = 0 <=> frames[c] = <<>>)
  <2>1. frames[c] \in Seq(Frames)
    BY DEF SpinInv, SpinTypeOK
  <2>2. n \in Nat /\ (n = 0 <=> frames[c] = <<>>)
    <3> DEFINE t == frames[c]
    <3>1. t \in Seq(Frames)
      BY <2>1
    <3> HIDE DEF t
    <3>2. Len(t) \in Nat /\ (Len(t) = 0 <=> t = <<>>)
      BY <3>1, SMTT(30)
    <3> QED BY <3>2 DEF t
  <2> QED BY <1>5, <2>1, <2>2
<1>7. /\ s \in Seq(Frames) /\ Len(s) = n + 1 /\ s # <<>> /\ s[Len(s)] = f
      /\ n = 1 => s[1] = frames[c][1]
  <2> DEFINE t == frames[c]
  <2>1. t \in Seq(Frames)
    BY <1>6
  <2> HIDE DEF t
  <2>2. LET u == Append(t, f) IN
        u \in Seq(Frames) /\ Len(u) = Len(t) + 1 /\ u # <<>> /\ u[Len(t) + 1] = f /\ (Len(t) = 1 => u[1] = t[1])
    BY <1>2, <2>1, SMTT(30)
  <2> QED BY <2>2 DEF t
<1> HIDE DEF s
<1>8. Len(s) <= 2 /\ (Len(s) = 2 <=> n = 1) /\ \A i \in 1..Len(s) : i = Len(s) \/ (i = 1 /\ n = 1)
  <2>1. \A m \in Nat : (m = 0 \/ m = 1) =>
          (m + 1 <= 2 /\ (m + 1 = 2 <=> m = 1) /\ \A i \in 1..(m + 1) : i = m + 1 \/ (i = 1 /\ m = 1))
    BY SMTT(30)
  <2> QED BY <1>6, <1>7, <2>1
<1>9. n = 1 => Top(c) = frames[c][1] /\ frames[c] # <<>>
  <2>1. 0 # 1
    BY SMTT(30)
  <2> QED BY <1>6, <2>1 DEF Top
<1>10. ASSUME NEW i \in 1..Len(s) PROVE Sound(s[i])
  <2>1. CASE i = Len(s)
    BY <1>2, <1>7, <2>1
  <2>2. CASE i = 1 /\ n = 1
    BY <1>7, <1>9, <2>2, TopFrame DEF SpinInv
  <2> QED BY <1>8, <2>1, <2>2
<1>11. Len(s) = 2 => Idle(s[1]) /\ ~s[1].irq /\ s[2].irq
  BY <1>2, <1>5, <1>7, <1>8, <1>9
<1>12. FALSE \in BOOLEAN /\ (FALSE <=> ~(s # <<>> /\ s[Len(s)].irq))
  BY <1>2, <1>7
<1> QED BY <1>2, <1>3, <1>5, <1>7, <1>8, <1>10, <1>11, <1>12, StackStep

\* A path ends: back to user mode or to the code that was interrupted.
LEMMA ReturnStep ==
  ASSUME SpinInv, NEW c \in CPUs, Return(c)
  PROVE  SpinInv'
<1> DEFINE n == Len(frames[c])
           s == SubSeq(frames[c], 1, n - 1)
<1>1. /\ frames[c] # <<>> /\ Top(c).path = <<>> /\ frames' = [frames EXCEPT ![c] = s]
      /\ IF_' = [IF_ EXCEPT ![c] = TRUE] /\ UNCHANGED <<locked, owner, ncli, intena>>
  BY DEF Return
<1>2. Top(c) \in Frames /\ Sound(Top(c)) /\ frames[c] \in Seq(Frames) /\ (n = 1 \/ n = 2)
  BY <1>1, TopFrame DEF SpinInv
<1>3. Idle(Top(c))
  BY <1>1, <1>2, Standing DEF Idle
<1>4. /\ s \in Seq(Frames) /\ Len(s) = n - 1 /\ (n = 2 => s[1] = frames[c][1]) /\ (s = <<>> <=> n = 1)
  <2> DEFINE t == frames[c]
  <2>1. t \in Seq(Frames) /\ (Len(t) = 1 \/ Len(t) = 2)
    BY <1>2
  <2> HIDE DEF t
  <2> DEFINE u == SubSeq(t, 1, Len(t) - 1)
  <2>2. u \in Seq(Frames) /\ Len(u) = Len(t) - 1 /\ (Len(t) = 2 => u[1] = t[1]) /\ (u = <<>> <=> Len(t) = 1)
    <3>1. u \in Seq(Frames) /\ Len(u) = Len(t) - 1
      <4>1. CASE Len(t) = 1
        BY <2>1, <4>1, SMTT(30)
      <4>2. CASE Len(t) = 2
        BY <2>1, <4>2, SMTT(30)
      <4> QED BY <2>1, <4>1, <4>2
    <3>2. Len(t) = 2 => u[1] = t[1]
      BY <2>1, SMTT(30)
    <3>3. u = <<>> <=> Len(u) = 0
      <4> HIDE DEF u
      <4> QED BY <3>1, SMTT(30)
    <3>4. Len(u) = 0 <=> Len(t) = 1
      <4> HIDE DEF u
      <4> QED BY <2>1, <3>1, SMTT(30)
    <3> QED BY <3>1, <3>2, <3>3, <3>4
  <2> QED BY <2>2 DEF t
<1> HIDE DEF s
<1>5. Len(s) <= 2 /\ Len(s) # 2 /\ (n = 2 => Len(s) = 1 /\ n # 1) /\ \A i \in 1..Len(s) : i = 1 /\ n = 2
  <2>1. \A m \in Nat : (m = 1 \/ m = 2) =>
          (m - 1 <= 2 /\ m - 1 # 2 /\ (m = 2 => m - 1 = 1 /\ m # 1) /\ \A i \in 1..(m - 1) : i = 1 /\ m = 2)
    BY SMTT(30)
  <2>2. n \in Nat
    BY <1>2, SMTT(30)
  <2> QED BY <1>2, <1>4, <2>1, <2>2
<1>6. n = 2 => Idle(frames[c][1]) /\ ~frames[c][1].irq /\ Sound(frames[c][1])
  <2>1. n = 2 => 1 \in 1..n
    BY SMTT(30)
  <2> QED BY <2>1 DEF SpinInv, Stacks
<1>7. \A i \in 1..Len(s) : Sound(s[i])
  BY <1>4, <1>5, <1>6
<1>8. s # <<>> => Idle(s[Len(s)]) /\ ~s[Len(s)].irq
  BY <1>2, <1>4, <1>5, <1>6
<1>9. TRUE \in BOOLEAN /\ (TRUE <=> ~(s # <<>> /\ s[Len(s)].irq))
  BY <1>8
<1> QED BY <1>1, <1>3, <1>4, <1>5, <1>7, <1>8, <1>9, StackStep

-----------------------------------------------------------------------------
(***************************************************************************)
(* The theorems.                                                           *)
(***************************************************************************)

\* All processors are idle at first.
LEMMA InitInv ==
  ASSUME SpinInit
  PROVE  SpinInv
<1>1. SpinTypeOK
  <2>1. <<>> \in Seq(Frames) /\ 0 \in Nat
    BY SMTT(30)
  <2> QED BY <2>1 DEF SpinInit, SpinTypeOK
<1>2. \A c \in CPUs : frames[c] = <<>> /\ ncli[c] = 0 /\ IF_[c]
  BY DEF SpinInit
<1>3. Stacks
  <2>1. Len(<<>>) <= 2 /\ Len(<<>>) # 2 /\ 1..Len(<<>>) = {}
    BY SMTT(30)
  <2> QED BY <1>2, <2>1 DEF Stacks
<1>4. Nesting
  BY <1>2 DEF Nesting, InHandler
<1>5. Ownership
  <2>1. \A c \in CPUs, l \in Locks : ~Has(c, l) /\ ~Marks(c, l)
    BY <1>2 DEF Has, Marks
  <2>2. \A l \in Locks : locked[l] = FALSE /\ owner[l] = NoCpu
    BY DEF SpinInit
  <2> QED BY <2>1, <2>2, SpinAssumption DEF Ownership, LockedRight, OwnerRight
<1> QED BY <1>1, <1>3, <1>4, <1>5 DEF SpinInv

\* Every step of every processor keeps the invariant.
LEMMA NextInv ==
  ASSUME SpinInv, [SpinNext]_spinvars
  PROVE  SpinInv'
<1>1. CASE SpinNext
  <2>1. PICK c \in CPUs : SpinStep(c)
    BY <1>1 DEF SpinNext
  <2> QED BY <2>1, SyscallStep, InterruptStep, ReturnStep, AcquireCliStep, AcquireHoldingStep, AcquireWhoseStep,
             AcquireXchgStep, AcquireOwnStep, ReleaseOwnerStep, ReleaseUnlockStep, ReleasePopcliStep,
             SchedSwitchStep DEF SpinStep
<1>2. CASE UNCHANGED spinvars
  <2>1. UNCHANGED <<locked, owner, IF_, ncli, intena, frames>>
    BY <1>2 DEF spinvars
  <2>2. SpinTypeOK'
    BY <2>1 DEF SpinInv, SpinTypeOK
  <2>3. Stacks'
    BY <2>1 DEF SpinInv, Stacks
  <2>4. Nesting'
    BY <2>1 DEF SpinInv, Nesting, InHandler, Top
  <2>5. Ownership'
    BY <2>1 DEF SpinInv, Ownership, LockedRight, OwnerRight, Has, Marks, Top
  <2> QED BY <2>2, <2>3, <2>4, <2>5 DEF SpinInv
<1> QED BY <1>1, <1>2

\* The locks, the owners, the counters of pushcli and the interrupt flags
\* always agree with where the processors are (acquire, release, pushcli,
\* popcli, sched).
THEOREM SpinInvariant == SpinSpec => []SpinInv
<1>1. SpinInit => SpinInv
  BY InitInv
<1>2. SpinInv /\ [SpinNext]_spinvars => SpinInv'
  BY NextInv
<1> QED BY <1>1, <1>2, PTL DEF SpinSpec

\* Only the frame on top of a stack can hold a lock or want one.
LEMMA OnTop ==
  ASSUME SpinInv, NEW c \in CPUs, NEW f \in FramesOf(c)
  PROVE  /\ frames[c] # <<>> /\ f \in Frames /\ Sound(f)
         /\ f = Top(c) \/ (Idle(f) /\ ~f.irq)
         /\ \A l \in Locks : Holds(f, l) => Has(c, l)
         /\ \A l \in Locks : Wants(f, l) => Wants(Top(c), l)
<1> DEFINE s == frames[c]
<1>1. s \in Seq(Frames)
  BY DEF SpinInv, SpinTypeOK
<1>2. PICK i \in DOMAIN s : f = s[i]
  BY DEF FramesOf
<1>3. Len(s) <= 2 /\ (\A j \in 1..Len(s) : Sound(s[j])) /\ (Len(s) = 2 => Idle(s[1]) /\ ~s[1].irq)
  BY DEF SpinInv, Stacks
<1>4. s # <<>> /\ f \in Frames /\ i \in 1..Len(s) /\ (i = Len(s) \/ (i = 1 /\ Len(s) = 2))
  <2>1. Len(s) <= 2
    BY <1>3
  <2> HIDE DEF s
  <2> QED BY <1>1, <1>2, <2>1, SMTT(30)
<1>5. Sound(f) /\ (f = Top(c) \/ (Idle(f) /\ ~f.irq))
  BY <1>2, <1>3, <1>4 DEF Top
<1>6. ASSUME NEW l \in Locks, Holds(f, l) PROVE Has(c, l)
  BY <1>4, <1>5, <1>6, IdleFrame DEF Has
<1>7. ASSUME NEW l \in Locks, Wants(f, l) PROVE Wants(Top(c), l)
  <2>1. ~Idle(f)
    BY <1>7 DEF Wants, Idle
  <2> QED BY <1>5, <1>7, <2>1
<1> QED BY <1>4, <1>5, <1>6, <1>7

\* One holder per lock, no panic of acquire, release, popcli or sched, and
\* interrupts on exactly outside acquire..release and handlers, for any
\* number of processors and any paths that keep the discipline.
THEOREM SpinDiscipline == SpinSpec => []LockDiscipline
<1>1. ASSUME SpinInv PROVE LockDiscipline
  <2>1. ASSUME NEW d \in CPUs, NEW f \in FramesOf(d) PROVE f.at # "panic"
    <3>1. f.at \in {"start"} \cup Acquiring \cup Releasing
      BY <1>1, OnTop DEF Frames
    <3> QED BY <3>1, SMTT(30) DEF Acquiring, Releasing
  <2>2. ASSUME NEW l \in Locks, NEW c \in CPUs, NEW d \in CPUs,
               NEW f \in FramesOf(c), Holds(f, l), NEW g \in FramesOf(d), Holds(g, l)
        PROVE  c = d
    <3>1. Has(c, l) /\ Has(d, l)
      BY <1>1, <2>2, OnTop
    <3> QED BY <1>1, <3>1 DEF SpinInv, Ownership, LockedRight
  <2>3. ASSUME NEW c \in CPUs PROVE IF_[c] <=> (ncli[c] = 0 /\ \A f \in FramesOf(c) : ~f.irq)
    <3>1. IF_[c] <=> ncli[c] = 0 /\ ~InHandler(c)
      BY <1>1 DEF SpinInv, Nesting
    <3>2. ASSUME InHandler(c) PROVE \E f \in FramesOf(c) : f.irq
      <4>1. Len(frames[c]) \in 1..Len(frames[c]) /\ frames[c] \in Seq(Frames) /\ frames[c] # <<>>
        BY <1>1, <3>2, TopFrame DEF InHandler, SpinInv
      <4>2. Len(frames[c]) \in DOMAIN frames[c]
        BY <4>1, SMTT(30)
      <4> QED BY <3>2, <4>2 DEF InHandler, Top, FramesOf
    <3>3. ASSUME ~InHandler(c), NEW f \in FramesOf(c) PROVE ~f.irq
      BY <1>1, <3>3, OnTop DEF InHandler
    <3> QED BY <3>1, <3>2, <3>3
  <2> QED BY <2>1, <2>2, <2>3 DEF LockDiscipline
<1> QED BY <1>1, SpinInvariant, PTL

\* The rest of a path keeps the order of the locks.
LEMMA OrderedTail ==
  ASSUME NEW p \in Seq(Ops), p # <<>>, Ordered(p)
  PROVE  Ordered(Tail(p))
<1>1. /\ Len(p) \in Nat \ {0} /\ Len(Tail(p)) = Len(p) - 1
      /\ \A i \in 1..(Len(p) - 1) : Tail(p)[i] = p[i + 1]
  BY SMTT(30)
<1>2. ASSUME NEW k \in 1..Len(Tail(p)), NEW l \in Locks, Tail(p)[k] = Acq(l), HeldFrom(Tail(p), k) # {}
      PROVE  l = "ptable"
  <2>1. k + 1 \in 1..Len(p) /\ Tail(p)[k] = p[k + 1] /\ k \in Nat \ {0}
    BY <1>1, SMTT(30)
  <2>2. HeldFrom(p, k + 1) # {}
    BY <1>2, <2>1, HeldByTail
  <2> QED BY <1>2, <2>1, <2>2 DEF Ordered
<1> QED BY <1>2 DEF Ordered

\* A step of the frame that runs.
LEMMA OrderedFrame ==
  ASSUME SpinInv, FramesOrdered, NEW c \in CPUs, frames[c] # <<>>, NEW f, Ordered(f.path),
         frames' = [frames EXCEPT ![c] = [@ EXCEPT ![Len(frames[c])] = f]]
  PROVE  FramesOrdered'
<1> DEFINE n == Len(frames[c])
           s == [frames[c] EXCEPT ![n] = f]
<1>1. /\ n \in 1..n /\ frames[c] \in Seq(Frames)
  BY TopFrame DEF SpinInv
<1>2. /\ Len(s) = n /\ s[n] = f /\ \A i \in 1..n : i # n => s[i] = frames[c][i]
  <2> HIDE DEF n
  <2>1. n = Len(frames[c])
    BY DEF n
  <2> QED BY <1>1, <2>1, SMTT(30)
<1> HIDE DEF s
<1>3. frames'[c] = s /\ \A d \in CPUs : d # c => frames'[d] = frames[d]
  BY DEF SpinInv, SpinTypeOK, s
<1>4. ASSUME NEW d \in CPUs, NEW i \in 1..Len(frames'[d]) PROVE Ordered(frames'[d][i].path)
  <2>1. CASE d # c
    BY <1>3, <1>4, <2>1 DEF FramesOrdered
  <2>2. CASE d = c
    <3>1. i \in 1..n /\ (i # n => Ordered(frames[c][i].path))
      BY <1>2, <1>3, <2>2 DEF FramesOrdered
    <3> QED BY <1>2, <1>3, <2>2, <3>1
  <2> QED BY <2>1, <2>2
<1> QED BY <1>4 DEF FramesOrdered, Ordered, HeldFrom

\* The paths of the frames stay ordered.
LEMMA OrderStep ==
  ASSUME PathsOrdered, SpinInv, FramesOrdered, [SpinNext]_spinvars
  PROVE  FramesOrdered'
<1>1. CASE UNCHANGED spinvars
  BY <1>1 DEF spinvars, FramesOrdered
<1>2. ASSUME NEW c \in CPUs, NEW a, frames[c] # <<>>, GoTo(c, a) PROVE FramesOrdered'
  <2> DEFINE f == [Top(c) EXCEPT !.at = a]
  <2>1. Top(c) \in Frames /\ Ordered(Top(c).path)
    BY <1>2, TopFrame DEF SpinInv, FramesOrdered, Top
  <2>2. f.path = Top(c).path
    BY <2>1 DEF Frames
  <2>3. frames' = [frames EXCEPT ![c] = [@ EXCEPT ![Len(frames[c])] = f]]
    BY <1>2 DEF GoTo, Top
  <2> HIDE DEF f
  <2> QED BY <1>2, <2>1, <2>2, <2>3, OrderedFrame
<1>3. ASSUME NEW c \in CPUs, frames[c] # <<>>, Top(c).path # <<>>, NextOp(c) PROVE FramesOrdered'
  <2>1. Top(c) \in Frames /\ Ordered(Top(c).path)
    BY <1>3, TopFrame DEF SpinInv, FramesOrdered, Top
  <2>2. Ordered(Tail(Top(c).path))
    BY <1>3, <2>1, OrderedTail DEF Frames
  <2>3. PICK f \in Frames : /\ f.path = Tail(Top(c).path)
                           /\ frames' = [frames EXCEPT ![c] = [@ EXCEPT ![Len(frames[c])] = f]]
    BY <1>3, WentOn DEF SpinInv
  <2> QED BY <1>3, <2>2, <2>3, OrderedFrame
<1>4. ASSUME NEW c \in CPUs, NEW s, frames' = [frames EXCEPT ![c] = s],
             \A i \in 1..Len(s) : Ordered(s[i].path)
      PROVE  FramesOrdered'
  <2>1. frames'[c] = s /\ \A d \in CPUs : d # c => frames'[d] = frames[d]
    BY <1>4 DEF SpinInv, SpinTypeOK
  <2>2. ASSUME NEW d \in CPUs, NEW i \in 1..Len(frames'[d]) PROVE Ordered(frames'[d][i].path)
    BY <1>4, <2>1, <2>2 DEF FramesOrdered
  <2> QED BY <2>2 DEF FramesOrdered, Ordered, HeldFrom
<1>5. ASSUME NEW c \in CPUs, Syscall(c) PROVE FramesOrdered'
  <2>1. PICK p \in Calls : frames' = [frames EXCEPT ![c] = <<[path |-> p, at |-> "start", irq |-> FALSE]>>]
    BY <1>5 DEF Syscall
  <2> DEFINE f == [path |-> p, at |-> "start", irq |-> FALSE]
             s == <<f>>
  <2>2. Ordered(f.path)
    BY DEF PathsOrdered
  <2> HIDE DEF f
  <2>3. \A i \in 1..Len(s) : s[i] = f
    BY SMTT(30)
  <2>4. frames' = [frames EXCEPT ![c] = s]
    BY <2>1 DEF f
  <2> HIDE DEF s
  <2> QED BY <1>4, <2>2, <2>3, <2>4
<1>6. ASSUME NEW c \in CPUs, Interrupt(c) PROVE FramesOrdered'
  <2>1. PICK p \in Handlers :
          frames' = [frames EXCEPT ![c] = Append(frames[c], [path |-> p, at |-> "start", irq |-> TRUE])]
    BY <1>6 DEF Interrupt
  <2> DEFINE f == [path |-> p, at |-> "start", irq |-> TRUE]
             t == frames[c]
             s == Append(t, f)
  <2>2. Ordered(f.path) /\ t \in Seq(Frames) /\ (\A i \in 1..Len(t) : Ordered(t[i].path)) /\ f \in Frames
    BY Started DEF PathsOrdered, FramesOrdered, SpinInv, SpinTypeOK
  <2>3. frames' = [frames EXCEPT ![c] = s]
    BY <2>1
  <2> HIDE DEF f, t
  <2>4. \A i \in 1..Len(s) : s[i] = f \/ (i \in 1..Len(t) /\ s[i] = t[i])
    BY <2>2, SMTT(30)
  <2> HIDE DEF s
  <2>5. \A i \in 1..Len(s) : Ordered(s[i].path)
    BY <2>2, <2>4
  <2> QED BY <1>4, <2>3, <2>5
<1>7. ASSUME NEW c \in CPUs, Return(c) PROVE FramesOrdered'
  <2> DEFINE t == frames[c]
             s == SubSeq(t, 1, Len(t) - 1)
  <2>1. frames' = [frames EXCEPT ![c] = s] /\ t # <<>>
    BY <1>7 DEF Return
  <2>2. t \in Seq(Frames) /\ \A i \in 1..Len(t) : Ordered(t[i].path)
    BY DEF FramesOrdered, SpinInv, SpinTypeOK
  <2> HIDE DEF t
  <2>3. \A i \in 1..Len(s) : i \in 1..Len(t) /\ s[i] = t[i]
    BY <2>1, <2>2, SMTT(30)
  <2> HIDE DEF s
  <2>4. \A i \in 1..Len(s) : Ordered(s[i].path)
    BY <2>2, <2>3
  <2> QED BY <1>4, <2>1, <2>4
<1>8. ASSUME NEW c \in CPUs, SpinStep(c) PROVE FramesOrdered'
  <2>1. CASE AcquireCli(c) \/ AcquireHolding(c) \/ AcquireWhose(c) \/ AcquireXchg(c) \/ AcquireOwn(c)
    BY <1>2, <1>3, <2>1 DEF AcquireCli, AcquireHolding, AcquireWhose, AcquireXchg, AcquireOwn, AtOp
  <2>2. CASE ReleaseOwner(c) \/ ReleaseUnlock(c) \/ ReleasePopcli(c) \/ SchedSwitch(c)
    BY <1>2, <1>3, <2>2 DEF ReleaseOwner, ReleaseUnlock, ReleasePopcli, SchedSwitch, AtOp
  <2> QED BY <1>5, <1>6, <1>7, <1>8, <2>1, <2>2 DEF SpinStep
<1> QED BY <1>1, <1>8 DEF SpinNext

\* With a lock in hand the kernel takes ptable.lock only.  Then no two
\* processors wait for locks of each other, and no handler waits for a lock of
\* the code below it, whatever the number of processors.  getpinfo's path, which
\* takes cons.lock with ptable.lock in hand, is not of this kind.
THEOREM OrderedPathsDoNotSpin == PathsOrdered /\ SpinSpec => []NoSpinCycle
<1> DEFINE Inv == PathsOrdered /\ SpinInv /\ FramesOrdered
<1>1. PathsOrdered /\ SpinInit => Inv
  <2> SUFFICES ASSUME PathsOrdered, SpinInit PROVE Inv
    OBVIOUS
  <2>1. 1..Len(<<>>) = {}
    BY SMTT(30)
  <2>2. FramesOrdered
    BY <2>1 DEF SpinInit, FramesOrdered
  <2> QED BY <2>2, InitInv
<1>2. Inv /\ [SpinNext]_spinvars => Inv'
  <2> SUFFICES ASSUME Inv, [SpinNext]_spinvars PROVE Inv'
    OBVIOUS
  <2>1. SpinInv' /\ FramesOrdered'
    BY NextInv, OrderStep
  <2> QED BY <2>1 DEF PathsOrdered, Ordered, HeldFrom
<1>3. ASSUME Inv, NEW c \in CPUs, NEW d \in CPUs, SpinsFor(c, d), SpinsFor(d, c) PROVE FALSE
  <2>1. PICK l \in Locks : frames[c] # <<>> /\ Wants(Top(c), l) /\ Has(d, l)
    BY <1>3, OnTop DEF SpinsFor
  <2>2. PICK m \in Locks : frames[d] # <<>> /\ Wants(Top(d), m) /\ Has(c, m)
    BY <1>3, OnTop DEF SpinsFor
  <2>3. ASSUME NEW e \in CPUs, NEW x \in Locks, NEW y \in Locks,
               frames[e] # <<>>, Wants(Top(e), x), Has(e, y)
        PROVE  x = "ptable" /\ y # x
    <3> DEFINE p == Top(e).path
    <3>1. Top(e) \in Frames /\ Sound(Top(e)) /\ Ordered(p)
      BY <1>3, <2>3, TopFrame DEF SpinInv, FramesOrdered, Top
    <3>2. p # <<>> /\ Head(p) = Acq(x) /\ Top(e).at = "spin"
      BY <2>3 DEF Wants
    <3>3. p \in Seq(Ops) /\ Nested(p) /\ Head(p).op = "acquire" /\ Head(p).lk = x
      BY <3>1, <3>2, OpKinds DEF Frames, Sound
    <3>4. y \in HeldFrom(p, 1)
      BY <2>3, <3>1, <3>2, Standing DEF Has
    <3>5. x \notin HeldFrom(p, 1)
      BY <3>2, <3>3, PathStep
    <3>6. 1 \in 1..Len(p) /\ p[1] = Head(p)
      BY <3>2, <3>3, SMTT(30)
    <3> QED BY <3>1, <3>2, <3>4, <3>5, <3>6 DEF Ordered
  <2>4. l = "ptable" /\ m # l /\ m = "ptable"
    BY <2>1, <2>2, <2>3
  <2> QED BY <2>4
<1>4. Inv => NoSpinCycle
  BY <1>3 DEF NoSpinCycle
<1> QED BY <1>1, <1>2, <1>4, PTL DEF SpinSpec

-----------------------------------------------------------------------------
(***************************************************************************)
(* The paths of the kernel.                                                *)
(***************************************************************************)

\* A path with one more step in front.
LEMMA NestedCons ==
  ASSUME NEW p \in Seq(Ops), p # <<>>, Nested(Tail(p)), Ordered(Tail(p)),
         LET T == HeldFrom(Tail(p), 1) IN
         \/ \E l \in T : p[1] = Acq(l) /\ (T \ {l} # {} => l = "ptable")
         \/ \E l \in Locks \ T : p[1] = Rel(l)
         \/ p[1] = Sched /\ T = {"ptable"}
  PROVE  Nested(p) /\ Ordered(p)
<1>1. /\ Len(p) \in Nat \ {0} /\ Len(Tail(p)) = Len(p) - 1
      /\ \A i \in 1..(Len(p) - 1) : Tail(p)[i] = p[i + 1]
  BY SMTT(30)
<1>2. HeldFrom(Tail(p), 1) = HeldFrom(p, 2) /\ 1 \in Nat \ {0} /\ 1 + 1 = 2
  <2>1. 1 \in Nat \ {0} /\ 1 + 1 = 2
    BY SMTT(30)
  <2> QED BY <2>1, HeldByTail
<1>3. /\ \A l \in Locks : p[1] = Acq(l) => l \in HeldFrom(p, 2)
      /\ \A l \in Locks : p[1] = Rel(l) => l \notin HeldFrom(p, 2)
      /\ p[1] = Sched => HeldFrom(p, 1) = {"ptable"}
      /\ \A l \in Locks : p[1] = Acq(l) /\ HeldFrom(p, 1) # {} => l = "ptable"
  <2>1. HeldFrom(Tail(p), 1) \subseteq Locks
    BY HeldFinite
  <2> QED BY <1>2, <2>1, HeldByHead, OpKinds, SMTT(30)
<1>4. ASSUME NEW k \in 1..Len(p), k # 1
      PROVE  /\ \A l \in Locks : p[k] = Acq(l) => l \in HeldFrom(p, k + 1)
             /\ \A l \in Locks : p[k] = Rel(l) => l \notin HeldFrom(p, k + 1)
             /\ p[k] = Sched => HeldFrom(p, k) = {"ptable"}
             /\ \A l \in Locks : p[k] = Acq(l) /\ HeldFrom(p, k) # {} => l = "ptable"
  <2>1. PICK j \in 1..Len(Tail(p)) : k = j + 1 /\ Tail(p)[j] = p[k] /\ j \in Nat \ {0} /\ k \in Nat \ {0}
    <3>1. k - 1 \in 1..Len(Tail(p)) /\ k = (k - 1) + 1 /\ Tail(p)[k - 1] = p[k] /\ k - 1 \in Nat \ {0} /\ k \in Nat \ {0}
      BY <1>1, <1>4, SMTT(30)
    <3> QED BY <3>1
  <2>2. HeldFrom(Tail(p), j) = HeldFrom(p, k) /\ HeldFrom(Tail(p), k) = HeldFrom(p, k + 1)
    BY <2>1, HeldByTail
  <2> QED BY <2>1, <2>2, SMTT(30) DEF Nested, Ordered
<1>5. \A k \in 1..Len(p) :
             /\ \A l \in Locks : p[k] = Acq(l) => l \in HeldFrom(p, k + 1)
             /\ \A l \in Locks : p[k] = Rel(l) => l \notin HeldFrom(p, k + 1)
             /\ p[k] = Sched => HeldFrom(p, k) = {"ptable"}
             /\ \A l \in Locks : p[k] = Acq(l) /\ HeldFrom(p, k) # {} => l = "ptable"
  BY <1>2, <1>3, <1>4
<1> QED BY <1>5 DEF Nested, Ordered

\* A path of code that holds exactly the locks H where it begins.
WellBehaved(p, H) == p \in Seq(Ops) /\ HeldFrom(p, 1) = H /\ Nested(p) /\ Ordered(p)

\* The end of a path.
LEMMA GoodEnd == WellBehaved(<<>>, {})
<1>1. HeldFrom(<<>>, 1) = {}
  BY SMTT(30) DEF HeldFrom
<1>2. <<>> \in Seq(Ops) /\ 1..Len(<<>>) = {}
  BY SMTT(30)
<1> QED BY <1>1, <1>2 DEF WellBehaved, Nested, Ordered

\* One more step in front of it.
LEMMA GoodCons ==
  ASSUME NEW p, NEW H, WellBehaved(Tail(p), H), p \in Seq(Ops), p # <<>>
  PROVE  /\ \A l \in H : p[1] = Acq(l) /\ (H \ {l} # {} => l = "ptable") => WellBehaved(p, H \ {l})
         /\ \A l \in Locks \ H : p[1] = Rel(l) => WellBehaved(p, H \cup {l})
         /\ p[1] = Sched /\ H = {"ptable"} => WellBehaved(p, H)
<1>1. HeldFrom(Tail(p), 1) = H /\ Nested(Tail(p)) /\ Ordered(Tail(p)) /\ H \subseteq Locks
  BY HeldFinite DEF WellBehaved
<1>2. HeldFrom(Tail(p), 1) = HeldFrom(p, 2)
  <2>1. 1 \in Nat \ {0} /\ 1 + 1 = 2
    BY SMTT(30)
  <2> QED BY <2>1, HeldByTail
<1>3. ASSUME NEW l \in H, p[1] = Acq(l), H \ {l} # {} => l = "ptable" PROVE WellBehaved(p, H \ {l})
  <2>1. Nested(p) /\ Ordered(p)
    BY <1>1, <1>3, NestedCons
  <2>2. HeldFrom(p, 1) = H \ {l}
    BY <1>1, <1>2, <1>3, HeldByHead
  <2> QED BY <2>1, <2>2 DEF WellBehaved
<1>4. ASSUME NEW l \in Locks \ H, p[1] = Rel(l) PROVE WellBehaved(p, H \cup {l})
  <2>1. Nested(p) /\ Ordered(p)
    BY <1>1, <1>4, NestedCons
  <2>2. HeldFrom(p, 1) = H \cup {l}
    BY <1>1, <1>2, <1>4, HeldByHead
  <2> QED BY <2>1, <2>2 DEF WellBehaved
<1>5. ASSUME p[1] = Sched, H = {"ptable"} PROVE WellBehaved(p, H)
  <2>1. Nested(p) /\ Ordered(p)
    BY <1>1, <1>5, NestedCons
  <2>2. HeldFrom(p, 1) = H
    BY <1>1, <1>2, <1>5, HeldByHead
  <2> QED BY <2>1, <2>2 DEF WellBehaved
<1> QED BY <1>3, <1>4, <1>5

\* The paths the kernel's functions are made of: each gives back what it
\* takes, calls sched with ptable.lock alone, and takes no lock but ptable.lock
\* with a lock in hand (cprintf, kill, wakeup, sleep and yield).
THEOREM KernelPaths ==
  ASSUME NEW l \in Locks \ {"ptable"}
  PROVE  \A p \in {Locked(l), Locked("ptable"), LockedWakeup(l), LockedSleep(l), Yield} :
           Disciplined(p) /\ Ordered(p)
<1> DEFINE q == "ptable"
<1>1. q \in Locks /\ l \in Locks /\ l # q /\ Acq(l) \in Ops /\ Rel(l) \in Ops /\ Acq(q) \in Ops /\ Rel(q) \in Ops
      /\ Sched \in Ops
  BY DEF Locks, Ops
<1> HIDE DEF q
<1>2. ASSUME NEW r \in Seq(Ops), r # <<>>, NEW H, WellBehaved(Tail(r), H), NEW G
      PROVE  /\ \A k \in H : r[1] = Acq(k) /\ (G # {} => k = q) /\ G = H \ {k} => WellBehaved(r, G)
             /\ \A k \in Locks \ H : r[1] = Rel(k) /\ G = H \cup {k} => WellBehaved(r, G)
             /\ r[1] = Sched /\ H = {q} => WellBehaved(r, H)
  <2>1. ASSUME NEW k \in H, r[1] = Acq(k), G # {} => k = q, G = H \ {k} PROVE WellBehaved(r, G)
    <3>1. H \ {k} # {} => k = "ptable"
      BY <2>1 DEF q
    <3>2. WellBehaved(r, H \ {k})
      BY <1>2, <2>1, <3>1, GoodCons
    <3> QED BY <2>1, <3>2
  <2>2. ASSUME NEW k \in Locks \ H, r[1] = Rel(k), G = H \cup {k} PROVE WellBehaved(r, G)
    <3>1. WellBehaved(r, H \cup {k})
      BY <1>2, <2>2, GoodCons
    <3> QED BY <2>2, <3>1
  <2>3. ASSUME r[1] = Sched, H = {q} PROVE WellBehaved(r, H)
    BY <1>2, <2>3, GoodCons DEF q
  <2> QED BY <2>1, <2>2, <2>3
<1>3. ASSUME NEW k \in Locks PROVE WellBehaved(<<Rel(k)>>, {k}) /\ WellBehaved(<<Acq(k), Rel(k)>>, {})
  <2> DEFINE a == <<Rel(k)>>
             b == <<Acq(k), Rel(k)>>
  <2>1. Acq(k) \in Ops /\ Rel(k) \in Ops /\ {} \cup {k} = {k} /\ {k} \ {k} = {}
    BY DEF Ops
  <2>2. /\ a \in Seq(Ops) /\ a # <<>> /\ a[1] = Rel(k) /\ Tail(a) = <<>>
        /\ b \in Seq(Ops) /\ b # <<>> /\ b[1] = Acq(k) /\ Tail(b) = a
    BY <2>1, SMTT(30)
  <2> HIDE DEF a, b
  <2>3. WellBehaved(a, {k})
    BY <1>2, <2>1, <2>2, GoodEnd
  <2>4. WellBehaved(b, {})
    BY <1>2, <2>1, <2>2, <2>3
  <2> QED BY <2>3, <2>4 DEF a, b
<1>4. WellBehaved(LockedWakeup(l), {})
  <2> DEFINE a == <<Rel(l)>>
             b == <<Rel(q), Rel(l)>>
             d == <<Acq(q), Rel(q), Rel(l)>>
             e == <<Acq(l), Acq(q), Rel(q), Rel(l)>>
  <2>1. /\ b \in Seq(Ops) /\ b # <<>> /\ b[1] = Rel(q) /\ Tail(b) = a
        /\ d \in Seq(Ops) /\ d # <<>> /\ d[1] = Acq(q) /\ Tail(d) = b
        /\ e \in Seq(Ops) /\ e # <<>> /\ e[1] = Acq(l) /\ Tail(e) = d
    BY <1>1, SMTT(30)
  <2>2. WellBehaved(a, {l})
    BY <1>1, <1>3
  <2> HIDE DEF a, b, d, e
  <2>3. WellBehaved(b, {l, q})
    <3>1. {l} \cup {q} = {l, q} /\ q \notin {l}
      BY <1>1
    <3> QED BY <1>1, <1>2, <2>1, <2>2, <3>1
  <2>4. WellBehaved(d, {l})
    <3>1. {l, q} \ {q} = {l} /\ q \in {l, q}
      BY <1>1
    <3> QED BY <1>2, <2>1, <2>3, <3>1
  <2>5. WellBehaved(e, {})
    <3>1. {l} \ {l} = {} /\ l \in {l}
      OBVIOUS
    <3> QED BY <1>2, <2>1, <2>4, <3>1
  <2> QED BY <2>5 DEF e, LockedWakeup, q
<1>5. WellBehaved(Yield, {})
  <2> DEFINE a == <<Rel(q)>>
             b == <<Sched, Rel(q)>>
             d == <<Acq(q), Sched, Rel(q)>>
  <2>1. /\ b \in Seq(Ops) /\ b # <<>> /\ b[1] = Sched /\ Tail(b) = a
        /\ d \in Seq(Ops) /\ d # <<>> /\ d[1] = Acq(q) /\ Tail(d) = b
    BY <1>1, SMTT(30)
  <2>2. WellBehaved(a, {q})
    BY <1>1, <1>3
  <2> HIDE DEF a, b, d
  <2>3. WellBehaved(b, {q})
    BY <1>2, <2>1, <2>2
  <2>4. WellBehaved(d, {})
    <3>1. {q} \ {q} = {} /\ q \in {q}
      OBVIOUS
    <3> QED BY <1>2, <2>1, <2>3, <3>1
  <2> QED BY <2>4 DEF d, Yield, q
<1>6. WellBehaved(LockedSleep(l), {})
  <2> DEFINE a == <<Acq(l), Rel(l)>>
             b == <<Rel(q), Acq(l), Rel(l)>>
             d == <<Sched, Rel(q), Acq(l), Rel(l)>>
             e == <<Rel(l), Sched, Rel(q), Acq(l), Rel(l)>>
             f == <<Acq(q), Rel(l), Sched, Rel(q), Acq(l), Rel(l)>>
             g == <<Acq(l), Acq(q), Rel(l), Sched, Rel(q), Acq(l), Rel(l)>>
  <2>1. /\ b \in Seq(Ops) /\ b # <<>> /\ b[1] = Rel(q) /\ Tail(b) = a
        /\ d \in Seq(Ops) /\ d # <<>> /\ d[1] = Sched /\ Tail(d) = b
        /\ e \in Seq(Ops) /\ e # <<>> /\ e[1] = Rel(l) /\ Tail(e) = d
    BY <1>1, SMTT(30)
  <2>2. /\ f \in Seq(Ops) /\ f # <<>> /\ f[1] = Acq(q) /\ Tail(f) = e
        /\ g \in Seq(Ops) /\ g # <<>> /\ g[1] = Acq(l) /\ Tail(g) = f
    BY <1>1, SMTT(30)
  <2>3. WellBehaved(a, {})
    BY <1>1, <1>3
  <2> HIDE DEF a, b, d, e, f, g
  <2>4. WellBehaved(b, {q})
    <3>1. {} \cup {q} = {q} /\ q \notin {}
      OBVIOUS
    <3> QED BY <1>1, <1>2, <2>1, <2>3, <3>1
  <2>5. WellBehaved(d, {q})
    BY <1>2, <2>1, <2>4
  <2>6. WellBehaved(e, {l, q})
    <3>1. {q} \cup {l} = {l, q} /\ l \notin {q}
      BY <1>1
    <3> QED BY <1>1, <1>2, <2>1, <2>5, <3>1
  <2>7. WellBehaved(f, {l})
    <3>1. {l, q} \ {q} = {l} /\ q \in {l, q}
      BY <1>1
    <3> QED BY <1>2, <2>2, <2>6, <3>1
  <2>8. WellBehaved(g, {})
    <3>1. {l} \ {l} = {} /\ l \in {l}
      OBVIOUS
    <3> QED BY <1>2, <2>2, <2>7, <3>1
  <2> QED BY <2>8 DEF g, LockedSleep, q
<1>7. WellBehaved(Locked(l), {}) /\ WellBehaved(Locked("ptable"), {})
  BY <1>1, <1>3 DEF Locked, q
<1> QED BY <1>4, <1>5, <1>6, <1>7 DEF WellBehaved, Disciplined
=============================================================================
