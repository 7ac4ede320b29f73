------------------------------- MODULE Stats -------------------------------
(***************************************************************************)
(* The run time that the scheduler keeps for getpinfo (proc.c, pstat.h):   *)
(* start_tick and duration of struct sched_stat_t, one entry per slice,    *)
(* over slots of the process table that are reused.  The other fields      *)
(* (ticks, times, total_ticks, wait_time, the level and the start of an    *)
(* old entry, the tables of ticks) are only written and are left out.      *)
(* Which of the runnable processes of the highest level is taken is left   *)
(* open here (Mlfq and Proc settle it).                                    *)
(***************************************************************************)
EXTENDS Naturals

CONSTANTS
  Tasks,         \* slots of the process table
  Processors,
  SliceOf,       \* pqueue.ticks of the three queues
  BoostAfter,    \* run ticks in q2 after which boost is called (50)
  NSCHEDSTATS,
  MaxClock,      \* bound on ticks
  MaxLives       \* bound on the processes of a slot

ASSUME StatAssumption == NSCHEDSTATS \in Nat

VARIABLES
  clock,         \* ticks
  task,          \* the fields of struct proc that the statistics use
  slice,         \* of each processor: p and count of scheduler
  ran            \* history: clock ticks each process was on a processor,
                 \* by the entry of stats it was at

statvars == <<clock, task, slice, ran>>

Entries == 0..(NSCHEDSTATS - 1)
NoTime == [k \in Entries |-> 0]
NoSlice == [p |-> "none", count |-> 0]
FreshTask ==
  [state |-> "UNUSED", life |-> 0, priority |-> 0, Ticks |-> 0,
   start_tick |-> 0, duration |-> NoTime, num_stat_used |-> 0]

StatInit ==
  /\ clock = 0
  /\ task = [p \in Tasks |-> FreshTask]
  /\ slice = [c \in Processors |-> NoSlice]
  /\ ran = [p \in Tasks |-> NoTime]

\* allocproc and the end of fork: of the statistics only num_stat_used is
\* reset.
Allocated(r) ==
  [r EXCEPT !.state = "RUNNABLE", !.life = @ + 1, !.priority = 0, !.Ticks = 0, !.num_stat_used = 0]
Alloc(p) ==
  /\ task[p].state = "UNUSED" /\ task[p].life < MaxLives
  /\ task' = [task EXCEPT ![p] = Allocated(task[p])]
  /\ ran' = [ran EXCEPT ![p] = NoTime]
  /\ UNCHANGED <<clock, slice>>

Reap(p) ==
  /\ task[p].state = "ZOMBIE"
  /\ task' = [task EXCEPT ![p].state = "UNUSED"]
  /\ UNCHANGED <<clock, slice, ran>>

WakeTask(p) ==
  /\ task[p].state = "SLEEPING"
  /\ task' = [task EXCEPT ![p].state = "RUNNABLE"]
  /\ UNCHANGED <<clock, slice, ran>>

ClockTick ==
  /\ clock < MaxClock
  /\ clock' = clock + 1
  /\ ran' = [p \in Tasks |->
               IF task[p].state = "RUNNING"
               THEN [ran[p] EXCEPT ![task[p].num_stat_used] = @ + 1]
               ELSE ran[p]]
  /\ UNCHANGED <<task, slice>>

\* The switch to a process: its entry of stats gets the time.
Switched(r) == [r EXCEPT !.state = "RUNNING", !.start_tick = clock]

\* The scheduler takes p.  Bound: while stats has an entry left.
Take(c, p) ==
  /\ slice[c] = NoSlice /\ task[p].state = "RUNNABLE" /\ task[p].num_stat_used < NSCHEDSTATS
  /\ \A q \in Tasks : task[q].state = "RUNNABLE" => task[p].priority <= task[q].priority
  /\ task' = [task EXCEPT ![p] = Switched(task[p])]
  /\ slice' = [slice EXCEPT ![c] = [p |-> p, count |-> 0]]
  /\ UNCHANGED <<clock, ran>>

\* The switch back when duration is set and not added to: a slice of several
\* ticks keeps the last one.
LastDuration(r) == clock - r.start_tick

\* p->stats[p->num_stat_used].duration after the switch back.
Duration(r) == r.duration[r.num_stat_used] + (clock - r.start_tick)

\* The end of a slice, for the process that had it.
EndSlice(r) ==
  LET next == [r EXCEPT !.num_stat_used = @ + 1, !.Ticks = 0]
  IN CASE r.state = "RUNNABLE" /\ r.priority < 2 -> [next EXCEPT !.priority = @ + 1]
       [] r.state = "RUNNABLE" /\ r.priority = 2 /\ r.Ticks >= BoostAfter ->
            [next EXCEPT !.priority = 0]
       [] r.state = "SLEEPING" -> next
       [] OTHER -> r

\* The switch back: the process has left the processor in state.
Left(r, state) ==
  [r EXCEPT !.state = state, !.Ticks = @ + 1,
            !.duration = [r.duration EXCEPT ![r.num_stat_used] = Duration(r)]]

\* The process gives up the processor: the rest of the loop body, and the next
\* turn of the loop or what follows it.
GiveUp(c, state) ==
  LET s == slice[c]
      p == s.p
      t == Left(task[p], state)
      again == state = "RUNNABLE" /\ s.count + 1 < SliceOf[task[p].priority]
  IN /\ s # NoSlice
     /\ task' = [task EXCEPT ![p] = IF again THEN Switched(t) ELSE EndSlice(t)]
     /\ slice' = [slice EXCEPT ![c] = IF again THEN [p |-> p, count |-> s.count + 1] ELSE NoSlice]
     /\ UNCHANGED <<clock, ran>>

StatNext ==
  \/ \E p \in Tasks : Alloc(p) \/ Reap(p) \/ WakeTask(p)
  \/ ClockTick
  \/ \E c \in Processors, p \in Tasks : Take(c, p)
  \/ \E c \in Processors, state \in {"RUNNABLE", "SLEEPING", "ZOMBIE"} : GiveUp(c, state)

StatSpec == StatInit /\ [][StatNext]_statvars

-----------------------------------------------------------------------------
\* The ticks that p is on a processor and that entry k does not have yet.
OnCpu(p, k) ==
  IF task[p].state = "RUNNING" /\ k = task[p].num_stat_used THEN clock - task[p].start_tick ELSE 0

\* The durations kept for the first process of a slot are the clock ticks it
\* was on a processor, entry by entry and so in sum, whatever the slices,
\* levels, sleeps and processors: no tick is lost between two entries, nor
\* counted in two, nor put into the entry of another slice.
RunTimeExact ==
  \A p \in Tasks : task[p].life = 1 =>
    \A k \in Entries : task[p].duration[k] + OnCpu(p, k) = ran[p][k]

-----------------------------------------------------------------------------
(* The inductive invariant behind RunTimeExact: a process that a processor *)
(* has is RUNNING there and nowhere else, since a tick that has come, at   *)
(* an entry that exists; and a slot never used has no run time.            *)
StatTypeOK ==
  /\ clock \in Nat
  /\ task \in [Tasks -> [state : {"UNUSED", "RUNNABLE", "RUNNING", "SLEEPING", "ZOMBIE"},
                         life : Nat, priority : Nat, Ticks : Nat, start_tick : Nat,
                         duration : [Entries -> Nat], num_stat_used : Nat]]
  /\ slice \in [Processors -> {NoSlice} \union [p : Tasks, count : Nat]]
  /\ ran \in [Tasks -> [Entries -> Nat]]

OnOneProcessor ==
  \A c \in Processors : slice[c] # NoSlice =>
    /\ task[slice[c].p].state = "RUNNING"
    /\ \A d \in Processors \ {c} : slice[d] # NoSlice => slice[d].p # slice[c].p
RunsSince ==
  \A p \in Tasks : task[p].state = "RUNNING" =>
    task[p].start_tick <= clock /\ task[p].num_stat_used \in Entries
NeverUsed ==
  \A p \in Tasks : task[p].life = 0 => task[p].state = "UNUSED" /\ task[p].duration = NoTime

StatInv == StatTypeOK /\ OnOneProcessor /\ RunsSince /\ NeverUsed /\ RunTimeExact
=============================================================================
