----------------------------- MODULE MCScheduler -----------------------------
(***************************************************************************)
(* Small instances of Scheduler, the contract it is checked against, and   *)
(* what the source says of it.                                              *)
(***************************************************************************)
EXTENDS Scheduler

CONSTANT NoRequest

ASSUME NoRequestAssumption == NoRequest \notin Nat

\* The requests the two arrays stand for.
RequestOf(e) ==
  [id |-> e.id, callback |-> e.callback, interval |-> e.intervalTick,
   isRoutine |-> e.isRoutine, due |-> Ticks(e.timeoutTick)]

PendingOf(s) == {RequestOf(s[i]) : i \in LiveIds(s)}

Pending == PendingOf(eventBuffer) \cup PendingOf(scheduleQueue)

\* The batch from the entry whose callback is running on.
Firing == [k \in 1 .. Len(timeoutQueue) - running + 1 |-> timeoutQueue[running + k - 1].id]

Adding == IF pc = "schedule" THEN Ticks(call.begun) ELSE NoRequest

Service == INSTANCE TimerService WITH
  now     <- Ticks(clock),
  pending <- Pending,
  firing  <- Firing,
  adding  <- Adding,
  MaxDue  <- U32Max * Word

\* The scheduler with its arrays, sort, marks and two-load copy of the clock
\* implements the contract: nothing that was unscheduled fires (unless it was
\* already expired), nothing fires twice, batches are in deadline order,
\* routines are rearmed one interval after their deadline, without drift.
ImplementsTimerService == Service!Spec

\* scheduler.h:213-216: unschedule() "removes every events or routines with the
\* provided signature": none of them is called after it.
UnscheduleRemovesAll ==
  [][\A iv \in Interval, cb \in Callback, routine \in BOOLEAN :
       Unschedule(iv, cb, routine) =>
         \A i \in running + 1 .. Len(timeoutQueue') :
           ~Matches(timeoutQueue'[i], iv, cb, routine)]_vars
=============================================================================
