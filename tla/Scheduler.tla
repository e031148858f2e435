------------------------------ MODULE Scheduler ------------------------------
(***************************************************************************)
(* The cooperative event scheduler of kernel/scheduler.h, with the timer    *)
(* interrupt that advances the clock and the code that calls it: an app     *)
(* calls schedule(), unschedule() and kernel_process() with interrupts      *)
(* enabled, and kernel_process() runs the scheduler's pass and the          *)
(* callbacks of the expired events with interrupts disabled.                *)
(***************************************************************************)
EXTENDS ExTick, Sequences, FiniteSets, Ranking

CONSTANTS
  BuffSize,   \* SCHEDULER_BUFF_SIZE: capacity of each of the three arrays
  Callback,   \* the (callback, arg0) pairs callers pass to schedule()
  NULL,       \* the pair whose callback pointer is NULL
  Interval,   \* the values of timeoutTicks callers pass
  MaxCalls,   \* bound: calls of schedule() in a behaviour
  Start,      \* what the clock reads when the scheduler is first used
  Horizon     \* bound: the clock stops counting there

ASSUME SizeAssumption == BuffSize \in Nat /\ BuffSize > 0
ASSUME IntervalAssumption == Interval \subseteq U32
ASSUME BoundAssumption ==
  /\ MaxCalls \in Nat /\ Start \in U32 /\ Horizon \in Nat /\ Start <= Horizon
  /\ Horizon < U32Max * Word
  /\ \A iv \in Interval : Horizon + Word + iv < U32Max * Word

VARIABLES
  clock,          \* kGlobal.timing.tick
  eventBuffer,    \* kGlobal.scheduler.eventBuffer[0 .. eventBufferHead - 1]
  timeoutQueue,   \* kGlobal.scheduler.timeoutQueue, likewise
  scheduleQueue,  \* kGlobal.scheduler.scheduleQueue, likewise
  needDefrag,     \* kGlobal.scheduler.needDefrag
  pc,             \* where the processor is
  running,        \* the loop index of __scheduler_handle_queued_timedout
  call,           \* the schedule() call that has read half of the clock
  calls           \* history: calls of schedule() so far

vars == <<clock, eventBuffer, timeoutQueue, scheduleQueue, needDefrag, pc,
          running, call, calls>>

PC == {"app", "schedule", "batch", "callback", "hlt", "panic"}

\* A ScheduleEvent.  id, due and torn are history: the call that created the
\* entry, the exact tick before which it may not fire, and whether the clock
\* wrapped while the call was reading it.
Event == [timeoutTick : Tick, intervalTick : Interval, callback : Callback,
          isRoutine : BOOLEAN, id : 1 .. MaxCalls, due : Nat, torn : BOOLEAN]

Half == {"tick", "cycle"}

Call == [half : Half, read : U32, begun : Tick, intervalTick : Interval,
         callback : Callback, isRoutine : BOOLEAN]

\* The mark of an entry that is to be removed.
Unset == [tick |-> 0, cycle |-> U32Max]

Valid(e) == e.timeoutTick.cycle # U32Max

-----------------------------------------------------------------------------
(* Helpers of the pass *)

\* The order __schedule_sort_ascending gives the indices of s: by timeout, and
\* an insertion sort keeps the order of equal ones.
SortOrder(s) ==
  {p \in (1 .. Len(s)) \X (1 .. Len(s)) :
     \/ GreaterThan(s[p[2]].timeoutTick, s[p[1]].timeoutTick)
     \/ s[p[2]].timeoutTick = s[p[1]].timeoutTick /\ p[1] < p[2]}

\* Mutant: the moved entries are left where they were appended.
SortNothing(s) == s

SortAscending(s) == Arrange(s, Ranked(1 .. Len(s), SortOrder(s)))

\* Mutant: an entry due exactly now is left for the next tick.
ExpiredStrictly(s) ==
  {i \in DOMAIN s : \A j \in 1 .. i : GreaterThan(clock, s[j].timeoutTick)}

\* The entries that __scheduler_check_timeout_sorted handles before its early
\* return: those before the first one whose timeout is still to come.
Expired(s) == {i \in DOMAIN s : \A j \in 1 .. i : ~GreaterThan(s[j].timeoutTick, clock)}

\* Mutant: a routine is rearmed from the current tick.
RearmedFromClock(e) == [e EXCEPT !.timeoutTick = AddTicks(clock, e.intervalTick),
                                 !.due = @ + e.intervalTick]

\* __scheduler_handle_timeout, what it queues for a routine ...
Rearmed(e) == [e EXCEPT !.timeoutTick = AddTicks(@, e.intervalTick),
                        !.due = @ + e.intervalTick]

\* Mutant: the entry is queued for its callback but not marked.
MarkUnsetForgotten(e) == e

\* ... and what it leaves in the buffer and queues for its callback.
MarkUnset(e) == [e EXCEPT !.timeoutTick = Unset]

\* __scheduler_defrag
Defrag(s) == Keep(s, {i \in DOMAIN s : Valid(s[i])})

\* kernel_panic: the processor stops with interrupts disabled.
Panic == /\ pc' = "panic"
         /\ UNCHANGED <<clock, eventBuffer, timeoutQueue, scheduleQueue,
                        needDefrag, running, call, calls>>

-----------------------------------------------------------------------------
Init == /\ clock = [tick |-> Start, cycle |-> 0]
        /\ eventBuffer = <<>>
        /\ timeoutQueue = <<>>
        /\ scheduleQueue = <<>>
        /\ needDefrag = FALSE
        /\ pc = "app"
        /\ running = 1
        /\ call = NULL
        /\ calls = 0

(* Interrupts *)

InterruptsEnabled == pc \in {"app", "schedule", "hlt"}

\* kernel_tick_update, the handler of IRQ0.  The interrupt ends a hlt.
TimerInterrupt ==
  /\ InterruptsEnabled
  /\ Ticks(clock) < Horizon
  /\ clock' = AddTicks(clock, 1)
  /\ pc' = IF pc = "hlt" THEN "app" ELSE pc
  /\ UNCHANGED <<eventBuffer, timeoutQueue, scheduleQueue, needDefrag, running,
                 call, calls>>

\* Any other interrupt (the keyboard's, say) also ends a hlt.
OtherInterrupt ==
  /\ pc = "hlt"
  /\ pc' = "app"
  /\ UNCHANGED <<clock, eventBuffer, timeoutQueue, scheduleQueue, needDefrag,
                 running, call, calls>>

-----------------------------------------------------------------------------
(* schedule() and unschedule() *)

\* Mutant: the capacity check lets one entry too many in.
EnqueueOneTooMany(e, caller) ==
  \/ /\ Len(scheduleQueue) > BuffSize
     /\ Panic
  \/ /\ Len(scheduleQueue) <= BuffSize
     /\ scheduleQueue' = Append(scheduleQueue, e)
     /\ calls' = calls + 1
     /\ pc' = caller
     /\ UNCHANGED <<clock, eventBuffer, timeoutQueue, needDefrag, running, call>>

\* __scheduler_enqueue of a new entry, then the return to `caller'.
Enqueue(e, caller) ==
  \/ /\ Len(scheduleQueue) >= BuffSize
     /\ Panic
  \/ /\ Len(scheduleQueue) < BuffSize
     /\ scheduleQueue' = Append(scheduleQueue, e)
     /\ calls' = calls + 1
     /\ pc' = caller
     /\ UNCHANGED <<clock, eventBuffer, timeoutQueue, needDefrag, running, call>>

NewEvent(stamp, c, begun, torn) ==
  [timeoutTick |-> AddTicks(stamp, c.intervalTick), intervalTick |-> c.intervalTick,
   callback |-> c.callback, isRoutine |-> c.isRoutine,
   id |-> calls + 1, due |-> Ticks(begun) + c.intervalTick, torn |-> torn]

\* An app's schedule() copies the clock with interrupts enabled, one u32 at a
\* time, in the order the compiler chose.  This is the first of the loads ...
ScheduleBegin(iv, cb, routine, half) ==
  /\ pc = "app"
  /\ calls < MaxCalls
  /\ call' = [half |-> half,
              read |-> IF half = "tick" THEN clock.tick ELSE clock.cycle,
              begun |-> clock, intervalTick |-> iv, callback |-> cb,
              isRoutine |-> routine]
  /\ pc' = "schedule"
  /\ UNCHANGED <<clock, eventBuffer, timeoutQueue, scheduleQueue, needDefrag,
                 running, calls>>

\* ... and this the second, with the rest of the call.
ScheduleEnd ==
  /\ pc = "schedule"
  /\ LET stamp == IF call.half = "tick"
                  THEN [tick |-> call.read, cycle |-> clock.cycle]
                  ELSE [tick |-> clock.tick, cycle |-> call.read]
     IN  Enqueue(NewEvent(stamp, call, call.begun, clock.cycle # call.begun.cycle),
                 "app")

\* schedule() in a callback: no interrupt can separate the loads.
ScheduleInCallback(iv, cb, routine) ==
  /\ pc = "callback"
  /\ calls < MaxCalls
  /\ Enqueue(NewEvent(clock, [intervalTick |-> iv, callback |-> cb, isRoutine |-> routine],
                      clock, FALSE),
             "callback")

Matches(e, iv, cb, routine) ==
  /\ e.callback = cb
  /\ e.intervalTick = iv
  /\ e.isRoutine = routine

\* __scheduler_invalidate_in_buffer
Invalidated(s, iv, cb, routine) ==
  [i \in DOMAIN s |-> IF Matches(s[i], iv, cb, routine)
                      THEN [s[i] EXCEPT !.timeoutTick = Unset, !.isRoutine = FALSE]
                      ELSE s[i]]

Holds(s, iv, cb, routine) == \E i \in DOMAIN s : Matches(s[i], iv, cb, routine)

\* Mutant: only a match in the buffer asks for a defragmentation.
UnscheduleFlagsBufferOnly(iv, cb, routine) ==
  /\ pc \in {"app", "callback"}
  /\ eventBuffer' = Invalidated(eventBuffer, iv, cb, routine)
  /\ scheduleQueue' = Invalidated(scheduleQueue, iv, cb, routine)
  /\ needDefrag' = (needDefrag \/ Holds(eventBuffer, iv, cb, routine))
  /\ UNCHANGED <<clock, timeoutQueue, pc, running, call, calls>>

\* unschedule(), by the app or by a callback.
Unschedule(iv, cb, routine) ==
  /\ pc \in {"app", "callback"}
  /\ eventBuffer' = Invalidated(eventBuffer, iv, cb, routine)
  /\ scheduleQueue' = Invalidated(scheduleQueue, iv, cb, routine)
  /\ needDefrag' = (\/ needDefrag
                    \/ Holds(eventBuffer, iv, cb, routine)
                    \/ Holds(scheduleQueue, iv, cb, routine))
  /\ UNCHANGED <<clock, timeoutQueue, pc, running, call, calls>>

-----------------------------------------------------------------------------
(* kernel_process(): scheduler_process() between cli and sti; hlt *)

\* The queue is moved to the buffer before the pass; the buffer may be full.
MoveOverflows ==
  /\ pc = "app"
  /\ scheduleQueue # <<>>
  /\ Len(eventBuffer) + Len(scheduleQueue) > BuffSize
  /\ Panic

\* The buffer as the check of the timeouts finds it.
Sorted == IF scheduleQueue # <<>> THEN SortAscending(eventBuffer \o scheduleQueue)
                                  ELSE eventBuffer

\* The pass up to the callbacks: move and sort, check the timeouts, defrag.
\* With nothing expired it ends in the hlt.
Process ==
  /\ pc = "app"
  /\ scheduleQueue # <<>> => Len(eventBuffer) + Len(scheduleQueue) <= BuffSize
  /\ LET sorted   == Sorted
         fired    == Expired(sorted)
         routines == Keep(sorted, {i \in fired : sorted[i].isRoutine})
         expired  == Keep(sorted, fired)
         checked  == [i \in DOMAIN sorted |->
                        IF i \in fired THEN MarkUnset(sorted[i]) ELSE sorted[i]]
     IN  /\ scheduleQueue' = [k \in DOMAIN routines |-> Rearmed(routines[k])]
         /\ timeoutQueue' = timeoutQueue \o
                              [k \in DOMAIN expired |-> MarkUnset(expired[k])]
         /\ eventBuffer' = IF needDefrag \/ fired # {} THEN Defrag(checked) ELSE checked
         /\ needDefrag' = FALSE
         /\ pc' = IF timeoutQueue' # <<>> THEN "batch" ELSE "hlt"
  /\ UNCHANGED <<clock, running, call, calls>>

\* __scheduler_handle_queued_timedout, one step of its loop.
InvokeCallback ==
  /\ pc = "batch"
  /\ running <= Len(timeoutQueue)
  /\ timeoutQueue[running].callback # NULL
  /\ pc' = "callback"
  /\ UNCHANGED <<clock, eventBuffer, timeoutQueue, scheduleQueue, needDefrag,
                 running, call, calls>>

SkipNullCallback ==
  /\ pc = "batch"
  /\ running <= Len(timeoutQueue)
  /\ timeoutQueue[running].callback = NULL
  /\ running' = running + 1
  /\ UNCHANGED <<clock, eventBuffer, timeoutQueue, scheduleQueue, needDefrag, pc,
                 call, calls>>

CallbackReturns ==
  /\ pc = "callback"
  /\ running' = running + 1
  /\ pc' = "batch"
  /\ UNCHANGED <<clock, eventBuffer, timeoutQueue, scheduleQueue, needDefrag,
                 call, calls>>

\* The end of the loop, and the sti; hlt of kernel_process().
EndBatch ==
  /\ pc = "batch"
  /\ running > Len(timeoutQueue)
  /\ timeoutQueue' = <<>>
  /\ running' = 1
  /\ pc' = "hlt"
  /\ UNCHANGED <<clock, eventBuffer, scheduleQueue, needDefrag, call, calls>>

-----------------------------------------------------------------------------
Schedule == \E iv \in Interval, cb \in Callback, routine \in BOOLEAN :
              \/ \E half \in Half : ScheduleBegin(iv, cb, routine, half)
              \/ ScheduleInCallback(iv, cb, routine)

Cancel == \E iv \in Interval, cb \in Callback, routine \in BOOLEAN :
            Unschedule(iv, cb, routine)

ServeExpired == InvokeCallback \/ SkipNullCallback \/ CallbackReturns \/ EndBatch

KernelProcess == MoveOverflows \/ Process \/ ServeExpired

Interrupt == TimerInterrupt \/ OtherInterrupt

Next == Interrupt \/ Schedule \/ ScheduleEnd \/ Cancel \/ KernelProcess

Spec == Init /\ [][Next]_vars

(***************************************************************************)
(* The timer never stops and a tick raised while interrupts are disabled   *)
(* stays latched until sti (strong fairness); beyond Horizon any interrupt *)
(* stands for it in ending a hlt.  Code that is running goes on running:   *)
(* every app calls kernel_process() again (they all loop on it), and the   *)
(* callbacks return.  Yield is what MoveOverflows and Process, and no other *)
(* step, do to pc.                                                          *)
(***************************************************************************)
Yield == pc = "app" /\ pc' \in {"hlt", "batch", "panic"}

Fairness == /\ SF_vars(TimerInterrupt)
            /\ WF_vars(Interrupt)
            /\ WF_vars(ScheduleEnd)
            /\ WF_pc(Yield)
            /\ WF_vars(ServeExpired)

FairSpec == Spec /\ Fairness

-----------------------------------------------------------------------------
(* Properties *)

\* Types, and what each place the processor can be in says of the queue of
\* expired events.  That the two queues written by the pass stay within the
\* arrays shows that the overflow panics of __scheduler_handle_timeout never
\* happen, which is why Process has no disjunct for them.
TypeOK ==
  /\ clock \in Tick
  /\ Ticks(clock) <= Horizon
  /\ eventBuffer \in Seq(Event) /\ Len(eventBuffer) <= BuffSize
  /\ timeoutQueue \in Seq(Event) /\ Len(timeoutQueue) <= BuffSize
  /\ scheduleQueue \in Seq(Event) /\ Len(scheduleQueue) <= BuffSize
  /\ needDefrag \in BOOLEAN
  /\ pc \in PC
  /\ running \in 1 .. Len(timeoutQueue) + 1
  /\ pc = "callback" => running <= Len(timeoutQueue)
  /\ pc \in {"app", "schedule", "hlt"} => timeoutQueue = <<>>
  /\ calls \in 0 .. MaxCalls
  /\ pc = "schedule" => call \in Call /\ calls < MaxCalls

\* No callback is called before the interval given to schedule() has passed
\* since the call, even across a wrap of the 32-bit tick counter, unless the
\* counter wrapped while that call was copying the clock (lines 177-178).
NeverEarly == \A i \in DOMAIN timeoutQueue :
                ~timeoutQueue[i].torn => timeoutQueue[i].due <= Ticks(clock)

\* The entries of the buffer that are to fire are in the order of their
\* timeouts whenever a pass may start: the early return of the check (lines
\* 64-69) is only right if unschedule() and the callbacks keep it so.
LiveSorted == \A i, j \in DOMAIN eventBuffer :
                i < j /\ Valid(eventBuffer[i]) /\ Valid(eventBuffer[j])
                  => ~GreaterThan(eventBuffer[i].timeoutTick, eventBuffer[j].timeoutTick)

\* An entry unschedule() has marked is never forgotten in the buffer: as long
\* as one is there or on its way there, the next pass will defragment.
InvalidFlagged ==
  (\/ \E i \in DOMAIN eventBuffer : ~Valid(eventBuffer[i])
   \/ \E i \in DOMAIN scheduleQueue : ~Valid(scheduleQueue[i])) => needDefrag

LiveIds(s) == {i \in DOMAIN s : Valid(s[i])}

\* No entry is lost into two places: each call of schedule() has at most one
\* entry that is to fire in the buffer and the queue of new entries together,
\* and an event (unlike a routine) has none once its callback is due.
NoDuplicates ==
  LET all == eventBuffer \o scheduleQueue
  IN  /\ \A i, j \in LiveIds(all) : all[i].id = all[j].id => i = j
      /\ \A i \in DOMAIN timeoutQueue, j \in LiveIds(all) :
           timeoutQueue[i].id = all[j].id => timeoutQueue[i].isRoutine /\ all[j].isRoutine
      /\ \A i, j \in DOMAIN timeoutQueue : timeoutQueue[i].id = timeoutQueue[j].id => i = j

\* A pass that starts with nothing to defragment leaves no expired entry in
\* the buffer behind its early return.
PassFiresAllDue ==
  [][Process /\ ~needDefrag =>
       \A i \in DOMAIN eventBuffer' : GreaterThan(eventBuffer'[i].timeoutTick, clock)]_vars

\* An event whose timeout is within the horizon does not stay in the scheduler
\* for ever: its callback is called or it is unscheduled, unless the kernel
\* panics.
Waiting(id) ==
  \/ \E i \in DOMAIN eventBuffer :
       /\ eventBuffer[i].id = id /\ Valid(eventBuffer[i]) /\ ~eventBuffer[i].isRoutine
       /\ Ticks(eventBuffer[i].timeoutTick) <= Horizon
  \/ \E i \in DOMAIN scheduleQueue :
       /\ scheduleQueue[i].id = id /\ Valid(scheduleQueue[i]) /\ ~scheduleQueue[i].isRoutine
       /\ Ticks(scheduleQueue[i].timeoutTick) <= Horizon
  \/ \E i \in running .. Len(timeoutQueue) : timeoutQueue[i].id = id

EventuallyServed == \A id \in 1 .. MaxCalls : Waiting(id) ~> (~Waiting(id) \/ pc = "panic")
=============================================================================
