-------------------------------- MODULE Sleep --------------------------------
(***************************************************************************)
(* shared/kapp_sleep.h: an app that sleeps runs the kernel's loop until the       *)
(* scheduler's callback sets a flag on the app's stack.  The scheduler is what       *)
(* TimerService says it is; Scheduler refines that.                         *)
(***************************************************************************)
EXTENDS TimerService

CONSTANTS
  Ticks,   \* how long apps sleep
  Routine  \* a routine of the kernel that is always pending

SleepAssumption ==
  /\ Word \in Nat \ {0} /\ Start \in Nat /\ MaxCalls \in Nat /\ MaxDue \in Nat
  /\ Interval \subseteq Nat /\ Ticks \subseteq Interval \cup {0} /\ NoRequest \notin Nat
  /\ Routine \in Request /\ Routine.isRoutine /\ Routine.callback # "wake"

VARIABLES
  pc,      \* where the app is
  mine,    \* the request behind the sleep, and the ticks it was asked for
  began,   \* history: when the app called
  done,    \* the flag on the stack of kapp_sleep_ticks
  torn,    \* history: the tick counter wrapped while the sleep was scheduled
  stray    \* history: the flag was set when the function had returned

sleepVars == <<vars, pc, mine, began, done, torn, stray>>

SleepInit ==
  /\ now = Start /\ pending = {Routine} /\ firing = <<>> /\ adding = NoRequest
  /\ pc = "awake" /\ mine = Routine /\ began = Start /\ done = FALSE
  /\ torn = FALSE /\ stray = FALSE

\* kapp_sleep_ticks(0) is a yield, and changes nothing here.
SleepTicks ==
  /\ pc = "awake" /\ BeginAdd
  /\ pc' = "scheduling" /\ began' = now /\ done' = FALSE
  /\ UNCHANGED <<mine, torn, stray>>

\* Mutant: the event is a routine.
ScheduleAgain ==
  \E r \in Request :
    /\ pc = "scheduling" /\ r.callback = "wake" /\ r.isRoutine /\ r.interval \in Ticks \ {0}
    /\ r.due <= MaxDue - r.interval /\ EndAdd(r)
    /\ pc' = "asleep" /\ mine' = r /\ torn' = (began \div Word # now \div Word)
    /\ UNCHANGED <<began, done, stray>>
\* schedule(ticks, __kapp_sleep_callback, &done, false) returns.
Schedule ==
  \E r \in Request :
    /\ pc = "scheduling" /\ r.callback = "wake" /\ ~r.isRoutine /\ r.interval \in Ticks \ {0}
    /\ EndAdd(r)
    /\ pc' = "asleep" /\ mine' = r /\ torn' = (began \div Word # now \div Word)
    /\ UNCHANGED <<began, done, stray>>

\* schedule() panics when it has no room.
Panic ==
  /\ pc = "scheduling" /\ Abort /\ pc' = "panic"
  /\ UNCHANGED <<mine, began, done, torn, stray>>

\* The pass of the scheduler in kernel_process(), called by the sleep or by the app
Pass ==
  /\ pc \in {"asleep", "awake"}
  /\ \E S \in SUBSET pending :
       \E f \in [1 .. Cardinality(S) -> {r.id : r \in S}] : firing' = f /\ Expire(S)
  /\ UNCHANGED <<pc, mine, began, done, torn, stray>>

\* Mutant: the callback sets a copy of the flag.
CallElsewhere == Served /\ UNCHANGED <<pc, mine, began, done, torn, stray>>
\* A callback: __kapp_sleep_callback, or that of the routine
Call ==
  /\ Served
  /\ IF Head(firing) = mine.id /\ mine # Routine
       THEN /\ done' = (pc = "asleep" \/ done) /\ stray' = (stray \/ pc # "asleep")
       ELSE UNCHANGED <<done, stray>>
  /\ UNCHANGED <<pc, mine, began, torn>>

\* The loop of kapp_sleep_ticks ends.
Wake ==
  /\ pc = "asleep" /\ firing = <<>> /\ done /\ pc' = "awake"
  /\ UNCHANGED <<vars, mine, began, done, torn, stray>>

Time == now < MaxDue /\ Tick /\ UNCHANGED <<pc, mine, began, done, torn, stray>>

SleepNext == SleepTicks \/ Schedule \/ Panic \/ Pass \/ Call \/ Wake \/ Time

\* The timer goes on and so does kernel_process().
SleepSpec ==
  /\ SleepInit /\ [][SleepNext]_sleepVars
  /\ WF_sleepVars(Time) /\ WF_sleepVars(Pass) /\ WF_sleepVars(Call) /\ WF_sleepVars(Wake)

-----------------------------------------------------------------------------
(* Properties *)

\* A sleep is never shorter than it was asked for, when the tick counter does not wrap
\* while it is scheduled.
NeverEarly ==
  [][pc = "asleep" /\ pc' = "awake" /\ ~torn => now >= began + mine.interval]_sleepVars

\* The flag is on the stack of a function that returns: nothing sets it afterwards, and
\* no request that would is left.
NoStrayFlag == ~stray /\ (pc = "awake" => \A r \in pending : r.callback # "wake")

\* Whoever sleeps wakes.
EverySleeperWakes == pc = "asleep" ~> pc = "awake"
=============================================================================
