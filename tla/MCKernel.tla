------------------------------ MODULE MCKernel ------------------------------
(***************************************************************************)
(* The parts of kernel/ that have the machine beside them: the loader, the boot, the     *)
(* real-time clock, the conversions of times, and sleeps beside a routine.  They share    *)
(* no state: in a behaviour one of them is at work and the others stay as they          *)
(* started.  The instance that TLC checks has a floppy of three cylinders, three keys     *)
(* and interrupts at the borders of both controllers, a clock of two registers of two     *)
(* bits, and ticks that wrap every few seconds.                                *)
(***************************************************************************)
EXTENDS Integers, Sequences, FiniteSets

CONSTANTS
  SectorsPerTrack, NumHeads, Cylinders, KernelSectors, DiskRetries,  \* Loader
  Irq, Delay, MaxKeys,                                               \* Boot
  ClockWord, Window, PerSecond, Base, Fields, Margin, MaxQuiet, LastSecond,  \* Clock
  TextWord, Freq, Reg, Ms,                                           \* TimeText
  SleepWord, Callback, Interval, MaxCalls, Start, MaxDue, Ticks, Routine, NoRequest  \* Sleep

VARIABLES
  atWork,                                              \* the part of this behaviour
  state, si, di, bp, memory, tried, strayed,           \* Loader
  main, idt, enabled, handlers, requests, inService, port, behind, heard, toGo, early,  \* Boot
  tick, phase, now, due, updating, since, hit, cached, cacheTick, pc, got, result, began,
  quiet,                                               \* Clock
  call, out,                                           \* TimeText
  time, pending, firing, adding, app, mine, asked, done, torn, stray  \* Sleep

loaderVars == <<state, si, di, bp, memory, tried, strayed>>
bootVars == <<main, idt, enabled, handlers, requests, inService, port, behind, heard, toGo, early>>
clockVars == <<tick, phase, now, due, updating, since, hit, cached, cacheTick, pc, got,
               result, began, quiet>>
textVars == <<call, out>>
sleepVars == <<time, pending, firing, adding, app, mine, asked, done, torn, stray>>
vars == <<atWork, loaderVars, bootVars, clockVars, textVars, sleepVars>>

Loader == INSTANCE Loader
Boot == INSTANCE Boot WITH due <- toGo
Clock == INSTANCE Clock WITH Word <- ClockWord
Text == INSTANCE TimeText WITH Word <- TextWord
Sleep == INSTANCE Sleep WITH Word <- SleepWord, now <- time, pc <- app, began <- asked

ASSUME KernelAssumption ==
  /\ Loader!LoaderAssumption /\ Boot!BootAssumption /\ Clock!ClockAssumption
  /\ Text!TimeTextAssumption /\ Sleep!SleepAssumption

Init ==
  /\ atWork \in {"loader", "boot", "clock", "text", "sleep"}
  /\ Loader!LoaderInit /\ Boot!BootInit /\ Clock!Init /\ Text!Init /\ Sleep!SleepInit

Loads(action) == atWork = "loader" /\ action /\ UNCHANGED <<atWork, bootVars, clockVars, textVars, sleepVars>>
Boots(action) == atWork = "boot" /\ action /\ UNCHANGED <<atWork, loaderVars, clockVars, textVars, sleepVars>>
Reads(action) == atWork = "clock" /\ action /\ UNCHANGED <<atWork, loaderVars, bootVars, textVars, sleepVars>>
Prints(action) == atWork = "text" /\ action /\ UNCHANGED <<atWork, loaderVars, bootVars, clockVars, sleepVars>>
Sleeps(action) == atWork = "sleep" /\ action /\ UNCHANGED <<atWork, loaderVars, bootVars, clockVars, textVars>>

Next ==
  \/ Loads(Loader!LoaderNext)
  \/ Boots(Boot!BootNext)
  \/ Reads(Clock!Next)
  \/ Prints(Text!Next)
  \/ Sleeps(Sleep!SleepNext)

\* The fairness of Loader!LoaderSpec, Boot!BootSpec, Clock!FairSpec and Sleep!SleepSpec
Spec ==
  /\ Init /\ [][Next]_vars
  /\ WF_vars(Loads(Loader!LoaderNext))
  /\ WF_vars(Boots(Boot!Main)) /\ WF_vars(Boots(Boot!Rise(32)))
  /\ SF_vars(Boots(Boot!Interrupt(32))) /\ SF_vars(Boots(Boot!Interrupt(33)))
  /\ WF_vars(Reads(Clock!Tick)) /\ WF_vars(Reads(Clock!RaiseFlag)) /\ WF_vars(Reads(Clock!Update))
  /\ WF_vars(Reads(Clock!StartReading)) /\ WF_vars(Reads(Clock!ReadRegister))
  /\ WF_vars(Reads(Clock!Return))
  /\ WF_vars(Sleeps(Sleep!Time)) /\ WF_vars(Sleeps(Sleep!Pass)) /\ WF_vars(Sleeps(Sleep!Call))
  /\ WF_vars(Sleeps(Sleep!Wake))

-----------------------------------------------------------------------------
(* Properties *)

\* The kernel is started only when each of its sectors is in its place, whatever the drive
\* reported on the way (boot.asm); interrupts find their gates and end at both controllers,
\* and a key in the port is read unless its request was dropped during the boot, after
\* which no key ever is (kernel.c, isr.h).
BootInOrder ==
  /\ atWork = "loader" => Loader!LoadedInPlace /\ Loader!SectorsExist
  /\ atWork = "boot" => Boot!TypeOK /\ Boot!InterruptsEnd /\ Boot!HeardUnlessEarly

\* A conversion to ticks and back loses less than a tick, a text of a date or a time fills
\* its buffer exactly and reads back to what the clock shows (time.h), and the flag of a
\* sleep is set only while the sleep waits for it (kapp_sleep.h).
TextsAndFlagsRight ==
  /\ Clock!TypeOK
  /\ Text!LosesLessThanATick /\ Text!ReadsBack /\ Text!Terminated
  /\ Sleep!NoStrayFlag

\* time_utc() returns a time that the clock showed, at most a second old, never earlier
\* than the last one, over wraps of the ticks; and no app wakes before its time.
TimeNeverWrong == Clock!NotTorn /\ Clock!Recent /\ Clock!Monotonic /\ Sleep!NeverEarly

\* The loader ends, the boot reaches a shell or a panic, the machine goes off after the
\* shell has ended, every key that was not too early is read, every call of time_utc()
\* returns, and whoever sleeps wakes.
EveryCallReturns ==
  /\ atWork = "loader" => Loader!LoaderEnds
  /\ atWork = "boot" => Boot!BootEnds /\ Boot!ShutsDown /\ Boot!EveryKeyHeard
  /\ Clock!Returns /\ Sleep!EverySleeperWakes

-----------------------------------------------------------------------------
(* The instance *)

\* Values of the registers at which a field changes its width, and some no clock shows.
Registers ==
  [century : {0, 9, 32, 255}, year : {0, 37, 153}, month : {1, 9, 18}, day : {1, 16, 49},
   hours : {0, 35, 146}, minutes : {9, 16}, seconds : {0, 89, 255}]
Header == [id |-> 1, callback |-> "header", interval |-> 2, isRoutine |-> TRUE, due |-> 2]
=============================================================================
