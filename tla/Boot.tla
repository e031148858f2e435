-------------------------------- MODULE Boot --------------------------------
(***************************************************************************)
(* kernel_main() from its first line to the end of the machine, with the interrupts  *)
(* of cpu/isr.h around it: the table of their handlers, the controllers that have   *)
(* to hear of the end of each, and the keyboard's port of one byte.  Memory that no  *)
(* initializer fills is zero: there are no handlers at first.                   *)
(***************************************************************************)
EXTENDS Integers, FiniteSetsExt

CONSTANTS
  Irq,       \* the interrupts that devices raise, by their number in the table
  Delay,     \* the ticks from the end of the shell to the shutdown
  MaxKeys    \* bound: the keys pressed in a behaviour

IRQ0 == 32
IRQ1 == 33
IRQ2 == 34   \* where the slave's interrupts come in at the master
IRQ8 == 40   \* the slave's first input

BootAssumption ==
  /\ {IRQ0, IRQ1} \subseteq Irq /\ Irq \subseteq (32 .. 47) \ {IRQ2}
  /\ Delay \in Nat /\ MaxKeys \in Nat

VARIABLES
  main,      \* where kernel_main is
  idt,       \* the table of gates is loaded and the controllers are set up
  enabled,   \* the interrupt flag
  handlers,  \* interrupt_handlers
  requests,  \* the lines that rose, as the controllers keep them
  inService, \* the interrupts of whose end the controllers do not know
  port,      \* the keyboard's output port holds a byte
  behind,    \* the bytes that wait in the keyboard
  heard,     \* the keys the driver read
  due,       \* the ticks until the shutdown, or NotDue
  early      \* history: the keyboard's request was dropped

bootVars == <<main, idt, enabled, handlers, requests, inService, port, behind, heard, due, early>>
devices == <<requests, inService, port, behind, heard, early>>

NotDue == Delay + 1
Stopped == main \in {"off", "panic"}
Pressed == heard + behind + (IF port THEN 1 ELSE 0)

\* switch_to_pm has disabled interrupts.
BootInit ==
  /\ main = "start" /\ due = NotDue
  /\ idt = FALSE /\ enabled = FALSE /\ handlers = [i \in Irq |-> "none"]
  /\ requests = {} /\ inService = {} /\ port = FALSE /\ behind = 0 /\ heard = 0 /\ early = FALSE

-----------------------------------------------------------------------------
(* Devices *)

Rise(i) ==
  /\ i # IRQ1 /\ i \notin requests /\ ~Stopped /\ requests' = requests \cup {i}
  /\ UNCHANGED <<main, idt, enabled, handlers, inService, port, behind, heard, due, early>>

\* A key goes to the port and the line rises, or it waits in the keyboard.
PressKey ==
  /\ Pressed < MaxKeys /\ ~Stopped
  /\ \/ port /\ behind' = behind + 1 /\ UNCHANGED <<port, requests>>
     \/ ~port /\ port' = TRUE /\ requests' = requests \cup {IRQ1} /\ UNCHANGED behind
  /\ UNCHANGED <<main, idt, enabled, handlers, inService, heard, due, early>>

\* What is in service holds back what has no higher priority.
Level(i) == IF i >= IRQ8 THEN IRQ2 ELSE i
Deliverable(i) == i \in requests /\ \A j \in inService : Level(i) < Level(j)

-----------------------------------------------------------------------------
(* Interrupts *)

Highest(S) == IF S = {} THEN {} ELSE {Min(S)}

\* Mutant: the slave's first input is taken for one of the master's.
EndedAtMaster(i, S) ==
  Highest({j \in S : j < IRQ8}) \cup (IF i > IRQ8 THEN Highest({j \in S : j >= IRQ8}) ELSE {})
\* The ends that irq_handler tells the controllers, of what is in service
Ended(i, S) ==
  Highest({j \in S : j < IRQ8}) \cup (IF i >= IRQ8 THEN Highest({j \in S : j >= IRQ8}) ELSE {})

\* keyboard_driver_in_handler reads the port, and the next byte raises the line again.
ReadKey ==
  /\ heard' = heard + 1
  /\ \/ behind = 0 /\ port' = FALSE /\ requests' = requests \ {IRQ1} /\ UNCHANGED behind
     \/ behind > 0 /\ behind' = behind - 1 /\ UNCHANGED <<port, requests>>

\* kernel_tick_update
TickUpdate ==
  /\ due' = IF due \in 1 .. Delay THEN due - 1 ELSE due
  /\ requests' = requests \ {IRQ0}

\* irq_handler and what it calls, with interrupts disabled until it returns
Interrupt(i) ==
  /\ enabled /\ Deliverable(i)
  /\ inService' = LET S == inService \cup {i, Level(i)} IN S \ Ended(i, S)
  /\ \/ handlers[i] = "none" /\ requests' = requests \ {i} /\ UNCHANGED <<port, behind, heard, due>>
     \/ handlers[i] = "keyboard" /\ ReadKey /\ UNCHANGED due
     \/ handlers[i] = "timer" /\ TickUpdate /\ UNCHANGED <<port, behind, heard>>
  /\ early' = (early \/ (i = IRQ1 /\ handlers[i] = "none"))
  /\ main' = IF main = "halted" THEN "loop" ELSE main
  /\ UNCHANGED <<idt, enabled, handlers>>

-----------------------------------------------------------------------------
(* kernel_main *)

Panic == main' = "panic" /\ enabled' = FALSE /\ UNCHANGED <<idt, handlers, due, devices>>

\* The screen, the page allocator, the heap and its debug allocator
Prepare ==
  /\ main = "start"
  /\ \/ Panic
     \/ main' = "prepared" /\ UNCHANGED <<idt, enabled, handlers, due, devices>>

\* isr_install: the controllers start anew and forget what was requested.
Install ==
  /\ main = "prepared" /\ main' = "installed" /\ idt' = TRUE
  /\ requests' = {} /\ inService' = {} /\ early' = (early \/ IRQ1 \in requests)
  /\ UNCHANGED <<enabled, handlers, port, behind, heard, due>>

\* interrupts_enable
Enable ==
  /\ main = "installed" /\ main' = "enabled" /\ enabled' = TRUE
  /\ UNCHANGED <<idt, handlers, due, devices>>

\* timer_init
StartTimer ==
  /\ main = "enabled" /\ main' = "ticking" /\ handlers' = [handlers EXCEPT ![IRQ0] = "timer"]
  /\ UNCHANGED <<idt, enabled, due, devices>>

\* The two routines are scheduled and kernel_kappreg_init makes the registry.
CreateRegistry ==
  /\ main = "ticking"
  /\ \/ Panic
     \/ main' = "registered" /\ UNCHANGED <<idt, enabled, handlers, due, devices>>

RegisterKeyboard ==
  /\ main = "registered" /\ main' = "ready" /\ handlers' = [handlers EXCEPT ![IRQ1] = "keyboard"]
  /\ UNCHANGED <<idt, enabled, due, devices>>

\* The shell is fetched and called, and runs kernel_process().
CallShell ==
  /\ main = "ready"
  /\ \/ Panic
     \/ main' = "loop" /\ UNCHANGED <<idt, enabled, handlers, due, devices>>

\* kernel_process(): no interrupt comes from its cli to its hlt. The callback of the
\* shutdown's event ends the machine.
Process ==
  /\ main = "loop"
  /\ \/ due = 0 /\ main' = "off" /\ enabled' = FALSE
     \/ due # 0 /\ main' = "halted" /\ UNCHANGED enabled
  /\ UNCHANGED <<idt, handlers, due, devices>>

\* The shell returns; an error is a panic, else the shutdown is scheduled.
LeaveShell ==
  /\ main = "loop" /\ due = NotDue
  /\ \/ Panic
     \/ due' = Delay /\ UNCHANGED <<main, idt, enabled, handlers, devices>>

Main == Prepare \/ Install \/ Enable \/ StartTimer \/ CreateRegistry \/ RegisterKeyboard
          \/ CallShell \/ Process

BootNext == Main \/ LeaveShell \/ PressKey \/ \E i \in Irq : Rise(i) \/ Interrupt(i)

\* kernel_main goes on, the timer's line rises, and a request is delivered when
\* interrupts are let through again and again.
BootSpec ==
  /\ BootInit /\ [][BootNext]_bootVars
  /\ WF_bootVars(Main) /\ WF_bootVars(Rise(IRQ0))
  /\ SF_bootVars(Interrupt(IRQ0)) /\ SF_bootVars(Interrupt(IRQ1))

-----------------------------------------------------------------------------
(* Properties *)

TypeOK ==
  /\ main \in {"start", "prepared", "installed", "enabled", "ticking", "registered", "ready",
               "loop", "halted", "off", "panic"}
  /\ requests \subseteq Irq /\ handlers \in [Irq -> {"none", "timer", "keyboard"}]
  /\ due \in 0 .. NotDue /\ Pressed \in 0 .. MaxKeys

\* Interrupts are enabled only with gates to go through, and after each both controllers
\* know that it has ended: none holds back another one (isr.h).
InterruptsEnd == (enabled => idt) /\ inService = {}

\* A key in the port has a request that is still there, unless its request was dropped
\* before the keyboard's handler was registered: then nothing reads the port ever again
\* (kernel.c:84-110).
HeardUnlessEarly == early <=> (port /\ IRQ1 \notin requests)

\* The boot ends in a shell or in a panic, and whoever leaves the shell sees the machine
\* go off, since the timer wakes every hlt.
BootEnds == main = "start" ~> main \in {"loop", "panic"}
ShutsDown == due = Delay ~> main = "off"

\* Every key that is pressed is read while the machine runs, unless one was too early.
EveryKeyHeard == \A n \in 1 .. MaxKeys : Pressed >= n ~> heard >= n \/ early \/ Stopped
=============================================================================
