-------------------------------- MODULE Input --------------------------------
(***************************************************************************)
(* Keyboard input: the interrupt handler of kernel/drivers/keyboard.h, the  *)
(* hand-over to the listeners of kernel_process_keyboard.h, the table of     *)
(* listeners and the buffers of kernel_apps/shared/kapp_input.h, and the     *)
(* apps that use them: the shell, which runs further apps as functions on   *)
(* its own stack, and kernel_hang_until_keypress().                          *)
(***************************************************************************)
EXTENDS Naturals, Sequences, FiniteSets

CONSTANTS
  DriverSize,     \* KEYBOARD_INPUT_BUFF_SIZE: capacity of the driver's buffer
  ListenersSize,  \* KEY_LISTENERS_SIZE: slots of the table of listeners
  BuffSize,       \* KAPP_INPUT_BUFF_SIZE: capacity of an app's buffer
  MaxPresses,     \* bound: key presses in a behaviour
  MaxRequests     \* bound: listeners requested in a behaviour

ASSUME SizesAssumption ==
  /\ DriverSize \in Nat \ {0} /\ ListenersSize \in Nat \ {0} /\ BuffSize \in Nat \ {0}
ASSUME BoundsAssumption == MaxPresses \in Nat /\ MaxRequests \in Nat

VARIABLES
  driver,     \* kGlobal.keyboard.inputBuffer[0 .. inputBufferHead - 1]
  listeners,  \* kGlobal.keyboard.inputListeners[0 .. inputListenersHead - 1]
  stack,      \* the apps that are running, the one that has the processor last
  pc,         \* where that app is
  presses,    \* history: keys pressed so far; a key is known by its number
  accepted,   \* history: the keys the driver had room for
  ids         \* calls of id_generate_unsafe() so far

vars == <<driver, listeners, stack, pc, presses, accepted, ids>>

Key == 1 .. MaxPresses

PC == {"request", "poll", "handle", "yield", "hlt", "exit", "off", "panic"}

\* A slot points to the input buffer of the app at that depth of the stack.
Listener == [frame : Nat, valid : BOOLEAN]

\* An app with its KappInputBuff: buff[0 .. buffHead - 1] and consumed.  got,
\* since and overrun are history: the keys get_key has returned, how many keys
\* had been handed over to others when the app was started, and whether a key
\* has come when the buffer was full.
App == [kind : {"shell", "hang"}, id : Nat, buff : Seq(Key), consumed : Nat,
        got : Seq(Key), since : Nat, overrun : BOOLEAN]

NewApp(kind) ==
  [kind |-> kind, id |-> 0, buff |-> <<>>, consumed |-> 0, got |-> <<>>,
   since |-> Len(accepted) - Len(driver), overrun |-> FALSE]

Top == stack[Len(stack)]

Init == /\ driver = <<>>
        /\ listeners = <<>>
        /\ stack = <<[kind |-> "shell", id |-> 0, buff |-> <<>>, consumed |-> 0,
                      got |-> <<>>, since |-> 0, overrun |-> FALSE]>>
        /\ pc = "request"
        /\ presses = 0
        /\ accepted = <<>>
        /\ ids = 0

-----------------------------------------------------------------------------
(* Interrupts: disabled in kernel_process(), enabled by its sti; hlt *)

Running == pc \notin {"off", "panic"}

AfterHlt == IF pc # "hlt" THEN pc ELSE IF stack = <<>> THEN "yield" ELSE "poll"

\* Mutant: the capacity check lets one key too many in.
KeyPressOneTooMany ==
  /\ Running
  /\ presses < MaxPresses
  /\ presses' = presses + 1
  /\ \/ /\ Len(driver) > DriverSize
        /\ UNCHANGED <<driver, accepted>>
     \/ /\ Len(driver) <= DriverSize
        /\ driver' = Append(driver, presses')
        /\ accepted' = Append(accepted, presses')
  /\ pc' = AfterHlt
  /\ UNCHANGED <<listeners, stack, ids>>

\* keyboard_driver_in_handler for a key that has a character.
KeyPress ==
  /\ Running
  /\ presses < MaxPresses
  /\ presses' = presses + 1
  /\ \/ /\ Len(driver) >= DriverSize
        /\ UNCHANGED <<driver, accepted>>
     \/ /\ Len(driver) < DriverSize
        /\ driver' = Append(driver, presses')
        /\ accepted' = Append(accepted, presses')
  /\ pc' = AfterHlt
  /\ UNCHANGED <<listeners, stack, ids>>

\* Any other interrupt: the timer's, a key release, a key without a character.
OtherInterrupt ==
  /\ pc = "hlt"
  /\ pc' = AfterHlt
  /\ UNCHANGED <<driver, listeners, stack, presses, accepted, ids>>

-----------------------------------------------------------------------------
(* kernel_process() and the loop of kernel_hang_until_keypress() *)

\* Mutant: the buffer starts over one key too late.
KeypressCallbackTooLate(buff, c) == IF Len(buff) > BuffSize THEN <<c>> ELSE Append(buff, c)

\* __kapp_keypress_callback
KeypressCallback(buff, c) == IF Len(buff) >= BuffSize THEN <<c>> ELSE Append(buff, c)

\* What the buffer holds after __kapp_keypress_callback has been called with each
\* of the keys ks: it starts over each time it is full.
Delivered(buff, ks) ==
  LET all  == buff \o ks
      n    == Len(all)
      kept == IF n = 0 THEN 0 ELSE ((n - 1) % BuffSize) + 1
  IN  SubSeq(all, n - kept + 1, n)

Deliver(app, ks) ==
  [app EXCEPT !.buff = Delivered(@, ks),
              !.overrun = @ \/ Len(app.buff) + Len(ks) > BuffSize]

\* Mutant: only the first valid listener gets the keys.
HearsFirst(d) ==
  \E i \in DOMAIN listeners :
    /\ listeners[i].valid /\ listeners[i].frame = d
    /\ \A j \in 1 .. i - 1 : ~listeners[j].valid

Hears(d) == \E i \in DOMAIN listeners : listeners[i].valid /\ listeners[i].frame = d

\* Mutant: inputBufferHead is not reset.
YieldKeepsKeys ==
  /\ pc = "yield"
  /\ stack' = [d \in DOMAIN stack |-> IF Hears(d) THEN Deliver(stack[d], driver)
                                                  ELSE stack[d]]
  /\ \/ pc' = "hlt"
     \/ pc' = "off" /\ stack = <<>>
  /\ UNCHANGED <<driver, listeners, presses, accepted, ids>>

\* keyboard_process(): every key to every valid listener; then sti; hlt.
Yield ==
  /\ pc = "yield"
  /\ stack' = [d \in DOMAIN stack |-> IF Hears(d) THEN Deliver(stack[d], driver)
                                                  ELSE stack[d]]
  /\ driver' = <<>>
  /\ \/ pc' = "hlt"
     \/ pc' = "off" /\ stack = <<>>  \* the shutdown scheduled when the shell is left
  /\ UNCHANGED <<listeners, presses, accepted, ids>>

-----------------------------------------------------------------------------
(* The calls of the apps *)

\* Mutant: the first slot is taken whether it is free or not.
RequestFirstSlot ==
  /\ pc = "request"
  /\ Len(listeners) < ListenersSize
  /\ ids' = ids + 1
  /\ stack' = [stack EXCEPT ![Len(stack)].id = ids']
  /\ LET new == [frame |-> Len(stack), valid |-> TRUE]
     IN  listeners' = IF listeners = <<>> THEN <<new>> ELSE [listeners EXCEPT ![1] = new]
  /\ pc' = "poll"
  /\ UNCHANGED <<driver, presses, accepted>>

\* kapp_request_input_events(): the first slot that is free, or a new one.
RequestInputEvents ==
  /\ pc = "request"
  /\ \/ /\ Len(listeners) >= ListenersSize
        /\ pc' = "panic"
        /\ UNCHANGED <<listeners, stack, ids>>
     \/ /\ Len(listeners) < ListenersSize
        /\ ids' = ids + 1
        /\ stack' = [stack EXCEPT ![Len(stack)].id = ids']
        /\ LET new  == [frame |-> Len(stack), valid |-> TRUE]
               free == {i \in DOMAIN listeners : ~listeners[i].valid}
           IN  listeners' = IF free = {} THEN Append(listeners, new)
                            ELSE [i \in DOMAIN listeners |->
                                    IF i \in free /\ \A j \in free : i <= j
                                    THEN new ELSE listeners[i]]
        /\ \/ pc' = "poll"
           \/ pc' = "exit" /\ Top.kind = "shell"  \* no memory for its line
  /\ UNCHANGED <<driver, presses, accepted>>

\* kapp_input_get_key()
GetNoKey ==
  /\ pc = "poll"
  /\ Top.consumed >= Len(Top.buff)
  /\ stack' = [stack EXCEPT ![Len(stack)].consumed = 0, ![Len(stack)].buff = <<>>]
  /\ pc' = "yield"
  /\ UNCHANGED <<driver, listeners, presses, accepted, ids>>

GetKey ==
  /\ pc = "poll"
  /\ Top.consumed < Len(Top.buff)
  /\ stack' = [stack EXCEPT ![Len(stack)].consumed = @ + 1,
                            ![Len(stack)].got = Append(@, Top.buff[Top.consumed + 1])]
  /\ pc' = IF Top.kind = "hang" THEN "exit" ELSE "handle"
  /\ UNCHANGED <<driver, listeners, presses, accepted, ids>>

\* The shell edits its line and yields, or runs a command that does not ask for
\* input and goes on with the next key.
HandleKey ==
  /\ pc = "handle"
  /\ pc' \in {"yield", "poll"}
  /\ UNCHANGED <<driver, listeners, stack, presses, accepted, ids>>

\* The command is another shell, or one that waits for a key.
RunApp(kind) ==
  /\ pc = "handle"
  /\ ids < MaxRequests
  /\ stack' = Append(stack, NewApp(kind))
  /\ pc' = "request"
  /\ UNCHANGED <<driver, listeners, presses, accepted, ids>>

\* The command "quit", or no memory for another character.
Quit ==
  /\ pc = "handle"
  /\ pc' = "exit"
  /\ UNCHANGED <<driver, listeners, stack, presses, accepted, ids>>

\* Mutant: the first valid slot is taken for the app's own.
RemoveFirstValid ==
  /\ pc = "exit"
  /\ listeners' = [i \in DOMAIN listeners |->
                     IF \A j \in 1 .. i - 1 : ~listeners[j].valid
                     THEN [listeners[i] EXCEPT !.valid = FALSE] ELSE listeners[i]]
  /\ stack' = SubSeq(stack, 1, Len(stack) - 1)
  /\ pc' = IF Len(stack) = 1 THEN "yield" ELSE "poll"
  /\ UNCHANGED <<driver, presses, accepted, ids>>

\* kapp_remove_input_events() and the return of the app.  A slot that is not valid
\* points into a stack frame that is gone, and may hold any id.
RemoveInputEvents ==
  /\ pc = "exit"
  /\ \E stale \in SUBSET {i \in DOMAIN listeners : ~listeners[i].valid} :
       LET same == {i \in DOMAIN listeners :
                      \/ i \in stale
                      \/ listeners[i].valid /\ stack[listeners[i].frame].id = Top.id}
       IN  listeners' = [i \in DOMAIN listeners |->
                           IF i \in same /\ \A j \in same : i <= j
                           THEN [listeners[i] EXCEPT !.valid = FALSE] ELSE listeners[i]]
  /\ stack' = SubSeq(stack, 1, Len(stack) - 1)
  /\ \/ pc' = IF Len(stack) = 1 THEN "yield" ELSE "poll"
     \/ pc' = "off" /\ Top.kind = "hang"  \* kernel_shutdown()
     \/ pc' = "panic" /\ Top.kind = "shell" /\ Len(stack) = 1  \* kmain: it failed
  /\ UNCHANGED <<driver, presses, accepted, ids>>

-----------------------------------------------------------------------------
Interrupt == KeyPress \/ OtherInterrupt

Run == \/ Yield
       \/ RequestInputEvents
       \/ GetNoKey
       \/ GetKey
       \/ HandleKey
       \/ \E kind \in {"shell", "hang"} : RunApp(kind)
       \/ Quit
       \/ RemoveInputEvents

Next == Interrupt \/ Run

Spec == Init /\ [][Next]_vars

\* The code of an app goes on; the timer ends every hlt.
FairSpec == Spec /\ WF_vars(Run) /\ WF_vars(OtherInterrupt)

-----------------------------------------------------------------------------
(* Properties *)

TypeOK ==
  /\ driver \in Seq(Key) /\ Len(driver) <= DriverSize
  /\ listeners \in Seq(Listener) /\ Len(listeners) <= ListenersSize
  /\ stack \in Seq(App)
  /\ \A d \in DOMAIN stack : Len(stack[d].buff) <= BuffSize /\ stack[d].consumed <= BuffSize
  /\ pc \in PC
  /\ pc \in {"request", "poll", "handle", "exit"} => stack # <<>>
  /\ presses \in 0 .. MaxPresses
  /\ accepted \in Seq(Key)
  /\ ids \in Nat

\* The apps that have asked for input: all on the stack but one that is about to.
Listening == IF pc = "request" THEN Len(stack) - 1 ELSE Len(stack)

\* No key is ever written through a listener into the frame of an app that has
\* returned, and no app that listens has lost its slot: the removal by id finds
\* the app's own slot although the dead frames of free slots may hold any id.
SlotsAreLive ==
  pc \notin {"off", "panic"} =>
    /\ \A i \in DOMAIN listeners : listeners[i].valid => listeners[i].frame \in 1 .. Listening
    /\ \A d \in 1 .. Listening : Hears(d)
    /\ \A i, j \in DOMAIN listeners :
         listeners[i].valid /\ listeners[j].valid /\ listeners[i].frame = listeners[j].frame
           => i = j

Unread(app) == SubSeq(app.buff, app.consumed + 1, Len(app.buff))

Increasing(s) == \A i, j \in DOMAIN s : i < j => s[i] < s[j]

\* Whatever was lost, an app never gets a key twice or after a later one.
InOrder == \A d \in DOMAIN stack :
             Increasing(stack[d].got \o Unread(stack[d]) \o driver)

\* An app misses no key, however the interrupts, the nested apps and the reuse of
\* slots fall, unless the driver's or its own buffer was full when it came.
NothingMissed ==
  pc \notin {"off", "panic"} =>
    \A d \in 1 .. Listening :
      ~stack[d].overrun =>
         stack[d].got \o Unread(stack[d]) \o driver =
           SubSeq(accepted, stack[d].since + 1, Len(accepted))

\* A listener is only ever made or dropped for the app that has the processor.
OwnSlotOnly ==
  [][\A i \in DOMAIN listeners :
       listeners'[i] # listeners[i] =>
         \/ pc = "request" /\ listeners'[i].frame = Len(stack) /\ ~listeners[i].valid
         \/ pc = "exit" /\ listeners[i].valid /\ listeners[i].frame = Len(stack)]_vars

\* A key does not stay in the driver's buffer, nor unread in the buffer of the app
\* that has the processor.
Pending(k) ==
  \/ \E i \in DOMAIN driver : driver[i] = k
  \/ stack # <<>> /\ \E i \in DOMAIN Unread(Top) : Unread(Top)[i] = k

EveryKeyHandled == \A k \in Key : Pending(k) ~> (~Pending(k) \/ ~Running)
=============================================================================
