----------------------------- MODULE KernelProofs -----------------------------
(***************************************************************************)
(* Proofs about the parts of MCKernel, for every floppy, set of interrupts, clock      *)
(* and set of sleeps, and about those of MCShell, for every size of the screen, part of    *)
(* it, text and command.  Each part has an invariant of its own, which the steps of the    *)
(* other parts leave alone.                                                 *)
(***************************************************************************)
EXTENDS MCKernel, MCShell, RankingProofs, SequenceTheorems, FiniteSetTheorems

-----------------------------------------------------------------------------
(* Numbers *)

LEMMA Division ==
  ASSUME NEW a \in Nat, NEW b \in Nat \ {0}
  PROVE  a \div b \in Nat /\ a % b \in 0 .. b - 1 /\ a = b * (a \div b) + (a % b)
  OBVIOUS

\* A number below a product has a quotient below the other factor.
LEMMA QuotientBelow ==
  ASSUME NEW a \in Nat, NEW b \in Nat \ {0}, NEW c \in Nat, a < b * c
  PROVE  a \div b < c
<1> DEFINE q == a \div b
<1>1. q \in Nat /\ b * q <= a
  BY Division
<1>2. CASE q >= c
  <2> HIDE DEF q
  <2>1. b * q >= b * c
    BY <1>1, <1>2
  <2>. QED BY <2>1, <1>1
<1>. QED BY <1>1, <1>2

-----------------------------------------------------------------------------
(* The loader *)

USE DEF Loader!LbaStart, Loader!LbaEnd, Loader!Paragraphs, Loader!LoadSegment

LEMMA LoaderTypes ==
  /\ SectorsPerTrack \in Nat \ {0} /\ NumHeads \in Nat \ {0} /\ Cylinders \in Nat \ {0}
  /\ KernelSectors \in Nat /\ DiskRetries \in Nat
  /\ 1 + KernelSectors <= SectorsPerTrack * NumHeads * Cylinders
  BY KernelAssumption DEF Loader!LoaderAssumption

\* The address of a block is one of the floppy's, and of no other block.
LEMMA AddressOfBlock ==
  ASSUME NEW lba \in Nat, lba < SectorsPerTrack * NumHeads * Cylinders
  PROVE  /\ Loader!OnFloppy(Loader!LbaToChs(lba))
         /\ Loader!BlockAt(Loader!LbaToChs(lba)) = lba
<1> DEFINE t == lba \div SectorsPerTrack
           s == lba % SectorsPerTrack
           h == t % NumHeads
           c == t \div NumHeads
<1>1. t \in Nat /\ s \in 0 .. SectorsPerTrack - 1 /\ lba = SectorsPerTrack * t + s
  BY LoaderTypes, Division
<1>2. h \in 0 .. NumHeads - 1 /\ c \in Nat /\ t = NumHeads * c + h
  BY <1>1, LoaderTypes, Division
<1>3. NumHeads * Cylinders \in Nat
      /\ SectorsPerTrack * NumHeads * Cylinders = SectorsPerTrack * (NumHeads * Cylinders)
  BY LoaderTypes
<1>4. t < NumHeads * Cylinders
  BY <1>3, LoaderTypes, QuotientBelow
<1>5. c < Cylinders
  BY <1>1, <1>4, LoaderTypes, QuotientBelow
<1>6. Loader!LbaToChs(lba) = [s |-> s + 1, h |-> h, c |-> c]
  BY DEF Loader!LbaToChs
<1>7. t = c * NumHeads + h /\ lba = t * SectorsPerTrack + s
  <2> HIDE DEF t, s, h, c
  <2>. QED BY <1>1, <1>2, LoaderTypes
<1> HIDE DEF t, s, h, c
<1>8. Loader!BlockAt(Loader!LbaToChs(lba)) = (c * NumHeads + h) * SectorsPerTrack + (s + 1) - 1
  BY <1>6 DEF Loader!BlockAt
<1>9. Loader!BlockAt(Loader!LbaToChs(lba)) = t * SectorsPerTrack + (s + 1) - 1
  BY <1>7, <1>8
<1>10. t * SectorsPerTrack \in Nat
  BY <1>1, LoaderTypes
<1>11. Loader!BlockAt(Loader!LbaToChs(lba)) = lba
  BY <1>1, <1>7, <1>9, <1>10
<1>12. Loader!OnFloppy(Loader!LbaToChs(lba))
  BY <1>1, <1>2, <1>5, <1>6, LoaderTypes DEF Loader!OnFloppy
<1>. QED BY <1>11, <1>12

\* The blocks before si are in their segments, di is the segment of si, and bp and
\* tried together are DISK_RETRIES.
LoaderInv ==
  /\ state \in {"check", "read", "loaded", "error"}
  /\ si \in 1 .. 1 + KernelSectors
  /\ di = 2016 + 32 * (si - 1)
  /\ memory \in [Loader!Segments -> Nat]
  /\ \A k \in 0 .. KernelSectors - 1 : k < si - 1 => memory[2016 + 32 * k] = 1 + k
  /\ tried \in 0 .. DiskRetries + 1
  /\ state = "read" => si <= KernelSectors /\ bp \in Nat /\ bp = DiskRetries - tried
  /\ state = "loaded" => si = 1 + KernelSectors
  /\ strayed = FALSE

LEMMA LoaderStarts == Init => LoaderInv
<1> SUFFICES ASSUME Init PROVE LoaderInv
  OBVIOUS
<1>1. /\ state = "check" /\ si = 1 /\ di = 2016 /\ tried = 0 /\ strayed = FALSE
      /\ memory = [g \in Loader!Segments |-> 0]
  BY DEF Init, Loader!LoaderInit
<1>2. memory \in [Loader!Segments -> Nat]
  BY <1>1
<1>. QED BY <1>1, <1>2, LoaderTypes DEF LoaderInv

\* A block that the loader asks for is on the floppy, at its own address.
LEMMA BlockIsThere ==
  ASSUME LoaderInv, state = "read"
  PROVE  Loader!OnFloppy(Loader!LbaToChs(si)) /\ Loader!BlockAt(Loader!LbaToChs(si)) = si
<1>1. si \in Nat /\ si <= KernelSectors /\ KernelSectors \in Nat
  BY LoaderTypes DEF LoaderInv
<1> DEFINE blocks == SectorsPerTrack * NumHeads * Cylinders
<1>2. blocks \in Nat /\ 1 + KernelSectors <= blocks
  BY LoaderTypes
<1>3. si < blocks
  <2> HIDE DEF blocks
  <2>. QED BY <1>1, <1>2
<1>. QED BY <1>1, <1>3, AddressOfBlock

LEMMA CheckLastKeeps == LoaderInv /\ Loader!CheckLast => LoaderInv'
  BY LoaderTypes DEF LoaderInv, Loader!CheckLast, Loader!Segments

LEMMA ReadSectorKeeps == LoaderInv /\ Loader!ReadSector => LoaderInv'
<1> SUFFICES ASSUME LoaderInv, Loader!ReadSector PROVE LoaderInv'
  OBVIOUS
<1>1. /\ state = "read" /\ state' = "check" /\ si' = si + 1 /\ di' = di + 32
      /\ tried' = tried + 1 /\ strayed' = FALSE
      /\ memory' = [memory EXCEPT ![di] = si]
  <2>1. state = "read"
    BY DEF Loader!ReadSector
  <2>2. Loader!BlockAt(Loader!LbaToChs(si)) = si
    BY <2>1, BlockIsThere
  <2>. QED BY <2>1, <2>2 DEF LoaderInv, Loader!ReadSector
<1>2. /\ si \in 1 .. KernelSectors /\ di = 2016 + 32 * (si - 1) /\ bp \in Nat
      /\ bp = DiskRetries - tried /\ tried \in 0 .. DiskRetries + 1
      /\ memory \in [Loader!Segments -> Nat]
      /\ \A k \in 0 .. KernelSectors - 1 : k < si - 1 => memory[2016 + 32 * k] = 1 + k
  BY <1>1, LoaderTypes DEF LoaderInv
<1>3. di \in Loader!Segments /\ \A k \in 0 .. KernelSectors - 1 : 2016 + 32 * k \in Loader!Segments
  <2>1. \A k \in 0 .. KernelSectors : 2016 + 32 * k \in Loader!Segments
    BY DEF Loader!Segments
  <2>2. si - 1 \in 0 .. KernelSectors
    BY <1>2, LoaderTypes
  <2>3. di \in Loader!Segments
    BY <2>1, <2>2, <1>2
  <2>4. \A k \in 0 .. KernelSectors - 1 : k \in 0 .. KernelSectors
    BY LoaderTypes
  <2>. QED BY <2>1, <2>3, <2>4
<1>4. memory' \in [Loader!Segments -> Nat]
  BY <1>1, <1>2, <1>3
<1>5. ASSUME NEW k \in 0 .. KernelSectors - 1, k < si' - 1
      PROVE  memory'[2016 + 32 * k] = 1 + k
  <2>1. CASE k = si - 1
    BY <2>1, <1>1, <1>2, <1>3, LoaderTypes
  <2>2. CASE k # si - 1
    <3>1. k < si - 1 /\ 2016 + 32 * k # di
      BY <2>2, <1>1, <1>2, <1>5, LoaderTypes
    <3>. QED BY <3>1, <1>1, <1>2, <1>3
  <2>. QED BY <2>1, <2>2
<1>6. si' \in 1 .. 1 + KernelSectors /\ di' = 2016 + 32 * (si' - 1) /\ tried' \in 0 .. DiskRetries + 1
  BY <1>1, <1>2, LoaderTypes
<1>. QED BY <1>1, <1>4, <1>5, <1>6 DEF LoaderInv

LEMMA DiskErrorKeeps == LoaderInv /\ Loader!DiskError => LoaderInv'
<1> SUFFICES ASSUME LoaderInv, Loader!DiskError PROVE LoaderInv'
  OBVIOUS
<1>1. strayed' = FALSE
  <2>1. state = "read"
    BY DEF Loader!DiskError
  <2>2. Loader!OnFloppy(Loader!LbaToChs(si))
    BY <2>1, BlockIsThere
  <2>3. strayed = FALSE
    BY DEF LoaderInv
  <2>4. strayed' = (strayed \/ ~Loader!OnFloppy(Loader!LbaToChs(si)))
    BY DEF Loader!DiskError
  <2>. QED BY <2>2, <2>3, <2>4
<1>. QED BY <1>1, LoaderTypes DEF LoaderInv, Loader!DiskError, Loader!Segments

LEMMA LoaderKeeps == LoaderInv /\ [Loader!LoaderNext]_loaderVars => LoaderInv'
<1> SUFFICES ASSUME LoaderInv, [Loader!LoaderNext]_loaderVars PROVE LoaderInv'
  OBVIOUS
<1>1. CASE UNCHANGED loaderVars
  BY <1>1 DEF LoaderInv, loaderVars, Loader!Segments
<1>. QED BY <1>1, CheckLastKeeps, ReadSectorKeeps, DiskErrorKeeps DEF Loader!LoaderNext

LEMMA LoaderHolds == LoaderInv => Loader!LoadedInPlace /\ Loader!SectorsExist
<1> SUFFICES ASSUME LoaderInv PROVE Loader!LoadedInPlace /\ Loader!SectorsExist
  OBVIOUS
<1>1. state = "read" => Loader!BlockAt(Loader!LbaToChs(si)) = si
  BY BlockIsThere
<1>. QED BY <1>1, LoaderTypes DEF LoaderInv, Loader!LoadedInPlace, Loader!SectorsExist

-----------------------------------------------------------------------------
(* The boot *)

HIDE DEF Loader!LbaStart, Loader!LbaEnd, Loader!Paragraphs, Loader!LoadSegment

LEMMA BootTypes ==
  /\ 32 \in Irq /\ 33 \in Irq /\ Irq \subseteq (32 .. 47) \ {34}
  /\ Delay \in Nat /\ MaxKeys \in Nat
  BY KernelAssumption DEF Boot!BootAssumption, Boot!IRQ0, Boot!IRQ1, Boot!IRQ2

\* The keyboard's line is up only with a byte in the port, each handler is registered for its
\* own interrupt, and main is behind isr_install when there are gates.
BootInv ==
  /\ Boot!TypeOK /\ Boot!InterruptsEnd /\ Boot!HeardUnlessEarly
  /\ heard \in Nat /\ behind \in Nat /\ port \in BOOLEAN /\ early \in BOOLEAN
  /\ 33 \in requests => port
  /\ \A i \in Irq : (handlers[i] = "timer" => i = 32) /\ (handlers[i] = "keyboard" => i = 33)
  /\ main \notin {"start", "prepared", "panic"} => idt

LEMMA BootStarts == Init => BootInv
<1> SUFFICES ASSUME Init PROVE BootInv
  OBVIOUS
<1>1. Boot!BootInit
  BY DEF Init
<1>2. Boot!TypeOK
  BY <1>1, BootTypes DEF Boot!BootInit, Boot!TypeOK, Boot!Pressed, Boot!NotDue
<1>3. Boot!InterruptsEnd
  BY <1>1 DEF Boot!BootInit, Boot!InterruptsEnd
<1>4. Boot!HeardUnlessEarly
  BY <1>1 DEF Boot!BootInit, Boot!HeardUnlessEarly
<1>. QED BY <1>1, <1>2, <1>3, <1>4, BootTypes DEF Boot!BootInit, BootInv

\* The controllers hear of the end of what was delivered when nothing else is in service.
LEMMA EndsAll ==
  ASSUME NEW i \in Irq
  PROVE  LET S == {} \cup {i, Boot!Level(i)} IN S \ Boot!Ended(i, S) = {}
<1> DEFINE S == {} \cup {i, Boot!Level(i)}
<1>1. i \in (32 .. 47) \ {34}
  BY BootTypes
<1>2. \A x \in Int : Boot!Highest({x}) = {x}
  <2> TAKE x \in Int
  <2>1. Boot!Min({x}) = x
    BY DEF Boot!Min
  <2>. QED BY <2>1 DEF Boot!Highest
<1>3. CASE i < 40
  <2>1. S = {i} /\ {j \in S : j < 40} = {i}
    BY <1>1, <1>3 DEF Boot!Level, Boot!IRQ8
  <2>2. Boot!Ended(i, S) = {i}
    BY <1>1, <1>2, <1>3, <2>1 DEF Boot!Ended, Boot!IRQ8
  <2>. QED BY <2>1, <2>2
<1>4. CASE i >= 40
  <2>1. S = {i, 34}
    BY <1>1, <1>4 DEF Boot!Level, Boot!IRQ8, Boot!IRQ2
  <2>2. {j \in S : j < 40} = {34} /\ {j \in S : j >= 40} = {i}
    BY <1>1, <1>4, <2>1
  <2>3. Boot!Ended(i, S) = {34} \cup {i}
    BY <1>1, <1>2, <1>4, <2>2 DEF Boot!Ended, Boot!IRQ8
  <2>. QED BY <2>1, <2>3
<1>. QED BY <1>1, <1>3, <1>4

LEMMA RiseKeeps == ASSUME NEW i \in Irq PROVE BootInv /\ Boot!Rise(i) => BootInv'
  BY BootTypes
  DEF BootInv, Boot!Rise, Boot!TypeOK, Boot!InterruptsEnd, Boot!HeardUnlessEarly, Boot!Pressed,
      Boot!NotDue, Boot!IRQ1

LEMMA PressKeyKeeps == BootInv /\ Boot!PressKey => BootInv'
<1> SUFFICES ASSUME BootInv, Boot!PressKey PROVE BootInv'
  OBVIOUS
<1>1. UNCHANGED <<main, idt, enabled, handlers, inService, heard, toGo, early>>
  BY DEF Boot!PressKey
<1>2. /\ Boot!TypeOK' /\ port' \in BOOLEAN /\ behind' \in Nat /\ (33 \in requests' => port')
      /\ Boot!HeardUnlessEarly'
  <2>1. CASE port /\ behind' = behind + 1 /\ UNCHANGED <<port, requests>>
    BY <1>1, <2>1, BootTypes
    DEF BootInv, Boot!PressKey, Boot!TypeOK, Boot!Pressed, Boot!NotDue, Boot!HeardUnlessEarly
  <2>2. CASE ~port /\ port' = TRUE /\ requests' = requests \cup {33} /\ UNCHANGED behind
    <3>1. ~early
      BY <2>2 DEF BootInv, Boot!HeardUnlessEarly
    <3>2. Boot!HeardUnlessEarly'
      BY <1>1, <2>2, <3>1 DEF Boot!HeardUnlessEarly, Boot!IRQ1
    <3>. QED
      BY <1>1, <2>2, <3>2, BootTypes
      DEF BootInv, Boot!PressKey, Boot!TypeOK, Boot!Pressed, Boot!NotDue
  <2>. QED BY <2>1, <2>2 DEF Boot!PressKey, Boot!IRQ1
<1>. QED BY <1>1, <1>2 DEF BootInv, Boot!InterruptsEnd

LEMMA InterruptKeeps == ASSUME NEW i \in Irq PROVE BootInv /\ Boot!Interrupt(i) => BootInv'
<1> SUFFICES ASSUME BootInv, Boot!Interrupt(i) PROVE BootInv'
  OBVIOUS
<1>1. inService = {} /\ inService' = {}
  <2>1. inService = {}
    BY DEF BootInv, Boot!InterruptsEnd
  <2>2. inService' = LET S == inService \cup {i, Boot!Level(i)} IN S \ Boot!Ended(i, S)
    BY DEF Boot!Interrupt
  <2>. QED BY <2>1, <2>2, EndsAll
<1>2. enabled /\ idt /\ i \in requests
  BY DEF Boot!Interrupt, Boot!Deliverable, BootInv, Boot!InterruptsEnd
<1>3. Boot!InterruptsEnd'
  BY <1>1, <1>2 DEF Boot!Interrupt, Boot!InterruptsEnd
<1>4. UNCHANGED <<idt, handlers>> /\ main' \in {main, "loop"} /\ (main' # main => main = "halted")
  BY DEF Boot!Interrupt
<1>5. /\ requests' \in SUBSET Irq /\ toGo' \in 0 .. Boot!NotDue /\ Boot!Pressed' \in 0 .. MaxKeys
      /\ heard' \in Nat /\ behind' \in Nat /\ port' \in BOOLEAN
      /\ 33 \in requests' => port'
      /\ early' \in BOOLEAN /\ Boot!HeardUnlessEarly'
  <2>1. CASE handlers[i] = "none" /\ i # 33
    <3>1. /\ requests' = requests \ {i} /\ UNCHANGED <<port, behind, heard, toGo>>
          /\ early' = early
      BY <2>1 DEF Boot!Interrupt, BootInv, Boot!IRQ1
    <3>. QED
      BY <2>1, <3>1 DEF BootInv, Boot!TypeOK, Boot!HeardUnlessEarly, Boot!Pressed, Boot!IRQ1
  <2>2. CASE handlers[i] = "none" /\ i = 33
    <3>1. /\ requests' = requests \ {33} /\ UNCHANGED <<port, behind, heard, toGo>>
          /\ early' = TRUE /\ port
      BY <1>2, <2>2 DEF Boot!Interrupt, BootInv, Boot!IRQ1
    <3>. QED
      BY <2>2, <3>1 DEF BootInv, Boot!TypeOK, Boot!HeardUnlessEarly, Boot!Pressed, Boot!IRQ1
  <2>3. CASE handlers[i] = "keyboard"
    <3>1. i = 33 /\ port /\ early = FALSE /\ early' = FALSE /\ Boot!ReadKey /\ toGo' = toGo
      <4>1. i = 33 /\ port
        BY <1>2, <2>3 DEF BootInv
      <4>2. early = FALSE
        BY <1>2, <4>1 DEF BootInv, Boot!HeardUnlessEarly, Boot!IRQ1
      <4>. QED BY <2>3, <4>1, <4>2 DEF Boot!Interrupt
    <3>2. /\ requests' \in SUBSET Irq /\ Boot!Pressed' \in 0 .. MaxKeys
          /\ heard' \in Nat /\ behind' \in Nat /\ port' \in BOOLEAN /\ (33 \in requests' => port')
      <4>1. /\ heard' = heard + 1 /\ heard \in Nat /\ behind \in Nat /\ MaxKeys \in Nat
            /\ heard + behind + 1 <= MaxKeys /\ requests \in SUBSET Irq
        BY <3>1, BootTypes DEF BootInv, Boot!ReadKey, Boot!TypeOK, Boot!Pressed
      <4>2. CASE behind = 0 /\ port' = FALSE /\ requests' = requests \ {33} /\ behind' = behind
        <5>0. ~port'
          BY <4>2
        <5>1. Boot!Pressed' = heard' + behind' + 0
          BY <5>0 DEF Boot!Pressed
        <5>2. requests' \in SUBSET Irq /\ 33 \notin requests'
          BY <4>1, <4>2
        <5>3. Boot!Pressed' \in 0 .. MaxKeys /\ heard' \in Nat /\ behind' \in Nat
          BY <4>1, <4>2, <5>1
        <5>. QED BY <4>2, <5>2, <5>3
      <4>3. CASE behind > 0 /\ behind' = behind - 1 /\ port' = port /\ requests' = requests
        BY <3>1, <4>1, <4>3 DEF Boot!Pressed
      <4>4. \/ behind = 0 /\ port' = FALSE /\ requests' = requests \ {33} /\ behind' = behind
            \/ behind > 0 /\ behind' = behind - 1 /\ port' = port /\ requests' = requests
        BY <3>1 DEF Boot!ReadKey, Boot!IRQ1
      <4>. QED BY <4>2, <4>3, <4>4
    <3>3. port' => 33 \in requests'
      BY <1>2, <3>1 DEF Boot!ReadKey
    <3>4. Boot!HeardUnlessEarly'
      BY <3>1, <3>3 DEF Boot!HeardUnlessEarly, Boot!IRQ1
    <3>. QED BY <3>1, <3>2, <3>4 DEF BootInv, Boot!TypeOK
  <2>4. CASE handlers[i] = "timer"
    <3>1. i = 32 /\ early' = early
      BY <2>4 DEF BootInv, Boot!Interrupt, Boot!IRQ1
    <3>2. /\ requests' = requests \ {32} /\ UNCHANGED <<port, behind, heard>>
          /\ toGo' = IF toGo \in 1 .. Delay THEN toGo - 1 ELSE toGo
      BY <2>4 DEF Boot!Interrupt, Boot!TickUpdate, Boot!IRQ0
    <3>3. toGo' \in 0 .. Boot!NotDue
      BY <3>2, BootTypes DEF BootInv, Boot!TypeOK, Boot!NotDue
    <3>. QED
      BY <3>1, <3>2, <3>3 DEF BootInv, Boot!TypeOK, Boot!HeardUnlessEarly, Boot!Pressed, Boot!IRQ1
  <2>. QED BY <2>1, <2>2, <2>3, <2>4 DEF Boot!Interrupt
<1>. QED BY <1>3, <1>4, <1>5 DEF BootInv, Boot!TypeOK

LEMMA InstallKeeps == BootInv /\ Boot!Install => BootInv'
<1> SUFFICES ASSUME BootInv, Boot!Install PROVE BootInv'
  OBVIOUS
<1>1. /\ main' = "installed" /\ idt' = TRUE /\ requests' = {} /\ inService' = {}
      /\ early' = (early \/ 33 \in requests)
      /\ UNCHANGED <<enabled, handlers, port, behind, heard, toGo>>
  BY DEF Boot!Install, Boot!IRQ1
<1>2. early' <=> port
  BY <1>1 DEF BootInv, Boot!HeardUnlessEarly, Boot!IRQ1
<1>3. Boot!HeardUnlessEarly'
  BY <1>1, <1>2 DEF Boot!HeardUnlessEarly
<1>4. Boot!TypeOK' /\ Boot!InterruptsEnd' /\ early' \in BOOLEAN
  BY <1>1 DEF BootInv, Boot!TypeOK, Boot!InterruptsEnd, Boot!Pressed
<1>. QED BY <1>1, <1>3, <1>4 DEF BootInv

\* The steps of main that leave the devices alone
LEMMA OtherMainKeeps ==
  BootInv /\ (Boot!Prepare \/ Boot!Enable \/ Boot!StartTimer \/ Boot!CreateRegistry
                \/ Boot!RegisterKeyboard \/ Boot!CallShell \/ Boot!Process \/ Boot!LeaveShell)
    => BootInv'
<1> SUFFICES
      ASSUME BootInv,
             Boot!Prepare \/ Boot!Enable \/ Boot!StartTimer \/ Boot!CreateRegistry
               \/ Boot!RegisterKeyboard \/ Boot!CallShell \/ Boot!Process \/ Boot!LeaveShell
      PROVE  BootInv'
  OBVIOUS
<1>1. UNCHANGED <<requests, inService, port, behind, heard, early>>
  BY DEF Boot!Prepare, Boot!Enable, Boot!StartTimer, Boot!CreateRegistry, Boot!RegisterKeyboard,
         Boot!CallShell, Boot!Process, Boot!LeaveShell, Boot!Panic, Boot!devices
<1>2. toGo' \in 0 .. Boot!NotDue
  BY BootTypes
  DEF BootInv, Boot!TypeOK, Boot!Prepare, Boot!Enable, Boot!StartTimer, Boot!CreateRegistry,
      Boot!RegisterKeyboard, Boot!CallShell, Boot!Process, Boot!LeaveShell, Boot!Panic, Boot!NotDue
<1>3. /\ handlers' \in [Irq -> {"none", "timer", "keyboard"}]
      /\ \A i \in Irq : /\ handlers'[i] = "timer" => i = 32
                        /\ handlers'[i] = "keyboard" => i = 33
  BY BootTypes
  DEF BootInv, Boot!TypeOK, Boot!Prepare, Boot!Enable, Boot!StartTimer, Boot!CreateRegistry,
      Boot!RegisterKeyboard, Boot!CallShell, Boot!Process, Boot!LeaveShell, Boot!Panic,
      Boot!IRQ0, Boot!IRQ1
<1>4. /\ main' \in {"start", "prepared", "installed", "enabled", "ticking", "registered", "ready",
                   "loop", "halted", "off", "panic"}
      /\ main' \notin {"start", "prepared", "panic"} => idt'
      /\ enabled' => idt'
  BY DEF BootInv, Boot!TypeOK, Boot!InterruptsEnd, Boot!Prepare, Boot!Enable, Boot!StartTimer,
         Boot!CreateRegistry, Boot!RegisterKeyboard, Boot!CallShell, Boot!Process, Boot!LeaveShell,
         Boot!Panic
<1>5. Boot!HeardUnlessEarly' /\ Boot!InterruptsEnd'
  BY <1>1, <1>4 DEF BootInv, Boot!HeardUnlessEarly, Boot!InterruptsEnd
<1>6. Boot!TypeOK'
  BY <1>1, <1>2, <1>3, <1>4 DEF BootInv, Boot!TypeOK, Boot!Pressed
<1>7. /\ heard' \in Nat /\ behind' \in Nat /\ port' \in BOOLEAN /\ early' \in BOOLEAN
      /\ 33 \in requests' => port'
  BY <1>1 DEF BootInv
<1>. QED BY <1>3, <1>4, <1>5, <1>6, <1>7 DEF BootInv

LEMMA BootKeeps == BootInv /\ [Boot!BootNext]_bootVars => BootInv'
<1> SUFFICES ASSUME BootInv, [Boot!BootNext]_bootVars PROVE BootInv'
  OBVIOUS
<1>1. CASE UNCHANGED bootVars
  BY <1>1
  DEF BootInv, bootVars, Boot!TypeOK, Boot!InterruptsEnd, Boot!HeardUnlessEarly, Boot!Pressed,
      Boot!NotDue, Boot!IRQ1
<1>2. CASE Boot!Main \/ Boot!LeaveShell
  BY <1>2, InstallKeeps, OtherMainKeeps DEF Boot!Main
<1>3. CASE Boot!PressKey \/ \E i \in Irq : Boot!Rise(i) \/ Boot!Interrupt(i)
  BY <1>3, PressKeyKeeps, RiseKeeps, InterruptKeeps
<1>. QED BY <1>1, <1>2, <1>3 DEF Boot!BootNext

-----------------------------------------------------------------------------
(* The conversions of times *)

LEMMA TextTypes ==
  /\ TextWord \in Nat \ {0} /\ Freq \in 1 .. 1000 /\ Ms \subseteq Nat
  /\ Reg \subseteq [{"century", "year", "month", "day", "hours", "minutes", "seconds"} -> 0 .. 255]
  BY KernelAssumption DEF Text!TimeTextAssumption

\* To ticks and back, when neither product wraps
LEMMA ThereAndBack ==
  ASSUME NEW ms \in Nat, ms * Freq < TextWord, NEW t, t = Text!MsToTicks(ms), t * 1000 < TextWord,
         NEW o, o = Text!TicksToMs(t)
  PROVE  o <= ms /\ (ms - o) * Freq < 1000 + Freq
<1>1. Freq \in Nat \ {0} /\ TextWord \in Nat \ {0}
  BY TextTypes
<1> DEFINE a == ms * Freq
           r == a % 1000
           b == t * 1000
           u == b % Freq
<1>2. a \in Nat
  BY <1>1
<1>3. t = a \div 1000
  <2>1. a % TextWord = a
    BY <1>1, <1>2
  <2>. QED BY <2>1 DEF Text!MsToTicks
<1>4. t \in Nat /\ r \in 0 .. 999 /\ a = 1000 * t + r
  <2> HIDE DEF a
  <2>. QED BY <1>2, <1>3, Division
<1>5. b \in Nat /\ o = b \div Freq
  <2>1. b \in Nat
    BY <1>4
  <2>2. b % TextWord = b
    BY <1>1, <2>1
  <2>. QED BY <2>1, <2>2 DEF Text!TicksToMs
<1>6. o \in Nat /\ u \in 0 .. Freq - 1 /\ b = Freq * o + u
  <2> HIDE DEF b
  <2>1. b \in Nat /\ Freq \in Nat \ {0}
    BY <1>1, <1>5
  <2>2. b \div Freq \in Nat /\ b % Freq \in 0 .. Freq - 1 /\ b = Freq * (b \div Freq) + (b % Freq)
    BY ONLY <2>1, Division
  <2>. QED BY <1>5, <2>2
<1>7. Freq * o \in Nat /\ ms * Freq = Freq * o + u + r
  <2>1. b = 1000 * t
    BY <1>4
  <2>2. Freq \in Nat /\ o \in Nat /\ r \in Nat /\ u \in Nat /\ b = Freq * o + u /\ a = 1000 * t + r
        /\ 1000 * t \in Nat /\ Freq * o \in Nat
    BY <1>1, <1>4, <1>6
  <2> DEFINE v == Freq * o
             d == 1000 * t
  <2>3. b = d /\ b = v + u /\ a = d + r /\ v \in Nat /\ d \in Nat /\ r \in Nat /\ u \in Nat
    <3> HIDE DEF a, r, b, u
    <3>1. b = 1000 * t
      BY <2>1, <1>4
    <3>. QED BY <2>2, <3>1
  <2> HIDE DEF a, r, b, u, v, d
  <2>4. a = v + u + r
    BY ONLY <2>3
  <2>. QED BY <2>3, <2>4 DEF a, v
<1>8. o <= ms
  <2>1. ASSUME o >= ms + 1 PROVE FALSE
    <3>1. Freq * o >= Freq * (ms + 1)
      BY <1>1, <1>6, <2>1
    <3>2. Freq * (ms + 1) = ms * Freq + Freq
      BY <1>1
    <3> DEFINE v == Freq * o
               w == ms * Freq
    <3> HIDE DEF r, u, v, w
    <3>3. v >= w + Freq /\ v \in Nat /\ w = v + u + r
      BY <1>7, <3>1, <3>2 DEF v, w
    <3>4. u \in Nat /\ r \in Nat /\ Freq \in Nat \ {0}
      BY <1>1, <1>4, <1>6
    <3>. QED BY ONLY <3>3, <3>4
  <2>. QED BY <2>1, <1>6
<1>9. (ms - o) * Freq = ms * Freq - Freq * o
  BY <1>1, <1>6
<1>. HIDE DEF r, u
<1>. QED BY <1>1, <1>4, <1>6, <1>7, <1>8, <1>9

LEMMA TensTable ==
  /\ Text!Tens[1] = 1 /\ Text!Tens[2] = 10 /\ Text!Tens[3] = 100 /\ Text!Tens[4] = 1000
  /\ Text!Tens[5] = 10000 /\ Text!Tens[6] = 100000 /\ Text!Tens[7] = 1000000
  /\ Text!Tens[8] = 10000000 /\ Text!Tens[9] = 100000000 /\ Text!Tens[10] = 1000000000
  BY DEF Text!Tens

LEMMA TensGrow ==
  /\ \A k \in 1 .. 10 : Text!Tens[k] \in Nat \ {0}
  /\ \A j, k \in 1 .. 10 : j <= k => Text!Tens[j] <= Text!Tens[k]
<1> DEFINE T == Text!Tens
<1>1. /\ T[1] = 1 /\ T[2] = 10 /\ T[3] = 100 /\ T[4] = 1000 /\ T[5] = 10000 /\ T[6] = 100000
      /\ T[7] = 1000000 /\ T[8] = 10000000 /\ T[9] = 100000000 /\ T[10] = 1000000000
  BY TensTable
<1> HIDE DEF T
<1>2. \A k \in 1 .. 10 : T[k] \in Nat \ {0}
  BY <1>1
<1>3. \A j, k \in 1 .. 10 : j <= k => T[j] <= T[k]
  BY <1>1
<1>. QED BY <1>2, <1>3 DEF T

\* The number has k digits.
Digits(n, k) == k \in 1 .. 10 /\ (k = 1 \/ n >= Text!Tens[k]) /\ (k = 10 \/ n < Text!Tens[k + 1])
SizeOf(n) ==
  CHOOSE k \in 1 .. 10 : (k = 1 \/ n >= Text!Tens[k]) /\ (k = 10 \/ n < Text!Tens[k + 1])

LEMMA DigitsUnique ==
  ASSUME NEW n \in Nat, NEW k \in 1 .. 10, Digits(n, k)
  PROVE  SizeOf(n) = k
<1>1. \A m \in 1 .. 10 : Digits(n, m) => m = k
  <2> SUFFICES ASSUME NEW m \in 1 .. 10, Digits(n, m), m # k PROVE FALSE
    OBVIOUS
  <2>1. CASE m < k
    <3>1. m + 1 \in 1 .. 10 /\ k \in 1 .. 10 /\ m + 1 <= k
      BY <2>1
    <3>2. Text!Tens[m + 1] <= Text!Tens[k] /\ Text!Tens[m + 1] \in Nat /\ Text!Tens[k] \in Nat
      BY <3>1, TensGrow
    <3>. QED BY <2>1, <3>1, <3>2 DEF Digits
  <2>2. CASE k < m
    <3>1. k + 1 \in 1 .. 10 /\ m \in 1 .. 10 /\ k + 1 <= m
      BY <2>2
    <3>2. Text!Tens[k + 1] <= Text!Tens[m] /\ Text!Tens[k + 1] \in Nat /\ Text!Tens[m] \in Nat
      BY <3>1, TensGrow
    <3>. QED BY <2>2, <3>1, <3>2 DEF Digits
  <2>. QED BY <2>1, <2>2
<1>2. \E m \in 1 .. 10 : Digits(n, m)
  OBVIOUS
<1>. QED BY <1>1, <1>2 DEF Digits, SizeOf

LEMMA DigitsOfNumber ==
  ASSUME NEW n \in Nat, n < 100000
  PROVE  \/ n < 10 /\ Digits(n, 1)
         \/ n >= 10 /\ n < 100 /\ Digits(n, 2)
         \/ n >= 100 /\ n < 1000 /\ Digits(n, 3)
         \/ n >= 1000 /\ n < 10000 /\ Digits(n, 4)
         \/ n >= 10000 /\ Digits(n, 5)
  BY TensTable DEF Digits

LEMMA DigitType == ASSUME NEW n \in Nat, NEW w \in Nat \ {0} PROVE 48 + ((n \div w) % 10) \in Int
<1> DEFINE q == n \div w
<1>1. q \in Nat
  BY Division
<1> HIDE DEF q
<1>2. 48 + (q % 10) \in Int
  BY <1>1
<1>. QED BY <1>2 DEF q

LEMMA UintIsText == ASSUME NEW n \in Nat, n < 100000 PROVE Text!Uint(n) \in Seq(Int)
<1>1. SizeOf(n) \in 1 .. 10
  BY DigitsOfNumber DEF Digits, SizeOf
<1>2. Text!Uint(n) = [k \in 1 .. SizeOf(n) |-> 48 + ((n \div Text!Tens[SizeOf(n) + 1 - k]) % 10)]
  BY DEF Text!Uint, Text!Ascii0, SizeOf
<1>3. ASSUME NEW k \in 1 .. SizeOf(n)
      PROVE  48 + ((n \div Text!Tens[SizeOf(n) + 1 - k]) % 10) \in Int
  <2> DEFINE w == Text!Tens[SizeOf(n) + 1 - k]
  <2>1. SizeOf(n) + 1 - k \in 1 .. 10
    BY <1>1
  <2>2. w \in Nat \ {0}
    BY <2>1, TensGrow
  <2>. QED BY <2>2, DigitType
<1>. QED BY <1>1, <1>2, <1>3

\* The text of a number of k digits
LEMMA UintShape ==
  ASSUME NEW n \in Nat, NEW k \in 1 .. 10, Digits(n, k)
  PROVE  /\ Text!Uint(n) = [i \in 1 .. k |-> Text!Uint(n)[i]]
         /\ \A i \in 1 .. k : Text!Uint(n)[i] = 48 + ((n \div Text!Tens[k + 1 - i]) % 10)
<1>1. SizeOf(n) = k
  BY DigitsUnique
<1>2. Text!Uint(n) = [i \in 1 .. SizeOf(n) |-> 48 + ((n \div Text!Tens[SizeOf(n) + 1 - i]) % 10)]
  BY DEF Text!Uint, Text!Ascii0, SizeOf
<1>. QED BY <1>1, <1>2

\* Its characters, when it has one, two or four
LEMMA UintShort ==
  ASSUME NEW n \in Nat
  PROVE  /\ Digits(n, 1) => Text!Uint(n) = <<48 + ((n \div 1) % 10)>>
         /\ Digits(n, 2) => Text!Uint(n) = <<48 + ((n \div 10) % 10), 48 + ((n \div 1) % 10)>>
         /\ Digits(n, 4) => Text!Uint(n) = <<48 + ((n \div 1000) % 10), 48 + ((n \div 100) % 10),
                                            48 + ((n \div 10) % 10), 48 + ((n \div 1) % 10)>>
<1> DEFINE U == Text!Uint(n)
           c(w) == 48 + ((n \div w) % 10)
<1>1. ASSUME Digits(n, 1) PROVE U = <<c(1)>>
  <2>1. /\ U = [i \in 1 .. 1 |-> U[i]]
        /\ \A i \in 1 .. 1 : U[i] = c(Text!Tens[1 + 1 - i])
    BY <1>1, UintShape
  <2> HIDE DEF U, c
  <2>2. U[1] = c(Text!Tens[1])
    BY <2>1
  <2>3. U[1] = c(1)
    BY <2>2, TensTable
  <2>. QED BY <2>1, <2>3
<1>2. ASSUME Digits(n, 2) PROVE U = <<c(10), c(1)>>
  <2>1. /\ U = [i \in 1 .. 2 |-> U[i]]
        /\ \A i \in 1 .. 2 : U[i] = c(Text!Tens[2 + 1 - i])
    BY <1>2, UintShape
  <2> HIDE DEF U, c
  <2>2. U[1] = c(Text!Tens[2]) /\ U[2] = c(Text!Tens[1])
    BY <2>1
  <2>3. U[1] = c(10) /\ U[2] = c(1)
    BY <2>2, TensTable
  <2>. QED BY <2>1, <2>3
<1>3. ASSUME Digits(n, 4) PROVE U = <<c(1000), c(100), c(10), c(1)>>
  <2>1. /\ U = [i \in 1 .. 4 |-> U[i]]
        /\ \A i \in 1 .. 4 : U[i] = c(Text!Tens[4 + 1 - i])
    BY <1>3, UintShape
  <2> HIDE DEF U, c
  <2>2. /\ U[1] = c(Text!Tens[4]) /\ U[2] = c(Text!Tens[3])
        /\ U[3] = c(Text!Tens[2]) /\ U[4] = c(Text!Tens[1])
    BY <2>1
  <2>3. U[1] = c(1000) /\ U[2] = c(100) /\ U[3] = c(10) /\ U[4] = c(1)
    BY <2>2, TensTable
  <2>. QED BY <2>1, <2>3
<1>. QED BY <1>1, <1>2, <1>3

LEMMA TwoDigits ==
  ASSUME NEW h \in 0 .. 9, NEW l \in 0 .. 9
  PROVE  /\ h > 0 => Text!Uint(10 * h + l) = <<48 + h, 48 + l>>
         /\ Text!Uint(l) = <<48 + l>>
<1>1. ASSUME h > 0 PROVE Text!Uint(10 * h + l) = <<48 + h, 48 + l>>
  <2> DEFINE n == 10 * h + l
  <2>1. n \in Nat /\ n < 100000 /\ n >= 10 /\ n < 100
    BY <1>1
  <2>2. Digits(n, 2)
    BY <2>1, TensTable DEF Digits
  <2>3. (n \div 10) % 10 = h /\ (n \div 1) % 10 = l
    OBVIOUS
  <2> HIDE DEF n
  <2>. QED BY <2>1, <2>2, <2>3, UintShort DEF n
<1>2. Text!Uint(l) = <<48 + l>>
  <2>1. Digits(l, 1)
    BY TensTable DEF Digits
  <2>2. (l \div 1) % 10 = l
    OBVIOUS
  <2>. QED BY <2>1, <2>2, UintShort
<1>. QED BY <1>1, <1>2

\* The year, from the digits of the century and of the year in it
Year(a, b, c, d) == (10 * c + d) + (10 * a + b) * 100

LEMMA FourDigits ==
  ASSUME NEW a \in Nat, NEW b \in Nat, NEW c \in Nat, NEW d \in Nat,
         0 < a, a < 10, b < 10, c < 10, d < 10
  PROVE  Text!Uint(Year(a, b, c, d)) = <<48 + a, 48 + b, 48 + c, 48 + d>>
<1> DEFINE n == (10 * c + d) + (10 * a + b) * 100
<1>1. n \in Nat /\ n < 100000 /\ n >= 1000 /\ n < 10000
  OBVIOUS
<1>2. Digits(n, 4)
  BY <1>1, TensTable DEF Digits
<1>3. (n \div 1000) % 10 = a /\ (n \div 100) % 10 = b /\ (n \div 10) % 10 = c /\ (n \div 1) % 10 = d
  <2>1. n = 1000 * a + (100 * b + 10 * c + d) /\ 100 * b + 10 * c + d \in Nat
        /\ 100 * b + 10 * c + d < 1000
    OBVIOUS
  <2>2. n = 100 * (10 * a + b) + (10 * c + d) /\ n = 10 * (100 * a + 10 * b + c) + d
    OBVIOUS
  <2> HIDE DEF n
  <2>3. n \div 1000 = a
    BY <2>1
  <2>4. n \div 100 = 10 * a + b
    BY <2>2
  <2>5. n \div 10 = 100 * a + 10 * b + c
    BY <2>2
  <2>6. n \div 1 = n /\ n % 10 = d
    BY <2>2, <1>1
  <2>7. (10 * a + b) % 10 = b
    OBVIOUS
  <2>8. (100 * a + 10 * b + c) % 10 = c
    OBVIOUS
  <2>. QED BY <2>3, <2>4, <2>5, <2>6, <2>7, <2>8
<1> HIDE DEF n
<1>. QED BY <1>1, <1>2, <1>3, UintShort DEF n, Year

\* The digits of a register that holds a decimal number
LEMMA BcdOfDigits ==
  ASSUME NEW r \in 0 .. 255, r % 16 < 10, r \div 16 < 10
  PROVE  /\ r \div 16 \in 0 .. 9 /\ r % 16 \in 0 .. 9 /\ r = 16 * (r \div 16) + (r % 16)
         /\ Text!Bcd(r) = 10 * (r \div 16) + (r % 16)
  BY DEF Text!Bcd

LEMMA Joined ==
  ASSUME NEW s \in Seq(Int), NEW t \in Seq(Int)
  PROVE  /\ s \o t \in Seq(Int) /\ Len(s) \in Nat /\ Len(t) \in Nat /\ Len(s \o t) = Len(s) + Len(t)
         /\ \A i \in 1 .. Len(s) : (s \o t)[i] = s[i]
         /\ \A i \in 1 .. Len(t) : (s \o t)[Len(s) + i] = t[i]
  OBVIOUS

LEMMA Single == ASSUME NEW x \in Int PROVE <<x>> \in Seq(Int) /\ Len(<<x>>) = 1 /\ <<x>>[1] = x
  OBVIOUS

LEMMA PaddedTwo ==
  ASSUME NEW r \in 0 .. 255, r % 16 < 10, r \div 16 < 10
  PROVE  /\ Text!Padded(r) \in Seq(Int) /\ Len(Text!Padded(r)) = 2
         /\ Text!Padded(r)[1] = 48 + (r \div 16) /\ Text!Padded(r)[2] = 48 + (r % 16)
<1> DEFINE h == r \div 16
           l == r % 16
           p == Text!Padded(r)
<1>1. h \in 0 .. 9 /\ l \in 0 .. 9 /\ Text!Bcd(r) = 10 * h + l
  BY BcdOfDigits
<1> HIDE DEF h, l, p
<1>2. CASE h = 0
  <2> DEFINE x == <<48>>
             y == <<48 + l>>
  <2>1. Text!Bcd(r) = l /\ l < 10
    BY <1>1, <1>2
  <2>2. Text!Uint(Text!Bcd(r)) = y
    BY <1>1, <2>1, TwoDigits
  <2>3. p = x \o y
    BY <2>1, <2>2 DEF p, Text!Padded, Text!Ascii0
  <2>4. /\ x \in Seq(Int) /\ Len(x) = 1 /\ x[1] = 48
        /\ y \in Seq(Int) /\ Len(y) = 1 /\ y[1] = 48 + l
    BY <1>1, Single
  <2> HIDE DEF x, y
  <2>5. /\ p \in Seq(Int) /\ Len(p) = 1 + 1 /\ (\A i \in 1 .. 1 : p[i] = x[i])
        /\ \A i \in 1 .. 1 : p[1 + i] = y[i]
    <3>1. /\ p \in Seq(Int) /\ Len(p) = Len(x) + Len(y)
          /\ (\A i \in 1 .. Len(x) : p[i] = x[i]) /\ \A i \in 1 .. Len(y) : p[Len(x) + i] = y[i]
      <4> DEFINE z == x \o y
      <4>1. /\ z \in Seq(Int) /\ Len(z) = Len(x) + Len(y)
            /\ (\A i \in 1 .. Len(x) : z[i] = x[i]) /\ \A i \in 1 .. Len(y) : z[Len(x) + i] = y[i]
        BY <2>4, Joined
      <4> HIDE DEF z
      <4>2. p = z
        BY <2>3 DEF z
      <4>. QED BY <4>1, <4>2
    <3>. QED BY <2>4, <3>1
  <2>6. p[1] = 48 /\ p[2] = 48 + l
    <3>1. p[1] = x[1] /\ p[1 + 1] = y[1]
      BY <2>5
    <3>. QED BY <2>4, <3>1
  <2>. QED BY <1>2, <2>5, <2>6 DEF h, l, p
<1>3. CASE h > 0
  <2> DEFINE y == <<48 + h, 48 + l>>
  <2>1. ~(10 * h + l < 10)
    BY <1>1, <1>3
  <2>2. Text!Uint(Text!Bcd(r)) = y
    BY <1>1, <1>3, TwoDigits
  <2>3. p = <<>> \o y
    BY <1>1, <2>1, <2>2 DEF p, Text!Padded
  <2>4. y \in Seq(Int) /\ Len(y) = 2 /\ y[1] = 48 + h /\ y[2] = 48 + l
    BY <1>1
  <2> HIDE DEF y
  <2>5. p = y
    BY <2>3, <2>4, ConcatEmptySeq
  <2>. QED BY <2>4, <2>5 DEF h, l, p
<1>. QED BY <1>1, <1>2, <1>3

LEMMA BcdIsByte == ASSUME NEW r \in 0 .. 255 PROVE Text!Bcd(r) \in Nat /\ Text!Bcd(r) < 256
  BY DEF Text!Bcd

LEMMA PaddedIsText == ASSUME NEW r \in 0 .. 255 PROVE Text!Padded(r) \in Seq(Int)
<1>1. Text!Bcd(r) \in Nat /\ Text!Bcd(r) < 256
  BY BcdIsByte
<1>2. Text!Uint(Text!Bcd(r)) \in Seq(Int)
  BY <1>1, UintIsText
<1>. QED BY <1>2 DEF Text!Padded, Text!Ascii0

\* What a register shows, as its digits
IsBcd(r) == r \in 0 .. 255 /\ r % 16 < 10 /\ r \div 16 < 10
Hi(r) == 48 + (r \div 16)
Lo(r) == 48 + (r % 16)

LEMMA PlausibleFields ==
  ASSUME NEW t \in Reg, Text!Plausible(t)
  PROVE  /\ IsBcd(t.century) /\ IsBcd(t.year) /\ IsBcd(t.month) /\ IsBcd(t.day)
         /\ IsBcd(t.hours) /\ IsBcd(t.minutes) /\ IsBcd(t.seconds)
         /\ t.century \div 16 > 0
<1> DEFINE F == {"century", "year", "month", "day", "hours", "minutes", "seconds"}
<1>1. t \in [F -> 0 .. 255]
  BY TextTypes
<1>2. \A f \in F : t[f] % 16 < 10 /\ t[f] \div 16 < 10
  BY <1>1 DEF Text!Plausible
<1>3. \A f \in F : IsBcd(t[f])
  BY <1>1, <1>2 DEF IsBcd
<1>4. t.century \in Nat /\ t.century >= 16
  BY <1>1 DEF Text!Plausible
<1>. QED BY <1>3, <1>4

\* The two digits of a register at a place of a text
Shows(text, k, r) == text[k] = Hi(r) /\ text[k + 1] = Lo(r)

\* A text goes on with a character and a register.
Adds(s, x, r) == s \o <<x>> \o Text!Padded(r)

LEMMA DigitsJoined ==
  ASSUME NEW s \in Seq(Int), NEW x \in Int, NEW r, IsBcd(r)
  PROVE  /\ Adds(s, x, r) \in Seq(Int) /\ Len(Adds(s, x, r)) = Len(s) + 3
         /\ Shows(Adds(s, x, r), Len(s) + 2, r)
         /\ \A i \in 1 .. Len(s) : Adds(s, x, r)[i] = s[i]
<1> DEFINE n == Len(s)
           y == <<x>>
           p == Text!Padded(r)
           k == s \o y
           j == k \o p
<1>1. y \in Seq(Int) /\ Len(y) = 1
  BY Single
<1>2. p \in Seq(Int) /\ Len(p) = 2 /\ p[1] = Hi(r) /\ p[2] = Lo(r)
  BY PaddedTwo DEF IsBcd, Hi, Lo
<1> HIDE DEF y, p
<1>0. n \in Nat
  OBVIOUS
<1>3. k \in Seq(Int) /\ Len(k) = n + 1 /\ \A i \in 1 .. n : k[i] = s[i]
  <2>1. k \in Seq(Int) /\ Len(k) = Len(s) + Len(y) /\ \A i \in 1 .. Len(s) : k[i] = s[i]
    BY <1>1, Joined
  <2> HIDE DEF k
  <2>. QED BY <1>0, <1>1, <2>1
<1> HIDE DEF k
<1>4. /\ j \in Seq(Int) /\ Len(j) = (n + 1) + 2
      /\ (\A i \in 1 .. n + 1 : j[i] = k[i]) /\ \A i \in 1 .. 2 : j[(n + 1) + i] = p[i]
  <2>1. /\ j \in Seq(Int) /\ Len(j) = Len(k) + Len(p)
        /\ (\A i \in 1 .. Len(k) : j[i] = k[i]) /\ \A i \in 1 .. Len(p) : j[Len(k) + i] = p[i]
    BY <1>2, <1>3, Joined
  <2> HIDE DEF j
  <2>. QED BY <1>0, <1>2, <1>3, <2>1
<1> HIDE DEF j, n
<1>5. j[(n + 1) + 1] = p[1] /\ j[(n + 1) + 2] = p[2]
  BY <1>4
<1>6. j[n + 2] = p[1] /\ j[(n + 2) + 1] = p[2]
  <2>1. n + 2 = (n + 1) + 1 /\ (n + 2) + 1 = (n + 1) + 2
    BY <1>0
  <2>. QED BY <1>5, <2>1
<1>7. \A i \in 1 .. n : j[i] = s[i]
  <2>1. \A i \in 1 .. n : i \in 1 .. n + 1
    BY <1>0
  <2>. QED BY <1>3, <1>4, <2>1
<1>8. Len(j) = n + 3
  BY <1>0, <1>4
<1>9. j = Adds(s, x, r)
  BY DEF j, k, y, p, Adds
<1>10. Shows(j, n + 2, r)
  BY <1>2, <1>6 DEF Shows
<1>. QED BY <1>0, <1>4, <1>7, <1>8, <1>9, <1>10 DEF n

LEMMA TextOfDate ==
  ASSUME NEW t \in Reg, Text!Plausible(t)
  PROVE  /\ Text!DateOf(t) \in Seq(Int) /\ Len(Text!DateOf(t)) = 10
         /\ Shows(Text!DateOf(t), 1, t.century) /\ Shows(Text!DateOf(t), 3, t.year)
         /\ Shows(Text!DateOf(t), 6, t.month) /\ Shows(Text!DateOf(t), 9, t.day)
<1> DEFINE a == t.century \div 16
           b == t.century % 16
           c == t.year \div 16
           d == t.year % 16
           n == Text!Bcd(t.year) + Text!Bcd(t.century) * 100
           y == Text!Uint(n)
           m == Adds(y, 45, t.month)
           e == Adds(m, 45, t.day)
<1>1. /\ IsBcd(t.century) /\ IsBcd(t.year) /\ IsBcd(t.month) /\ IsBcd(t.day)
      /\ t.century \div 16 > 0
  BY PlausibleFields
<1>2. /\ a \in 0 .. 9 /\ b \in 0 .. 9 /\ 0 < a /\ Text!Bcd(t.century) = 10 * a + b
      /\ c \in 0 .. 9 /\ d \in 0 .. 9 /\ Text!Bcd(t.year) = 10 * c + d
  BY <1>1, BcdOfDigits DEF IsBcd
<1> HIDE DEF a, b, c, d
<1>3. n = (10 * c + d) + (10 * a + b) * 100
  BY <1>2
<1>4. a \in Nat /\ b \in Nat /\ c \in Nat /\ d \in Nat /\ 0 < a /\ a < 10 /\ b < 10 /\ c < 10 /\ d < 10
  BY <1>2
<1> HIDE DEF n
<1>5. y = <<48 + a, 48 + b, 48 + c, 48 + d>>
  <2>1. Text!Uint(Year(a, b, c, d)) = <<48 + a, 48 + b, 48 + c, 48 + d>>
    BY <1>4, FourDigits
  <2>2. n = Year(a, b, c, d)
    BY <1>3 DEF Year
  <2>. QED BY <2>1, <2>2
<1> HIDE DEF y
<1>6. /\ y \in Seq(Int) /\ Len(y) = 4
      /\ y[1] = 48 + a /\ y[2] = 48 + b /\ y[3] = 48 + c /\ y[4] = 48 + d
  BY <1>4, <1>5
<1>7. /\ m \in Seq(Int) /\ Len(m) = 7 /\ Shows(m, 6, t.month)
      /\ \A i \in 1 .. 4 : m[i] = y[i]
  <2>1. /\ m \in Seq(Int) /\ Len(m) = Len(y) + 3 /\ Shows(m, Len(y) + 2, t.month)
        /\ \A i \in 1 .. Len(y) : m[i] = y[i]
    <3>1. y \in Seq(Int) /\ IsBcd(t.month) /\ 45 \in Int /\ 58 \in Int
      BY <1>1, <1>6
    <3>2. m \in Seq(Int)
      BY <3>1, DigitsJoined
    <3>3. Len(m) = Len(y) + 3
      BY <3>1, DigitsJoined
    <3>4. Shows(m, Len(y) + 2, t.month)
      BY <3>1, DigitsJoined
    <3>5. \A i \in 1 .. Len(y) : m[i] = y[i]
      BY <3>1, DigitsJoined
    <3>. QED BY <3>2, <3>3, <3>4, <3>5
  <2> HIDE DEF m
  <2>2. Len(y) = 4 /\ 4 + 3 = 7 /\ 4 + 2 = 6
    BY <1>6
  <2>. QED BY <2>1, <2>2
<1> HIDE DEF m
<1>8. /\ e \in Seq(Int) /\ Len(e) = 10 /\ Shows(e, 9, t.day)
      /\ \A i \in 1 .. 7 : e[i] = m[i]
  <2>1. /\ e \in Seq(Int) /\ Len(e) = Len(m) + 3 /\ Shows(e, Len(m) + 2, t.day)
        /\ \A i \in 1 .. Len(m) : e[i] = m[i]
    <3>1. m \in Seq(Int) /\ IsBcd(t.day) /\ 45 \in Int /\ 58 \in Int
      BY <1>1, <1>7
    <3>2. e \in Seq(Int)
      BY <3>1, DigitsJoined
    <3>3. Len(e) = Len(m) + 3
      BY <3>1, DigitsJoined
    <3>4. Shows(e, Len(m) + 2, t.day)
      BY <3>1, DigitsJoined
    <3>5. \A i \in 1 .. Len(m) : e[i] = m[i]
      BY <3>1, DigitsJoined
    <3>. QED BY <3>2, <3>3, <3>4, <3>5
  <2> HIDE DEF e
  <2>2. Len(m) = 7 /\ 7 + 3 = 10 /\ 7 + 2 = 9
    BY <1>7
  <2>. QED BY <2>1, <2>2
<1>9. e = Text!DateOf(t)
  BY DEF e, m, y, n, Adds, Text!DateOf, Text!Dash
<1> HIDE DEF e
<1>10. e[1] = y[1] /\ e[2] = y[2] /\ e[3] = y[3] /\ e[4] = y[4] /\ e[6] = m[6] /\ e[7] = m[7]
  BY <1>7, <1>8
<1>11. Shows(e, 1, t.century) /\ Shows(e, 3, t.year)
  BY <1>6, <1>10 DEF Shows, Hi, Lo, a, b, c, d
<1>12. Shows(e, 6, t.month) /\ Shows(e, 9, t.day)
  BY <1>7, <1>8, <1>10 DEF Shows
<1>. QED BY <1>8, <1>9, <1>11, <1>12

LEMMA TextOfTime ==
  ASSUME NEW t \in Reg, Text!Plausible(t)
  PROVE  /\ Text!TimeOf(t) \in Seq(Int) /\ Len(Text!TimeOf(t)) = 8
         /\ Shows(Text!TimeOf(t), 1, t.hours) /\ Shows(Text!TimeOf(t), 4, t.minutes)
         /\ Shows(Text!TimeOf(t), 7, t.seconds)
<1> DEFINE h == Text!Padded(t.hours)
           m == Adds(h, 58, t.minutes)
           e == Adds(m, 58, t.seconds)
<1>1. IsBcd(t.hours) /\ IsBcd(t.minutes) /\ IsBcd(t.seconds)
  BY PlausibleFields
<1>2. h \in Seq(Int) /\ Len(h) = 2 /\ h[1] = Hi(t.hours) /\ h[2] = Lo(t.hours)
  BY <1>1, PaddedTwo DEF IsBcd, Hi, Lo
<1> HIDE DEF h
<1>3. /\ m \in Seq(Int) /\ Len(m) = 5 /\ Shows(m, 4, t.minutes)
      /\ \A i \in 1 .. 2 : m[i] = h[i]
  <2>1. /\ m \in Seq(Int) /\ Len(m) = Len(h) + 3 /\ Shows(m, Len(h) + 2, t.minutes)
        /\ \A i \in 1 .. Len(h) : m[i] = h[i]
    <3>1. h \in Seq(Int) /\ IsBcd(t.minutes) /\ 45 \in Int /\ 58 \in Int
      BY <1>1, <1>2
    <3>2. m \in Seq(Int)
      BY <3>1, DigitsJoined
    <3>3. Len(m) = Len(h) + 3
      BY <3>1, DigitsJoined
    <3>4. Shows(m, Len(h) + 2, t.minutes)
      BY <3>1, DigitsJoined
    <3>5. \A i \in 1 .. Len(h) : m[i] = h[i]
      BY <3>1, DigitsJoined
    <3>. QED BY <3>2, <3>3, <3>4, <3>5
  <2> HIDE DEF m
  <2>2. Len(h) = 2 /\ 2 + 3 = 5 /\ 2 + 2 = 4
    BY <1>2
  <2>. QED BY <2>1, <2>2
<1> HIDE DEF m
<1>4. /\ e \in Seq(Int) /\ Len(e) = 8 /\ Shows(e, 7, t.seconds)
      /\ \A i \in 1 .. 5 : e[i] = m[i]
  <2>1. /\ e \in Seq(Int) /\ Len(e) = Len(m) + 3 /\ Shows(e, Len(m) + 2, t.seconds)
        /\ \A i \in 1 .. Len(m) : e[i] = m[i]
    <3>1. m \in Seq(Int) /\ IsBcd(t.seconds) /\ 45 \in Int /\ 58 \in Int
      BY <1>1, <1>3
    <3>2. e \in Seq(Int)
      BY <3>1, DigitsJoined
    <3>3. Len(e) = Len(m) + 3
      BY <3>1, DigitsJoined
    <3>4. Shows(e, Len(m) + 2, t.seconds)
      BY <3>1, DigitsJoined
    <3>5. \A i \in 1 .. Len(m) : e[i] = m[i]
      BY <3>1, DigitsJoined
    <3>. QED BY <3>2, <3>3, <3>4, <3>5
  <2> HIDE DEF e
  <2>2. Len(m) = 5 /\ 5 + 3 = 8 /\ 5 + 2 = 7
    BY <1>3
  <2>. QED BY <2>1, <2>2
<1>5. e = Text!TimeOf(t)
  BY DEF e, m, h, Adds, Text!TimeOf, Text!Colon
<1> HIDE DEF e
<1>6. e[1] = h[1] /\ e[2] = h[2] /\ e[4] = m[4] /\ e[5] = m[5]
  BY <1>3, <1>4
<1>7. Shows(e, 1, t.hours) /\ Shows(e, 4, t.minutes) /\ Shows(e, 7, t.seconds)
  BY <1>2, <1>3, <1>4, <1>6 DEF Shows
<1>. QED BY <1>4, <1>5, <1>7

\* Two digits are read back to the register.
LEMMA ReadBack ==
  ASSUME NEW r, IsBcd(r), NEW text, NEW k \in Nat, Shows(text, k, r)
  PROVE  Text!BcdOf(Text!Two(text, k)) = r
<1> DEFINE h == r \div 16
           l == r % 16
<1>1. /\ h \in Nat /\ h < 10 /\ l \in Nat /\ l < 10 /\ r = 16 * h + l
      /\ text[k] = 48 + h /\ text[k + 1] = 48 + l
  BY BcdOfDigits DEF IsBcd, Hi, Lo, Shows
<1> HIDE DEF h, l
<1>2. Text!Two(text, k) = ((48 + h) - 48) * 10 + (48 + l) - 48
  BY <1>1 DEF Text!Two, Text!Ascii0
<1>3. Text!Two(text, k) = 10 * h + l
  BY <1>1, <1>2
<1>4. (10 * h + l) \div 10 = h /\ (10 * h + l) % 10 = l
  BY <1>1
<1>. QED BY <1>1, <1>3, <1>4 DEF Text!BcdOf

LEMMA TextsReadBack ==
  ASSUME NEW t \in Reg, Text!Plausible(t), call = [op |-> "print", t |-> t],
         out = <<Text!DatetimeString(t), Text!DateString(t), Text!TimeString(t)>>
  PROVE  Text!ReadsBack
<1> DEFINE date == Text!DateOf(t)
           clock == Text!TimeOf(t)
           d == date \o <<32>> \o clock
           x == <<32>>
<1>1. /\ date \in Seq(Int) /\ Len(date) = 10
      /\ Shows(date, 1, t.century) /\ Shows(date, 3, t.year)
      /\ Shows(date, 6, t.month) /\ Shows(date, 9, t.day)
  BY TextOfDate
<1>2. /\ clock \in Seq(Int) /\ Len(clock) = 8
      /\ Shows(clock, 1, t.hours) /\ Shows(clock, 4, t.minutes) /\ Shows(clock, 7, t.seconds)
  BY TextOfTime
<1> DEFINE e == date \o x
<1> HIDE DEF date, clock
<1>3. /\ Len(d) = 19 /\ (\A i \in 1 .. 10 : d[i] = date[i]) /\ \A i \in 1 .. 8 : d[11 + i] = clock[i]
  <2>1. x \in Seq(Int) /\ Len(x) = 1
    BY Single
  <2> HIDE DEF x
  <2>2. e \in Seq(Int) /\ Len(e) = 11 /\ \A i \in 1 .. 10 : e[i] = date[i]
    <3>1. e \in Seq(Int) /\ Len(e) = Len(date) + Len(x) /\ \A i \in 1 .. Len(date) : e[i] = date[i]
      BY <1>1, <2>1, Joined
    <3> HIDE DEF e
    <3>. QED BY <1>1, <2>1, <3>1
  <2>3. d = e \o clock
    BY DEF x
  <2> HIDE DEF e, d
  <2>4. /\ Len(d) = 11 + 8 /\ (\A i \in 1 .. 11 : d[i] = e[i]) /\ \A i \in 1 .. 8 : d[11 + i] = clock[i]
    <3>1. /\ Len(d) = Len(e) + Len(clock) /\ (\A i \in 1 .. Len(e) : d[i] = e[i])
          /\ \A i \in 1 .. Len(clock) : d[Len(e) + i] = clock[i]
      BY <1>2, <2>2, <2>3, Joined
    <3>. QED BY <1>2, <2>2, <3>1
  <2>. QED BY <2>2, <2>4
<1> HIDE DEF d
<1>4. out = <<d, date, clock>>
  <2>1. Text!DatetimeString(t) = d
    <3>1. Len(d) = 19
      BY <1>3
    <3>2. Text!Fits(d, 20) = d
      BY <3>1 DEF Text!Fits
    <3>. QED BY <3>2 DEF Text!DatetimeString, Text!Space, d, date, clock
  <2>2. Text!DateString(t) = date
    BY <1>1 DEF Text!DateString, Text!Fits, date
  <2>3. Text!TimeString(t) = clock
    BY <1>2 DEF Text!TimeString, Text!Fits, clock
  <2>. QED BY <2>1, <2>2, <2>3
<1>5. /\ Text!BcdOf(Text!Two(d, 1)) = t.century /\ Text!BcdOf(Text!Two(d, 3)) = t.year
      /\ Text!BcdOf(Text!Two(d, 6)) = t.month /\ Text!BcdOf(Text!Two(d, 9)) = t.day
      /\ Text!BcdOf(Text!Two(d, 12)) = t.hours /\ Text!BcdOf(Text!Two(d, 15)) = t.minutes
      /\ Text!BcdOf(Text!Two(d, 18)) = t.seconds
  <2>1. /\ d[1] = date[1] /\ d[2] = date[2] /\ d[3] = date[3] /\ d[4] = date[4]
        /\ d[6] = date[6] /\ d[7] = date[7] /\ d[9] = date[9] /\ d[10] = date[10]
    BY <1>3
  <2>2. /\ d[11 + 1] = clock[1] /\ d[11 + 2] = clock[2] /\ d[11 + 4] = clock[4]
        /\ d[11 + 5] = clock[5] /\ d[11 + 7] = clock[7] /\ d[11 + 8] = clock[8]
    BY <1>3
  <2>3. /\ Shows(d, 1, t.century) /\ Shows(d, 3, t.year)
        /\ Shows(d, 6, t.month) /\ Shows(d, 9, t.day)
    BY <1>1, <2>1 DEF Shows
  <2>4. Shows(d, 12, t.hours) /\ Shows(d, 15, t.minutes) /\ Shows(d, 18, t.seconds)
    BY <1>2, <2>2 DEF Shows
  <2>. QED BY <2>3, <2>4, ReadBack, PlausibleFields
<1>6. d = date \o <<32>> \o clock
  BY DEF d
<1>7. call.t = t /\ out[1] = d /\ out[2] = date /\ out[3] = clock
  BY <1>4
<1>. QED BY <1>1, <1>2, <1>3, <1>5, <1>6, <1>7 DEF Text!ReadsBack, Text!Space

LEMMA FitsBelow ==
  ASSUME NEW text \in Seq(Int) PROVE \A n \in Nat \ {0} : Len(Text!Fits(text, n)) < n
  BY DEF Text!Fits

LEMMA TextsFit ==
  ASSUME NEW t \in Reg
  PROVE  /\ Len(Text!DatetimeString(t)) < 20 /\ Len(Text!DateString(t)) < 11
         /\ Len(Text!TimeString(t)) < 9
<1> DEFINE F == {"century", "year", "month", "day", "hours", "minutes", "seconds"}
<1>2. \A f \in F : t[f] \in 0 .. 255
  BY TextTypes
<1>3. Text!Uint(Text!Bcd(t.year) + Text!Bcd(t.century) * 100) \in Seq(Int)
  <2> DEFINE n == Text!Bcd(t.year) + Text!Bcd(t.century) * 100
  <2>1. /\ Text!Bcd(t.year) \in Nat /\ Text!Bcd(t.year) < 256
        /\ Text!Bcd(t.century) \in Nat /\ Text!Bcd(t.century) < 256
    BY <1>2, BcdIsByte
  <2>2. n \in Nat /\ n < 100000
    BY <2>1
  <2> HIDE DEF n
  <2>3. Text!Uint(n) \in Seq(Int)
    BY <2>2, UintIsText
  <2>. QED BY <2>3 DEF n
<1>4. /\ Text!Padded(t.month) \in Seq(Int) /\ Text!Padded(t.day) \in Seq(Int)
      /\ Text!Padded(t.hours) \in Seq(Int) /\ Text!Padded(t.minutes) \in Seq(Int)
      /\ Text!Padded(t.seconds) \in Seq(Int)
  BY <1>2, PaddedIsText
<1>5. Text!DateOf(t) \in Seq(Int) /\ Text!TimeOf(t) \in Seq(Int)
  BY <1>3, <1>4 DEF Text!DateOf, Text!TimeOf, Text!Dash, Text!Colon
<1>6. Text!DateOf(t) \o <<32>> \o Text!TimeOf(t) \in Seq(Int)
  BY <1>5
<1>7. 20 \in Nat \ {0} /\ 11 \in Nat \ {0} /\ 9 \in Nat \ {0}
  OBVIOUS
<1>8. Len(Text!DatetimeString(t)) < 20
  <2> DEFINE d == Text!DateOf(t) \o <<32>> \o Text!TimeOf(t)
  <2>1. d \in Seq(Int)
    BY <1>6
  <2>2. Text!DatetimeString(t) = Text!Fits(d, 20)
    BY DEF Text!DatetimeString, Text!Space
  <2> HIDE DEF d
  <2>. QED BY <1>7, <2>1, <2>2, FitsBelow
<1>9. Len(Text!DateString(t)) < 11
  BY <1>5, <1>7, FitsBelow DEF Text!DateString
<1>10. Len(Text!TimeString(t)) < 9
  BY <1>5, <1>7, FitsBelow DEF Text!TimeString
<1>. QED BY <1>8, <1>9, <1>10

\* A behaviour is one conversion.
TextInv ==
  \/ call = [op |-> "none"]
  \/ \E ms \in Ms : /\ call = [op |-> "ms", ms |-> ms]
                    /\ out = <<Text!MsToTicks(ms), Text!TicksToMs(Text!MsToTicks(ms))>>
  \/ \E t \in Reg : /\ call = [op |-> "print", t |-> t]
                    /\ out = <<Text!DatetimeString(t), Text!DateString(t), Text!TimeString(t)>>

LEMMA TextStarts == Init => TextInv
  BY DEF Init, Text!Init, TextInv

LEMMA TextKeeps == TextInv /\ [Text!Next]_textVars => TextInv'
  BY DEF TextInv, textVars, Text!Next, Text!Convert, Text!PrintTime

LEMMA TextHolds == TextInv => Text!LosesLessThanATick /\ Text!ReadsBack /\ Text!Terminated
<1> SUFFICES ASSUME TextInv PROVE Text!LosesLessThanATick /\ Text!ReadsBack /\ Text!Terminated
  OBVIOUS
<1>1. CASE call = [op |-> "none"]
  BY <1>1 DEF Text!LosesLessThanATick, Text!ReadsBack, Text!Terminated
<1>2. ASSUME NEW ms \in Ms, call = [op |-> "ms", ms |-> ms],
             out = <<Text!MsToTicks(ms), Text!TicksToMs(Text!MsToTicks(ms))>>
      PROVE  Text!LosesLessThanATick /\ Text!ReadsBack /\ Text!Terminated
  <2>1. call.op = "ms" /\ call.ms = ms /\ ms \in Nat
    BY <1>2, TextTypes
  <2>2. ms * Freq < TextWord /\ out[1] * 1000 < TextWord
          => out[2] <= ms /\ (ms - out[2]) * Freq < 1000 + Freq
    BY <1>2, <2>1, ThereAndBack
  <2>. QED BY <2>1, <2>2 DEF Text!LosesLessThanATick, Text!ReadsBack, Text!Terminated
<1>3. ASSUME NEW t \in Reg, call = [op |-> "print", t |-> t],
             out = <<Text!DatetimeString(t), Text!DateString(t), Text!TimeString(t)>>
      PROVE  Text!LosesLessThanATick /\ Text!ReadsBack /\ Text!Terminated
  <2>1. call.op = "print" /\ call.t = t
    BY <1>3
  <2>2. Text!ReadsBack
    <3>1. CASE Text!Plausible(t)
      BY <1>3, <3>1, TextsReadBack
    <3>2. CASE ~Text!Plausible(t)
      BY <2>1, <3>2 DEF Text!ReadsBack
    <3>. QED BY <3>1, <3>2
  <2>3. Text!Terminated
    BY <1>3, <2>1, TextsFit DEF Text!Terminated
  <2>. QED BY <2>1, <2>2, <2>3 DEF Text!LosesLessThanATick
<1>. QED BY <1>1, <1>2, <1>3 DEF TextInv

-----------------------------------------------------------------------------
(* The sleep *)

\* The kernel's routine, with whatever deadline it has come to
IsRoutine(r) ==
  /\ r \in [id : Nat, callback : Callback, interval : Interval, isRoutine : BOOLEAN, due : Nat]
  /\ r.id = Routine.id /\ r.callback = Routine.callback /\ r.isRoutine

LEMMA SleepTypes ==
  /\ SleepWord \in Nat \ {0} /\ Start \in Nat /\ Interval \subseteq Nat
  /\ Routine.callback # "wake" /\ IsRoutine(Routine)
  /\ \A r \in Sleep!Request : r.id \in Nat /\ r.interval \in Nat /\ r.due \in Nat
<1>1. /\ SleepWord \in Nat \ {0} /\ Start \in Nat /\ MaxCalls \in Nat /\ MaxDue \in Nat
      /\ Interval \subseteq Nat /\ Routine \in Sleep!Request /\ Routine.isRoutine
      /\ Routine.callback # "wake"
  BY KernelAssumption DEF Sleep!SleepAssumption
<1>2. ASSUME NEW r \in Sleep!Request
      PROVE  /\ r \in [id : Nat, callback : Callback, interval : Interval, isRoutine : BOOLEAN, due : Nat]
             /\ r.id \in Nat /\ r.interval \in Nat /\ r.due \in Nat
  <2>1. r \in [id : 1 .. MaxCalls, callback : Callback, interval : Interval, isRoutine : BOOLEAN, due : 0 .. MaxDue]
    BY DEF Sleep!Request
  <2>2. 1 .. MaxCalls \subseteq Nat /\ 0 .. MaxDue \subseteq Nat
    BY <1>1
  <2>. QED BY <1>1, <2>1, <2>2
<1>. QED BY <1>1, <1>2 DEF IsRoutine

\* The request behind the sleep
IsSleep(r) == r \in Sleep!Request /\ r.id # Routine.id /\ r.callback = "wake" /\ ~r.isRoutine

\* The request is pending while the app is asleep and has not been called back.
Waits(r) ==
  r = mine /\ IsSleep(mine) /\ app = "asleep" /\ ~done /\ \A i \in DOMAIN firing : firing[i] # mine.id

\* Nothing is pending but the routine and the app's request, and none of the callbacks to come
\* is the app's but while it is asleep and its time has come.
SleepInv ==
  /\ time \in Nat /\ asked \in Nat /\ stray = FALSE /\ done \in BOOLEAN
  /\ mine = Routine \/ IsSleep(mine)
  /\ \E p \in pending : IsRoutine(p) /\ \A r \in pending : r = p \/ Waits(r)
  /\ firing \in Seq(Nat)
  /\ \A i \in DOMAIN firing :
       firing[i] = Routine.id \/ (firing[i] = mine.id /\ app = "asleep" /\ mine.due <= time)
  /\ app = "scheduling" => firing = <<>> /\ adding = asked /\ ~done
  /\ app = "asleep" =>
       IsSleep(mine) /\ (~torn => mine.due >= asked + mine.interval) /\ (done => mine.due <= time)

LEMMA SleepStarts == Init => SleepInv
<1> SUFFICES ASSUME Init PROVE SleepInv
  OBVIOUS
<1>1. Sleep!SleepInit
  BY DEF Init
<1>2. /\ time = Start /\ pending = {Routine} /\ firing = <<>> /\ app = "awake" /\ mine = Routine
      /\ asked = Start /\ done = FALSE /\ stray = FALSE
  BY <1>1 DEF Sleep!SleepInit
<1>3. \E p \in pending : IsRoutine(p) /\ \A r \in pending : r = p \/ Waits(r)
  <2>1. Routine \in pending /\ IsRoutine(Routine) /\ \A r \in pending : r = Routine
    BY <1>2, SleepTypes
  <2>. QED BY <2>1
<1>4. firing \in Seq(Nat) /\ DOMAIN firing = {} /\ time \in Nat /\ asked \in Nat
  BY <1>2, SleepTypes
<1>. QED BY <1>2, <1>3, <1>4 DEF SleepInv

LEMMA SleepTicksKeeps == SleepInv /\ Sleep!SleepTicks => SleepInv'
<1> SUFFICES ASSUME SleepInv, Sleep!SleepTicks PROVE SleepInv'
  OBVIOUS
<1>1. /\ app = "awake" /\ firing = <<>> /\ adding' = time /\ app' = "scheduling" /\ asked' = time
      /\ done' = FALSE /\ UNCHANGED <<time, pending, firing, mine, torn, stray>>
  BY DEF Sleep!SleepTicks, Sleep!BeginAdd
<1>2. PICK p \in pending : IsRoutine(p) /\ \A r \in pending : r = p
  BY <1>1 DEF SleepInv, Waits
<1>. QED BY <1>1, <1>2 DEF SleepInv

LEMMA ScheduleKeeps == SleepInv /\ Sleep!Schedule => SleepInv'
<1> SUFFICES ASSUME SleepInv, Sleep!Schedule PROVE SleepInv'
  OBVIOUS
<1>1. PICK r \in Sleep!Request :
        /\ app = "scheduling" /\ r.callback = "wake" /\ ~r.isRoutine /\ Sleep!EndAdd(r)
        /\ app' = "asleep" /\ mine' = r
        /\ torn' = (asked \div SleepWord # time \div SleepWord) /\ UNCHANGED <<asked, done, stray>>
  BY DEF Sleep!Schedule
<1>2. /\ \A q \in pending : q.id # r.id
      /\ adding \div SleepWord = time \div SleepWord => r.due \in adding + r.interval .. time + r.interval
      /\ pending' = pending \cup {r} /\ UNCHANGED <<time, firing>>
  BY <1>1 DEF Sleep!EndAdd, Sleep!Fresh
<1>3. firing = <<>> /\ adding = asked /\ ~done /\ time \in Nat /\ asked \in Nat
  BY <1>1 DEF SleepInv
<1>4. PICK p \in pending : IsRoutine(p) /\ \A q \in pending : q = p
  BY <1>1 DEF SleepInv, Waits
<1>5. IsSleep(r)
  BY <1>1, <1>2, <1>4 DEF IsSleep, IsRoutine
<1>6. ~torn' => r.due >= asked + r.interval
  <2>1. torn' = (asked \div SleepWord # time \div SleepWord)
    BY <1>1
  <2>2. ~torn' => asked \div SleepWord = time \div SleepWord
    BY <2>1, Zenon
  <2>3. ~torn' => r.due \in adding + r.interval .. time + r.interval
    BY <1>2, <1>3, <2>2
  <2>4. asked \in Nat /\ adding = asked /\ r.interval \in Nat
    BY <1>3, <1>5, SleepTypes DEF IsSleep
  <2>. QED BY <2>3, <2>4
<1>7. Waits(r)'
  BY <1>1, <1>2, <1>3, <1>5 DEF Waits, IsSleep
<1>. QED BY <1>1, <1>2, <1>3, <1>4, <1>5, <1>6, <1>7 DEF SleepInv, IsSleep

LEMMA PanicKeeps == SleepInv /\ Sleep!Panic => SleepInv'
<1> SUFFICES ASSUME SleepInv, Sleep!Panic PROVE SleepInv'
  OBVIOUS
<1>1. /\ app = "scheduling" /\ app' = "panic"
      /\ UNCHANGED <<time, pending, firing, mine, asked, done, torn, stray>>
  BY DEF Sleep!Panic, Sleep!Abort
<1>2. PICK p \in pending : IsRoutine(p) /\ \A r \in pending : r = p
  BY <1>1 DEF SleepInv, Waits
<1>. QED BY <1>1, <1>2 DEF SleepInv

LEMMA TimeKeeps == SleepInv /\ Sleep!Time => SleepInv'
<1> SUFFICES ASSUME SleepInv, Sleep!Time PROVE SleepInv'
  OBVIOUS
<1>1. /\ time' = time + 1 /\ UNCHANGED <<pending, firing, adding, app, mine, asked, done, torn, stray>>
  BY DEF Sleep!Time, Sleep!Tick
<1>2. \A r : Waits(r) => Waits(r)'
  BY <1>1 DEF Waits, IsSleep
<1>3. mine = Routine \/ IsSleep(mine) => mine.due \in Nat
  BY SleepTypes DEF IsSleep, IsRoutine
<1>. QED BY <1>1, <1>2, <1>3 DEF SleepInv, IsSleep

LEMMA WakeKeeps == SleepInv /\ Sleep!Wake => SleepInv'
<1> SUFFICES ASSUME SleepInv, Sleep!Wake PROVE SleepInv'
  OBVIOUS
<1>1. /\ app = "asleep" /\ firing = <<>> /\ done /\ app' = "awake"
      /\ UNCHANGED <<time, pending, firing, adding, mine, asked, done, torn, stray>>
  BY DEF Sleep!Wake, Sleep!vars
<1>2. PICK p \in pending : IsRoutine(p) /\ \A r \in pending : r = p
  BY <1>1 DEF SleepInv, Waits
<1>. QED BY <1>1, <1>2 DEF SleepInv, IsSleep

LEMMA CallKeeps == SleepInv /\ Sleep!Call => SleepInv'
<1> SUFFICES ASSUME SleepInv, Sleep!Call PROVE SleepInv'
  OBVIOUS
<1>1. /\ firing # <<>> /\ firing' = Tail(firing)
      /\ UNCHANGED <<time, pending, adding, app, mine, asked, torn>>
  BY DEF Sleep!Call, Sleep!Served
<1>2. /\ firing \in Seq(Nat) /\ 1 \in DOMAIN firing /\ Head(firing) = firing[1]
      /\ firing' \in Seq(Nat) /\ \A i \in DOMAIN firing' : i + 1 \in DOMAIN firing /\ firing'[i] = firing[i + 1]
  BY <1>1 DEF SleepInv
<1>3. PICK p \in pending : IsRoutine(p) /\ \A r \in pending : r = p \/ Waits(r)
  BY DEF SleepInv
<1>4. /\ stray = FALSE /\ done \in BOOLEAN /\ app # "scheduling"
      /\ mine = Routine \/ IsSleep(mine)
      /\ \A i \in DOMAIN firing :
           firing[i] = Routine.id \/ (firing[i] = mine.id /\ app = "asleep" /\ mine.due <= time)
  BY <1>1 DEF SleepInv
<1>5. CASE Head(firing) = mine.id /\ mine # Routine
  <2>1. /\ IsSleep(mine) /\ app = "asleep" /\ mine.due <= time
        /\ \A r \in pending : r = p
    BY <1>2, <1>3, <1>4, <1>5 DEF IsSleep, Waits
  <2>2. done' = TRUE /\ stray' = FALSE
    BY <1>4, <1>5, <2>1 DEF Sleep!Call
  <2>. QED BY <1>1, <1>2, <1>3, <1>4, <2>1, <2>2 DEF SleepInv, IsSleep
<1>6. CASE ~(Head(firing) = mine.id /\ mine # Routine)
  <2>1. done' = done /\ stray' = stray
    BY <1>6 DEF Sleep!Call
  <2>2. \A r : Waits(r) => Waits(r)'
    BY <1>1, <1>2, <2>1 DEF Waits, IsSleep
  <2>. QED BY <1>1, <1>2, <1>3, <1>4, <2>1, <2>2 DEF SleepInv, IsSleep
<1>. QED BY <1>5, <1>6

LEMMA SleepCardinality == \A S : Sleep!Cardinality(S) = Cardinality(S)
  BY DEF Sleep!Cardinality, Cardinality

LEMMA PassKeeps == SleepInv /\ Sleep!Pass => SleepInv'
<1> SUFFICES ASSUME SleepInv, Sleep!Pass PROVE SleepInv'
  OBVIOUS
<1>1. /\ app \in {"asleep", "awake"} /\ UNCHANGED <<app, mine, asked, done, torn, stray>>
      /\ \E S \in SUBSET pending :
           \E f \in [1 .. Cardinality(S) -> {r.id : r \in S}] : firing' = f /\ Sleep!Expire(S)
  BY SleepCardinality DEF Sleep!Pass
<1>2. PICK S \in SUBSET pending :
        \E f \in [1 .. Cardinality(S) -> {r.id : r \in S}] : firing' = f /\ Sleep!Expire(S)
  BY <1>1
<1>3. /\ firing = <<>> /\ \A r \in S : r.due <= time
      /\ pending' = (pending \ S) \cup
                     {[r EXCEPT !.due = @ + r.interval] : r \in {q \in S : q.isRoutine}}
      /\ UNCHANGED <<time, adding>>
  BY <1>2 DEF Sleep!Expire
<1>4. firing' \in [1 .. Cardinality(S) -> {r.id : r \in S}]
  BY <1>2
<1>5. PICK p \in pending : IsRoutine(p) /\ \A r \in pending : r = p \/ Waits(r)
  BY DEF SleepInv
<1>6. Cardinality(S) \in Nat
  <2>1. IsFiniteSet({p} \cup {mine})
    BY FS_Singleton, FS_AddElement
  <2>2. S \in SUBSET ({p} \cup {mine})
    BY <1>5 DEF Waits
  <2>. QED BY <2>1, <2>2, FS_Subset, FS_CardinalityType
<1>7. \A r \in S : r.id \in Nat
  BY <1>5, SleepTypes DEF Waits, IsSleep, IsRoutine
<1>8. firing' \in Seq(Nat)
  <2>1. firing' \in [1 .. Cardinality(S) -> Nat]
    BY <1>4, <1>7
  <2>. QED BY <1>6, <2>1
<1>9. \A i \in DOMAIN firing' :
        firing'[i] = Routine.id \/ (firing'[i] = mine.id /\ app = "asleep" /\ mine.due <= time)
  <2> SUFFICES ASSUME NEW i \in DOMAIN firing'
               PROVE  firing'[i] = Routine.id
                        \/ (firing'[i] = mine.id /\ app = "asleep" /\ mine.due <= time)
    OBVIOUS
  <2>1. PICK r \in S : firing'[i] = r.id
    BY <1>4
  <2>. QED BY <1>3, <1>5, <2>1 DEF IsRoutine, Waits
<1>10. \E n \in pending' : IsRoutine(n) /\ \A r \in pending' : r = n \/ Waits(r)'
  <2>1. ASSUME NEW r \in pending \ S, r # p PROVE Waits(r)'
    <3>1. Waits(r)
      BY <1>5, <2>1
    <3>2. \A i \in DOMAIN firing' : firing'[i] # mine.id
      <4> SUFFICES ASSUME NEW i \in DOMAIN firing', firing'[i] = mine.id PROVE FALSE
        OBVIOUS
      <4>1. PICK q \in S : firing'[i] = q.id
        BY <1>4
      <4>2. q # r /\ q.id = mine.id /\ q \in pending
        BY <2>1, <4>1
      <4>. QED BY <1>5, <3>1, <4>2 DEF Waits, IsRoutine, IsSleep
    <3>. QED BY <1>1, <3>1, <3>2 DEF Waits, IsSleep
  <2>2. \A q \in S : q.isRoutine => q = p
    BY <1>5 DEF Waits, IsSleep
  <2>3. CASE p \notin S
    <3>1. pending' = pending \ S
      BY <1>3, <2>2, <2>3
    <3>. QED BY <1>5, <2>1, <2>3, <3>1
  <2>4. CASE p \in S
    <3> DEFINE n == [p EXCEPT !.due = @ + p.interval]
    <3>1. p.isRoutine /\ pending' = (pending \ S) \cup {n}
      <4>1. p.isRoutine
        BY <1>5 DEF IsRoutine
      <4>2. {q \in S : q.isRoutine} = {p}
        BY <2>2, <2>4, <4>1
      <4>. QED BY <1>3, <4>1, <4>2
    <3>2. IsRoutine(n)
      BY <1>5, SleepTypes DEF IsRoutine
    <3> HIDE DEF n
    <3>3. \A r \in pending' : r = n \/ Waits(r)'
      BY <2>1, <2>4, <3>1
    <3>. QED BY <3>1, <3>2, <3>3
  <2>. QED BY <2>3, <2>4
<1>. QED BY <1>1, <1>3, <1>8, <1>9, <1>10 DEF SleepInv, IsSleep

LEMMA SleepKeeps == SleepInv /\ [Sleep!SleepNext]_sleepVars => SleepInv'
<1> SUFFICES ASSUME SleepInv, [Sleep!SleepNext]_sleepVars PROVE SleepInv'
  OBVIOUS
<1>1. CASE UNCHANGED sleepVars
  <2>1. UNCHANGED <<time, pending, firing, adding, app, mine, asked, done, torn, stray>>
    BY <1>1 DEF sleepVars
  <2>2. \A r : Waits(r) => Waits(r)'
    BY <2>1 DEF Waits, IsSleep
  <2>. QED BY <2>1, <2>2 DEF SleepInv, IsSleep
<1>. QED
  BY <1>1, SleepTicksKeeps, ScheduleKeeps, PanicKeeps, PassKeeps, CallKeeps, WakeKeeps, TimeKeeps
  DEF Sleep!SleepNext

LEMMA SleepHolds == SleepInv => Sleep!NoStrayFlag
<1> SUFFICES ASSUME SleepInv PROVE Sleep!NoStrayFlag
  OBVIOUS
<1>1. app = "awake" => \A r \in pending : r.callback # "wake"
  BY SleepTypes DEF SleepInv, Waits, IsRoutine
<1>. QED BY <1>1 DEF SleepInv, Sleep!NoStrayFlag

\* Only the end of the loop wakes the app, and it needs the flag.
LEMMA SleepStepInTime ==
  SleepInv /\ [Sleep!SleepNext]_sleepVars
    => (app = "asleep" /\ app' = "awake" /\ ~torn => time >= asked + mine.interval)
<1> SUFFICES ASSUME SleepInv, [Sleep!SleepNext]_sleepVars, app = "asleep", app' = "awake", ~torn
             PROVE  time >= asked + mine.interval
  OBVIOUS
<1>1. done
  BY DEF sleepVars, Sleep!SleepNext, Sleep!SleepTicks, Sleep!Schedule, Sleep!Panic, Sleep!Pass,
         Sleep!Call, Sleep!Wake, Sleep!Time
<1>. QED BY <1>1, SleepTypes DEF SleepInv, IsSleep

-----------------------------------------------------------------------------
(* The registers of the clock *)

LEMMA ClockTypes ==
  /\ ClockWord \in Nat /\ PerSecond \in Nat /\ Window \in Nat /\ MaxQuiet \in Nat /\ Margin \in Nat
  /\ Base \in Nat /\ Base > 1 /\ Fields \in Nat /\ Margin >= Fields
  /\ 1 <= Window /\ Window <= PerSecond - 1
  /\ MaxQuiet < ClockWord \div 2 - 1 /\ Window < ClockWord \div 2
  /\ LastSecond \in 1 .. Clock!Weight[Fields] - 1
  BY KernelAssumption DEF Clock!ClockAssumption

LEMMA WeightDef ==
  /\ Clock!Weight \in [0 .. Fields -> Nat \ {0}]
  /\ Clock!Weight[0] = 1 /\ \A k \in 1 .. Fields : Clock!Weight[k] = Base * Clock!Weight[k - 1]
<1> DEFINE X == Nat \ {0}
           F == [k \in 1 .. Fields |-> [w \in X |-> Base * w]]
           Round(h) == [k \in 0 .. Fields |-> IF k = 0 THEN 1 ELSE Base * h[k - 1]]
           made == CHOOSE h : h = Round(h)
<1>1. Fields \in Nat /\ Base \in Nat \ {0} /\ 1 \in X
  BY ClockTypes
<1>2. \A w \in X : Base * w \in X
  BY <1>1
<1>3. F \in Rounds(Fields, X) /\ \A k \in 1 .. Fields, w \in X : F[k][w] = Base * w
  BY <1>2 DEF Rounds
<1> HIDE DEF F, X
<1>4. PICK h : IsCourse(h, Fields, X, 1, F)
  BY <1>1, <1>3, CourseExists
<1>5. h \in [0 .. Fields -> X] /\ h[0] = 1 /\ \A k \in 1 .. Fields : h[k] = F[k][h[k - 1]]
  BY <1>4 DEF IsCourse
<1>6. \A k \in 1 .. Fields : k - 1 \in 0 .. Fields
  BY <1>1
<1>7. \A k \in 1 .. Fields : h[k] = Base * h[k - 1]
  BY <1>3, <1>5, <1>6
<1>8. h = Round(h)
  BY <1>1, <1>5, <1>7
<1>9. made = Round(made)
  <2> HIDE DEF Round
  <2>. QED BY <1>8
<1> HIDE DEF made
<1>10. /\ DOMAIN made = 0 .. Fields /\ made[0] = 1
       /\ \A k \in 1 .. Fields : made[k] = Base * made[k - 1]
  BY <1>1, <1>9
<1>11. made = [k \in 0 .. Fields |-> made[k]]
  BY <1>9
<1> HIDE DEF Round
<1> DEFINE S == {k \in 0 .. Fields : made[k] \in Nat \ {0}}
<1>12. 0 \in S
  BY <1>1, <1>10
<1>13. ASSUME NEW k \in 0 .. Fields - 1, k \in S PROVE k + 1 \in S
  <2>1. k + 1 \in 1 .. Fields /\ (k + 1) - 1 = k /\ made[k] \in Nat \ {0}
    BY <1>1, <1>13
  <2>2. made[k + 1] = Base * made[k]
    BY <1>10, <2>1
  <2>3. made[k + 1] \in Nat \ {0}
    BY <1>1, <2>1, <2>2
  <2>. QED BY <1>1, <2>1, <2>3
<1> HIDE DEF S
<1>14. 0 .. Fields \subseteq S
  BY <1>1, <1>12, <1>13, InductionUpTo
<1>15. \A k \in 0 .. Fields : made[k] \in Nat \ {0}
  BY <1>14 DEF S
<1>16. made \in [0 .. Fields -> Nat \ {0}]
  BY <1>11, <1>15
<1>17. Clock!Weight = made
  BY DEF Clock!Weight, made, Round
<1>. QED BY <1>10, <1>16, <1>17

\* One more digit
LEMMA NextDigit ==
  ASSUME NEW t \in Nat, NEW w \in Nat \ {0}, NEW b \in Nat \ {0}
  PROVE  b * w \in Nat \ {0} /\ t % (b * w) = (t % w) + ((t \div w) % b) * w
<1> DEFINE q == t \div w
           r == t % w
           p == q \div b
           d == q % b
           low == r + d * w
<1>1. q \in Nat /\ r \in 0 .. w - 1 /\ t = w * q + r
  BY Division
<1>2. p \in Nat /\ d \in 0 .. b - 1 /\ q = b * p + d
  BY <1>1, Division
<1> HIDE DEF q, r, p, d
<1>3. d * w \in Nat /\ d * w <= (b - 1) * w /\ (b - 1) * w = b * w - w /\ b * w \in Nat \ {0}
  BY <1>2
<1>4. low \in Nat /\ low < b * w
  BY <1>1, <1>3
<1>5. w * q = (b * w) * p + d * w
  <2>1. w * q = w * (b * p + d)
    BY <1>2
  <2>2. w * (b * p + d) = w * (b * p) + w * d
    BY <1>2
  <2>. QED BY <2>1, <2>2, <1>2
<1>6. t = (b * w) * p + low
  BY <1>1, <1>2, <1>3, <1>5
<1> DEFINE c == b * w
<1>7. c \in Nat \ {0} /\ low \in 0 .. c - 1 /\ t = c * p + low
  BY <1>3, <1>4, <1>6
<1> HIDE DEF c, low
<1>8. t % c = low
  BY <1>2, <1>7
<1>. QED BY <1>3, <1>8 DEF c, low, d, q, r

LEMMA SmallRemainder == ASSUME NEW t \in Nat, NEW w \in Nat \ {0}, t < w PROVE t % w = t
  OBVIOUS

\* The registers of a time are the digits of its number.
LEMMA ValueOfRegisters ==
  ASSUME NEW t \in Nat, t < Clock!Weight[Fields], NEW digits \in Seq(Nat), Len(digits) = Fields,
         \A k \in 0 .. Fields - 1 : digits[k + 1] = Clock!Register(k, t)
  PROVE  Clock!Value(digits) = t
<1> DEFINE n == Fields
           w == Clock!Weight
           Round(h) == [k \in 0 .. n |-> IF k = 0 THEN 0 ELSE h[k - 1] + digits[k] * w[k - 1]]
           made == CHOOSE h : h = Round(h)
           v == [k \in 0 .. n |-> t % w[k]]
<1>1. n \in Nat /\ Base \in Nat \ {0} /\ w \in [0 .. n -> Nat \ {0}] /\ w[0] = 1
      /\ \A k \in 1 .. n : w[k] = Base * w[k - 1]
  BY ClockTypes, WeightDef
<1>2. Clock!Value(digits) = made[n]
  BY DEF Clock!Value
<1>3. ASSUME NEW k \in 1 .. n PROVE t % w[k] = (t % w[k - 1]) + digits[k] * w[k - 1]
  <2>1. k - 1 \in 0 .. n - 1 /\ k - 1 \in 0 .. n /\ (k - 1) + 1 = k
    BY <1>1
  <2>2. digits[k] = (t \div w[k - 1]) % Base
    BY <2>1 DEF Clock!Register
  <2>3. w[k] = Base * w[k - 1] /\ w[k - 1] \in Nat \ {0}
    BY <1>1, <2>1
  <2> DEFINE u == w[k - 1]
  <2>4. u \in Nat \ {0} /\ Base \in Nat \ {0}
    BY <1>1, <2>3
  <2>5. digits[k] = (t \div u) % Base /\ w[k] = Base * u
    BY <2>2, <2>3
  <2> HIDE DEF u
  <2>6. t % (Base * u) = (t % u) + ((t \div u) % Base) * u
    BY <2>4, NextDigit
  <2>7. t % w[k] = (t % u) + digits[k] * u
    BY <2>5, <2>6
  <2>. QED BY <2>7 DEF u
<1>4. t % w[0] = 0
  BY <1>1
<1> HIDE DEF w
<1>5. v = Round(v)
  <2>1. \A k \in 1 .. n : k - 1 \in 0 .. n
    BY <1>1
  <2>2. \A k \in 0 .. n : v[k] = IF k = 0 THEN 0 ELSE v[k - 1] + digits[k] * w[k - 1]
    BY <1>1, <1>3, <1>4, <2>1
  <2>. QED BY <2>2
<1>6. made = Round(made)
  <2> HIDE DEF Round, v
  <2>. QED BY <1>5
<1> HIDE DEF made
<1>7. made[0] = 0 /\ \A k \in 1 .. n : made[k] = made[k - 1] + digits[k] * w[k - 1]
  <2>1. \A k \in 0 .. n : made[k] = IF k = 0 THEN 0 ELSE made[k - 1] + digits[k] * w[k - 1]
    BY <1>6
  <2>2. 0 \in 0 .. n /\ \A k \in 1 .. n : k \in 0 .. n /\ k # 0
    BY <1>1
  <2> HIDE DEF n
  <2>. QED BY <2>1, <2>2
<1> HIDE DEF Round, v
<1> DEFINE S == {k \in 0 .. n : made[k] = t % w[k]}
<1>8. 0 \in S
  BY <1>1, <1>4, <1>7
<1>9. ASSUME NEW k \in 0 .. n - 1, k \in S PROVE k + 1 \in S
  <2>1. k + 1 \in 1 .. n /\ k + 1 \in 0 .. n /\ (k + 1) - 1 = k /\ made[k] = t % w[k]
    BY <1>1, <1>9
  <2>2. made[k + 1] = made[k] + digits[k + 1] * w[k] /\ t % w[k + 1] = (t % w[k]) + digits[k + 1] * w[k]
    BY <1>3, <1>7, <2>1
  <2>. QED BY <2>1, <2>2
<1> HIDE DEF S, n
<1>10. 0 .. n \subseteq S
  BY <1>1, <1>8, <1>9, InductionUpTo
<1>11. made[n] = t % w[n]
  BY <1>1, <1>10 DEF S
<1>12. t % w[n] = t
  <2> DEFINE u == w[n]
  <2>1. u \in Nat \ {0} /\ t < u
    BY <1>1 DEF n, w
  <2> HIDE DEF u
  <2>2. t % u = t
    BY <2>1, SmallRemainder
  <2>. QED BY <2>2 DEF u
<1>. QED BY <1>2, <1>11, <1>12

-----------------------------------------------------------------------------
(* The clock *)

LEMMA Remainders ==
  ASSUME NEW w \in Nat \ {0}, NEW a \in 0 .. w - 1, NEW c \in 0 .. w - 1
  PROVE  /\ a >= c => (a - c) % w = a - c
         /\ a < c => (a - c) % w = (a - c) + w
         /\ a + 1 < w => (a + 1) % w = a + 1
         /\ a + 1 = w => (a + 1) % w = 0
<1>1. ASSUME a < c PROVE (a - c) % w = (a - c) + w
  <2> DEFINE x == a - c
  <2>1. x \in Int /\ x < 0 /\ 0 <= x + w /\ x + w < w /\ x = w * (-1) + (x + w)
    BY <1>1
  <2> HIDE DEF x
  <2>2. x \div w \in Int /\ x % w \in 0 .. w - 1 /\ x = w * (x \div w) + (x % w)
    BY <2>1
  <2> DEFINE q == x \div w
             r == x % w
  <2>3. q \in Int /\ r \in Int /\ 0 <= r /\ r < w /\ x = w * q + r
    BY <2>2
  <2> HIDE DEF q, r
  <2>4. q = -1
    <3>1. ASSUME q >= 0 PROVE FALSE
      BY <2>1, <2>3, <3>1
    <3>2. ASSUME q <= -2 PROVE FALSE
      <4>1. w * q <= w * (-2)
        BY <2>3, <3>2
      <4>. QED BY <2>1, <2>3, <4>1
    <3>. QED BY <2>3, <3>1, <3>2
  <2>. QED BY <2>1, <2>3, <2>4 DEF r, x
<1>2. ASSUME a >= c PROVE (a - c) % w = a - c
  BY <1>2
<1>3. ASSUME a + 1 < w PROVE (a + 1) % w = a + 1
  BY <1>3
<1>4. ASSUME a + 1 = w PROVE (a + 1) % w = 0
  BY <1>4
<1>. QED BY <1>1, <1>2, <1>3, <1>4

\* The age of the time that is kept, as the code computes it, and the ticks since the start.
Age == (tick - cacheTick) % ClockWord
Passed == now * PerSecond + phase + (IF due THEN PerSecond ELSE 0)

LEMMA AgeType ==
  ASSUME ClockWord \in Nat \ {0}, tick \in 0 .. ClockWord - 1, cacheTick \in 0 .. ClockWord - 1
  PROVE  /\ Age \in 0 .. ClockWord - 1
         /\ (tick >= cacheTick => Age = tick - cacheTick)
         /\ (tick < cacheTick => Age = (tick - cacheTick) + ClockWord)
  BY Remainders DEF Age

\* A tick later
LEMMA AgeGrows ==
  ASSUME ClockWord \in Nat \ {0}, tick \in 0 .. ClockWord - 1, cacheTick \in 0 .. ClockWord - 1,
         tick' = (tick + 1) % ClockWord, cacheTick' = cacheTick, Age + 1 < ClockWord
  PROVE  Age' = Age + 1
<1>1. tick' = IF tick + 1 = ClockWord THEN 0 ELSE tick + 1
  BY Remainders
<1>2. tick' \in 0 .. ClockWord - 1 /\ cacheTick' \in 0 .. ClockWord - 1
  BY <1>1
<1>3. /\ (tick' >= cacheTick' => Age' = tick' - cacheTick')
      /\ (tick' < cacheTick' => Age' = (tick' - cacheTick') + ClockWord)
  BY <1>2, Remainders DEF Age
<1>4. /\ (tick >= cacheTick => Age = tick - cacheTick)
      /\ (tick < cacheTick => Age = (tick - cacheTick) + ClockWord)
  BY AgeType
<1>. QED BY <1>1, <1>2, <1>3, <1>4

\* The registers that were read are those of one time: of the one shown now, or, when the
\* clock changed after the last of them was read, of the one before, and then it does not
\* change again before the call returns.
ReadAt(t) == \A k \in 0 .. Len(got) - 1 : got[k + 1] = Clock!Register(k, t)
OneTime ==
  \/ ReadAt(now) /\ (updating => since <= Len(got))
  \/ /\ ReadAt(now - 1) /\ Len(got) = Fields /\ began <= now - 1
     /\ ~due /\ (phase = 0 \/ (phase = 1 /\ hit))

\* Between two calls, either none was made yet, or the time that is kept was the clock's
\* Age ticks ago, and less than a wrap of the ticks has passed since.
NeverCalled == tick = quiet /\ cacheTick = ClockWord \div 2 - 1
KeptRight ==
  /\ result = cached /\ cached <= now /\ Age <= Window - 1 + quiet
  /\ cached * PerSecond <= Passed - Age
  /\ Passed - Age <= cached * PerSecond + PerSecond + 1

ClockInv ==
  /\ tick \in 0 .. ClockWord - 1 /\ cacheTick \in 0 .. ClockWord - 1
  /\ phase \in 0 .. PerSecond - 1 /\ now \in 1 .. LastSecond
  /\ due \in BOOLEAN /\ updating \in BOOLEAN /\ hit \in BOOLEAN
  /\ since \in Nat /\ quiet \in 0 .. MaxQuiet /\ cached \in 0 .. Clock!Weight[Fields] - 1
  /\ pc \in {"idle", "wait", "read"}
  /\ got \in Seq(0 .. Base - 1) /\ Len(got) <= Fields
  /\ result \in Nat /\ began \in Nat /\ result <= now
  /\ updating => due /\ now < LastSecond
  /\ due => phase = 0
  /\ hit => pc = "read"
  /\ pc # "idle" => result <= began /\ began <= now
  /\ pc = "read" => OneTime
  /\ pc = "idle" => NeverCalled \/ KeptRight

LEMMA ClockNumbers ==
  /\ ClockWord \in Nat \ {0} /\ PerSecond \in Nat /\ PerSecond >= 2 /\ Window \in Nat
  /\ 1 <= Window /\ Window <= PerSecond - 1 /\ MaxQuiet \in Nat
  /\ ClockWord \div 2 \in Nat /\ 2 * (ClockWord \div 2) <= ClockWord
  /\ MaxQuiet + 1 < ClockWord \div 2 /\ Window < ClockWord \div 2
  /\ Fields \in Nat /\ Margin \in Nat /\ Margin >= Fields /\ Base \in Nat \ {0}
  /\ LastSecond \in Nat /\ Clock!Weight[Fields] \in Nat /\ LastSecond < Clock!Weight[Fields]
<1>1. Clock!Weight[Fields] \in Nat /\ LastSecond < Clock!Weight[Fields] /\ LastSecond \in Nat
  BY ClockTypes, WeightDef
<1>. QED BY <1>1, ClockTypes

LEMMA RegisterType ==
  ASSUME NEW k \in 0 .. Fields, NEW t \in Nat
  PROVE  Clock!Register(k, t) \in 0 .. Base - 1
<1> DEFINE w == Clock!Weight[k]
           q == t \div w
<1>1. w \in Nat \ {0} /\ Base \in Nat \ {0}
  BY WeightDef, ClockNumbers
<1>2. q \in Nat
  BY <1>1, Division
<1> HIDE DEF q
<1>3. q % Base \in 0 .. Base - 1
  BY <1>1, <1>2
<1>. QED BY <1>3 DEF Clock!Register, q

LEMMA ClockStarts == Init => ClockInv
<1> SUFFICES ASSUME Init PROVE ClockInv
  OBVIOUS
<1>1. /\ tick = 0 /\ phase = 0 /\ now = 1 /\ due = FALSE /\ updating = FALSE /\ since = 0 /\ hit = FALSE
      /\ cached = 0 /\ cacheTick = ClockWord \div 2 - 1
      /\ pc = "idle" /\ got = <<>> /\ result = 1 /\ began = 1 /\ quiet = 0
  BY DEF Init, Clock!Init
<1>2. now \in 1 .. LastSecond
  BY <1>1, ClockTypes
<1>3. NeverCalled
  BY <1>1 DEF NeverCalled
<1>4. cacheTick \in 0 .. ClockWord - 1 /\ cached \in 0 .. Clock!Weight[Fields] - 1
  <2> HIDE DEF Clock!Weight
  <2>. QED BY <1>1, ClockNumbers
<1>5. got \in Seq(0 .. Base - 1) /\ Len(got) <= Fields
  BY <1>1, ClockNumbers
<1>6. /\ tick \in 0 .. ClockWord - 1 /\ phase \in 0 .. PerSecond - 1 /\ quiet \in 0 .. MaxQuiet
      /\ result <= now
  BY <1>1, ClockNumbers
<1>. QED BY <1>1, <1>2, <1>3, <1>4, <1>5, <1>6 DEF ClockInv

\* A tick is one more since the start, also the tick with which a second is due.
LEMMA TickPasses ==
  ASSUME phase \in 0 .. PerSecond - 1, now \in Nat, ~due, now' = now,
         phase' = (phase + 1) % PerSecond, due' = (phase' = 0)
  PROVE  Passed' = Passed + 1 /\ phase' \in 0 .. PerSecond - 1 /\ (phase = 0 => phase' = 1)
<1>1. phase' = IF phase + 1 = PerSecond THEN 0 ELSE phase + 1
  BY ClockNumbers, Remainders
<1>2. now * PerSecond \in Nat
  BY ClockNumbers
<1>3. Passed = now * PerSecond + phase
  BY <1>2 DEF Passed
<1>4. CASE phase + 1 = PerSecond
  <2>1. phase' = 0 /\ due'
    BY <1>1, <1>4
  <2>2. Passed' = now * PerSecond + 0 + PerSecond
    BY <2>1 DEF Passed
  <2>. QED BY <1>2, <1>3, <1>4, <2>1, <2>2, ClockNumbers
<1>5. CASE phase + 1 # PerSecond
  <2>1. phase' = phase + 1 /\ phase' # 0
    BY <1>1, <1>5
  <2>3. ~due'
    BY <2>1, Zenon
  <2>2. Passed' = now * PerSecond + (phase + 1) + 0
    BY <2>1, <2>3 DEF Passed
  <2>. QED BY <1>2, <1>3, <1>5, <2>1, <2>2, <2>3, ClockNumbers
<1>. QED BY <1>4, <1>5

LEMMA TickKeeps == ClockInv /\ Clock!Tick => ClockInv'
<1> SUFFICES ASSUME ClockInv, Clock!Tick PROVE ClockInv'
  OBVIOUS
<1>1. /\ ~due /\ quiet < MaxQuiet /\ ~hit /\ hit' = (pc = "read")
      /\ tick' = (tick + 1) % ClockWord /\ phase' = (phase + 1) % PerSecond
      /\ due' = (phase' = 0) /\ quiet' = quiet + 1
      /\ UNCHANGED <<now, updating, since, cached, cacheTick, pc, got, result, began>>
  BY DEF Clock!Tick
<1>2. /\ tick \in 0 .. ClockWord - 1 /\ cacheTick \in 0 .. ClockWord - 1 /\ quiet \in 0 .. MaxQuiet
      /\ phase \in 0 .. PerSecond - 1 /\ now \in Nat /\ ~updating
  BY <1>1, ClockNumbers DEF ClockInv
<1>3. Passed' = Passed + 1 /\ phase' \in 0 .. PerSecond - 1 /\ (phase = 0 => phase' = 1)
  BY <1>1, <1>2, TickPasses
<1>4. tick' \in 0 .. ClockWord - 1
  BY <1>1, <1>2, ClockNumbers, Remainders
<1>5. pc = "idle" => (NeverCalled \/ KeptRight)'
  <2> SUFFICES ASSUME pc = "idle" PROVE (NeverCalled \/ KeptRight)'
    OBVIOUS
  <2>1. CASE NeverCalled
    <3>1. tick + 1 < ClockWord /\ tick = quiet
      BY <1>1, <1>2, <2>1, ClockNumbers DEF NeverCalled
    <3>2. tick' = quiet'
      BY <1>1, <1>2, <3>1, ClockNumbers, Remainders
    <3>. QED BY <1>1, <2>1, <3>2 DEF NeverCalled
  <2>2. CASE KeptRight
    <3>1. Age \in Nat /\ Age <= Window - 1 + quiet
      BY <1>2, <2>2, AgeType, ClockNumbers DEF KeptRight
    <3>2. Age + 1 < ClockWord
      BY <1>1, <1>2, <3>1, ClockNumbers
    <3>3. Age' = Age + 1
      BY <1>1, <1>2, <3>2, AgeGrows, ClockNumbers
    <3>4. Passed \in Nat
      BY <1>2, ClockNumbers DEF Passed
    <3>5. Passed' - Age' = Passed - Age /\ Age' <= Window - 1 + quiet'
      BY <1>1, <1>2, <1>3, <3>1, <3>3, <3>4, ClockNumbers
    <3>. QED BY <1>1, <2>2, <3>5 DEF KeptRight
  <2>. QED BY <2>1, <2>2 DEF ClockInv
<1>6. pc = "read" => OneTime'
  <2> SUFFICES ASSUME pc = "read" PROVE OneTime'
    OBVIOUS
  <2>1. CASE ReadAt(now) /\ (updating => since <= Len(got))
    BY <1>1, <2>1 DEF OneTime, ReadAt
  <2>2. CASE /\ ReadAt(now - 1) /\ Len(got) = Fields /\ began <= now - 1
             /\ ~due /\ (phase = 0 \/ (phase = 1 /\ hit))
    <3>3. phase = 0
      BY <1>1, <2>2
    <3>4. phase' = 1 /\ phase' # 0
      BY <1>3, <3>3
    <3>5. hit'
      BY <1>1, Zenon
    <3>1. phase' = 1 /\ ~due' /\ hit'
      BY <1>1, <3>4, <3>5, Zenon
    <3>2. ReadAt(now - 1)'
      BY <1>1, <2>2 DEF ReadAt
    <3>. QED BY <1>1, <2>2, <3>1, <3>2 DEF OneTime
  <2>. QED BY <2>1, <2>2 DEF ClockInv, OneTime
<1>7. due' \in BOOLEAN /\ hit' \in BOOLEAN /\ (due' => phase' = 0) /\ (hit' => pc' = "read")
  BY <1>1
<1>8. quiet' \in 0 .. MaxQuiet
  BY <1>1, <1>2, ClockNumbers
<1>. QED BY <1>1, <1>2, <1>3, <1>4, <1>5, <1>6, <1>7, <1>8 DEF ClockInv

LEMMA RaiseFlagKeeps == ClockInv /\ Clock!RaiseFlag => ClockInv'
<1> SUFFICES ASSUME ClockInv, Clock!RaiseFlag PROVE ClockInv'
  OBVIOUS
<1>1. /\ due /\ ~updating /\ now < LastSecond /\ updating' = TRUE
      /\ since' = (IF pc = "read" THEN 0 ELSE Margin)
      /\ UNCHANGED <<tick, phase, now, due, hit, cached, cacheTick, pc, got, result, began, quiet>>
  BY DEF Clock!RaiseFlag
<1>2. since' \in Nat /\ Len(got) \in Nat
  BY <1>1, ClockNumbers DEF ClockInv
<1>3. pc = "read" => OneTime'
  <2> SUFFICES ASSUME pc = "read" PROVE OneTime'
    OBVIOUS
  <2>1. ReadAt(now) /\ since' = 0
    BY <1>1 DEF ClockInv, OneTime
  <2>. QED BY <1>1, <1>2, <2>1 DEF OneTime, ReadAt
<1>4. pc = "idle" => (NeverCalled \/ KeptRight)'
  BY <1>1 DEF ClockInv, NeverCalled, KeptRight, Age, Passed
<1>. QED BY <1>1, <1>2, <1>3, <1>4 DEF ClockInv

LEMMA UpdateKeeps == ClockInv /\ Clock!Update => ClockInv'
<1> SUFFICES ASSUME ClockInv, Clock!Update PROVE ClockInv'
  OBVIOUS
<1>1. /\ updating /\ (pc = "read" => since >= Margin)
      /\ now' = now + 1 /\ updating' = FALSE /\ due' = FALSE
      /\ UNCHANGED <<tick, phase, since, hit, cached, cacheTick, pc, got, result, began, quiet>>
  BY DEF Clock!Update
<1>2. /\ due /\ phase = 0 /\ now \in 1 .. LastSecond /\ now < LastSecond /\ LastSecond \in Nat
      /\ result \in Nat /\ began \in Nat /\ result <= now /\ (pc # "idle" => result <= began /\ began <= now)
      /\ since \in Nat /\ Len(got) \in Nat /\ Len(got) <= Fields
  BY <1>1, ClockNumbers DEF ClockInv
<1>3. now' \in 1 .. LastSecond /\ result <= now' /\ (pc # "idle" => result <= began /\ began <= now')
  BY <1>1, <1>2
<1>4. Passed' = Passed
  <2>1. Passed = now * PerSecond + 0 + PerSecond
    BY <1>2 DEF Passed
  <2>2. Passed' = (now + 1) * PerSecond + 0 + 0
    BY <1>1, <1>2 DEF Passed
  <2>3. (now + 1) * PerSecond = now * PerSecond + PerSecond /\ now * PerSecond \in Nat
    BY <1>2, ClockNumbers
  <2>. QED BY <2>1, <2>2, <2>3, ClockNumbers
<1>5. pc = "idle" => (NeverCalled \/ KeptRight)'
  <2>1. cached \in Nat
    BY ClockNumbers DEF ClockInv
  <2>2. KeptRight => KeptRight'
    BY <1>1, <1>2, <1>4, <2>1 DEF KeptRight, Age
  <2>. QED BY <1>1, <2>2 DEF ClockInv, NeverCalled
<1>6. pc = "read" => OneTime'
  <2> SUFFICES ASSUME pc = "read" PROVE OneTime'
    OBVIOUS
  <2>1. ReadAt(now) /\ since <= Len(got) /\ began <= now
    BY <1>1, <1>2 DEF ClockInv, OneTime
  <2>2. Len(got) = Fields
    BY <1>1, <1>2, <2>1, ClockNumbers
  <2>3. now' - 1 = now
    BY <1>1, <1>2
  <2>4. ReadAt(now - 1)'
    BY <1>1, <2>1, <2>3 DEF ReadAt
  <2>. QED BY <1>1, <1>2, <2>1, <2>2, <2>3, <2>4 DEF OneTime
<1>. QED BY <1>1, <1>2, <1>3, <1>5, <1>6 DEF ClockInv

\* Before the first call nothing is kept.
LEMMA KeptIsRight == ClockInv /\ pc = "idle" /\ Clock!Kept => KeptRight /\ Age < Window /\ Age \in Nat
<1> SUFFICES ASSUME ClockInv, pc = "idle", Clock!Kept PROVE KeptRight /\ Age < Window /\ Age \in Nat
  OBVIOUS
<1>1. /\ tick \in 0 .. ClockWord - 1 /\ cacheTick \in 0 .. ClockWord - 1 /\ quiet \in 0 .. MaxQuiet
      /\ (NeverCalled \/ KeptRight)
  BY DEF ClockInv
<1>2. Age < Window
  BY DEF Clock!Kept, Age
<1>3. Age \in 0 .. ClockWord - 1 /\ (tick < cacheTick => Age = (tick - cacheTick) + ClockWord)
  BY <1>1, AgeType, ClockNumbers
<1>4. ASSUME NeverCalled PROVE FALSE
  <2>1. tick = quiet /\ cacheTick = ClockWord \div 2 - 1
    BY <1>4 DEF NeverCalled
  <2>2. tick < cacheTick
    BY <1>1, <2>1, ClockNumbers
  <2>3. Age = (tick - cacheTick) + ClockWord
    BY <1>3, <2>2
  <2>. QED BY <1>1, <1>2, <2>1, <2>3, ClockNumbers
<1>. QED BY <1>1, <1>2, <1>3, <1>4, ClockNumbers

LEMMA ClockCallKeeps == ClockInv /\ Clock!Call => ClockInv'
<1> SUFFICES ASSUME ClockInv, Clock!Call PROVE ClockInv'
  OBVIOUS
<1>1. /\ pc = "idle" /\ began' = now /\ quiet' = 0
      /\ UNCHANGED <<tick, phase, now, due, updating, since, hit, cached, cacheTick, got>>
  BY DEF Clock!Call, Clock!clock
<1>2. now \in Nat /\ result \in Nat /\ result <= now /\ quiet' \in 0 .. MaxQuiet
  BY <1>1, ClockNumbers DEF ClockInv
<1>3. CASE Clock!Kept
  <2>1. result' = cached /\ pc' = pc
    BY <1>3 DEF Clock!Call
  <2>2. KeptRight /\ Age < Window /\ Age \in Nat
    BY <1>1, <1>3, KeptIsRight
  <2>3. Age' = Age /\ Passed' = Passed /\ result' = result
    BY <1>1, <2>1, <2>2 DEF Age, Passed, KeptRight
  <2>4. KeptRight'
    BY <1>1, <2>1, <2>2, <2>3, ClockNumbers DEF KeptRight
  <2>. QED BY <1>1, <1>2, <2>1, <2>3, <2>4 DEF ClockInv
<1>4. CASE ~Clock!Kept
  <2>1. result' = result /\ pc' = "wait"
    BY <1>4 DEF Clock!Call
  <2>. QED BY <1>1, <1>2, <2>1 DEF ClockInv
<1>. QED BY <1>3, <1>4

LEMMA StartReadingKeeps == ClockInv /\ Clock!StartReading => ClockInv'
<1> SUFFICES ASSUME ClockInv, Clock!StartReading PROVE ClockInv'
  OBVIOUS
<1>1. /\ pc = "wait" /\ ~updating /\ pc' = "read" /\ got' = <<>>
      /\ UNCHANGED <<tick, phase, now, due, updating, since, hit, cached, cacheTick, result, began, quiet>>
  BY DEF Clock!StartReading, Clock!clock
<1>2. OneTime'
  BY <1>1 DEF OneTime, ReadAt
<1>3. got' \in Seq(0 .. Base - 1) /\ Len(got)' <= Fields
  BY <1>1, ClockNumbers
<1>. QED BY <1>1, <1>2, <1>3 DEF ClockInv

LEMMA ReadRegisterKeeps == ClockInv /\ Clock!ReadRegister => ClockInv'
<1> SUFFICES ASSUME ClockInv, Clock!ReadRegister PROVE ClockInv'
  OBVIOUS
<1>1. /\ pc = "read" /\ Len(got) < Fields /\ since' = since + 1
      /\ got' = Append(got, Clock!Register(Len(got), now))
      /\ UNCHANGED <<tick, phase, now, due, updating, hit, cached, cacheTick, pc, result, began, quiet>>
  BY DEF Clock!ReadRegister, Clock!clock
<1>2. got \in Seq(0 .. Base - 1) /\ Len(got) \in 0 .. Fields /\ now \in Nat /\ since \in Nat
  BY <1>1, ClockNumbers DEF ClockInv
<1> DEFINE r == Clock!Register(Len(got), now)
<1>3. r \in 0 .. Base - 1
  BY <1>2, RegisterType
<1>4. got' = Append(got, r)
  BY <1>1
<1> HIDE DEF r
<1>5. got' \in Seq(0 .. Base - 1) /\ Len(got') = Len(got) + 1 /\ Len(got') <= Fields
  BY <1>1, <1>2, <1>3, <1>4, ClockNumbers
<1>6. ReadAt(now) /\ (updating => since <= Len(got))
  BY <1>1, <1>2 DEF ClockInv, OneTime
<1>7. ReadAt(now)'
  <2> SUFFICES ASSUME NEW k \in 0 .. Len(got') - 1 PROVE got'[k + 1] = Clock!Register(k, now)
    BY <1>1 DEF ReadAt
  <2>1. CASE k = Len(got)
    BY <1>2, <1>3, <1>4, <2>1 DEF r
  <2>2. CASE k # Len(got)
    <3>1. k \in 0 .. Len(got) - 1
      BY <1>2, <1>5, <2>2
    <3>2. got'[k + 1] = got[k + 1]
      BY <1>2, <1>3, <1>4, <3>1
    <3>. QED BY <1>6, <3>1, <3>2 DEF ReadAt
  <2>. QED BY <2>1, <2>2
<1>8. OneTime'
  BY <1>1, <1>2, <1>5, <1>6, <1>7 DEF OneTime
<1>. QED BY <1>1, <1>2, <1>5, <1>8 DEF ClockInv

\* The registers that Return puts together are those of a time that the clock showed during
\* the call, and not much more than a second ago.
LEMMA ReadIsRight ==
  ClockInv /\ Clock!Return
    => /\ Clock!Value(got) \in {now - 1, now} /\ began <= Clock!Value(got)
       /\ Clock!Value(got) * PerSecond <= Passed
       /\ Passed <= Clock!Value(got) * PerSecond + PerSecond + 1
<1> SUFFICES ASSUME ClockInv, Clock!Return
             PROVE  \E v \in {now - 1, now} : /\ Clock!Value(got) = v /\ began <= v
                      /\ v * PerSecond <= Passed /\ Passed <= v * PerSecond + PerSecond + 1
  OBVIOUS
<1>1. pc = "read" /\ Len(got) = Fields
  BY DEF Clock!Return
<1>2. /\ now \in Nat /\ now >= 1 /\ now < Clock!Weight[Fields] /\ began <= now /\ began \in Nat
      /\ phase \in 0 .. PerSecond - 1 /\ (due => phase = 0) /\ OneTime
  BY <1>1, ClockNumbers DEF ClockInv
<1>3. got \in Seq(Nat)
  BY ClockNumbers DEF ClockInv
<1>4. ASSUME NEW v \in Nat, v < Clock!Weight[Fields], ReadAt(v) PROVE Clock!Value(got) = v
  <2>1. \A k \in 0 .. Fields - 1 : got[k + 1] = Clock!Register(k, v)
    BY <1>1, <1>4 DEF ReadAt
  <2>. QED BY <1>1, <1>3, <1>4, <2>1, ValueOfRegisters
<1>5. now * PerSecond \in Nat /\ (now - 1) * PerSecond = now * PerSecond - PerSecond
  BY <1>2, ClockNumbers
<1>6. CASE ReadAt(now)
  <2>1. now * PerSecond <= Passed /\ Passed <= now * PerSecond + PerSecond
    BY <1>2, <1>5, ClockNumbers DEF Passed
  <2>2. Passed <= now * PerSecond + PerSecond + 1
    BY <1>2, <1>5, <2>1, ClockNumbers DEF Passed
  <2>. QED BY <1>2, <1>4, <1>6, <2>1, <2>2
<1>7. CASE ReadAt(now - 1) /\ began <= now - 1 /\ ~due /\ (phase = 0 \/ (phase = 1 /\ hit))
  <2>1. Passed = now * PerSecond + phase /\ phase <= 1
    BY <1>2, <1>5, <1>7 DEF Passed
  <2>2. (now - 1) * PerSecond <= Passed /\ Passed <= (now - 1) * PerSecond + PerSecond + 1
    BY <1>2, <1>5, <2>1, ClockNumbers
  <2>3. now - 1 \in Nat /\ now - 1 < Clock!Weight[Fields]
    BY <1>2, ClockNumbers
  <2>. QED BY <1>4, <1>7, <2>2, <2>3
<1>. QED BY <1>2, <1>6, <1>7 DEF OneTime

LEMMA ReturnKeeps == ClockInv /\ Clock!Return => ClockInv'
<1> SUFFICES ASSUME ClockInv, Clock!Return PROVE ClockInv'
  OBVIOUS
<1> DEFINE v == Clock!Value(got)
<1>1. /\ pc = "read" /\ cached' = v /\ cacheTick' = tick /\ result' = v /\ pc' = "idle" /\ hit' = FALSE
      /\ UNCHANGED <<tick, phase, now, due, updating, since, got, began, quiet>>
  BY DEF Clock!Return, Clock!clock
<1>2. /\ v \in {now - 1, now} /\ began <= v
      /\ v * PerSecond <= Passed /\ Passed <= v * PerSecond + PerSecond + 1
  BY ReadIsRight
<1> HIDE DEF v
<1>3. /\ now \in 1 .. LastSecond /\ quiet \in 0 .. MaxQuiet
      /\ tick \in 0 .. ClockWord - 1 /\ phase \in 0 .. PerSecond - 1
  BY DEF ClockInv
<1>4. v \in 0 .. Clock!Weight[Fields] - 1 /\ v \in Nat /\ v <= now
  BY <1>2, <1>3, ClockNumbers
<1>5. Age' = 0 /\ Passed' = Passed /\ Passed \in Nat
  <2>1. tick - tick = 0 /\ 0 % ClockWord = 0
    BY <1>3, ClockNumbers
  <2>2. Passed \in Nat
    BY <1>3, ClockNumbers DEF Passed
  <2>. QED BY <1>1, <2>1, <2>2 DEF Age, Passed
<1>6. KeptRight'
  <2>1. v * PerSecond <= Passed' - Age' /\ Passed' - Age' <= v * PerSecond + PerSecond + 1
    BY <1>2, <1>5
  <2>2. Age' <= Window - 1 + quiet'
    BY <1>1, <1>3, <1>5, ClockNumbers
  <2>. QED BY <1>1, <1>4, <2>1, <2>2 DEF KeptRight
<1>. QED BY <1>1, <1>3, <1>4, <1>6 DEF ClockInv

LEMMA ClockKeeps == ClockInv /\ [Clock!Next]_clockVars => ClockInv'
<1> SUFFICES ASSUME ClockInv, [Clock!Next]_clockVars PROVE ClockInv'
  OBVIOUS
<1>1. CASE UNCHANGED clockVars
  <2>1. UNCHANGED <<tick, phase, now, due, updating, since, hit, cached, cacheTick, pc, got, result,
                    began, quiet>>
    BY <1>1 DEF clockVars
  <2>. QED BY <2>1 DEF ClockInv, OneTime, ReadAt, NeverCalled, KeptRight, Age, Passed
<1>. QED
  BY <1>1, TickKeeps, RaiseFlagKeeps, UpdateKeeps, ClockCallKeeps, StartReadingKeeps, ReadRegisterKeeps,
     ReturnKeeps DEF Clock!Next

LEMMA ClockHolds == ClockInv => Clock!TypeOK
<1> SUFFICES ASSUME ClockInv PROVE Clock!TypeOK
  OBVIOUS
<1>1. /\ tick \in 0 .. ClockWord - 1 /\ cacheTick \in 0 .. ClockWord - 1
      /\ cached \in 0 .. Clock!Weight[Fields] - 1 /\ got \in Seq(0 .. Base - 1) /\ Len(got) <= Fields
  BY DEF ClockInv
<1>2. Len(got) \in 0 .. Fields /\ got \in [1 .. Len(got) -> 0 .. Base - 1]
  BY <1>1, ClockNumbers
<1>. QED BY <1>1, <1>2 DEF Clock!TypeOK

LEMMA ClockStepNotTorn == ClockInv /\ Clock!Return => result' \in began .. now
<1> SUFFICES ASSUME ClockInv, Clock!Return PROVE result' \in began .. now
  OBVIOUS
<1>1. now \in Nat /\ began \in Nat
  BY ClockNumbers DEF ClockInv
<1>2. result' = Clock!Value(got)
  BY DEF Clock!Return
<1>. QED BY <1>1, <1>2, ReadIsRight

\* A time that is kept is less than a second old in ticks: two seconds cannot have begun.
LEMMA KeptIsRecent == ClockInv /\ pc = "idle" /\ Clock!Kept => cached \in {now - 1, now}
<1> SUFFICES ASSUME ClockInv, pc = "idle", Clock!Kept PROVE cached \in {now - 1, now}
  OBVIOUS
<1>1. KeptRight /\ Age < Window /\ Age \in Nat
  BY KeptIsRight
<1>2. /\ now \in Nat /\ cached \in Nat /\ phase \in 0 .. PerSecond - 1
  BY ClockNumbers DEF ClockInv
<1>3. cached <= now /\ Passed - Age <= cached * PerSecond + PerSecond + 1
  BY <1>1 DEF KeptRight
<1>4. now * PerSecond \in Nat /\ cached * PerSecond \in Nat /\ Passed \in Nat /\ now * PerSecond <= Passed
  BY <1>2, ClockNumbers DEF Passed
<1>5. now * PerSecond < cached * PerSecond + 2 * PerSecond
  BY <1>1, <1>3, <1>4, ClockNumbers
<1>6. ASSUME cached + 2 <= now PROVE FALSE
  <2>1. (cached + 2) * PerSecond <= now * PerSecond
    BY <1>2, <1>6, ClockNumbers
  <2>2. (cached + 2) * PerSecond = cached * PerSecond + 2 * PerSecond
    BY <1>2, ClockNumbers
  <2>. QED BY <1>4, <1>5, <2>1, <2>2, ClockNumbers
<1>. QED BY <1>2, <1>3, <1>6

LEMMA ClockStepRecent ==
  ClockInv /\ pc' = "idle" /\ (Clock!Call \/ Clock!Return) => result' \in {now - 1, now}
<1> SUFFICES ASSUME ClockInv, pc' = "idle", Clock!Call \/ Clock!Return PROVE result' \in {now - 1, now}
  OBVIOUS
<1>1. CASE Clock!Call
  <2>1. Clock!Kept /\ pc = "idle" /\ result' = cached
    BY <1>1 DEF Clock!Call
  <2>. QED BY <2>1, KeptIsRecent
<1>2. CASE Clock!Return
  BY <1>2, ReadIsRight DEF Clock!Return
<1>. QED BY <1>1, <1>2

LEMMA ClockStepMonotonic == ClockInv /\ [Clock!Next]_clockVars => result' >= result
<1> SUFFICES ASSUME ClockInv, [Clock!Next]_clockVars PROVE result' >= result
  OBVIOUS
<1>1. result \in Nat
  BY DEF ClockInv
<1>2. CASE Clock!Return
  <2>1. began <= Clock!Value(got) /\ result <= began /\ began \in Nat /\ result' = Clock!Value(got)
        /\ now \in Nat /\ Clock!Value(got) \in {now - 1, now}
    BY <1>2, ReadIsRight, ClockNumbers DEF ClockInv, Clock!Return
  <2>. QED BY <1>1, <2>1
<1>3. CASE Clock!Call
  <2>1. CASE Clock!Kept
    <3>1. KeptRight /\ result' = cached
      BY <1>3, <2>1, KeptIsRight DEF Clock!Call
    <3>. QED BY <1>1, <3>1 DEF KeptRight
  <2>2. CASE ~Clock!Kept
    BY <1>1, <1>3, <2>2 DEF Clock!Call
  <2>. QED BY <2>1, <2>2
<1>4. ASSUME ~Clock!Return, ~Clock!Call PROVE result' = result
  BY <1>4 DEF Clock!Next, Clock!Tick, Clock!RaiseFlag, Clock!Update, Clock!StartReading,
              Clock!ReadRegister, clockVars
<1>. QED BY <1>1, <1>2, <1>3, <1>4

-----------------------------------------------------------------------------
(* The parts together *)

KernelInv == LoaderInv /\ BootInv /\ TextInv /\ SleepInv /\ ClockInv

LEMMA StepOfParts ==
  [Next]_vars => /\ [Loader!LoaderNext]_loaderVars /\ [Boot!BootNext]_bootVars
                 /\ [Clock!Next]_clockVars /\ [Text!Next]_textVars /\ [Sleep!SleepNext]_sleepVars
                 /\ atWork' = atWork
  BY DEF Next, Loads, Boots, Reads, Prints, Sleeps, vars

LEMMA KernelKeeps == KernelInv /\ [Next]_vars => KernelInv'
  BY StepOfParts, LoaderKeeps, BootKeeps, ClockKeeps, TextKeeps, SleepKeeps DEF KernelInv

LEMMA KernelAlways == Spec => []KernelInv
<1>1. Init => KernelInv
  BY LoaderStarts, BootStarts, ClockStarts, TextStarts, SleepStarts DEF KernelInv
<1>. QED BY <1>1, KernelKeeps, PTL DEF Spec
\* BootInOrder, for every floppy and every set of interrupts: boot.asm starts the kernel only
\* when each of its sectors is in its place and asks the drive for no sector that is not there,
\* over any errors of the drive; no interrupt comes before its gates are there, each ends at
\* both controllers (isr.h), and a key that nobody hears was pressed before the keyboard's
\* handler was registered (kernel.c).
THEOREM BootsInOrder == Spec => []BootInOrder
<1>1. KernelInv => BootInOrder
  BY LoaderHolds DEF KernelInv, BootInv, BootInOrder
<1>. QED BY <1>1, KernelAlways, PTL

\* TextsAndFlagsRight, for every frequency of the timer, every time the clock's registers can
\* show and every mix of due times: ticks and milliseconds convert within a tick, a text of a
\* date reads back (time.h), and no flag is left by a sleep that is over (kapp_sleep.h).
THEOREM TextsAndFlags == Spec => []TextsAndFlagsRight
<1>1. KernelInv => TextsAndFlagsRight
  BY ClockHolds, TextHolds, SleepHolds DEF KernelInv, TextsAndFlagsRight
<1>. QED BY <1>1, KernelAlways, PTL

\* TimeNeverWrong, for every width of the tick counter, number and base of the registers and
\* time without a call that is less than half a wrap: a time that time_utc() returns was shown
\* during the call or is kept and at most a second old, and none is earlier than the one before
\* it (time.h, rtc_time.h); an app that sleeps wakes after its interval (kapp_sleep.h).
THEOREM TimeIsRight == Spec => TimeNeverWrong
<1>1. KernelInv /\ [Next]_vars => [Clock!Return => result' \in began .. now]_Clock!vars
  BY StepOfParts, ClockStepNotTorn DEF KernelInv
<1>2. KernelInv /\ [Next]_vars
        => [pc' = "idle" /\ (Clock!Call \/ Clock!Return) => result' \in {now - 1, now}]_Clock!vars
  BY StepOfParts, ClockStepRecent DEF KernelInv
<1>3. KernelInv /\ [Next]_vars => [result' >= result]_Clock!vars
  BY StepOfParts, ClockStepMonotonic DEF KernelInv
<1>4. KernelInv /\ [Next]_vars
        => [app = "asleep" /\ app' = "awake" /\ ~torn => time >= asked + mine.interval]_Sleep!sleepVars
  BY StepOfParts, SleepStepInTime DEF KernelInv
<1>5. Spec => [][Next]_vars
  BY PTL DEF Spec
<1>6. Spec => Clock!NotTorn
  BY <1>1, <1>5, KernelAlways, PTL DEF Clock!NotTorn
<1>7. Spec => Clock!Recent
  BY <1>2, <1>5, KernelAlways, PTL DEF Clock!Recent
<1>8. Spec => Clock!Monotonic
  BY <1>3, <1>5, KernelAlways, PTL DEF Clock!Monotonic
<1>9. Spec => Sleep!NeverEarly
  BY <1>4, <1>5, KernelAlways, PTL DEF Sleep!NeverEarly
<1>. QED BY <1>6, <1>7, <1>8, <1>9 DEF TimeNeverWrong

-----------------------------------------------------------------------------
(* Rows and cells *)

\* The cell at a row and a column
LEMMA CellParts ==
  ASSUME NEW w \in Nat \ {0}, NEW y \in Nat, NEW x \in 0 .. w - 1
  PROVE  /\ y * w + x \in Nat /\ (y * w + x) \div w = y /\ (y * w + x) % w = x
<1> DEFINE i == y * w + x
           q == i \div w
           r == i % w
<1>1. y * w \in Nat /\ i \in Nat
  OBVIOUS
<1>2. q \in Nat /\ r \in 0 .. w - 1 /\ i = w * q + r
  BY <1>1, Division
<1>3. i = w * y + x
  OBVIOUS
<1> HIDE DEF q, r, i
<1>4. ~(q < y)
  <2> SUFFICES ASSUME q < y PROVE FALSE
    OBVIOUS
  <2>1. w * (q + 1) <= w * y /\ w * (q + 1) = w * q + w
    BY <1>2
  <2>. QED BY <1>2, <1>3, <2>1
<1>5. ~(y < q)
  <2> SUFFICES ASSUME y < q PROVE FALSE
    OBVIOUS
  <2>1. w * (y + 1) <= w * q /\ w * (y + 1) = w * y + w
    BY <1>2
  <2>. QED BY <1>2, <1>3, <2>1
<1>6. q = y
  BY <1>2, <1>4, <1>5
<1>. QED BY <1>1, <1>2, <1>3, <1>6 DEF q, r, i

\* It is one of the cells, and no cell is in another place.
LEMMA CellThere ==
  ASSUME NEW w \in Nat \ {0}, NEW h \in Nat, NEW y \in Nat, y < h, NEW x \in 0 .. w - 1
  PROVE  y * w + x \in 0 .. h * w - 1
<1>1. (y + 1) * w <= h * w /\ (y + 1) * w = y * w + w /\ y * w \in Nat
  OBVIOUS
<1>. QED BY <1>1

LEMMA PlaceOfCell ==
  ASSUME NEW w \in Nat \ {0}, NEW h \in Nat, NEW i \in 0 .. h * w - 1
  PROVE  /\ i \div w \in 0 .. h - 1 /\ i % w \in 0 .. w - 1 /\ i = (i \div w) * w + (i % w)
<1>1. h * w = w * h /\ h * w \in Nat /\ i \in Nat
  OBVIOUS
<1>2. i \div w \in Nat /\ i % w \in 0 .. w - 1 /\ i = w * (i \div w) + (i % w)
  BY <1>1, Division
<1>3. i \div w < h
  BY <1>1, QuotientBelow
<1>. QED BY <1>2, <1>3

\* A row further on
LEMMA NextRow ==
  ASSUME NEW w \in Nat \ {0}, NEW i \in Nat
  PROVE  (i + w) \div w = i \div w + 1 /\ (i + w) % w = i % w
<1> DEFINE q == i \div w
           r == i % w
<1>1. q \in Nat /\ r \in 0 .. w - 1 /\ i = w * q + r
  BY Division
<1> HIDE DEF q, r
<1>2. i + w = (q + 1) * w + r
  BY <1>1
<1>3. (i + w) \div w = q + 1 /\ (i + w) % w = r
  BY <1>1, <1>2, CellParts
<1>. QED BY <1>3 DEF q, r

LEMMA Rows1 ==
  ASSUME NEW w \in Nat \ {0}, NEW h \in Nat \ {0}
  PROVE  (h - 1) * w \in Nat /\ h * w = (h - 1) * w + w
  OBVIOUS

-----------------------------------------------------------------------------
(* Paper: what was written, by row and column, and how it is seen *)

OnPaper(p, q) == IF q \in DOMAIN p THEN p[q] ELSE Blank
Place(w, t, i) == <<t + i \div w, i % w>>

\* Cells m of h rows of w show paper p from row t on, and nothing is written below them.
PaperSeen(h, w, m, p, t) ==
  /\ \A q \in DOMAIN p : q \in Nat \X (0 .. w - 1) /\ q[1] < t + h
  /\ \A i \in 0 .. h * w - 1 : m[i] = OnPaper(p, Place(w, t, i))

Inked(p, q, c) == [z \in DOMAIN p \cup {q} |-> IF z = q THEN c ELSE p[z]]
Lifted(h, w, m) == [i \in 0 .. h * w - 1 |-> IF i < (h - 1) * w THEN m[i + w] ELSE Blank]
Kept(p, t) == [q \in {r \in DOMAIN p : r[1] >= t} |-> p[q]]

LEMMA CellIsWritten ==
  ASSUME NEW h \in Nat \ {0}, NEW w \in Nat \ {0}, NEW m, NEW p, NEW t \in Nat, NEW c,
         NEW n, n = h * w, DOMAIN m = 0 .. n - 1,
         NEW y \in Nat, y < h, NEW x \in 0 .. w - 1, PaperSeen(h, w, m, p, t)
  PROVE  PaperSeen(h, w, [m EXCEPT ![y * w + x] = c], Inked(p, <<t + y, x>>, c), t)
<1> DEFINE k == y * w + x
           m1 == [m EXCEPT ![k] = c]
           q == <<t + y, x>>
           p1 == Inked(p, q, c)
<1>1. k \in 0 .. h * w - 1 /\ k \div w = y /\ k % w = x
  BY CellParts, CellThere
<1>2. DOMAIN p1 = DOMAIN p \cup {q} /\ p1[q] = c /\ \A z \in DOMAIN p : z # q => p1[z] = p[z]
  BY DEF Inked
<1>3. q \in Nat \X (0 .. w - 1) /\ q[1] < t + h
  OBVIOUS
<1>4. \A z \in DOMAIN p1 : z \in Nat \X (0 .. w - 1) /\ z[1] < t + h
  BY <1>2, <1>3 DEF PaperSeen
<1>5. ASSUME NEW i \in 0 .. h * w - 1 PROVE m1[i] = OnPaper(p1, Place(w, t, i))
  <2>1. i \div w \in 0 .. h - 1 /\ i % w \in 0 .. w - 1 /\ i = (i \div w) * w + (i % w)
    BY PlaceOfCell
  <2>2. m[i] = OnPaper(p, Place(w, t, i))
    BY DEF PaperSeen
  <2>3. CASE i = k
    <3>1. m1[i] = c
      BY <1>1, <2>3
    <3>2. Place(w, t, i) = q
      BY <1>1, <2>3 DEF Place
    <3>. QED BY <1>2, <3>1, <3>2 DEF OnPaper
  <2>4. CASE i # k
    <3>1. m1[i] = m[i]
      BY <2>4, <1>1
    <3>2. Place(w, t, i) # q
      <4> SUFFICES ASSUME Place(w, t, i) = q PROVE FALSE
        OBVIOUS
      <4>1. t + i \div w = t + y /\ i % w = x
        BY DEF Place
      <4>2. i \div w = y
        BY <4>1, <2>1
      <4>. QED BY <2>1, <2>4, <4>1, <4>2
    <3>. QED BY <1>2, <2>2, <3>1, <3>2 DEF OnPaper
  <2>. QED BY <2>3, <2>4
<1>. QED BY <1>4, <1>5 DEF PaperSeen

LEMMA RowIsLifted ==
  ASSUME NEW h \in Nat \ {0}, NEW w \in Nat \ {0}, NEW m, NEW p, NEW t \in Nat,
         PaperSeen(h, w, m, p, t)
  PROVE  PaperSeen(h, w, Lifted(h, w, m), p, t + 1)
<1>1. \A q \in DOMAIN p : q \in Nat \X (0 .. w - 1) /\ q[1] < t + 1 + h
  BY DEF PaperSeen
<1>2. ASSUME NEW i \in 0 .. h * w - 1
      PROVE  Lifted(h, w, m)[i] = OnPaper(p, Place(w, t + 1, i))
  <2>1. i \div w \in 0 .. h - 1 /\ i % w \in 0 .. w - 1 /\ i = (i \div w) * w + (i % w)
    BY PlaceOfCell
  <2>2. (h - 1) * w \in Nat /\ h * w = (h - 1) * w + w
    BY Rows1
  <2>3. CASE i < (h - 1) * w
    <3>1. Lifted(h, w, m)[i] = m[i + w]
      BY <2>3 DEF Lifted
    <3>2. i + w \in 0 .. h * w - 1
      BY <2>2, <2>3
    <3>3. m[i + w] = OnPaper(p, Place(w, t, i + w))
      BY <3>2 DEF PaperSeen
    <3>4. (i + w) \div w = i \div w + 1 /\ (i + w) % w = i % w
      <4>1. i \in Nat
        BY <2>2
      <4>. QED BY <4>1, NextRow
    <3>5. Place(w, t, i + w) = Place(w, t + 1, i)
      BY <2>1, <3>4 DEF Place
    <3>. QED BY <3>1, <3>3, <3>5
  <2>4. CASE ~(i < (h - 1) * w)
    <3>1. Lifted(h, w, m)[i] = Blank
      BY <2>4 DEF Lifted
    <3>2. i \div w >= h - 1
      <4> DEFINE q == i \div w
      <4>1. q \in Nat /\ i = q * w + (i % w)
        BY <2>1
      <4> HIDE DEF q
      <4>2. CASE q < h - 1
        <5>1. (q + 1) * w <= (h - 1) * w /\ (q + 1) * w = q * w + w
          BY <4>1, <4>2
        <5>. QED BY <5>1, <4>1, <2>1, <2>4, <2>2
      <4>3. q >= h - 1
        BY <4>1, <4>2
      <4>. QED BY <4>3 DEF q
    <3>3. Place(w, t + 1, i) \notin DOMAIN p
      <4> SUFFICES ASSUME Place(w, t + 1, i) \in DOMAIN p PROVE FALSE
        OBVIOUS
      <4>1. Place(w, t + 1, i)[1] < t + h
        BY DEF PaperSeen
      <4>2. Place(w, t + 1, i)[1] = t + 1 + i \div w
        BY DEF Place
      <4>. QED BY <4>1, <4>2, <3>2, <2>1
    <3>. QED BY <3>1, <3>3 DEF OnPaper
  <2>. QED BY <2>3, <2>4
<1>. QED BY <1>1, <1>2 DEF PaperSeen

LEMMA PaperIsTrimmed ==
  ASSUME NEW h \in Nat \ {0}, NEW w \in Nat \ {0}, NEW m, NEW p, NEW t \in Nat,
         PaperSeen(h, w, m, p, t)
  PROVE  PaperSeen(h, w, m, Kept(p, t), t)
<1>1. DOMAIN Kept(p, t) = {r \in DOMAIN p : r[1] >= t}
      /\ \A q \in DOMAIN Kept(p, t) : Kept(p, t)[q] = p[q]
  BY DEF Kept
<1>2. ASSUME NEW i \in 0 .. h * w - 1
      PROVE  OnPaper(Kept(p, t), Place(w, t, i)) = OnPaper(p, Place(w, t, i))
  <2>1. i \div w \in Nat
    BY PlaceOfCell
  <2>2. Place(w, t, i)[1] >= t
    BY <2>1 DEF Place
  <2>. QED BY <1>1, <2>2 DEF OnPaper
<1>. QED BY <1>1, <1>2 DEF PaperSeen
Papers(C) == UNION {[D -> C] : D \in SUBSET (Nat \X Nat)}

LEMMA InkedIsPaper ==
  ASSUME NEW C, NEW p \in Papers(C), NEW q \in Nat \X Nat, NEW c \in C
  PROVE  Inked(p, q, c) \in Papers(C)
<1>1. PICK D \in SUBSET (Nat \X Nat) : p \in [D -> C]
  BY DEF Papers
<1>2. D \cup {q} \in SUBSET (Nat \X Nat)
  OBVIOUS
<1>3. DOMAIN p = D
  BY <1>1
<1>4. Inked(p, q, c) \in [D \cup {q} -> C]
  BY <1>1, <1>3 DEF Inked
<1>. QED BY <1>2, <1>4 DEF Papers

LEMMA KeptIsPaper ==
  ASSUME NEW C, NEW p \in Papers(C), NEW t
  PROVE  Kept(p, t) \in Papers(C)
<1>1. PICK D \in SUBSET (Nat \X Nat) : p \in [D -> C]
  BY DEF Papers
<1> DEFINE E == {r \in D : r[1] >= t}
<1>2. E \in SUBSET (Nat \X Nat)
  BY <1>1
<1>3. Kept(p, t) \in [E -> C]
  BY <1>1 DEF Kept
<1>. QED BY <1>2, <1>3 DEF Papers

LEMMA NoPaper ==
  ASSUME NEW C, NEW h \in Nat, NEW w \in Nat, NEW m, \A i \in 0 .. h * w - 1 : m[i] = Blank,
         NEW p, p = [q \in {} |-> Blank], NEW t \in Nat
  PROVE  p \in Papers(C) /\ PaperSeen(h, w, m, p, t)
<1>1. {} \in SUBSET (Nat \X Nat) /\ p \in [{} -> C]
  OBVIOUS
<1>. QED BY <1>1 DEF Papers, PaperSeen, OnPaper

\* A screen while it is printed to, and what changes of it at once
Screens(M, X, Y, P, T) == [mem : M, x : X, y : Y, paper : P, top : T]
AtColumn(s, x) == [s EXCEPT !.x = x]
AtCursor(s, x, y) == [s EXCEPT !.x = x, !.y = y]
AtRows(s, x, y, m, t) == [s EXCEPT !.x = x, !.y = y, !.mem = m, !.top = t]
WithInk(s, m, p) == [s EXCEPT !.mem = m, !.paper = p]
WithCell(s, m, p, x) == [s EXCEPT !.mem = m, !.paper = p, !.x = x]

-----------------------------------------------------------------------------
(* The kernel's screen *)

LEMMA VgaTypes ==
  /\ VgaRows \in Nat \ {0} /\ VgaCols \in Nat \ {0} /\ Byte \in Nat
  /\ VgaRows < Byte /\ VgaCols < Byte /\ Byte \in Nat \ {0} /\ Newline # Return
  /\ Zero \in Char /\ Texts \subseteq Seq(Char \cup {Newline, Return})
  /\ HeaderText \in Seq(Char) /\ Len(HeaderText) <= VgaCols
  /\ Corner \subseteq Nat \X Nat /\ Drawn \subseteq Char
  BY ShellAssumption DEF Vga!VgaAssumption

Inks == Char \cup {Blank}
VgaMem == [Vga!Cell -> Inks]
VgaRow == 0 .. VgaRows - 1
VgaScreens == Screens(VgaMem, Nat, VgaRow, Papers(Inks), Nat)
PrintedTo == {s \in VgaScreens : PaperSeen(VgaRows, VgaCols, s.mem, s.paper, s.top)}
Printing == {s \in PrintedTo : s.x \in 0 .. VgaCols - 1}

LEMMA VgaFields ==
  ASSUME NEW s \in VgaScreens
  PROVE  /\ s.mem \in [Vga!Cell -> Inks] /\ s.x \in Nat /\ s.y \in 0 .. VgaRows - 1
         /\ s.paper \in Papers(Inks) /\ s.top \in Nat
  BY DEF VgaScreens, Screens, VgaMem, VgaRow

LEMMA VgaColumnSet ==
  ASSUME NEW s \in VgaScreens, NEW x \in Nat
  PROVE  LET r == AtColumn(s, x)
         IN  /\ r \in VgaScreens /\ r.mem = s.mem /\ r.x = x /\ r.y = s.y
             /\ r.paper = s.paper /\ r.top = s.top
  BY DEF VgaScreens, Screens, AtColumn

LEMMA VgaCursorSet ==
  ASSUME NEW s \in VgaScreens, NEW x \in Nat, NEW y \in VgaRow
  PROVE  LET r == AtCursor(s, x, y)
         IN  /\ r \in VgaScreens /\ r.mem = s.mem /\ r.x = x /\ r.y = y
             /\ r.paper = s.paper /\ r.top = s.top
  BY DEF VgaScreens, Screens, AtCursor

LEMMA VgaRowsSet ==
  ASSUME NEW s \in VgaScreens, NEW m \in VgaMem, NEW x \in Nat, NEW y \in VgaRow, NEW t \in Nat
  PROVE  LET r == AtRows(s, x, y, m, t)
         IN  /\ r \in VgaScreens /\ r.mem = m /\ r.x = x /\ r.y = y
             /\ r.paper = s.paper /\ r.top = t
  BY DEF VgaScreens, Screens, AtRows

LEMMA VgaCellSet ==
  ASSUME NEW s \in VgaScreens, NEW m \in VgaMem, NEW x \in Nat, NEW p \in Papers(Inks)
  PROVE  LET r == WithCell(s, m, p, x)
         IN  /\ r \in VgaScreens /\ r.mem = m /\ r.x = x /\ r.y = s.y
             /\ r.paper = p /\ r.top = s.top
  BY DEF VgaScreens, Screens, WithCell

LEMMA VgaBreaks == ASSUME NEW s \in PrintedTo PROVE Vga!BreakLine(s) \in Printing
<1>1. s \in VgaScreens /\ PaperSeen(VgaRows, VgaCols, s.mem, s.paper, s.top)
  BY DEF PrintedTo
<1>2. (s.y + 1) % Byte = s.y + 1 /\ s.y \in 0 .. VgaRows - 1 /\ s.top \in Nat
      /\ s.mem \in [Vga!Cell -> Inks]
  <2>1. s.y \in 0 .. VgaRows - 1 /\ s.top \in Nat /\ s.mem \in [Vga!Cell -> Inks]
    BY <1>1, VgaFields
  <2>2. s.y + 1 \in Nat /\ s.y + 1 < Byte
    BY <2>1, VgaTypes
  <2>. QED BY <2>1, <2>2, VgaTypes, SmallRemainder
<1>3. 0 \in 0 .. VgaCols - 1 /\ VgaRows - 1 \in 0 .. VgaRows - 1 /\ 0 \in Nat
  BY VgaTypes
<1>4. CASE s.y + 1 >= VgaRows
  <2> DEFINE m == Vga!ScrollUp(s.mem)
             r == AtRows(s, 0, VgaRows - 1, m, s.top + 1)
  <2>1. m = Lifted(VgaRows, VgaCols, s.mem)
    BY DEF Vga!ScrollUp, Lifted, Vga!Cell
  <2>2. PaperSeen(VgaRows, VgaCols, m, s.paper, s.top + 1)
    BY <1>1, <1>2, <2>1, RowIsLifted, VgaTypes
  <2>3. m \in [Vga!Cell -> Inks]
    <3>1. ASSUME NEW i \in Vga!Cell, i < (VgaRows - 1) * VgaCols PROVE i + VgaCols \in Vga!Cell
      <4>1. (VgaRows - 1) * VgaCols \in Nat /\ VgaRows * VgaCols = (VgaRows - 1) * VgaCols + VgaCols
        BY Rows1, VgaTypes
      <4>. QED BY <4>1, <3>1, VgaTypes DEF Vga!Cell
    <3>. QED BY <3>1, <1>2 DEF Vga!ScrollUp, Inks
  <2> HIDE DEF m
  <2>4. s.top + 1 \in Nat
    BY <1>2
  <2>5. r \in VgaScreens /\ r.mem = m /\ r.paper = s.paper /\ r.top = s.top + 1 /\ r.x = 0
    <3>1. m \in VgaMem /\ 0 \in Nat /\ VgaRows - 1 \in VgaRow /\ s.top + 1 \in Nat
      BY <1>1, <1>3, <2>3, <2>4 DEF VgaMem, VgaRow
    <3>. QED BY <1>1, <3>1, VgaRowsSet
  <2>6. Vga!BreakLine(s) = r
    BY <1>2, <1>4 DEF Vga!BreakLine, m, AtRows
  <2> HIDE DEF r
  <2>. QED BY <1>3, <2>2, <2>5, <2>6 DEF Printing, PrintedTo
<1>5. CASE ~(s.y + 1 >= VgaRows)
  <2> DEFINE r == AtCursor(s, 0, s.y + 1)
  <2>1. s.y + 1 \in 0 .. VgaRows - 1
    BY <1>2, <1>5, VgaTypes
  <2>2. r \in VgaScreens /\ r.mem = s.mem /\ r.paper = s.paper /\ r.top = s.top /\ r.x = 0
    <3>1. 0 \in Nat /\ s.y + 1 \in VgaRow
      BY <1>1, <1>3, <2>1 DEF VgaMem, VgaRow
    <3>. QED BY <1>1, <3>1, VgaCursorSet
  <2>3. Vga!BreakLine(s) = r
    BY <1>2, <1>5 DEF Vga!BreakLine, AtCursor
  <2> HIDE DEF r
  <2>. QED BY <1>1, <1>3, <2>2, <2>3 DEF Printing, PrintedTo
<1>. QED BY <1>4, <1>5

LEMMA VgaPrints ==
  ASSUME NEW s \in Printing, NEW c \in Char \cup {Newline, Return}
  PROVE  Vga!PrintChar(s, c) \in Printing
<1>1. /\ s \in PrintedTo /\ s.x \in 0 .. VgaCols - 1 /\ s \in VgaScreens
      /\ PaperSeen(VgaRows, VgaCols, s.mem, s.paper, s.top)
  BY DEF Printing, PrintedTo
<1>2. CASE c = Newline
  <2>1. Vga!PrintChar(s, c) = Vga!BreakLine(s)
    BY <1>2, VgaTypes DEF Vga!PrintChar
  <2>. QED BY <1>1, <2>1, VgaBreaks
<1>3. CASE c # Newline /\ c = Return
  <2> DEFINE r == AtColumn(s, 0)
  <2>1. r \in VgaScreens /\ r.mem = s.mem /\ r.paper = s.paper /\ r.top = s.top /\ r.x = 0
    <3>1. 0 \in Nat
      OBVIOUS
    <3>. QED BY <1>1, <3>1, VgaColumnSet
  <2>3. 0 \in 0 .. VgaCols - 1
    BY VgaTypes
  <2>2. Vga!PrintChar(s, c) = r
    BY <1>3, VgaTypes DEF Vga!PrintChar, AtColumn
  <2> HIDE DEF r
  <2>. QED BY <1>1, <2>1, <2>2, <2>3 DEF Printing, PrintedTo
<1>4. CASE c # Newline /\ c # Return
  <2> DEFINE m == [s.mem EXCEPT ![s.y * VgaCols + s.x] = c]
             p == Inked(s.paper, <<s.top + s.y, s.x>>, c)
             r == WithCell(s, m, p, s.x + 1)
  <2>0. /\ s.mem \in [Vga!Cell -> Inks] /\ s.x \in Nat /\ s.y \in 0 .. VgaRows - 1
        /\ s.paper \in Papers(Inks) /\ s.top \in Nat /\ s.x + 1 \in Nat
    BY <1>1, VgaFields
  <2>1. (s.x + 1) % Byte = s.x + 1 /\ s.x < VgaCols /\ s.y < VgaRows /\ c \in Inks
    <3>1. s.x + 1 < Byte /\ s.x < VgaCols /\ s.y < VgaRows
      BY <1>1, <2>0, VgaTypes
    <3>2. c \in Inks
      BY <1>4 DEF Inks
    <3>. QED BY <2>0, <3>1, <3>2, VgaTypes, SmallRemainder
  <2>2. m \in [Vga!Cell -> Inks]
    BY <2>0, <2>1
  <2>3. p \in Papers(Inks)
    <3>1. <<s.top + s.y, s.x>> \in Nat \X Nat
      BY <2>0
    <3>. QED BY <3>1, <2>0, <2>1, InkedIsPaper
  <2>4. PaperSeen(VgaRows, VgaCols, m, p, s.top)
    <3>1. DOMAIN s.mem = 0 .. VgaRows * VgaCols - 1 /\ s.y \in Nat /\ s.top \in Nat
      BY <2>0 DEF Vga!Cell
    <3>. QED BY <3>1, <1>1, <2>1, CellIsWritten, VgaTypes
  <2>5. Vga!PutAt(s.mem, c, s.x, s.y) = m
    BY <2>1 DEF Vga!PutAt
  <2>6. Vga!PrintChar(s, c) = IF r.x >= VgaCols THEN Vga!BreakLine(r) ELSE r
    BY <2>1, <2>5, <1>4 DEF Vga!PrintChar, Inked, WithCell
  <2> HIDE DEF m, p
  <2>7. r \in VgaScreens /\ r.mem = m /\ r.paper = p /\ r.top = s.top /\ r.x = s.x + 1
    <3>1. m \in VgaMem /\ p \in Papers(Inks) /\ s.x + 1 \in Nat
      BY <1>1, <2>0, <2>2, <2>3 DEF VgaMem, VgaRow
    <3>. QED BY <1>1, <3>1, VgaCellSet
  <2> HIDE DEF r
  <2>8. r \in PrintedTo
    BY <2>4, <2>7 DEF PrintedTo
  <2>9. CASE r.x >= VgaCols
    BY <2>6, <2>8, <2>9, VgaBreaks
  <2>10. CASE ~(r.x >= VgaCols)
    <3>1. r.x \in 0 .. VgaCols - 1
      BY <2>0, <2>7, <2>10, VgaTypes
    <3>. QED BY <2>6, <2>8, <2>10, <3>1 DEF Printing
  <2>. QED BY <2>9, <2>10
<1>. QED BY <1>2, <1>3, <1>4

LEMMA VgaPrinted ==
  ASSUME NEW s \in Printing, NEW text \in Seq(Char \cup {Newline, Return})
  PROVE  Vga!Printed(s, text) \in Printing
<1> DEFINE n == Len(text)
           F == [k \in 1 .. n |-> [r \in Printing |-> Vga!PrintChar(r, text[k])]]
           Round(h) == [k \in 0 .. n |-> IF k = 0 THEN s ELSE Vga!PrintChar(h[k - 1], text[k])]
           made == CHOOSE h : h = Round(h)
<1>1. n \in Nat /\ \A k \in 1 .. n : text[k] \in Char \cup {Newline, Return}
  OBVIOUS
<1>2. \A k \in 1 .. n, r \in Printing : Vga!PrintChar(r, text[k]) \in Printing
  BY <1>1, VgaPrints
<1>3. F \in Rounds(n, Printing) /\ \A k \in 1 .. n, r \in Printing : F[k][r] = Vga!PrintChar(r, text[k])
  BY <1>2 DEF Rounds
<1>4. Vga!Printed(s, text) = made[n]
  BY DEF Vga!Printed
<1> HIDE DEF F, n
<1>5. PICK h : IsCourse(h, n, Printing, s, F)
  BY <1>1, <1>3, CourseExists
<1>6. h \in [0 .. n -> Printing] /\ h[0] = s /\ \A k \in 1 .. n : h[k] = F[k][h[k - 1]]
  BY <1>5 DEF IsCourse
<1>7. \A k \in 1 .. n : k - 1 \in 0 .. n
  BY <1>1
<1>8. \A k \in 1 .. n : h[k] = Vga!PrintChar(h[k - 1], text[k])
  BY <1>3, <1>6, <1>7
<1>9. h = Round(h)
  BY <1>1, <1>6, <1>8
<1>10. made = Round(made)
  <2> HIDE DEF Round
  <2>. QED BY <1>9
<1> HIDE DEF made
<1>11. made[0] = s /\ \A k \in 1 .. n : made[k] = Vga!PrintChar(made[k - 1], text[k])
  BY <1>1, <1>10
<1> HIDE DEF Round
<1> DEFINE S == {k \in 0 .. n : made[k] \in Printing}
<1>12. 0 \in S
  BY <1>1, <1>11
<1>13. ASSUME NEW k \in 0 .. n - 1, k \in S PROVE k + 1 \in S
  <2>1. k + 1 \in 1 .. n /\ (k + 1) - 1 = k /\ made[k] \in Printing
    BY <1>1, <1>13
  <2>2. made[k + 1] = Vga!PrintChar(made[k], text[k + 1])
    BY <1>11, <2>1
  <2>3. made[k + 1] \in Printing
    BY <1>2, <2>1, <2>2, VgaPrints, <1>1
  <2>. QED BY <1>1, <2>1, <2>3
<1> HIDE DEF S
<1>14. 0 .. n \subseteq S
  BY <1>1, <1>12, <1>13, InductionUpTo
<1>15. n \in S
  BY <1>1, <1>14
<1>. QED BY <1>4, <1>15 DEF S

VgaInv ==
  /\ mem \in VgaMem /\ cursor \in [x : 0 .. VgaCols - 1, y : 0 .. VgaRows - 1]
  /\ updateCursor \in BOOLEAN /\ shown \in Papers(Inks) /\ firstRow \in Nat
  /\ PaperSeen(VgaRows, VgaCols, mem, shown, firstRow)
  /\ Vga!HardwareFollows

LEMMA VgaScreenGood == VgaInv => Vga!Screen \in Printing
<1> SUFFICES ASSUME VgaInv PROVE Vga!Screen \in Printing
  OBVIOUS
<1>1. cursor.x \in 0 .. VgaCols - 1 /\ cursor.x \in Nat /\ cursor.y \in VgaRow
  BY VgaTypes DEF VgaInv, VgaRow
<1>2. Vga!Screen \in VgaScreens
  BY <1>1 DEF VgaInv, Vga!Screen, VgaScreens, Screens
<1>. QED BY <1>1, <1>2 DEF VgaInv, Vga!Screen, Printing, PrintedTo

LEMMA VgaShows ==
  ASSUME NEW s \in Printing, Vga!Show(s)
  PROVE  /\ mem' \in VgaMem /\ cursor' \in [x : 0 .. VgaCols - 1, y : 0 .. VgaRows - 1]
         /\ shown' \in Papers(Inks) /\ firstRow' \in Nat
         /\ PaperSeen(VgaRows, VgaCols, mem', shown', firstRow')
<1>1. /\ s \in VgaScreens /\ s.x \in 0 .. VgaCols - 1
      /\ PaperSeen(VgaRows, VgaCols, s.mem, s.paper, s.top)
  BY DEF Printing, PrintedTo
<1>2. s.mem \in VgaMem /\ s.y \in 0 .. VgaRows - 1 /\ s.paper \in Papers(Inks) /\ s.top \in Nat
  BY <1>1, VgaFields DEF VgaMem
<1>3. shown' = Kept(s.paper, s.top)
  BY DEF Vga!Show, Kept
<1>4. mem' = s.mem /\ cursor' = [x |-> s.x, y |-> s.y] /\ firstRow' = s.top
  BY DEF Vga!Show
<1>5. shown' \in Papers(Inks)
  BY <1>2, <1>3, KeptIsPaper
<1>6. PaperSeen(VgaRows, VgaCols, mem', shown', firstRow')
  BY <1>1, <1>2, <1>3, <1>4, PaperIsTrimmed, VgaTypes
<1>. QED BY <1>1, <1>2, <1>4, <1>5, <1>6

LEMMA VgaStarts == Vga!Init => VgaInv
<1> SUFFICES ASSUME Vga!Init PROVE VgaInv
  OBVIOUS
<1>1. mem = [i \in Vga!Cell |-> Blank] /\ shown = [q \in {} |-> Blank] /\ firstRow = 0
      /\ cursor = [x |-> 0, y |-> 0] /\ updateCursor = TRUE /\ position = 0
  BY DEF Vga!Init, Vga!BlankMem
<1>2. \A i \in 0 .. VgaRows * VgaCols - 1 : mem[i] = Blank
  BY <1>1 DEF Vga!Cell
<1>3. shown \in Papers(Inks) /\ PaperSeen(VgaRows, VgaCols, mem, shown, firstRow)
  BY <1>1, <1>2, NoPaper, VgaTypes
<1>4. mem \in VgaMem
  BY <1>1 DEF VgaMem, Inks
<1>5. cursor \in [x : 0 .. VgaCols - 1, y : 0 .. VgaRows - 1]
  BY <1>1, VgaTypes
<1>6. Vga!Position(cursor) = 0
  <2>1. cursor.x = 0 /\ cursor.y = 0 /\ Byte * Byte \in Nat \ {0} /\ 0 < Byte * Byte
    BY <1>1, VgaTypes
  <2>2. 0 * VgaCols + 0 = 0
    BY VgaTypes
  <2>. QED BY <2>1, <2>2, SmallRemainder DEF Vga!Position
<1>7. Vga!HardwareFollows
  BY <1>1, <1>6 DEF Vga!HardwareFollows
<1>. QED BY <1>1, <1>3, <1>4, <1>5, <1>7 DEF VgaInv

LEMMA PrintTextKeeps ==
  ASSUME NEW text \in Texts, VgaInv, Vga!PrintText(text)
  PROVE  VgaInv'
<1>1. Vga!Printed(Vga!Screen, text) \in Printing
  BY VgaScreenGood, VgaPrinted, VgaTypes
<1>2. Vga!Show(Vga!Printed(Vga!Screen, text)) /\ Vga!Update
      /\ updateCursor' = updateCursor /\ zeroPrinted' = zeroPrinted
  BY DEF Vga!PrintText
<1>3. Vga!HardwareFollows'
  BY <1>2 DEF VgaInv, Vga!HardwareFollows, Vga!Update, Vga!Position
<1>. QED BY <1>1, <1>2, <1>3, VgaShows DEF VgaInv

LEMMA PrintZeroKeeps == VgaInv /\ Vga!PrintZero => VgaInv'
<1> SUFFICES ASSUME VgaInv, Vga!PrintZero PROVE VgaInv'
  OBVIOUS
<1>1. Vga!PrintChar(Vga!Screen, Zero) \in Printing
  BY VgaScreenGood, VgaPrints, VgaTypes
<1>2. Vga!Show(Vga!PrintChar(Vga!Screen, Zero)) /\ updateCursor' = FALSE /\ zeroPrinted' = TRUE
  BY DEF Vga!PrintZero
<1>3. Vga!HardwareFollows'
  BY <1>2 DEF Vga!HardwareFollows
<1>. QED BY <1>1, <1>2, <1>3, VgaShows DEF VgaInv

LEMMA SetCursorKeeps ==
  ASSUME NEW x \in 0 .. VgaCols - 1, NEW y \in 0 .. VgaRows - 1, VgaInv, Vga!SetCursor(x, y)
  PROVE  VgaInv'
<1>1. /\ cursor' = [x |-> x, y |-> y] /\ Vga!Update /\ mem' = mem /\ shown' = shown
      /\ firstRow' = firstRow /\ updateCursor' = updateCursor /\ zeroPrinted' = zeroPrinted
  BY DEF Vga!SetCursor
<1>2. Vga!HardwareFollows'
  BY <1>1 DEF VgaInv, Vga!HardwareFollows, Vga!Update, Vga!Position
<1>. QED BY <1>1, <1>2 DEF VgaInv

LEMMA ClearKeeps == VgaInv /\ Vga!Clear => VgaInv'
<1> SUFFICES ASSUME VgaInv, Vga!Clear PROVE VgaInv'
  OBVIOUS
<1>1. /\ mem' = [i \in Vga!Cell |-> Blank] /\ shown' = [q \in {} |-> Blank] /\ firstRow' = 0
      /\ cursor' = [x |-> 0, y |-> 0] /\ Vga!Update /\ updateCursor' = updateCursor
      /\ zeroPrinted' = zeroPrinted
  BY DEF Vga!Clear, Vga!BlankMem
<1>2. \A i \in 0 .. VgaRows * VgaCols - 1 : mem'[i] = Blank
  BY <1>1 DEF Vga!Cell
<1>3. shown' \in Papers(Inks) /\ PaperSeen(VgaRows, VgaCols, mem', shown', firstRow')
  BY <1>1, <1>2, NoPaper, VgaTypes
<1>4. mem' \in VgaMem
  BY <1>1 DEF VgaMem, Inks
<1>5. cursor' \in [x : 0 .. VgaCols - 1, y : 0 .. VgaRows - 1] /\ firstRow' \in Nat
  BY <1>1, VgaTypes
<1>6. Vga!HardwareFollows'
  BY <1>1 DEF VgaInv, Vga!HardwareFollows, Vga!Update, Vga!Position
<1>. QED BY <1>1, <1>3, <1>4, <1>5, <1>6 DEF VgaInv

LEMMA DrawHeaderKeeps == VgaInv /\ Vga!DrawHeader => VgaInv'
<1> SUFFICES ASSUME VgaInv, Vga!DrawHeader PROVE VgaInv'
  OBVIOUS
<1> DEFINE blanked == [i \in Vga!Cell |-> IF i < VgaCols THEN Blank ELSE mem[i]]
           D == DOMAIN shown \cup {<<firstRow, i>> : i \in 0 .. VgaCols - 1}
<1>1. /\ mem' = [i \in Vga!Cell |-> IF i < Len(HeaderText) THEN HeaderText[i + 1] ELSE blanked[i]]
      /\ shown' = [q \in D |-> IF q[1] = firstRow THEN mem'[q[2]] ELSE shown[q]]
      /\ cursor' = cursor /\ updateCursor' = updateCursor /\ position' = position
      /\ firstRow' = firstRow /\ zeroPrinted' = zeroPrinted
  BY DEF Vga!DrawHeader
<1>2. VgaCols \in Nat \ {0} /\ VgaRows \in Nat \ {0} /\ Len(HeaderText) \in Nat /\ Len(HeaderText) <= VgaCols
      /\ \A i \in Nat : i < Len(HeaderText) => HeaderText[i + 1] \in Char
  BY VgaTypes
<1>3. \A i \in Vga!Cell : i \in Nat
  BY DEF Vga!Cell
<1>4. \A i \in Vga!Cell : mem[i] \in Inks /\ Blank \in Inks /\ (Char \subseteq Inks)
  BY DEF VgaInv, VgaMem, Inks
<1>5. mem' \in VgaMem
  BY <1>1, <1>2, <1>3, <1>4 DEF VgaMem
<1>6. \A i \in 0 .. VgaCols - 1 : i \in Vga!Cell
  <2>1. (VgaRows - 1) * VgaCols \in Nat /\ VgaRows * VgaCols = (VgaRows - 1) * VgaCols + VgaCols
    BY Rows1, VgaTypes
  <2>. QED BY <1>2, <2>1 DEF Vga!Cell
<1>7. \A q \in DOMAIN shown : q \in Nat \X (0 .. VgaCols - 1) /\ q[1] < firstRow + VgaRows
  BY DEF VgaInv, PaperSeen
<1>8. firstRow \in Nat /\ shown \in Papers(Inks)
  BY DEF VgaInv
<1>9. \A q \in D : q \in Nat \X (0 .. VgaCols - 1) /\ q[1] < firstRow + VgaRows
  BY <1>2, <1>7, <1>8
<1>10. shown' \in Papers(Inks)
  <2>1. PICK E \in SUBSET (Nat \X Nat) : shown \in [E -> Inks]
    BY <1>8 DEF Papers
  <2>2. DOMAIN shown = E
    BY <2>1
  <2>3. D \in SUBSET (Nat \X Nat)
    <3>1. \A q \in D : q \in Nat \X Nat
      BY <1>9
    <3>. QED BY <3>1
  <2>4. ASSUME NEW q \in D PROVE shown'[q] \in Inks
    <3>1. CASE q[1] = firstRow
      <4>1. q[2] \in Vga!Cell
        BY <1>9, <1>6
      <4>. QED BY <1>1, <1>5, <3>1, <4>1 DEF VgaMem
    <3>2. CASE q[1] # firstRow
      <4>1. q \in DOMAIN shown
        BY <3>2
      <4>. QED BY <1>1, <2>1, <2>2, <3>2, <4>1
    <3>. QED BY <3>1, <3>2
  <2>5. DOMAIN shown' = D /\ shown' = [q \in D |-> shown'[q]]
    BY <1>1
  <2> HIDE DEF D
  <2>6. shown' \in [D -> Inks]
    BY <2>4, <2>5
  <2>. QED BY <2>3, <2>6 DEF Papers
<1>11. ASSUME NEW i \in 0 .. VgaRows * VgaCols - 1
       PROVE  mem'[i] = OnPaper(shown', Place(VgaCols, firstRow, i))
  <2> DEFINE z == Place(VgaCols, firstRow, i)
  <2>1. i \in Vga!Cell /\ i \in Nat
    BY <1>3 DEF Vga!Cell
  <2>2. i \div VgaCols \in 0 .. VgaRows - 1 /\ i % VgaCols \in 0 .. VgaCols - 1
        /\ i = (i \div VgaCols) * VgaCols + (i % VgaCols)
    BY <1>2, PlaceOfCell
  <2>3. CASE i < VgaCols
    <3>1. 0 * VgaCols + i = i /\ i \in 0 .. VgaCols - 1
      BY <1>2, <2>1, <2>3
    <3>2. i \div VgaCols = 0 /\ i % VgaCols = i
      <4>1. 0 \in Nat
        OBVIOUS
      <4>2. (0 * VgaCols + i) \div VgaCols = 0 /\ (0 * VgaCols + i) % VgaCols = i
        BY <3>1, <1>2, <4>1, CellParts
      <4>. QED BY ONLY <3>1, <4>2, Zenon
    <3>3. z = <<firstRow, i>>
      BY <3>2, <1>8 DEF Place
    <3>4. z \in D /\ z[1] = firstRow /\ z[2] = i
      BY <3>1, <3>3
    <3>5. z \in DOMAIN shown' /\ shown'[z] = mem'[i]
      BY <1>1, <3>4
    <3>. QED BY <3>5 DEF OnPaper
  <2>4. CASE ~(i < VgaCols)
    <3>1. i \div VgaCols # 0
      <4> SUFFICES ASSUME i \div VgaCols = 0 PROVE FALSE
        OBVIOUS
      <4>1. i = 0 * VgaCols + (i % VgaCols) /\ 0 * VgaCols = 0
        BY <2>2, <1>2
      <4>. QED BY <4>1, <2>2, <2>4, <1>2
    <3>2. z[1] # firstRow
      BY <3>1, <2>2, <1>8 DEF Place
    <3>3. z \in D <=> z \in DOMAIN shown
      BY <3>2
    <3>4. mem'[i] = mem[i]
      BY <1>1, <1>2, <2>1, <2>4
    <3>5. mem[i] = OnPaper(shown, z)
      BY DEF VgaInv, PaperSeen
    <3>6. DOMAIN shown' = D /\ (z \in D => shown'[z] = shown[z])
      BY <1>1, <3>2
    <3>. QED BY <3>3, <3>4, <3>5, <3>6 DEF OnPaper
  <2>. QED BY <2>3, <2>4
<1>12. DOMAIN shown' = D
  BY <1>1
<1> HIDE DEF D, blanked
<1>13. PaperSeen(VgaRows, VgaCols, mem', shown', firstRow')
  BY <1>1, <1>9, <1>11, <1>12 DEF PaperSeen
<1>14. Vga!HardwareFollows'
  BY <1>1 DEF VgaInv, Vga!HardwareFollows, Vga!Position
<1>. QED BY <1>1, <1>5, <1>10, <1>13, <1>14 DEF VgaInv

LEMMA DrawRectKeeps ==
  ASSUME NEW p \in Corner, NEW q \in Corner, NEW c \in Drawn, VgaInv, Vga!DrawRect(p, q, c)
  PROVE  VgaInv'
<1> DEFINE B == Vga!Border(p, q)
           D == DOMAIN shown \cup {<<firstRow + b[2], b[1]>> : b \in Vga!OnScreen(B)}
<1>1. /\ mem' = [i \in Vga!Cell |-> IF <<i % VgaCols, i \div VgaCols>> \in B THEN c ELSE mem[i]]
      /\ shown' = [z \in D |-> IF <<z[2], z[1] - firstRow>> \in B THEN c ELSE shown[z]]
      /\ cursor' = cursor /\ updateCursor' = updateCursor /\ position' = position
      /\ firstRow' = firstRow /\ zeroPrinted' = zeroPrinted
  BY DEF Vga!DrawRect
<1>2. c \in Inks /\ VgaCols \in Nat \ {0} /\ VgaRows \in Nat \ {0} /\ p \in Nat \X Nat /\ q \in Nat \X Nat
  BY VgaTypes DEF Inks
<1>3. \A b \in B : b \in Nat \X Nat
  BY <1>2 DEF Vga!Border
<1> HIDE DEF B
<1>4. \A b \in Vga!OnScreen(B) : b \in Nat \X Nat /\ b[1] < VgaCols /\ b[2] < VgaRows
  BY <1>3 DEF Vga!OnScreen
<1>5. \A z \in DOMAIN shown : z \in Nat \X (0 .. VgaCols - 1) /\ z[1] < firstRow + VgaRows
  BY DEF VgaInv, PaperSeen
<1>6. firstRow \in Nat /\ shown \in Papers(Inks)
  BY DEF VgaInv
<1>7. ASSUME NEW z \in D PROVE z \in Nat \X (0 .. VgaCols - 1) /\ z[1] < firstRow + VgaRows
  <2>1. CASE z \in DOMAIN shown
    BY <1>5, <2>1
  <2>2. ASSUME NEW b \in Vga!OnScreen(B), z = <<firstRow + b[2], b[1]>>
        PROVE  z \in Nat \X (0 .. VgaCols - 1) /\ z[1] < firstRow + VgaRows
    <3>1. b[1] \in Nat /\ b[2] \in Nat /\ b[1] < VgaCols /\ b[2] < VgaRows
      BY <1>4
    <3>2. firstRow + b[2] \in Nat /\ b[1] \in 0 .. VgaCols - 1 /\ firstRow + b[2] < firstRow + VgaRows
      BY <3>1, <1>6, <1>2
    <3>. QED BY <2>2, <3>2
  <2>. QED BY <2>1, <2>2
<1>8. mem' \in VgaMem
  BY <1>1, <1>2 DEF VgaInv, VgaMem
<1>9. DOMAIN shown' = D /\ shown' = [z \in D |-> shown'[z]]
  BY <1>1
<1>10. ASSUME NEW z \in D PROVE shown'[z] = IF <<z[2], z[1] - firstRow>> \in B THEN c ELSE shown[z]
  BY <1>1
<1>11. ASSUME NEW z \in D, z \notin DOMAIN shown PROVE <<z[2], z[1] - firstRow>> \in B
  <2>1. PICK b \in Vga!OnScreen(B) : z = <<firstRow + b[2], b[1]>>
    BY <1>11
  <2>2. b \in B /\ b[1] \in Nat /\ b[2] \in Nat /\ b = <<b[1], b[2]>>
    BY <1>4 DEF Vga!OnScreen
  <2>3. (firstRow + b[2]) - firstRow = b[2]
    BY <2>2, <1>6
  <2>. QED BY <2>1, <2>2, <2>3
<1>12. ASSUME NEW x \in 0 .. VgaCols - 1, NEW y \in 0 .. VgaRows - 1, <<x, y>> \in B
       PROVE  <<firstRow + y, x>> \in D
  <2>1. <<x, y>> \in Vga!OnScreen(B)
    BY <1>2, <1>12 DEF Vga!OnScreen
  <2>. QED BY <2>1
<1> HIDE DEF D
<1>13. shown' \in Papers(Inks)
  <2>1. PICK E \in SUBSET (Nat \X Nat) : shown \in [E -> Inks]
    BY <1>6 DEF Papers
  <2>2. DOMAIN shown = E
    BY <2>1
  <2>3. D \in SUBSET (Nat \X Nat)
    <3>1. \A z \in D : z \in Nat \X Nat
      BY <1>7
    <3>. QED BY <3>1
  <2>4. ASSUME NEW z \in D PROVE shown'[z] \in Inks
    BY <1>2, <1>10, <1>11, <2>1, <2>2
  <2>5. shown' \in [D -> Inks]
    BY <1>9, <2>4
  <2>. QED BY <2>3, <2>5 DEF Papers
<1>14. ASSUME NEW i \in 0 .. VgaRows * VgaCols - 1
       PROVE  mem'[i] = OnPaper(shown', Place(VgaCols, firstRow, i))
  <2> DEFINE y == i \div VgaCols
             x == i % VgaCols
  <2>1. y \in 0 .. VgaRows - 1 /\ x \in 0 .. VgaCols - 1
    BY <1>2, PlaceOfCell
  <2>2. mem[i] = OnPaper(shown, <<firstRow + y, x>>)
    BY DEF VgaInv, PaperSeen, Place
  <2>3. mem'[i] = IF <<x, y>> \in B THEN c ELSE mem[i]
    BY <1>1 DEF Vga!Cell
  <2>4. Place(VgaCols, firstRow, i) = <<firstRow + y, x>>
    BY DEF Place
  <2> HIDE DEF x, y
  <2> DEFINE z == <<firstRow + y, x>>
  <2>5. z[2] = x /\ z[1] - firstRow = y
    BY <2>1, <1>6
  <2>6. CASE <<x, y>> \in B
    <3>1. z \in D
      BY <1>12, <2>1, <2>6
    <3>2. shown'[z] = c
      BY <1>10, <2>5, <2>6, <3>1
    <3>. QED BY <1>9, <2>3, <2>4, <2>6, <3>1, <3>2 DEF OnPaper
  <2>7. CASE <<x, y>> \notin B
    <3>1. z \in D => z \in DOMAIN shown /\ shown'[z] = shown[z]
      BY <1>10, <1>11, <2>5, <2>7
    <3>2. z \in DOMAIN shown => z \in D
      BY DEF D
    <3>. QED BY <1>9, <2>2, <2>3, <2>4, <2>7, <3>1, <3>2 DEF OnPaper
  <2>. QED BY <2>6, <2>7
<1>15. PaperSeen(VgaRows, VgaCols, mem', shown', firstRow')
  BY <1>1, <1>7, <1>9, <1>14 DEF PaperSeen
<1>16. Vga!HardwareFollows'
  BY <1>1 DEF VgaInv, Vga!HardwareFollows, Vga!Position
<1>. QED BY <1>1, <1>8, <1>13, <1>15, <1>16 DEF VgaInv

LEMMA VgaKeeps == VgaInv /\ [Vga!Next]_vgaVars => VgaInv'
<1> SUFFICES ASSUME VgaInv, [Vga!Next]_vgaVars PROVE VgaInv'
  OBVIOUS
<1>1. CASE vgaVars' = vgaVars
  BY <1>1 DEF VgaInv, vgaVars, Vga!HardwareFollows, Vga!Position
<1>2. CASE Vga!Next
  <2>1. ASSUME NEW text \in Texts, Vga!PrintText(text) PROVE VgaInv'
    BY <2>1, PrintTextKeeps
  <2>2. ASSUME NEW x \in 0 .. VgaCols - 1, NEW y \in 0 .. VgaRows - 1, Vga!SetCursor(x, y) PROVE VgaInv'
    BY <2>2, SetCursorKeeps
  <2>3. ASSUME NEW p \in Corner, NEW q \in Corner, NEW c \in Drawn, Vga!DrawRect(p, q, c) PROVE VgaInv'
    BY <2>3, DrawRectKeeps
  <2>. QED BY <1>2, <2>1, <2>2, <2>3, PrintZeroKeeps, ClearKeeps, DrawHeaderKeeps DEF Vga!Next
<1>. QED BY <1>1, <1>2

LEMMA VgaHolds == VgaInv => Vga!TypeOK /\ Vga!ShowsLastRows /\ Vga!HardwareFollows
<1> SUFFICES ASSUME VgaInv PROVE Vga!TypeOK /\ Vga!ShowsLastRows /\ Vga!HardwareFollows
  OBVIOUS
<1>1. Vga!TypeOK /\ Vga!HardwareFollows /\ mem \in [Vga!Cell -> Inks]
  BY DEF VgaInv, Vga!TypeOK, VgaMem, Inks
<1>2. \A i \in Vga!Cell : mem[i] = OnPaper(shown, Place(VgaCols, firstRow, i))
  BY DEF VgaInv, PaperSeen, Vga!Cell
<1>3. \A i \in Vga!Cell : mem[i] = Vga!Seen(shown, firstRow)[i]
  BY <1>2 DEF OnPaper, Place, Vga!Seen
<1>4. DOMAIN Vga!Seen(shown, firstRow) = Vga!Cell
      /\ Vga!Seen(shown, firstRow) = [i \in Vga!Cell |-> Vga!Seen(shown, firstRow)[i]]
  BY DEF Vga!Seen
<1>5. mem = Vga!Seen(shown, firstRow)
  BY <1>1, <1>3, <1>4
<1>. QED BY <1>1, <1>5 DEF Vga!ShowsLastRows

-----------------------------------------------------------------------------
(* An app's part of the screen *)

LEMMA AppTypes ==
  /\ Rows \in Nat \ {0} /\ Cols \in Nat \ {0} /\ Byte \in Nat \ {0} /\ Rows < Byte /\ Cols < Byte
  /\ Newline \notin AppChar /\ Return \notin AppChar /\ Newline # Return
  /\ Rect \subseteq Shell!Rectangle /\ ShellRect \subseteq Shell!Rectangle
  /\ AppTexts \subseteq Seq(Shell!Printable)
  /\ Blank \in AppChar /\ Typed \subseteq AppChar /\ Prompt \in Seq(AppChar)
  /\ Output \subseteq Seq(Shell!Printable) /\ Junk \subseteq Seq(Shell!Printable)
  BY ShellAssumption DEF Shell!KappScreenAssumption, Shell!ShellAssumption

\* The part that was allowed
RectGood ==
  /\ rect.width \in Nat \ {0} /\ rect.height \in Nat \ {0} /\ rect.x \in Nat /\ rect.y \in Nat
  /\ rect.x + rect.width <= Cols /\ rect.y + rect.height <= Rows

AppInks == AppChar \cup {Blank}
AppCell == 0 .. rect.width * rect.height - 1
AppMem == [AppCell -> AppInks]
AppColumn == 0 .. Byte - 1
AppRow == 0 .. rect.height
AppScreens == Screens(AppMem, AppColumn, AppRow, Papers(AppInks), Nat)
BufferSeen(s) == PaperSeen(rect.height, rect.width, s.mem, s.paper, s.top)
Buffers == {s \in AppScreens : BufferSeen(s)}

LEMMA AppFields ==
  ASSUME NEW s \in AppScreens
  PROVE  /\ s.mem \in AppMem /\ s.x \in AppColumn /\ s.y \in AppRow
         /\ s.paper \in Papers(AppInks) /\ s.top \in Nat
  BY DEF AppScreens, Screens

LEMMA AppCells == RectGood => AppCell = 0 .. rect.height * rect.width - 1
  BY DEF RectGood, AppCell

LEMMA AppColumnSet ==
  ASSUME NEW s \in AppScreens, NEW x \in AppColumn
  PROVE  LET r == AtColumn(s, x)
         IN  /\ r \in AppScreens /\ r.mem = s.mem /\ r.x = x /\ r.y = s.y
             /\ r.paper = s.paper /\ r.top = s.top
  BY DEF AppScreens, Screens, AtColumn

LEMMA AppCursorSet ==
  ASSUME NEW s \in AppScreens, NEW x \in AppColumn, NEW y \in AppRow
  PROVE  LET r == AtCursor(s, x, y)
         IN  /\ r \in AppScreens /\ r.mem = s.mem /\ r.x = x /\ r.y = y
             /\ r.paper = s.paper /\ r.top = s.top
  BY DEF AppScreens, Screens, AtCursor

LEMMA AppRowsSet ==
  ASSUME NEW s \in AppScreens, NEW m \in AppMem, NEW x \in AppColumn, NEW y \in AppRow, NEW t \in Nat
  PROVE  LET r == AtRows(s, x, y, m, t)
         IN  /\ r \in AppScreens /\ r.mem = m /\ r.x = x /\ r.y = y
             /\ r.paper = s.paper /\ r.top = t
  BY DEF AppScreens, Screens, AtRows

LEMMA AppInkSet ==
  ASSUME NEW s \in AppScreens, NEW m \in AppMem, NEW p \in Papers(AppInks)
  PROVE  LET r == WithInk(s, m, p)
         IN  /\ r \in AppScreens /\ r.mem = m /\ r.x = s.x /\ r.y = s.y
             /\ r.paper = p /\ r.top = s.top
  BY DEF AppScreens, Screens, WithInk

\* Where the cursor goes at the end of a row: down, or the rows go up.
AppBroken(s, r) ==
  /\ r \in Buffers /\ r.x = 0
  /\ r.paper = s.paper
  /\ \/ r.y = (s.y + 1) % Byte /\ r.y < rect.height /\ r.mem = s.mem /\ r.top = s.top
     \/ /\ (s.y + 1) % Byte >= rect.height /\ r.y = s.y /\ r.top = s.top + 1
        /\ r.mem = Lifted(rect.height, rect.width, s.mem)

LEMMA AppBreaks == ASSUME RectGood, NEW s \in Buffers PROVE AppBroken(s, Shell!BreakLine(s))
<1>1. s \in AppScreens /\ PaperSeen(rect.height, rect.width, s.mem, s.paper, s.top)
  BY DEF Buffers, BufferSeen
<1>2. s.y \in AppRow /\ s.top \in Nat /\ s.mem \in AppMem
  BY <1>1, AppFields
<1>3. 0 \in AppColumn /\ (s.y + 1) % Byte \in Nat
  <2>1. s.y + 1 \in Nat
    BY <1>2 DEF AppRow
  <2>. QED BY <2>1, AppTypes, Division DEF AppColumn
<1>4. CASE (s.y + 1) % Byte >= rect.height
  <2> DEFINE m == Shell!ScrollUp(s.mem)
             r == AtRows(s, 0, s.y, m, s.top + 1)
  <2>1. m = Lifted(rect.height, rect.width, s.mem)
    <3>1. DOMAIN s.mem = 0 .. rect.height * rect.width - 1
      BY <1>2, AppCells DEF AppMem
    <3>. QED BY <3>1 DEF Shell!ScrollUp, Lifted
  <2>2. PaperSeen(rect.height, rect.width, m, s.paper, s.top + 1)
    BY <1>1, <1>2, <2>1, RowIsLifted DEF RectGood
  <2>3. m \in AppMem
    <3>1. ASSUME NEW i \in AppCell, i < (rect.height - 1) * rect.width PROVE i + rect.width \in AppCell
      <4>1. (rect.height - 1) * rect.width \in Nat
            /\ rect.height * rect.width = (rect.height - 1) * rect.width + rect.width
        BY Rows1 DEF RectGood
      <4> DEFINE a == (rect.height - 1) * rect.width
                 n == rect.height * rect.width
      <4>2. AppCell = 0 .. n - 1 /\ rect.width \in Nat
        BY AppCells DEF RectGood
      <4> HIDE DEF a, n
      <4>3. a \in Nat /\ n = a + rect.width /\ i < a
        BY <3>1, <4>1 DEF a, n
      <4>. QED BY ONLY <3>1, <4>2, <4>3
    <3>2. DOMAIN s.mem = AppCell
      BY <1>2 DEF AppMem
    <3>. QED BY <3>1, <3>2, <1>2 DEF Shell!ScrollUp, AppInks, AppMem
  <2> HIDE DEF m
  <2>4. s.top + 1 \in Nat
    BY <1>2
  <2>5. r \in AppScreens /\ r.mem = m /\ r.paper = s.paper /\ r.top = s.top + 1 /\ r.x = 0 /\ r.y = s.y
    BY <1>1, <1>2, <1>3, <2>3, <2>4, AppRowsSet
  <2>6. Shell!BreakLine(s) = r
    BY <1>4 DEF Shell!BreakLine, m, AtRows
  <2> HIDE DEF r
  <2>. QED BY <1>4, <2>1, <2>2, <2>5, <2>6 DEF AppBroken, Buffers, BufferSeen
<1>5. CASE ~((s.y + 1) % Byte >= rect.height)
  <2> DEFINE y == (s.y + 1) % Byte
             r == AtCursor(s, 0, y)
  <2>1. y \in AppRow /\ y < rect.height
    BY <1>3, <1>5 DEF AppRow, RectGood
  <2>2. Shell!BreakLine(s) = r
    BY <1>5 DEF Shell!BreakLine, AtCursor
  <2> HIDE DEF y
  <2>3. r \in AppScreens /\ r.mem = s.mem /\ r.paper = s.paper /\ r.top = s.top /\ r.x = 0 /\ r.y = y
    BY <1>1, <1>3, <2>1, AppCursorSet
  <2> HIDE DEF r
  <2>. QED BY <1>1, <2>1, <2>2, <2>3 DEF y, AppBroken, Buffers, BufferSeen
<1>. QED BY <1>4, <1>5

Behind(s) == s.y * rect.width + s.x
AppPut(s, c, r) ==
  /\ r \in Buffers /\ r.x = (s.x + 1) % Byte /\ r.y = s.y /\ r.top = s.top
  /\ r.mem = IF Shell!Inside(s) THEN [s.mem EXCEPT ![Behind(s)] = c] ELSE s.mem

LEMMA AppPuts ==
  ASSUME RectGood, NEW s \in Buffers, NEW c \in AppInks
  PROVE  AppPut(s, c, [Shell!WriteAt(s, c) EXCEPT !.x = (s.x + 1) % Byte])
<1> DEFINE x == (s.x + 1) % Byte
           a == Shell!WriteAt(s, c)
           r == AtColumn(a, x)
<1>1. s \in AppScreens /\ PaperSeen(rect.height, rect.width, s.mem, s.paper, s.top)
  BY DEF Buffers, BufferSeen
<1>2. s.y \in AppRow /\ s.top \in Nat /\ s.mem \in AppMem /\ s.x \in AppColumn /\ s.paper \in Papers(AppInks)
  BY <1>1, AppFields
<1>3. x \in AppColumn
  <2>1. s.x + 1 \in Nat
    BY <1>2 DEF AppColumn
  <2>. QED BY <2>1, AppTypes, Division DEF AppColumn
<1>4. [Shell!WriteAt(s, c) EXCEPT !.x = (s.x + 1) % Byte] = r
  BY DEF AtColumn
<1> HIDE DEF x
<1>5. /\ a \in AppScreens /\ a.x = s.x /\ a.y = s.y /\ a.top = s.top
      /\ PaperSeen(rect.height, rect.width, a.mem, a.paper, a.top)
      /\ a.mem = IF Shell!Inside(s) THEN [s.mem EXCEPT ![Behind(s)] = c] ELSE s.mem
  <2>1. CASE Shell!Inside(s)
    <3> DEFINE m == [s.mem EXCEPT ![Behind(s)] = c]
               p == Inked(s.paper, <<s.top + s.y, s.x>>, c)
    <3>1. s.x \in 0 .. rect.width - 1 /\ s.y \in Nat /\ s.y < rect.height
      BY <1>2, <2>1 DEF Shell!Inside, AppRow, AppColumn, RectGood
    <3>2. m \in AppMem
      BY <1>2 DEF AppMem
    <3>3. <<s.top + s.y, s.x>> \in Nat \X Nat
      BY <1>2, <3>1
    <3>4. p \in Papers(AppInks)
      BY <1>2, <3>3, InkedIsPaper
    <3>5. PaperSeen(rect.height, rect.width, m, p, s.top)
      <4>1. DOMAIN s.mem = 0 .. rect.width * rect.height - 1 /\ rect.width * rect.height = rect.height * rect.width
        BY <1>2 DEF AppMem, AppCell, RectGood
      <4>2. PaperSeen(rect.height, rect.width, [s.mem EXCEPT ![s.y * rect.width + s.x] = c], p, s.top)
        BY <4>1, <1>1, <1>2, <3>1, CellIsWritten DEF RectGood
      <4>. QED BY <4>2 DEF Behind
    <3>6. a = WithInk(s, m, p)
      BY <2>1 DEF Shell!WriteAt, Shell!Inside, WithInk, Inked, Behind
    <3> HIDE DEF m, p
    <3>7. LET b == WithInk(s, m, p)
          IN  /\ b \in AppScreens /\ b.mem = m /\ b.x = s.x /\ b.y = s.y
              /\ b.paper = p /\ b.top = s.top
      BY <1>1, <3>2, <3>4, AppInkSet
    <3> HIDE DEF a
    <3>8. /\ a \in AppScreens /\ a.mem = m /\ a.x = s.x /\ a.y = s.y
          /\ a.paper = p /\ a.top = s.top
      BY <3>6, <3>7
    <3>. QED BY <2>1, <3>5, <3>8 DEF m
  <2>2. CASE ~Shell!Inside(s)
    <3>1. a = s
      BY <2>2 DEF Shell!WriteAt, Shell!Inside
    <3>. QED BY <1>1, <2>2, <3>1
  <2>. QED BY <2>1, <2>2
<1> HIDE DEF a
<1>6. /\ r \in AppScreens /\ r.mem = a.mem /\ r.x = x /\ r.y = a.y
      /\ r.paper = a.paper /\ r.top = a.top
  BY <1>3, <1>5, AppColumnSet
<1> HIDE DEF r
<1>. QED BY <1>4, <1>5, <1>6 DEF AppPut, Buffers, BufferSeen, x

\* What a character does: an ordinary one is put where the cursor is, and the cursor goes on.
AppWrote(s, c, r) ==
  /\ r \in Buffers
  /\ c = Newline => AppBroken(s, r)
  /\ c = Return => r.mem = s.mem /\ r.x = 0 /\ r.y = s.y /\ r.top = s.top
  /\ c \notin {Newline, Return} =>
       \E put : AppPut(s, c, put) /\ (put.x >= rect.width => AppBroken(put, r))
                                 /\ (~(put.x >= rect.width) => r = put)

LEMMA AppWrites ==
  ASSUME RectGood, NEW s \in Buffers, NEW c \in Shell!Printable
  PROVE  AppWrote(s, c, Shell!WriteChar(s, c))
<1>1. s \in AppScreens /\ PaperSeen(rect.height, rect.width, s.mem, s.paper, s.top)
  BY DEF Buffers, BufferSeen
<1>2. CASE c = Newline
  <2>1. Shell!WriteChar(s, c) = Shell!BreakLine(s)
    BY <1>2, AppTypes DEF Shell!WriteChar
  <2>2. AppBroken(s, Shell!WriteChar(s, c))
    BY <2>1, AppBreaks
  <2>. QED BY <1>2, <2>2, AppTypes DEF AppWrote, AppBroken
<1>3. CASE c = Return
  <2> DEFINE r == AtColumn(s, 0)
  <2>1. 0 \in AppColumn
    BY AppTypes DEF AppColumn
  <2>2. r \in AppScreens /\ r.mem = s.mem /\ r.x = 0 /\ r.y = s.y /\ r.paper = s.paper /\ r.top = s.top
    BY <1>1, <2>1, AppColumnSet
  <2>3. Shell!WriteChar(s, c) = r
    BY <1>3, AppTypes DEF Shell!WriteChar, AtColumn
  <2> HIDE DEF r
  <2>. QED BY <1>1, <1>3, <2>2, <2>3, AppTypes DEF AppWrote, Buffers, BufferSeen
<1>4. CASE c \notin {Newline, Return}
  <2> DEFINE put == [Shell!WriteAt(s, c) EXCEPT !.x = (s.x + 1) % Byte]
             r == Shell!WriteChar(s, c)
  <2>1. c \in AppInks
    BY <1>4 DEF Shell!Printable, AppInks
  <2>2. AppPut(s, c, put)
    BY <2>1, AppPuts
  <2>3. r = IF put.x >= rect.width THEN Shell!BreakLine(put) ELSE put
    BY <1>4 DEF Shell!WriteChar
  <2> HIDE DEF put, r
  <2>4. put \in Buffers
    BY <2>2 DEF AppPut
  <2>5. CASE put.x >= rect.width
    <3>1. AppBroken(put, r)
      BY <2>3, <2>4, <2>5, AppBreaks
    <3>2. r \in Buffers
      BY <3>1 DEF AppBroken
    <3>. QED BY <1>4, <2>2, <2>5, <3>1, <3>2 DEF AppWrote, r
  <2>6. CASE ~(put.x >= rect.width)
    BY <1>4, <2>2, <2>3, <2>4, <2>6 DEF AppWrote, r
  <2>. QED BY <2>5, <2>6
<1>. QED BY <1>2, <1>3, <1>4

LEMMA AppWritesIn ==
  ASSUME RectGood, NEW s \in Buffers, NEW c \in Shell!Printable
  PROVE  Shell!WriteChar(s, c) \in Buffers
  BY AppWrites DEF AppWrote

\* Printing keeps the cursor inside.
LEMMA AppStaysInside ==
  ASSUME RectGood, NEW s \in Buffers, NEW c, NEW r, AppWrote(s, c, r), Shell!Inside(s)
  PROVE  Shell!Inside(r)
<1>1. s.x \in Nat /\ s.y \in Nat /\ s.x < rect.width /\ s.y < rect.height
      /\ rect.width \in Nat /\ rect.height \in Nat /\ rect.width > 0
  BY AppFields DEF Buffers, AppColumn, AppRow, RectGood, Shell!Inside
<1>2. ASSUME NEW b, AppBroken(b, r), b.y = s.y PROVE Shell!Inside(r)
  BY <1>1, <1>2 DEF AppBroken, Shell!Inside
<1>3. CASE c = Newline
  BY <1>2, <1>3 DEF AppWrote
<1>4. CASE c = Return
  BY <1>1, <1>4 DEF AppWrote, Shell!Inside
<1>5. CASE c \notin {Newline, Return}
  <2>1. PICK put : AppPut(s, c, put) /\ (put.x >= rect.width => AppBroken(put, r))
                                   /\ (~(put.x >= rect.width) => r = put)
    BY <1>5 DEF AppWrote
  <2>2. put.y = s.y /\ put \in Buffers
    BY <2>1 DEF AppPut
  <2>3. CASE put.x >= rect.width
    BY <1>2, <2>1, <2>2, <2>3
  <2>4. CASE ~(put.x >= rect.width)
    <3>1. put.x \in Nat
      BY <2>2, AppFields DEF Buffers, AppColumn
    <3>. QED BY <1>1, <2>1, <2>2, <2>4, <3>1 DEF Shell!Inside
  <2>. QED BY <2>3, <2>4
<1>. QED BY <1>3, <1>4, <1>5

\* The buffers h[0] = s, h[1], ... while a text is printed
AppCourse(h, s, text) ==
  /\ h \in [0 .. Len(text) -> Buffers] /\ h[0] = s
  /\ \A k \in 1 .. Len(text) :
       h[k] = Shell!WriteChar(h[k - 1], text[k]) /\ AppWrote(h[k - 1], text[k], h[k])

LEMMA AppPrints ==
  ASSUME RectGood, NEW s \in Buffers, NEW text \in Seq(Shell!Printable)
  PROVE  \E h : AppCourse(h, s, text) /\ Shell!Written(s, text) = h[Len(text)]
<1> DEFINE n == Len(text)
           F == [k \in 1 .. n |-> [r \in Buffers |-> Shell!WriteChar(r, text[k])]]
           Round(h) == [k \in 0 .. n |-> IF k = 0 THEN s ELSE Shell!WriteChar(h[k - 1], text[k])]
           made == CHOOSE h : h = Round(h)
<1>1. n \in Nat /\ \A k \in 1 .. n : text[k] \in Shell!Printable
  OBVIOUS
<1>2. \A k \in 1 .. n, r \in Buffers : Shell!WriteChar(r, text[k]) \in Buffers
  BY <1>1, AppWritesIn
<1>3. F \in Rounds(n, Buffers) /\ \A k \in 1 .. n, r \in Buffers : F[k][r] = Shell!WriteChar(r, text[k])
  BY <1>2 DEF Rounds
<1>4. Shell!Written(s, text) = made[n]
  BY DEF Shell!Written
<1> HIDE DEF F, n
<1>5. PICK h : IsCourse(h, n, Buffers, s, F)
  BY <1>1, <1>3, CourseExists
<1>6. h \in [0 .. n -> Buffers] /\ h[0] = s /\ \A k \in 1 .. n : h[k] = F[k][h[k - 1]]
  BY <1>5 DEF IsCourse
<1>7. \A k \in 1 .. n : k - 1 \in 0 .. n
  BY <1>1
<1>8. \A k \in 1 .. n : h[k] = Shell!WriteChar(h[k - 1], text[k])
  BY <1>3, <1>6, <1>7
<1>9. h = Round(h)
  BY <1>1, <1>6, <1>8
<1>10. made = Round(made)
  <2> HIDE DEF Round
  <2>. QED BY <1>9
<1> HIDE DEF made
<1>11. made[0] = s /\ \A k \in 1 .. n : made[k] = Shell!WriteChar(made[k - 1], text[k])
  BY <1>1, <1>10
<1>12. made = [k \in 0 .. n |-> made[k]]
  BY <1>10
<1> HIDE DEF Round
<1> DEFINE S == {k \in 0 .. n : made[k] \in Buffers}
<1>13. 0 \in S
  BY <1>1, <1>11
<1>14. ASSUME NEW k \in 0 .. n - 1, k \in S PROVE k + 1 \in S
  <2>1. k + 1 \in 1 .. n /\ (k + 1) - 1 = k /\ made[k] \in Buffers
    BY <1>1, <1>14
  <2>2. made[k + 1] = Shell!WriteChar(made[k], text[k + 1])
    BY <1>11, <2>1
  <2>3. made[k + 1] \in Buffers
    BY <1>2, <2>1, <2>2
  <2>. QED BY <1>1, <2>1, <2>3
<1> HIDE DEF S
<1>15. 0 .. n \subseteq S
  BY <1>1, <1>13, <1>14, InductionUpTo
<1>16. \A k \in 0 .. n : made[k] \in Buffers
  BY <1>15 DEF S
<1>17. made \in [0 .. n -> Buffers]
  BY <1>12, <1>16
<1>18. ASSUME NEW k \in 1 .. n
       PROVE  made[k] = Shell!WriteChar(made[k - 1], text[k]) /\ AppWrote(made[k - 1], text[k], made[k])
  BY <1>1, <1>7, <1>11, <1>16, AppWrites
<1>19. AppCourse(made, s, text)
  BY <1>11, <1>17, <1>18 DEF AppCourse, n
<1>. QED BY <1>4, <1>19 DEF n

LEMMA AppPrinted ==
  ASSUME RectGood, NEW s \in Buffers, NEW text \in Seq(Shell!Printable)
  PROVE  /\ Shell!Written(s, text) \in Buffers
         /\ Shell!Inside(s) => Shell!Inside(Shell!Written(s, text))
<1> DEFINE n == Len(text)
<1>1. n \in Nat
  OBVIOUS
<1>2. PICK h : AppCourse(h, s, text) /\ Shell!Written(s, text) = h[n]
  BY AppPrints
<1>3. /\ h \in [0 .. n -> Buffers] /\ h[0] = s
      /\ \A k \in 1 .. n : AppWrote(h[k - 1], text[k], h[k])
  BY <1>2 DEF AppCourse
<1> HIDE DEF n
<1> DEFINE S == {k \in 0 .. n : Shell!Inside(s) => Shell!Inside(h[k])}
<1>4. 0 \in S
  BY <1>1, <1>3
<1>5. ASSUME NEW k \in 0 .. n - 1, k \in S PROVE k + 1 \in S
  <2>1. k + 1 \in 1 .. n /\ (k + 1) - 1 = k /\ k \in 0 .. n /\ k + 1 \in 0 .. n
    BY <1>1
  <2>2. AppWrote(h[k], text[k + 1], h[k + 1]) /\ h[k] \in Buffers
    BY <1>3, <2>1
  <2>3. Shell!Inside(h[k]) => Shell!Inside(h[k + 1])
    BY <2>2, AppStaysInside
  <2>. QED BY <1>5, <2>1, <2>3
<1> HIDE DEF S
<1>6. 0 .. n \subseteq S
  BY <1>1, <1>4, <1>5, InductionUpTo
<1>7. n \in S /\ n \in 0 .. n
  BY <1>1, <1>6
<1>8. h[n] \in Buffers
  BY <1>3, <1>7
<1>. QED BY <1>2, <1>7, <1>8 DEF S

ScreenInv ==
  /\ RectGood /\ (~full => rect.y >= 1) /\ sb \in Buffers /\ astray \in BOOLEAN
  /\ Shell!PrintKeepsInside /\ Shell!HeaderKept

LEMMA BuffersKept == rect' = rect => (Buffers)' = Buffers /\ (RectGood' <=> RectGood)
  BY DEF Buffers, AppScreens, AppMem, AppCell, AppRow, AppColumn, BufferSeen, RectGood

LEMMA ClearedGood == RectGood => Shell!Cleared \in Buffers /\ Shell!Inside(Shell!Cleared)
<1> SUFFICES ASSUME RectGood PROVE Shell!Cleared \in Buffers /\ Shell!Inside(Shell!Cleared)
  OBVIOUS
<1> DEFINE s == Shell!Cleared
           p == [q \in {} |-> Blank]
           m == Shell!BlankMem
<1>1. s = [mem |-> m, x |-> 0, y |-> 0, paper |-> p, top |-> 0]
  BY DEF Shell!Cleared, Shell!Empty
<1>2. m \in AppMem /\ \A i \in AppCell : m[i] = Blank
  BY DEF Shell!BlankMem, AppMem, AppCell, AppInks
<1>3. p \in Papers(AppInks) /\ PaperSeen(rect.height, rect.width, m, p, 0)
  <2>1. \A i \in 0 .. rect.height * rect.width - 1 : m[i] = Blank
    BY <1>2, AppCells
  <2> HIDE DEF m
  <2>3. PaperSeen(rect.height, rect.width, m, p, 0)
    BY <2>1 DEF PaperSeen, OnPaper
  <2>4. {} \in SUBSET (Nat \X Nat) /\ p \in [{} -> AppInks]
    OBVIOUS
  <2>. QED BY <2>3, <2>4 DEF Papers
<1>4. 0 \in AppColumn /\ 0 \in AppRow /\ 0 \in Nat
  BY AppTypes DEF AppColumn, AppRow, RectGood
<1> HIDE DEF m, p, s
<1>5. s \in AppScreens
  BY <1>1, <1>2, <1>3, <1>4 DEF AppScreens, Screens
<1>6. Shell!Inside(s)
  BY <1>1 DEF Shell!Inside, RectGood
<1>. QED BY <1>1, <1>3, <1>5, <1>6 DEF s, Buffers, BufferSeen

LEMMA TrimmedGood ==
  ASSUME RectGood, NEW s \in Buffers
  PROVE  LET r == Shell!Trimmed(s)
         IN r \in Buffers /\ r.mem = s.mem /\ r.x = s.x /\ r.y = s.y /\ r.top = s.top
<1>1. s \in AppScreens /\ PaperSeen(rect.height, rect.width, s.mem, s.paper, s.top)
  BY DEF Buffers, BufferSeen
<1>2. s.paper \in Papers(AppInks) /\ s.top \in Nat
  BY <1>1, AppFields
<1> DEFINE p == Kept(s.paper, s.top)
           r == Shell!Trimmed(s)
<1>3. r = [s EXCEPT !.paper = p]
  BY DEF Shell!Trimmed, Kept
<1>4. p \in Papers(AppInks) /\ PaperSeen(rect.height, rect.width, s.mem, p, s.top)
  BY <1>1, <1>2, KeptIsPaper, PaperIsTrimmed DEF RectGood
<1> HIDE DEF p, r
<1>5. r \in AppScreens /\ r.mem = s.mem /\ r.x = s.x /\ r.y = s.y /\ r.paper = p /\ r.top = s.top
  BY <1>1, <1>3, <1>4 DEF AppScreens, Screens
<1>. QED BY <1>4, <1>5 DEF r, Buffers, BufferSeen

\* The cursor alone is moved.
CursorMoved(s, r) == r \in Buffers /\ r.mem = s.mem /\ r.top = s.top

LEMMA CursorMoves ==
  ASSUME NEW s \in Buffers, NEW x \in AppColumn, NEW y \in AppRow
  PROVE  LET r == AtCursor(s, x, y) IN CursorMoved(s, r) /\ r.x = x /\ r.y = y
<1>1. s \in AppScreens /\ BufferSeen(s)
  BY DEF Buffers
<1> DEFINE r == AtCursor(s, x, y)
<1>2. r \in AppScreens /\ r.mem = s.mem /\ r.x = x /\ r.y = y /\ r.paper = s.paper /\ r.top = s.top
  BY <1>1, AppCursorSet
<1> HIDE DEF r
<1>3. BufferSeen(r)
  BY <1>1, <1>2 DEF BufferSeen
<1>. QED BY <1>2, <1>3 DEF r, Buffers, CursorMoved

LEMMA ColumnMoves ==
  ASSUME NEW s \in Buffers, NEW x \in AppColumn
  PROVE  LET r == AtColumn(s, x) IN CursorMoved(s, r) /\ r.x = x /\ r.y = s.y
<1>1. s \in AppScreens /\ BufferSeen(s)
  BY DEF Buffers
<1> DEFINE r == AtColumn(s, x)
<1>2. r \in AppScreens /\ r.mem = s.mem /\ r.x = x /\ r.y = s.y /\ r.paper = s.paper /\ r.top = s.top
  BY <1>1, AppColumnSet
<1> HIDE DEF r
<1>3. BufferSeen(r)
  BY <1>1, <1>2 DEF BufferSeen
<1>. QED BY <1>2, <1>3 DEF r, Buffers, CursorMoved

LEMMA Wrapped == ASSUME NEW a \in Int, NEW b \in Nat \ {0} PROVE a % b \in 0 .. b - 1
  OBVIOUS

\* One column back, or to the end of the row before
RetreatedTo(s, r) ==
  /\ CursorMoved(s, r)
  /\ \/ s.x = 0 /\ s.y > 0 /\ r.y = s.y - 1 /\ r.x = rect.width - 1
     \/ s.x > 0 /\ r.y = s.y /\ r.x = s.x - 1
     \/ s.x = 0 /\ s.y = 0 /\ r.y = 0 /\ r.x = Byte - 1

\* A byte wraps.
LEMMA OneBelowZero == ASSUME NEW b \in Nat \ {0} PROVE (0 - 1) % b = b - 1
  OBVIOUS

LEMMA RetreatGood == ASSUME RectGood, NEW s \in Buffers PROVE RetreatedTo(s, Shell!Retreated(s))
<1>1. s.x \in 0 .. Byte - 1 /\ s.y \in 0 .. rect.height /\ Byte \in Nat /\ Byte > 0
      /\ rect.width \in Nat \ {0} /\ rect.width <= Cols /\ Cols < Byte
  BY AppFields, AppTypes DEF Buffers, AppColumn, AppRow, RectGood
<1>2. CASE s.x = 0 /\ s.y > 0
  <2>1. rect.width - 1 \in AppColumn
    BY <1>1, AppTypes DEF AppColumn
  <2>5. s.y - 1 \in AppRow
    BY <1>1, <1>2 DEF AppRow, RectGood
  <2>2. LET r == AtCursor(s, rect.width - 1, s.y - 1)
        IN CursorMoved(s, r) /\ r.x = rect.width - 1 /\ r.y = s.y - 1
    BY <2>1, <2>5, CursorMoves
  <2>3. Shell!Retreated(s) = [s EXCEPT !.y = s.y - 1, !.x = rect.width - 1]
    BY <1>2 DEF Shell!Retreated
  <2>4. [s EXCEPT !.y = s.y - 1, !.x = rect.width - 1] = AtCursor(s, rect.width - 1, s.y - 1)
    <3>1. s \in AppScreens
      BY DEF Buffers
    <3>. QED BY <3>1 DEF AtCursor, AppScreens, Screens
  <2>. QED BY <1>2, <2>2, <2>3, <2>4 DEF RetreatedTo
<1>3. CASE ~(s.x = 0 /\ s.y > 0)
  <2> DEFINE x == (s.x - 1) % Byte
  <2>1. x \in AppColumn
    <3>1. s.x - 1 \in Int /\ Byte \in Nat \ {0}
      BY <1>1
    <3>. QED BY <3>1, Wrapped DEF AppColumn
  <2>2. s.x > 0 => x = s.x - 1
    <3>1. s.x > 0 => s.x - 1 \in Nat /\ s.x - 1 < Byte
      BY <1>1
    <3>. QED BY <1>1, <3>1, SmallRemainder
  <2>6. s.x = 0 => x = Byte - 1
    BY <1>1, OneBelowZero
  <2>3. Shell!Retreated(s) = AtColumn(s, x)
    BY <1>3 DEF Shell!Retreated, AtColumn
  <2> HIDE DEF x
  <2>4. LET r == AtColumn(s, x) IN CursorMoved(s, r) /\ r.x = x /\ r.y = s.y
    BY <2>1, ColumnMoves
  <2>5. s.x > 0 \/ (s.x = 0 /\ s.y = 0)
    BY <1>1, <1>3
  <2>. QED BY <2>2, <2>3, <2>4, <2>5, <2>6 DEF RetreatedTo
<1>. QED BY <1>2, <1>3

LEMMA AdvanceGood == ASSUME RectGood, NEW s \in Buffers PROVE CursorMoved(s, Shell!Advanced(s))
<1>1. s.x \in 0 .. Byte - 1 /\ s.y \in 0 .. rect.height /\ Byte \in Nat /\ Byte > 0
      /\ rect.width \in Nat \ {0} /\ rect.height \in Nat
  BY AppFields, AppTypes DEF Buffers, AppColumn, AppRow, RectGood
<1> DEFINE x == (s.x + 1) % Byte
<1>2. x \in AppColumn /\ 0 \in AppColumn
  <2>1. s.x + 1 \in Int /\ Byte \in Nat \ {0}
    BY <1>1
  <2>2. x \in 0 .. Byte - 1
    BY <2>1, Wrapped
  <2> HIDE DEF x
  <2>3. 0 \in 0 .. Byte - 1
    BY <1>1
  <2>. QED BY <2>2, <2>3 DEF AppColumn
<1>3. CASE x >= rect.width /\ s.y < rect.height
  <2>1. s.y + 1 \in AppRow
    BY <1>1, <1>3 DEF AppRow
  <2>2. Shell!Advanced(s) = AtCursor(s, 0, s.y + 1)
    BY <1>3 DEF Shell!Advanced, AtCursor
  <2>. QED BY <1>2, <2>1, <2>2, CursorMoves
<1>4. CASE ~(x >= rect.width /\ s.y < rect.height)
  <2>1. Shell!Advanced(s) = AtColumn(s, x)
    BY <1>4 DEF Shell!Advanced, AtColumn
  <2> HIDE DEF x
  <2>. QED BY <1>2, <2>1, ColumnMoves
<1>. QED BY <1>3, <1>4

LEMMA GivenGood ==
  ASSUME NEW rects, rects \subseteq Shell!Rectangle, Shell!Given(rects)
  PROVE  ScreenInv /\ sb = Shell!Cleared
<1>1. PICK r \in rects, f \in BOOLEAN :
        /\ Shell!Allowed(r, f) /\ rect = Shell!Placed(r, f) /\ full = f /\ sb = Shell!Cleared
        /\ screen = [c \in Shell!ScreenCell |-> IF c[2] = 0 THEN "header" ELSE Blank]
        /\ hw = <<0, 0>> /\ astray = FALSE
  BY DEF Shell!Given
<1>2. r.x \in Nat /\ r.y \in Nat /\ r.width \in Nat \ {0} /\ r.height \in Nat \ {0} /\ r \in Shell!Rectangle
  BY DEF Shell!Rectangle
<1>3. /\ rect.x = r.x /\ rect.width = r.width /\ rect.height = r.height
      /\ rect.y = IF f THEN r.y ELSE r.y + 1
  BY <1>1, <1>2 DEF Shell!Placed, Shell!Rectangle
<1>4. RectGood /\ (~full => rect.y >= 1)
  BY <1>1, <1>2, <1>3, AppTypes DEF Shell!Allowed, RectGood
<1>5. sb \in Buffers /\ Shell!PrintKeepsInside
  BY <1>1, <1>4, ClearedGood DEF Shell!PrintKeepsInside
<1>6. Shell!HeaderKept
  BY <1>1 DEF Shell!HeaderKept
<1>. QED BY <1>1, <1>4, <1>5, <1>6 DEF ScreenInv

LEMMA BecomesGood ==
  ASSUME ScreenInv, NEW s \in Buffers, Shell!Becomes(s), astray' \in BOOLEAN,
         astray' \/ Shell!Inside(s)
  PROVE  ScreenInv'
<1>1. sb' = Shell!Trimmed(s) /\ rect' = rect /\ full' = full /\ screen' = screen /\ hw' = hw
  BY DEF Shell!Becomes
<1>2. sb' \in Buffers /\ sb'.x = s.x /\ sb'.y = s.y
  BY <1>1, TrimmedGood DEF ScreenInv
<1>3. sb' \in (Buffers)' /\ RectGood' /\ (~full' => rect'.y >= 1)
  BY <1>1, <1>2, BuffersKept DEF ScreenInv
<1>4. Shell!PrintKeepsInside'
  BY <1>1, <1>2 DEF Shell!PrintKeepsInside, Shell!Inside
<1>5. Shell!HeaderKept'
  BY <1>1 DEF ScreenInv, Shell!HeaderKept
<1>. QED BY <1>3, <1>4, <1>5 DEF ScreenInv

\* The buffer is copied to its own part, below the header of the kernel.
LEMMA HeaderUncovered ==
  ASSUME ScreenInv, NEW s \in Buffers, ~full
  PROVE  /\ \A c \in Shell!ScreenCell : c[2] = 0 => Shell!Shown(s)[c] = screen[c]
         /\ Shell!CursorShown(s)[2] > 0
<1>1. rect.y \in Nat /\ rect.y >= 1 /\ rect.height \in Nat /\ rect.y + rect.height <= Rows
  BY DEF ScreenInv, RectGood
<1>2. s.y \in 0 .. rect.height
  BY AppFields DEF Buffers, AppRow
<1>3. ASSUME NEW c \in Shell!ScreenCell, c[2] = 0 PROVE Shell!Shown(s)[c] = screen[c]
  <2>1. c \notin Shell!Covered
    BY <1>1, <1>3 DEF Shell!Covered
  <2>. QED BY <2>1 DEF Shell!Shown
<1>4. (s.y + rect.y) % Byte = s.y + rect.y /\ s.y + rect.y > 0
  <2>1. s.y + rect.y \in Nat /\ s.y + rect.y < Byte /\ s.y + rect.y > 0
    BY <1>1, <1>2, AppTypes
  <2>. QED BY <2>1, AppTypes, SmallRemainder
<1>5. Shell!CursorShown(s)[2] > 0
  BY <1>4 DEF Shell!CursorShown
<1>. QED BY <1>3, <1>5

LEMMA FlushKeeps == ScreenInv /\ Shell!Flush => ScreenInv'
<1> SUFFICES ASSUME ScreenInv, Shell!Flush PROVE ScreenInv'
  OBVIOUS
<1>1. screen' = Shell!Shown(sb) /\ hw' = Shell!CursorShown(sb) /\ sb' = sb /\ rect' = rect
      /\ full' = full /\ astray' = astray
  BY DEF Shell!Flush
<1>2. sb' \in (Buffers)' /\ RectGood' /\ (~full' => rect'.y >= 1) /\ Shell!PrintKeepsInside'
  BY <1>1, BuffersKept DEF ScreenInv, Shell!PrintKeepsInside, Shell!Inside
<1>3. ~full => /\ \A c \in Shell!ScreenCell : c[2] = 0 => screen'[c] = "header"
               /\ hw'[2] > 0
  BY <1>1, HeaderUncovered DEF ScreenInv, Shell!HeaderKept
<1>4. Shell!HeaderKept'
  BY <1>1, <1>3 DEF Shell!HeaderKept, Shell!ScreenCell
<1>. QED BY <1>1, <1>2, <1>4 DEF ScreenInv

LEMMA ScreenKeeps == ScreenInv /\ [Shell!Next]_screenVars => ScreenInv'
<1> SUFFICES ASSUME ScreenInv, [Shell!Next]_screenVars PROVE ScreenInv'
  OBVIOUS
<1> USE DEF ScreenInv
<1>1. CASE screenVars' = screenVars
  <2>1. rect' = rect /\ full' = full /\ sb' = sb /\ screen' = screen /\ hw' = hw /\ astray' = astray
    BY <1>1 DEF screenVars
  <2>. QED BY <2>1, BuffersKept DEF Shell!PrintKeepsInside, Shell!Inside, Shell!HeaderKept, Shell!ScreenCell
<1>2. ASSUME NEW text \in AppTexts, Shell!PrintText(text) PROVE ScreenInv'
  <2>1. text \in Seq(Shell!Printable)
    BY AppTypes
  <2>2. Shell!Written(sb, text) \in Buffers /\ (Shell!Inside(sb) => Shell!Inside(Shell!Written(sb, text)))
    BY <2>1, AppPrinted
  <2>3. Shell!Becomes(Shell!Written(sb, text)) /\ astray' = astray
    BY <1>2 DEF Shell!PrintText
  <2>. QED BY <2>2, <2>3, BecomesGood DEF Shell!PrintKeepsInside
<1>3. ASSUME NEW s \in Buffers, Shell!Moves(s) PROVE ScreenInv'
  <2>1. Shell!Becomes(s) /\ astray' = (astray \/ ~Shell!Inside(s))
    BY <1>3 DEF Shell!Moves
  <2>. QED BY <2>1, BecomesGood
<1>4. CASE Shell!Retreat
  <2>1. Shell!Retreated(sb) \in Buffers
    BY RetreatGood DEF RetreatedTo, CursorMoved
  <2>. QED BY <1>3, <1>4, <2>1 DEF Shell!Retreat
<1>5. CASE Shell!Advance
  <2>1. Shell!Advanced(sb) \in Buffers
    BY AdvanceGood DEF CursorMoved
  <2>. QED BY <1>3, <1>5, <2>1 DEF Shell!Advance
<1>6. ASSUME NEW x \in 0 .. rect.width - 1, NEW y \in 0 .. rect.height - 1, Shell!SetCursor(x, y)
      PROVE  ScreenInv'
  <2>1. x \in AppColumn /\ y \in AppRow /\ x < rect.width /\ y < rect.height
    <3>1. /\ rect.width \in Nat /\ rect.height \in Nat /\ rect.x \in Nat /\ rect.x + rect.width <= Cols
          /\ Cols \in Nat /\ Byte \in Nat /\ Cols < Byte
      BY AppTypes DEF RectGood
    <3>2. x \in 0 .. Byte - 1 /\ y \in 0 .. rect.height /\ x < rect.width /\ y < rect.height
      BY ONLY <3>1, x \in 0 .. rect.width - 1, y \in 0 .. rect.height - 1
    <3>. QED BY <3>2 DEF AppColumn, AppRow
  <2> DEFINE r == AtCursor(sb, x, y)
  <2>2. r \in Buffers /\ r.x = x /\ r.y = y
    BY <2>1, CursorMoves DEF CursorMoved
  <2>3. Shell!Becomes(r) /\ astray' = astray
    BY <1>6 DEF Shell!SetCursor, AtCursor
  <2> HIDE DEF r
  <2>4. Shell!Inside(r)
    BY <2>1, <2>2 DEF Shell!Inside
  <2>. QED BY <2>2, <2>3, <2>4, BecomesGood
<1>7. CASE Shell!Clear
  <2>1. sb' = Shell!Cleared /\ astray' = FALSE /\ rect' = rect /\ full' = full /\ screen' = screen /\ hw' = hw
    BY <1>7 DEF Shell!Clear
  <2>2. sb' \in Buffers /\ Shell!Inside(sb')
    BY <2>1, ClearedGood
  <2>3. Shell!PrintKeepsInside' /\ Shell!HeaderKept'
    BY <2>1, <2>2 DEF Shell!PrintKeepsInside, Shell!Inside, Shell!HeaderKept
  <2>. QED BY <2>1, <2>2, <2>3, BuffersKept
<1> HIDE DEF ScreenInv
<1>8. CASE Shell!Next
  BY <1>2, <1>4, <1>5, <1>6, <1>7, <1>8, FlushKeeps DEF Shell!Next
<1>. QED BY <1>1, <1>8

LEMMA ScreenHolds ==
  ScreenInv => /\ Shell!TypeOK /\ Shell!ShowsLastRows /\ Shell!HeaderKept /\ Shell!PrintKeepsInside
<1> SUFFICES ASSUME ScreenInv
             PROVE  /\ Shell!TypeOK /\ Shell!ShowsLastRows /\ Shell!HeaderKept /\ Shell!PrintKeepsInside
  OBVIOUS
<1>1. sb \in AppScreens /\ PaperSeen(rect.height, rect.width, sb.mem, sb.paper, sb.top) /\ RectGood
  BY DEF ScreenInv, Buffers, BufferSeen
<1>2. sb.mem \in AppMem /\ sb.x \in AppColumn /\ sb.y \in AppRow
  BY <1>1, AppFields
<1>3. DOMAIN sb.mem = AppCell /\ AppCell = 0 .. rect.height * rect.width - 1
  BY <1>1, <1>2, AppCells DEF AppMem
<1>4. Shell!TypeOK
  BY <1>1, <1>2, <1>3, AppTypes DEF Shell!TypeOK, ScreenInv, AppColumn, AppRow, AppCell, RectGood
<1>5. ASSUME NEW i \in DOMAIN sb.mem
      PROVE  LET q == <<sb.top + (i \div rect.width), i % rect.width>>
             IN sb.mem[i] = IF q \in DOMAIN sb.paper THEN sb.paper[q] ELSE Blank
  <2>1. i \in 0 .. rect.height * rect.width - 1
    BY <1>3
  <2>. QED BY <1>1, <2>1 DEF PaperSeen, OnPaper, Place
<1>6. Shell!ShowsLastRows
  BY <1>5 DEF Shell!ShowsLastRows
<1>. QED BY <1>4, <1>6 DEF ScreenInv

-----------------------------------------------------------------------------
(* The shell's part of the screen, cell by cell *)

\* The first cell of the last row
LastRow == (rect.height - 1) * rect.width

\* Nothing is written from cell e on.
Clear(s, e) == \A j \in AppCell : j >= e => s.mem[j] = Blank

LEMMA FurtherRow ==
  ASSUME NEW w \in Nat \ {0}, NEW a \in Nat, NEW b \in Nat, a * w < (b + 1) * w
  PROVE  a <= b /\ (a + 1) * w <= (b + 1) * w
<1>1. ~(b + 1 <= a)
  <2> SUFFICES ASSUME b + 1 <= a PROVE FALSE
    OBVIOUS
  <2>1. (b + 1) * w <= a * w
    OBVIOUS
  <2>2. (b + 1) * w \in Nat /\ a * w \in Nat
    OBVIOUS
  <2>. QED BY <2>1, <2>2
<1>2. a <= b
  BY <1>1
<1>3. a + 1 <= b + 1 /\ a + 1 \in Nat /\ b + 1 \in Nat
  BY <1>2
<1>4. (a + 1) * w <= (b + 1) * w
  BY <1>3
<1>. QED BY <1>2, <1>4

LEMMA AppSizes ==
  ASSUME RectGood
  PROVE  /\ rect.width \in Nat \ {0} /\ rect.height \in Nat \ {0}
         /\ rect.width < Byte /\ rect.height < Byte /\ Byte \in Nat
         /\ LastRow \in Nat /\ AppCell = 0 .. LastRow + rect.width - 1
<1>1. /\ rect.width \in Nat \ {0} /\ rect.height \in Nat \ {0} /\ rect.x \in Nat /\ rect.y \in Nat
      /\ rect.x + rect.width <= Cols /\ rect.y + rect.height <= Rows
  BY DEF RectGood
<1>2. LastRow \in Nat /\ rect.height * rect.width = LastRow + rect.width
  BY <1>1, Rows1 DEF LastRow
<1>3. AppCell = 0 .. LastRow + rect.width - 1
  <2> DEFINE n == rect.height * rect.width
  <2>1. AppCell = 0 .. n - 1 /\ n = LastRow + rect.width
    BY <1>2, AppCells
  <2> HIDE DEF n
  <2>. QED BY <1>1, <1>2, <2>1
<1>4. rect.width < Byte /\ rect.height < Byte /\ Byte \in Nat
  BY <1>1, AppTypes
<1>. QED BY <1>1, <1>2, <1>3, <1>4

\* A cursor inside is at a cell.
InRow(s) ==
  /\ s.x \in Nat /\ s.y \in Nat /\ s.x < rect.width /\ s.y < rect.height
  /\ (s.x + 1) % Byte = s.x + 1 /\ (s.y + 1) % Byte = s.y + 1
  /\ Behind(s) \in AppCell /\ s.y * rect.width \in Nat
  /\ (s.y + 1) * rect.width = s.y * rect.width + rect.width
  /\ s.y + 1 = rect.height => s.y * rect.width = LastRow
  /\ s.y + 1 < rect.height => s.y * rect.width + rect.width <= LastRow

LEMMA CursorInRow ==
  ASSUME RectGood, NEW s \in Buffers, Shell!Inside(s)
  PROVE  InRow(s)
<1> DEFINE w == rect.width
           h == rect.height
           y == s.y
<1>1. /\ s.x \in Nat /\ y \in Nat /\ s.x < w /\ y < h
      /\ w \in Nat \ {0} /\ h \in Nat \ {0} /\ w < Byte /\ h < Byte /\ Byte \in Nat
      /\ LastRow \in Nat /\ AppCell = 0 .. LastRow + w - 1
  BY AppSizes, AppFields DEF Buffers, AppColumn, AppRow, RectGood, Shell!Inside
<1>2. (s.x + 1) % Byte = s.x + 1
  <2>1. s.x + 1 \in Nat /\ s.x + 1 < Byte /\ Byte \in Nat \ {0}
    BY <1>1
  <2>. QED BY <2>1, SmallRemainder
<1>3. (y + 1) % Byte = y + 1
  <2>1. y + 1 \in Nat /\ y + 1 < Byte /\ Byte \in Nat \ {0}
    BY <1>1
  <2>. QED BY <2>1, SmallRemainder
<1>4. LastRow = (h - 1) * w
  BY DEF LastRow
<1> HIDE DEF w, h, y
<1>5. y * w \in Nat /\ (y + 1) * w = y * w + w
  BY <1>1
<1>6. y + 1 = h => y * w = LastRow
  <2>1. y + 1 = h => y = h - 1
    BY <1>1
  <2>. QED BY <1>4, <2>1
<1>7. y + 1 < h => y * w + w <= LastRow
  <2> SUFFICES ASSUME y + 1 < h PROVE y * w + w <= LastRow
    OBVIOUS
  <2>1. y + 1 <= h - 1 /\ y + 1 \in Nat /\ h - 1 \in Nat
    BY <1>1
  <2>2. (y + 1) * w <= (h - 1) * w
    BY <1>1, <2>1
  <2>. QED BY <1>4, <1>5, <2>2
<1>8. y * w + s.x \in AppCell
  BY <1>1, <1>5, <1>6, <1>7
<1>. QED BY <1>1, <1>2, <1>3, <1>5, <1>6, <1>7, <1>8 DEF InRow, Behind, w, h, y

\* An ordinary character is put in the cell of the cursor, which goes on, and all cells go
\* d cells up: none, or a row.
One(s, c, r, d) ==
  /\ r \in Buffers /\ Shell!Inside(r) /\ d \in {0, rect.width}
  /\ Behind(r) = Behind(s) + 1 - d
  /\ d = rect.width => Behind(r) = LastRow
  /\ \A j \in AppCell : r.mem[j] = IF j + d = Behind(s) THEN c
                                   ELSE IF j + d \in AppCell THEN s.mem[j + d] ELSE Blank

LEMMA OneWritten ==
  ASSUME RectGood, NEW s \in Buffers, Shell!Inside(s), NEW c \in AppChar, NEW r, AppWrote(s, c, r)
  PROVE  \E d \in {0, rect.width} : One(s, c, r, d)
<1> DEFINE w == rect.width
<1>1. InRow(s) /\ s.mem \in AppMem
  BY CursorInRow, AppFields DEF Buffers
<1>2. /\ w \in Nat \ {0} /\ rect.height \in Nat \ {0} /\ LastRow \in Nat /\ AppCell = 0 .. LastRow + w - 1
  BY AppSizes
<1>3. Shell!Inside(r) /\ r \in Buffers
  BY AppStaysInside DEF AppWrote
<1>4. PICK put : AppPut(s, c, put) /\ (put.x >= w => AppBroken(put, r)) /\ (~(put.x >= w) => r = put)
  BY AppTypes DEF AppWrote
<1>5. put \in Buffers /\ put.x = s.x + 1 /\ put.y = s.y /\ put.mem = [s.mem EXCEPT ![Behind(s)] = c]
  BY <1>1, <1>4 DEF AppPut, InRow
<1>6. \A j \in AppCell : put.mem[j] = IF j = Behind(s) THEN c ELSE s.mem[j]
  BY <1>1, <1>5 DEF AppMem
<1>7. \A j \in AppCell : j + 0 = j
  BY <1>2
<1>8. s.x \in Nat /\ s.y \in Nat /\ s.x < w /\ s.y < rect.height /\ (s.y + 1) % Byte = s.y + 1
      /\ s.y * w \in Nat /\ (s.y + 1) * w = s.y * w + w /\ (s.y + 1 = rect.height => s.y * w = LastRow)
      /\ Behind(s) = s.y * w + s.x /\ Behind(s) \in AppCell
  BY <1>1 DEF InRow, Behind
<1>9. CASE ~(put.x >= w)
  <2>1. Behind(r) = Behind(s) + 1 - 0
    BY <1>4, <1>5, <1>8, <1>9 DEF Behind
  <2>2. One(s, c, r, 0)
    BY <1>2, <1>3, <1>4, <1>6, <1>7, <1>9, <2>1 DEF One
  <2>. QED BY <2>2
<1>10. CASE put.x >= w
  <2>1. AppBroken(put, r) /\ s.x + 1 = w
    BY <1>2, <1>4, <1>5, <1>8, <1>10
  <2>2. CASE r.y = s.y + 1 /\ r.mem = put.mem
    <3>1. Behind(r) = Behind(s) + 1 - 0
      <4>1. Behind(r) = (s.y + 1) * w + 0
        BY <2>1, <2>2 DEF Behind, AppBroken
      <4>. QED BY <1>2, <1>8, <2>1, <4>1
    <3>2. One(s, c, r, 0)
      BY <1>2, <1>3, <1>6, <1>7, <2>2, <3>1 DEF One
    <3>. QED BY <3>2
  <2>3. CASE s.y + 1 >= rect.height /\ r.y = s.y /\ r.mem = Lifted(rect.height, w, put.mem)
    <3>1. s.y + 1 = rect.height
      BY <1>2, <1>8, <2>3
    <3>2. Behind(r) = LastRow
      <4>1. Behind(r) = s.y * w + 0
        BY <2>1, <2>3 DEF Behind, AppBroken
      <4>. QED BY <1>8, <3>1, <4>1
    <3>3. Behind(r) = Behind(s) + 1 - w
      BY <1>2, <1>8, <2>1, <3>1, <3>2
    <3>4. \A j \in AppCell : r.mem[j] = IF j < LastRow THEN put.mem[j + w] ELSE Blank
      <4>1. AppCell = 0 .. rect.height * w - 1
        BY AppCells
      <4>. QED BY <2>3, <4>1 DEF Lifted, LastRow
    <3>5. ASSUME NEW j \in AppCell
          PROVE  r.mem[j] = IF j + w = Behind(s) THEN c ELSE IF j + w \in AppCell THEN s.mem[j + w] ELSE Blank
      <4>1. j < LastRow <=> j + w \in AppCell
        BY <1>2
      <4>2. j + w = Behind(s) => j + w \in AppCell
        BY <1>8
      <4>. QED BY <1>6, <3>4, <4>1, <4>2
    <3>6. One(s, c, r, w)
      BY <1>3, <3>2, <3>3, <3>5 DEF One
    <3>. QED BY <3>6
  <2>. QED BY <1>5, <1>8, <2>1, <2>2, <2>3 DEF AppBroken
<1>. QED BY <1>9, <1>10

-----------------------------------------------------------------------------
(* A text of ordinary characters *)

\* What the first k characters of a text do from s to r: cells that were blank from e on stay
\* so after the cursor, and as far as no row is needed that they fill, they stand before the
\* cursor, after the q cells that were before it.
TypedSoFar(s, r, text, k, e) ==
  /\ r \in Buffers /\ Shell!Inside(r)
  /\ \/ Clear(r, Behind(r))
     \/ Behind(r) = Behind(s) + k /\ \A j \in AppCell : j >= e /\ j >= Behind(r) => r.mem[j] = Blank
  /\ \A q \in Nat : q <= Behind(s) /\ q + k <= LastRow =>
       /\ Behind(r) >= q + k
       /\ \A i \in 1 .. k : r.mem[Behind(r) - k + i - 1] = text[i]
       /\ \A i \in 1 .. q : r.mem[Behind(r) - k - i] = s.mem[Behind(s) - i]

LEMMA TypesOneMore ==
  ASSUME RectGood, NEW s \in Buffers, Shell!Inside(s), NEW text, NEW k \in Nat, NEW e \in Nat,
         NEW u, TypedSoFar(s, u, text, k, e), NEW c, c = text[k + 1], NEW r, NEW d, One(u, c, r, d)
  PROVE  TypedSoFar(s, r, text, k + 1, e)
<1> DEFINE w == rect.width
           S == Behind(s)
           U == Behind(u)
           R == Behind(r)
<1>1. w \in Nat \ {0} /\ LastRow \in Nat /\ AppCell = 0 .. LastRow + w - 1
  BY AppSizes
<1>2. u \in Buffers /\ Shell!Inside(u) /\ U \in AppCell /\ S \in AppCell
  BY CursorInRow DEF TypedSoFar, InRow
<1>3. r \in Buffers /\ Shell!Inside(r) /\ R \in AppCell
  BY CursorInRow DEF One, InRow
<1>4. /\ d \in {0, w} /\ R = U + 1 - d /\ (d = w => R = LastRow)
      /\ \A j \in AppCell : r.mem[j] = IF j + d = U THEN c
                                       ELSE IF j + d \in AppCell THEN u.mem[j + d] ELSE Blank
  BY DEF One
<1>5. \/ \A j \in AppCell : j >= U => u.mem[j] = Blank
      \/ U = S + k /\ \A j \in AppCell : j >= e /\ j >= U => u.mem[j] = Blank
  BY DEF TypedSoFar, Clear
<1>6. ASSUME NEW q \in Nat, q <= S, q + (k + 1) <= LastRow
      PROVE  /\ U >= q + k
             /\ \A i \in 1 .. k : u.mem[U - k + i - 1] = text[i]
             /\ \A i \in 1 .. q : u.mem[U - k - i] = s.mem[S - i]
  <2>1. q + k <= LastRow
    BY <1>1, <1>6
  <2>. QED BY <1>6, <2>1 DEF TypedSoFar
<1> HIDE DEF w, S, U, R
<1>7. \/ \A j \in AppCell : j >= R => r.mem[j] = Blank
      \/ R = S + (k + 1) /\ \A j \in AppCell : j >= e /\ j >= R => r.mem[j] = Blank
  <2>1. CASE d = w
    <3>1. \A j \in AppCell : j >= R => j + d \notin AppCell /\ j + d # U
      BY <1>1, <1>2, <1>4, <2>1
    <3>. QED BY <1>4, <3>1
  <2>2. CASE d = 0
    <3>1. \A j \in AppCell : j >= R => j + d = j /\ j # U /\ j >= U
      BY <1>1, <1>2, <1>4, <2>2
    <3>2. \A j \in AppCell : j >= R => r.mem[j] = u.mem[j]
      BY <1>4, <3>1
    <3>3. CASE \A j \in AppCell : j >= U => u.mem[j] = Blank
      BY <3>1, <3>2, <3>3
    <3>4. CASE U = S + k /\ \A j \in AppCell : j >= e /\ j >= U => u.mem[j] = Blank
      <4>1. R = S + (k + 1)
        BY <1>1, <1>2, <1>4, <2>2, <3>4
      <4>. QED BY <3>1, <3>2, <3>4, <4>1
    <3>. QED BY <1>5, <3>3, <3>4
  <2>. QED BY <1>4, <2>1, <2>2
<1>8. ASSUME NEW q \in Nat, q <= S, q + (k + 1) <= LastRow
      PROVE  /\ R >= q + (k + 1)
             /\ \A i \in 1 .. k + 1 : r.mem[R - (k + 1) + i - 1] = text[i]
             /\ \A i \in 1 .. q : r.mem[R - (k + 1) - i] = s.mem[S - i]
  <2>0. U >= q + k
    BY <1>6, <1>8
  <2>1. R >= q + (k + 1)
    BY <1>1, <1>2, <1>4, <1>8, <2>0
  <2>2. ASSUME NEW j \in AppCell, j + d < U PROVE r.mem[j] = u.mem[j + d]
    <3>1. j + d \in AppCell /\ j + d # U
      BY <1>1, <1>2, <1>4, <2>2
    <3>. QED BY <1>4, <3>1
  <2>3. ASSUME NEW i \in 1 .. k + 1 PROVE r.mem[R - (k + 1) + i - 1] = text[i]
    <3> DEFINE j == R - (k + 1) + i - 1
    <3>1. j \in AppCell
      BY <1>1, <1>3, <2>1, <2>3
    <3>2. CASE i \in 1 .. k
      <4>1. j + d < U /\ j + d = U - k + i - 1
        BY <1>1, <1>2, <1>4, <3>2
      <4> HIDE DEF j
      <4>2. r.mem[j] = u.mem[U - k + i - 1]
        BY <2>2, <3>1, <4>1
      <4>. QED BY <1>6, <1>8, <3>2, <4>2 DEF j
    <3>3. CASE i = k + 1
      <4>1. j + d = U
        <5>1. R = U + 1 - d /\ U \in Int /\ d \in Int /\ k \in Int
          BY <1>1, <1>2, <1>4
        <5>2. j = R - (k + 1) + (k + 1) - 1
          BY <3>3
        <5> HIDE DEF j
        <5>. QED BY ONLY <5>1, <5>2
      <4> HIDE DEF j
      <4>2. r.mem[j] = c
        BY <1>4, <3>1, <4>1
      <4>. QED BY <3>3, <4>2 DEF j
    <3>. QED BY <2>3, <3>2, <3>3
  <2>4. ASSUME NEW i \in 1 .. q PROVE r.mem[R - (k + 1) - i] = s.mem[S - i]
    <3> DEFINE j == R - (k + 1) - i
    <3>1. j \in AppCell
      BY <1>1, <1>3, <2>1, <2>4
    <3>2. j + d < U /\ j + d = U - k - i
      BY <1>1, <1>2, <1>4, <2>4
    <3> HIDE DEF j
    <3>3. r.mem[j] = u.mem[U - k - i]
      BY <2>2, <3>1, <3>2
    <3>. QED BY <1>6, <1>8, <2>4, <3>3 DEF j
  <2>. QED BY <2>1, <2>3, <2>4
<1>. QED BY <1>3, <1>7, <1>8 DEF TypedSoFar, Clear, S, R

LEMMA TypesAll ==
  ASSUME RectGood, NEW s \in Buffers, Shell!Inside(s), NEW text \in Seq(AppChar),
         NEW e \in Nat, Clear(s, e)
  PROVE  TypedSoFar(s, Shell!Written(s, text), text, Len(text), e)
<1> DEFINE n == Len(text)
<1>1. n \in Nat /\ \A k \in 1 .. n : text[k] \in AppChar
  OBVIOUS
<1>2. text \in Seq(Shell!Printable)
  BY <1>1 DEF Shell!Printable
<1>3. PICK h : AppCourse(h, s, text) /\ Shell!Written(s, text) = h[n]
  BY <1>2, AppPrints
<1>4. /\ h \in [0 .. n -> Buffers] /\ h[0] = s
      /\ \A k \in 1 .. n : AppWrote(h[k - 1], text[k], h[k])
  BY <1>3 DEF AppCourse
<1> HIDE DEF n
<1> DEFINE D == {k \in 0 .. n : TypedSoFar(s, h[k], text, k, e)}
<1>5. 0 \in D
  <2>1. Behind(s) \in Nat
    BY CursorInRow, AppSizes DEF InRow
  <2>2. TypedSoFar(s, s, text, 0, e)
    <3>1. Behind(s) = Behind(s) + 0 /\ \A q \in Nat : q + 0 = q
      BY <2>1
    <3>2. \A q \in Nat : \A i \in 1 .. q : Behind(s) - 0 - i = Behind(s) - i
      BY <2>1
    <3>. QED BY <3>1, <3>2 DEF TypedSoFar, Clear
  <2>. QED BY <1>1, <1>4, <2>2
<1>6. ASSUME NEW k \in 0 .. n - 1, k \in D PROVE k + 1 \in D
  <2>1. k + 1 \in 1 .. n /\ (k + 1) - 1 = k /\ k \in 0 .. n /\ k + 1 \in 0 .. n /\ k \in Nat
    BY <1>1
  <2>2. AppWrote(h[k], text[k + 1], h[k + 1]) /\ text[k + 1] \in AppChar /\ TypedSoFar(s, h[k], text, k, e)
    BY <1>1, <1>4, <1>6, <2>1
  <2>3. h[k] \in Buffers /\ Shell!Inside(h[k])
    BY <2>2 DEF TypedSoFar
  <2>4. PICK d \in {0, rect.width} : One(h[k], text[k + 1], h[k + 1], d)
    BY <2>2, <2>3, OneWritten
  <2>5. TypedSoFar(s, h[k + 1], text, k + 1, e)
    BY <2>1, <2>2, <2>4, TypesOneMore
  <2>. QED BY <2>1, <2>5
<1> HIDE DEF D
<1>7. 0 .. n \subseteq D
  BY <1>1, <1>5, <1>6, InductionUpTo
<1>8. n \in D
  BY <1>1, <1>7
<1>. QED BY <1>3, <1>8 DEF D, n

\* A text is printed as its two parts are.
LEMMA WrittenTwice ==
  ASSUME RectGood, NEW s \in Buffers, NEW t \in Seq(Shell!Printable), NEW v \in Seq(Shell!Printable)
  PROVE  Shell!Written(s, t \o v) = Shell!Written(Shell!Written(s, t), v)
<1> DEFINE a == Len(t)
           b == Len(v)
           tv == t \o v
           m == Shell!Written(s, t)
<1>1. /\ a \in Nat /\ b \in Nat /\ tv \in Seq(Shell!Printable) /\ Len(tv) = a + b
      /\ \A k \in 1 .. a : tv[k] = t[k]
      /\ \A k \in 1 .. b : tv[a + k] = v[k]
  <2>1. a \in Nat /\ b \in Nat
    OBVIOUS
  <2>2. tv \in Seq(Shell!Printable) /\ Len(tv) = a + b
    OBVIOUS
  <2>3. \A k \in 1 .. a : tv[k] = t[k]
    OBVIOUS
  <2>4. ASSUME NEW k \in 1 .. b PROVE tv[a + k] = v[k]
    <3>1. a + k \in 1 .. a + b /\ a + k > a /\ (a + k) - a = k
      BY <2>1
    <3>. QED BY <2>1, <3>1
  <2>. QED BY <2>1, <2>2, <2>3, <2>4
<1>2. m \in Buffers
  BY AppPrinted
<1> HIDE DEF tv, m
<1>3. PICK h : AppCourse(h, s, tv) /\ Shell!Written(s, tv) = h[Len(tv)]
  BY <1>1, AppPrints
<1>4. PICK f : AppCourse(f, s, t) /\ m = f[Len(t)]
  BY AppPrints DEF m
<1>5. PICK g : AppCourse(g, m, v) /\ Shell!Written(m, v) = g[Len(v)]
  BY <1>2, AppPrints
<1> HIDE DEF a, b
<1>6. /\ h[0] = s /\ f[0] = s /\ g[0] = m /\ m = f[a]
      /\ \A k \in 1 .. a + b : h[k] = Shell!WriteChar(h[k - 1], tv[k])
      /\ \A k \in 1 .. a : f[k] = Shell!WriteChar(f[k - 1], t[k])
      /\ \A k \in 1 .. b : g[k] = Shell!WriteChar(g[k - 1], v[k])
  BY <1>1, <1>3, <1>4, <1>5 DEF AppCourse, a, b
<1> DEFINE D == {k \in 0 .. a : h[k] = f[k]}
           E == {k \in 0 .. b : h[a + k] = g[k]}
<1>7. \A k \in 0 .. a - 1 : k \in D => k + 1 \in D
  <2> SUFFICES ASSUME NEW k \in 0 .. a - 1, h[k] = f[k] PROVE k + 1 \in D
    OBVIOUS
  <2>1. k + 1 \in 1 .. a /\ k + 1 \in 1 .. a + b /\ (k + 1) - 1 = k /\ k + 1 \in 0 .. a
    BY <1>1
  <2>. QED BY <1>1, <1>6, <2>1
<1>8. 0 \in D
  BY <1>1, <1>6
<1>9. 0 .. a \subseteq D
  <2> HIDE DEF D
  <2>. QED BY <1>1, <1>7, <1>8, InductionUpTo
<1>10. h[a] = f[a]
  BY <1>1, <1>9
<1>11. \A k \in 0 .. b - 1 : k \in E => k + 1 \in E
  <2> SUFFICES ASSUME NEW k \in 0 .. b - 1, h[a + k] = g[k] PROVE k + 1 \in E
    OBVIOUS
  <2>1. k + 1 \in 1 .. b /\ a + (k + 1) \in 1 .. a + b /\ (k + 1) - 1 = k /\ (a + (k + 1)) - 1 = a + k /\ k + 1 \in 0 .. b
    BY <1>1
  <2>2. h[a + (k + 1)] = Shell!WriteChar(h[a + k], v[k + 1])
    BY <1>1, <1>6, <2>1
  <2>3. g[k + 1] = Shell!WriteChar(g[k], v[k + 1])
    BY <1>6, <2>1
  <2>. QED BY <2>1, <2>2, <2>3
<1>12. 0 \in E
  <2>1. a + 0 = a /\ 0 \in 0 .. b
    BY <1>1
  <2>. QED BY <1>6, <1>10, <2>1
<1>13. 0 .. b \subseteq E
  <2> HIDE DEF E
  <2>. QED BY <1>1, <1>11, <1>12, InductionUpTo
<1>14. h[a + b] = g[b]
  BY <1>1, <1>13
<1>15. Shell!Written(s, tv) = Shell!Written(m, v)
  BY <1>1, <1>3, <1>5, <1>14 DEF b
<1>. QED BY <1>15 DEF tv, m

LEMMA WrittenOnce ==
  ASSUME RectGood, NEW s \in Buffers, NEW c \in Shell!Printable
  PROVE  Shell!Written(s, <<c>>) = Shell!WriteChar(s, c)
<1>1. <<c>> \in Seq(Shell!Printable) /\ Len(<<c>>) = 1 /\ <<c>>[1] = c
  OBVIOUS
<1>2. PICK h : AppCourse(h, s, <<c>>) /\ Shell!Written(s, <<c>>) = h[1]
  BY <1>1, AppPrints
<1>3. h[0] = s /\ h[1] = Shell!WriteChar(h[1 - 1], <<c>>[1])
  BY <1>1, <1>2 DEF AppCourse
<1>. QED BY <1>1, <1>2, <1>3

LEMMA NothingWritten ==
  ASSUME RectGood, NEW s \in Buffers
  PROVE  Shell!Written(s, <<>>) = s
<1>1. <<>> \in Seq(Shell!Printable) /\ Len(<<>>) = 0
  OBVIOUS
<1>2. PICK h : AppCourse(h, s, <<>>) /\ Shell!Written(s, <<>>) = h[0]
  BY <1>1, AppPrints
<1>. QED BY <1>2 DEF AppCourse

LEMMA FrontOfSeq ==
  ASSUME NEW S, NEW l \in Seq(S), l # <<>>
  PROVE  /\ Len(l) \in Nat /\ Len(l) >= 1 /\ Shell!Front(l) \in Seq(S) /\ Len(Shell!Front(l)) = Len(l) - 1
         /\ \A i \in 1 .. Len(l) - 1 : Shell!Front(l)[i] = l[i]
<1>1. Len(l) \in Nat /\ Len(l) >= 1
  OBVIOUS
<1> DEFINE n == Len(l) - 1
           f == [i \in 1 .. n |-> l[i]]
<1>2. n \in Nat /\ (\A i \in 1 .. n : i \in 1 .. Len(l) /\ l[i] \in S)
  BY <1>1
<1>3. Shell!Front(l) = f
  <2>1. SubSeq(l, 1, n) = f
    BY <1>1
  <2>. QED BY <2>1 DEF Shell!Front
<1> HIDE DEF n
<1>4. f \in Seq(S) /\ Len(f) = n
  BY <1>2
<1>. QED BY <1>1, <1>3, <1>4 DEF n

LEMMA FirstAndRest ==
  ASSUME NEW S, NEW text \in Seq(S), Len(text) >= 1
  PROVE  /\ text = <<text[1]>> \o Tail(text) /\ text[1] \in S
         /\ Tail(text) \in Seq(S) /\ Len(Tail(text)) = Len(text) - 1
<1>1. Len(text) \in Nat /\ text # <<>>
  OBVIOUS
<1>2. text[1] \in S /\ Tail(text) \in Seq(S) /\ Len(Tail(text)) = Len(text) - 1
      /\ \A i \in 1 .. Len(text) - 1 : Tail(text)[i] = text[i + 1]
  BY <1>1
<1> DEFINE u == <<text[1]>> \o Tail(text)
<1>3. u \in Seq(S) /\ Len(u) = Len(text) /\ \A i \in 1 .. Len(text) : u[i] = text[i]
  BY <1>1, <1>2
<1>4. u = text
  <2> HIDE DEF u
  <2>. QED BY <1>3
<1>. QED BY <1>2, <1>4

-----------------------------------------------------------------------------
(* A cursor that was moved back past the first cell *)

\* The cursor is inside, or beyond the first row.
Good(s) == s \in Buffers /\ (Shell!Inside(s) \/ (s.y = 0 /\ s.x >= rect.width))
At(s) == IF Shell!Inside(s) THEN Behind(s) ELSE 0
RowsBelow(s) == Clear(s, (s.y + 1) * rect.width)

\* A character other than a newline brings a cursor back that went astray.
LEMMA ComesBack ==
  ASSUME RectGood, NEW s, Good(s), ~Shell!Inside(s), NEW c \in Shell!Printable, c # Newline
  PROVE  LET r == Shell!WriteChar(s, c)
         IN r \in Buffers /\ Shell!Inside(r) /\ \A e \in Nat : Clear(s, e) => Clear(r, e)
<1> DEFINE r == Shell!WriteChar(s, c)
<1>1. s \in Buffers /\ s.y = 0 /\ s.x >= rect.width
  BY DEF Good
<1>2. AppWrote(s, c, r) /\ r \in Buffers
  BY <1>1, AppWrites DEF AppWrote
<1> HIDE DEF r
<1>3. /\ rect.width \in Nat \ {0} /\ rect.height \in Nat \ {0} /\ rect.height < Byte /\ Byte \in Nat
      /\ LastRow \in Nat /\ AppCell = 0 .. LastRow + rect.width - 1
  BY AppSizes
<1>4. CASE c = Return
  <2>1. r.mem = s.mem /\ r.x = 0 /\ r.y = 0
    BY <1>1, <1>2, <1>4 DEF AppWrote
  <2>. QED BY <1>2, <1>3, <2>1 DEF Clear, Shell!Inside, r
<1>5. CASE c # Return
  <2>1. PICK put : AppPut(s, c, put) /\ (put.x >= rect.width => AppBroken(put, r))
                                   /\ (~(put.x >= rect.width) => r = put)
    BY <1>2, <1>5 DEF AppWrote
  <2>2. put \in Buffers /\ put.mem = s.mem /\ put.y = 0
    BY <1>1, <2>1 DEF AppPut
  <2>3. CASE ~(put.x >= rect.width)
    <3>1. put.x \in Nat
      BY <2>2, AppFields DEF Buffers, AppColumn
    <3>. QED BY <1>2, <1>3, <2>1, <2>2, <2>3, <3>1 DEF Clear, Shell!Inside, r
  <2>4. CASE put.x >= rect.width
    <3>1. AppBroken(put, r) /\ r.x = 0
      BY <2>1, <2>4 DEF AppBroken
    <3>2. (0 + 1) % Byte = 1
      <4>1. 0 + 1 = 1 /\ 1 \in Nat /\ 1 < Byte /\ Byte \in Nat \ {0}
        BY <1>3
      <4>. QED BY <4>1, SmallRemainder
    <3>3. CASE r.y = 1 /\ r.y < rect.height /\ r.mem = s.mem
      BY <1>2, <1>3, <3>1, <3>3 DEF Clear, Shell!Inside, r
    <3>4. CASE 1 >= rect.height /\ r.y = 0 /\ r.mem = Lifted(rect.height, rect.width, s.mem)
      <4>1. (rect.height - 1) * rect.width = 0
        <5>1. rect.height - 1 = 0
          BY <1>3, <3>4
        <5>. QED BY <1>3, <5>1
      <4>2. \A j \in AppCell : r.mem[j] = Blank
        <5>1. AppCell = 0 .. rect.height * rect.width - 1 /\ \A j \in AppCell : ~(j < 0)
          BY <1>3, AppCells
        <5>. QED BY <3>4, <4>1, <5>1 DEF Lifted
      <4>. QED BY <1>2, <1>3, <3>1, <3>4, <4>2 DEF Clear, Shell!Inside, r
    <3>. QED BY <2>2, <3>1, <3>2, <3>3, <3>4 DEF AppBroken
  <2>. QED BY <2>3, <2>4
<1>. QED BY <1>4, <1>5

\* After a newline, nothing is written from the cursor on.
LEMMA NewlineClears ==
  ASSUME RectGood, NEW s, Good(s), RowsBelow(s)
  PROVE  LET r == Shell!WriteChar(s, Newline) IN r \in Buffers /\ Shell!Inside(r) /\ Clear(r, Behind(r))
<1> DEFINE r == Shell!WriteChar(s, Newline)
<1>1. s \in Buffers /\ Newline \in Shell!Printable
  BY DEF Good, Shell!Printable
<1>2. AppBroken(s, r) /\ r \in Buffers /\ r.x = 0
  BY <1>1, AppWrites DEF AppWrote, AppBroken
<1> HIDE DEF r
<1>3. /\ rect.width \in Nat \ {0} /\ rect.height \in Nat \ {0} /\ rect.height < Byte /\ Byte \in Nat
      /\ LastRow \in Nat /\ AppCell = 0 .. LastRow + rect.width - 1
  BY AppSizes
<1>4. /\ s.y \in Nat /\ s.y < rect.height /\ (s.y + 1) % Byte = s.y + 1
      /\ s.y * rect.width \in Nat
      /\ s.y + 1 = rect.height => s.y * rect.width = LastRow
  <2>1. CASE Shell!Inside(s)
    BY <1>1, <2>1, CursorInRow DEF InRow
  <2>2. CASE ~Shell!Inside(s)
    <3>1. s.y = 0
      BY <2>2 DEF Good
    <3>2. (0 + 1) % Byte = 0 + 1
      <4>1. 0 + 1 = 1 /\ 1 \in Nat /\ 1 < Byte /\ Byte \in Nat \ {0}
        BY <1>3
      <4>. QED BY <4>1, SmallRemainder
    <3>3. 0 * rect.width = 0
      BY <1>3
    <3>4. 0 + 1 = rect.height => LastRow = 0
      <4>1. 0 + 1 = rect.height => rect.height - 1 = 0
        BY <1>3
      <4>. QED BY <3>3, <4>1 DEF LastRow
    <3>. QED BY <1>3, <3>1, <3>2, <3>3, <3>4
  <2>. QED BY <2>1, <2>2
<1>5. CASE r.y = s.y + 1 /\ r.y < rect.height /\ r.mem = s.mem
  <2>1. Behind(r) = (s.y + 1) * rect.width
    <3>1. (s.y + 1) * rect.width \in Nat
      BY <1>3, <1>4
    <3>. QED BY <1>2, <1>5, <3>1 DEF Behind
  <2>. QED BY <1>2, <1>3, <1>5, <2>1 DEF Clear, RowsBelow, Shell!Inside, r
<1>6. CASE s.y + 1 >= rect.height /\ r.y = s.y /\ r.mem = Lifted(rect.height, rect.width, s.mem)
  <2>1. s.y + 1 = rect.height
    BY <1>3, <1>4, <1>6
  <2>2. Behind(r) = LastRow
    BY <1>2, <1>3, <1>4, <1>6, <2>1 DEF Behind
  <2>3. \A j \in AppCell : j >= LastRow => r.mem[j] = Blank
    <3>1. AppCell = 0 .. rect.height * rect.width - 1 /\ \A j \in AppCell : j >= LastRow => ~(j < LastRow)
      BY <1>3, AppCells
    <3>. QED BY <1>6, <3>1 DEF Lifted, LastRow
  <2>. QED BY <1>2, <1>3, <1>4, <1>6, <2>2, <2>3 DEF Clear, Shell!Inside, r
<1>. QED BY <1>2, <1>4, <1>5, <1>6 DEF AppBroken

\* What is written before the end of the cursor's row leaves the rows below as they are.
LEMMA RowsStayBelow ==
  ASSUME RectGood, NEW r \in Buffers, Shell!Inside(r), NEW y \in Nat, NEW e,
         e = (y + 1) * rect.width, y * rect.width <= Behind(r),
         \A j \in AppCell : j >= e /\ j >= Behind(r) => r.mem[j] = Blank
  PROVE  RowsBelow(r)
<1> DEFINE w == rect.width
           f == (r.y + 1) * w
<1>1. /\ w \in Nat \ {0} /\ AppCell \subseteq Nat
  BY AppSizes
<1>2. /\ r.y \in Nat /\ r.x \in Nat /\ r.x < w /\ r.y * w \in Nat /\ f = r.y * w + w
      /\ Behind(r) = r.y * w + r.x
  BY CursorInRow DEF InRow, Behind
<1>3. y * w < (r.y + 1) * w
  <2>1. y * w \in Nat
    BY <1>1
  <2> HIDE DEF w
  <2>2. f \in Nat /\ Behind(r) < f
    BY <1>1, <1>2
  <2>. QED BY <1>2, <2>1, <2>2 DEF w
<1>4. (y + 1) * w <= (r.y + 1) * w
  <2> HIDE DEF w
  <2>. QED BY <1>1, <1>2, <1>3, FurtherRow
<1>5. e <= f /\ e \in Nat
  BY <1>1, <1>4
<1> HIDE DEF f, w
<1>6. ASSUME NEW j \in AppCell, j >= f PROVE j >= e /\ j >= Behind(r)
  BY <1>1, <1>2, <1>5, <1>6
<1>7. \A j \in AppCell : j >= f => r.mem[j] = Blank
  BY <1>6
<1>. QED BY <1>7 DEF RowsBelow, Clear, f, w

LEMMA CharKeepsRows ==
  ASSUME RectGood, NEW s, Good(s), RowsBelow(s), NEW c \in Shell!Printable
  PROVE  LET r == Shell!WriteChar(s, c) IN r \in Buffers /\ Shell!Inside(r) /\ RowsBelow(r)
<1> DEFINE r == Shell!WriteChar(s, c)
<1>1. s \in Buffers
  BY DEF Good
<1>2. AppWrote(s, c, r) /\ r \in Buffers
  BY <1>1, AppWrites DEF AppWrote
<1>3. /\ rect.width \in Nat \ {0} /\ LastRow \in Nat /\ AppCell = 0 .. LastRow + rect.width - 1
  BY AppSizes
<1>4. ASSUME NEW y \in Nat, Shell!Inside(r), y * rect.width <= Behind(r),
             \A j \in AppCell : j >= (y + 1) * rect.width /\ j >= Behind(r) => r.mem[j] = Blank
      PROVE  RowsBelow(r)
  <2> HIDE DEF r
  <2>. QED BY <1>2, <1>4, RowsStayBelow
<1>5. CASE c = Newline
  <2>1. r \in Buffers /\ Shell!Inside(r) /\ Clear(r, Behind(r))
    BY <1>5, NewlineClears
  <2> HIDE DEF r
  <2>2. r.y \in Nat /\ r.y * rect.width <= Behind(r)
    <3>1. r.x \in Nat /\ r.y \in Nat /\ r.y * rect.width \in Nat
      BY <2>1, CursorInRow DEF InRow
    <3>. QED BY <3>1 DEF Behind
  <2>3. RowsBelow(r)
    BY <1>4, <2>1, <2>2 DEF Clear
  <2>. QED BY <2>1, <2>3 DEF r
<1>6. CASE c # Newline /\ ~Shell!Inside(s)
  <2>1. s.y = 0
    BY <1>6 DEF Good
  <2>2. r \in Buffers /\ Shell!Inside(r) /\ \A e \in Nat : Clear(s, e) => Clear(r, e)
    BY <1>6, ComesBack
  <2> HIDE DEF r
  <2>3. (0 + 1) * rect.width \in Nat /\ 0 * rect.width = 0 /\ Behind(r) >= 0
    <3>1. Behind(r) \in AppCell
      BY <2>2, CursorInRow DEF InRow
    <3>. QED BY <1>3, <3>1
  <2>4. Clear(r, (0 + 1) * rect.width)
    BY <2>1, <2>2, <2>3 DEF RowsBelow
  <2>5. RowsBelow(r)
    BY <1>4, <2>2, <2>3, <2>4 DEF Clear
  <2>. QED BY <2>2, <2>5 DEF r
<1>7. CASE c # Newline /\ Shell!Inside(s)
  <2>1. InRow(s) /\ Shell!Inside(r)
    BY <1>1, <1>2, <1>7, CursorInRow, AppStaysInside
  <2> HIDE DEF r
  <2>2. s.y \in Nat /\ s.x \in Nat /\ s.y * rect.width \in Nat /\ Behind(s) = s.y * rect.width + s.x
        /\ Behind(s) < (s.y + 1) * rect.width /\ (s.y + 1) * rect.width \in Nat /\ Behind(s) \in AppCell
    <3>1. s.x < rect.width
      BY <2>1 DEF InRow
    <3>2. /\ s.y \in Nat /\ s.x \in Nat /\ s.y * rect.width \in Nat /\ Behind(s) \in AppCell
          /\ (s.y + 1) * rect.width = s.y * rect.width + rect.width
      BY <2>1 DEF InRow
    <3>3. Behind(s) = s.y * rect.width + s.x
      BY DEF Behind
    <3> DEFINE a == s.y * rect.width
               b == (s.y + 1) * rect.width
    <3> HIDE DEF a, b
    <3>4. a \in Nat /\ b = a + rect.width /\ Behind(s) = a + s.x /\ s.x \in Nat
      BY <3>2, <3>3 DEF a, b
    <3>6. rect.width \in Nat
      BY <1>3
    <3>5. Behind(s) < b /\ b \in Nat
      BY ONLY <3>1, <3>4, <3>6
    <3>. QED BY <3>2, <3>3, <3>5 DEF b
  <2>3. CASE c = Return
    <3>1. r.mem = s.mem /\ r.y = s.y
      BY <1>2, <2>3 DEF AppWrote
    <3>. QED BY <1>2, <2>1, <3>1 DEF RowsBelow, Clear, r
  <2>4. CASE c # Return
    <3>1. c \in AppChar
      BY <1>7, <2>4 DEF Shell!Printable
    <3>2. PICK d \in {0, rect.width} : One(s, c, r, d)
      BY <1>1, <1>2, <1>7, <3>1, OneWritten
    <3>3. /\ Behind(r) = Behind(s) + 1 - d /\ (d = rect.width => Behind(r) = LastRow)
          /\ \A j \in AppCell : r.mem[j] = IF j + d = Behind(s) THEN c
                                           ELSE IF j + d \in AppCell THEN s.mem[j + d] ELSE Blank
      BY <3>2 DEF One
    <3>4. CASE d = 0
      <4>1. s.y * rect.width <= Behind(r)
        BY <2>2, <3>3, <3>4
      <4>2. ASSUME NEW j \in AppCell, j >= (s.y + 1) * rect.width, j >= Behind(r) PROVE r.mem[j] = Blank
        <5>1. j + d = j /\ j # Behind(s)
          BY <1>3, <2>2, <3>3, <3>4, <4>2
        <5>2. r.mem[j] = s.mem[j]
          BY <3>3, <5>1
        <5>. QED BY <4>2, <5>2 DEF RowsBelow, Clear
      <4>3. RowsBelow(r)
        BY <1>4, <2>1, <2>2, <4>1, <4>2
      <4>. QED BY <1>2, <2>1, <4>3 DEF r
    <3>5. CASE d = rect.width
      <4>1. Clear(r, Behind(r))
        <5>2. Behind(s) \in AppCell
          BY <2>2
        <5>1. \A j \in AppCell : j >= LastRow => j + d \notin AppCell /\ j + d # Behind(s)
          BY ONLY <1>3, <3>5, <5>2
        <5>. QED BY <3>3, <3>5, <5>1 DEF Clear
      <4>2. r.y \in Nat /\ r.y * rect.width <= Behind(r)
        <5>1. r.x \in Nat /\ r.y \in Nat /\ r.y * rect.width \in Nat
          BY <1>2, <2>1, CursorInRow DEF InRow, r
        <5>. QED BY <5>1 DEF Behind
      <4>3. RowsBelow(r)
        BY <1>4, <2>1, <4>1, <4>2 DEF Clear
      <4>. QED BY <1>2, <2>1, <4>3 DEF r
    <3>. QED BY <3>4, <3>5
  <2>. QED BY <2>3, <2>4
<1>. QED BY <1>5, <1>6, <1>7

\* Whatever is printed, nothing is written in the rows below the cursor.
LEMMA TextKeepsRows ==
  ASSUME RectGood, NEW s, Good(s), RowsBelow(s), NEW text \in Seq(Shell!Printable)
  PROVE  LET r == Shell!Written(s, text)
         IN  Good(r) /\ RowsBelow(r) /\ (Len(text) >= 1 \/ Shell!Inside(s) => Shell!Inside(r))
<1> DEFINE n == Len(text)
<1>1. n \in Nat /\ (\A k \in 1 .. n : text[k] \in Shell!Printable) /\ s \in Buffers
  BY DEF Good
<1>2. PICK h : AppCourse(h, s, text) /\ Shell!Written(s, text) = h[n]
  BY <1>1, AppPrints
<1>3. /\ h \in [0 .. n -> Buffers] /\ h[0] = s
      /\ \A k \in 1 .. n : h[k] = Shell!WriteChar(h[k - 1], text[k])
  BY <1>2 DEF AppCourse
<1> HIDE DEF n
<1> DEFINE D == {k \in 0 .. n : Good(h[k]) /\ RowsBelow(h[k]) /\ (k >= 1 \/ Shell!Inside(s) => Shell!Inside(h[k]))}
<1>4. 0 \in D
  BY <1>1, <1>3
<1>5. ASSUME NEW k \in 0 .. n - 1, k \in D PROVE k + 1 \in D
  <2>1. k + 1 \in 1 .. n /\ (k + 1) - 1 = k /\ k + 1 \in 0 .. n
    BY <1>1
  <2>2. h[k + 1] = Shell!WriteChar(h[k], text[k + 1]) /\ text[k + 1] \in Shell!Printable
    BY <1>1, <1>3, <2>1
  <2>3. Good(h[k]) /\ RowsBelow(h[k])
    BY <1>5
  <2>4. h[k + 1] \in Buffers /\ Shell!Inside(h[k + 1]) /\ RowsBelow(h[k + 1])
    BY <2>2, <2>3, CharKeepsRows
  <2>. QED BY <2>1, <2>4 DEF Good
<1> HIDE DEF D
<1>6. n \in D
  <2>1. 0 .. n \subseteq D
    BY <1>1, <1>4, <1>5, InductionUpTo
  <2>. QED BY <1>1, <2>1
<1>7. Good(h[n]) /\ RowsBelow(h[n]) /\ (n >= 1 \/ Shell!Inside(s) => Shell!Inside(h[n]))
  BY <1>6 DEF D
<1>. QED BY <1>2, <1>7 DEF n

-----------------------------------------------------------------------------
(* The cursor is moved back. *)

OneBack(s, r) ==
  /\ Good(r) /\ r.mem = s.mem
  /\ Shell!Inside(s) /\ Behind(s) >= 1 => Shell!Inside(r) /\ Behind(r) = Behind(s) - 1
  /\ Shell!Inside(s) /\ Behind(s) = 0 => ~Shell!Inside(r)

LEMMA BackOnce == ASSUME RectGood, NEW s, Good(s) PROVE OneBack(s, Shell!Retreated(s))
<1> DEFINE r == Shell!Retreated(s)
           w == rect.width
<1>1. s \in Buffers /\ RetreatedTo(s, r)
  BY RetreatGood DEF Good
<1> HIDE DEF r
<1>2. r \in Buffers /\ r.mem = s.mem
  BY <1>1 DEF RetreatedTo, CursorMoved
<1>3. /\ w \in Nat \ {0} /\ rect.height \in Nat \ {0} /\ w < Byte /\ Byte \in Nat /\ AppCell \subseteq Nat
  BY AppSizes
<1>4. s.x \in Nat /\ s.y \in Nat
  BY <1>1, AppFields DEF Buffers, AppColumn, AppRow
<1>5. CASE Shell!Inside(s)
  <2>1. /\ s.x < w /\ s.y < rect.height /\ Behind(s) \in Nat /\ s.y * w \in Nat /\ Behind(s) = s.y * w + s.x
    BY <1>1, <1>3, <1>5, CursorInRow DEF InRow, Behind
  <2>2. CASE s.x = 0 /\ s.y > 0
    <3>1. r.y = s.y - 1 /\ r.x = w - 1
      BY <1>1, <1>4, <2>2 DEF RetreatedTo
    <3>2. Shell!Inside(r)
      BY <1>3, <1>4, <2>1, <3>1 DEF Shell!Inside
    <3>3. (s.y - 1) * w = s.y * w - w
      BY <1>3, <1>4
    <3>4. Behind(r) = Behind(s) - 1
      <4>1. Behind(r) = (s.y - 1) * w + (w - 1)
        BY <3>1 DEF Behind
      <4>. QED BY <1>3, <2>1, <2>2, <3>3, <4>1
    <3>5. Behind(s) # 0
      <4>1. 1 * w <= s.y * w
        BY <1>3, <1>4, <2>2
      <4>. QED BY <1>3, <2>1, <2>2, <4>1
    <3>. QED BY <1>2, <3>2, <3>4, <3>5 DEF OneBack, Good, r
  <2>3. CASE s.x > 0
    <3>1. r.y = s.y /\ r.x = s.x - 1
      BY <1>1, <1>4, <2>3 DEF RetreatedTo
    <3>4. Behind(r) = s.y * w + (s.x - 1)
      BY <3>1 DEF Behind
    <3>5. Shell!Inside(r)
      BY <1>3, <1>4, <2>1, <3>1 DEF Shell!Inside
    <3>2. Shell!Inside(r) /\ Behind(r) = Behind(s) - 1
      BY <1>4, <2>1, <3>4, <3>5
    <3>3. Behind(s) # 0
      BY <1>4, <2>1, <2>3
    <3>. QED BY <1>2, <3>2, <3>3 DEF OneBack, Good, r
  <2>4. CASE s.x = 0 /\ s.y = 0
    <3>1. r.y = 0 /\ r.x = Byte - 1
      BY <1>1, <2>4 DEF RetreatedTo
    <3>2. r.x >= w /\ ~Shell!Inside(r)
      BY <1>3, <3>1 DEF Shell!Inside
    <3>3. Behind(s) = 0
      <4>1. 0 * w = 0
        BY <1>3
      <4>. QED BY <2>1, <2>4, <4>1
    <3>. QED BY <1>2, <3>1, <3>2, <3>3 DEF OneBack, Good, r
  <2>. QED BY <1>4, <2>2, <2>3, <2>4
<1>6. CASE ~Shell!Inside(s)
  <2>1. s.y = 0 /\ s.x >= w
    BY <1>6 DEF Good
  <2>2. r.y = 0 /\ r.x = s.x - 1
    BY <1>1, <1>3, <1>4, <2>1 DEF RetreatedTo
  <2>3. Shell!Inside(r) \/ r.x >= w
    BY <1>3, <1>4, <2>1, <2>2 DEF Shell!Inside
  <2>. QED BY <1>2, <1>6, <2>2, <2>3 DEF OneBack, Good, r
<1>. QED BY <1>5, <1>6

\* Moved back n times from s, the cursor is that far back, or it went astray.
WentBack(s, r, n) ==
  /\ Good(r) /\ r.mem = s.mem /\ (n = 0 => r = s)
  /\ Shell!Inside(r) => Behind(r) + n >= At(s)
  /\ ~Shell!Inside(r) /\ n >= 1 => n >= At(s) + 1
  /\ Shell!Inside(s) /\ n <= Behind(s) => Shell!Inside(r) /\ Behind(r) = Behind(s) - n

LEMMA BackOnceMore ==
  ASSUME RectGood, NEW s, Good(s), NEW n \in Nat, NEW u, WentBack(s, u, n)
  PROVE  WentBack(s, Shell!Retreated(u), n + 1)
<1> DEFINE r == Shell!Retreated(u)
<1>1. Good(u) /\ OneBack(u, r)
  BY BackOnce DEF WentBack
<1> HIDE DEF r
<1>2. ASSUME NEW v, Good(v), Shell!Inside(v) PROVE Behind(v) \in Nat
  <2>1. v \in Buffers /\ AppCell \subseteq Nat
    BY <1>2, AppSizes DEF Good
  <2>. QED BY <1>2, <2>1, CursorInRow DEF InRow
<1>3. At(s) \in Nat /\ (Shell!Inside(s) => At(s) = Behind(s))
  BY <1>2 DEF At
<1>4. Good(r) /\ r.mem = s.mem
  BY <1>1 DEF OneBack, WentBack
<1>5. CASE Shell!Inside(u) /\ Behind(u) >= 1
  <2>1. Shell!Inside(r) /\ Behind(r) = Behind(u) - 1 /\ Behind(u) \in Nat /\ Behind(u) + n >= At(s)
    BY <1>1, <1>2, <1>5 DEF OneBack, WentBack
  <2>2. Behind(r) + (n + 1) >= At(s)
    BY <1>3, <2>1
  <2>3. ASSUME Shell!Inside(s), n + 1 <= Behind(s) PROVE Behind(r) = Behind(s) - (n + 1)
    <3>1. Behind(s) \in Nat /\ n <= Behind(s)
      BY <1>2, <2>3
    <3>2. Behind(u) = Behind(s) - n
      BY <2>3, <3>1 DEF WentBack
    <3>. QED BY <2>1, <3>1, <3>2
  <2>. QED BY <1>4, <2>1, <2>2, <2>3 DEF WentBack, r
<1>6. CASE Shell!Inside(u) /\ Behind(u) = 0
  <2>1. ~Shell!Inside(r) /\ 0 + n >= At(s)
    BY <1>1, <1>6 DEF OneBack, WentBack
  <2>2. n + 1 >= At(s) + 1
    BY <1>3, <2>1
  <2>3. ASSUME Shell!Inside(s), n + 1 <= Behind(s) PROVE FALSE
    BY <1>3, <2>1, <2>3
  <2>. QED BY <1>4, <2>1, <2>2, <2>3 DEF WentBack, r
<1>7. CASE ~Shell!Inside(u)
  <2>1. n >= At(s) /\ n + 1 >= At(s) + 1
    <3>1. CASE n = 0
      <4>1. u = s /\ At(s) = 0
        BY <1>7, <3>1 DEF WentBack, At
      <4>. QED BY <3>1, <4>1
    <3>2. CASE n >= 1
      BY <1>3, <1>7, <3>2 DEF WentBack
    <3>. QED BY <3>1, <3>2
  <2>2. ASSUME Shell!Inside(s), n + 1 <= Behind(s) PROVE FALSE
    BY <1>3, <2>1, <2>2
  <2>3. Shell!Inside(r) => Behind(r) + (n + 1) >= At(s)
    <3>1. Shell!Inside(r) => Behind(r) \in Nat
      BY <1>2, <1>4
    <3>. QED BY <1>3, <2>1, <3>1
  <2>. QED BY <1>4, <2>1, <2>2, <2>3 DEF WentBack, r
<1>8. Shell!Inside(u) => Behind(u) \in Nat
  BY <1>1, <1>2
<1>. QED BY <1>5, <1>6, <1>7, <1>8

\* The buffers while the cursor is moved back
BackCourse(h, s, n) ==
  h[0] = s /\ \A k \in 1 .. n : h[k] = Shell!Retreated(h[k - 1])

LEMMA BackRuns ==
  ASSUME RectGood, NEW s \in Buffers, NEW n \in Nat
  PROVE  \E h : BackCourse(h, s, n) /\ Shell!RetreatedBy(s, n) = h[n]
<1> DEFINE F == [k \in 1 .. n |-> [r \in Buffers |-> Shell!Retreated(r)]]
           Round(h) == [k \in 0 .. n |-> IF k = 0 THEN s ELSE Shell!Retreated(h[k - 1])]
           made == CHOOSE h : h = Round(h)
<1>1. \A r \in Buffers : Shell!Retreated(r) \in Buffers
  BY RetreatGood DEF RetreatedTo, CursorMoved
<1>2. F \in Rounds(n, Buffers) /\ \A k \in 1 .. n, r \in Buffers : F[k][r] = Shell!Retreated(r)
  BY <1>1 DEF Rounds
<1>3. Shell!RetreatedBy(s, n) = made[n]
  BY DEF Shell!RetreatedBy
<1> HIDE DEF F
<1>4. PICK h : IsCourse(h, n, Buffers, s, F)
  BY <1>2, CourseExists
<1>5. h \in [0 .. n -> Buffers] /\ h[0] = s /\ \A k \in 1 .. n : h[k] = F[k][h[k - 1]]
  BY <1>4 DEF IsCourse
<1>6. \A k \in 1 .. n : k - 1 \in 0 .. n
  OBVIOUS
<1>7. \A k \in 1 .. n : h[k] = Shell!Retreated(h[k - 1])
  BY <1>2, <1>5, <1>6
<1>8. h = Round(h)
  BY <1>5, <1>7
<1>9. made = Round(made)
  <2> HIDE DEF Round
  <2>. QED BY <1>8
<1> HIDE DEF made
<1>10. made[0] = s /\ \A k \in 1 .. n : made[k] = Shell!Retreated(made[k - 1])
  BY <1>9
<1>. QED BY <1>3, <1>10 DEF BackCourse

LEMMA BackAll ==
  ASSUME RectGood, NEW s, Good(s), NEW n \in Nat
  PROVE  WentBack(s, Shell!RetreatedBy(s, n), n)
<1>1. s \in Buffers
  BY DEF Good
<1>2. PICK h : BackCourse(h, s, n) /\ Shell!RetreatedBy(s, n) = h[n]
  BY <1>1, BackRuns
<1>3. h[0] = s /\ \A k \in 1 .. n : h[k] = Shell!Retreated(h[k - 1])
  BY <1>2 DEF BackCourse
<1> DEFINE D == {k \in 0 .. n : WentBack(s, h[k], k)}
<1>4. 0 \in D
  <2>1. Shell!Inside(s) => Behind(s) \in Nat
    <3>1. AppCell \subseteq Nat
      BY AppSizes
    <3>. QED BY <1>1, <3>1, CursorInRow DEF InRow
  <2>2. WentBack(s, s, 0)
    BY <2>1 DEF WentBack, At
  <2>. QED BY <1>3, <2>2
<1>5. ASSUME NEW k \in 0 .. n - 1, k \in D PROVE k + 1 \in D
  <2>1. k + 1 \in 1 .. n /\ (k + 1) - 1 = k /\ k + 1 \in 0 .. n /\ k \in Nat
    OBVIOUS
  <2>2. h[k + 1] = Shell!Retreated(h[k]) /\ WentBack(s, h[k], k)
    BY <1>3, <1>5, <2>1
  <2>3. WentBack(s, h[k + 1], k + 1)
    BY <2>1, <2>2, BackOnceMore
  <2>. QED BY <2>1, <2>3
<1> HIDE DEF D
<1>6. 0 .. n \subseteq D
  BY <1>4, <1>5, InductionUpTo
<1>7. n \in D
  BY <1>6
<1>. QED BY <1>2, <1>7 DEF D

-----------------------------------------------------------------------------
(* A line is printed again. *)

\* What was blank from e on is blank after the cursor, which is not before where it was, or
\* all after it is blank.
Rewrote(s, z, text, e) ==
  \/ /\ z \in Buffers /\ Shell!Inside(z)
     /\ \/ Clear(z, Behind(z))
        \/ Behind(z) >= At(s) /\ \A j \in AppCell : j >= e /\ j >= Behind(z) => z.mem[j] = Blank
  \/ ~Shell!Inside(s) /\ text = <<>> /\ z = s

LEMMA CursorPlace ==
  ASSUME RectGood, NEW s, Good(s)
  PROVE  At(s) \in Nat /\ (Shell!Inside(s) => At(s) = Behind(s) /\ Behind(s) \in AppCell)
<1>1. AppCell \subseteq Nat
  BY AppSizes
<1>2. CASE Shell!Inside(s)
  <2>1. s \in Buffers
    BY DEF Good
  <2>. QED BY <1>1, <1>2, <2>1, CursorInRow DEF At, InRow
<1>3. CASE ~Shell!Inside(s)
  BY <1>3 DEF At
<1>. QED BY <1>2, <1>3

LEMMA OrdinaryText ==
  ASSUME NEW text \in Seq(AppChar)
  PROVE  text \in Seq(Shell!Printable) /\ Len(text) \in Nat /\ (Len(text) = 0 <=> text = <<>>)
<1>1. \A k \in 1 .. Len(text) : text[k] \in Shell!Printable
  BY DEF Shell!Printable
<1>. QED BY <1>1

LEMMA RewriteClears ==
  ASSUME RectGood, NEW s, Good(s), NEW n \in Nat, NEW text \in Seq(AppChar), Len(text) >= n,
         NEW e \in Nat, Clear(s, e)
  PROVE  Rewrote(s, Shell!Rewritten(s, n, text), text, e)
<1> DEFINE r == Shell!RetreatedBy(s, n)
           z == Shell!Written(r, text)
           m == Len(text)
<1>1. WentBack(s, r, n)
  BY BackAll
<1>2. Shell!Rewritten(s, n, text) = z
  BY DEF Shell!Rewritten
<1>3. m \in Nat /\ text \in Seq(Shell!Printable) /\ (m = 0 <=> text = <<>>)
  BY OrdinaryText
<1> HIDE DEF r
<1>4. Good(r) /\ r \in Buffers /\ Clear(r, e)
  BY <1>1 DEF WentBack, Good, Clear
<1>5. At(s) \in Nat
  BY CursorPlace
<1>6. CASE Shell!Inside(r)
  <2>1. TypedSoFar(r, z, text, m, e)
    BY <1>4, <1>6, TypesAll
  <2>2. Behind(r) + n >= At(s) /\ Behind(r) \in Nat
    <3>1. AppCell \subseteq Nat
      BY AppSizes
    <3>. QED BY <1>1, <1>4, <1>6, <3>1, CursorPlace DEF WentBack
  <2>3. Behind(r) + m >= At(s)
    BY <1>3, <1>5, <2>2
  <2> HIDE DEF z, m
  <2>4. /\ z \in Buffers /\ Shell!Inside(z)
        /\ \/ Clear(z, Behind(z))
           \/ Behind(z) = Behind(r) + m /\ \A j \in AppCell : j >= e /\ j >= Behind(z) => z.mem[j] = Blank
    BY <2>1 DEF TypedSoFar
  <2>. QED BY <1>2, <2>3, <2>4 DEF Rewrote
<1>7. CASE ~Shell!Inside(r) /\ m = 0
  <2>1. n = 0 /\ r = s
    BY <1>1, <1>3, <1>7 DEF WentBack
  <2>2. z = s
    BY <1>3, <1>4, <1>7, <2>1, NothingWritten
  <2>. QED BY <1>2, <1>3, <1>7, <2>1, <2>2 DEF Rewrote
<1>8. CASE ~Shell!Inside(r) /\ m >= 1
  <2> DEFINE c == text[1]
             rest == Tail(text)
             r1 == Shell!WriteChar(r, c)
  <2>1. text = <<c>> \o rest /\ c \in AppChar /\ rest \in Seq(AppChar) /\ Len(rest) = m - 1
    BY <1>8, FirstAndRest
  <2>2. c \in Shell!Printable /\ c # Newline
    BY <2>1, AppTypes DEF Shell!Printable
  <2>3. <<c>> \in Seq(Shell!Printable) /\ rest \in Seq(Shell!Printable)
    BY <2>1, <2>2, OrdinaryText
  <2> HIDE DEF c, rest
  <2>4. r1 \in Buffers /\ Shell!Inside(r1) /\ Clear(r1, e)
    BY <1>4, <1>8, <2>2, ComesBack
  <2>5. z = Shell!Written(r1, rest)
    <3>1. Shell!Written(r, <<c>> \o rest) = Shell!Written(Shell!Written(r, <<c>>), rest)
      BY <1>4, <2>3, WrittenTwice
    <3>2. Shell!Written(r, <<c>>) = r1
      BY <1>4, <2>2, WrittenOnce
    <3>. QED BY <2>1, <3>1, <3>2
  <2> HIDE DEF r1
  <2>6. TypedSoFar(r1, z, rest, m - 1, e)
    BY <2>1, <2>4, <2>5, TypesAll
  <2>7. Behind(r1) + (m - 1) >= At(s)
    <3>1. Behind(r1) \in Nat
      <4>1. AppCell \subseteq Nat /\ Good(r1)
        BY <2>4, AppSizes DEF Good
      <4>. QED BY <2>4, <4>1, CursorPlace
    <3>2. CASE n = 0
      <4>1. At(s) = 0
        BY <1>1, <1>8, <3>2 DEF WentBack, At
      <4>. QED BY <1>3, <1>8, <3>1, <4>1
    <3>3. CASE n >= 1
      <4>1. n >= At(s) + 1
        BY <1>1, <1>8, <3>3 DEF WentBack
      <4>. QED BY <1>3, <1>5, <1>8, <3>1, <4>1
    <3>. QED BY <3>2, <3>3
  <2> HIDE DEF z, m
  <2>8. /\ z \in Buffers /\ Shell!Inside(z)
        /\ \/ Clear(z, Behind(z))
           \/ Behind(z) = Behind(r1) + (m - 1) /\ \A j \in AppCell : j >= e /\ j >= Behind(z) => z.mem[j] = Blank
    BY <2>6 DEF TypedSoFar
  <2>. QED BY <1>2, <2>7, <2>8 DEF Rewrote
<1>. QED BY <1>3, <1>6, <1>7, <1>8

\* When the line is in the buffer, it is printed where it was.
LEMMA RewriteInPlace ==
  ASSUME RectGood, NEW s, Good(s), Shell!Inside(s), NEW n \in Nat, n <= Behind(s),
         NEW text \in Seq(AppChar), NEW e \in Nat, Clear(s, e)
  PROVE  \E r \in Buffers : /\ Shell!Inside(r) /\ r.mem = s.mem /\ Behind(r) = Behind(s) - n
                           /\ TypedSoFar(r, Shell!Rewritten(s, n, text), text, Len(text), e)
<1> DEFINE r == Shell!RetreatedBy(s, n)
<1>1. WentBack(s, r, n)
  BY BackAll
<1>2. Shell!Rewritten(s, n, text) = Shell!Written(r, text)
  BY DEF Shell!Rewritten
<1> HIDE DEF r
<1>3. Good(r) /\ r \in Buffers /\ Clear(r, e) /\ r.mem = s.mem /\ Shell!Inside(r) /\ Behind(r) = Behind(s) - n
  BY <1>1 DEF WentBack, Good, Clear
<1>4. TypedSoFar(r, Shell!Written(r, text), text, Len(text), e)
  BY <1>3, TypesAll
<1>. QED BY <1>2, <1>3, <1>4

LEMMA BlankWritten ==
  ASSUME RectGood, NEW s \in Buffers, Shell!Inside(s)
  PROVE  LET r == Shell!WriteChar(s, Blank)
         IN  /\ \E d \in {0, rect.width} : One(s, Blank, r, d)
             /\ r \in Buffers /\ Shell!Inside(r)
             /\ \A e \in Nat : Clear(s, e) => Clear(r, e)
<1> DEFINE r == Shell!WriteChar(s, Blank)
<1>1. Blank \in AppChar /\ Blank \in Shell!Printable
  BY AppTypes DEF Shell!Printable
<1>2. AppWrote(s, Blank, r)
  BY <1>1, AppWrites
<1> HIDE DEF r
<1>3. PICK d \in {0, rect.width} : One(s, Blank, r, d)
  BY <1>1, <1>2, OneWritten
<1>4. /\ rect.width \in Nat \ {0} /\ LastRow \in Nat /\ AppCell = 0 .. LastRow + rect.width - 1
  BY AppSizes
<1>5. ASSUME NEW e \in Nat, Clear(s, e) PROVE Clear(r, e)
  <2>1. \A j \in AppCell : j >= e => j + d >= e
    BY <1>4
  <2>. QED BY <1>3, <1>5, <2>1 DEF One, Clear
<1>. QED BY <1>3, <1>5 DEF One, r

\* The cell before the cursor is blanked, and the cursor goes there.
ErasedTo(s, z) ==
  /\ Good(z)
  /\ Shell!Inside(s) /\ Behind(s) >= 1 =>
       /\ Shell!Inside(z) /\ Behind(z) = Behind(s) - 1
       /\ \A j \in AppCell : z.mem[j] = IF j = Behind(s) - 1 THEN Blank ELSE s.mem[j]
  /\ ~(Shell!Inside(s) /\ Behind(s) >= 1) => \A e \in Nat : Clear(s, e) => Clear(z, e)

LEMMA ErasesOne == ASSUME RectGood, NEW s, Good(s) PROVE ErasedTo(s, Shell!Erased(s))
<1> DEFINE a == Shell!Retreated(s)
           b == Shell!WriteChar(a, Blank)
           z == Shell!Retreated(b)
<1>1. Shell!Erased(s) = z
  BY DEF Shell!Erased
<1>2. OneBack(s, a) /\ Good(a) /\ a \in Buffers /\ a.mem = s.mem
  BY BackOnce DEF OneBack, Good
<1> HIDE DEF a
<1>3. b \in Buffers /\ Shell!Inside(b) /\ \A e \in Nat : Clear(a, e) => Clear(b, e)
  <2>1. CASE Shell!Inside(a)
    BY <1>2, <2>1, BlankWritten
  <2>2. CASE ~Shell!Inside(a)
    <3>1. Blank \in Shell!Printable /\ Blank # Newline
      BY AppTypes DEF Shell!Printable
    <3>. QED BY <1>2, <2>2, <3>1, ComesBack
  <2>. QED BY <2>1, <2>2
<1>4. Shell!Inside(a) => \E d \in {0, rect.width} : One(a, Blank, b, d)
  BY <1>2, BlankWritten
<1> HIDE DEF b
<1>5. OneBack(b, z) /\ Good(z) /\ z.mem = b.mem
  <2>1. Good(b)
    BY <1>3 DEF Good
  <2>. QED BY <2>1, BackOnce DEF OneBack
<1> HIDE DEF z
<1>6. \A e \in Nat : Clear(s, e) => Clear(z, e)
  BY <1>2, <1>3, <1>5 DEF Clear
<1>7. ASSUME Shell!Inside(s), Behind(s) >= 1
      PROVE  /\ Shell!Inside(z) /\ Behind(z) = Behind(s) - 1
             /\ \A j \in AppCell : z.mem[j] = IF j = Behind(s) - 1 THEN Blank ELSE s.mem[j]
  <2>1. Shell!Inside(a) /\ Behind(a) = Behind(s) - 1
    BY <1>2, <1>7 DEF OneBack
  <2>2. PICK d \in {0, rect.width} : One(a, Blank, b, d)
    BY <1>4, <2>1
  <2>3. /\ rect.width \in Nat \ {0} /\ LastRow \in Nat /\ AppCell = 0 .. LastRow + rect.width - 1
    BY AppSizes
  <2>4. Behind(s) \in AppCell
    BY <1>7, CursorPlace
  <2>5. Behind(b) = Behind(a) + 1 - d /\ (d = rect.width => Behind(b) = LastRow)
        /\ \A j \in AppCell : b.mem[j] = IF j + d = Behind(a) THEN Blank
                                         ELSE IF j + d \in AppCell THEN a.mem[j + d] ELSE Blank
    BY <2>2 DEF One
  <2>6. d = 0
    <3>1. CASE d = rect.width
      BY <2>1, <2>3, <2>4, <2>5, <3>1
    <3>. QED BY <3>1
  <2>7. Behind(b) = Behind(s) /\ \A j \in AppCell : j + d = j
    BY <2>1, <2>3, <2>4, <2>5, <2>6
  <2>8. \A j \in AppCell : b.mem[j] = IF j = Behind(s) - 1 THEN Blank ELSE s.mem[j]
    BY <1>2, <2>1, <2>5, <2>7
  <2>9. Shell!Inside(z) /\ Behind(z) = Behind(s) - 1
    BY <1>3, <1>5, <1>7, <2>7 DEF OneBack
  <2>. QED BY <1>5, <2>8, <2>9
<1>. QED BY <1>1, <1>5, <1>6, <1>7 DEF ErasedTo

-----------------------------------------------------------------------------
(* The line that is edited *)

\* A text stands before the cursor, and before it another.
Stands(s, p, text) ==
  /\ Behind(s) >= Len(p) + Len(text)
  /\ \A i \in 1 .. Len(text) : s.mem[Behind(s) - Len(text) + i - 1] = text[i]
  /\ \A i \in 1 .. Len(p) : s.mem[Behind(s) - Len(text) - i] = p[Len(p) + 1 - i]

\* Nothing is written after the cursor, or, when what was in memory was printed before the
\* line of n characters, only in the row that the line starts in.
Blanks(s, n, m) ==
  \/ Clear(s, At(s))
  \/ /\ m /\ Shell!Inside(s) /\ n <= Behind(s)
     /\ \E y \in Nat : /\ y * rect.width <= Behind(s) - n
                      /\ \A j \in AppCell : j >= (y + 1) * rect.width /\ j >= Behind(s) => s.mem[j] = Blank

Ahead(m) == IF m THEN <<>> ELSE Prompt

\* A buffer that shows the line l; lo and m are the histories long and marred.
ShowsLine(s, l, lo, m) ==
  /\ Good(s) /\ Blanks(s, Len(l), m)
  /\ ~lo => Shell!Inside(s) /\ Shell!Roomy(l) /\ Stands(s, Ahead(m), l)

LEMMA ShowsRowsBelow ==
  ASSUME RectGood, NEW s, NEW l, NEW lo, NEW m, ShowsLine(s, l, lo, m), Len(l) \in Nat
  PROVE  Good(s) /\ RowsBelow(s)
<1>1. Good(s) /\ s \in Buffers /\ Blanks(s, Len(l), m)
  BY DEF ShowsLine, Good
<1>2. rect.width \in Nat \ {0} /\ AppCell \subseteq Nat
  BY AppSizes
<1>3. CASE Shell!Inside(s) /\ Clear(s, At(s))
  <2>1. s.y \in Nat /\ s.y * rect.width <= Behind(s)
    <3>1. s.x \in Nat /\ s.y \in Nat /\ s.y * rect.width \in Nat
      BY <1>1, <1>3, CursorInRow DEF InRow
    <3>. QED BY <3>1 DEF Behind
  <2>2. \A j \in AppCell : j >= Behind(s) => s.mem[j] = Blank
    BY <1>3 DEF Clear, At
  <2>. QED BY <1>1, <1>3, <2>1, <2>2, RowsStayBelow
<1>4. CASE ~Shell!Inside(s) /\ Clear(s, At(s))
  <2>1. s.y = 0 /\ At(s) = 0
    BY <1>1, <1>4 DEF Good, At
  <2>2. \A j \in AppCell : s.mem[j] = Blank
    <3>1. \A j \in AppCell : j >= 0
      BY <1>2
    <3>2. Clear(s, 0)
      BY <1>4, <2>1
    <3>. QED BY <3>1, <3>2 DEF Clear
  <2>. QED BY <1>1, <2>2 DEF RowsBelow, Clear
<1>5. CASE ~Clear(s, At(s))
  <2>1. PICK y \in Nat : /\ y * rect.width <= Behind(s) - Len(l) /\ Shell!Inside(s)
                        /\ \A j \in AppCell : j >= (y + 1) * rect.width /\ j >= Behind(s) => s.mem[j] = Blank
    BY <1>1, <1>5 DEF Blanks
  <2>2. y * rect.width <= Behind(s)
    <3>1. Behind(s) \in Nat /\ y * rect.width \in Nat
      BY <1>1, <1>2, <2>1, CursorPlace
    <3>. QED BY <2>1, <3>1
  <2>. QED BY <1>1, <2>1, <2>2, RowsStayBelow
<1>. QED BY <1>3, <1>4, <1>5

LEMMA PromptFits ==
  ASSUME RectGood, NEW l \in Seq(AppChar), Shell!Roomy(l), NEW m \in BOOLEAN
  PROVE  /\ Len(Ahead(m)) \in Nat /\ Len(l) \in Nat /\ Len(Ahead(m)) + Len(l) <= LastRow
<1>1. Len(Prompt) \in Nat /\ Len(l) \in Nat /\ Len(Prompt \o l) = Len(Prompt) + Len(l)
  BY AppTypes
<1>2. Len(Prompt) + Len(l) <= LastRow /\ LastRow \in Nat
  BY <1>1, AppSizes DEF Shell!Roomy, LastRow
<1>3. Ahead(m) = <<>> \/ Ahead(m) = Prompt
  BY DEF Ahead
<1>. QED BY <1>1, <1>2, <1>3

\* The prompt is printed where nothing is written.
LEMMA PromptShows ==
  ASSUME RectGood, NEW s \in Buffers, Shell!Inside(s), Clear(s, Behind(s))
  PROVE  ShowsLine(Shell!Written(s, Prompt), <<>>, ~Shell!Roomy(<<>>), FALSE)
<1> DEFINE z == Shell!Written(s, Prompt)
           e == Behind(s)
           n == Len(Prompt)
<1>1. Prompt \in Seq(AppChar) /\ n \in Nat /\ Len(<<>>) = 0 /\ <<>> \in Seq(AppChar)
  BY AppTypes
<1>2. e \in Nat
  <2>1. AppCell \subseteq Nat /\ Good(s)
    BY AppSizes DEF Good
  <2>. QED BY <2>1, CursorPlace
<1>3. TypedSoFar(s, z, Prompt, n, e)
  BY <1>1, <1>2, TypesAll
<1> HIDE DEF z
<1>4. Good(z) /\ Shell!Inside(z) /\ Behind(z) \in Nat
  <2>1. AppCell \subseteq Nat /\ Good(z) /\ Shell!Inside(z)
    BY <1>3, AppSizes DEF Good, TypedSoFar
  <2>. QED BY <2>1, CursorPlace
<1>5. Clear(z, At(z))
  <2>1. CASE Clear(z, Behind(z))
    BY <1>4, <2>1 DEF At
  <2>2. CASE Behind(z) = e + n /\ \A j \in AppCell : j >= e /\ j >= Behind(z) => z.mem[j] = Blank
    <3>1. \A j \in AppCell : j >= Behind(z) => j >= e
      <4>1. AppCell \subseteq Nat
        BY AppSizes
      <4>. QED BY <1>1, <1>2, <1>4, <2>2, <4>1
    <3>. QED BY <1>4, <2>2, <3>1 DEF At, Clear
  <2>. QED BY <1>3, <2>1, <2>2 DEF TypedSoFar
<1>6. ASSUME Shell!Roomy(<<>>) PROVE Stands(z, Prompt, <<>>)
  <2>1. 0 + n <= LastRow
    <3>1. Len(Ahead(FALSE)) + Len(<<>>) <= LastRow
      BY <1>1, <1>6, PromptFits
    <3>. QED BY <1>1, <3>1 DEF Ahead
  <2>2. Behind(z) >= 0 + n /\ \A i \in 1 .. n : z.mem[Behind(z) - n + i - 1] = Prompt[i]
    BY <1>2, <1>3, <2>1 DEF TypedSoFar
  <2>3. ASSUME NEW i \in 1 .. n PROVE z.mem[Behind(z) - 0 - i] = Prompt[n + 1 - i]
    <3>1. n + 1 - i \in 1 .. n /\ Behind(z) - n + (n + 1 - i) - 1 = Behind(z) - 0 - i
      BY <1>1, <1>4
    <3> HIDE DEF n
    <3>. QED BY <2>2, <3>1
  <2>. QED BY <1>1, <1>4, <2>2, <2>3 DEF Stands
<1>7. Ahead(FALSE) = Prompt
  BY DEF Ahead
<1>. QED BY <1>4, <1>5, <1>6, <1>7 DEF ShowsLine, Blanks, z

-----------------------------------------------------------------------------
(* The line is printed again, and still shown *)

LEMMA RewriteBlanks ==
  ASSUME RectGood, NEW s, Good(s), NEW n \in Nat, NEW text \in Seq(AppChar), Len(text) >= n,
         NEW m \in BOOLEAN, Blanks(s, n, m)
  PROVE  LET z == Shell!Rewritten(s, n, text) IN Good(z) /\ Blanks(z, Len(text), m)
<1> DEFINE z == Shell!Rewritten(s, n, text)
           w == rect.width
           L == Len(text)
<1>1. L \in Nat /\ w \in Nat \ {0} /\ AppCell \subseteq Nat
  BY AppSizes
<1>2. CASE Clear(s, At(s))
  <2>1. At(s) \in Nat
    BY CursorPlace
  <2>2. Rewrote(s, z, text, At(s))
    BY <1>2, <2>1, RewriteClears
  <2> HIDE DEF z, w, L
  <2>3. CASE ~Shell!Inside(s) /\ z = s
    BY <1>2, <2>3 DEF Blanks, z, L
  <2>4. CASE z \in Buffers /\ Shell!Inside(z) /\ Clear(z, Behind(z))
    BY <2>4 DEF Blanks, Good, At, z, L
  <2>5. CASE /\ z \in Buffers /\ Shell!Inside(z) /\ Behind(z) >= At(s)
             /\ \A j \in AppCell : j >= At(s) /\ j >= Behind(z) => z.mem[j] = Blank
    <3>1. Good(z) /\ Behind(z) \in Nat
      <4>1. Good(z)
        BY <2>5 DEF Good
      <4>. QED BY <1>1, <2>5, <4>1, CursorPlace
    <3>2. \A j \in AppCell : j >= Behind(z) => j >= At(s)
      BY <1>1, <2>1, <2>5, <3>1
    <3>3. Clear(z, At(z))
      BY <2>5, <3>2 DEF Clear, At
    <3>. QED BY <3>1, <3>3 DEF Blanks, z, L
  <2>. QED BY <2>2, <2>3, <2>4, <2>5 DEF Rewrote
<1>3. CASE ~Clear(s, At(s))
  <2>1. m /\ Shell!Inside(s) /\ n <= Behind(s)
    BY <1>3 DEF Blanks
  <2>2. PICK y \in Nat : /\ y * w <= Behind(s) - n
                        /\ \A j \in AppCell : j >= (y + 1) * w /\ j >= Behind(s) => s.mem[j] = Blank
    BY <1>3 DEF Blanks
  <2>3. Behind(s) \in Nat /\ (y + 1) * w \in Nat
    BY <1>1, <2>1, CursorPlace
  <2> DEFINE e == IF Behind(s) >= (y + 1) * w THEN Behind(s) ELSE (y + 1) * w
             f == (y + 1) * w
  <2>4. e \in Nat /\ e >= Behind(s) /\ e >= (y + 1) * w
    <3> HIDE DEF f
    <3>. QED BY <2>3 DEF f
  <2>5. Clear(s, e)
    <3>1. \A j \in AppCell : j >= e => j >= (y + 1) * w /\ j >= Behind(s)
      <4> HIDE DEF f
      <4>. QED BY <1>1, <2>3 DEF f
    <3>. QED BY <2>2, <3>1 DEF Clear
  <2>6. ASSUME NEW j \in AppCell, j >= f, j >= Behind(s) PROVE j >= e
    <3> HIDE DEF f
    <3>. QED BY <2>6 DEF f
  <2> HIDE DEF e, f
  <2>7. PICK r \in Buffers : Shell!Inside(r) /\ Behind(r) = Behind(s) - n /\ TypedSoFar(r, z, text, L, e)
    BY <2>1, <2>4, <2>5, RewriteInPlace
  <2> HIDE DEF z, L
  <2>8. z \in Buffers /\ Shell!Inside(z) /\ Good(z)
    BY <2>7 DEF TypedSoFar, Good
  <2>9. CASE Clear(z, Behind(z))
    BY <2>8, <2>9 DEF Blanks, At, z, L
  <2>10. CASE Behind(z) = Behind(r) + L /\ \A j \in AppCell : j >= e /\ j >= Behind(z) => z.mem[j] = Blank
    <3>1. y * w \in Nat
      BY <1>1
    <3> HIDE DEF w
    <3>2. L >= n
      BY DEF L
    <3>3. Behind(z) >= Behind(s) /\ Behind(z) \in Nat /\ L <= Behind(z) /\ y * w <= Behind(z) - L
      BY <1>1, <2>1, <2>2, <2>3, <2>7, <2>10, <3>1, <3>2
    <3>4. ASSUME NEW j \in AppCell, j >= f, j >= Behind(z) PROVE z.mem[j] = Blank
      <4>1. j >= Behind(s)
        BY <1>1, <2>3, <3>3, <3>4
      <4>2. j >= e
        BY <2>6, <3>4, <4>1
      <4>. QED BY <2>10, <3>4, <4>2
    <3>5. /\ m /\ Shell!Inside(z) /\ L <= Behind(z) /\ y * w <= Behind(z) - L
          /\ \A j \in AppCell : j >= (y + 1) * w /\ j >= Behind(z) => z.mem[j] = Blank
      BY <2>1, <2>8, <3>3, <3>4 DEF f
    <3>. QED BY <2>8, <3>5 DEF Blanks, z, L, w
  <2>. QED BY <2>7, <2>9, <2>10 DEF TypedSoFar
<1>. QED BY <1>2, <1>3

LEMMA RewriteStands ==
  ASSUME RectGood, NEW s, Good(s), Shell!Inside(s), NEW n \in Nat, NEW text \in Seq(AppChar),
         NEW m \in BOOLEAN, NEW l \in Seq(AppChar), Len(l) = n, Stands(s, Ahead(m), l), Shell!Roomy(text)
  PROVE  LET z == Shell!Rewritten(s, n, text) IN Shell!Inside(z) /\ Stands(z, Ahead(m), text)
<1> DEFINE z == Shell!Rewritten(s, n, text)
           p == Ahead(m)
           q == Len(p)
           L == Len(text)
<1>1. q \in Nat /\ L \in Nat /\ q + L <= LastRow
  BY PromptFits
<1>2. Behind(s) \in Nat
  <2>1. AppCell \subseteq Nat
    BY AppSizes
  <2>. QED BY <2>1, CursorPlace
<1>3. Behind(s) >= q + n /\ \A i \in 1 .. q : s.mem[Behind(s) - n - i] = p[q + 1 - i]
  BY DEF Stands
<1>4. PICK e \in Nat : Clear(s, e)
  <2>1. /\ rect.width \in Nat \ {0} /\ LastRow \in Nat /\ AppCell = 0 .. LastRow + rect.width - 1
    BY AppSizes
  <2>2. LastRow + rect.width \in Nat /\ \A j \in AppCell : ~(j >= LastRow + rect.width)
    BY <2>1
  <2>. QED BY <2>2 DEF Clear
<1> HIDE DEF p, q, L, z
<1>5. PICK r \in Buffers : /\ Shell!Inside(r) /\ r.mem = s.mem /\ Behind(r) = Behind(s) - n
                          /\ TypedSoFar(r, z, text, L, e)
  <2>1. n <= Behind(s)
    BY <1>1, <1>2, <1>3
  <2>. QED BY <1>4, <2>1, RewriteInPlace DEF z, L
<1>6. q <= Behind(r)
  BY <1>1, <1>2, <1>3, <1>5
<1>7. /\ Shell!Inside(z) /\ z \in Buffers /\ Behind(z) >= q + L
      /\ \A i \in 1 .. L : z.mem[Behind(z) - L + i - 1] = text[i]
      /\ \A i \in 1 .. q : z.mem[Behind(z) - L - i] = r.mem[Behind(r) - i]
  BY <1>1, <1>5, <1>6 DEF TypedSoFar
<1>8. \A i \in 1 .. q : z.mem[Behind(z) - L - i] = p[q + 1 - i]
  BY <1>3, <1>5, <1>7
<1>9. Stands(z, p, text)
  BY <1>7, <1>8 DEF Stands, q, L
<1>. QED BY <1>7, <1>9 DEF z, p

LEMMA RewriteShows ==
  ASSUME RectGood, NEW s, Good(s), NEW n \in Nat, NEW text \in Seq(AppChar), Len(text) >= n,
         NEW m \in BOOLEAN, Blanks(s, n, m), NEW l \in Seq(AppChar), Len(l) = n, NEW lo \in BOOLEAN,
         ~lo => Shell!Inside(s) /\ Shell!Roomy(text) /\ Stands(s, Ahead(m), l)
  PROVE  ShowsLine(Shell!Rewritten(s, n, text), text, lo, m)
<1> DEFINE z == Shell!Rewritten(s, n, text)
<1>1. Good(z) /\ Blanks(z, Len(text), m)
  BY RewriteBlanks
<1>2. ~lo => Shell!Inside(z) /\ Stands(z, Ahead(m), text)
  BY RewriteStands
<1>. QED BY <1>1, <1>2 DEF ShowsLine

\* The last character of the line is erased.
LEMMA ErasedShows ==
  ASSUME RectGood, NEW s, NEW l \in Seq(AppChar), l # <<>>, NEW lo \in BOOLEAN, NEW m \in BOOLEAN,
         ShowsLine(s, l, lo, m)
  PROVE  LET z == Shell!Erased(s)
         IN  /\ Good(z) /\ Blanks(z, Len(l) - 1, m)
             /\ ~lo => Shell!Inside(z) /\ Stands(z, Ahead(m), Shell!Front(l))
<1> DEFINE z == Shell!Erased(s)
           n == Len(l)
           f == Shell!Front(l)
<1>1. Good(s) /\ Blanks(s, n, m) /\ (~lo => Shell!Inside(s) /\ Stands(s, Ahead(m), l))
  BY DEF ShowsLine
<1>2. ErasedTo(s, z)
  BY <1>1, ErasesOne
<1>3. n \in Nat /\ n >= 1 /\ f \in Seq(AppChar) /\ Len(f) = n - 1 /\ \A i \in 1 .. n - 1 : f[i] = l[i]
  BY FrontOfSeq
<1> HIDE DEF z, f, n
<1>4. Good(z)
  BY <1>2 DEF ErasedTo
<1>5. AppCell \subseteq Nat /\ At(s) \in Nat /\ (Shell!Inside(s) => At(s) = Behind(s) /\ Behind(s) \in AppCell)
      /\ At(z) \in Nat /\ (Shell!Inside(z) => At(z) = Behind(z))
  BY <1>1, <1>4, CursorPlace, AppSizes
<1>6. CASE Shell!Inside(s) /\ Behind(s) >= 1
  <2>1. /\ Shell!Inside(z) /\ Behind(z) = Behind(s) - 1
        /\ \A j \in AppCell : z.mem[j] = IF j = Behind(s) - 1 THEN Blank ELSE s.mem[j]
    BY <1>2, <1>6 DEF ErasedTo
  <2>2. ASSUME NEW j \in AppCell, j >= Behind(z), j < Behind(s) PROVE z.mem[j] = Blank
    <3>1. j = Behind(s) - 1
      BY <1>5, <1>6, <2>1, <2>2
    <3>. QED BY <2>1, <3>1
  <2>3. ASSUME NEW j \in AppCell, s.mem[j] = Blank PROVE z.mem[j] = Blank
    BY <2>1, <2>3
  <2>4. Blanks(z, n - 1, m)
    <3>1. CASE Clear(s, At(s))
      <4>1. \A j \in AppCell : j >= Behind(s) => s.mem[j] = Blank
        BY <1>5, <1>6, <3>1 DEF Clear
      <4>2. \A j \in AppCell : j >= Behind(z) => z.mem[j] = Blank
        <5> SUFFICES ASSUME NEW j \in AppCell, j >= Behind(z) PROVE z.mem[j] = Blank
          OBVIOUS
        <5>1. CASE j < Behind(s)
          BY <2>2, <5>1
        <5>2. CASE j >= Behind(s)
          BY <2>3, <4>1, <5>2
        <5>. QED BY <1>5, <1>6, <5>1, <5>2
      <4>. QED BY <2>1, <4>2 DEF Blanks, Clear, At
    <3>2. CASE ~Clear(s, At(s))
      <4>1. PICK y \in Nat : /\ m /\ n <= Behind(s) /\ y * rect.width <= Behind(s) - n
                            /\ \A j \in AppCell : j >= (y + 1) * rect.width /\ j >= Behind(s) => s.mem[j] = Blank
        BY <1>1, <3>2 DEF Blanks
      <4>2. y * rect.width \in Nat /\ (y + 1) * rect.width \in Nat
        BY AppSizes
      <4> DEFINE a == y * rect.width
                 b == (y + 1) * rect.width
      <4> HIDE DEF a, b
      <4>3. n - 1 <= Behind(z) /\ a <= Behind(z) - (n - 1)
        BY <1>3, <1>5, <1>6, <2>1, <4>1, <4>2 DEF a
      <4>4. \A j \in AppCell : j >= b /\ j >= Behind(z) => z.mem[j] = Blank
        <5> SUFFICES ASSUME NEW j \in AppCell, j >= b, j >= Behind(z) PROVE z.mem[j] = Blank
          OBVIOUS
        <5>1. CASE j < Behind(s)
          BY <2>2, <5>1
        <5>2. CASE j >= Behind(s)
          BY <2>3, <4>1, <5>2 DEF b
        <5>. QED BY <1>5, <1>6, <5>1, <5>2
      <4>. QED BY <2>1, <4>1, <4>3, <4>4 DEF Blanks, a, b
    <3>. QED BY <3>1, <3>2
  <2>5. ASSUME ~lo PROVE Stands(z, Ahead(m), f)
    <3> DEFINE p == Ahead(m)
               q == Len(p)
    <3>1. /\ Behind(s) >= q + n
          /\ \A i \in 1 .. n : s.mem[Behind(s) - n + i - 1] = l[i]
          /\ \A i \in 1 .. q : s.mem[Behind(s) - n - i] = p[q + 1 - i]
      BY <1>1, <2>5 DEF Stands, n
    <3>2. q \in Nat
      BY AppTypes DEF Ahead
    <3> HIDE DEF p, q
    <3>3. Behind(z) >= q + (n - 1)
      BY <1>3, <1>5, <1>6, <2>1, <3>1, <3>2
    <3>4. ASSUME NEW j \in AppCell, j < Behind(s) - 1 PROVE z.mem[j] = s.mem[j]
      <4>1. j # Behind(s) - 1
        BY <1>5, <1>6, <3>4
      <4>. QED BY <2>1, <4>1
    <3>8. \A j \in Int : 0 <= j /\ j < Behind(s) => j \in AppCell
      <4>1. LastRow + rect.width \in Nat /\ AppCell = 0 .. LastRow + rect.width - 1
        BY AppSizes
      <4>2. Behind(s) \in AppCell
        BY <1>5, <1>6
      <4> DEFINE e == LastRow + rect.width
      <4> HIDE DEF e
      <4>3. e \in Nat /\ AppCell = 0 .. e - 1
        <5>1. rect.width \in Nat /\ LastRow \in Nat
          BY AppSizes
        <5>2. e - 1 = LastRow + rect.width - 1
          BY <5>1 DEF e
        <5>. QED BY <4>1, <5>1, <5>2 DEF e
      <4>. QED BY <4>2, <4>3
    <3>5. ASSUME NEW i \in 1 .. n - 1 PROVE z.mem[Behind(z) - (n - 1) + i - 1] = f[i]
      <4> DEFINE j == Behind(s) - n + i - 1
      <4>1. j \in Int /\ 0 <= j /\ j < Behind(s) - 1 /\ j < Behind(s) /\ Behind(z) - (n - 1) + i - 1 = j /\ i \in 1 .. n
        BY <1>3, <1>5, <1>6, <2>1, <3>1, <3>2
      <4>3. s.mem[j] = l[i]
        BY <3>1, <4>1
      <4> HIDE DEF j
      <4>2. z.mem[j] = s.mem[j]
        BY <3>4, <3>8, <4>1
      <4>. QED BY <1>3, <4>1, <4>2, <4>3
    <3>6. ASSUME NEW i \in 1 .. q PROVE z.mem[Behind(z) - (n - 1) - i] = p[q + 1 - i]
      <4> DEFINE j == Behind(s) - n - i
      <4>1. j \in Int /\ 0 <= j /\ j < Behind(s) - 1 /\ j < Behind(s) /\ Behind(z) - (n - 1) - i = j
        BY <1>3, <1>5, <1>6, <2>1, <3>1, <3>2
      <4>3. s.mem[j] = p[q + 1 - i]
        BY <3>1
      <4> HIDE DEF j
      <4>2. z.mem[j] = s.mem[j]
        BY <3>4, <3>8, <4>1
      <4>. QED BY <4>1, <4>2, <4>3
    <3>7. Stands(z, p, f)
      BY <1>3, <3>3, <3>5, <3>6 DEF Stands, q
    <3>. QED BY <3>7 DEF p
  <2>. QED BY <1>4, <2>1, <2>4, <2>5 DEF z, n, f
<1>7. CASE ~(Shell!Inside(s) /\ Behind(s) >= 1)
  <2>1. \A e \in Nat : Clear(s, e) => Clear(z, e)
    BY <1>2, <1>7 DEF ErasedTo
  <2>2. At(s) = 0
    BY <1>5, <1>7 DEF At
  <2>3. Clear(s, 0)
    <3>1. CASE Clear(s, At(s))
      BY <2>2, <3>1
    <3>2. CASE ~Clear(s, At(s))
      <4>1. Shell!Inside(s) /\ n <= Behind(s)
        BY <1>1, <3>2 DEF Blanks
      <4>. QED BY <1>3, <1>5, <1>7, <4>1
    <3>. QED BY <3>1, <3>2
  <2>4. Clear(z, At(z))
    <3>1. Clear(z, 0) /\ \A j \in AppCell : j >= 0
      BY <1>5, <2>1, <2>3
    <3>. QED BY <3>1 DEF Clear
  <2>5. ASSUME ~lo PROVE FALSE
    <3>1. Shell!Inside(s) /\ Behind(s) >= Len(Ahead(m)) + n
      BY <1>1, <2>5 DEF Stands, n
    <3>2. Len(Ahead(m)) \in Nat
      BY AppTypes DEF Ahead
    <3>. QED BY <1>3, <1>5, <1>7, <3>1, <3>2
  <2>. QED BY <1>4, <2>4, <2>5 DEF Blanks, z, n, f
<1>. QED BY <1>6, <1>7

-----------------------------------------------------------------------------
(* Every step of the shell *)

OnScreen == \A j \in AppCell : Shell!OnScreenAt(j) = sb.mem[j]

LineInv ==
  /\ ScreenInv /\ at \in {"start", "run", "left"}
  /\ long \in BOOLEAN /\ marred \in BOOLEAN
  /\ line \in Seq(AppChar) /\ str \in Seq(Shell!Printable)
  /\ at = "start" => sb = Shell!Cleared /\ line = <<>> /\ ~marred
  /\ at = "run" => ShowsLine(sb, line, long, marred) /\ OnScreen /\ hw = Shell!CursorShown(sb)

\* Only the memory and the cursor of a buffer are shown.
LEMMA ShownAlike ==
  ASSUME NEW s, NEW r \in Buffers, r.mem = s.mem, r.x = s.x, r.y = s.y,
         NEW l, NEW lo, NEW m, ShowsLine(s, l, lo, m)
  PROVE  ShowsLine(r, l, lo, m)
<1>1. Behind(r) = Behind(s) /\ (Shell!Inside(r) <=> Shell!Inside(s))
  BY DEF Behind, Shell!Inside
<1>2. At(r) = At(s) /\ \A e : Clear(r, e) <=> Clear(s, e)
  BY <1>1 DEF At, Clear
<1>3. Good(s) => Good(r)
  BY <1>1 DEF Good
<1>4. Blanks(s, Len(l), m) => Blanks(r, Len(l), m)
  BY <1>1, <1>2 DEF Blanks
<1>5. Stands(s, Ahead(m), l) => Stands(r, Ahead(m), l)
  BY <1>1 DEF Stands
<1>. QED BY <1>1, <1>3, <1>4, <1>5 DEF ShowsLine

\* The part of the screen stays the same, and what it shows is what the buffer shows.
LEMMA ShownLater ==
  ASSUME rect' = rect, ShowsLine(sb', line', long', marred')
  PROVE  ShowsLine(sb, line, long, marred)'
<1>1. (Buffers)' = Buffers
  BY BuffersKept
<1>2. Good(sb') => Good(sb)'
  BY <1>1 DEF Good, Shell!Inside
<1>3. Blanks(sb', Len(line'), marred') => Blanks(sb, Len(line), marred)'
  BY DEF Blanks, Clear, At, Behind, Shell!Inside, AppCell
<1>4. Stands(sb', Ahead(marred'), line') => Stands(sb, Ahead(marred), line)'
  BY DEF Stands, Ahead, Behind
<1>5. Shell!Inside(sb') => Shell!Inside(sb)'
  BY DEF Shell!Inside
<1>6. Shell!Roomy(line') => Shell!Roomy(line)'
  BY DEF Shell!Roomy
<1>. QED BY <1>2, <1>3, <1>4, <1>5, <1>6 DEF ShowsLine

\* The cell of the screen that a cell of the buffer is copied to
LEMMA CellCopied ==
  ASSUME RectGood, NEW j \in AppCell, NEW s
  PROVE  LET c == <<rect.x + (j % rect.width), rect.y + (j \div rect.width)>>
         IN  c \in Shell!ScreenCell /\ Shell!Shown(s)[c] = s.mem[j]
<1> DEFINE w == rect.width
           h == rect.height
           q == j \div w
           r == j % w
           c == <<rect.x + r, rect.y + q>>
<1>1. /\ w \in Nat \ {0} /\ h \in Nat \ {0} /\ rect.x \in Nat /\ rect.y \in Nat
      /\ rect.x + w <= Cols /\ rect.y + h <= Rows /\ Rows \in Nat /\ Cols \in Nat
  BY AppTypes DEF RectGood
<1>2. j \in Nat /\ j < w * h
  <2>1. w * h \in Nat
    BY <1>1
  <2>. QED BY <2>1 DEF AppCell
<1>3. q \in Nat /\ r \in 0 .. w - 1 /\ j = w * q + r
  BY <1>1, <1>2, Division
<1>4. q < h
  BY <1>1, <1>2, QuotientBelow
<1> HIDE DEF w, h, q, r
<1>5. c \in Shell!ScreenCell
  BY <1>1, <1>3, <1>4 DEF Shell!ScreenCell
<1>6. c[1] - rect.x = r /\ c[2] - rect.y = q
  BY <1>1, <1>3
<1>7. c \in Shell!Covered
  <2>1. q \in 0 .. h - 1
    BY <1>1, <1>3, <1>4
  <2>. QED BY <1>3, <1>5, <1>6, <2>1 DEF Shell!Covered, w, h
<1>8. Shell!Source(c) = j
  <2>1. q * w = w * q
    BY <1>1, <1>3
  <2>. QED BY <1>3, <1>6, <2>1 DEF Shell!Source, w
<1>. QED BY <1>5, <1>7, <1>8 DEF Shell!Shown, c, r, q, w

\* A step ends by copying the buffer to the screen.
LEMMA ShowsKeep ==
  ASSUME ScreenInv, NEW s \in Buffers, Shell!Shows(s)
  PROVE  /\ ScreenInv' /\ (OnScreen)' /\ (hw = Shell!CursorShown(sb))' /\ rect' = rect
         /\ \A l, lo, m : ShowsLine(s, l, lo, m) => ShowsLine(sb', l, lo, m)
<1>1. /\ sb' = Shell!Trimmed(s) /\ screen' = Shell!Shown(s) /\ hw' = Shell!CursorShown(s)
      /\ astray' = (astray \/ ~Shell!Inside(s)) /\ rect' = rect /\ full' = full
  BY DEF Shell!Shows
<1>2. sb' \in Buffers /\ sb'.mem = s.mem /\ sb'.x = s.x /\ sb'.y = s.y
  BY <1>1, TrimmedGood DEF ScreenInv
<1>3. sb' \in (Buffers)' /\ RectGood' /\ (~full' => rect'.y >= 1)
  BY <1>1, <1>2, BuffersKept DEF ScreenInv
<1>4. Shell!PrintKeepsInside' /\ astray' \in BOOLEAN
  BY <1>1, <1>2 DEF Shell!PrintKeepsInside, Shell!Inside, ScreenInv
<1>5. ~full => /\ \A c \in Shell!ScreenCell : c[2] = 0 => screen'[c] = "header"
               /\ hw'[2] > 0
  BY <1>1, HeaderUncovered DEF ScreenInv, Shell!HeaderKept
<1>6. Shell!HeaderKept'
  BY <1>1, <1>5 DEF Shell!HeaderKept, Shell!ScreenCell
<1>7. ScreenInv'
  BY <1>3, <1>4, <1>6 DEF ScreenInv
<1>8. (hw = Shell!CursorShown(sb))'
  BY <1>1, <1>2 DEF Shell!CursorShown
<1>9. ASSUME NEW j \in AppCell
      PROVE  screen'[<<rect.x + (j % rect.width), rect.y + (j \div rect.width)>>] = sb'.mem[j]
  BY <1>1, <1>2, CellCopied DEF ScreenInv
<1>10. (OnScreen)'
  BY <1>1, <1>9 DEF OnScreen, Shell!OnScreenAt, AppCell
<1>11. \A l, lo, m : ShowsLine(s, l, lo, m) => ShowsLine(sb', l, lo, m)
  BY <1>2, ShownAlike
<1>. QED BY <1>1, <1>7, <1>8, <1>10, <1>11

LEMMA ClearedBlank ==
  ASSUME RectGood
  PROVE  Shell!Cleared \in Buffers /\ Shell!Inside(Shell!Cleared) /\ \A e : Clear(Shell!Cleared, e)
<1>1. Shell!Cleared.mem = [i \in AppCell |-> Blank]
  BY DEF Shell!Cleared, Shell!BlankMem, AppCell
<1>2. \A j \in AppCell : Shell!Cleared.mem[j] = Blank
  BY <1>1
<1>. QED BY <1>2, ClearedGood DEF Clear

\* What a command shows is text.
LEMMA AnswerIsText ==
  ASSUME NEW taken, NEW said \in Shell!Answer(taken)
  PROVE  said \in Seq(Shell!Printable)
<1>1. Output \subseteq Seq(Shell!Printable) /\ Newline \in Shell!Printable /\ <<>> \in Seq(Shell!Printable)
  BY AppTypes DEF Shell!Printable
<1>2. \A o \in Output : <<Newline>> \o o \in Seq(Shell!Printable)
  BY <1>1
<1>. QED BY <1>1, <1>2 DEF Shell!Answer

\* After a command, the prompt stands alone.
LEMMA PromptAgain ==
  ASSUME RectGood, NEW s, Good(s), RowsBelow(s), NEW said \in Seq(Shell!Printable)
  PROVE  ShowsLine(Shell!Written(s, said \o <<Newline>> \o Prompt), <<>>, ~Shell!Roomy(<<>>), FALSE)
<1> DEFINE u == Shell!Written(s, said)
           v == Shell!WriteChar(u, Newline)
<1>1. s \in Buffers /\ Newline \in Shell!Printable /\ Prompt \in Seq(Shell!Printable) /\ <<Newline>> \in Seq(Shell!Printable)
  BY AppTypes, OrdinaryText DEF Good, Shell!Printable
<1>2. Good(u) /\ RowsBelow(u)
  BY TextKeepsRows
<1>3. u \in Buffers
  BY <1>2 DEF Good
<1>4. v \in Buffers /\ Shell!Inside(v) /\ Clear(v, Behind(v))
  <2> HIDE DEF u
  <2>. QED BY <1>2, NewlineClears
<1>5. said \o <<Newline>> \in Seq(Shell!Printable)
  BY <1>1
<1>6. Shell!Written(s, said \o <<Newline>>) = v
  <2>1. Shell!Written(s, said \o <<Newline>>) = Shell!Written(u, <<Newline>>)
    BY <1>1, WrittenTwice
  <2> HIDE DEF u
  <2>2. Shell!Written(u, <<Newline>>) = v
    BY <1>1, <1>3, WrittenOnce
  <2>. QED BY <2>1, <2>2
<1> HIDE DEF v
<1>7. Shell!Written(s, said \o <<Newline>> \o Prompt) = Shell!Written(v, Prompt)
  BY <1>1, <1>5, <1>6, WrittenTwice
<1>. QED BY <1>4, <1>7, PromptShows

\* Memory that nobody typed was printed after the prompt.
LEMMA MarredShows ==
  ASSUME RectGood, NEW s, NEW lo \in BOOLEAN, NEW m \in BOOLEAN, ShowsLine(s, <<>>, lo, m),
         NEW text \in Seq(Shell!Printable)
  PROVE  ShowsLine(Shell!Written(s, text), <<>>, lo, m \/ text # <<>>)
<1>1. Good(s) /\ s \in Buffers /\ Len(<<>>) = 0
  BY DEF ShowsLine, Good
<1>2. CASE text = <<>>
  <2>1. Shell!Written(s, text) = s /\ (m \/ text # <<>>) = m
    BY <1>1, <1>2, NothingWritten
  <2>. QED BY <2>1
<1>3. CASE text # <<>>
  <2> DEFINE z == Shell!Written(s, text)
  <2>1. Len(text) >= 1
    BY <1>3
  <2>2. RowsBelow(s)
    BY <1>1, ShowsRowsBelow
  <2>3. Good(z) /\ RowsBelow(z) /\ Shell!Inside(z)
    BY <1>1, <2>1, <2>2, TextKeepsRows
  <2> HIDE DEF z
  <2>4. /\ Behind(z) \in Nat /\ z.y \in Nat /\ z.y * rect.width <= Behind(z) /\ z.y * rect.width \in Nat
    <3>1. z \in Buffers /\ AppCell \subseteq Nat
      BY <2>3, AppSizes DEF Good
    <3>2. Behind(z) \in AppCell /\ z.y \in Nat /\ z.x \in Nat /\ z.y * rect.width \in Nat
      BY <2>3, <3>1, CursorInRow DEF InRow
    <3>. QED BY <3>1, <3>2 DEF Behind
  <2>5. 0 <= Behind(z) /\ z.y * rect.width <= Behind(z) - 0 /\ Behind(z) >= 0 + 0
    BY <2>4
  <2>6. Blanks(z, 0, TRUE)
    BY <2>3, <2>4, <2>5 DEF Blanks, RowsBelow, Clear
  <2>7. Stands(z, <<>>, <<>>)
    BY <1>1, <2>5 DEF Stands
  <2>8. ~lo => Shell!Roomy(<<>>)
    BY DEF ShowsLine
  <2>9. ShowsLine(z, <<>>, lo, TRUE)
    BY <1>1, <2>3, <2>6, <2>7, <2>8 DEF ShowsLine, Ahead
  <2>. QED BY <1>3, <2>9 DEF z
<1>. QED BY <1>2, <1>3

LEMMA LineStarts == Shell!ShellInit => LineInv
<1> SUFFICES ASSUME Shell!ShellInit PROVE LineInv
  OBVIOUS
<1>1. /\ Shell!Given(ShellRect) /\ line = <<>> /\ str \in Junk /\ at = "start"
      /\ long = FALSE /\ marred = FALSE
  BY DEF Shell!ShellInit
<1>2. ScreenInv /\ sb = Shell!Cleared
  BY <1>1, AppTypes, GivenGood
<1>3. str \in Seq(Shell!Printable) /\ <<>> \in Seq(AppChar)
  BY <1>1, AppTypes
<1>. QED BY <1>1, <1>2, <1>3 DEF LineInv

\* The shell goes on with a buffer that shows its line.
LEMMA GoesOn ==
  ASSUME LineInv, at' = "run", NEW s, Shell!Shows(s), ShowsLine(s, line', long', marred'),
         long' \in BOOLEAN, marred' \in BOOLEAN, line' \in Seq(AppChar), str' \in Seq(Shell!Printable)
  PROVE  LineInv'
<1>1. ScreenInv /\ s \in Buffers
  BY DEF LineInv, ShowsLine, Good
<1>2. /\ ScreenInv' /\ (OnScreen)' /\ (hw = Shell!CursorShown(sb))' /\ rect' = rect
      /\ ShowsLine(sb', line', long', marred')
  BY <1>1, ShowsKeep
<1>3. ShowsLine(sb, line, long, marred)'
  BY <1>2, ShownLater
<1>4. (Shell!Printable)' = Shell!Printable
  BY DEF Shell!Printable
<1>. QED BY <1>2, <1>3, <1>4 DEF LineInv

LEMMA LeaveKeeps == LineInv /\ Shell!Leave => LineInv'
<1> SUFFICES ASSUME LineInv, Shell!Leave PROVE LineInv'
  OBVIOUS
<1>1. at' = "left" /\ Shell!Shows(Shell!Cleared) /\ line' = line /\ str' = str /\ long' = long /\ marred' = marred
  BY DEF Shell!Leave
<1>2. ScreenInv /\ Shell!Cleared \in Buffers
  BY ClearedGood DEF LineInv, ScreenInv
<1>3. ScreenInv'
  BY <1>1, <1>2, ShowsKeep
<1>. QED BY <1>1, <1>3 DEF LineInv

LEMMA StartKeeps == LineInv /\ Shell!Start => LineInv'
<1> SUFFICES ASSUME LineInv, at = "start", at' = "run", Shell!Shows(Shell!Written(sb, Prompt)),
                    long' = ~Shell!Roomy(<<>>), line' = line, str' = str, marred' = marred
             PROVE  LineInv'
  BY LeaveKeeps DEF Shell!Start
<1>1. sb = Shell!Cleared /\ line = <<>> /\ marred = FALSE /\ RectGood /\ str \in Seq(Shell!Printable)
  BY DEF LineInv, ScreenInv
<1>2. sb \in Buffers /\ Shell!Inside(sb) /\ Clear(sb, Behind(sb))
  BY <1>1, ClearedBlank
<1>3. ShowsLine(Shell!Written(sb, Prompt), <<>>, ~Shell!Roomy(<<>>), FALSE)
  BY <1>1, <1>2, PromptShows
<1>4. ShowsLine(Shell!Written(sb, Prompt), line', long', marred')
  BY <1>1, <1>3
<1>5. long' \in BOOLEAN /\ marred' \in BOOLEAN /\ line' \in Seq(AppChar) /\ str' \in Seq(Shell!Printable)
  BY <1>1 DEF LineInv
<1>. QED BY <1>4, <1>5, GoesOn

LEMMA TypeKeyKeeps == ASSUME LineInv, NEW c \in Typed, Shell!TypeKey(c) PROVE LineInv'
<1> DEFINE text == Append(line, c)
           z == Shell!Rewritten(sb, Len(line), text)
<1> SUFFICES ASSUME at = "run", Shell!Edited(text), Shell!Shows(z) PROVE LineInv'
  BY LeaveKeeps DEF Shell!TypeKey
<1>1. /\ line' = text /\ str' = text /\ long' = (long \/ ~Shell!Roomy(text))
      /\ marred' = marred /\ at' = at
  BY DEF Shell!Edited
<1>2. /\ ShowsLine(sb, line, long, marred) /\ RectGood /\ line \in Seq(AppChar)
      /\ long \in BOOLEAN /\ marred \in BOOLEAN /\ c \in AppChar
  BY AppTypes DEF LineInv, ScreenInv
<1>3. text \in Seq(AppChar) /\ Len(line) \in Nat /\ Len(text) >= Len(line)
  BY <1>2
<1>4. text \in Seq(Shell!Printable)
  BY <1>3, OrdinaryText
<1> HIDE DEF text
<1>5. Good(sb) /\ Blanks(sb, Len(line), marred)
      /\ (~long' => Shell!Inside(sb) /\ Shell!Roomy(text) /\ Stands(sb, Ahead(marred), line))
  BY <1>1, <1>2 DEF ShowsLine
<1>6. long' \in BOOLEAN
  BY <1>1
<1>7. ShowsLine(z, text, long', marred)
  BY <1>2, <1>3, <1>5, <1>6, RewriteShows
<1> HIDE DEF z
<1>8. ShowsLine(z, line', long', marred')
  BY <1>1, <1>7
<1>9. at' = "run" /\ marred' \in BOOLEAN /\ line' \in Seq(AppChar) /\ str' \in Seq(Shell!Printable)
  BY <1>1, <1>2, <1>3, <1>4
<1>. QED BY <1>6, <1>8, <1>9, GoesOn

LEMMA BackspaceKeeps == LineInv /\ Shell!Backspace => LineInv'
<1> SUFFICES ASSUME LineInv, Shell!Backspace PROVE LineInv'
  OBVIOUS
<1>1. /\ ShowsLine(sb, line, long, marred) /\ RectGood /\ line \in Seq(AppChar) /\ str \in Seq(Shell!Printable)
      /\ long \in BOOLEAN /\ marred \in BOOLEAN /\ at = "run"
  BY DEF LineInv, ScreenInv, Shell!Backspace
<1>2. CASE line = <<>>
  <2>1. /\ Shell!Shows(Shell!Written(sb, str)) /\ marred' = (marred \/ str # <<>>)
        /\ line' = line /\ str' = str /\ long' = long /\ at' = at
    BY <1>2 DEF Shell!Backspace
  <2>2. ShowsLine(Shell!Written(sb, str), <<>>, long, marred \/ str # <<>>)
    BY <1>1, <1>2, MarredShows
  <2>3. ShowsLine(Shell!Written(sb, str), line', long', marred')
    BY <1>2, <2>1, <2>2
  <2>4. marred' \in BOOLEAN
    BY <2>1
  <2>5. at' = "run" /\ long' \in BOOLEAN /\ line' \in Seq(AppChar) /\ str' \in Seq(Shell!Printable)
    BY <1>1, <2>1
  <2>. QED BY <2>1, <2>3, <2>4, <2>5, GoesOn
<1>3. CASE line # <<>>
  <2> DEFINE text == Shell!Front(line)
             s == Shell!Erased(sb)
             n == Len(line) - 1
             z == Shell!Rewritten(s, n, text)
  <2>1. Shell!Edited(text) /\ Shell!Shows(z)
    BY <1>3 DEF Shell!Backspace
  <2>2. /\ line' = text /\ str' = text /\ long' = (long \/ ~Shell!Roomy(text))
        /\ marred' = marred /\ at' = at
    BY <2>1 DEF Shell!Edited
  <2>3. text \in Seq(AppChar) /\ n \in Nat /\ Len(text) = n
    BY <1>1, <1>3, FrontOfSeq
  <2>4. /\ Good(s) /\ Blanks(s, n, marred)
        /\ ~long => Shell!Inside(s) /\ Stands(s, Ahead(marred), text)
    BY <1>1, <1>3, ErasedShows
  <2>5. text \in Seq(Shell!Printable)
    BY <2>3, OrdinaryText
  <2> HIDE DEF text, s, n
  <2>6. long' \in BOOLEAN /\ Len(text) >= n
    BY <2>2, <2>3
  <2>7. ~long' => Shell!Inside(s) /\ Shell!Roomy(text) /\ Stands(s, Ahead(marred), text)
    BY <2>2, <2>4
  <2>8. ShowsLine(z, text, long', marred)
    BY <1>1, <2>3, <2>4, <2>6, <2>7, RewriteShows
  <2> HIDE DEF z
  <2>9. ShowsLine(z, line', long', marred')
    BY <2>2, <2>8
  <2>10. at' = "run" /\ marred' \in BOOLEAN /\ line' \in Seq(AppChar) /\ str' \in Seq(Shell!Printable)
    BY <1>1, <2>2, <2>3, <2>5
  <2>. QED BY <2>1, <2>6, <2>9, <2>10, GoesOn
<1>. QED BY <1>2, <1>3

LEMMA EnterKeeps == LineInv /\ Shell!Enter => LineInv'
<1> SUFFICES ASSUME LineInv, at = "run",
                    NEW said \in Shell!Answer(str), Shell!Shows(Shell!Written(sb, said \o <<Newline>> \o Prompt)),
                    line' = <<>>, str' = <<>>, long' = ~Shell!Roomy(<<>>), marred' = FALSE, at' = at
             PROVE  LineInv'
  BY LeaveKeeps DEF Shell!Enter
<1>1. ShowsLine(sb, line, long, marred) /\ RectGood /\ line \in Seq(AppChar)
  BY DEF LineInv, ScreenInv
<1>2. Good(sb) /\ RowsBelow(sb)
  <2>1. Len(line) \in Nat
    BY <1>1
  <2>. QED BY <1>1, <2>1, ShowsRowsBelow
<1>3. said \in Seq(Shell!Printable)
  BY AnswerIsText
<1>4. ShowsLine(Shell!Written(sb, said \o <<Newline>> \o Prompt), <<>>, ~Shell!Roomy(<<>>), FALSE)
  BY <1>1, <1>2, <1>3, PromptAgain
<1>5. ShowsLine(Shell!Written(sb, said \o <<Newline>> \o Prompt), line', long', marred')
  BY <1>4
<1>6. at' = "run" /\ long' \in BOOLEAN /\ marred' \in BOOLEAN /\ line' \in Seq(AppChar) /\ str' \in Seq(Shell!Printable)
  <2>1. <<>> \in Seq(AppChar) /\ <<>> \in Seq(Shell!Printable)
    OBVIOUS
  <2>2. line' \in Seq(AppChar) /\ str' \in Seq(Shell!Printable) /\ at' = "run"
    BY <2>1
  <2>3. long' \in BOOLEAN /\ marred' \in BOOLEAN
    OBVIOUS
  <2>. QED BY <2>2, <2>3
<1>. QED BY <1>5, <1>6, GoesOn

LEMMA LineKeeps == LineInv /\ [Shell!ShellNext]_<<screenVars, lineVars>> => LineInv'
<1> SUFFICES ASSUME LineInv, [Shell!ShellNext]_<<screenVars, lineVars>> PROVE LineInv'
  OBVIOUS
<1>1. CASE <<screenVars, lineVars>>' = <<screenVars, lineVars>>
  <2>1. /\ rect' = rect /\ full' = full /\ sb' = sb /\ screen' = screen /\ hw' = hw /\ astray' = astray
        /\ line' = line /\ str' = str /\ long' = long /\ marred' = marred /\ at' = at
    BY <1>1 DEF screenVars, lineVars
  <2>2. ScreenInv'
    <3>1. screenVars' = screenVars
      BY <1>1
    <3>. QED BY <3>1, ScreenKeeps DEF LineInv
  <2>3. at = "run" => ShowsLine(sb, line, long, marred)'
    BY <2>1, ShownLater DEF LineInv
  <2>4. OnScreen => (OnScreen)'
    BY <2>1 DEF OnScreen, Shell!OnScreenAt, AppCell
  <2>5. (Shell!Printable)' = Shell!Printable /\ (Shell!CursorShown(sb))' = Shell!CursorShown(sb)
        /\ (Shell!Cleared)' = Shell!Cleared
    BY <2>1 DEF Shell!Printable, Shell!CursorShown, Shell!Cleared, Shell!BlankMem, Shell!Empty
  <2>. QED BY <2>1, <2>2, <2>3, <2>4, <2>5 DEF LineInv
<1>2. CASE Shell!ShellNext
  BY <1>2, StartKeeps, TypeKeyKeeps, BackspaceKeeps, EnterKeeps DEF Shell!ShellNext
<1>. QED BY <1>1, <1>2

LEMMA LineHolds == LineInv => Shell!LineShown /\ Shell!BlankAfterCursor
<1> SUFFICES ASSUME LineInv, at = "run"
             PROVE  /\ ~long => /\ Shell!Inside(sb) /\ hw = Shell!CursorShown(sb)
                                /\ Shell!EndsWith(IF marred THEN line ELSE Prompt \o line)
                    /\ ~marred => \A i \in Shell!Cursor .. Shell!Size - 1 : Shell!OnScreenAt(i) = Blank
  BY DEF Shell!LineShown, Shell!BlankAfterCursor
<1>1. /\ ShowsLine(sb, line, long, marred) /\ OnScreen /\ hw = Shell!CursorShown(sb) /\ RectGood
      /\ line \in Seq(AppChar) /\ marred \in BOOLEAN
  BY DEF LineInv, ScreenInv
<1>2. Good(sb) /\ sb \in Buffers /\ Blanks(sb, Len(line), marred)
  BY <1>1 DEF ShowsLine, Good
<1>3. Shell!Cursor = Behind(sb) /\ AppCell = 0 .. Shell!Size - 1
  BY DEF Shell!Cursor, Behind, Shell!Size, AppCell
<1>4. Behind(sb) \in Nat /\ (~Shell!Inside(sb) => At(sb) = 0) /\ (Shell!Inside(sb) => At(sb) = Behind(sb) /\ Behind(sb) \in AppCell)
  <2>1. sb.x \in Nat /\ sb.y \in Nat /\ rect.width \in Nat
    BY <1>1, <1>2, AppFields, AppTypes DEF Buffers, AppColumn, AppRow, RectGood
  <2>2. Behind(sb) \in Nat
    BY <2>1 DEF Behind
  <2>. QED BY <1>1, <1>2, <2>2, CursorPlace DEF At
<1>5. ASSUME ~marred, NEW i \in Behind(sb) .. Shell!Size - 1 PROVE Shell!OnScreenAt(i) = Blank
  <2>1. Shell!Size \in Nat
    BY <1>1 DEF RectGood, Shell!Size
  <2>2. i \in AppCell /\ i >= At(sb)
    BY <1>3, <1>4, <1>5, <2>1
  <2>3. Clear(sb, At(sb))
    BY <1>2, <1>5 DEF Blanks
  <2>. QED BY <1>1, <2>2, <2>3 DEF Clear, OnScreen
<1>6. ASSUME ~long PROVE Shell!Inside(sb) /\ Shell!EndsWith(IF marred THEN line ELSE Prompt \o line)
  <2> DEFINE p == Ahead(marred)
             text == p \o line
             q == Len(p)
             L == Len(line)
             B == Behind(sb)
  <2>1. Shell!Inside(sb) /\ B \in AppCell /\ B >= q + L
        /\ (\A i \in 1 .. L : sb.mem[B - L + i - 1] = line[i])
        /\ (\A i \in 1 .. q : sb.mem[B - L - i] = p[q + 1 - i])
    BY <1>1, <1>4, <1>6 DEF ShowsLine, Stands
  <2>2. p \in Seq(AppChar) /\ q \in Nat /\ L \in Nat /\ Len(text) = q + L
    BY <1>1, AppTypes DEF Ahead
  <2>3. text = IF marred THEN line ELSE Prompt \o line
    <3>1. <<>> \o line = line
      BY <1>1
    <3>. QED BY <1>1, <3>1 DEF Ahead
  <2>4. \A i \in 1 .. q : text[i] = p[i]
    BY <1>1, <2>2
  <2>5. ASSUME NEW k \in 1 .. L PROVE text[q + k] = line[k]
    <3>1. q + k \in 1 .. q + L /\ q + k > q /\ (q + k) - q = k
      BY <2>2
    <3> HIDE DEF p
    <3>. QED BY <1>1, <2>2, <3>1
  <2> HIDE DEF p, text, q, L, B
  <2>9. Shell!Size \in Nat
    BY <1>1 DEF RectGood, Shell!Size
  <2>6. ASSUME NEW i \in 1 .. Len(text) PROVE Shell!OnScreenAt(B - Len(text) + i - 1) = text[i]
    <3> DEFINE j == B - Len(text) + i - 1
    <3>1. j \in AppCell
      BY <1>3, <2>1, <2>2, <2>9
    <3>2. Shell!OnScreenAt(j) = sb.mem[j]
      BY <1>1, <3>1 DEF OnScreen
    <3>3. CASE i \in 1 .. q
      <4>1. j = B - L - (q + 1 - i) /\ q + 1 - i \in 1 .. q /\ q + 1 - (q + 1 - i) = i
        BY <1>3, <2>1, <2>2, <2>9, <3>3
      <4> HIDE DEF j
      <4>2. sb.mem[j] = p[i]
        BY <2>1, <4>1
      <4>. QED BY <2>4, <3>2, <3>3, <4>2 DEF j
    <3>4. CASE i \notin 1 .. q
      <4>1. i - q \in 1 .. L /\ j = B - L + (i - q) - 1 /\ q + (i - q) = i
        BY <1>3, <2>1, <2>2, <2>9, <3>4
      <4> HIDE DEF j
      <4>2. sb.mem[j] = line[i - q] /\ text[i] = line[i - q]
        BY <2>1, <2>5, <4>1
      <4>. QED BY <3>2, <4>2 DEF j
    <3>. QED BY <3>3, <3>4
  <2>7. B - Len(text) >= 0
    BY <1>3, <2>1, <2>2, <2>9
  <2>8. Shell!EndsWith(text)
    BY <1>3, <2>6, <2>7 DEF Shell!EndsWith, B
  <2>. QED BY <2>1, <2>3, <2>8
<1>. QED BY <1>1, <1>3, <1>5, <1>6

-----------------------------------------------------------------------------
(* The command *)

\* The same sets are counted.
LEMMA SameSize == ASSUME NEW S PROVE Run!Cardinality(S) = Cardinality(S)
  BY DEF Run!Cardinality, Cardinality
LEMMA SameRange == ASSUME NEW f PROVE Run!Range(f) = Range(f)
  BY DEF Run!Range, Range

Quotes(c, p) == {q \in 1 .. p : c[q] = Quote}
QuotedIn(c, p) == Cardinality(Quotes(c, p)) % 2 = 1

\* A quote opens what is quoted, or closes it; no other character does.
LEMMA QuotesCount ==
  ASSUME NEW c, NEW p \in Nat
  PROVE  /\ c[p + 1] = Quote => (QuotedIn(c, p + 1) <=> ~QuotedIn(c, p))
         /\ c[p + 1] # Quote => (QuotedIn(c, p + 1) <=> QuotedIn(c, p))
<1> DEFINE S == Quotes(c, p)
           T == Quotes(c, p + 1)
<1>1. IsFiniteSet(S) /\ Cardinality(S) \in Nat
  <2>1. IsFiniteSet(1 .. p) /\ S \in SUBSET (1 .. p)
    BY FS_Interval DEF Quotes
  <2>. QED BY <2>1, FS_Subset, FS_CardinalityType
<1>2. CASE c[p + 1] = Quote
  <2>1. T = S \cup {p + 1} /\ p + 1 \notin S
    BY <1>2 DEF Quotes
  <2>2. Cardinality(T) = Cardinality(S) + 1
    BY <1>1, <2>1, FS_AddElement
  <2> HIDE DEF S, T
  <2>3. Cardinality(T) % 2 = 1 <=> ~(Cardinality(S) % 2 = 1)
    BY <1>1, <2>2
  <2>. QED BY <1>2, <2>3 DEF QuotedIn, S, T
<1>3. CASE c[p + 1] # Quote
  <2>1. T = S
    BY <1>3 DEF Quotes
  <2>. QED BY <1>3, <2>1 DEF QuotedIn
<1>. QED BY <1>2, <1>3

LEMMA NoQuotes == ASSUME NEW c PROVE ~QuotedIn(c, 0)
<1>1. Quotes(c, 0) = {}
  BY DEF Quotes
<1>. QED BY <1>1, FS_EmptySet DEF QuotedIn

\* A block that is not in use
LEMMA FreshBlock ==
  ASSUME live \in SUBSET Nat, IsFiniteSet(live)
  PROVE  Run!Fresh \in Nat \ live
<1> DEFINE n == Cardinality(live)
<1>1. n \in Nat
  BY FS_CardinalityType
<1>2. IsFiniteSet(0 .. n) /\ Cardinality(0 .. n) = n + 1
  <2> HIDE DEF n
  <2>. QED BY <1>1, FS_Interval
<1>3. \E b \in 0 .. n : b \notin live
  <2>1. CASE 0 .. n \subseteq live
    <3>1. Cardinality(0 .. n) <= n
      BY <2>1, FS_Subset
    <3> HIDE DEF n
    <3>. QED BY <1>1, <1>2, <3>1
  <2>. QED BY <2>1
<1>4. Run!Fresh \in 0 .. n /\ Run!Fresh \notin live
  <2>1. Run!Fresh = CHOOSE b \in 0 .. n : b \notin live
    BY SameSize DEF Run!Fresh
  <2> HIDE DEF n
  <2>. QED BY <1>3, <2>1
<1> HIDE DEF n
<1>. QED BY <1>1, <1>4

-----------------------------------------------------------------------------
(* What has been read *)

Words == [block : Int, at : Seq(Nat)]
\* A word of a line of which n characters were read: its places ascend, and only its first
\* character may be a space that is not quoted.
Fine(c, w, n) ==
  /\ \A a \in DOMAIN w.at : w.at[a] \in 1 .. n
  /\ \A a, b \in DOMAIN w.at : a < b => w.at[a] < w.at[b]
  /\ \A a \in DOMAIN w.at : c[w.at[a]] = Space => QuotedIn(c, w.at[a]) \/ a = 1
Before(v, w) == \A a \in DOMAIN v.at, b \in DOMAIN w.at : v.at[a] < w.at[b]
\* A place that is in no word
LeftOut(c, p) == c[p] = Quote \/ (c[p] = Space /\ ~QuotedIn(c, p))
In(w, p) == p \in Range(w.at)

ArgsGood(c, ws, n) ==
  /\ ws \in Seq(Words)
  /\ \A k \in 1 .. Len(ws) : Fine(c, ws[k], n) /\ ws[k].at # <<>>
  /\ \A k, m \in 1 .. Len(ws) : k < m => Before(ws[k], ws[m])
WordGood(c, ws, w, n) ==
  w \in Words /\ Fine(c, w, n) /\ \A k \in 1 .. Len(ws) : Before(ws[k], w)
\* All that was read is in a word, but for what belongs to none.
AllRead(c, ws, w, n) ==
  \A p \in 1 .. n : LeftOut(c, p) \/ In(w, p) \/ \E k \in 1 .. Len(ws) : In(ws[k], p)

ReadInv ==
  /\ command \in Seq(Range(command)) /\ read \in 0 .. Len(command)
  /\ inString \in BOOLEAN /\ (inString <=> QuotedIn(command, read))
  /\ refused \in BOOLEAN
  /\ ArgsGood(command, args, read) /\ WordGood(command, args, word, read)
  /\ ~refused => AllRead(command, args, word, read)

LEMMA EmptyWord == Run!NoWord \in Words /\ Run!NoWord.at = <<>> /\ Run!NoWord.block = -1
  BY DEF Run!NoWord, Run!None, Words

\* A character that belongs to no word
LEMMA SkipKeeps ==
  ASSUME NEW c, NEW ws, NEW w, NEW n \in Nat, ArgsGood(c, ws, n), WordGood(c, ws, w, n)
  PROVE  /\ ArgsGood(c, ws, n + 1) /\ WordGood(c, ws, w, n + 1)
         /\ AllRead(c, ws, w, n) /\ LeftOut(c, n + 1) => AllRead(c, ws, w, n + 1)
<1>1. ASSUME NEW v, Fine(c, v, n) PROVE Fine(c, v, n + 1)
  BY <1>1 DEF Fine
<1>2. ASSUME AllRead(c, ws, w, n), LeftOut(c, n + 1) PROVE AllRead(c, ws, w, n + 1)
  <2>1. \A p \in 1 .. n + 1 : p \in 1 .. n \/ p = n + 1
    OBVIOUS
  <2>. QED BY <1>2, <2>1 DEF AllRead
<1>. QED BY <1>1, <1>2 DEF ArgsGood, WordGood

\* The word that was read is pushed.
LEMMA PushKeeps ==
  ASSUME NEW c, NEW ws, NEW w, NEW n \in Nat, ArgsGood(c, ws, n), WordGood(c, ws, w, n), w.at # <<>>,
         NEW e \in Words, e.at = <<>>
  PROVE  LET vs == Append(ws, w)
         IN  /\ ArgsGood(c, vs, n) /\ WordGood(c, vs, e, n)
             /\ AllRead(c, ws, w, n) => AllRead(c, vs, e, n)
<1> DEFINE vs == Append(ws, w)
           l == Len(ws)
<1>1. /\ vs \in Seq(Words) /\ Len(vs) = l + 1 /\ vs[l + 1] = w /\ l \in Nat
      /\ \A k \in 1 .. l : vs[k] = ws[k]
  BY DEF ArgsGood, WordGood
<1> HIDE DEF vs, l
<1>2. \A k \in 1 .. l + 1 : k \in 1 .. l \/ k = l + 1
  BY <1>1
<1>3. \A k \in 1 .. l : Fine(c, ws[k], n) /\ ws[k].at # <<>> /\ Before(ws[k], w)
  BY DEF ArgsGood, WordGood, l
<1>4. \A k \in 1 .. l + 1 : Fine(c, vs[k], n) /\ vs[k].at # <<>>
  BY <1>1, <1>2, <1>3 DEF WordGood
<1>5. ASSUME NEW k \in 1 .. l + 1, NEW m \in 1 .. l + 1, k < m PROVE Before(vs[k], vs[m])
  <2>1. k \in 1 .. l /\ vs[k] = ws[k]
    BY <1>1, <1>5
  <2>2. CASE m = l + 1
    BY <1>1, <1>3, <2>1, <2>2
  <2>3. CASE m \in 1 .. l
    BY <1>1, <1>5, <2>1, <2>3 DEF ArgsGood, l
  <2>. QED BY <1>2, <2>2, <2>3
<1>6. ArgsGood(c, vs, n)
  BY <1>1, <1>4, <1>5 DEF ArgsGood
<1>7. WordGood(c, vs, e, n)
  <2>1. DOMAIN e.at = {}
    OBVIOUS
  <2>. QED BY <2>1 DEF WordGood, Fine, Before
<1>8. ASSUME AllRead(c, ws, w, n) PROVE AllRead(c, vs, e, n)
  <2> SUFFICES ASSUME NEW p \in 1 .. n PROVE LeftOut(c, p) \/ \E k \in 1 .. l + 1 : In(vs[k], p)
    BY <1>1 DEF AllRead
  <2>1. LeftOut(c, p) \/ In(w, p) \/ \E k \in 1 .. l : In(ws[k], p)
    BY <1>8 DEF AllRead, l
  <2>2. l + 1 \in 1 .. l + 1 /\ \A k \in 1 .. l : k \in 1 .. l + 1
    BY <1>1
  <2>. QED BY <1>1, <2>1, <2>2
<1>. QED BY <1>6, <1>7, <1>8 DEF vs

\* The next character is added to the word.
LEMMA ByteKeeps ==
  ASSUME NEW c, NEW ws, NEW w, NEW n \in Nat, ArgsGood(c, ws, n), WordGood(c, ws, w, n),
         c[n + 1] = Space => w.at = <<>> \/ QuotedIn(c, n + 1)
  PROVE  LET v == [w EXCEPT !.at = Append(w.at, n + 1)]
         IN  /\ v.block = w.block /\ WordGood(c, ws, v, n + 1)
             /\ AllRead(c, ws, w, n) => AllRead(c, ws, v, n + 1)
<1> DEFINE v == [w EXCEPT !.at = Append(w.at, n + 1)]
           l == Len(w.at)
<1>1. /\ v.at = Append(w.at, n + 1) /\ v.block = w.block /\ v \in Words
      /\ w.at \in Seq(Nat)
  <2>1. w \in Words /\ w.at \in Seq(Nat)
    BY DEF WordGood, Words
  <2>2. n + 1 \in Nat /\ Append(w.at, n + 1) \in Seq(Nat)
    BY <2>1
  <2>. QED BY <2>1, <2>2 DEF Words
<1>2. /\ l \in Nat /\ DOMAIN w.at = 1 .. l /\ DOMAIN v.at = 1 .. l + 1
      /\ v.at[l + 1] = n + 1 /\ \A a \in 1 .. l : v.at[a] = w.at[a]
  BY <1>1
<1>3. w.at = <<>> => l = 0
  BY <1>1
<1> HIDE DEF v, l
<1>4. \A a \in 1 .. l + 1 : a \in 1 .. l \/ a = l + 1
  BY <1>2
<1>5. Fine(c, w, n)
  BY DEF WordGood
<1>6. Fine(c, v, n + 1)
  <2>1. \A a \in 1 .. l + 1 : v.at[a] \in 1 .. n + 1
    BY <1>2, <1>4, <1>5 DEF Fine
  <2>2. ASSUME NEW a \in 1 .. l + 1, NEW b \in 1 .. l + 1, a < b PROVE v.at[a] < v.at[b]
    <3>0. a \in 1 .. l
      BY <1>2, <2>2
    <3>1. v.at[a] = w.at[a] /\ v.at[a] \in 1 .. n
      BY <1>2, <1>5, <3>0 DEF Fine
    <3>2. CASE b \in 1 .. l
      <4>1. w.at[a] < w.at[b]
        BY <1>2, <1>5, <2>2, <3>0, <3>2 DEF Fine
      <4>. QED BY <1>2, <3>1, <3>2, <4>1
    <3>3. CASE b = l + 1
      BY <1>2, <3>1, <3>3
    <3>. QED BY <1>4, <3>2, <3>3
  <2>3. ASSUME NEW a \in 1 .. l + 1, c[v.at[a]] = Space PROVE QuotedIn(c, v.at[a]) \/ a = 1
    <3>1. CASE a \in 1 .. l
      BY <1>2, <1>5, <2>3, <3>1 DEF Fine
    <3>2. CASE a = l + 1
      BY <1>2, <1>3, <2>3, <3>2
    <3>. QED BY <1>4, <3>1, <3>2
  <2>. QED BY <1>2, <2>1, <2>2, <2>3 DEF Fine
<1>7. ASSUME NEW k \in 1 .. Len(ws) PROVE Before(ws[k], v)
  <2>1. Before(ws[k], w) /\ Fine(c, ws[k], n)
    BY DEF ArgsGood, WordGood
  <2>2. ASSUME NEW a \in DOMAIN ws[k].at, NEW b \in 1 .. l + 1 PROVE ws[k].at[a] < v.at[b]
    <3>1. ws[k].at[a] \in 1 .. n
      BY <2>1 DEF Fine
    <3>2. CASE b \in 1 .. l
      BY <1>2, <2>1, <3>2 DEF Before
    <3>3. CASE b = l + 1
      BY <1>2, <3>1, <3>3
    <3>. QED BY <1>4, <3>2, <3>3
  <2>. QED BY <1>2, <2>2 DEF Before
<1>8. ASSUME AllRead(c, ws, w, n) PROVE AllRead(c, ws, v, n + 1)
  <2>1. ASSUME NEW p, In(w, p) PROVE In(v, p)
    <3>1. PICK a \in 1 .. l : p = w.at[a]
      BY <1>2, <2>1 DEF In, Range
    <3>2. a \in 1 .. l + 1 /\ v.at[a] = p
      BY <1>2, <3>1
    <3>. QED BY <1>2, <3>2 DEF In, Range
  <2>2. In(v, n + 1)
    <3>1. l + 1 \in 1 .. l + 1
      BY <1>2
    <3>. QED BY <1>2, <3>1 DEF In, Range
  <2>3. \A p \in 1 .. n + 1 : p \in 1 .. n \/ p = n + 1
    OBVIOUS
  <2>. QED BY <1>8, <2>1, <2>2, <2>3 DEF AllRead
<1>. QED BY <1>1, <1>6, <1>7, <1>8 DEF v, WordGood

USE DEF Run!None

LEMMA CommandTypes ==
  /\ \A c \in Command : c \in Seq(Range(c))
  /\ ListSize \in Nat \ {0} /\ Quote # Space
  BY ShellAssumption, SameRange DEF Run!ShellCommandAssumption

Parsed == <<command, read, inString, strings, args, word>>

LEMMA ReadStarts == Run!Init => ReadInv
<1> SUFFICES ASSUME Run!Init PROVE ReadInv
  OBVIOUS
<1>1. /\ command \in Command /\ read = 0 /\ inString = FALSE /\ args = <<>> /\ word = Run!NoWord
      /\ refused = FALSE
  BY DEF Run!Init
<1>2. command \in Seq(Range(command))
  BY <1>1, CommandTypes
<1>3. read \in 0 .. Len(command)
  <2>1. Len(command) \in Nat
    BY <1>2
  <2>. QED BY <1>1, <2>1
<1>4. ArgsGood(command, args, 0)
  BY <1>1 DEF ArgsGood
<1>5. WordGood(command, args, word, 0)
  BY <1>1, EmptyWord DEF WordGood, Fine, Before
<1>6. AllRead(command, args, word, 0)
  BY DEF AllRead
<1>. QED BY <1>1, <1>2, <1>3, <1>4, <1>5, <1>6, NoQuotes DEF ReadInv

\* Nothing is read.
LEMMA ReadStays ==
  ASSUME ReadInv, command' = command, read' = read, inString' = inString, args' = args, word' = word,
         refused' \in BOOLEAN, refused => refused'
  PROVE  ReadInv'
<1> QED BY DEF ReadInv

LEMMA ReadQuote == ReadInv /\ Run!ScanQuote => ReadInv'
<1> SUFFICES ASSUME ReadInv, Run!ScanQuote PROVE ReadInv'
  OBVIOUS
<1>1. /\ read < Len(command) /\ command[read + 1] = Quote /\ read' = read + 1 /\ inString' = ~inString
      /\ command' = command /\ args' = args /\ word' = word /\ refused' = refused
  BY DEF Run!ScanQuote
<1>2. read \in Nat /\ read + 1 \in 0 .. Len(command)
  BY <1>1 DEF ReadInv
<1>3. LeftOut(command, read + 1)
  BY <1>1 DEF LeftOut
<1>4. /\ ArgsGood(command, args, read + 1) /\ WordGood(command, args, word, read + 1)
      /\ ~refused => AllRead(command, args, word, read + 1)
  BY <1>2, <1>3, SkipKeeps DEF ReadInv
<1>5. inString' \in BOOLEAN /\ (inString' <=> QuotedIn(command, read + 1))
  BY <1>1, <1>2, QuotesCount DEF ReadInv
<1>. QED BY <1>1, <1>2, <1>4, <1>5 DEF ReadInv

\* The word that was read becomes an argument, or there is no memory for it.
LEMMA ReadPush ==
  ASSUME ReadInv, NEW n \in Nat, NEW to, Run!Push(to), word.at # <<>>,
         ArgsGood(command, args, n), WordGood(command, args, word, n),
         ~refused => AllRead(command, args, word, n)
  PROVE  /\ ArgsGood(command, args', n) /\ WordGood(command, args', word', n)
         /\ refused' \in BOOLEAN
         /\ ~refused' => AllRead(command, args', word', n)
<1>1. CASE args' = Append(args, word) /\ word' = Run!NoWord /\ refused' = refused
  <2>1. Run!NoWord \in Words /\ Run!NoWord.at = <<>>
    BY EmptyWord
  <2>2. /\ ArgsGood(command, Append(args, word), n) /\ WordGood(command, Append(args, word), Run!NoWord, n)
        /\ AllRead(command, args, word, n) => AllRead(command, Append(args, word), Run!NoWord, n)
    BY <2>1, PushKeeps
  <2>. QED BY <1>1, <2>2 DEF ReadInv
<1>2. CASE refused' = TRUE /\ args' = args /\ word' = word
  BY <1>2
<1>. QED BY <1>1, <1>2 DEF Run!Push

LEMMA ReadSplit == ReadInv /\ Run!ScanSplit => ReadInv'
<1> SUFFICES ASSUME ReadInv, Run!ScanSplit PROVE ReadInv'
  OBVIOUS
<1>1. /\ read < Len(command) /\ command[read + 1] = Space /\ word.at # <<>> /\ ~inString
      /\ read' = read + 1 /\ inString' = inString /\ command' = command /\ Run!Push("writer")
  BY DEF Run!ScanSplit, Run!Splits
<1>2. read \in Nat /\ read + 1 \in 0 .. Len(command)
  BY <1>1 DEF ReadInv
<1>3. inString' \in BOOLEAN /\ (inString' <=> QuotedIn(command, read + 1))
  <2>1. CASE command[read + 1] # Quote
    BY <1>1, <1>2, <2>1, QuotesCount DEF ReadInv
  <2>2. CASE command[read + 1] = Quote
    BY <1>1, <2>2, CommandTypes
  <2>. QED BY <2>1, <2>2
<1>4. LeftOut(command, read + 1)
  BY <1>1, <1>3 DEF LeftOut
<1>5. /\ ArgsGood(command, args, read + 1) /\ WordGood(command, args, word, read + 1)
      /\ ~refused => AllRead(command, args, word, read + 1)
  BY <1>2, <1>4, SkipKeeps DEF ReadInv
<1>6. /\ ArgsGood(command, args', read + 1) /\ WordGood(command, args', word', read + 1)
      /\ refused' \in BOOLEAN
      /\ ~refused' => AllRead(command, args', word', read + 1)
  BY <1>1, <1>2, <1>5, ReadPush
<1>. QED BY <1>1, <1>2, <1>3, <1>6 DEF ReadInv

LEMMA ReadByte == ReadInv /\ Run!ScanByte => ReadInv'
<1> SUFFICES ASSUME ReadInv, Run!ScanByte PROVE ReadInv'
  OBVIOUS
<1>1. /\ read < Len(command) /\ command[read + 1] # Quote /\ ~Run!Splits(command[read + 1])
      /\ read' = read + 1 /\ inString' = inString /\ command' = command /\ args' = args
  BY DEF Run!ScanByte
<1>2. read \in Nat /\ read + 1 \in 0 .. Len(command)
  BY <1>1 DEF ReadInv
<1>3. inString' \in BOOLEAN /\ (inString' <=> QuotedIn(command, read + 1))
  BY <1>1, <1>2, QuotesCount DEF ReadInv
<1>4. command[read + 1] = Space => word.at = <<>> \/ QuotedIn(command, read + 1)
  BY <1>1, <1>3 DEF Run!Splits
<1>5. ArgsGood(command, args, read) /\ WordGood(command, args, word, read)
  BY DEF ReadInv
<1>6. ArgsGood(command, args, read + 1) /\ WordGood(command, args, word, read + 1)
  BY <1>2, <1>5, SkipKeeps
<1>7. CASE word' = [word EXCEPT !.at = Append(word.at, read + 1)] /\ refused' = refused
  <2>1. /\ WordGood(command, args, word', read + 1)
        /\ AllRead(command, args, word, read) => AllRead(command, args, word', read + 1)
    BY <1>2, <1>4, <1>5, <1>7, ByteKeeps
  <2>. QED BY <1>1, <1>2, <1>3, <1>6, <1>7, <2>1 DEF ReadInv
<1>8. CASE refused' = TRUE /\ word' = word
  BY <1>1, <1>2, <1>3, <1>6, <1>8 DEF ReadInv
<1>. QED BY <1>7, <1>8 DEF Run!ScanByte

LEMMA ReadEnds == ReadInv /\ Run!EndOfLine => ReadInv'
<1> SUFFICES ASSUME ReadInv, Run!EndOfLine PROVE ReadInv'
  OBVIOUS
<1>1. read' = read /\ inString' = inString /\ command' = command
  BY DEF Run!EndOfLine
<1>2. /\ read \in Nat /\ ArgsGood(command, args, read) /\ WordGood(command, args, word, read)
      /\ ~refused => AllRead(command, args, word, read)
  BY DEF ReadInv
<1>3. CASE word.at # <<>>
  <2>1. Run!Push("parsed")
    BY <1>3 DEF Run!EndOfLine
  <2>2. /\ ArgsGood(command, args', read) /\ WordGood(command, args', word', read)
        /\ refused' \in BOOLEAN
        /\ ~refused' => AllRead(command, args', word', read)
    BY <1>2, <1>3, <2>1, ReadPush
  <2>. QED BY <1>1, <2>2 DEF ReadInv
<1>4. CASE word.at = <<>>
  <2>1. word' = Run!NoWord /\ args' = args /\ refused' = refused
    BY <1>4 DEF Run!EndOfLine
  <2>2. WordGood(command, args, word', read)
    BY <2>1, EmptyWord DEF WordGood, Fine, Before
  <2>3. AllRead(command, args, word, read) => AllRead(command, args, word', read)
    BY <1>4 DEF AllRead, In, Range
  <2>. QED BY <1>1, <1>2, <2>1, <2>2, <2>3 DEF ReadInv
<1>. QED BY <1>3, <1>4

LEMMA ReadWriter ==
  ASSUME ReadInv, Run!MakeWriter, word.at = <<>>, Run!Fresh \in Nat
  PROVE  ReadInv'
<1>1. read' = read /\ inString' = inString /\ command' = command /\ args' = args
  BY DEF Run!MakeWriter
<1>2. CASE refused' = TRUE /\ word' = word
  BY <1>1, <1>2, ReadStays DEF ReadInv
<1>3. CASE refused' = refused /\ word' = [block |-> Run!Fresh, at |-> <<>>]
  <2> DEFINE b == Run!Fresh
  <2>1. b \in Int
    OBVIOUS
  <2>2. word'.at = <<>> /\ word' \in Words
    <3>1. word' = [block |-> b, at |-> <<>>]
      BY <1>3
    <3> HIDE DEF b
    <3>. QED BY <2>1, <3>1 DEF Words
  <2>3. WordGood(command, args, word', read)
    BY <2>2 DEF WordGood, Fine, Before
  <2>4. AllRead(command, args, word, read) => AllRead(command, args, word', read)
    BY <2>2 DEF AllRead, In, Range
  <2>. QED BY <1>1, <1>3, <2>3, <2>4 DEF ReadInv
<1>. QED BY <1>2, <1>3 DEF Run!MakeWriter, Run!Take, Run!Refuse

-----------------------------------------------------------------------------
(* The blocks of a command *)

\* The blocks that are in use when the list is at s, the arguments are ws, the word that is
\* read is in b and the output in o
Held(s, ws, b, o) == {ws[k].block : k \in 1 .. Len(ws)} \cup ({s, b, o} \ {-1})
\* All are different and in use.
Apart(L, s, ws, b, o) ==
  /\ {s, b, o} \subseteq L \cup {-1}
  /\ s # -1 => s # b /\ s # o
  /\ b # -1 => b # o
  /\ \A k \in 1 .. Len(ws) : ws[k].block \in L \ {s, b, o}
  /\ \A k, m \in 1 .. Len(ws) : ws[k].block = ws[m].block => k = m

LEMMA TakeList ==
  ASSUME NEW L \in SUBSET Nat, NEW f \in Nat \ L, NEW ws, NEW b, NEW o, Apart(L, -1, ws, b, o)
  PROVE  Apart(L \cup {f}, f, ws, b, o) /\ Held(f, ws, b, o) = Held(-1, ws, b, o) \cup {f}
  BY DEF Apart, Held

LEMMA TakeWord ==
  ASSUME NEW L \in SUBSET Nat, NEW f \in Nat \ L, NEW s, NEW ws, NEW o, Apart(L, s, ws, -1, o)
  PROVE  Apart(L \cup {f}, s, ws, f, o) /\ Held(s, ws, f, o) = Held(s, ws, -1, o) \cup {f}
  BY DEF Apart, Held

LEMMA TakeOutput ==
  ASSUME NEW L \in SUBSET Nat, NEW f \in Nat \ L, NEW s, NEW ws, NEW b, Apart(L, s, ws, b, -1)
  PROVE  Apart(L \cup {f}, s, ws, b, f) /\ Held(s, ws, b, f) = Held(s, ws, b, -1) \cup {f}
  BY DEF Apart, Held

LEMMA GiveKeeps ==
  ASSUME NEW L \in SUBSET Nat, NEW s, NEW ws, NEW b, NEW o, Apart(L, s, ws, b, o)
  PROVE  /\ Apart(L \ {b}, s, ws, -1, o) /\ Held(s, ws, -1, o) = Held(s, ws, b, o) \ ({b} \ {-1})
         /\ Apart(L \ {o}, s, ws, b, -1) /\ Held(s, ws, b, -1) = Held(s, ws, b, o) \ ({o} \ {-1})
         /\ Apart(L, s, ws, b, -1)
<1>1. Apart(L \ {b}, s, ws, -1, o) /\ Apart(L \ {o}, s, ws, b, -1) /\ Apart(L, s, ws, b, -1)
  BY DEF Apart
<1>2. Held(s, ws, -1, o) = Held(s, ws, b, o) \ ({b} \ {-1})
  BY DEF Apart, Held
<1>3. Held(s, ws, b, -1) = Held(s, ws, b, o) \ ({o} \ {-1})
  BY DEF Apart, Held
<1>. QED BY <1>1, <1>2, <1>3

LEMMA PushHolds ==
  ASSUME NEW L \in SUBSET Nat, NEW s, NEW ws \in Seq(Words), NEW w \in Words, NEW o,
         Apart(L, s, ws, w.block, o), w.block \in L
  PROVE  /\ Apart(L, s, Append(ws, w), -1, o)
         /\ Held(s, Append(ws, w), -1, o) = Held(s, ws, w.block, o)
<1> DEFINE vs == Append(ws, w)
           l == Len(ws)
           b == w.block
<1>1. /\ Len(vs) = l + 1 /\ vs[l + 1] = w /\ l \in Nat
      /\ \A k \in 1 .. l : vs[k] = ws[k]
  OBVIOUS
<1> HIDE DEF vs, l
<1>2. /\ \A k \in 1 .. l + 1 : k \in 1 .. l \/ k = l + 1
      /\ \A k \in 1 .. l : k \in 1 .. l + 1
      /\ l + 1 \in 1 .. l + 1
  BY <1>1
<1>3. \A k \in 1 .. l : vs[k].block = ws[k].block
  BY <1>1
<1>4. vs[l + 1].block = b
  BY <1>1
<1> HIDE DEF b
<1>5. b # -1
  BY DEF b
<1>6. Apart(L, s, ws, b, o) /\ b \in L
  BY DEF b
<1>7. Apart(L, s, vs, -1, o)
  <2>1. \A k \in 1 .. l + 1 : vs[k].block \in L \ {s, -1, o}
    BY <1>1, <1>2, <1>3, <1>4, <1>5, <1>6 DEF Apart, l
  <2>2. \A k, m \in 1 .. l + 1 : vs[k].block = vs[m].block => k = m
    BY <1>1, <1>2, <1>3, <1>4, <1>5, <1>6 DEF Apart, l
  <2>. QED BY <1>1, <1>6, <2>1, <2>2 DEF Apart
<1>8. {vs[k].block : k \in 1 .. l + 1} = {ws[k].block : k \in 1 .. l} \cup {b}
  BY <1>2, <1>3, <1>4
<1>9. Held(s, vs, -1, o) = Held(s, ws, b, o)
  BY <1>1, <1>5, <1>8 DEF Held, l
<1>. QED BY <1>7, <1>9 DEF vs, b

Steps == {"list", "writer", "scan", "lost", "parsed", "run", "utc", "print", "open", "shell",
          "cleanup", "garbage", "done"}
\* While the app that was called has a block for what it prints
Called == {"utc", "print", "open", "shell"}
OwnInv ==
  /\ step \in Steps /\ live \in SUBSET Nat /\ IsFiniteSet(live) /\ wild \in BOOLEAN
  /\ step \in {"scan", "lost"} \/ (word.block = -1 /\ word.at = <<>>)
  /\ step \in {"scan", "lost"} => word.block \in live
  /\ step \in Called \/ printed = -1
  /\ step \in Called => printed \in live
  /\ step = "list" => strings = -1
  /\ step \in {"parsed", "run"} => read = Len(command)
  /\ step = "garbage" \/ wild => refused
  /\ step # "done" => Apart(live, strings, args, word.block, printed)
  /\ ~refused => live = left \cup IF step = "done" THEN {} ELSE Held(strings, args, word.block, printed)

\* What was left behind is apart from the rest, and left by a shell.
IsShell == Run!Known /\ AppOf[Run!App] = "shell"
LeftInv ==
  /\ left \in SUBSET live
  /\ left # {} => step \in {"shell", "cleanup", "done"}
  /\ left # {} \/ step \in {"open", "shell"} => IsShell
  /\ step # "done" => left \cap Held(strings, args, word.block, printed) = {}

CommandInv == ReadInv /\ OwnInv /\ LeftInv

\* Nothing is left behind before a shell is open.
LEMMA NothingLeft ==
  ASSUME LeftInv, step \notin {"shell", "cleanup", "done"}, left' = left
  PROVE  /\ left = {} /\ left' = {}
         /\ step' \notin {"open", "shell"} => LeftInv'
<1>1. left = {} /\ left' = {}
  BY DEF LeftInv
<1>. QED BY <1>1 DEF LeftInv

LEMMA OwnStarts == Run!Init => OwnInv /\ LeftInv
<1> SUFFICES ASSUME Run!Init PROVE OwnInv /\ LeftInv
  OBVIOUS
<1>1. /\ step = "list" /\ strings = -1 /\ args = <<>> /\ word.block = -1 /\ word.at = <<>> /\ printed = -1
      /\ live = {} /\ refused = FALSE /\ wild = FALSE /\ left = {}
  BY EmptyWord DEF Run!Init
<1>2. Apart(live, strings, args, word.block, printed)
  BY <1>1 DEF Apart
<1>3. Held(strings, args, word.block, printed) = {}
  <2>1. 1 .. Len(args) = {}
    BY <1>1
  <2>. QED BY <1>1, <2>1 DEF Held
<1>4. IsFiniteSet(live)
  BY <1>1, FS_EmptySet
<1>. QED BY <1>1, <1>2, <1>3, <1>4 DEF OwnInv, LeftInv, Steps, Called

\* A block is taken.
LEMMA TakesFresh ==
  ASSUME OwnInv, NEW to, Run!Take(to)
  PROVE  /\ live' = live \cup {Run!Fresh} /\ live' \in SUBSET Nat /\ IsFiniteSet(live')
         /\ Run!Fresh \in Nat \ live /\ step' = to /\ refused' = refused
<1>1. Run!Fresh \in Nat \ live
  BY FreshBlock DEF OwnInv
<1>2. live' = live \cup {Run!Fresh} /\ step' = to /\ refused' = refused
  BY DEF Run!Take
<1>3. IsFiniteSet(live \cup {Run!Fresh})
  BY FS_AddElement DEF OwnInv
<1>. QED BY <1>1, <1>2, <1>3 DEF OwnInv

LEMMA MakeListKeeps == CommandInv /\ Run!MakeList => CommandInv'
<1> SUFFICES ASSUME CommandInv, Run!MakeList PROVE CommandInv'
  OBVIOUS
<1>1. /\ step = "list" /\ command' = command /\ read' = read /\ inString' = inString /\ args' = args
      /\ word' = word /\ printed' = printed /\ wild' = wild /\ left' = left
  BY DEF Run!MakeList
<1>2. /\ strings = -1 /\ word.block = -1 /\ word.at = <<>> /\ printed = -1 /\ live \in SUBSET Nat
      /\ Apart(live, strings, args, word.block, printed)
      /\ ~refused => live = Held(strings, args, word.block, printed)
      /\ wild \in BOOLEAN /\ IsFiniteSet(live) /\ refused \in BOOLEAN /\ (wild => refused)
      /\ left = {} /\ left' = {}
      /\ step' \notin {"open", "shell"} => LeftInv'
  BY <1>1, NothingLeft DEF CommandInv, OwnInv, ReadInv, Called
<1>3. CASE Run!Take("writer") /\ strings' = Run!Fresh
  <2> DEFINE f == Run!Fresh
  <2>1. live' = live \cup {f} /\ live' \in SUBSET Nat /\ IsFiniteSet(live') /\ f \in Nat \ live
        /\ step' = "writer" /\ refused' = refused /\ strings' = f
    BY <1>3, TakesFresh DEF CommandInv
  <2> HIDE DEF f
  <2>2. Apart(live', f, args, word.block, printed)
        /\ Held(f, args, word.block, printed) = Held(strings, args, word.block, printed) \cup {f}
    <3> DEFINE e == word.block
    <3>1. Apart(live, -1, args, e, printed) /\ Held(-1, args, e, printed) = Held(strings, args, e, printed)
      BY <1>2
    <3> HIDE DEF e
    <3>2. Apart(live \cup {f}, f, args, e, printed)
          /\ Held(f, args, e, printed) = Held(-1, args, e, printed) \cup {f}
      <4>1. live \in SUBSET Nat /\ f \in Nat \ live
        BY <1>2, <2>1
      <4>2. Apart(live, -1, args, e, printed)
        BY <3>1
      <4>. QED BY ONLY <4>1, <4>2, TakeList
    <3>. QED BY <2>1, <3>1, <3>2 DEF e
  <2>3. OwnInv'
    BY <1>1, <1>2, <2>1, <2>2 DEF OwnInv, Steps, Called
  <2>. QED BY <1>1, <1>2, <2>1, <2>3, ReadStays DEF CommandInv, ReadInv
<1>4. CASE Run!Refuse("garbage") /\ strings' = strings
  <2>1. refused' = TRUE /\ step' = "garbage" /\ live' = live
    BY <1>4 DEF Run!Refuse
  <2>2. OwnInv'
    BY <1>1, <1>2, <1>4, <2>1 DEF OwnInv, Steps, Called
  <2>. QED BY <1>1, <1>2, <2>1, <2>2, ReadStays DEF CommandInv
<1>. QED BY <1>3, <1>4 DEF Run!MakeList

LEMMA MakeWriterKeeps == CommandInv /\ Run!MakeWriter => CommandInv'
<1> SUFFICES ASSUME CommandInv, Run!MakeWriter PROVE CommandInv'
  OBVIOUS
<1>1. step = "writer" /\ strings' = strings /\ args' = args /\ printed' = printed /\ wild' = wild /\ left' = left
  BY DEF Run!MakeWriter
<1>2. /\ word.block = -1 /\ word.at = <<>> /\ printed = -1 /\ live \in SUBSET Nat
      /\ Apart(live, strings, args, word.block, printed)
      /\ ~refused => live = Held(strings, args, word.block, printed)
      /\ wild \in BOOLEAN /\ IsFiniteSet(live) /\ (wild => refused)
      /\ left = {} /\ left' = {}
      /\ step' \notin {"open", "shell"} => LeftInv'
  BY <1>1, NothingLeft DEF CommandInv, OwnInv, Called
<1>3. Run!Fresh \in Nat
  BY FreshBlock DEF CommandInv, OwnInv
<1>4. ReadInv'
  BY <1>2, <1>3, ReadWriter DEF CommandInv
<1>5. CASE Run!Take("scan") /\ word' = [block |-> Run!Fresh, at |-> <<>>]
  <2> DEFINE f == Run!Fresh
  <2>1. live' = live \cup {f} /\ live' \in SUBSET Nat /\ IsFiniteSet(live') /\ f \in Nat \ live
        /\ step' = "scan" /\ refused' = refused /\ word'.block = f
    BY <1>5, TakesFresh DEF CommandInv
  <2> HIDE DEF f
  <2>0. Apart(live, strings, args, -1, printed) /\ Held(strings, args, -1, printed) = Held(strings, args, word.block, printed)
    BY <1>2
  <2>2. Apart(live \cup {f}, strings, args, f, printed)
        /\ Held(strings, args, f, printed) = Held(strings, args, -1, printed) \cup {f}
    <3>1. live \in SUBSET Nat /\ f \in Nat \ live
      BY <1>2, <2>1
    <3>. QED BY ONLY <2>0, <3>1, TakeWord
  <2>3. OwnInv'
    BY <1>1, <1>2, <2>0, <2>1, <2>2 DEF OwnInv, Steps, Called
  <2>. QED BY <1>2, <1>4, <2>1, <2>3 DEF CommandInv
<1>6. CASE Run!Refuse("garbage") /\ word' = word
  <2>1. refused' = TRUE /\ step' = "garbage" /\ live' = live
    BY <1>6 DEF Run!Refuse
  <2>2. OwnInv'
    BY <1>1, <1>2, <1>6, <2>1 DEF OwnInv, Steps, Called
  <2>. QED BY <1>2, <1>4, <2>1, <2>2 DEF CommandInv
<1>. QED BY <1>5, <1>6 DEF Run!MakeWriter

LEMMA PushOwns ==
  ASSUME CommandInv, step = "scan", NEW to \in {"writer", "parsed"}, Run!Push(to),
         live' = live, strings' = strings, printed' = printed, wild' = wild, left' = left,
         to = "parsed" => read' = Len(command')
  PROVE  OwnInv' /\ LeftInv'
<1>1. /\ word.block \in live /\ printed = -1 /\ live \in SUBSET Nat
      /\ Apart(live, strings, args, word.block, printed)
      /\ ~refused => live = Held(strings, args, word.block, printed)
      /\ wild \in BOOLEAN /\ IsFiniteSet(live) /\ (wild => refused)
      /\ args \in Seq(Words) /\ word \in Words
      /\ left = {} /\ left' = {}
      /\ step' \notin {"open", "shell"} => LeftInv'
  BY NothingLeft DEF CommandInv, OwnInv, ReadInv, ArgsGood, WordGood, Called
<1>2. CASE args' = Append(args, word) /\ word' = Run!NoWord /\ step' = to /\ refused' = refused
  <2>1. Apart(live, strings, args', -1, printed)
        /\ Held(strings, args', -1, printed) = Held(strings, args, word.block, printed)
    BY <1>1, <1>2, PushHolds
  <2>2. word'.block = -1 /\ word'.at = <<>>
    BY <1>2, EmptyWord
  <2>. QED BY <1>1, <1>2, <2>1, <2>2 DEF OwnInv, Steps, Called
<1>3. CASE step' = "lost" /\ refused' = TRUE /\ args' = args /\ word' = word
  BY <1>1, <1>3 DEF OwnInv, Steps, Called
<1>. QED BY <1>2, <1>3 DEF Run!Push

LEMMA ScanQuoteKeeps == CommandInv /\ Run!ScanQuote => CommandInv'
<1> SUFFICES ASSUME CommandInv, Run!ScanQuote PROVE CommandInv'
  OBVIOUS
<1>1. /\ step = "scan" /\ step' = step /\ strings' = strings /\ args' = args /\ word' = word
      /\ printed' = printed /\ live' = live /\ refused' = refused /\ wild' = wild /\ left' = left
  BY DEF Run!ScanQuote
<1>2. OwnInv' /\ LeftInv'
  BY <1>1, NothingLeft DEF CommandInv, OwnInv, Called
<1>. QED BY <1>2, ReadQuote DEF CommandInv

LEMMA ScanSplitKeeps == CommandInv /\ Run!ScanSplit => CommandInv'
<1> SUFFICES ASSUME CommandInv, Run!ScanSplit PROVE CommandInv'
  OBVIOUS
<1>1. /\ step = "scan" /\ Run!Push("writer") /\ live' = live /\ strings' = strings /\ printed' = printed /\ wild' = wild
      /\ left' = left
  BY DEF Run!ScanSplit
<1>2. OwnInv' /\ LeftInv'
  BY <1>1, PushOwns
<1>. QED BY <1>2, ReadSplit DEF CommandInv

LEMMA ScanByteKeeps == CommandInv /\ Run!ScanByte => CommandInv'
<1> SUFFICES ASSUME CommandInv, Run!ScanByte PROVE CommandInv'
  OBVIOUS
<1>1. /\ step = "scan" /\ step' = step /\ strings' = strings /\ args' = args
      /\ printed' = printed /\ live' = live /\ wild' = wild /\ left' = left
  BY DEF Run!ScanByte
<1>2. word'.block = word.block /\ (refused' = refused \/ refused' = TRUE)
  <2>1. word \in Words
    BY DEF CommandInv, ReadInv, WordGood
  <2>. QED BY <2>1 DEF Run!ScanByte, Words
<1>3. OwnInv' /\ LeftInv'
  BY <1>1, <1>2, NothingLeft DEF CommandInv, OwnInv, Steps, Called
<1>. QED BY <1>3, ReadByte DEF CommandInv

LEMMA EndOfLineKeeps == CommandInv /\ Run!EndOfLine => CommandInv'
<1> SUFFICES ASSUME CommandInv, Run!EndOfLine PROVE CommandInv'
  OBVIOUS
<1>1. /\ step = "scan" /\ strings' = strings /\ printed' = printed /\ wild' = wild /\ left' = left
      /\ read' = read /\ command' = command /\ read = Len(command)
  BY DEF Run!EndOfLine
<1>2. CASE word.at # <<>>
  <2>1. Run!Push("parsed") /\ live' = live
    BY <1>2 DEF Run!EndOfLine
  <2>2. OwnInv' /\ LeftInv'
    BY <1>1, <2>1, PushOwns
  <2>. QED BY <2>2, ReadEnds DEF CommandInv
<1>3. CASE word.at = <<>>
  <2>1. /\ live' = live \ {word.block} /\ word' = Run!NoWord /\ step' = "parsed"
        /\ args' = args /\ refused' = refused
    BY <1>3 DEF Run!EndOfLine
  <2>2. /\ word.block \in live /\ printed = -1 /\ live \in SUBSET Nat
        /\ Apart(live, strings, args, word.block, printed)
        /\ ~refused => live = Held(strings, args, word.block, printed)
        /\ wild \in BOOLEAN /\ IsFiniteSet(live) /\ (wild => refused)
        /\ left = {} /\ left' = {}
        /\ step' \notin {"open", "shell"} => LeftInv'
    BY <1>1, NothingLeft DEF CommandInv, OwnInv, Called
  <2>3. /\ Apart(live \ {word.block}, strings, args, -1, printed)
        /\ Held(strings, args, -1, printed) = Held(strings, args, word.block, printed) \ ({word.block} \ {-1})
    BY <2>2, GiveKeeps
  <2>4. word'.block = -1 /\ word'.at = <<>>
    BY <2>1, EmptyWord
  <2>5. IsFiniteSet(live')
    BY <2>1, <2>2, FS_RemoveElement
  <2>6. ~refused => live' = Held(strings, args, -1, printed)
    BY <2>1, <2>2, <2>3
  <2>7. OwnInv'
    BY <1>1, <2>1, <2>2, <2>3, <2>4, <2>5, <2>6 DEF OwnInv, Steps, Called
  <2>. QED BY <2>1, <2>2, <2>7, ReadEnds DEF CommandInv
<1>. QED BY <1>2, <1>3

\* Nothing is parsed any more.
LEMMA AfterParsing ==
  ASSUME CommandInv, UNCHANGED Parsed, refused' \in BOOLEAN, refused => refused'
  PROVE  /\ ReadInv' /\ strings' = strings /\ args' = args /\ word' = word /\ read' = read
         /\ command' = command
<1>1. /\ command' = command /\ read' = read /\ inString' = inString /\ strings' = strings
      /\ args' = args /\ word' = word
  BY DEF Parsed
<1>. QED BY <1>1, ReadStays DEF CommandInv

LEMMA LaterKeeps ==
  CommandInv /\ (Run!Parsed \/ Run!RunNothing \/ Run!RunSilent \/ Run!RunUtc \/ Run!CleanupGarbage) => CommandInv'
<1> SUFFICES ASSUME CommandInv, Run!Parsed \/ Run!RunNothing \/ Run!RunSilent \/ Run!RunUtc \/ Run!CleanupGarbage
             PROVE  CommandInv'
  OBVIOUS
<1>1. /\ UNCHANGED Parsed /\ live' = live /\ (refused' = refused \/ refused' = TRUE)
      /\ left' = left /\ step \notin {"shell", "cleanup", "done"}
      /\ step' \notin {"open", "shell"}
  BY DEF Parsed, Run!parsed, Run!Parsed, Run!RunNothing, Run!RunSilent, Run!RunUtc, Run!CleanupGarbage
<1>2. refused' \in BOOLEAN /\ (refused => refused')
  <2>1. refused \in BOOLEAN
    BY DEF CommandInv, ReadInv
  <2>2. CASE refused' = refused
    BY <2>1, <2>2
  <2>3. CASE refused' = TRUE
    BY <2>3
  <2>. QED BY <1>1, <2>2, <2>3
<1>3. /\ ReadInv' /\ strings' = strings /\ args' = args /\ word' = word /\ read' = read
      /\ command' = command
  BY <1>1, <1>2, AfterParsing
<1>4. LeftInv' /\ left = {} /\ left' = {}
  BY <1>1, NothingLeft DEF CommandInv
<1>5. CASE Run!Parsed
  <2>1. step = "parsed" /\ printed' = printed /\ wild' = wild
        /\ \/ step' = "garbage" /\ refused' = TRUE
           \/ step' = "run" /\ refused' = refused
    BY <1>5 DEF Run!Parsed
  <2>2. OwnInv'
    BY <1>1, <1>3, <1>4, <2>1 DEF CommandInv, OwnInv, Steps, Called
  <2>. QED BY <1>3, <1>4, <2>2 DEF CommandInv
<1>6. CASE Run!RunNothing \/ Run!RunSilent
  <2>1. step = "run" /\ printed' = printed /\ wild' = wild /\ step' = "cleanup"
    BY <1>6 DEF Run!RunNothing, Run!RunSilent
  <2>2. OwnInv'
    BY <1>1, <1>3, <1>4, <2>1 DEF CommandInv, OwnInv, Steps, Called
  <2>. QED BY <1>3, <1>4, <2>2 DEF CommandInv
<1>7. CASE Run!RunUtc
  <2>1. step = "utc" /\ wild' = wild
        /\ \/ step' = "print" /\ printed' = printed /\ refused' = refused
           \/ step' = "cleanup" /\ printed' = -1 /\ refused' = TRUE
    BY <1>7 DEF Run!RunUtc
  <2>2. Apart(live, strings, args, word.block, -1)
    BY <2>1, GiveKeeps DEF CommandInv, OwnInv, Called
  <2>3. OwnInv'
    BY <1>1, <1>3, <1>4, <2>1, <2>2 DEF CommandInv, OwnInv, Steps, Called
  <2>. QED BY <1>3, <1>4, <2>3 DEF CommandInv
<1>8. CASE Run!CleanupGarbage
  <2>1. step = "garbage" /\ step' = "done" /\ printed' = printed /\ wild' \in BOOLEAN /\ refused' = refused
    BY <1>8 DEF Run!CleanupGarbage
  <2>2. OwnInv'
    BY <1>1, <1>3, <1>4, <2>1 DEF CommandInv, OwnInv, Steps, Called
  <2>. QED BY <1>3, <1>4, <2>2 DEF CommandInv
<1>. QED BY <1>5, <1>6, <1>7, <1>8

LEMMA RunPrintsKeeps == CommandInv /\ Run!RunPrints => CommandInv'
<1> SUFFICES ASSUME CommandInv, Run!RunPrints PROVE CommandInv'
  OBVIOUS
<1> DEFINE f == Run!Fresh
<1>1. /\ step = "run" /\ UNCHANGED Parsed /\ wild' = wild /\ left' = left /\ printed' = f
      /\ \E to \in {"utc", "print"} : Run!Take(to)
  BY DEF Run!RunPrints, Parsed, Run!parsed
<1>2. live' = live \cup {f} /\ live' \in SUBSET Nat /\ IsFiniteSet(live') /\ f \in Nat \ live
      /\ step' \in {"utc", "print"} /\ refused' = refused
  BY <1>1, TakesFresh DEF CommandInv
<1> HIDE DEF f
<1>3. /\ word.block = -1 /\ word.at = <<>> /\ printed = -1 /\ live \in SUBSET Nat
      /\ Apart(live, strings, args, word.block, printed)
      /\ ~refused => live = Held(strings, args, word.block, printed)
      /\ wild \in BOOLEAN /\ IsFiniteSet(live) /\ (wild => refused) /\ refused \in BOOLEAN
      /\ left = {} /\ left' = {}
      /\ step' \notin {"open", "shell"} => LeftInv'
  BY <1>1, NothingLeft DEF CommandInv, OwnInv, ReadInv, Called
<1>4. /\ ReadInv' /\ strings' = strings /\ args' = args /\ word' = word /\ read' = read
      /\ command' = command
  BY <1>1, <1>2, <1>3, AfterParsing
<1>5. Apart(live', strings, args, -1, f)
      /\ Held(strings, args, -1, f) = Held(strings, args, word.block, printed) \cup {f}
  <2> DEFINE e == word.block
  <2>1. Apart(live, strings, args, e, -1) /\ Held(strings, args, e, -1) = Held(strings, args, e, printed) /\ e = -1
    BY <1>3
  <2> HIDE DEF e
  <2>2. Apart(live \cup {f}, strings, args, e, f)
        /\ Held(strings, args, e, f) = Held(strings, args, e, -1) \cup {f}
    <3>1. live \in SUBSET Nat /\ f \in Nat \ live
      BY <1>2, <1>3
    <3>. QED BY ONLY <2>1, <3>1, TakeOutput
  <2>. QED BY <1>2, <2>1, <2>2 DEF e
<1>6. OwnInv'
  BY <1>1, <1>2, <1>3, <1>4, <1>5 DEF OwnInv, Steps, Called
<1>. QED BY <1>2, <1>3, <1>4, <1>6 DEF CommandInv

LEMMA PrintOutKeeps == CommandInv /\ Run!PrintOut => CommandInv'
<1> SUFFICES ASSUME CommandInv, Run!PrintOut PROVE CommandInv'
  OBVIOUS
<1>1. /\ step = "print" /\ UNCHANGED Parsed /\ wild' = wild /\ left' = left /\ printed' = -1 /\ step' = "cleanup"
      /\ refused' = refused /\ live' = live \ {printed}
  BY DEF Run!PrintOut, Parsed, Run!parsed
<1>2. /\ word.block = -1 /\ word.at = <<>> /\ printed \in live /\ live \in SUBSET Nat
      /\ Apart(live, strings, args, word.block, printed)
      /\ ~refused => live = Held(strings, args, word.block, printed)
      /\ wild \in BOOLEAN /\ IsFiniteSet(live) /\ (wild => refused) /\ refused \in BOOLEAN
      /\ left = {} /\ left' = {}
      /\ step' \notin {"open", "shell"} => LeftInv'
  BY <1>1, NothingLeft DEF CommandInv, OwnInv, ReadInv, Called
<1>3. /\ ReadInv' /\ strings' = strings /\ args' = args /\ word' = word /\ read' = read
      /\ command' = command
  BY <1>1, <1>2, AfterParsing
<1>4. /\ Apart(live', strings, args, word.block, -1)
      /\ Held(strings, args, word.block, -1) = Held(strings, args, word.block, printed) \ ({printed} \ {-1})
  BY <1>1, <1>2, GiveKeeps
<1>5. IsFiniteSet(live')
  BY <1>1, <1>2, FS_RemoveElement
<1>6. ~refused => live' = Held(strings, args, word.block, -1)
  BY <1>1, <1>2, <1>4
<1>7. OwnInv'
  BY <1>1, <1>2, <1>3, <1>4, <1>5, <1>6 DEF OwnInv, Steps, Called
<1>. QED BY <1>1, <1>2, <1>3, <1>7 DEF CommandInv

\* The app is still the same.
LEMMA SameApp == UNCHANGED Parsed => IsShell' = IsShell
  BY DEF Parsed, IsShell, Run!Known, Run!App, Run!TextOf, Run!Registered

LEMMA RunShellKeeps == CommandInv /\ Run!RunShell => CommandInv'
<1> SUFFICES ASSUME CommandInv, Run!RunShell PROVE CommandInv'
  OBVIOUS
<1> DEFINE f == Run!Fresh
<1>1. /\ step = "run" /\ UNCHANGED Parsed /\ wild' = wild /\ left' = left /\ printed' = f
      /\ Run!Take("open") /\ IsShell
  BY DEF Run!RunShell, Parsed, Run!parsed, IsShell
<1>2. live' = live \cup {f} /\ live' \in SUBSET Nat /\ IsFiniteSet(live') /\ f \in Nat \ live
      /\ step' = "open" /\ refused' = refused
  BY <1>1, TakesFresh DEF CommandInv
<1> HIDE DEF f
<1>3. /\ word.block = -1 /\ word.at = <<>> /\ printed = -1 /\ live \in SUBSET Nat
      /\ Apart(live, strings, args, word.block, printed)
      /\ ~refused => live = Held(strings, args, word.block, printed)
      /\ wild \in BOOLEAN /\ IsFiniteSet(live) /\ (wild => refused) /\ refused \in BOOLEAN
      /\ left = {} /\ left' = {}
  BY <1>1, NothingLeft DEF CommandInv, OwnInv, ReadInv, Called
<1>4. /\ ReadInv' /\ strings' = strings /\ args' = args /\ word' = word /\ read' = read
      /\ command' = command /\ IsShell'
  BY <1>1, <1>2, <1>3, AfterParsing, SameApp
<1>5. Apart(live', strings, args, -1, f)
      /\ Held(strings, args, -1, f) = Held(strings, args, word.block, printed) \cup {f}
  <2> DEFINE e == word.block
  <2>1. Apart(live, strings, args, e, -1) /\ Held(strings, args, e, -1) = Held(strings, args, e, printed) /\ e = -1
    BY <1>3
  <2> HIDE DEF e
  <2>2. Apart(live \cup {f}, strings, args, e, f)
        /\ Held(strings, args, e, f) = Held(strings, args, e, -1) \cup {f}
    <3>1. live \in SUBSET Nat /\ f \in Nat \ live
      BY <1>2, <1>3
    <3>. QED BY ONLY <2>1, <3>1, TakeOutput
  <2>. QED BY <1>2, <2>1, <2>2 DEF e
<1>6. OwnInv'
  BY <1>1, <1>2, <1>3, <1>4, <1>5 DEF OwnInv, Steps, Called
<1>7. LeftInv'
  BY <1>2, <1>3, <1>4 DEF LeftInv
<1>. QED BY <1>4, <1>6, <1>7 DEF CommandInv

\* What is left behind is a block of its own.
LEMMA LeavesApart ==
  ASSUME NEW L \in SUBSET Nat, NEW f \in Nat \ L, NEW s, NEW ws, NEW b, NEW o, Apart(L, s, ws, b, o)
  PROVE  Apart(L \cup {f}, s, ws, b, o) /\ f \notin Held(s, ws, b, o)
  BY DEF Apart, Held

\* A shell keeps what is the command's.
LEMMA LeavesOwn ==
  ASSUME CommandInv, step \in {"open", "shell"}, step' = "shell", UNCHANGED Parsed, printed' = printed,
         refused' = refused \/ refused' = TRUE, wild' \in BOOLEAN, wild' => refused',
         Run!Leave \/ UNCHANGED <<live, left>>
  PROVE  CommandInv'
<1> DEFINE f == Run!Fresh  H == Held(strings, args, word.block, printed)
<1>1. /\ live \in SUBSET Nat /\ IsFiniteSet(live) /\ f \in Nat \ live /\ refused \in BOOLEAN
      /\ word.block = -1 /\ word.at = <<>> /\ printed \in live
      /\ Apart(live, strings, args, word.block, printed)
      /\ ~refused => live = left \cup H
      /\ left \in SUBSET live /\ left \cap H = {} /\ IsShell
  BY FreshBlock DEF CommandInv, OwnInv, ReadInv, LeftInv, Called
<1>2. refused' \in BOOLEAN /\ (refused => refused') /\ (~refused' => ~refused)
  <2>1. CASE refused' = refused
    BY <1>1, <2>1
  <2>2. CASE refused' = TRUE
    BY <2>2
  <2>. QED BY <2>1, <2>2
<1>3. /\ ReadInv' /\ strings' = strings /\ args' = args /\ word' = word /\ read' = read
      /\ command' = command /\ IsShell'
  BY <1>1, <1>2, AfterParsing, SameApp
<1>4. /\ Apart(live \cup {f}, strings, args, word.block, printed) /\ f \notin H
      /\ IsFiniteSet(live \cup {f})
  BY <1>1, LeavesApart, FS_AddElement
<1>5. /\ live' \in SUBSET Nat /\ IsFiniteSet(live') /\ left' \in SUBSET live'
      /\ Apart(live', strings, args, word.block, printed) /\ printed \in live'
      /\ left' \cap H = {}
      /\ ~refused' => live' = left' \cup H
  <2>1. CASE live' = live /\ left' = left
    BY <1>1, <1>2, <2>1
  <2>2. CASE live' = live \cup {f} /\ left' = left \cup {f}
    <3> HIDE DEF f, H
    <3>. QED BY <1>1, <1>2, <1>4, <2>2
  <2>. QED BY <2>1, <2>2 DEF Run!Leave
<1>6. OwnInv'
  BY <1>1, <1>2, <1>3, <1>5 DEF OwnInv, Steps, Called
<1>7. LeftInv'
  BY <1>3, <1>5 DEF LeftInv
<1>. QED BY <1>3, <1>6, <1>7 DEF CommandInv

\* A shell's part of the screen is given back.
LEMMA ClosesOwn ==
  ASSUME CommandInv, step \in {"open", "shell"}, step' = "cleanup", UNCHANGED Parsed, printed' = -1,
         live' = live \ {printed}, left' = left, wild' = wild,
         refused' = refused \/ refused' = TRUE
  PROVE  CommandInv'
<1> DEFINE H == Held(strings, args, word.block, printed)
           G == Held(strings, args, word.block, -1)
<1>1. /\ live \in SUBSET Nat /\ IsFiniteSet(live) /\ refused \in BOOLEAN
      /\ word.block = -1 /\ word.at = <<>> /\ printed \in live
      /\ Apart(live, strings, args, word.block, printed)
      /\ ~refused => live = left \cup H
      /\ left \in SUBSET live /\ left \cap H = {} /\ IsShell
      /\ wild \in BOOLEAN /\ (wild => refused)
  BY DEF CommandInv, OwnInv, ReadInv, LeftInv, Called
<1>2. refused' \in BOOLEAN /\ (refused => refused') /\ (~refused' => ~refused)
  <2>1. CASE refused' = refused
    BY <1>1, <2>1
  <2>2. CASE refused' = TRUE
    BY <2>2
  <2>. QED BY <2>1, <2>2
<1>3. /\ ReadInv' /\ strings' = strings /\ args' = args /\ word' = word /\ read' = read
      /\ command' = command /\ IsShell'
  BY <1>1, <1>2, AfterParsing, SameApp
<1>4. Apart(live \ {printed}, strings, args, word.block, -1) /\ G = H \ ({printed} \ {-1})
  BY <1>1, GiveKeeps
<1>5. IsFiniteSet(live \ {printed}) /\ printed \in H
  BY <1>1, FS_RemoveElement DEF Held
<1>6. left \in SUBSET live' /\ left \cap G = {} /\ (~refused' => live' = left \cup G)
  <2> HIDE DEF H, G
  <2>. QED BY <1>1, <1>2, <1>4, <1>5
<1>7. OwnInv'
  BY <1>1, <1>2, <1>3, <1>4, <1>5, <1>6 DEF OwnInv, Steps, Called
<1>8. LeftInv'
  BY <1>1, <1>3, <1>6 DEF LeftInv
<1>. QED BY <1>3, <1>7, <1>8 DEF CommandInv

LEMMA ShellStepsKeep == CommandInv /\ (Run!OpenShell \/ Run!InnerLine \/ Run!CloseShell) => CommandInv'
<1> SUFFICES ASSUME CommandInv, Run!OpenShell \/ Run!InnerLine \/ Run!CloseShell PROVE CommandInv'
  OBVIOUS
<1>1. wild \in BOOLEAN /\ (wild => refused)
  BY DEF CommandInv, OwnInv
<1>2. CASE Run!OpenShell
  <2>1. step = "open" /\ UNCHANGED Parsed /\ wild' = wild
    BY <1>2 DEF Run!OpenShell, Parsed, Run!parsed
  <2>2. \/ step' = "shell" /\ Run!Leave /\ printed' = printed /\ refused' = refused
        \/ /\ step' = "cleanup" /\ live' = live \ {printed} /\ printed' = -1
           /\ refused' = TRUE /\ left' = left
    BY <1>2 DEF Run!OpenShell
  <2>3. CASE step' = "shell" /\ Run!Leave /\ printed' = printed /\ refused' = refused
    BY <1>1, <2>1, <2>3, LeavesOwn
  <2>4. CASE /\ step' = "cleanup" /\ live' = live \ {printed} /\ printed' = -1
             /\ refused' = TRUE /\ left' = left
    BY <2>1, <2>4, ClosesOwn
  <2>. QED BY <2>2, <2>3, <2>4
<1>3. CASE Run!InnerLine
  <2>1. step = "shell" /\ step' = "shell" /\ UNCHANGED Parsed /\ printed' = printed
    BY <1>3 DEF Run!InnerLine, Parsed, Run!parsed
  <2>2. Run!Leave \/ UNCHANGED <<live, left>>
    BY <1>3 DEF Run!InnerLine
  <2>3. /\ refused' = refused \/ refused' = TRUE
        /\ wild' \in BOOLEAN /\ (wild' => refused')
    BY <1>1, <1>3 DEF Run!InnerLine
  <2>. QED BY <2>1, <2>2, <2>3, LeavesOwn
<1>4. CASE Run!CloseShell
  <2>1. /\ step = "shell" /\ step' = "cleanup" /\ UNCHANGED Parsed /\ printed' = -1
        /\ live' = live \ {printed} /\ left' = left /\ wild' = wild /\ refused' = refused
    BY <1>4 DEF Run!CloseShell, Parsed, Run!parsed
  <2>. QED BY <2>1, ClosesOwn
<1>. QED BY <1>2, <1>3, <1>4

LEMMA CleanupKeeps == CommandInv /\ Run!Cleanup => CommandInv'
<1> SUFFICES ASSUME CommandInv, Run!Cleanup PROVE CommandInv'
  OBVIOUS
<1>1. /\ step = "cleanup" /\ UNCHANGED Parsed /\ wild' = wild /\ left' = left /\ printed' = printed /\ step' = "done"
      /\ refused' = refused /\ live' = live \ ({args[k].block : k \in DOMAIN args} \cup {strings})
  BY DEF Run!Cleanup, Parsed, Run!parsed
<1>2. /\ word.block = -1 /\ word.at = <<>> /\ printed = -1 /\ live \in SUBSET Nat
      /\ ~refused => live = left \cup Held(strings, args, word.block, printed)
      /\ left \in SUBSET live /\ left \cap Held(strings, args, word.block, printed) = {}
      /\ left # {} => IsShell
      /\ wild \in BOOLEAN /\ IsFiniteSet(live) /\ (wild => refused) /\ refused \in BOOLEAN
      /\ DOMAIN args = 1 .. Len(args)
  BY <1>1 DEF CommandInv, OwnInv, LeftInv, ReadInv, ArgsGood, Called
<1>3. /\ ReadInv' /\ strings' = strings /\ args' = args /\ word' = word /\ read' = read
      /\ command' = command /\ IsShell' = IsShell
  BY <1>1, <1>2, AfterParsing, SameApp
<1>4. /\ ~refused => live' = left
      /\ left \in SUBSET live'
  <2> DEFINE G == {args[k].block : k \in DOMAIN args} \cup {strings}
  <2>1. /\ Held(strings, args, word.block, printed) \subseteq G
        /\ G \ {-1} \subseteq Held(strings, args, word.block, printed)
    BY <1>2 DEF Held
  <2>2. -1 \notin live
    BY <1>2
  <2>3. live' = live \ G
    BY <1>1
  <2> HIDE DEF G
  <2>. QED BY <1>2, <2>1, <2>2, <2>3
<1>5. live' \in SUBSET Nat /\ IsFiniteSet(live')
  BY <1>1, <1>2, FS_Difference
<1>6. OwnInv'
  BY <1>1, <1>2, <1>3, <1>4, <1>5 DEF OwnInv, Steps, Called
<1>7. LeftInv'
  BY <1>1, <1>2, <1>3, <1>4 DEF LeftInv
<1>. QED BY <1>3, <1>6, <1>7 DEF CommandInv

LEMMA CommandStarts == Run!Init => CommandInv
  BY ReadStarts, OwnStarts DEF CommandInv

LEMMA CommandKeeps == CommandInv /\ [Run!Next]_commandVars => CommandInv'
<1> SUFFICES ASSUME CommandInv, [Run!Next]_commandVars PROVE CommandInv'
  OBVIOUS
<1>1. CASE commandVars' = commandVars
  <2>1. /\ step' = step /\ command' = command /\ read' = read /\ inString' = inString /\ strings' = strings
        /\ args' = args /\ word' = word /\ printed' = printed /\ live' = live /\ refused' = refused /\ wild' = wild
        /\ left' = left /\ UNCHANGED Parsed
    BY <1>1 DEF commandVars, Parsed
  <2>. QED BY <2>1, SameApp DEF CommandInv, ReadInv, OwnInv, LeftInv
<1>2. CASE Run!Next
  BY <1>2, MakeListKeeps, MakeWriterKeeps, ScanQuoteKeeps, ScanSplitKeeps, ScanByteKeeps, EndOfLineKeeps,
     LaterKeeps, RunPrintsKeeps, PrintOutKeeps, RunShellKeeps, ShellStepsKeep, CleanupKeeps DEF Run!Next
<1>. QED BY <1>1, <1>2

LEMMA CommandHolds == CommandInv => ArgumentsOwned
<1> SUFFICES ASSUME CommandInv PROVE ArgumentsOwned
  OBVIOUS
<1> USE DEF CommandInv
<1>1. DOMAIN args = 1 .. Len(args) /\ DOMAIN command = 1 .. Len(command)
  BY DEF ReadInv, ArgsGood
<1>2. \A k \in 1 .. Len(args) : Fine(command, args[k], read) /\ args[k].at # <<>>
  BY DEF ReadInv, ArgsGood
<1>3. \A p : Run!Quoted(p) <=> QuotedIn(command, p)
  BY SameSize DEF Run!Quoted, QuotedIn, Quotes
<1>4. Run!TypeOK
  <2>1. live \subseteq Nat /\ printed \in live \cup {-1} /\ left \subseteq live
    BY DEF OwnInv, LeftInv, Called
  <2>. QED BY <1>1, <1>2, <2>1 DEF ReadInv, Run!TypeOK
<1>5. ASSUME step = "run", ~refused
      PROVE  /\ Run!InOrder(args)
             /\ \A p \in DOMAIN command : \/ Run!Taken(p) \/ command[p] = Quote
                                          \/ command[p] = Space /\ ~Run!Quoted(p)
             /\ \A k \in DOMAIN args : \A a \in DOMAIN args[k].at :
                  LET p == args[k].at[a] IN command[p] = Space => Run!Quoted(p) \/ a = 1
  <2>1. Run!InOrder(args)
    <3>1. \A k, m \in 1 .. Len(args) : k < m => Before(args[k], args[m])
      BY DEF ReadInv, ArgsGood
    <3>. QED BY <1>1, <1>2, <3>1 DEF Fine, Before, Run!InOrder
  <2>2. ASSUME NEW p \in DOMAIN command
        PROVE  Run!Taken(p) \/ command[p] = Quote \/ (command[p] = Space /\ ~Run!Quoted(p))
    <3>1. read = Len(command) /\ word.at = <<>> /\ AllRead(command, args, word, read)
      BY <1>5 DEF ReadInv, OwnInv
    <3>2. LeftOut(command, p) \/ In(word, p) \/ \E k \in 1 .. Len(args) : In(args[k], p)
      BY <1>1, <3>1 DEF AllRead
    <3>3. ~In(word, p)
      BY <3>1 DEF In, Range
    <3>4. (\E k \in 1 .. Len(args) : In(args[k], p)) => Run!Taken(p)
      BY <1>1, SameRange DEF Run!Taken, In
    <3>. QED BY <1>3, <3>2, <3>3, <3>4 DEF LeftOut
  <2>3. ASSUME NEW k \in DOMAIN args, NEW a \in DOMAIN args[k].at
        PROVE  LET p == args[k].at[a] IN command[p] = Space => Run!Quoted(p) \/ a = 1
    BY <1>1, <1>2, <1>3 DEF Fine
  <2>. QED BY <2>1, <2>2, <2>3
<1>6. Run!ArgumentsAreLine
  BY <1>5 DEF Run!ArgumentsAreLine
<1>7. Run!ArgumentsOwn
  <2> SUFFICES ASSUME step \notin {"done", "lost"}
               PROVE  /\ strings \in live \cup {-1}
                      /\ \A k \in DOMAIN args : args[k].block \in live \ ({strings, printed, word.block} \cup left)
                      /\ \A k, m \in DOMAIN args : args[k].block = args[m].block => k = m
    BY DEF Run!ArgumentsOwn
  <2>1. Apart(live, strings, args, word.block, printed) /\ left \cap Held(strings, args, word.block, printed) = {}
    BY DEF OwnInv, LeftInv
  <2>2. \A k \in 1 .. Len(args) : args[k].block \notin left
    BY <2>1 DEF Held
  <2>. QED BY <1>1, <2>1, <2>2 DEF Apart
<1>8. Run!AllReturned
  BY DEF OwnInv, LeftInv, IsShell, Run!AllReturned
<1>. QED BY <1>4, <1>6, <1>7, <1>8 DEF ArgumentsOwned

HIDE DEF Run!None

-----------------------------------------------------------------------------
(* The kernel's screen, the apps' parts of it and the commands together *)

ShellInv ==
  /\ VgaInv /\ CommandInv
  /\ task = "screen" => ScreenInv
  /\ task = "line" => LineInv

LEMMA StepOfTask ==
  [MCNext]_mcVars => /\ [Vga!Next]_vgaVars /\ [Run!Next]_commandVars /\ task' = task
                     /\ task = "screen" => [Shell!Next]_screenVars
                     /\ task = "line" => [Shell!ShellNext]_<<screenVars, lineVars>>
  BY DEF MCNext, mcVars

LEMMA ShellKeeps == ShellInv /\ [MCNext]_mcVars => ShellInv'
  BY StepOfTask, VgaKeeps, CommandKeeps, ScreenKeeps, LineKeeps DEF ShellInv

LEMMA ShellStarts == MCInit => ShellInv
<1> SUFFICES ASSUME MCInit PROVE ShellInv
  OBVIOUS
<1>1. VgaInv /\ CommandInv
  BY VgaStarts, CommandStarts DEF MCInit
<1>2. ASSUME task = "screen" PROVE ScreenInv
  <2>1. Shell!Given(Rect)
    BY <1>2 DEF MCInit, Shell!Init
  <2>. QED BY <2>1, AppTypes, GivenGood
<1>3. ASSUME task = "line" PROVE LineInv
  BY <1>3, LineStarts DEF MCInit
<1>. QED BY <1>1, <1>2, <1>3 DEF ShellInv

LEMMA ShellAlways == MCSpec => []ShellInv
  BY ShellStarts, ShellKeeps, PTL DEF MCSpec

\* RowsShown, for every size of the screen and part of it and every text that is printed: the
\* kernel's screen (vga_interface.h) and an app's buffer (kapp_screen.h) show the last rows of
\* all that was printed, over any number of wraps and scrolls; the cursor stays inside unless it
\* is moved off, and an app that does not own the whole screen never covers the header.
THEOREM RowsAreShown == MCSpec => []RowsShown
<1>1. ShellInv => RowsShown
  BY VgaHolds, ScreenHolds DEF ShellInv, RowsShown
<1>. QED BY <1>1, ShellAlways, PTL

\* LineShown, for every part of the screen, prompt, line and output of commands: after any keys,
\* the prompt and the line stand whole before the cursor while they leave a row of the part
\* free, although the shell (shell_main.h) only moves the cursor back and prints the line
\* again; and nothing is left after the cursor, however long the line was.
THEOREM LineIsShown == MCSpec => []LineShown
<1>1. ShellInv => LineShown
  BY LineHolds DEF ShellInv, LineShown
<1>. QED BY <1>1, ShellAlways, PTL

\* ArgumentsOwned, for every command, app and run of refused requests: the arguments that
\* args.h takes from a line are its words in their order, with what is quoted kept together,
\* each in a block of its own, and shell_main.h gives every block back exactly once, but for
\* the writer of each shell that the command runs, unless a request was refused on the way or
\* a quote was left open.
THEOREM ArgumentsAreOwned == MCSpec => []ArgumentsOwned
<1>1. ShellInv => ArgumentsOwned
  BY CommandHolds DEF ShellInv
<1>. QED BY <1>1, ShellAlways, PTL
=============================================================================
