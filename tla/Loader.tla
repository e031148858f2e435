------------------------------- MODULE Loader -------------------------------
(***************************************************************************)
(* boot/boot.asm: the kernel is read from the floppy one sector at a time, each at  *)
(* the cylinder, head and sector that its block number stands for, and again after    *)
(* a reset of the drive when the BIOS reports an error.                       *)
(***************************************************************************)
EXTENDS Integers

CONSTANTS
  SectorsPerTrack, NumHeads, Cylinders,  \* the floppy
  KernelSectors,                         \* the size of the kernel
  DiskRetries                            \* DISK_RETRIES

LbaStart == 1
LbaEnd == LbaStart + KernelSectors
Paragraphs == 32     \* of 16 bytes, in a sector
LoadSegment == 2016  \* KERNEL_ABS_ADDR >> 4

LoaderAssumption ==
  /\ SectorsPerTrack \in 1 .. 62 /\ NumHeads \in 1 .. 255 /\ Cylinders \in 1 .. 1024
  /\ KernelSectors \in Nat /\ LbaEnd <= SectorsPerTrack * NumHeads * Cylinders
  /\ DiskRetries \in Nat

VARIABLES
  state,   \* "check", "read", "loaded" or "error"
  si,      \* the block that is read
  di,      \* the segment it goes to
  bp,      \* the attempts that are left
  memory,  \* which block each segment holds; 0 is none
  tried,   \* history: the attempts for this block
  strayed  \* history: a sector was asked for that the floppy does not have

loaderVars == <<state, si, di, bp, memory, tried, strayed>>

Segments == {LoadSegment + Paragraphs * k : k \in 0 .. KernelSectors}

\* lba_to_chs, with the two highest bits of the cylinder beside the sector
LbaToChs(lba) ==
  [s |-> (lba % SectorsPerTrack) + 1,
   h |-> (lba \div SectorsPerTrack) % NumHeads,
   c |-> (lba \div SectorsPerTrack) \div NumHeads]

\* The block the BIOS reads for an address
OnFloppy(chs) == chs.s \in 1 .. SectorsPerTrack /\ chs.h < NumHeads /\ chs.c < Cylinders
BlockAt(chs) == (chs.c * NumHeads + chs.h) * SectorsPerTrack + chs.s - 1

LoaderInit ==
  /\ state = "check" /\ si = LbaStart /\ di = LoadSegment /\ bp = 0
  /\ memory = [g \in Segments |-> 0] /\ tried = 0 /\ strayed = FALSE

\* .chk_for_last_lba and the start of .read_sector_loop
CheckLast ==
  /\ state = "check"
  /\ \/ si < LbaEnd /\ state' = "read" /\ bp' = DiskRetries
     \/ si >= LbaEnd /\ state' = "loaded" /\ UNCHANGED bp
  /\ tried' = 0 /\ UNCHANGED <<si, di, memory, strayed>>

\* .retry and .success
ReadSector ==
  /\ state = "read" /\ OnFloppy(LbaToChs(si))
  /\ memory' = [memory EXCEPT ![di] = BlockAt(LbaToChs(si))]
  /\ di' = di + Paragraphs /\ si' = si + 1 /\ state' = "check"
  /\ tried' = tried + 1 /\ UNCHANGED <<bp, strayed>>

\* .disk_error, after an error of the drive or of the address
DiskError ==
  /\ state = "read" /\ tried' = tried + 1 /\ strayed' = (strayed \/ ~OnFloppy(LbaToChs(si)))
  /\ bp' = bp - 1 /\ state' = (IF bp - 1 >= 0 THEN "read" ELSE "error")
  /\ UNCHANGED <<si, di, memory>>

LoaderNext == CheckLast \/ ReadSector \/ DiskError

LoaderSpec == LoaderInit /\ [][LoaderNext]_loaderVars /\ WF_loaderVars(LoaderNext)

-----------------------------------------------------------------------------
(* Properties *)

\* The kernel starts only when each of its blocks is in its place, behind the one before it.
LoadedInPlace ==
  state = "loaded" =>
    \A k \in 0 .. KernelSectors - 1 : memory[LoadSegment + Paragraphs * k] = LbaStart + k

\* No sector is asked for that the floppy does not have, none of the blocks has the address
\* of another one, and a block is tried once and again as often as DISK_RETRIES says.
SectorsExist ==
  /\ ~strayed /\ tried <= DiskRetries + 1
  /\ state = "read" => BlockAt(LbaToChs(si)) = si

\* The loader ends, however often the drive fails.
LoaderEnds == state = "check" ~> state \in {"loaded", "error"}
=============================================================================
