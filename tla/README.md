# A verification of Wade32

Wade32 is a 32-bit x86 hobby operating system: a boot loader, a single-tasking
kernel with a timer, a keyboard, a cooperative event scheduler, a page and a heap
allocator, and a shell that runs built-in apps; `xstd/` is its standard library
(lists, hash maps, strings, writers, allocators). This directory holds TLA+
models of the parts whose behaviour is hard to test, the TLC configurations that
check them on small instances, and theorems about them checked by TLAPS.

    tlc -workers 2 -config MCScheduler.cfg MCScheduler.tla
    tlapm SchedulerProofs.tla

PROJECT.json lists every run, the source lines each definition models, the
mutant of the code each property is known to catch, the hazards of the code
and the theorems.

## Inventory of the system

| Part | State | Operations | Hard behaviour | What makes it correct | Modelled in |
|---|---|---|---|---|---|
| Scheduler (`kernel/scheduler.h`) | three arrays of 128 entries, `needDefrag`, the clock | `schedule`, `unschedule`, `scheduler_process` | the timer interrupt between the two loads of the clock, callbacks that schedule and unschedule during the pass, wrap of the 32-bit tick, arrays at their limit, marks that break the sort order | nothing fires early, twice or after it was withdrawn; everything due fires; routines do not drift; no overflow | `Scheduler`, `TimerService`, `Ranking` |
| Extended tick (`kernel/types/extended_tick.h`) | a pair of u32 | add, compare | wrap and carry | it counts | `ExTick` |
| Keyboard and input (`kernel/drivers/keyboard.h`, `kernel_process_keyboard.h`, `kernel_apps/shared/kapp_input.h`) | the driver's buffer, the table of listeners, one buffer for each app | IRQ1, delivery, request, remove, get key | interrupt against app, nested apps, buffers and table at their limit, listeners that outlive their buffer | keys arrive once, in order, at every app that listens | `Input` |
| Sleep (`kernel_apps/shared/kapp_sleep.h`) | a flag on the stack | `kapp_sleep_ticks` | wake-up by a callback | it returns, not early, and the flag is not written afterwards | `Sleep` |
| Page allocator (`kernel/kernel_page_allocator.h`) | a table of block descriptors | alloc, free, realloc | splitting, merging, exact fit, descriptors that run out or are stale, a table on the first page handed out | held blocks are apart, nothing is lost | `PageAllocator` |
| Heap allocator (`xstd/xstd_alloc_buffer.h`) | a list of blocks in a buffer | alloc, free, realloc | as above | as above | `BufferAllocator`, `Heap` |
| Debug allocator (`xstd/xstd_alloc_debug.h`) | counters around another allocator, a map of sizes | alloc, free, realloc | the map may have no memory, blocks counted twice | the count of bytes covers what is held | `DebugAllocator` |
| Arena (`xstd/xstd_alloc_arena.h`) | an offset | alloc, realloc, clear | growth at the end, sizes that wrap | held blocks are apart | `Arena` |
| Hash map (`xstd/xstd_hashmap.h`) | buckets of chains, a count | set, get, remove, for each | growth in mid-insertion, failing allocation | it is a dictionary | `HashMap`, `Dictionary` |
| List (`xstd/xstd_list.h`) | items, capacity | push, pop, get, set, clear | growth and shrink, failing allocation | it is a sequence | `List`, `ItemList` |
| Writers (`xstd/xstd_writer.h`) | a buffer and a head | write, resize | growth, texts that are written in part | what is written is kept in order, a string is terminated | `Writers` |
| Buffers (`xstd/xstd_buffer.h`) | bytes and a size | alloc, copy, dupe, equals, free | passed by value | the size is that of the bytes | `Buffers` |
| Strings (`xstd/xstd_string.h`) | a string in a buffer; the pieces of a call | copy, compare, find, trim, split, replace; numerals | overlapping occurrences, an allocation for each piece, signs and widths | searches agree, pieces give the string back, numbers are read as written | `Strings`, `Pieces`, `Numerals` |
| Math (`xstd/xstd_math.h`) | none | checked add, subtract, multiply, divide, power | overflow at every width | exact, or an error where it can be told | `Arithmetic` |
| Arguments (`kernel/types/args.h`) | a list of strings | parse | quotes, out of memory | the arguments are the line | `ShellCommand` |
| Shell and apps (`kernel_apps/`) | the line, the cursor | read a line, dispatch, run, clean up | nested shells, wraps and scrolls, cleanup after errors | what is typed is shown and run, a line gives back what it took | `Input`, `ShellLine`, `ShellCommand` |
| Screen (`vga_interface.h`, `drivers/vga.h`, `vga_graphics.h`, `kapp_screen.h`) | cells, cursor, an app's copy | print, scroll, move, flush | the cursor at the edges | the last rows of what was printed are shown | `Vga`, `KappScreen` |
| Time (`kernel/time.h`, `drivers/rtc_time.h`) | cached time, its tick | `time_utc`, conversions | a cache keyed by a wrapping tick, a clock read while it goes on | never torn, stale or going back | `Clock`, `TimeText` |
| Interrupts (`kernel/cpu/`) | handlers, gates, controllers | install, register, dispatch | handlers not registered yet, ends told to two controllers | each finds its gate and ends | `Boot` |
| Boot (`boot/`, `kernel/kernel.c`) | floppy drive, memory; where main is | load with retries; set up, call the shell, shut down | a drive that fails, the order of the setup against interrupts | the kernel is whole when it starts; the boot ends | `Loader`, `Boot` |

How they interact: one app runs at a time, called by the shell as a function
(`kapp_exec`), on one stack. It loops on `kernel_process()`, which disables
interrupts, hands the keys the driver buffered to the listeners of all the apps on
the stack, runs a pass of the scheduler with its callbacks, and sleeps in
`sti; hlt` until the next interrupt. The two interrupts, timer and keyboard, change
one thing each: the clock and the driver's buffer. So the concurrency of the
system is that of interrupts against one thread, and of callbacks against the
loop that calls them. Below it, pages are the heap's memory, the heap is wrapped by the
debug allocator (which keeps its sizes in a hash map), and everything that
allocates gets that allocator by pointer and may be refused.

## How the project is built

Each component has a module with its state and one action per operation. Where one
relies on what another promises, that promise is a module of its own:
`TimerService` (the scheduler implements it, `Sleep` is built on it), `Heap`,
`Dictionary`, `ItemList`. What an allocator may do to its user is a choice in the user's
actions: any request may be refused.

Four components are checked on their own (`MCScheduler`, `MCInput`,
`MCBufferAllocator`, `MCHashMap`). The other ones are checked in four groups:
`MCAllocators`, `MCLibrary`, `MCShell` and `MCKernel`. The parts of a group share no
state, so a behaviour of the group is one of a single part: its variable `atWork` (`task` in
`MCShell`) says at the start which one it is and never changes, and the others keep their first
state. A property of the group is the conjunction of what must hold of its parts; nothing is
checked of a part while another one is at work but that it started well.
Deadlock checking is off in the groups: a part that models one call, a bounded number of
calls or a boot ends, and where it must get there a liveness property says so.

Proofs are in modules that extend the component's: `SchedulerProofs`, `RankingProofs`,
`InputProofs`, `BufferAllocatorProofs`, `HashMapProofs`, and `AllocatorProofs`, `LibraryProofs` and
`KernelProofs` for the groups: `MCAllocators`, `MCLibrary`, and `MCKernel` with `MCShell`.

What could follow: the files of the hosted library, and lists of pieces whose growth is refused.

## The scheduler

`Scheduler.tla` has one variable for each field of `kGlobal.scheduler` (array and
head become a sequence) and one for the clock; `pc` says where the one thread is.
An app's `schedule()` is two actions, because it copies a two-word clock with
interrupts enabled: `ScheduleBegin` loads one half (the order is the compiler's,
so either), `ScheduleEnd` the other and queues the entry. `Process` is the pass up
to the callbacks, one step because interrupts are disabled; each callback is
`InvokeCallback ... CallbackReturns`, and between them the callback may call
`schedule()` and `unschedule()` any number of times. `kernel_panic` is the `pc`
"panic", from which nothing moves.

`id`, `due` and `torn` in an entry, and `calls`, are history: they record the call
that made the entry, the exact tick it asked for, and whether the tick counter
wrapped during that call's copy of the clock. No guard reads `id`, `due` or `torn`;
`calls` only bounds the run. Two guards of the code are dead and have no action: lines
16-17 and 36-37 (the type invariant shows it for the first; the second is an
unset entry that is always later than the clock and so ends the loop before).
Nothing at this commit calls `unschedule()` or passes a null callback; both are
part of the scheduler's interface and are modelled.

`TimerService.tla` is the contract: a set of pending requests with exact
deadlines, some of the expired ones taken out together and served in order of
deadline, a routine pending again one interval after its deadline.
`MCScheduler!ImplementsTimerService` is the refinement.

| Run | Bounds | Shows |
|---|---|---|
| `MCScheduler.cfg` | counter of 4 values from 2 to 5 (one wrap), arrays of 2, 3 calls, intervals 1 and 2, one callback | invariants, the action property of the pass, the refinement |
| `SchedulerLiveness.cfg` | 2 calls, intervals 0 and 2, with a null callback | every event within the horizon is served |
| `SchedulerUnschedule.cfg` | as the first | finding: `unschedule()` misses the batch being served (doc, scheduler.h:213) |

Three calls and arrays of two are the least that overfill an array; two intervals
and a wrap make every order of timeouts and clock occur; the second cycle of the
counter is reached both by the clock and by timeouts. Deadlock checking is off: a
panic stops the kernel, and so does the horizon of the clock.

Fairness. The timer never stops (strong fairness of its interrupt: while interrupts
are disabled it stays pending in the controller, and they are enabled again at the
`hlt` of every pass; weak fairness would be lost between two passes), a running
`schedule()` goes on, every app goes back to `kernel_process()` (all of them
loop on it), callbacks return. Nothing is assumed of apps calling `schedule()` or
`unschedule()`.

Known deviations that no run shows:
- The check of the timeouts ends at the first entry that is not due, and an entry that
  `unschedule()` marked counts as such (scheduler.h:64): due entries behind it wait for
  the next pass, although the comment at line 66 says that "all following items will have
  a timeoutTick > tick".
- `schedule()` copies the two words of the clock with interrupts enabled (line 177): a
  wrap in between gives a timeout a whole cycle off. `NeverEarly` names these calls (`torn`).
- The buffer counts as full with entries that are marked and would leave it in the same
  pass (lines 98-99): a panic without need.

### Proofs

`SchedulerProofs.tla` proves, for every capacity, counter width, set of
callbacks and intervals and every bound, `Spec => []TypeOK`, `[]NeverEarly`,
`[]LiveSorted`, `[]InvalidFlagged` and `PassFiresAllDue`. The inductive invariant
`IInv` adds to these that the entries of buffer and queue keep a timeout not before
the deadline asked for (`DeadlinesKept`: without it the rearming of a routine could not
be shown to be in time) and what a `schedule()` call holds between its two loads
(`HalfRead`: the half it read belongs to a clock that was not later). The
argument about a pass, `ProcessEffect`, follows the code: the sorted buffer is a
permutation in order (`SortedProperties`), what is expired is a prefix, what
stays is a subsequence of what is left, so it is in order and later than the
clock. `RankingProofs` has the facts about sorting and filtering by index; that the pair
of counters counts and compares as a number is shown first.

`NoEntryTwice` is `Spec => []NoDuplicates`. Its invariant is `OneEntryPerCall`: the live entries
of buffer and queue have different `id`s, all of calls that were made, and an entry that waits
for its callback shares its `id` only with the rearmed entry of the same routine. `SchedulerImplementsService` is the refinement, step by
step: a call that queues an entry is a `Request`, a pass `Expire`s what it takes out and
a callback serves the first of it; each lemma compares the set of entries before
and after with what `TimerService` makes of the requests.

Assumptions: the counter has at least two values, the capacity is positive, the
intervals are u32, and the clock and every timeout stay below the last cycle
(`BoundAssumption`: 2^64 - 2^32 ticks in the kernel, where an unset entry's mark
would be a real time); the refinement also that `NoRequest` is not a time
(`NoRequestAssumption`). Model-checked only: the liveness property.

## Input

`Input.tla` has the driver's buffer (`driver`), the table of listeners (`listeners`,
`inputListenersHead` is its length) and the stack of running apps with their
`KappInputBuff` (`stack`: `buff` is `buff[0 .. buffHead - 1]`). `pc` is where the app on
top is. A listener points into a stack frame, so it holds the depth of that
frame; the frame of a slot that is no longer valid may be gone, and reading its
`id` (kapp_input.h:61) yields anything: `RemoveInputEvents` lets any set of the
free slots match. Ids come from a generator with a long period, here a counter.

| Action | Code |
|---|---|
| `KeyPress`, `OtherInterrupt` | IRQ1, and the interrupts that only end a `hlt`; they occur between any two steps of an app but `Yield` |
| `Yield` | `kernel_process()`: `keyboard_process()` with interrupts disabled, then `sti; hlt` |
| `RequestInputEvents`, `RemoveInputEvents` | the table of listeners; the latter with the return of the app |
| `GetKey`, `GetNoKey` | `kapp_input_get_key()` |
| `HandleKey`, `RunApp`, `Quit` | what the shell does with a key; apps that ask for no input are part of `HandleKey` |

The two kinds of app are the two callers of `kapp_request_input_events`: the shell
(also when run from a shell) and `kernel_hang_until_keypress()`, which ends by
shutting down or by returning. When the outer shell is left, the kernel goes on
yielding with an empty stack until its scheduled shutdown.

`presses`, `accepted` and an app's `got`, `since` and `overrun` are history: keys are
numbered as they are pressed, so that order and loss can be told. An outer shell
gets, when it has the processor again, the keys that were typed for an app it
ran: the code gives every key to every listener, and the properties say so.

| Run | Bounds | Shows |
|---|---|---|
| `MCInput.cfg` | all buffers and the table of 3, 8 keys, 5 requests | the invariants, `OwnSlotOnly`, no key left waiting (`EveryKeyHandled`), and `DeliveredOneByOne` (a batch is what one call of the callback for each key leaves) |

Three slots and five requests let slots be freed below the head, reused, and
the stack grow again; eight keys overflow the driver's buffer and an app's
buffer, more than once and with keys already read. Deadlock checking is off:
shutdown and panic are ends.

Fairness: the app's code goes on (`WF(Run)`), and an interrupt ends every `hlt`
(`WF(OtherInterrupt)`: the timer runs, and during a `hlt` interrupts are enabled). Nothing is
assumed of the user.

A known deviation that no run shows: the head of the table of listeners never goes
down, and once it has reached the limit every further request panics although slots are free
(kapp_input.h:20-21); `Input` has that panic.

### Proofs

`InputProofs.tla` proves for all sizes `TypeOK`, `SlotsAreLive`, `OwnSlotOnly`, `InOrder`
and `NothingMissed`. First `SInv`: the slots are used like a stack. Apps start and
end in last-in first-out order and the first free slot is taken, so when n apps
listen, the valid slots are the first n, slot i is the i-th app's (`SlotsFollowStack`), and the ids of
these apps differ. That is what makes the removal by id sound although it looks
at free slots too: the app that leaves owns slot n, the free slots, which may hold any
id, all come after it, and the search stops at the first match. Then `KInv`, about keys: what an app
has read, has waiting and what the driver holds, one after the other, is in
order, and complete while `overrun` is false; the batch that overfills a buffer
leaves exactly its last keys (`DeliveredProperties`).
`BatchIsOneByOne` shows what the model rests on, that a batch of keys is what one call of
the callback for each leaves (`DeliveredOneByOne`), by induction over the keys.
Model-checked only: `EveryKeyHandled` (liveness).

## The heap

`BufferAllocator.tla` has the list of blocks from `state->head` as a sequence
(`blocks`), what the last call returned (`ret`), and as history the pointers callers
hold with the size they asked for (`held`). Addresses count from the buffer's.
Callers free and reallocate what they hold, and nothing else: the code checks
neither. The list is walked by index; `Taken` is the split of a block,
`Freed` and `Coalesced` are the two loops of `__buffalloc_free`. `Coalesced` says what
the second loop makes of the list without a loop: each run of free neighbours
becomes one block. `CoalescedByLoop` compares it, in every reachable state and
for every block that could be freed, with the loop taken round by round.

`Heap.tla` is what the users of `Allocator` (xstd_alloc.h) rely on: regions
handed out are inside the memory, disjoint from all that others hold and at
least as large as asked; a region stays until it is freed or resized; a
reallocation that moves one finds a place for all that was in it; a failed call
changes nothing.

| Run | Bounds | Shows |
|---|---|---|
| `MCBufferAllocator.cfg` | the build's alignment and headers (16, 12, 12 bytes), a buffer of 212 bytes, misaligned by 4, sizes 0, 1, 20, 50 | `Tiling`, `HeldIsInUse`, `NoFreeNeighbours`, `CoalescedByLoop`, `RefusedOnlyWhenFull` and the refinement of `Heap` |

The buffer takes up to six of the smallest blocks; the three sizes give splits that
leave a block, splits whose rest is too small, exact fits, growth in place and
by moving, and gaps that only coalescing makes large enough. Addresses wrap in
the kernel at 2^32, here at 2^16.

### Proofs

`BufferAllocatorProofs.tla` proves for every alignment, header size, buffer and set
of sizes the invariants `TypeOK`, `Tiling`, `HeldIsInUse`, `NoFreeNeighbours`, the action
property `RefusedOnlyWhenFull`, and that the allocator implements `Heap`
(`HeapImplemented`). The assumption `NoOverflow` says that no caller asks for a size so
near the top of the word that its header overflows; without it (known deviation, xstd_alloc_buffer.h:50 and 137) a request
within 31 bytes of 2^32 is granted with a block of next to nothing. The inductive invariant `HInv` states `Tiling` with the
order of every pair of blocks (`Covers`), which is what the steps need, and not with what
only neighbours have. The lemmas follow the code: splitting,
marking, freeing and coalescing each preserve `Covers` and change the blocks in
use by one (`TakenProperties`, `FreedProperties`, `CoalescedProperties`); the pointers held
follow (`HoldingMatches`, `WithoutMatches`, `ResizedMatches`). `NoFitNoRoom` is the
argument that first fit refuses only when it must: a gap begins in some block,
that block is free, and because free memory is joined it is the whole gap.

`LoopJoinsRuns` is `Spec => []CoalescedByLoop`. The loop is a recursive function whose
value after each round (`LoopAt`) is: what is behind the place it has reached has been joined
into runs, what is before it is as it was. Only proved: `TypeOK`.

## The hash map

`HashMap.tla` has the fields of `HashMap` (xstd_hashmap.h): `count`, `buckets`, `size`. A
bucket, in the code a chain of entries, is a sequence with the first of the chain
first; `ret` is what the last call returned and what it handed to its callback.
`allocated` is history: the blocks of memory the map has, three for each entry
and one for the buckets. The allocator refuses whatever it likes. The hash is a
constant: any function from keys to numbers, so collisions are a choice of the
instance and the proofs hold for all.

| Action | Code |
|---|---|
| `Create`, `Deinit` | `hashmap_init()`, `hashmap_deinit()` |
| `Set` | `hashmap_set()`: growth when `Grows` (`__hashmap_rehash()`, whose loop is `Moved`), then `Put` (`__hashmap_set()`: overwrite, run out of memory, or link a new entry) |
| `Get`, `Remove`, `ForEach`, `SizeOf` | `hashmap_get()`, `hashmap_remove()`, `hashmap_for_each()`, `hashmap_size()` |

A failed insertion may have grown the map first: `Put` runs in the new buckets, in both
outcomes. `Moved` says what the loop of the rehash leaves without a loop: an entry
is linked in front of those that came to its bucket earlier, so every new
bucket has its entries in the reverse of the order in which the loop came by.
`MovedByLoop` compares it with the loop taken entry by entry.

`Dictionary.tla` is what callers rely on: a function from keys to values, in which a
call that finds no memory changes nothing and `hashmap_for_each` lists every entry
once in any order.

| Run | Bounds | Shows |
|---|---|---|
| `MCHashMap.cfg` | 4 keys of which two have one hash and a third meets them until the map has grown, 2 values, initial sizes 1 and 3 | `EntriesFound`, `NoLeak`, `LoadBounded`, `MovedByLoop` and the refinement of `Dictionary` |

From one bucket the map grows at the first, second and fourth entry, from three at the
third; removing and inserting again reaches every order of a chain that growth
can make. The kernel's initial size is 32, which only makes growth rarer.
`hashmap_set_str` and its like only wrap these calls. Calls with null arguments are
left out: no caller makes one.

### Proofs

`HashMapProofs.tla` proves for every hash function, set of keys and values and initial
size the invariants `TypeOK`, `EntriesFound`, `NoLeak` and `LoadBounded`, and that the map
implements `Dictionary` (`DictionaryImplemented`). The argument goes by the set of
entries: when every bucket holds only entries of its hashes and no key twice
(`Good`), the entries alone decide what a lookup finds (`LookupIsDict`), how many slots
there are (`SlotsCounted`) and what the loop over the buckets comes by
(`VisitedProperties`). Each call then changes that set as the dictionary would: the lemmas
on one bucket (`PrependedGood`, `OverwrittenGood`, `UnlinkedGood`), `BucketReplaced` that the
others do not matter, and `MovedGood` that growth keeps the set. The only
assumption is that the initial size is not 0. `LoopMovesEntries` is
`Spec => []MovedByLoop`: after k entries (`RehashAt`), each new bucket has those of the first k
that belong there, the last first. Only proved: `TypeOK`.

## The other allocators

Run: `MCAllocators.cfg`.

`PageAllocator.tla` has the table of block descriptors (`table`), some of them linked into
a list in the order of memory (`List`); addresses are numbers of pages. The loop that joins free
neighbours is a function from the number of its rounds (`Joined`), one `Round` each. What the code does with
a descriptor out of use is kept: `Seek` finds by address whatever entry of the table has it,
`Place` takes the first unused entry or none, and then the rest of a split block is
cut off the list (`lost`). `PagesTiled` says that the blocks of the list cover the pages
without gap or overlap through every split, join and move, `HeldApart` that no page
has two holders. Both hold until a block is handed out that fitted exactly
(`aliased`): the code returns it without marking it, and the run `pages_exact_fit`
shows a realloc that then grows into it. A search that finds a descriptor out of use
(`astray`) ends the behaviour there: the code goes on with a block it does not have.

The table is itself in that memory. `ALLOC_HEADER_PAGES` (kernel_page_allocator.h:38) is the size of the
state and the descriptors, 840 bytes in the kernel, rounded *down* to pages, which is 0: what is
handed out starts where the table stands, and page 0 is both. `StatePages` are the pages with a part of the
table, and a holder that writes to one of them (`Use`), or a realloc that copies a region there,
destroys the table. Nothing can be said of what the allocator does then: `table` becomes `<<>>`,
behaviours end, and every property of the blocks speaks of the time before. In the kernel that
time is short: the heap is the only caller (kernel.c:66) and gets page 0, and `buffer_allocator`
writes its first header over the allocator's state (kernel.c:69). Nothing calls the page
allocator again, so nobody notices. No line of the code or of a doc speaks of it, and so no run expects
it to be otherwise.

`DebugAllocator.tla` forwards to an allocator that may refuse, with a hash map that may find
no memory; the code ignores that error. `CountsCoverHeld` says that `activeBytes` never falls
below what is held nor below the map, so that no subtraction wraps, whatever was
missed, and is exact while nothing was (a realloc to 0 bytes, which leaves the entry of a freed
address, counts as a miss). `activeAllocs` is something else: a realloc counts as one more active
allocation and nothing is taken off for the block it got (xstd_alloc_debug.h:75), and a free
of the null pointer takes one off though no block goes (128-129). The history `surplus` counts the
blocks that realloc got: `activeAllocs` is what is held plus `surplus`, never more, and less
only after the null pointer was freed (`nullFreed`), when it may fall below what is held.

`Arena.tla` computes in words that wrap. `HeldApart` holds until a block was grown over the
ones behind it, which the run `arena_grown_over` shows: the end of the arena is compared with
the block's new size (xstd_alloc_arena.h:67). What blocks hold is not modelled; the code
does not copy it when a realloc moves a block (line 78).

Bounds: 5 pages and three callers that hold a region each are enough to split and to join on
both sides; with 3 descriptors they run out. The table of one byte (`HeaderSize`) is on page 0, as in the kernel. With pages of two bytes, sizes 1 and 3 come to one and
two pages; sizes 0 and 15 in a word of 16 come to no page, the second because the sum
wraps. An arena of 30 bytes, aligned or not, has room for four blocks; 44 and 63 in a word of 64
reach the sums that wrap. Callers and addresses are symmetric; no property tells them apart.

### Proofs

`AllocatorProofs.tla` proves `PagesTiled`, `HeldApart` and `CountsCoverHeld` for every number of pages,
descriptors, callers and calls, every set of sizes, and every word, alignment and buffer that meets
`AllocatorAssumption`. A step of the group is a step of one allocator (`StepOfParts`), and each has
its own invariant:
- `ArenaInv`: every block that is held lies between the arena's state and the offset, and until a block
  was grown over another, one of two blocks ends where or before the other begins.
- `DebugInv`: the count of bytes is at least the size of one set, `Cover`: the bytes that are held together
  with those the map still has; `Counted` is what is said of the count of blocks. `CountsCoverHeld` itself is not inductive, since a free subtracts what
  the map says and not what is held.
- `PageInv`: until the table is written over, the descriptors in use form chains in the order of memory, and the list is the one from
  descriptor 1 (`Sound`). While no descriptor was missing, every one in use is on it and it ends at
  the last page (`Covers`). Until a block was handed out twice, blocks do not overlap, what the
  callers hold are exactly the blocks that are not free, and no free block follows another (`Agrees`).
  `HeldApart` alone is not inductive: a free gives up the descriptor that the search by address finds,
  and that this is the caller's block, and no stale descriptor or neighbour without pages, is what
  `Agrees` and `Whole` in it are for.

Each operation on the table has a lemma that says which of these parts it keeps: splitting a
block, marking it free, growing it. The loop of `__page_alloc_free`
keeps the chain in each round and leaves no free neighbours behind it (`RoundsDone`); that it has been
around by the number of descriptors is a count of the blocks it removed or passed.

## The library

Run: `MCLibrary.cfg`.

`List.tla` has `_data` as a flag and the memory behind it, `_allocCnt` and `_itemCnt`. It
implements `ItemList` while no realloc fails (`Refines`), and it never shrinks at the call after
the one that grew it, or the other way round (`SettledAfterResize`). No call looks at what
realloc returned (xstd_list.h:137): with `MayFail` the list goes on with a null pointer, and
what it held is gone. That is part of the model, and the theorem `TypeCorrect` says
of it that counts and capacity stay in step.

`Writers.tla` is one module for the three writers, told apart by `kind` (the function in `_writer.write`). A text is written
one byte per action (`Step`), so an allocation may fail or the end be reached in the middle
of it. `HoldsWritten`: what was written stays in its place. `Terminated`: a string has its null
byte after every byte that was written. `StringOkWritesAll`: a string that reports no
error has written all; the other two drop the rest of a text at their end and
return no error (xstd_writer.h:270).

`Buffers.tla` has a buffer, a duplicate of it, and the bytes each has from the allocator.
Buffers are passed by value, so a copy cannot change the size, although the doc says the
destination is resized (xstd_buffer.h:153-154).

`Strings.tla` has one string in a buffer that is overwritten again and again: `string_copy`
measures what fits by the string that is there, so the buffer only becomes shorter
(`EndsInBuffer`). On each string reached this way the searches and comparisons are compared
with each other and with what they mean (`SearchesAgree`, `TrimsTheEnds`).
`Pieces.tla` adds the calls that take a string apart, each piece in an allocation
that may be refused: `SplitsApart` puts the pieces back together, `ReplacesAll` compares
the result with one computed from the leftmost occurrences that do not overlap.
Two things the code does and the model has: a refused copy of the replacement is dropped
and nobody hears of it (`skipped`; xstd_string.h:968), and a call that fails leaves the
pieces it made.

`Numerals.tla` and `Arithmetic.tla` are pure functions, checked at every argument of a word
of few bits: a behaviour is one call. A signed overflow, which is undefined in C, is a choice
between a build that wraps and one that leaves out a check which only such an overflow
makes true, or divides without the processor's division (`optimized`; build.bat compiles with -O3).

A function of `xstd_math.h` is of one of three kinds (`Kinds`). Those a macro makes for a type compute in
a second type and compare: for 8 and 16 bits that has twice the width (`double`). For `u32` and
`i32` the second type is `u64` and `i64`, and these are `u32` and `i32` in a 32-bit build
(xstd_core.h:36-39), which is the only one that build.bat makes: the comparison `res != (T)res` of the
functions at xstd_math.h:296-326 is never true there (`single`). Those of `u64` and `i64` foresee the overflow
themselves (`long`).

What the code does beside its docs is stated by the properties as what they except:
- no overflow is reported by the 32-bit functions of the 32-bit build: they return the result cut to the type, so
  `math_u32_add_nooverflow(U32_MAXVAL, 1)` is 0 with `ERR_OK`; the lowest `i32` divided by -1 stops the
  processor (`Fault`) or, in a build that negates, is itself;
- products of the widest signed type may overflow unnoticed (xstd_math.h:491), and powers of a
  negative base of that type are refused (line 537);
- a negative exponent is refused by the widest type, and for the other ones divides one by a power that may be
  zero (the processor stops, or the build compares instead and gives 0) or may have overflowed;
- numerals of values the type does not have are sometimes accepted (xstd_string.h:1366);
- numbers with 19 digits and a sign, or with 20, begin before their buffer (lines 1210 and 1245), which takes
  words of 64 bits: in the 32-bit build all fit;
- nobody looks whether the string of a number could be allocated (lines 1188, 1218, 1235 and 1254): when it
  was refused (`heap`) the digits are written through the null pointer, which is returned with `ERR_OK`, so that only
  who reads it sees it. What lies at address 0 is not modelled.
Left out is the most negative exponent.

Bounds: lists grow past their first size, up to 6 items, and shrink again; texts of one to
three bytes go into blocks that start at 1 to 3 bytes and double up to the 16 at which sizes
wrap; a writer takes nine bytes in a behaviour (`LengthBound`). Strings of up to three of three
characters have every prefix, suffix and occurrence; those taken apart have up to five of two
characters, and what is looked for up to three, so that occurrences overlap; the list of
their pieces, 16 long, never has to grow (for longer ones it is granted what it asks for). Words of 4 bits have every case of sign and overflow, and 7
bits make the largest signed number one digit shorter than the largest unsigned one, as
64 bits do.

### Proofs

`LibraryProofs.tla` proves for all items, sizes and requests `TypeOK` (also when reallocations
fail), `SettledAfterResize`, that no caller reads what it did not write (`NothingForeign`), and
that the list implements `ItemList` (`Refines`), the last two under the hypothesis `~MayFail`.
The invariant behind them says that there is a block and that the first `itemCnt` cells
were written; `KeptAll` is the fact about a resize, which `ShouldShrink` makes large
enough for what is kept.

Of the writers and buffers it proves `StorageHolds`, for every set of bytes, texts and sizes that
meets `StorageAssumption`. `WriterInv` adds to what the properties say that a string which no resize
filled has room for its terminator (`InBlock`); a block is doubled only when its size does not wrap,
which `WrapsOnce` turns into a bound. That two buffers are equal exactly when their bytes are
(`EqualBytes`) is about the loop of `buffer_equals`: `LoopExists` and `LoopStops` say that the recursive
function that describes it exists and ends at the first difference or at the last byte.

Of the calls on strings and numbers it proves `CallsExact`, for every alphabet, text, buffer, numeral
and number and for words of any number of bits above one. As no part shares state with another,
`CallsInv` is the conjunction of one invariant for each, which also holds of a part at rest:
- Strings (`StringsInv`: there is a terminator in the buffer). Every search is a loop that stops at the
  first index of a set (`SearchStops`) or, backwards, at the last one (`BackStops`); with that each call
  is characterised once (`FindIs`, `EndsWithIs`, `TrimIs`, ...).
- Pieces (`PiecesInv`). Of a split, the pieces so far and what was between them are the string up to
  `offset` (`Splitting`), with no separator left inside a piece. Of a replacement, the occurrences so far
  are the leftmost ones that do not overlap (`Chosen`), and the pieces are what the
  characters before `offset` become (`Images`). That `Leftmost` is well defined is part of it.
- Arithmetic. Nothing is remembered from call to call, so the proof is of one step
  (`ComputesExactly`): a result that is compared in a word twice as wide is exact or refused
  (`ComparedIs`), one that is compared in a word of its own width is cut to the type (`SingleIs`), sums of
  the widest type are checked before they are computed (`LongSums`), its products
  by dividing them back (`ProductDivided`, `LongProducts`), and once a power leaves its type it does not come
  back (`PowersEscape`).
- Numerals. `Makes` is what digits make, one more at a time: as long as that is a number of the type no
  sum before it wraps (`AccumulatedIs`). The digits that are written make the number (`DigitsOfIs`) and are
  as many as its size says (`LengthIs`), which decides whether they fit into the buffer. `Room` is known by
  what it is for: the largest signed number has at most that many digits, the largest unsigned one at most
  one more (`NumeralsAssumption`; 19 and 20 in the code).
The functions by which the models describe loops are shown to exist with `CourseExists`; sizes of
words are powers by multiplication (`Powers.tla`), about which `PowerRound` and `PowerSum` say what is needed.

## The screen and the shell

Run: `MCShell.cfg`.

`Vga.tla` has the cells, the cursor of the kernel's `VgaInterface` and the hardware's.
History is a roll of `paper` on which all is printed by row and column, and the row at the top
of the screen: `ShowsLastRows` says that the screen shows that part of the paper, over
wraps, returns, scrolls, and the header that is drawn over the first row. The
hardware's cursor follows until a 0 is printed as a number: the early return for it leaves
the updates off (vga_interface.h:144). `KappScreen.tla` has an app's part of the screen, which it
prints into and copies to the screen, in the same way; coordinates are bytes that wrap, since
moving back past the first cell does that.

`ShellLine.tla` extends it with the loop of the shell: each key rewrites the line, after
moving back over what it showed before. `LineShown` says that the user sees the prompt and the line
whole before the cursor while they leave one row of the shell's part free, and
`BlankAfterCursor` that nothing is left behind it. Two histories mark where the first of these ends:
- `long`: the free row was needed. The part scrolls, and the cursor cannot be moved back beyond its
  first cell: the next key prints the line from where it came to a stop
  (shell_main.h:189-192), so a longer line is not seen whole, and neither is what stays of it after it
  was shortened. The model goes on there, with the cursor off the part and wrapped (`astray`);
  `BlankAfterCursor` holds all the same.
- `marred`: Backspace before the first key prints the line's memory that nobody wrote yet (`Junk`;
  line 195): it then stands between prompt and line, and the line alone is seen whole.
Enter as the first key takes that memory as a command (line 162).

`ShellCommand.tla` follows a line from `args_parse` to the cleanup, with a heap of blocks that may
refuse any request. `ArgumentsOwned` says that the arguments are the characters of the line in order,
without the quotes and the spaces that split it, each in a block of its own, and that the line gives back
all it took, with one exception: one of the registered apps is the shell itself (kapps_reg.h:24-25), and
`kapp_shell` never frees the string of the writer it takes for its line (`gsw`, shell_main.h:117; the end at lines
201-212 frees its part of the screen only). So each shell that is left, and each one run from it, leaves
a block behind, on a line that met no error too. `RunShell`, `OpenShell`, `InnerLine` and `CloseShell` are that app, its lines
told apart by what they do to memory, and `left` the blocks it leaves: the property says that
nothing else is left, that only a shell leaves any, and that the arguments of the outer
line stay whole meanwhile, unless a line of the inner shell frees what was never its own. When a line cannot be parsed (a request was refused, a quote is open), the cleanup
loops over arguments that were never set, and what it frees is anybody's (`wild`;
shell_main.h:75).

Bounds: a screen of three rows of two cells and parts of up to four cells wrap and scroll at almost every
character; with a prompt of one character, lines of up to six on a part of three rows of two wrap
three times, are too long from the fourth character on, and scroll four rows
(`ShellScrollBound`). Commands are
all lines of up to five of two letters, a space and a quote; the names that have apps are chosen
so that each kind of app, `quit`, and unknown names occur; the shells
that a line runs leave up to three blocks behind (`ShellBound`), one that ends and two of its lines.

### Proofs

`KernelProofs.tla` also proves, of the group `MCShell` and for every value of its constants, `RowsShown`,
`LineShown` and `ArgumentsOwned`.
- `VgaInv` and `ScreenInv`: each cell is what the paper has at its place, nothing was printed below
  the last row (`PaperSeen`, without which a scroll could bring up something else than a blank row), and
  the cursor is inside; in an app's part, when it is not `astray`. One lemma for each character that is
  printed (`VgaPrints`, and `CharKeepsRows` of the app's part), carried over a text by induction on its length.
- `LineInv`: `ShowsLine` says where the prompt and the line stand in the buffer. It is not enough that
  they stand before the cursor: to print the line again from where it begins one must know that the
  cells behind it are blank (`Blanks`), and that holds also of a line that was too long, with the cursor anywhere.
  `RewriteBlanks`, `RewriteStands` and `RewriteShows` are about moving back n cells, which is exact or
  goes astray, and printing n cells again, with the scrolls this makes; `ErasedShows` about the blank
  that Backspace writes.
- `CommandInv`: `ReadInv` says that each character that was read is left out, in one finished argument
  or in the one that is being read, in ascending places, and `inString` that the quotes so far are
  odd; `OwnInv` that list, arguments, word and output have blocks of their own in the heap
  (`Apart`), and that without a refusal nothing else is in it but `left`; `LeftInv` that what a shell left
  behind is apart from all of these, so that the cleanup of the line does not free it.

The assumption is `ShellAssumption`, the conjunction of those of the four modules: a rectangle has a cell,
coordinates fit a byte, what is typed and printed are characters, a quote is not a space.

## The machine: loader, boot, time, sleep

Run: `MCKernel.cfg`.

`Loader.tla` is the loop of boot/boot.asm with its registers: `si` is the block, `di` the
segment, `bp` the attempts left. The BIOS may report an error at any read, and reads what
the address stands for. `LoadedInPlace`: the kernel starts only with all its blocks in place;
`SectorsExist`: each block has an address of its own that the floppy has, and four attempts. The
instance has 3 sectors, 2 heads and 3 cylinders (18, 2 and 80 in the code) and a kernel of
14 sectors, so that every carry of the address occurs.

`Boot.tla` is `kernel_main` in the order of its calls, the tables and controllers of cpu/isr.h, and
the keyboard with its port of one byte. The controllers, the lines and the keyboard are
external: a controller delivers what nothing in service holds back, and forgets its requests
when it is set up again. `InterruptsEnd`: interrupts are enabled only when there are gates, and
after each both controllers know that it ended. A key that is pressed before the
keyboard's handler is registered is acknowledged unread (kernel.c:84-110), and since the
controller raises no other line until its port is read, no key is ever heard again:
`HeardUnlessEarly` says that this is the only way to lose the keyboard, and the history variable
`early` marks it. Memory that no initializer fills is taken to be zero, as the loader's image
and the emulator leave it; kernel.c:42 says "We should zero out the BSS".
The instance has three keys, a shutdown after two ticks and the interrupts at the borders of
the two controllers: the first two and the last of the master, the first and another of the
slave.

`Clock.tla` has the real-time clock, which goes on while its registers are read one by one. Its
flag is set a `Margin` before it changes, in which all registers can be read: that is the chip's
promise (244 microseconds), and so are the seconds between changes. `NotTorn`, `Recent` and
`Monotonic` say that a time that is returned, read or kept for ten ticks, was shown, is at most a
second old and never goes back, over wraps of the tick counter. The kernel's header asks for
the time every 250 ms, which is the bound `MaxQuiet`: it must be less than half a wrap. The
instance has registers of two bits and three ticks to a second, which wrap every 16 ticks.

`TimeText.tla` is the conversions, on values where a field changes its width and on some that
no clock shows: `ReadsBack` and `Terminated` say that a text fills its buffer exactly and can be
read back; `LosesLessThanATick`.

`Sleep.tla` is built on `TimerService`, with a routine that is always pending. The callback gets the
address of a flag on the stack of the function that waits: `NoStrayFlag` says that it is written
only while that function waits, `NeverEarly` that a sleep is not too short but when the ticks
wrapped while it was scheduled.

Fairness, and why the code and the machine justify it:
- The loader's and main's next step, and those of `time_utc()` and of a sleeper, are weakly
  fair: a single thread goes on.
- The timer's line rises again and again, the clock goes on (weakly fair: nothing disables them).
- The delivery of the timer's and the keyboard's interrupt is strongly fair: interrupts are
  disabled in every pass, and a request waits in the controller until they are let through.
- Nothing is assumed of the user, the drive or other devices.

### Proofs

`KernelProofs.tla` proves, of the whole group and for every value of its constants, `BootInOrder`,
`TextsAndFlagsRight` and `TimeNeverWrong`. Each part has an invariant of its own, and a step of the
group is a step of one part that leaves the variables of the others alone (`StepOfParts`):
- `LoaderInv`: what is in memory, and that the block, the segment and the attempts belong together;
  `AddressOfBlock` is that a block's track, head and sector stand for that block alone.
- `BootInv`: the keyboard's line is up only with a byte in the port, each handler is registered for
  its own interrupt, and `kernel_main` is behind `isr_install` only with gates.
- `ClockInv`: registers that were read so far are those of one time, `ReadAt(now)`, or of the second
  before, and then the next one is at least a second less one tick away. Between two calls
  either nothing was read yet and the first difference of ticks is too large to be taken for a
  time that is kept, or (`KeptRight`) the time that is kept was the clock's `Age` ticks ago. `Age` wraps, so
  that needs `MaxQuiet`; that a kept time is at most one second old then follows from
  `Window < PerSecond` (10 of 100 ticks in the code). That registers make up the time they were read
  from (`ValueOfRegisters`) is an induction on their number.
- `TextInv`: a behaviour is one conversion. `ThereAndBack` is the arithmetic of a tick;
  `DigitsUnique`, `UintShape`, `PaddedTwo` and `TextOfDate` are what the digits of a date are.
- `SleepInv`: the request of the app that sleeps is the only one pending beside the routine, its
  callback comes only while the app waits, and after its time.

The assumptions are `KernelAssumption`, the conjunction of those of the five modules.

## What is proved and what is only checked

For every value of the constants that meets the named assumptions of the modules: the theorems
that PROJECT.json lists. They cover the invariants of the scheduler, input, heap, hash map, the other
allocators, the writers and buffers, strings and numbers, the screen and the shell, and the machine's
group, all of those that the runs check, the refinements of `TimerService`, `Heap`, `Dictionary` and
`ItemList`, and the action properties of the list's resizing, the listeners' slots, and the times that
are returned and slept. The types of the heap, hash map and list
are only proved and not part of a run.

No invariant of a run is only checked on its small instance. Liveness (`EventuallyServed`,
`EveryKeyHandled`, `EveryCallReturns`) and ENABLED are out of the prover's reach, and stay with TLC. The library's induction theorems have an operator as
parameter and cannot be used either, but the one on well-founded sets can be stated for a set:
`RankingProofs` gets `InductionUpTo` from it, and `CourseExists`, that a function
defined from its previous value exists. The loops of the code are written as such functions in all
the models, and proved with these two; no module has a RECURSIVE operator.

## Findings

Three runs expect a violation, each of what a doc or a comment says: `scheduler_unschedule`,
`pages_exact_fit` and `arena_grown_over`. The deviations the sections above describe without a
run are parts of the models, named by a history variable (`torn`, `aliased`, `astray`, `lost`,
`long`, `marred`, `missed`, `grownOver`, `cut`, `skipped`, `zeroPrinted`, `early`, `wild`) or by what a property
excepts.

## Not modelled

- Files and the interface to the hosting system (`xstd_file.h`, `xstd_io.h`, `xstd_os_int*.h`):
  wrappers of the C library that the kernel does not include.
- Processes (`types/process.h`, `switch_context.h`): types and a context switch that nothing
  uses at this commit.
- Floats in numerals and arithmetic, arithmetic that is not checked, and rectangles and vectors, which
  are types.
- Exceptions, which all end in a panic; the ports of the chips; the segments and the switch to
  protected mode; disk.asm and disk.h, which nothing uses.
- Styles and colours of the screen, and what the apps print.
- The stack canary, one word that is compared; a stack that overflows is not a state of the models.
- Calls with null arguments, which nobody makes.
