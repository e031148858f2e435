---------------------------- MODULE PageAllocator ----------------------------
(***************************************************************************)
(* kernel/kernel_page_allocator.h: a table of block descriptors, some of    *)
(* them linked into a list in the order of the memory.  Addresses are numbers *)
(* of pages from ALLOCABLE_START on, descriptors are their places in the       *)
(* table.  The table is in memory too: before the pages that are handed out,    *)
(* or in part on the first of them, as its size is rounded down to pages.       *)
(***************************************************************************)
EXTENDS Naturals, Sequences, FiniteSets, FiniteSetsExt

CONSTANTS
  Pages,       \* ALLOCABLE_PAGES
  Descriptors, \* ALLOC_BLOCK_COUNT
  PageSize,    \* PAGE_SIZE
  HeaderSize,  \* ALLOC_HEADER_SIZE: the state and the table
  Word,        \* 2^32
  Caller, Size,
  Null

VARIABLES
  table,    \* the descriptors 0 .. blockCount - 1, in places 1 .. blockCount; << >>
            \* when the memory they stand in was overwritten
  held,     \* what each caller got and did not give back: at most one region
  aliased,  \* history: a block was handed out that is still marked free, or has no page
  astray,   \* history: a search by address found a descriptor that is out of use
  lost,     \* history: a block was split with no descriptor left for its rest
  ret       \* what the last call returned

vars == <<table, held, aliased, astray, lost, ret>>

PageAssumption ==
  /\ Pages \in Nat \ {0} /\ Descriptors \in Nat \ {0}
  /\ PageSize \in Nat \ {0} /\ Word \in Nat \ {0} /\ Size \subseteq Nat
  /\ HeaderSize \in Nat
  /\ Null \notin Nat /\ Null \notin [ptr : Nat, pages : Nat]

Descriptor == [next : 0 .. Descriptors, start : Nat, pages : Nat,
               free : BOOLEAN, valid : BOOLEAN]

PagesFromSize(n) == ((n + PageSize - 1) % Word) \div PageSize

\* ALLOC_HEADER_PAGES, and the pages from ALLOCABLE_START on that have a part of the state
\* and the table. A header of 840 bytes has no page of 4096 of its own: all of it is on page
\* 0, which is handed out first.
HeaderPages == HeaderSize \div PageSize
StatePages == {p \in 0 .. Pages - 1 : (HeaderPages + p) * PageSize < HeaderSize}

\* Writing to n pages from page ptr on destroys the table: it is whatever was written.
Destroys(ptr, n) == (ptr .. ptr + n - 1) \cap StatePages # {}

\* The descriptors in the order of the list: its head is descriptor 1, always, and 0
\* is behind the last one.
Behind(t, i) == IF i = 0 THEN 0 ELSE t[i].next

List(t) ==
  LET at[n \in 0 .. Len(t)] == IF n = 0 THEN 1 ELSE Behind(t, at[n - 1])
      size == CHOOSE n \in 1 .. Len(t) : at[n - 1] # 0 /\ at[n] = 0
  IN  [n \in 1 .. size |-> at[n - 1]]

Init ==
  /\ table = <<[next |-> 0, start |-> 0, pages |-> Pages, free |-> TRUE, valid |-> TRUE]>>
  /\ held = [c \in Caller |-> Null]
  /\ aliased = FALSE /\ astray = FALSE /\ lost = FALSE
  /\ ret = Null

\* __page_alloc_seek_block: 0 when no descriptor starts there.  It does not ask
\* whether the descriptor is valid.
Seek(t, ptr) ==
  LET at == {i \in DOMAIN t : t[i].start = ptr} IN IF at = {} THEN 0 ELSE Min(at)

\* What is remembered of a search for a block that is held.
Search(i) == astray' = (astray \/ i = 0 \/ ~table[i].valid)

\* __page_alloc_write_block: where a new descriptor goes, 0 when nowhere.
Place(t) ==
  LET unused == {i \in DOMAIN t : ~t[i].valid}
  IN  IF unused # {} THEN Min(unused) ELSE IF Len(t) < Descriptors THEN Len(t) + 1 ELSE 0

Fits(t, i, pages) == t[i].free /\ t[i].pages >= pages

\* Mutant: the part that is handed out is not marked.
SplitUnmarked(t, i, pages) ==
  LET k    == Place(t)
      rest == [t[i] EXCEPT !.start = @ + pages, !.pages = @ - pages, !.free = TRUE]
      cut  == [t EXCEPT ![i].pages = pages, ![i].next = k]
  IN  IF k = 0 THEN cut ELSE IF k > Len(t) THEN Append(cut, rest) ELSE [cut EXCEPT ![k] = rest]

\* The first pages of block i are taken.  With no descriptor for its rest the list
\* ends here: next becomes null, and the link of the null descriptor is written
\* to address 0.
Split(t, i, pages) ==
  LET k    == Place(t)
      rest == [t[i] EXCEPT !.start = @ + pages, !.pages = @ - pages, !.free = TRUE]
      cut  == [t EXCEPT ![i].pages = pages, ![i].free = FALSE, ![i].next = k]
  IN  IF k = 0 THEN cut ELSE IF k > Len(t) THEN Append(cut, rest) ELSE [cut EXCEPT ![k] = rest]

\* __page_alloc_alloc on the table t: the place in the list of the first block that
\* fits, 0 when there is none.
FirstFit(t, pages) ==
  LET l    == List(t)
      fits == {k \in DOMAIN l : Fits(t, l[k], pages)}
  IN  IF fits = {} THEN 0 ELSE l[Min(fits)]

\* A block that fits exactly is returned as it is.
Taken(t, i, pages) == IF t[i].pages > pages THEN Split(t, i, pages) ELSE t

\* What caller c gets, and what is remembered of it.
Give(c, i, pages) ==
  /\ table' = Taken(table, i, pages)
  /\ held' = [held EXCEPT ![c] = [ptr |-> table[i].start, pages |-> pages]]
  /\ aliased' = (aliased \/ table[i].pages = pages \/ pages = 0)
  /\ lost' = (lost \/ (table[i].pages > pages /\ Place(table) = 0))
  /\ ret' = table[i].start

Refuse == ret' = Null /\ UNCHANGED <<table, held, aliased, lost>>

Alloc(c, n) ==
  LET i == FirstFit(table, PagesFromSize(n))
  IN  /\ held[c] = Null
      /\ UNCHANGED astray
      /\ IF i = 0 THEN Refuse ELSE Give(c, i, PagesFromSize(n))

Joinable(t, i, j) == t[i].free /\ t[j].free /\ t[i].start + t[i].pages = t[j].start

Absorbed(t, i, j) ==
  [t EXCEPT ![i].pages = @ + t[j].pages, ![j].valid = FALSE, ![i].next = t[j].next]

\* Mutant: the loop goes on to the next block after it has joined two.
RoundSkips(s) ==
  LET t == s.table  i == s.at  j == Behind(t, i)
  IN  IF j = 0 THEN s
      ELSE IF Joinable(t, i, j) THEN [table |-> Absorbed(t, i, j), at |-> t[j].next]
      ELSE [s EXCEPT !.at = j]

\* One round of the loop of __page_alloc_free, which is at block s.at of the list.
Round(s) ==
  LET t == s.table  i == s.at  j == Behind(t, i)
  IN  IF j = 0 THEN s
      ELSE IF Joinable(t, i, j) THEN [s EXCEPT !.table = Absorbed(t, i, j)]
      ELSE [s EXCEPT !.at = j]

\* Each round removes a block or leaves one behind, so that there are no more rounds
\* than descriptors.
Joined(t) ==
  LET after[n \in 0 .. Len(t)] ==
        IF n = 0 THEN [table |-> t, at |-> 1] ELSE Round(after[n - 1])
  IN  after[Len(t)].table

\* __page_alloc_free on the table t
Freed(t, ptr) ==
  LET i == Seek(t, ptr) IN IF i = 0 THEN t ELSE Joined([t EXCEPT ![i].free = TRUE])

Free(c) ==
  /\ held[c] # Null
  /\ table' = Freed(table, held[c].ptr)
  /\ held' = [held EXCEPT ![c] = Null]
  /\ ret' = Null
  /\ Search(Seek(table, held[c].ptr))
  /\ UNCHANGED <<aliased, lost>>

\* Block i takes pages from the free block behind it.
Grown(t, i, diff) ==
  LET j == t[i].next
  IN  IF t[j].pages > diff
      THEN [t EXCEPT ![i].pages = @ + diff, ![j].pages = @ - diff, ![j].start = @ + diff]
      ELSE [t EXCEPT ![i].pages = @ + diff, ![i].next = t[j].next, ![j].valid = FALSE]

CanGrow(t, i, pages) ==
  t[i].next # 0 /\ t[t[i].next].free /\ t[t[i].next].pages >= pages - t[i].pages

\* __page_alloc_realloc of the region of caller c. A region that moves is copied before it
\* is freed.
Realloc(c, n) ==
  LET pages == PagesFromSize(n)
      i     == Seek(table, held[c].ptr)
      k     == FirstFit(table, pages)
  IN  /\ held[c] # Null /\ n > 0
      /\ Search(i)
      /\ \/ i = 0 /\ Refuse
         \/ /\ i # 0 /\ pages <= table[i].pages
            /\ ret' = held[c].ptr
            /\ UNCHANGED <<table, held, aliased, lost>>
         \/ /\ i # 0 /\ pages > table[i].pages /\ CanGrow(table, i, pages)
            /\ table' = Grown(table, i, pages - table[i].pages)
            /\ held' = [held EXCEPT ![c].pages = pages]
            /\ ret' = held[c].ptr
            /\ UNCHANGED <<aliased, lost>>
         \/ /\ i # 0 /\ pages > table[i].pages /\ ~CanGrow(table, i, pages) /\ k = 0
            /\ Refuse
         \/ /\ i # 0 /\ pages > table[i].pages /\ ~CanGrow(table, i, pages) /\ k # 0
            /\ table' = IF Destroys(table[k].start, table[i].pages) THEN <<>>
                        ELSE Freed(Taken(table, k, pages), held[c].ptr)
            /\ held' = [held EXCEPT ![c] = [ptr |-> table[k].start, pages |-> pages]]
            /\ aliased' = (aliased \/ table[k].pages = pages)
            /\ lost' = (lost \/ (table[k].pages > pages /\ Place(table) = 0))
            /\ ret' = table[k].start

\* A caller writes to the memory it got, with the allocator's state in it.
Use(c) ==
  /\ held[c] # Null /\ Destroys(held[c].ptr, held[c].pages)
  /\ table' = <<>>
  /\ UNCHANGED <<held, aliased, astray, lost, ret>>

\* realloc of a null pointer, and to size 0, are the other two calls.  Behaviours are
\* followed up to the first search that goes astray: what the code then writes into
\* a descriptor out of use can make the list a circle; and until the table is destroyed.
Next == /\ ~astray /\ table # <<>>
        /\ \/ \E c \in Caller, n \in Size : Alloc(c, n) \/ Realloc(c, n)
           \/ \E c \in Caller : Free(c) \/ Use(c)

Spec == Init /\ [][Next]_vars

-----------------------------------------------------------------------------
(* Properties *)

TypeOK ==
  /\ table \in Seq(Descriptor) /\ Len(table) <= Descriptors
  /\ \A c \in Caller : held[c] # Null => held[c].ptr \in 0 .. Pages - 1
  /\ ret = Null \/ ret \in 0 .. Pages - 1

\* No block was handed out that fitted exactly or had no page, no search went astray,
\* and the table was not overwritten.
Intact == ~aliased /\ ~astray /\ table # <<>>

\* The blocks of the list follow one another without gap or overlap from the first
\* page to the last, until a split found no descriptor: from then on to some page.
\* That holds even when a block was handed out twice.
Tiling ==
  ~astray /\ table # <<>> =>
    LET l == List(table)
    IN
      /\ table[1].start = 0
      /\ \A k \in 1 .. Len(l) - 1 : table[l[k]].start + table[l[k]].pages = table[l[k + 1]].start
      /\ table[l[Len(l)]].start + table[l[Len(l)]].pages <= Pages
      /\ ~lost => table[l[Len(l)]].start + table[l[Len(l)]].pages = Pages
      /\ ~lost => {i \in DOMAIN table : table[i].valid} = {l[k] : k \in DOMAIN l}

HeldBy(c) == held[c].ptr .. held[c].ptr + held[c].pages - 1

Holders == {c \in Caller : held[c] # Null}

\* While intact, a page that is held is one of the allocator's, in a block that is not free,
\* and has one holder.
HeldApart ==
  Intact =>
    /\ \A c \in Holders : HeldBy(c) \subseteq 0 .. Pages - 1
    /\ \A c, d \in Holders : c # d => HeldBy(c) \cap HeldBy(d) = {}
    /\ \A c \in Holders : \E i \in DOMAIN table :
         table[i].valid /\ ~table[i].free /\ table[i].start = held[c].ptr
                        /\ table[i].pages >= held[c].pages

\* Freed neighbours are one block again.
NoFreeNeighbours ==
  Intact => LET l == List(table)
              IN  \A k \in 1 .. Len(l) - 1 : ~(table[l[k]].free /\ table[l[k + 1]].free)

Room(pages) ==
  \E p \in 0 .. Pages - pages : \A c \in Holders : p .. p + pages - 1 \cap HeldBy(c) = {}

\* A request for pages that stand free in a row is not refused.
RoomIsFound ==
  Intact /\ ~lost =>
    \A pages \in 1 .. Pages : Room(pages) => FirstFit(table, pages) # 0

\* kernel_page_allocator.h:188 grows a region in place when there are "enough free
\* pages" behind it: nobody holds those.
GrowsIntoFree ==
  [][\A c \in Holders :
       held'[c] # Null /\ held'[c].ptr = held[c].ptr /\ held'[c].pages > held[c].pages
         => \A d \in Holders \ {c} : HeldBy(c)' \cap HeldBy(d) \subseteq HeldBy(c)]_vars
=============================================================================
