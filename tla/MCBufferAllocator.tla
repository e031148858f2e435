--------------------------- MODULE MCBufferAllocator ---------------------------
(***************************************************************************)
(* Small instances of BufferAllocator.                                      *)
(***************************************************************************)
EXTENDS BufferAllocator

\* One round of the loop at line 91: the last block of the list so far takes in
\* the next one, or is left behind.
Join(bs, b) ==
  LET n == Len(bs)
  IN  IF n > 0 /\ bs[n].free /\ b.free /\ bs[n].addr + bs[n].size = b.addr
      THEN [bs EXCEPT ![n].size = @ + b.size]
      ELSE Append(bs, b)

\* What the loop makes of the list bs, block by block.
JoinedOneByOne(bs) ==
  LET made[k \in 0 .. Len(bs)] == IF k = 0 THEN <<>> ELSE Join(made[k - 1], bs[k])
  IN  made[Len(bs)]

\* The runs that Coalesced joins at once are those the loop joins block by block,
\* whichever block is freed.
CoalescedByLoop ==
  \A p \in DOMAIN held : Coalesced(Freed(blocks, p)) = JoinedOneByOne(Freed(blocks, p))
=============================================================================
