------------------------------- MODULE MCInput -------------------------------
(***************************************************************************)
(* Small instances of Input, and what the source says of it.                *)
(***************************************************************************)
EXTENDS Input

\* What one call of __kapp_keypress_callback for each of the keys ks leaves of a buffer.
OneByOne(buff, ks) ==
  LET after[k \in 0 .. Len(ks)] == IF k = 0 THEN buff ELSE KeypressCallback(after[k - 1], ks[k])
  IN  after[Len(ks)]

\* The buffers an app can end up with by one call of the callback for each key
\* are those the hand-over of a whole batch of keys leaves.
DeliveredOneByOne ==
  \A d \in DOMAIN stack : Delivered(stack[d].buff, driver) = OneByOne(stack[d].buff, driver)
=============================================================================
