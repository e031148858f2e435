----------------------------- MODULE TimerService -----------------------------
(***************************************************************************)
(* What kernel/scheduler.h promises its callers, without its three arrays, *)
(* its sort and its marks: a set of pending requests with deadlines, some   *)
(* of which a pass takes out together and serves one after the other.       *)
(***************************************************************************)
EXTENDS Naturals, FiniteSets, Sequences

CONSTANTS
  Word,       \* number of values of the 32-bit tick counter
  Callback,   \* what a request calls
  Interval,   \* the delays callers ask for
  MaxCalls,   \* bound: requests in a behaviour
  Start,      \* the time at which the service starts
  MaxDue,     \* bound: the latest deadline of a behaviour
  NoRequest   \* no request is being made

VARIABLES
  now,      \* ticks since the start
  pending,  \* the requests still to be served
  firing,   \* the ids of the expired requests being served, the first one now
  adding    \* when the request being made was begun, or NoRequest

vars == <<now, pending, firing, adding>>

Request == [id : 1 .. MaxCalls, callback : Callback, interval : Interval,
            isRoutine : BOOLEAN, due : 0 .. MaxDue]

Init == /\ now = Start
        /\ pending = {}
        /\ firing = <<>>
        /\ adding = NoRequest

\* Time stands still while requests are served.
Tick == /\ firing = <<>>
        /\ now' = now + 1
        /\ UNCHANGED <<pending, firing, adding>>

BeginAdd == /\ firing = <<>>
            /\ adding = NoRequest
            /\ adding' = now
            /\ UNCHANGED <<now, pending, firing>>

Fresh(r) == \A q \in pending : q.id # r.id

\* The deadline counts from a moment of the call; of a call during which the
\* tick counter wraps nothing is promised.
EndAdd(r) ==
  /\ adding # NoRequest
  /\ Fresh(r)
  /\ adding \div Word = now \div Word => r.due \in adding + r.interval .. now + r.interval
  /\ pending' = pending \cup {r}
  /\ adding' = NoRequest
  /\ UNCHANGED <<now, firing>>

\* A request made while another is served is immediate.
AddWhileServing(r) ==
  /\ firing # <<>>
  /\ Fresh(r)
  /\ r.due = now + r.interval
  /\ pending' = pending \cup {r}
  /\ UNCHANGED <<now, firing, adding>>

\* The machine stopped for want of room: the request is never made.
Abort == /\ adding # NoRequest
         /\ adding' = NoRequest
         /\ UNCHANGED <<now, pending, firing>>

\* All pending requests with the signature are withdrawn.
Remove(iv, cb, routine) ==
  /\ adding = NoRequest
  /\ pending' = {r \in pending :
                   ~(r.callback = cb /\ r.interval = iv /\ r.isRoutine = routine)}
  /\ UNCHANGED <<now, firing, adding>>

\* A pass: some of the expired requests, no later one before an earlier one,
\* are to be served in the order of their deadlines.  A routine is pending
\* again, one interval after its deadline.
Expire(S) ==
  /\ firing = <<>>
  /\ adding = NoRequest
  /\ S # {}
  /\ \A r \in S : r.due <= now
  /\ \A r \in S, q \in pending : q.due < r.due => q \in S
  /\ Len(firing') = Cardinality(S)
  /\ {firing'[i] : i \in DOMAIN firing'} = {r.id : r \in S}
  /\ \A i, j \in DOMAIN firing' : \A r, q \in S :
       i < j /\ r.id = firing'[i] /\ q.id = firing'[j] => r.due <= q.due
  /\ pending' = (pending \ S) \cup
                {[r EXCEPT !.due = @ + r.interval] : r \in {q \in S : q.isRoutine}}
  /\ UNCHANGED <<now, adding>>

Served == /\ firing # <<>>
          /\ firing' = Tail(firing)
          /\ UNCHANGED <<now, pending, adding>>

Next == \/ Tick
        \/ BeginAdd
        \/ \E r \in Request : EndAdd(r) \/ AddWhileServing(r)
        \/ Abort
        \/ \E iv \in Interval, cb \in Callback, routine \in BOOLEAN :
             Remove(iv, cb, routine)
        \/ \E S \in SUBSET pending : Expire(S)
        \/ Served

Spec == Init /\ [][Next]_vars
=============================================================================
