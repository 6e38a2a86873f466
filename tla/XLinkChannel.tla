---------------------------- MODULE XLinkChannel ----------------------------
(***************************************************************************)
(* What XLink promises of one direction of a stream (XLink.h): a packet    *)
(* written is read once, in order; it occupies the reader's buffer until   *)
(* it is released; the buffer holds a bounded number of bytes and packets; *)
(* and the stream goes away only when all pending data has been released.  *)
(***************************************************************************)
EXTENDS Naturals, Sequences

CONSTANTS
  Sizes,      \* sizes a packet can have
  Capacity,   \* bytes of the reader's buffer
  MaxPackets  \* packets of the reader's buffer

VARIABLES
  written,    \* packets written so far
  unread,     \* packets written and not yet read
  unreleased, \* packets read and not yet released
  closed

vars == <<written, unread, unreleased, closed>>

\* The sum of a sequence of numbers.
Total(numbers) ==
  LET sum[k \in 0..Len(numbers)] == IF k = 0 THEN 0 ELSE sum[k - 1] + numbers[k]
  IN sum[Len(numbers)]

Bytes(packets) == Total([k \in DOMAIN packets |-> packets[k].size])

Init == written = 0 /\ unread = <<>> /\ unreleased = <<>> /\ closed = FALSE

Write ==
  /\ ~closed
  /\ \E s \in Sizes : unread' = Append(unread, [id |-> written + 1, size |-> s])
  /\ Len(unread') + Len(unreleased) <= MaxPackets
  /\ Bytes(unread') + Bytes(unreleased) <= Capacity
  /\ written' = written + 1
  /\ UNCHANGED <<unreleased, closed>>

Read ==
  /\ unread # <<>>
  /\ unread' = Tail(unread)
  /\ unreleased' = Append(unreleased, Head(unread))
  /\ UNCHANGED <<written, closed>>

Release ==
  /\ unreleased # <<>>
  /\ unreleased' = Tail(unreleased)
  /\ UNCHANGED <<written, unread, closed>>

Close ==
  /\ unread = <<>> /\ unreleased = <<>>
  /\ closed' = TRUE
  /\ UNCHANGED <<written, unread, unreleased>>

Next == Write \/ Read \/ Release \/ Close

Spec == Init /\ [][Next]_vars
=============================================================================
