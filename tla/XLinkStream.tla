---------------------------- MODULE XLinkStream -----------------------------
(***************************************************************************)
(* Flow control and close of one XLink stream between the two ends of a    *)
(* link. Each end has application threads inside XLinkWriteData,           *)
(* XLinkReadData, XLinkReleaseData and XLinkCloseStream, a dispatcher that *)
(* serves local calls and remote messages, and a reader thread that takes  *)
(* messages off the link (and stores a packet) before the dispatcher sees  *)
(* them. The writer's end keeps the credit: the bytes and packets it sent  *)
(* and has not seen released.                                              *)
(*                                                                         *)
(* The stream is already open. The dispatcher's queues are first-in        *)
(* first-out here; XLinkDispatcher models their slots. A read, a write or  *)
(* a release may wait for a packet, for credit or for the other end.       *)
(***************************************************************************)
EXTENDS Integers, Sequences, FiniteSets

CONSTANTS
  Threads,     \* application threads of both ends
  Role,        \* per thread: its end and the calls it makes
  Sizes,       \* sizes of packets, in bytes
  Buffer,      \* per end: write size it opened the stream with, 0 if it only reads
  Line,        \* __CACHE_LINE_SIZE
  MaxPackets,  \* USB_LINK_MAX_PACKETS_PER_STREAM
  MaxWrites    \* bound: packets an end writes

Peers == {"app", "device"}
Other(p) == CHOOSE q \in Peers : q # p

ASSUME SizeAssumption == Sizes \subseteq Nat \ {0} /\ Line \in Nat \ {0}
ASSUME BufferAssumption == Buffer \in [Peers -> Nat] /\ MaxPackets \in Nat \ {0}
ASSUME ThreadAssumption == IsFiniteSet(Threads)
ASSUME RoleAssumption ==
  Role \in [Threads -> [peer : Peers, ops : SUBSET {"write", "read", "release", "close"}]]

VARIABLES
  desc,    \* per end: the fields of streamDesc_t
  store,   \* per end: its packets, not yet read and read but not released
  local,   \* per end: threads whose call the dispatcher has not looked at
  remote,  \* per end: messages received that the dispatcher has not looked at
  link,    \* per end: messages on their way to it
  call,    \* per thread: its call, and packets it read and has to release
  sent,    \* per end: packets it sent (their identity)
  got,     \* per end: packets its threads were given, in order (history)
  closing, \* per end: XLinkCloseStream is "open" (not called), "called", "done"
  aborted, \* ends whose process failed an assertion
  crossed  \* a call was made that can cross a close: a write of the end that closes, not
           \* returned from before or made after it, or a read of a packet never written;
           \* or one in a direction the stream has no buffer for, which the other
           \* direction's close can take the stream from under (history)

vars == <<desc, store, local, remote, link, call, sent, got, closing, aborted, crossed>>

Init ==
  /\ desc = [p \in Peers |-> [open |-> TRUE, writeSize |-> Buffer[p],
                              readSize |-> Buffer[Other(p)], remoteFill |-> 0,
                              remotePackets |-> 0, localFill |-> 0, closeInitiated |-> FALSE]]
  /\ store = [p \in Peers |-> [unread |-> <<>>, blocked |-> <<>>]]
  /\ local = [p \in Peers |-> <<>>] /\ remote = [p \in Peers |-> <<>>]
  /\ link = [p \in Peers |-> <<>>]
  /\ call = [t \in Threads |-> [op |-> "none", size |-> 0, state |-> "idle", owes |-> 0]]
  /\ sent = [p \in Peers |-> 0] /\ got = [p \in Peers |-> <<>>]
  /\ closing = [p \in Peers |-> "open"]
  /\ aborted = {} /\ crossed = FALSE

ThreadsOf(p) == {t \in Threads : Role[t].peer = p}
Calls(p, op, states) ==
  {t \in ThreadsOf(p) : call[t].op = op /\ call[t].state \in states}
InCall == {"queued", "blocked", "ready", "pending"}
Reads(p) == Len(got[p]) + Cardinality(Calls(p, "read", InCall))
AlignUp(n) == ((n + Line - 1) \div Line) * Line

(***************************************************************************)
(* Application threads                                                     *)
(***************************************************************************)
\* dispatcherAddEvent: the call waits in the local queue.
Enter(t, op, size) ==
  LET p == Role[t].peer
  IN /\ p \notin aborted /\ call[t].state = "idle" /\ op \in Role[t].ops
     /\ call' = [call EXCEPT ![t].op = op, ![t].size = size, ![t].state = "queued"]
     /\ local' = [local EXCEPT ![p] = Append(@, t)]
     /\ UNCHANGED <<desc, store, remote, link, sent, got, aborted>>

CallWrite(t) ==
  LET p == Role[t].peer
  IN /\ sent[p] + Cardinality(Calls(p, "write", InCall)) < MaxWrites
     /\ closing[p] \in {"open", "called"}
     /\ crossed' = (crossed \/ closing[p] = "called" \/ Buffer[p] = 0)
     /\ \E s \in Sizes : Enter(t, "write", s)
     /\ UNCHANGED closing

CallRead(t) ==
  LET p == Role[t].peer
  IN /\ call[t].owes = 0
     /\ crossed' =
          (crossed \/ (closing[Other(p)] # "open" /\ Reads(p) >= sent[Other(p)])
                   \/ Buffer[Other(p)] = 0)
     /\ Enter(t, "read", 0)
     /\ UNCHANGED closing

\* "This should be called after ReadData"
CallRelease(t) ==
  /\ call[t].owes > 0
  /\ Enter(t, "release", 0)
  /\ UNCHANGED <<closing, crossed>>

CallClose(t) ==
  LET p == Role[t].peer
  IN /\ closing[p] = "open"
     /\ crossed' =
          (crossed \/ Calls(p, "write", InCall) # {} \/ Reads(Other(p)) > sent[p]
                   \/ Buffer[p] = 0)
     /\ Enter(t, "close", 0)
     /\ closing' = [closing EXCEPT ![p] = "called"]

(***************************************************************************)
(* The dispatcher of end p: local calls                                    *)
(***************************************************************************)
\* A call that was unblocked comes before new local calls, these before messages. The
\* unblocked call found first is the one in the lowest slot, which is any of them here.
NextCall(p) ==
  LET ready == {t \in ThreadsOf(p) : call[t].state = "ready"}
  IN IF ready # {} THEN ready ELSE IF local[p] # <<>> THEN {Head(local[p])} ELSE {}

Taken(p, t) ==
  local' = IF call[t].state = "queued" THEN [local EXCEPT ![p] = Tail(@)] ELSE local

Post(p, message) == link' = [link EXCEPT ![Other(p)] = Append(@, message)]

Served(t, owes) ==
  call' = [call EXCEPT ![t] = [op |-> "none", size |-> 0, state |-> "idle", owes |-> owes]]
Blocked(t) == call' = [call EXCEPT ![t].state = "blocked"]
Pending(t) == call' = [call EXCEPT ![t].state = "pending"]

FitsBytesOnly(p, size) == desc[p].remoteFill + AlignUp(size) <= desc[p].writeSize
FitsPacketsOnly(p, size) == desc[p].remotePackets < MaxPackets

\* isStreamSpaceEnoughFor, called with the aligned size
Fits(p, size) ==
  /\ desc[p].remotePackets < MaxPackets
  /\ desc[p].remoteFill + AlignUp(size) <= desc[p].writeSize

ServeWrite(p, t) ==
  /\ \/ /\ desc[p].writeSize = 0
        /\ Served(t, call[t].owes)
        /\ UNCHANGED <<desc, link, sent>>
     \/ /\ desc[p].writeSize # 0 /\ ~Fits(p, call[t].size)
        /\ Blocked(t)
        /\ UNCHANGED <<desc, link, sent>>
     \/ /\ desc[p].writeSize # 0 /\ Fits(p, call[t].size)
        /\ Pending(t)
        /\ desc' = [desc EXCEPT ![p].remoteFill = @ + call[t].size, ![p].remotePackets = @ + 1]
        /\ sent' = [sent EXCEPT ![p] = @ + 1]
        /\ Post(p, [type |-> "write_req", of |-> t, size |-> call[t].size, id |-> sent[p] + 1])
  /\ UNCHANGED <<store, got, closing>>

ServeRead(p, t) ==
  /\ \/ /\ store[p].unread # <<>>
        /\ store' = [store EXCEPT ![p].unread = Tail(@),
                                  ![p].blocked = Append(@, Head(store[p].unread))]
        /\ got' = [got EXCEPT ![p] = Append(@, Head(store[p].unread).id)]
        /\ Served(t, call[t].owes + 1)
     \/ /\ store[p].unread = <<>>
        /\ Blocked(t)
        /\ UNCHANGED <<store, got>>
  /\ UNCHANGED <<desc, link, sent, closing>>

\* releasePacketFromStream frees the oldest packet that was read.
ServeRelease(p, t) ==
  /\ store[p].blocked # <<>>
  /\ LET packet == Head(store[p].blocked)
     IN /\ store' = [store EXCEPT ![p].blocked = Tail(@)]
        /\ desc' = [desc EXCEPT ![p].localFill = @ - packet.size]
        /\ Post(p, [type |-> "release_req", of |-> t, size |-> packet.size, id |-> packet.id])
  /\ call' = [call EXCEPT ![t].state = "pending", ![t].owes = @ - 1]
  /\ UNCHANGED <<sent, got, closing>>

ServeCloseAtOnce(p, t) ==
  /\ Pending(t)
  /\ Post(p, [type |-> "close_req", of |-> t, size |-> 0, id |-> 0])
  /\ UNCHANGED <<desc, store, sent, got, closing>>

ServeClose(p, t) ==
  /\ \/ /\ desc[p].remoteFill # 0
        /\ desc' = [desc EXCEPT ![p].closeInitiated = TRUE]
        /\ Blocked(t)
        /\ UNCHANGED link
     \/ /\ desc[p].remoteFill = 0
        /\ Pending(t)
        /\ Post(p, [type |-> "close_req", of |-> t, size |-> 0, id |-> 0])
        /\ UNCHANGED desc
  /\ UNCHANGED <<store, sent, got, closing>>

\* dispatcherLocalEventGetResponse, and what eventSchedulerRun does with its result
ServeCall(p) ==
  /\ p \notin aborted
  /\ \E t \in NextCall(p) :
       /\ Taken(p, t)
       /\ IF desc[p].open
          THEN /\ \/ call[t].op = "write" /\ ServeWrite(p, t)
                  \/ call[t].op = "read" /\ ServeRead(p, t)
                  \/ call[t].op = "release" /\ ServeRelease(p, t)
                  \/ call[t].op = "close" /\ ServeClose(p, t)
               /\ UNCHANGED aborted
          ELSE /\ aborted' = aborted \union {p}
               /\ UNCHANGED <<desc, store, link, call, sent, got, closing>>
  /\ UNCHANGED <<remote, crossed>>

(***************************************************************************)
(* The dispatcher of end p: messages of the other end                      *)
(***************************************************************************)
\* dispatcherUnblockEvent, for each of these kinds: one blocked call is made ready.
UnblockOne(p, ops) ==
  LET some == {op \in ops : Calls(p, op, {"blocked"}) # {}}
  IN \E f \in [some -> Threads] :
       /\ \A op \in some : f[op] \in Calls(p, op, {"blocked"})
       /\ call' = [t \in Threads |-> IF \E op \in some : f[op] = t
                                     THEN [call[t] EXCEPT !.state = "ready"] ELSE call[t]]

Answer(p, m, type) == Post(p, [m EXCEPT !.type = type])

TakeWrite(p, m) ==
  /\ m.type = "write_req"
  /\ Answer(p, m, "write_resp")
  /\ UnblockOne(p, {"read"})
  /\ UNCHANGED <<desc, closing>>

TakeReleaseAligned(p, m) ==
  /\ m.type = "release_req" /\ desc[p].open
  /\ desc' = [desc EXCEPT ![p].remoteFill = @ - AlignUp(m.size), ![p].remotePackets = @ - 1]
  /\ Answer(p, m, "release_resp")
  /\ UnblockOne(p, IF desc[p].closeInitiated THEN {"write", "close"} ELSE {"write"})
  /\ UNCHANGED closing

TakeReleaseKeepsPackets(p, m) ==
  /\ m.type = "release_req" /\ desc[p].open
  /\ desc' = [desc EXCEPT ![p].remoteFill = @ - m.size]
  /\ Answer(p, m, "release_resp")
  /\ UnblockOne(p, IF desc[p].closeInitiated THEN {"write", "close"} ELSE {"write"})
  /\ UNCHANGED closing

TakeReleaseUnblocks(p, m, ops) ==
  /\ m.type = "release_req" /\ desc[p].open
  /\ desc' = [desc EXCEPT ![p].remoteFill = @ - m.size, ![p].remotePackets = @ - 1]
  /\ Answer(p, m, "release_resp")
  /\ UnblockOne(p, ops)
  /\ UNCHANGED closing
TakeReleaseForgetsWrite(p, m) == TakeReleaseUnblocks(p, m, {"close"})
TakeReleaseForgetsClose(p, m) == TakeReleaseUnblocks(p, m, {"write"})

TakeRelease(p, m) ==
  /\ m.type = "release_req" /\ desc[p].open
  /\ desc' = [desc EXCEPT ![p].remoteFill = @ - m.size, ![p].remotePackets = @ - 1]
  /\ Answer(p, m, "release_resp")
  /\ UnblockOne(p, IF desc[p].closeInitiated /\ desc[p].localFill = 0
                   THEN {"write", "close"} ELSE {"write"})
  /\ UNCHANGED closing

TakeClose(p, m) ==
  /\ m.type = "close_req"
  /\ \/ /\ desc[p].open /\ desc[p].localFill # 0
        /\ desc' = [desc EXCEPT ![p].closeInitiated = TRUE]
        /\ Answer(p, m, "close_nack")
     \/ /\ desc[p].open /\ desc[p].localFill = 0
        /\ desc' = [desc EXCEPT ![p].readSize = 0,
                                ![p].closeInitiated = @ /\ desc[p].readSize = 0,
                                ![p].open = desc[p].writeSize # 0]
        /\ Answer(p, m, "close_resp")
     \/ /\ ~desc[p].open
        /\ Answer(p, m, "close_resp")
        /\ UNCHANGED desc
  /\ UNCHANGED <<call, closing>>

\* dispatcherResponseServe wakes the thread that made the request.
TakeResponse(p, m) ==
  /\ m.type \in {"write_resp", "release_resp"}
  /\ Served(m.of, call[m.of].owes)
  /\ UNCHANGED <<desc, link, closing>>

\* The stream's write side is gone whatever the answer says.
TakeCloseResponse(p, m) ==
  /\ m.type \in {"close_resp", "close_nack"}
  /\ Served(m.of, call[m.of].owes)
  /\ closing' = [closing EXCEPT ![p] = "done"]
  /\ desc' = IF desc[p].open
             THEN [desc EXCEPT ![p].writeSize = 0, ![p].open = desc[p].readSize # 0]
             ELSE desc
  /\ UNCHANGED link

\* dispatcherRemoteEventGetResponse, and the answer eventSchedulerRun sends
ServeMessage(p) ==
  /\ p \notin aborted /\ NextCall(p) = {} /\ remote[p] # <<>>
  /\ remote' = [remote EXCEPT ![p] = Tail(@)]
  /\ LET m == Head(remote[p])
     IN \/ /\ \/ TakeWrite(p, m) \/ TakeRelease(p, m) \/ TakeClose(p, m)
              \/ TakeResponse(p, m) \/ TakeCloseResponse(p, m)
           /\ UNCHANGED aborted
        \/ /\ m.type = "release_req" /\ ~desc[p].open
           /\ aborted' = aborted \union {p}
           /\ UNCHANGED <<desc, link, call, closing>>
  /\ UNCHANGED <<store, local, sent, got, crossed>>

(***************************************************************************)
(* The reader thread of end p: dispatcherEventReceive, handleIncomingEvent *)
(***************************************************************************)
Receive(p) ==
  /\ p \notin aborted /\ link[p] # <<>>
  /\ link' = [link EXCEPT ![p] = Tail(@)]
  /\ LET m == Head(link[p])
         room == Len(store[p].unread) + Len(store[p].blocked) < MaxPackets
     IN \/ /\ m.type = "write_req" /\ (~desc[p].open \/ ~room)
           /\ aborted' = aborted \union {p}
           /\ UNCHANGED <<desc, store, remote>>
        \/ /\ m.type = "write_req" /\ desc[p].open /\ room
           /\ desc' = [desc EXCEPT ![p].localFill = @ + m.size]
           /\ store' = [store EXCEPT ![p].unread = Append(@, [id |-> m.id, size |-> m.size])]
           /\ remote' = [remote EXCEPT ![p] = Append(@, m)]
           /\ UNCHANGED aborted
        \/ /\ m.type # "write_req"
           /\ remote' = [remote EXCEPT ![p] = Append(@, m)]
           /\ UNCHANGED <<desc, store, aborted>>
  /\ UNCHANGED <<local, call, sent, got, closing, crossed>>

-----------------------------------------------------------------------------
Application(t) == CallWrite(t) \/ CallRead(t) \/ CallRelease(t) \/ CallClose(t)

Next ==
  \/ \E t \in Threads : Application(t)
  \/ \E p \in Peers : ServeCall(p) \/ ServeMessage(p) \/ Receive(p)

Spec == Init /\ [][Next]_vars

\* Every thread of the library runs; the application reads and releases what was written.
\* It need not write or close, nor ask for a packet before it was written.
Fairness ==
  /\ \A p \in Peers : WF_vars(ServeCall(p) \/ ServeMessage(p)) /\ WF_vars(Receive(p))
  /\ \A t \in Threads :
       /\ WF_vars(CallRead(t) /\ Reads(Role[t].peer) < sent[Other(Role[t].peer)])
       /\ WF_vars(CallRelease(t))

FairSpec == Spec /\ Fairness

-----------------------------------------------------------------------------
Types == {"write_req", "write_resp", "release_req", "release_resp",
          "close_req", "close_resp", "close_nack"}
Messages == [type : Types, of : Threads, size : Nat, id : Nat]
Packets == [id : Nat, size : Nat]

TypeOK ==
  /\ desc \in [Peers -> [open : BOOLEAN, writeSize : Nat, readSize : Nat, remoteFill : Nat,
                         remotePackets : Nat, localFill : Nat, closeInitiated : BOOLEAN]]
  /\ store \in [Peers -> [unread : Seq(Packets), blocked : Seq(Packets)]]
  /\ local \in [Peers -> Seq(Threads)]
  /\ remote \in [Peers -> Seq(Messages)] /\ link \in [Peers -> Seq(Messages)]
  /\ call \in [Threads -> [op : {"none", "write", "read", "release", "close"}, size : Nat,
                           state : {"idle"} \union InCall, owes : 0..1]]
  /\ sent \in [Peers -> Nat] /\ got \in [Peers -> Seq(Nat)]
  /\ closing \in [Peers -> {"open", "called", "done"}]
  /\ aborted \subseteq Peers /\ crossed \in BOOLEAN

\* The messages of a type, in their order.
OfType(messages, type) ==
  LET chosen[k \in 0..Len(messages)] ==
        IF k = 0 THEN <<>>
        ELSE IF messages[k].type = type THEN Append(chosen[k - 1], messages[k])
        ELSE chosen[k - 1]
  IN chosen[Len(messages)]

PacketOf(message) == [id |-> message.id, size |-> message.size]
OnLink(p) == OfType(link[p], "write_req")

\* The stream as the application of end "app" sees it when it writes.
Channel == INSTANCE XLinkChannel WITH
  Capacity <- Buffer["app"],
  written <- sent["app"],
  unread <- store["device"].unread \o
              [k \in DOMAIN OnLink("device") |-> PacketOf(OnLink("device")[k])],
  unreleased <- store["device"].blocked,
  closed <- desc["device"].readSize = 0

\* What the credit of end p stands for: packets on the link, packets stored at the other
\* end, and releases the dispatcher of p has not seen.
Charged(p) ==
  OnLink(Other(p)) \o store[Other(p)].unread \o store[Other(p)].blocked
    \o OfType(link[p], "release_req") \o OfType(remote[p], "release_req")

\* Credit is neither lost nor made: the writer's two counters are exactly the bytes and
\* packets on their way, stored, or released without the writer knowing yet.
CreditConserved ==
  \A p \in Peers : /\ desc[p].remoteFill = Channel!Bytes(Charged(p))
                   /\ desc[p].remotePackets = Len(Charged(p))

\* No assertion of XLink.c fails: a packet that arrives finds its stream and a free packet
\* descriptor, and no call reaches a stream that is gone.
NoAbort == aborted = {}

\* A close request finds the reader's buffer empty, so it is never refused.
CloseNeverRefused ==
  \A p \in Peers : OfType(link[p] \o remote[p], "close_nack") = <<>>

\* The credit keeps the link in order: it is exact, so packets never overflow their ring and
\* a close never comes too early, unless a call crossed the close. (A packet that follows a
\* close request aborts the process it arrives in: handleIncomingEvent.)
CreditSound == ~crossed => CreditConserved /\ NoAbort /\ CloseNeverRefused

\* XLinkWriteData returns while the other end goes on reading and releasing, whatever the
\* order in which releases unblock the writers; XLinkCloseStream returns, after all pending
\* data has been released.
CallsReturn ==
  /\ \A t \in Threads : call[t].op = "write" ~> call[t].state = "idle" \/ crossed
  /\ \A p \in Peers : closing[p] = "called" ~> closing[p] = "done" \/ crossed

-----------------------------------------------------------------------------
\* The stream behaves as the bounded first-in first-out channel XLink.h describes, until a
\* call crosses the close.
ImplementsChannel ==
  Channel!Init /\ [][crossed' \/ Channel!Next]_(Channel!vars)
=============================================================================
