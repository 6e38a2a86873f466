-------------------------- MODULE XLinkDevice_proofs --------------------------
(***************************************************************************)
(* The event queues of an XLink scheduler, for any number of threads, of   *)
(* slots above what the two ends can have open, of calls and of packets.   *)
(*                                                                         *)
(* Until a call is lapped, a call that was not served has its slot to      *)
(* itself, so the slots between the two pointers are the events nobody     *)
(* fetched, and an answer on its way is that of one pending slot. Both     *)
(* queues stay short of a lap because each of their events stands for a    *)
(* thread that waits, here or at the other end.  The second part is about  *)
(* the transport under the scheduler.                                      *)
(***************************************************************************)
EXTENDS XLinkDispatcher, UsbLink, SequenceTheorems, FiniteSetTheorems, TLAPS

\* The slots from proc up to cur.
Window(proc, cur) == {s \in Slot : Distance(proc, s) < Distance(proc, cur)}

LocalQueue == Window(lProc, lCur)

\* Events of the other end that are queued or in the dispatcher's hands.
RemoteEvents ==
  {s \in Slot : s \in Window(rProc, rCur) \/ dispatcher = [queue |-> "remote", slot |-> s]}
Responses == {s \in RemoteEvents : rq[s].kind = "response"}

\* What every slot says of itself, lapped or not.
SlotsKept ==
  /\ \A s \in Slot : lq[s].op # "none" <=> lq[s].id # 0
  /\ \A s \in Slot : lq[s].by # None <=> lq[s].id # 0
  /\ \A s \in Slot : lq[s].id <= calls
  /\ \A s \in Slot : rq[s].kind = "response" => rq[s].id # 0

\* A slot without a call that is still to be served.
Finished(s) == lq[s].id = 0 \/ lq[s].id \in done

\* A call that was not served has a slot, the thread that made it waits, and its slot is
\* where the state says.
CallsKept ==
  /\ \A t \in Threads : Waiting(t) =>
       \E s \in Slot : lq[s].by = t /\ lq[s].id = thread[t].call /\ lq[s].op = thread[t].op
  /\ \A r, s \in Slot : lq[r].id = lq[s].id /\ lq[r].id # 0 => r = s
  /\ \A s \in Slot : Finished(s) \/ Open(s)
  /\ \A s \in Slot : lq[s].state # "served" => ~Finished(s)
  /\ \A s \in Slot : lq[s].state = "pending" => lq[s].op = "request"
  /\ \A s \in Slot : lq[s].state \in {"blocked", "ready"} => lq[s].op = "read"
  /\ \A c \in done : c <= calls

\* The queue holds calls that were not looked at; the dispatcher has taken its own out.
QueueKept ==
  /\ \A s \in LocalQueue : lq[s].state = "served" /\ ~Finished(s)
  /\ dispatcher.queue = "local" =>
       /\ dispatcher.slot \notin LocalQueue /\ ~Finished(dispatcher.slot)
       /\ lq[dispatcher.slot].state \in {"served", "ready"}

\* A thread's semaphore is posted when its call was served, with a packet for a read.
WokenKept ==
  \A t \in Threads :
    /\ sem[t] = IF Waiting(t) /\ thread[t].call \in done THEN 1 ELSE 0
    /\ Waiting(t) /\ thread[t].call \in done /\ thread[t].op = "read" => thread[t].given

\* Each answer on its way, with the other end or queued here, is that of a pending call,
\* and no call has two.
AnswersKept ==
  /\ \A k \in DOMAIN wire : Requests(wire[k]) # {}
  /\ \A s \in Responses : Requests(rq[s].id) # {}
  /\ \A j, k \in DOMAIN wire : wire[j] = wire[k] => j = k
  /\ \A r, s \in Responses : rq[r].id = rq[s].id => r = s
  /\ \A k \in DOMAIN wire, s \in Responses : wire[k] # rq[s].id

\* The dispatcher's remote event is the last one it took out of the queue, and the other
\* end waits for an answer to each packet.
RemoteKept ==
  /\ Cardinality(Unanswered) <= PeerCalls
  /\ dispatcher.queue = "remote" => After(dispatcher.slot) = rProc
  /\ \A s \in RemoteEvents : rq[s].kind \in {"packet", "response"}

Notified == notify = Distance(lProc, lCur) + Distance(rProc, rCur)

Exact ==
  /\ CallsKept /\ QueueKept /\ WokenKept /\ AnswersKept /\ RemoteKept /\ Notified
  /\ again = {} /\ empty = {}

IInv == TypeOK /\ SlotsKept /\ (~lapped => Exact)

USE SlotAssumption, BoundAssumption
-----------------------------------------------------------------------------
(* Going round the slots                                                   *)

LEMMA SlotNumbers ==
  /\ Slots \in Nat /\ Slots >= 1 /\ Cardinality(Threads) \in Nat /\ PeerCalls \in Nat
  /\ Cardinality(Threads) + PeerCalls < Slots
  /\ \A s : s \in Slot <=> s \in Nat /\ s < Slots
<1>1. Cardinality(Threads) \in Nat
  BY FS_CardinalityType
<1> QED BY <1>1 DEF Slot

LEMMA Rounds ==
  ASSUME NEW s \in Slot, NEW r \in Slot
  PROVE  /\ After(s) \in Slot /\ After(s) = IF s + 1 < Slots THEN s + 1 ELSE 0
         /\ Distance(r, s) \in Nat /\ Distance(r, s) < Slots
         /\ Distance(r, s) = IF r <= s THEN s - r ELSE s + Slots - r
<1>1. s \in Nat /\ s < Slots /\ r \in Nat /\ r < Slots
  BY SlotNumbers
<1>2. After(s) = IF s + 1 < Slots THEN s + 1 ELSE 0
  BY <1>1, SlotNumbers DEF After
<1>3. Distance(r, s) = IF r <= s THEN s - r ELSE s + Slots - r
  BY <1>1, SlotNumbers DEF Distance
<1>4. After(s) \in Slot
  BY <1>1, <1>2, SlotNumbers
<1> QED BY <1>1, <1>2, <1>3, <1>4, SlotNumbers

LEMMA DistanceZero ==
  ASSUME NEW r \in Slot
  PROVE  /\ Distance(r, r) = 0
         /\ \A s \in Slot : Distance(r, s) = 0 => s = r
<1>1. Distance(r, r) = 0
  BY Rounds, SlotNumbers
<1>2. ASSUME NEW s \in Slot, Distance(r, s) = 0 PROVE s = r
  <2>1. s \in Nat /\ s < Slots /\ r \in Nat /\ r < Slots
    BY SlotNumbers
  <2>2. Distance(r, s) = IF r <= s THEN s - r ELSE s + Slots - r
    BY Rounds
  <2> QED BY <1>2, <2>1, <2>2, SlotNumbers
<1> QED BY <1>1, <1>2

\* A slot that is in the state looked for is the first to be found.
LEMMA NextAt ==
  ASSUME NEW s \in Slot, NEW state, lq[s].state = state
  PROVE  NextSlots(s, state) = {s}
<1>1. Distance(s, s) = 0
  BY DistanceZero
<1>2. ASSUME NEW r \in Slot PROVE 0 <= Distance(s, r) /\ (Distance(s, r) <= 0 => r = s)
  <2>1. Distance(s, r) \in Nat
    BY Rounds
  <2>2. Distance(s, r) = 0 => r = s
    BY DistanceZero
  <2> QED BY <2>1, <2>2
<1>3. s \in NextSlots(s, state)
  BY <1>1, <1>2 DEF NextSlots
<1>4. ASSUME NEW r \in NextSlots(s, state) PROVE r = s
  <2>1. r \in Slot /\ Distance(s, r) <= Distance(s, s)
    BY <1>4 DEF NextSlots
  <2> QED BY <1>1, <1>2, <2>1
<1> QED BY <1>3, <1>4

LEMMA WindowSlots ==
  ASSUME NEW p \in Slot, NEW c \in Slot
  PROVE  /\ Window(p, c) \subseteq Slot
         /\ c \notin Window(p, c)
         /\ p # c => p \in Window(p, c)
         /\ p = c => Window(p, c) = {}
         /\ \A s \in Slot : After(s) = p => s \notin Window(p, c)
<1>1. p \in Nat /\ p < Slots /\ c \in Nat /\ c < Slots
  BY SlotNumbers
<1>2. \A s \in Slot : Distance(p, s) \in Nat
  BY Rounds
<1>3. Distance(p, c) # 0 => p \in Window(p, c)
  BY <1>2, DistanceZero DEF Window
<1>4. p # c => p \in Window(p, c)
  BY <1>3, DistanceZero
<1>5. p = c => Window(p, c) = {}
  BY <1>2, DistanceZero DEF Window
<1>6. c \notin Window(p, c)
  BY <1>2 DEF Window
<1>7. ASSUME NEW s \in Slot, After(s) = p PROVE s \notin Window(p, c)
  <2>1. s \in Nat /\ s < Slots
    BY SlotNumbers
  <2>2. Distance(p, s) = Slots - 1
    <3>1. p = IF s + 1 < Slots THEN s + 1 ELSE 0
      BY <1>7, Rounds
    <3>2. Distance(p, s) = IF p <= s THEN s - p ELSE s + Slots - p
      BY Rounds
    <3> QED BY <1>1, <2>1, <3>1, <3>2, SlotNumbers
  <2>3. Distance(p, c) \in Nat /\ Distance(p, c) < Slots
    BY Rounds
  <2> QED BY <2>2, <2>3, SlotNumbers DEF Window
<1> QED BY <1>4, <1>5, <1>6, <1>7 DEF Window

LEMMA WindowAdds ==
  ASSUME NEW p \in Slot, NEW c \in Slot, Distance(p, c) + 1 < Slots
  PROVE  /\ Distance(p, After(c)) = Distance(p, c) + 1
         /\ Window(p, After(c)) = Window(p, c) \union {c}
<1>1. p \in Nat /\ p < Slots /\ c \in Nat /\ c < Slots
  BY SlotNumbers
<1>2. After(c) \in Slot /\ After(c) = IF c + 1 < Slots THEN c + 1 ELSE 0
  BY Rounds
<1>3. Distance(p, c) = IF p <= c THEN c - p ELSE c + Slots - p
  BY Rounds
<1>4. Distance(p, After(c)) = IF p <= After(c) THEN After(c) - p ELSE After(c) + Slots - p
  BY <1>2, Rounds
<1>5. Distance(p, After(c)) = Distance(p, c) + 1
  BY <1>1, <1>2, <1>3, <1>4, SlotNumbers
<1>6. ASSUME NEW s \in Slot
      PROVE  Distance(p, s) < Distance(p, c) + 1 <=> Distance(p, s) < Distance(p, c) \/ s = c
  <2>1. s \in Nat /\ s < Slots
    BY SlotNumbers
  <2>2. Distance(p, s) = IF p <= s THEN s - p ELSE s + Slots - p
    BY Rounds
  <2>3. Distance(p, s) \in Nat /\ Distance(p, c) \in Nat
    BY Rounds
  <2>4. Distance(p, s) = Distance(p, c) => s = c
    BY <1>1, <1>3, <2>1, <2>2, SlotNumbers
  <2> QED BY <2>3, <2>4
<1> QED BY <1>5, <1>6 DEF Window

LEMMA WindowTakes ==
  ASSUME NEW p \in Slot, NEW c \in Slot, p # c
  PROVE  /\ Distance(After(p), c) = Distance(p, c) - 1
         /\ Window(After(p), c) = Window(p, c) \ {p}
<1>1. p \in Nat /\ p < Slots /\ c \in Nat /\ c < Slots
  BY SlotNumbers
<1>2. After(p) \in Slot /\ After(p) = IF p + 1 < Slots THEN p + 1 ELSE 0
  BY Rounds
<1>3. ASSUME NEW s \in Slot, s # p PROVE Distance(After(p), s) = Distance(p, s) - 1
  <2>1. s \in Nat /\ s < Slots
    BY SlotNumbers
  <2>2. Distance(p, s) = IF p <= s THEN s - p ELSE s + Slots - p
    BY Rounds
  <2>3. Distance(After(p), s) = IF After(p) <= s THEN s - After(p) ELSE s + Slots - After(p)
    BY <1>2, Rounds
  <2> QED BY <1>1, <1>2, <1>3, <2>1, <2>2, <2>3, SlotNumbers
<1>4. Distance(After(p), c) = Distance(p, c) - 1
  BY <1>3
<1>5. p \notin Window(After(p), c)
  BY <1>2, WindowSlots
<1>6. ASSUME NEW s \in Slot, s # p
      PROVE  Distance(After(p), s) < Distance(After(p), c) <=> Distance(p, s) < Distance(p, c)
  <2>1. Distance(p, s) \in Nat /\ Distance(p, c) \in Nat
    BY Rounds
  <2> QED BY <1>3, <1>4, <1>6, <2>1
<1> QED BY <1>4, <1>5, <1>6 DEF Window

LEMMA WindowSize ==
  ASSUME NEW p \in Slot, NEW c \in Slot
  PROVE  IsFiniteSet(Window(p, c)) /\ Cardinality(Window(p, c)) = Distance(p, c)
<1> DEFINE n == Distance(p, c)
           at(k) == IF p + k - 1 < Slots THEN p + k - 1 ELSE p + k - 1 - Slots
           f == [k \in 1..n |-> at(k)]
<1>1. p \in Nat /\ p < Slots /\ c \in Nat /\ c < Slots /\ n \in Nat /\ n < Slots
  BY SlotNumbers, Rounds
<1>2. ASSUME NEW k \in 1..n PROVE at(k) \in Slot /\ Distance(p, at(k)) = k - 1
  <2>1. at(k) \in Nat /\ at(k) < Slots
    BY <1>1, SlotNumbers
  <2>2. at(k) \in Slot
    BY <2>1, SlotNumbers
  <2>3. Distance(p, at(k)) = IF p <= at(k) THEN at(k) - p ELSE at(k) + Slots - p
    BY <2>2, Rounds
  <2> QED BY <1>1, <2>2, <2>3, SlotNumbers
<1>3. \A k \in 1..n : at(k) \in Window(p, c)
  <2>1. ASSUME NEW k \in 1..n PROVE at(k) \in Window(p, c)
    <3>1. k - 1 < n
      BY <1>1
    <3> QED BY <1>2, <3>1 DEF Window
  <2> QED BY <2>1
<1>4. ASSUME NEW s \in Window(p, c) PROVE \E k \in 1..n : at(k) = s
  <2>1. s \in Slot /\ s \in Nat /\ s < Slots /\ Distance(p, s) < n /\ Distance(p, s) \in Nat
    BY <1>4, SlotNumbers, Rounds DEF Window
  <2>2. Distance(p, s) = IF p <= s THEN s - p ELSE s + Slots - p
    BY <2>1, Rounds
  <2>3. Distance(p, s) + 1 \in 1..n
    BY <1>1, <2>1
  <2>4. at(Distance(p, s) + 1) = s
    BY <1>1, <2>1, <2>2, SlotNumbers
  <2> QED BY <2>3, <2>4
<1>5. ASSUME NEW j \in 1..n, NEW k \in 1..n, at(j) = at(k) PROVE j = k
  BY <1>1, <1>2, <1>5
<1> HIDE DEF n, at
<1>6. f \in Bijection(1..n, Window(p, c))
  BY <1>3, <1>4, <1>5 DEF Bijection, Injection, Surjection, IsInjective
<1>7. ExistsBijection(1..n, Window(p, c))
  BY <1>6 DEF ExistsBijection
<1>8. IsFiniteSet(Window(p, c))
  BY <1>1, <1>7, FS_NatBijection
<1> QED BY <1>1, <1>7, <1>8, FS_CountingElements DEF n

-----------------------------------------------------------------------------
(* Types                                                                   *)

States == {"served", "blocked", "ready", "pending"}
Ops == {"none", "request", "read"}
LocalSlot == [state : States, id : 0..MaxCalls, op : Ops, by : Threads \union {None}]
RemoteSlot == [kind : {"none", "packet", "response"}, id : 0..MaxCalls]
ThreadState == [call : 0..MaxCalls, op : Ops, given : BOOLEAN]

SlotTypes == lq \in [Slot -> LocalSlot] /\ rq \in [Slot -> RemoteSlot]
PointerTypes == /\ lCur \in Slot /\ lProc \in Slot /\ rCur \in Slot /\ rProc \in Slot
                /\ dispatcher \in [queue : {"none", "local", "remote"}, slot : Slot]
ThreadTypes == thread \in [Threads -> ThreadState] /\ sem \in [Threads -> Nat]
CountTypes == /\ notify \in Nat /\ calls \in 0..MaxCalls
              /\ arrived \in 0..MaxPackets /\ packets \in 0..arrived
              /\ wire \in Seq(1..MaxCalls)
HistoryTypes == /\ done \subseteq 1..MaxCalls /\ again \subseteq 1..MaxCalls
                /\ empty \subseteq 1..MaxCalls /\ lapped \in BOOLEAN

LEMMA TypeParts == TypeOK <=> SlotTypes /\ PointerTypes /\ ThreadTypes /\ CountTypes /\ HistoryTypes
<1>1. {lCur, lProc, rCur, rProc} \subseteq Slot
        <=> lCur \in Slot /\ lProc \in Slot /\ rCur \in Slot /\ rProc \in Slot
  OBVIOUS
<1>2. done \union again \union empty \subseteq 1..MaxCalls
        <=> done \subseteq 1..MaxCalls /\ again \subseteq 1..MaxCalls /\ empty \subseteq 1..MaxCalls
  OBVIOUS
<1> QED BY <1>1, <1>2
        DEF TypeOK, SlotTypes, PointerTypes, ThreadTypes, CountTypes, HistoryTypes, LocalSlot,
            RemoteSlot, ThreadState, States, Ops

LEMMA SlotFields ==
  ASSUME SlotTypes, NEW s \in Slot
  PROVE  /\ lq[s] \in LocalSlot /\ lq[s].state \in States /\ lq[s].op \in Ops
         /\ lq[s].id \in Nat /\ lq[s].id <= MaxCalls /\ lq[s].by \in Threads \union {None}
         /\ rq[s] \in RemoteSlot /\ rq[s].kind \in {"none", "packet", "response"}
         /\ rq[s].id \in Nat /\ rq[s].id <= MaxCalls
BY DEF SlotTypes, LocalSlot, RemoteSlot

\* Setting a state changes nothing else.
LEMMA StateSet ==
  ASSUME SlotTypes, NEW s \in Slot, NEW state \in States, SetState(s, state)
  PROVE  /\ lq' \in [Slot -> LocalSlot]
         /\ \A r \in Slot : /\ lq'[r].id = lq[r].id /\ lq'[r].op = lq[r].op /\ lq'[r].by = lq[r].by
                            /\ lq'[r].state = IF r = s THEN state ELSE lq[r].state
<1>1. \A r \in Slot : r # s => lq'[r] = lq[r]
  BY DEF SlotTypes, SetState
<1>2. lq'[s] = [lq[s] EXCEPT !.state = state]
  BY DEF SlotTypes, SetState
<1>3. lq[s] \in LocalSlot
  BY SlotFields
<1>4. lq'[s] \in LocalSlot /\ lq'[s].id = lq[s].id /\ lq'[s].op = lq[s].op
      /\ lq'[s].by = lq[s].by /\ lq'[s].state = state
  BY <1>2, <1>3 DEF LocalSlot
<1>5. lq' \in [Slot -> LocalSlot]
  BY <1>3, <1>4 DEF SlotTypes, SetState
<1> QED BY <1>1, <1>4, <1>5

LEMMA AddedSlot ==
  ASSUME SlotTypes, NEW s \in Slot, NEW slot \in LocalSlot, lq' = [lq EXCEPT ![s] = slot]
  PROVE  /\ lq' \in [Slot -> LocalSlot] /\ lq'[s] = slot
         /\ \A r \in Slot : r # s => lq'[r] = lq[r]
BY DEF SlotTypes

LEMMA ThreadFields ==
  ASSUME ThreadTypes, NEW t \in Threads
  PROVE  /\ thread[t] \in ThreadState /\ thread[t].call \in Nat /\ thread[t].call <= MaxCalls
         /\ thread[t].op \in Ops /\ thread[t].given \in BOOLEAN /\ sem[t] \in Nat
BY DEF ThreadTypes, ThreadState

LEMMA SlotTypesStep ==
  ASSUME TypeOK, Next
  PROVE  SlotTypes'
<1>1. SlotTypes /\ PointerTypes /\ ThreadTypes /\ CountTypes
  BY TypeParts
<1>2. ASSUME NEW t \in Threads, NEW op \in {"request", "read"}, AddLocal(t, op) PROVE SlotTypes'
  <2>1. calls + 1 \in 0..MaxCalls
    BY <1>1, <1>2, BoundAssumption DEF CountTypes, AddLocal
  <2>2. PICK s \in NextSlots(lCur, "served") :
          lq' = [lq EXCEPT ![s] = [state |-> "served", id |-> calls + 1, op |-> op, by |-> t]]
    BY <1>2 DEF AddLocal
  <2>3. s \in Slot
    BY <2>2 DEF NextSlots
  <2>4. [state |-> "served", id |-> calls + 1, op |-> op, by |-> t] \in LocalSlot
    BY <2>1 DEF LocalSlot, States, Ops
  <2>5. lq' \in [Slot -> LocalSlot]
    BY <1>1, <2>2, <2>3, <2>4, AddedSlot
  <2>6. rq' = rq
    BY <1>2 DEF AddLocal, rvars
  <2> QED BY <1>1, <2>5, <2>6 DEF SlotTypes
<1>3. ASSUME NEW event \in RemoteSlot, AddRemote(event) PROVE SlotTypes'
  <2>1. lq' = lq /\ rq' = [rq EXCEPT ![rCur] = event]
    BY <1>3 DEF AddRemote, lvars
  <2> QED BY <1>1, <1>3, <2>1 DEF SlotTypes
<1>4. CASE ReceiveResponse
  <2>1. wire # <<>> /\ AddRemote([kind |-> "response", id |-> Head(wire)])
    BY <1>4 DEF ReceiveResponse
  <2>2. Head(wire) \in 1..MaxCalls
    BY <1>1, <2>1, HeadTailProperties DEF CountTypes
  <2>3. [kind |-> "response", id |-> Head(wire)] \in RemoteSlot
    BY <2>2, BoundAssumption DEF RemoteSlot
  <2> QED BY <1>3, <2>1, <2>3
<1>5. CASE ReceivePacket
  <2>1. [kind |-> "packet", id |-> 0] \in RemoteSlot
    BY BoundAssumption DEF RemoteSlot
  <2> QED BY <1>3, <1>5, <2>1 DEF ReceivePacket
<1>6. ASSUME NEW s \in Slot, NEW state \in States, SetState(s, state), rq' = rq PROVE SlotTypes'
  BY <1>1, <1>6, StateSet DEF SlotTypes
<1>7. dispatcher.slot \in Slot
  BY <1>1 DEF PointerTypes
<1>8. CASE ServeRequest
  <2>1. SetState(dispatcher.slot, "pending") /\ rq' = rq
    BY <1>8 DEF ServeRequest, rvars
  <2> QED BY <1>6, <1>7, <2>1 DEF States
<1>9. CASE ServeRead
  <2>1. rq' = rq
    BY <1>9 DEF ServeRead, rvars
  <2>2. SetState(dispatcher.slot, "served") \/ SetState(dispatcher.slot, "blocked")
    BY <1>9 DEF ServeRead, MarkServed
  <2> QED BY <1>6, <1>7, <2>1, <2>2 DEF States
<1>10. CASE ServePacket
  <2>1. rq' = rq
    BY <1>10 DEF ServePacket, rvars
  <2>2. (\E s \in NextSlots(0, "blocked") : SetState(s, "ready")) \/ lq' = lq
    BY <1>10 DEF ServePacket
  <2>3. CASE lq' = lq
    BY <1>1, <2>1, <2>3 DEF SlotTypes
  <2>4. ASSUME NEW s \in NextSlots(0, "blocked"), SetState(s, "ready") PROVE SlotTypes'
    <3>1. s \in Slot
      BY DEF NextSlots
    <3> QED BY <1>6, <2>1, <2>4, <3>1 DEF States
  <2> QED BY <2>2, <2>3, <2>4
<1>11. CASE ServeResponse
  <2>1. rq' = rq
    BY <1>11 DEF ServeResponse, rvars
  <2>2. PICK s \in Requests(rq[dispatcher.slot].id) : SetState(s, "served")
    BY <1>11 DEF ServeResponse, MarkServed
  <2>3. s \in Slot
    BY <2>2 DEF Requests
  <2> QED BY <1>6, <2>1, <2>2, <2>3 DEF States
<1>12. CASE (\E t \in Threads : Return(t)) \/ FetchReady \/ FetchLocal \/ FetchRemote
  <2>1. lq' = lq /\ rq' = rq
    BY <1>12 DEF Return, FetchReady, FetchLocal, FetchRemote, lvars, rvars
  <2> QED BY <1>1, <2>1 DEF SlotTypes
<1> QED BY <1>2, <1>4, <1>5, <1>8, <1>9, <1>10, <1>11, <1>12 DEF Next, Fetch, Serve

LEMMA PointerTypesStep ==
  ASSUME TypeOK, Next
  PROVE  PointerTypes'
<1>1. PointerTypes
  BY TypeParts
<1>2. \A s \in Slot : After(s) \in Slot
  BY Rounds
<1>3. ASSUME NEW s \in Slot, NEW queue \in {"local", "remote"},
             dispatcher' = [queue |-> queue, slot |-> s]
      PROVE  dispatcher' \in [queue : {"none", "local", "remote"}, slot : Slot]
  BY <1>3
<1>4. Idle \in [queue : {"none", "local", "remote"}, slot : Slot]
  BY SlotNumbers DEF Idle
<1>5. ASSUME NEW t \in Threads, NEW op \in {"request", "read"}, AddLocal(t, op) PROVE PointerTypes'
  <2>1. lCur' \in Slot
    BY <1>2, <1>5 DEF AddLocal, NextSlots
  <2> QED BY <1>1, <1>5, <2>1 DEF AddLocal, PointerTypes, rvars
<1>6. CASE ReceiveResponse \/ ReceivePacket
  <2>1. rCur' = After(rCur) /\ UNCHANGED <<lCur, lProc, rProc, dispatcher>>
    BY <1>6 DEF ReceiveResponse, ReceivePacket, AddRemote, lvars
  <2> QED BY <1>1, <1>2, <2>1 DEF PointerTypes
<1>7. CASE FetchReady
  <2>1. \E s \in Slot : dispatcher' = [queue |-> "local", slot |-> s]
    BY <1>7 DEF FetchReady, Ready, NextSlots
  <2>2. UNCHANGED <<lCur, lProc, rCur, rProc>>
    BY <1>7 DEF FetchReady, lvars, rvars
  <2> QED BY <1>1, <1>3, <2>1, <2>2 DEF PointerTypes
<1>8. CASE FetchLocal
  <2>1. \E s \in Slot : dispatcher' = [queue |-> "local", slot |-> s] /\ lProc' = After(s)
    BY <1>8 DEF FetchLocal, NextSlots
  <2>2. UNCHANGED <<lCur, rCur, rProc>>
    BY <1>8 DEF FetchLocal, rvars
  <2> QED BY <1>1, <1>2, <1>3, <2>1, <2>2 DEF PointerTypes
<1>9. CASE FetchRemote
  <2>1. dispatcher' = [queue |-> "remote", slot |-> rProc] /\ rProc' = After(rProc)
        /\ UNCHANGED <<lCur, lProc, rCur>>
    BY <1>9 DEF FetchRemote, lvars
  <2> QED BY <1>1, <1>2, <1>3, <2>1 DEF PointerTypes
<1>10. CASE Serve
  <2>1. dispatcher' = Idle /\ UNCHANGED <<lCur, lProc, rCur, rProc>>
    BY <1>10 DEF Serve, ServeRequest, ServeRead, ServePacket, ServeResponse, rvars
  <2> QED BY <1>1, <1>4, <2>1 DEF PointerTypes
<1>11. ASSUME NEW t \in Threads, Return(t) PROVE PointerTypes'
  BY <1>1, <1>11 DEF Return, PointerTypes, lvars, rvars
<1> QED BY <1>5, <1>6, <1>7, <1>8, <1>9, <1>10, <1>11 DEF Next, Fetch

\* A served call posts the semaphore of its thread.
LEMMA Marked ==
  ASSUME SlotTypes, HistoryTypes, NEW s \in Slot, MarkServed(s), lq[s].id # 0
  PROVE  /\ SetState(s, "served")
         /\ sem' = [sem EXCEPT ![lq[s].by] = @ + 1]
         /\ done' = done \union {lq[s].id} /\ done' \subseteq 1..MaxCalls
         /\ again' \subseteq 1..MaxCalls
<1>1. lq[s].id \in 1..MaxCalls
  BY SlotFields, BoundAssumption
<1>2. done' = done \union {lq[s].id} /\ (again' = again \/ again' = again \union {lq[s].id})
  BY DEF MarkServed
<1>3. done' \subseteq 1..MaxCalls /\ again' \subseteq 1..MaxCalls
  BY <1>1, <1>2 DEF HistoryTypes
<1> QED BY <1>2, <1>3 DEF MarkServed

LEMMA ThreadTypesStep ==
  ASSUME TypeOK, Next
  PROVE  ThreadTypes'
<1>1. SlotTypes /\ PointerTypes /\ ThreadTypes /\ CountTypes
  BY TypeParts
<1>2. ASSUME NEW t \in Threads, NEW op \in {"request", "read"}, AddLocal(t, op) PROVE ThreadTypes'
  <2>1. calls + 1 \in 0..MaxCalls
    BY <1>1, <1>2, BoundAssumption DEF CountTypes, AddLocal
  <2>2. [call |-> calls + 1, op |-> op, given |-> FALSE] \in ThreadState
    BY <2>1 DEF ThreadState, Ops
  <2>3. thread' = [thread EXCEPT ![t] = [call |-> calls + 1, op |-> op, given |-> FALSE]]
    BY <1>2 DEF AddLocal
  <2>4. thread' \in [Threads -> ThreadState]
    BY <1>1, <2>2, <2>3 DEF ThreadTypes
  <2>5. sem' \in [Threads -> Nat]
    <3> DEFINE keeps(u) == u = t \/ \E r \in Slot : lq'[r].by = u
    <3>1. sem' = [u \in Threads |-> IF keeps(u) THEN sem[u] ELSE 0]
      BY <1>2 DEF AddLocal
    <3>2. \A u \in Threads : sem[u] \in Nat
      BY <1>1, ThreadFields
    <3>3. \A u \in Threads : (IF keeps(u) THEN sem[u] ELSE 0) \in Nat
      BY <3>2
    <3> HIDE DEF keeps
    <3> QED BY <3>1, <3>3
  <2> QED BY <2>4, <2>5 DEF ThreadTypes
<1>3. ASSUME NEW t \in Threads, Return(t) PROVE ThreadTypes'
  <2>1. thread' = [thread EXCEPT ![t].call = 0]
    BY <1>3 DEF Return
  <2>2. thread[t] \in ThreadState
    BY <1>1, ThreadFields
  <2>3. [thread[t] EXCEPT !.call = 0] \in ThreadState
    BY <2>2, BoundAssumption DEF ThreadState
  <2>4. thread' \in [Threads -> ThreadState]
    BY <1>1, <2>1, <2>3 DEF ThreadTypes
  <2>5. (sem[t] > 0 /\ sem' = [sem EXCEPT ![t] = @ - 1]) \/ sem' = sem
    BY <1>3 DEF Return
  <2>6. sem' \in [Threads -> Nat]
    BY <1>1, <2>5 DEF ThreadTypes
  <2> QED BY <2>4, <2>6 DEF ThreadTypes
<1>4. ASSUME NEW s, MarkServed(s) PROVE sem' \in [Threads -> Nat]
  <2> DEFINE t == lq[s].by
  <2>1. sem' = [sem EXCEPT ![t] = @ + 1]
    BY <1>4 DEF MarkServed
  <2>2. sem \in [Threads -> Nat]
    BY <1>1 DEF ThreadTypes
  <2> HIDE DEF t
  <2>3. CASE t \in Threads
    <3>1. sem[t] + 1 \in Nat
      BY <2>2, <2>3
    <3> QED BY <2>1, <2>2, <3>1
  <2>4. CASE t \notin Threads
    <3>1. sem' = sem
      BY <2>1, <2>2, <2>4
    <3> QED BY <2>2, <3>1
  <2> QED BY <2>3, <2>4
<1>5. CASE ServeRead
  <2>1. sem' \in [Threads -> Nat]
    <3>1. MarkServed(dispatcher.slot) \/ sem' = sem
      BY <1>5 DEF ServeRead
    <3> QED BY <1>1, <1>4, <3>1 DEF ThreadTypes
  <2>2. thread' \in [Threads -> ThreadState]
    <3> DEFINE t == lq[dispatcher.slot].by
               b == thread[t].given \/ thread[t].call = lq[dispatcher.slot].id
    <3>1. thread' = [thread EXCEPT ![t].given = b] \/ thread' = thread
      BY <1>5 DEF ServeRead
    <3>2. CASE t \in Threads
      <4>1. thread[t] \in ThreadState
        BY <1>1, <3>2, ThreadFields
      <4>2. b \in BOOLEAN
        BY <4>1, Zenon DEF ThreadState
      <4>3. [thread[t] EXCEPT !.given = b] \in ThreadState
        <5> HIDE DEF b
        <5> QED BY <4>1, <4>2 DEF ThreadState
      <4> HIDE DEF b, t
      <4> QED BY <1>1, <3>1, <3>2, <4>3 DEF ThreadTypes
    <3>3. CASE t \notin Threads
      <4> HIDE DEF b, t
      <4> QED BY <1>1, <3>1, <3>3 DEF ThreadTypes
    <3> QED BY <3>2, <3>3
  <2> QED BY <2>1, <2>2 DEF ThreadTypes
<1>6. CASE ServeResponse
  <2>1. thread' = thread /\ \E s : MarkServed(s)
    BY <1>6 DEF ServeResponse
  <2> QED BY <1>1, <1>4, <2>1 DEF ThreadTypes
<1>7. CASE ReceiveResponse \/ ReceivePacket \/ Fetch \/ ServeRequest \/ ServePacket
  <2>1. thread' = thread /\ sem' = sem
    BY <1>7 DEF ReceiveResponse, ReceivePacket, AddRemote, Fetch, FetchReady, FetchLocal,
                FetchRemote, ServeRequest, ServePacket
  <2> QED BY <1>1, <2>1 DEF ThreadTypes
<1> QED BY <1>2, <1>3, <1>5, <1>6, <1>7 DEF Next, Serve

LEMMA CountTypesStep ==
  ASSUME TypeOK, SlotsKept, Next
  PROVE  CountTypes'
<1>1. SlotTypes /\ PointerTypes /\ CountTypes
  BY TypeParts
<1>2. notify' \in Nat
  <2>1. notify' = notify \/ notify' = notify + 1 \/ (notify > 0 /\ notify' = notify - 1)
    BY DEF Next, AddLocal, Return, ReceiveResponse, ReceivePacket, AddRemote, Fetch, FetchReady,
           FetchLocal, FetchRemote, Serve, ServeRequest, ServeRead, ServePacket, ServeResponse
  <2> QED BY <1>1, <2>1 DEF CountTypes
<1>3. calls' \in 0..MaxCalls
  <2>1. calls' = calls \/ (calls < MaxCalls /\ calls' = calls + 1)
    BY DEF Next, AddLocal, Return, ReceiveResponse, ReceivePacket, AddRemote, Fetch, FetchReady,
           FetchLocal, FetchRemote, Serve, ServeRequest, ServeRead, ServePacket, ServeResponse
  <2> QED BY <1>1, <2>1, BoundAssumption DEF CountTypes
<1>4. arrived' \in 0..MaxPackets /\ packets' \in 0..arrived'
  <2>1. \/ arrived' = arrived /\ packets' = packets
        \/ arrived < MaxPackets /\ arrived' = arrived + 1 /\ packets' = packets + 1
        \/ arrived' = arrived /\ packets > 0 /\ packets' = packets - 1
    BY DEF Next, AddLocal, Return, ReceiveResponse, ReceivePacket, AddRemote, Fetch, FetchReady,
           FetchLocal, FetchRemote, Serve, ServeRequest, ServeRead, ServePacket, ServeResponse
  <2> QED BY <1>1, <2>1, BoundAssumption DEF CountTypes
<1>5. wire' \in Seq(1..MaxCalls)
  <2>1. CASE ServeRequest
    <3>1. wire' = Append(wire, lq[dispatcher.slot].id) /\ lq[dispatcher.slot].op = "request"
      BY <2>1 DEF ServeRequest
    <3>2. dispatcher.slot \in Slot
      BY <1>1 DEF PointerTypes
    <3>3. lq[dispatcher.slot].id \in 1..MaxCalls
      <4>1. lq[dispatcher.slot].id # 0
        BY <3>1, <3>2 DEF SlotsKept
      <4>2. lq[dispatcher.slot].id \in Nat /\ lq[dispatcher.slot].id <= MaxCalls
        BY <1>1, <3>2, SlotFields
      <4> QED BY <4>1, <4>2, BoundAssumption
    <3> QED BY <1>1, <3>1, <3>3, AppendProperties DEF CountTypes
  <2>2. CASE ReceiveResponse
    <3>1. wire # <<>> /\ wire' = Tail(wire)
      BY <2>2 DEF ReceiveResponse
    <3> QED BY <1>1, <3>1, HeadTailProperties DEF CountTypes
  <2>3. CASE wire' = wire
    BY <1>1, <2>3 DEF CountTypes
  <2>4. ServeRequest \/ ReceiveResponse \/ wire' = wire
    BY DEF Next, AddLocal, Return, ReceivePacket, Fetch, FetchReady,
           FetchLocal, FetchRemote, Serve, ServeRead, ServePacket, ServeResponse
  <2> QED BY <2>1, <2>2, <2>3, <2>4
<1> QED BY <1>2, <1>3, <1>4, <1>5 DEF CountTypes

LEMMA HistoryTypesStep ==
  ASSUME TypeOK, SlotsKept, Next
  PROVE  HistoryTypes'
<1>1. SlotTypes /\ PointerTypes /\ ThreadTypes /\ HistoryTypes
  BY TypeParts
<1>2. ASSUME NEW t \in Threads, Return(t) PROVE HistoryTypes'
  <2>1. thread[t].call \in 1..MaxCalls
    <3>1. thread[t].call # 0
      BY <1>2 DEF Return, Waiting
    <3>2. thread[t].call \in Nat /\ thread[t].call <= MaxCalls
      BY <1>1, ThreadFields
    <3> QED BY <3>1, <3>2, BoundAssumption
  <2>2. empty' \subseteq empty \union {thread[t].call} /\ UNCHANGED <<done, again, lapped>>
    BY <1>2 DEF Return
  <2> QED BY <1>1, <2>1, <2>2 DEF HistoryTypes
<1>3. ASSUME NEW t \in Threads, NEW op \in {"request", "read"}, AddLocal(t, op) PROVE HistoryTypes'
  <2>1. lapped' = (lapped \/ Open(lCur)) /\ UNCHANGED <<done, again, empty>>
    BY <1>3 DEF AddLocal
  <2>2. lapped' \in BOOLEAN
    BY <2>1
  <2> QED BY <1>1, <2>1, <2>2 DEF HistoryTypes
<1>4. CASE ServeRead
  <2>1. UNCHANGED <<empty, lapped>> /\ (MarkServed(dispatcher.slot) \/ UNCHANGED <<done, again>>)
    BY <1>4 DEF ServeRead
  <2>2. dispatcher.slot \in Slot /\ lq[dispatcher.slot].op = "read"
    BY <1>1, <1>4 DEF PointerTypes, ServeRead
  <2>3. lq[dispatcher.slot].id # 0
    BY <2>2 DEF SlotsKept
  <2>4. done' \subseteq 1..MaxCalls /\ again' \subseteq 1..MaxCalls
    <3>1. CASE MarkServed(dispatcher.slot)
      BY <1>1, <2>2, <2>3, <3>1, Marked
    <3>2. CASE UNCHANGED <<done, again>>
      BY <1>1, <3>2 DEF HistoryTypes
    <3> QED BY <2>1, <3>1, <3>2
  <2> QED BY <1>1, <2>1, <2>4 DEF HistoryTypes
<1>5. CASE ServeResponse
  <2>1. UNCHANGED <<empty, lapped>> /\ rq[dispatcher.slot].kind = "response"
        /\ \E s \in Requests(rq[dispatcher.slot].id) : MarkServed(s)
    BY <1>5 DEF ServeResponse
  <2>2. PICK s \in Slot : MarkServed(s) /\ lq[s].id = rq[dispatcher.slot].id
    BY <2>1 DEF Requests
  <2>3. lq[s].id # 0
    <3>1. dispatcher.slot \in Slot
      BY <1>1 DEF PointerTypes
    <3> QED BY <2>1, <2>2, <3>1 DEF SlotsKept
  <2>4. done' \subseteq 1..MaxCalls /\ again' \subseteq 1..MaxCalls
    BY <1>1, <2>2, <2>3, Marked
  <2> QED BY <1>1, <2>1, <2>4 DEF HistoryTypes
<1>6. CASE ReceiveResponse \/ ReceivePacket \/ Fetch \/ ServeRequest \/ ServePacket
  <2>1. UNCHANGED <<done, again, empty, lapped>>
    BY <1>6 DEF ReceiveResponse, ReceivePacket, AddRemote, Fetch, FetchReady, FetchLocal,
                FetchRemote, ServeRequest, ServePacket, history
  <2> QED BY <1>1, <2>1 DEF HistoryTypes
<1> QED BY <1>2, <1>3, <1>4, <1>5, <1>6 DEF Next, Serve

LEMMA SlotsStep ==
  ASSUME TypeOK, SlotsKept, Next
  PROVE  SlotsKept'
<1>1. SlotTypes /\ PointerTypes /\ CountTypes
  BY TypeParts
<1>2. dispatcher.slot \in Slot
  BY <1>1 DEF PointerTypes
<1>3. ASSUME NEW t \in Threads, NEW op \in {"request", "read"}, AddLocal(t, op) PROVE SlotsKept'
  <2>1. calls \in Nat /\ calls' = calls + 1 /\ rq' = rq /\ calls + 1 \in 0..MaxCalls
    BY <1>1, <1>3, BoundAssumption DEF CountTypes, AddLocal, rvars
  <2>2. PICK s \in Slot :
          lq' = [lq EXCEPT ![s] = [state |-> "served", id |-> calls + 1, op |-> op, by |-> t]]
    BY <1>3 DEF AddLocal, NextSlots
  <2>3. [state |-> "served", id |-> calls + 1, op |-> op, by |-> t] \in LocalSlot
    BY <2>1 DEF LocalSlot, States, Ops
  <2>4. /\ lq'[s] = [state |-> "served", id |-> calls + 1, op |-> op, by |-> t]
        /\ \A r \in Slot : r # s => lq'[r] = lq[r]
    BY <1>1, <2>2, <2>3, AddedSlot
  <2>5. lq'[s].id = calls + 1 /\ lq'[s].op = op /\ lq'[s].by = t /\ t # None /\ op # "none"
    BY <2>4, SlotAssumption
  <2>6. \A r \in Slot : lq[r].id \in Nat
    BY <1>1, SlotFields
  <2>7. ASSUME NEW r \in Slot
        PROVE  /\ lq'[r].op # "none" <=> lq'[r].id # 0
               /\ lq'[r].by # None <=> lq'[r].id # 0
               /\ lq'[r].id <= calls'
    <3>1. CASE r = s
      BY <2>1, <2>5, <3>1
    <3>2. CASE r # s
      <4>1. /\ lq[r].op # "none" <=> lq[r].id # 0
            /\ lq[r].by # None <=> lq[r].id # 0
            /\ lq[r].id <= calls /\ lq'[r] = lq[r]
        BY <2>4, <3>2 DEF SlotsKept
      <4> QED BY <2>1, <2>6, <4>1
    <3> QED BY <3>1, <3>2
  <2> QED BY <2>1, <2>7 DEF SlotsKept
<1>4. ASSUME NEW s \in Slot, NEW state \in States, SetState(s, state), rq' = rq, calls' = calls
      PROVE  SlotsKept'
  <2>1. \A r \in Slot : lq'[r].id = lq[r].id /\ lq'[r].op = lq[r].op /\ lq'[r].by = lq[r].by
    BY <1>1, <1>4, StateSet
  <2> QED BY <1>4, <2>1 DEF SlotsKept
<1>5. ASSUME lq' = lq, rq' = rq, calls' = calls PROVE SlotsKept'
  BY <1>5 DEF SlotsKept
<1>6. ASSUME NEW event, AddRemote(event), event.kind = "response" => event.id # 0,
             calls' = calls
      PROVE  SlotsKept'
  <2>1. lq' = lq /\ rq' = [rq EXCEPT ![rCur] = event]
    BY <1>6 DEF AddRemote, lvars
  <2>2. \A s \in Slot : rq'[s] = rq[s] \/ rq'[s] = event
    BY <1>1, <2>1 DEF SlotTypes
  <2>3. \A s \in Slot : rq'[s].kind = "response" => rq'[s].id # 0
    BY <1>6, <2>2 DEF SlotsKept
  <2> QED BY <1>6, <2>1, <2>3 DEF SlotsKept
<1>7. CASE ReceiveResponse
  <2>1. wire # <<>> /\ AddRemote([kind |-> "response", id |-> Head(wire)]) /\ calls' = calls
    BY <1>7 DEF ReceiveResponse, AddRemote
  <2>2. Head(wire) \in 1..MaxCalls
    BY <1>1, <2>1, HeadTailProperties DEF CountTypes
  <2> QED BY <1>6, <2>1, <2>2
<1>8. CASE ReceivePacket
  BY <1>6, <1>8 DEF ReceivePacket, AddRemote
<1>9. CASE ServeRequest
  <2>1. SetState(dispatcher.slot, "pending") /\ rq' = rq /\ calls' = calls
    BY <1>9 DEF ServeRequest, rvars
  <2> QED BY <1>2, <1>4, <2>1 DEF States
<1>10. CASE ServeRead
  <2>1. rq' = rq /\ calls' = calls
        /\ (SetState(dispatcher.slot, "served") \/ SetState(dispatcher.slot, "blocked"))
    BY <1>10 DEF ServeRead, MarkServed, rvars
  <2> QED BY <1>2, <1>4, <2>1 DEF States
<1>11. CASE ServePacket
  <2>1. rq' = rq /\ calls' = calls
        /\ ((\E s \in Slot : SetState(s, "ready")) \/ lq' = lq)
    BY <1>11 DEF ServePacket, NextSlots, rvars
  <2> QED BY <1>4, <1>5, <2>1 DEF States
<1>12. CASE ServeResponse
  <2>1. rq' = rq /\ calls' = calls /\ \E s \in Slot : SetState(s, "served")
    BY <1>12 DEF ServeResponse, MarkServed, Requests, rvars
  <2> QED BY <1>4, <2>1 DEF States
<1>13. CASE (\E t \in Threads : Return(t)) \/ Fetch
  <2>1. lq' = lq /\ rq' = rq /\ calls' = calls
    BY <1>13 DEF Return, Fetch, FetchReady, FetchLocal, FetchRemote, lvars, rvars
  <2> QED BY <1>5, <2>1
<1> QED BY <1>3, <1>7, <1>8, <1>9, <1>10, <1>11, <1>12, <1>13 DEF Next, Serve

-----------------------------------------------------------------------------
(* As long as no call was lapped                                           *)

\* A call that was not served is the one its thread waits in.
LEMMA Owner ==
  ASSUME TypeOK, SlotsKept, CallsKept, NEW s \in Slot, ~Finished(s)
  PROVE  /\ lq[s].by \in Threads /\ Waiting(lq[s].by) /\ thread[lq[s].by].call = lq[s].id
         /\ thread[lq[s].by].op = lq[s].op /\ lq[s].id # 0 /\ lq[s].id \notin done
<1>1. SlotTypes
  BY TypeParts
<1>2. Open(s) /\ lq[s].id # 0 /\ lq[s].id \notin done
  BY DEF CallsKept, Finished
<1>3. lq[s].by \in Threads /\ thread[lq[s].by].call = lq[s].id /\ Waiting(lq[s].by)
  BY <1>1, <1>2, SlotFields DEF Open, Waiting
<1>4. PICK r \in Slot : lq[r].by = lq[s].by /\ lq[r].id = thread[lq[s].by].call
                        /\ lq[r].op = thread[lq[s].by].op
  BY <1>3 DEF CallsKept
<1>5. r = s
  BY <1>2, <1>3, <1>4 DEF CallsKept
<1> QED BY <1>2, <1>3, <1>4, <1>5

LEMMA SlotFinite == IsFiniteSet(Slot)
BY SlotNumbers, FS_Interval DEF Slot

\* The queue of local events is shorter than a lap: each stands for a thread that waits.
LEMMA QueueShort ==
  ASSUME TypeOK, SlotsKept, CallsKept, QueueKept, NEW t \in Threads, ~Waiting(t)
  PROVE  Distance(lProc, lCur) + 1 < Slots
<1> DEFINE others == Threads \ {t}
           owner == [s \in LocalQueue |-> lq[s].by]
<1>1. lProc \in Slot /\ lCur \in Slot
  BY TypeParts DEF PointerTypes
<1>2. LocalQueue \subseteq Slot
  BY <1>1, WindowSlots DEF LocalQueue
<1>3. \A s \in LocalQueue : lq[s].by \in others
  <2>1. ASSUME NEW s \in LocalQueue PROVE lq[s].by \in others
    <3>1. s \in Slot /\ ~Finished(s)
      BY <1>2 DEF QueueKept
    <3>2. lq[s].by \in Threads /\ Waiting(lq[s].by)
      BY <3>1, Owner
    <3> QED BY <3>2
  <2> QED BY <2>1
<1>4. ASSUME NEW r \in LocalQueue, NEW s \in LocalQueue, lq[r].by = lq[s].by PROVE r = s
  <2>1. r \in Slot /\ ~Finished(r) /\ s \in Slot /\ ~Finished(s)
    BY <1>2 DEF QueueKept
  <2>2. lq[r].id = thread[lq[r].by].call /\ lq[r].id # 0
    BY <2>1, Owner
  <2>3. lq[s].id = thread[lq[s].by].call
    BY <2>1, Owner
  <2> QED BY <1>4, <2>1, <2>2, <2>3 DEF CallsKept
<1>5. owner \in Injection(LocalQueue, others)
  <2> HIDE DEF others
  <2> QED BY <1>3, <1>4 DEF Injection, IsInjective
<1>6. IsFiniteSet(others) /\ Cardinality(others) = Cardinality(Threads) - 1
  BY SlotAssumption, FS_RemoveElement
<1>7. Cardinality(LocalQueue) <= Cardinality(others)
  BY <1>5, <1>6, FS_Injection
<1>8. Cardinality(LocalQueue) = Distance(lProc, lCur) /\ Distance(lProc, lCur) \in Nat
  BY <1>1, WindowSize, Rounds DEF LocalQueue
<1> QED BY <1>6, <1>7, <1>8, SlotNumbers

\* So is the queue of remote events: each stands for a thread that waits, here or there.
LEMMA RemoteParts ==
  /\ Responses = {s \in RemoteEvents : rq[s].kind = "response"}
  /\ Unanswered = {s \in RemoteEvents : rq[s].kind = "packet"}
<1>1. \A s \in Slot : s \in Unanswered <=> s \in RemoteEvents /\ rq[s].kind = "packet"
  BY DEF Unanswered, RemoteEvents, Window
<1>2. Unanswered \subseteq Slot /\ RemoteEvents \subseteq Slot
  BY DEF Unanswered, RemoteEvents
<1> QED BY <1>1, <1>2 DEF Responses

LEMMA AnswerOwner ==
  ASSUME TypeOK, SlotsKept, CallsKept, NEW id, Requests(id) # {}
  PROVE  \E t \in Threads : thread[t].call = id
<1>1. PICK s \in Slot : lq[s].state = "pending" /\ lq[s].id = id
  BY DEF Requests
<1>2. ~Finished(s)
  BY <1>1 DEF CallsKept
<1> QED BY <1>1, <1>2, Owner

LEMMA ResponsesFew ==
  ASSUME TypeOK, SlotsKept, CallsKept, AnswersKept
  PROVE  /\ Cardinality(Responses) \in Nat /\ Cardinality(Responses) <= Cardinality(Threads)
         /\ wire # <<>> => Cardinality(Responses) + 1 <= Cardinality(Threads)
<1> DEFINE owner == [s \in Responses |-> CHOOSE t \in Threads : thread[t].call = rq[s].id]
<1>1. IsFiniteSet(Responses) /\ Cardinality(Responses) \in Nat
  <2>1. Responses \subseteq Slot
    BY DEF Responses, RemoteEvents
  <2>2. IsFiniteSet(Responses)
    BY <2>1, SlotFinite, FS_Subset
  <2> QED BY <2>2, FS_CardinalityType
<1>2. ASSUME NEW s \in Responses PROVE owner[s] \in Threads /\ thread[owner[s]].call = rq[s].id
  <2>1. \E t \in Threads : thread[t].call = rq[s].id
    BY AnswerOwner DEF AnswersKept
  <2> QED BY <2>1
<1>3. ASSUME NEW r \in Responses, NEW s \in Responses, owner[r] = owner[s] PROVE r = s
  BY <1>2, <1>3 DEF AnswersKept
<1>4. DOMAIN owner = Responses /\ owner = [s \in Responses |-> owner[s]]
  OBVIOUS
<1> HIDE DEF owner
<1>5. Cardinality(Responses) <= Cardinality(Threads)
  <2>1. owner \in Injection(Responses, Threads)
    BY <1>2, <1>3, <1>4 DEF Injection, IsInjective
  <2> QED BY <2>1, SlotAssumption, FS_Injection
<1>6. ASSUME wire # <<>> PROVE Cardinality(Responses) + 1 <= Cardinality(Threads)
  <2>1. 1 \in DOMAIN wire
    <3>1. wire \in Seq(1..MaxCalls)
      BY TypeParts DEF CountTypes
    <3> QED BY <1>6, <3>1, EmptySeq
  <2>2. PICK t \in Threads : thread[t].call = wire[1]
    BY <2>1, AnswerOwner DEF AnswersKept
  <2> DEFINE others == Threads \ {t}
  <2>3. \A s \in Responses : owner[s] \in others
    <3>1. \A s \in Responses : rq[s].id # wire[1]
      BY <2>1 DEF AnswersKept
    <3> QED BY <1>2, <2>2, <3>1
  <2>4. IsFiniteSet(others) /\ Cardinality(others) = Cardinality(Threads) - 1
    BY SlotAssumption, FS_RemoveElement
  <2> HIDE DEF others
  <2>5. owner \in Injection(Responses, others)
    BY <1>3, <1>4, <2>3 DEF Injection, IsInjective
  <2>6. Cardinality(Responses) <= Cardinality(others)
    BY <2>4, <2>5, FS_Injection
  <2> QED BY <1>1, <2>4, <2>6, SlotNumbers
<1> QED BY <1>1, <1>5, <1>6

LEMMA RemoteShort ==
  ASSUME TypeOK, SlotsKept, CallsKept, AnswersKept, RemoteKept,
         wire # <<>> \/ Cardinality(Unanswered) < PeerCalls
  PROVE  Distance(rProc, rCur) + 1 < Slots /\ rCur \notin RemoteEvents
<1> DEFINE window == Window(rProc, rCur)
<1>1. rProc \in Slot /\ rCur \in Slot /\ dispatcher.slot \in Slot
  BY TypeParts DEF PointerTypes
<1>2. RemoteEvents = Responses \union Unanswered
  BY RemoteParts DEF RemoteKept
<1>3. /\ IsFiniteSet(Responses) /\ IsFiniteSet(Unanswered) /\ IsFiniteSet(RemoteEvents)
      /\ Cardinality(Responses) \in Nat /\ Cardinality(Unanswered) \in Nat
      /\ Cardinality(RemoteEvents) \in Nat
  <2>1. Responses \subseteq Slot /\ Unanswered \subseteq Slot /\ RemoteEvents \subseteq Slot
    BY DEF Responses, Unanswered, RemoteEvents
  <2>2. IsFiniteSet(Responses) /\ IsFiniteSet(Unanswered) /\ IsFiniteSet(RemoteEvents)
    BY <2>1, SlotFinite, FS_Subset
  <2> QED BY <2>2, FS_CardinalityType
<1>4. Cardinality(RemoteEvents) <= Cardinality(Responses) + Cardinality(Unanswered)
  <2>1. Cardinality(RemoteEvents) = Cardinality(Responses) + Cardinality(Unanswered)
                                      - Cardinality(Responses \cap Unanswered)
    BY <1>2, <1>3, FS_Union
  <2>2. IsFiniteSet(Responses \cap Unanswered)
    BY <1>3, FS_Subset
  <2>3. Cardinality(Responses \cap Unanswered) \in Nat
    BY <2>2, FS_CardinalityType
  <2> QED BY <1>3, <2>1, <2>3
<1>5. Cardinality(RemoteEvents) + 1 < Slots
  <2>1. Cardinality(Responses) <= Cardinality(Threads)
        /\ (wire # <<>> => Cardinality(Responses) + 1 <= Cardinality(Threads))
    BY ResponsesFew
  <2>2. Cardinality(Unanswered) <= PeerCalls
    BY DEF RemoteKept
  <2> QED BY <1>3, <1>4, <2>1, <2>2, SlotNumbers
<1>6. /\ IsFiniteSet(window) /\ Cardinality(window) = Distance(rProc, rCur)
      /\ Distance(rProc, rCur) \in Nat /\ rCur \notin window /\ window \subseteq RemoteEvents
      /\ \A s \in Slot : After(s) = rProc => s \notin window
  BY <1>1, WindowSize, WindowSlots, Rounds DEF RemoteEvents
<1>7. CASE dispatcher.queue = "remote"
  <2> DEFINE held == dispatcher.slot
  <2>1. held \notin window /\ After(held) = rProc
    BY <1>1, <1>6, <1>7 DEF RemoteKept
  <2>2. held \in RemoteEvents
    <3>1. dispatcher = [queue |-> "remote", slot |-> held]
      BY <1>7, TypeParts DEF PointerTypes
    <3> QED BY <1>1, <3>1 DEF RemoteEvents
  <2>3. Cardinality(window \union {held}) = Cardinality(window) + 1
    BY <1>6, <2>1, FS_AddElement
  <2>4. Cardinality(window \union {held}) <= Cardinality(RemoteEvents)
    BY <1>3, <1>6, <2>2, FS_Subset
  <2>5. Distance(rProc, rCur) + 2 < Slots
    BY <1>3, <1>5, <1>6, <2>3, <2>4, SlotNumbers
  <2>6. rCur # held
    <3>1. ASSUME rCur = held PROVE FALSE
      <4>1. rProc = IF rCur + 1 < Slots THEN rCur + 1 ELSE 0
        BY <1>1, <2>1, <3>1, Rounds
      <4>2. Distance(rProc, rCur) = IF rProc <= rCur THEN rCur - rProc ELSE rCur + Slots - rProc
        BY <1>1, Rounds
      <4>3. rCur \in Nat /\ rCur < Slots
        BY <1>1, SlotNumbers
      <4> QED BY <2>5, <4>1, <4>2, <4>3, SlotNumbers
    <3> QED BY <3>1
  <2>7. ASSUME NEW s \in RemoteEvents PROVE s \in window \/ s = held
    BY DEF RemoteEvents
  <2> QED BY <1>6, <2>5, <2>6, <2>7, SlotNumbers
<1>8. CASE dispatcher.queue # "remote"
  <2>1. RemoteEvents \subseteq window
    BY <1>8 DEF RemoteEvents
  <2>2. Cardinality(window) <= Cardinality(RemoteEvents)
    BY <1>3, <1>6, FS_Subset
  <2> QED BY <1>3, <1>5, <1>6, <2>1, <2>2, SlotNumbers
<1> QED BY <1>7, <1>8

-----------------------------------------------------------------------------
(* A new call                                                              *)

\* It goes into the slot whose turn it is, which nobody waits for.
LEMMA AddedInTurn ==
  ASSUME TypeOK, SlotsKept, CallsKept, QueueKept,
         NEW t \in Threads, NEW op \in {"request", "read"}, AddLocal(t, op), ~lapped'
  PROVE  /\ ~lapped /\ ~Open(lCur) /\ ~Waiting(t) /\ lCur \in Slot
         /\ calls \in Nat /\ calls + 1 \in 0..MaxCalls
         /\ Finished(lCur) /\ lq[lCur].state = "served"
         /\ lCur' = After(lCur)
         /\ lq' = [lq EXCEPT ![lCur] = [state |-> "served", id |-> calls + 1, op |-> op, by |-> t]]
<1>1. PointerTypes /\ CountTypes
  BY TypeParts
<1>2. lCur \in Slot /\ calls \in Nat /\ calls + 1 \in 0..MaxCalls
  BY <1>1, BoundAssumption DEF PointerTypes, CountTypes, AddLocal
<1>3. ~lapped /\ ~Open(lCur) /\ ~Waiting(t)
  BY DEF AddLocal
<1>4. Finished(lCur) /\ lq[lCur].state = "served"
  BY <1>2, <1>3 DEF CallsKept
<1>5. NextSlots(lCur, "served") = {lCur}
  BY <1>2, <1>4, NextAt
<1>6. /\ lq' = [lq EXCEPT ![lCur] = [state |-> "served", id |-> calls + 1, op |-> op, by |-> t]]
      /\ lCur' = After(lCur)
  BY <1>5 DEF AddLocal
<1> QED BY <1>2, <1>3, <1>4, <1>6

LEMMA AddedPlace ==
  ASSUME TypeOK, SlotsKept, CallsKept, QueueKept,
         NEW t \in Threads, NEW op \in {"request", "read"}, AddLocal(t, op), ~lapped'
  PROVE  /\ ~lapped /\ ~Open(lCur) /\ ~Waiting(t) /\ lCur \in Slot /\ calls \in Nat
         /\ Finished(lCur) /\ lq[lCur].state = "served"
         /\ LocalQueue' = LocalQueue \union {lCur}
         /\ Distance(lProc, lCur)' = Distance(lProc, lCur) + 1
<1>1. /\ ~lapped /\ ~Open(lCur) /\ ~Waiting(t) /\ lCur \in Slot /\ calls \in Nat
      /\ Finished(lCur) /\ lq[lCur].state = "served" /\ lCur' = After(lCur)
  BY AddedInTurn
<1>2. lProc \in Slot /\ lProc' = lProc
  BY TypeParts DEF PointerTypes, AddLocal
<1>3. Distance(lProc, lCur) + 1 < Slots
  BY <1>1, QueueShort
<1>4. /\ Distance(lProc, After(lCur)) = Distance(lProc, lCur) + 1
      /\ Window(lProc, After(lCur)) = Window(lProc, lCur) \union {lCur}
  BY <1>1, <1>2, <1>3, WindowAdds
<1>5. LocalQueue' = LocalQueue \union {lCur} /\ Distance(lProc, lCur)' = Distance(lProc, lCur) + 1
  BY <1>1, <1>2, <1>4 DEF LocalQueue, Window, Distance
<1> QED BY <1>1, <1>5

LEMMA AddedOthers ==
  ASSUME TypeOK, SlotsKept, CallsKept, QueueKept,
         NEW t \in Threads, NEW op \in {"request", "read"}, AddLocal(t, op), ~lapped'
  PROVE  /\ \A r \in Slot : r # lCur => lq'[r] = lq[r]
         /\ \A u \in Threads : u # t => thread'[u] = thread[u]
<1>1. lq' = [lq EXCEPT ![lCur] = [state |-> "served", id |-> calls + 1, op |-> op, by |-> t]]
  BY AddedInTurn
<1>2. \A r \in Slot : r # lCur => lq'[r] = lq[r]
  BY <1>1, TypeParts DEF SlotTypes
<1>3. \A u \in Threads : u # t => thread'[u] = thread[u]
  BY TypeParts DEF ThreadTypes, AddLocal
<1> QED BY <1>2, <1>3

LEMMA AddedCall ==
  ASSUME TypeOK, SlotsKept, CallsKept, QueueKept,
         NEW t \in Threads, NEW op \in {"request", "read"}, AddLocal(t, op), ~lapped'
  PROVE  /\ lq'[lCur].id = calls + 1 /\ lq'[lCur].op = op /\ lq'[lCur].by = t
         /\ lq'[lCur].state = "served"
         /\ thread'[t].call = calls + 1 /\ thread'[t].op = op
<1>1. /\ lq' = [lq EXCEPT ![lCur] = [state |-> "served", id |-> calls + 1, op |-> op, by |-> t]]
      /\ lCur \in Slot
  BY AddedInTurn
<1>2. lq'[lCur] = [state |-> "served", id |-> calls + 1, op |-> op, by |-> t]
  BY <1>1, TypeParts DEF SlotTypes
<1>3. thread'[t] = [call |-> calls + 1, op |-> op, given |-> FALSE]
  BY TypeParts DEF ThreadTypes, AddLocal
<1> QED BY <1>2, <1>3

LEMMA AddedWake ==
  ASSUME TypeOK, SlotsKept, CallsKept, QueueKept,
         NEW t \in Threads, NEW op \in {"request", "read"}, AddLocal(t, op), ~lapped'
  PROVE  /\ sem'[t] = sem[t]
         /\ \A u \in Threads : \A r \in Slot : lq'[r].by = u => sem'[u] = sem[u]
         /\ \A u \in Threads : sem'[u] = sem[u] \/ sem'[u] = 0
<1> DEFINE has(u) == \E r \in Slot : lq'[r].by = u
<1>1. sem' = [u \in Threads |-> IF u = t \/ has(u) THEN sem[u] ELSE 0]
  BY DEF AddLocal
<1>2. \A u \in Threads : \A r \in Slot : lq'[r].by = u => has(u)
  OBVIOUS
<1> HIDE DEF has
<1> QED BY <1>1, <1>2

LEMMA AddedCalls ==
  ASSUME TypeOK, SlotsKept, CallsKept, QueueKept,
         NEW t \in Threads, NEW op \in {"request", "read"}, AddLocal(t, op), ~lapped'
  PROVE  CallsKept'
<1>1. SlotTypes /\ ThreadTypes
  BY TypeParts
<1>2. /\ ~Open(lCur) /\ ~Waiting(t) /\ lCur \in Slot /\ calls \in Nat /\ Finished(lCur)
      /\ \A r \in Slot : r # lCur => lq'[r] = lq[r]
      /\ \A u \in Threads : u # t => thread'[u] = thread[u]
  BY AddedPlace, AddedOthers
<1>3. /\ lq'[lCur].id = calls + 1 /\ lq'[lCur].op = op /\ lq'[lCur].by = t
      /\ lq'[lCur].state = "served"
      /\ thread'[t].call = calls + 1 /\ thread'[t].op = op
  BY AddedCall
<1>4. calls' = calls + 1 /\ done' = done
  BY DEF AddLocal
<1>5. \A r \in Slot : lq[r].id \in Nat /\ lq[r].id <= calls
  BY <1>1, SlotFields DEF SlotsKept
<1>6. t # None /\ calls + 1 # 0 /\ None \notin Threads
  BY <1>2, SlotAssumption
<1>7. ASSUME NEW u \in Threads, Waiting(u)'
      PROVE  \E s \in Slot : lq'[s].by = u /\ lq'[s].id = thread'[u].call
               /\ lq'[s].op = thread'[u].op
  <2>1. CASE u = t
    BY <1>2, <1>3, <2>1
  <2>2. CASE u # t
    <3>1. thread'[u] = thread[u] /\ Waiting(u)
      BY <1>2, <1>7, <2>2 DEF Waiting
    <3>2. PICK s \in Slot : lq[s].by = u /\ lq[s].id = thread[u].call /\ lq[s].op = thread[u].op
      BY <3>1 DEF CallsKept
    <3>3. s # lCur
      BY <1>2, <1>6, <3>2 DEF Open
    <3> QED BY <1>2, <3>1, <3>2, <3>3
  <2> QED BY <2>1, <2>2
<1>8. ASSUME NEW r \in Slot, NEW s \in Slot, lq'[r].id = lq'[s].id, lq'[r].id # 0 PROVE r = s
  <2>1. CASE r # lCur /\ s # lCur
    BY <1>2, <1>8, <2>1 DEF CallsKept
  <2>2. CASE r = lCur /\ s # lCur
    BY <1>2, <1>3, <1>5, <1>8, <2>2
  <2>3. CASE r # lCur /\ s = lCur
    BY <1>2, <1>3, <1>5, <1>8, <2>3
  <2> QED BY <2>1, <2>2, <2>3
<1>9. ASSUME NEW s \in Slot
      PROVE  /\ Finished(s)' \/ Open(s)'
             /\ lq'[s].state # "served" => ~Finished(s)'
             /\ lq'[s].state = "pending" => lq'[s].op = "request"
             /\ lq'[s].state \in {"blocked", "ready"} => lq'[s].op = "read"
  <2>1. CASE s = lCur
    BY <1>3, <1>6, <2>1 DEF Open
  <2>2. CASE s # lCur
    <3>1. lq'[s] = lq[s] /\ (Finished(s)' <=> Finished(s))
      BY <1>2, <1>4, <2>2 DEF Finished
    <3>2. Open(s) => Open(s)'
      <4>1. ASSUME Open(s), lq[s].id # 0 PROVE Open(s)'
        <5>1. lq[s].by \in Threads /\ lq[s].by # None /\ thread[lq[s].by].call = lq[s].id
          BY <1>1, <4>1, SlotFields DEF Open
        <5>2. lq[s].by # t
          BY <1>2, <4>1, <5>1 DEF Waiting
        <5>3. thread'[lq[s].by] = thread[lq[s].by]
          BY <1>2, <5>1, <5>2
        <5> QED BY <3>1, <5>1, <5>3 DEF Open
      <4>2. Open(s) => lq[s].id # 0
        BY DEF Open, SlotsKept
      <4> QED BY <4>1, <4>2
    <3>3. /\ Finished(s) \/ Open(s)
          /\ lq[s].state # "served" => ~Finished(s)
          /\ lq[s].state = "pending" => lq[s].op = "request"
          /\ lq[s].state \in {"blocked", "ready"} => lq[s].op = "read"
      BY DEF CallsKept
    <3> QED BY <3>1, <3>2, <3>3
  <2> QED BY <2>1, <2>2
<1>10. \A c \in done' : c <= calls'
  <2>1. \A c \in done : c \in Nat /\ c <= calls
    BY TypeParts, BoundAssumption DEF CallsKept, HistoryTypes
  <2> QED BY <1>2, <1>4, <2>1
<1> QED BY <1>7, <1>8, <1>9, <1>10 DEF CallsKept

LEMMA AddedQueue ==
  ASSUME TypeOK, SlotsKept, CallsKept, QueueKept,
         NEW t \in Threads, NEW op \in {"request", "read"}, AddLocal(t, op), ~lapped'
  PROVE  QueueKept'
<1>1. /\ lCur \in Slot /\ calls \in Nat /\ Finished(lCur)
      /\ \A r \in Slot : r # lCur => lq'[r] = lq[r]
      /\ LocalQueue' = LocalQueue \union {lCur}
  BY AddedPlace, AddedOthers
<1>2. lq'[lCur].id = calls + 1 /\ lq'[lCur].state = "served"
  BY AddedCall
<1>3. done' = done /\ dispatcher' = dispatcher
  BY DEF AddLocal
<1>4. \A s \in Slot : s # lCur => (Finished(s)' <=> Finished(s))
  BY <1>1, <1>3 DEF Finished
<1>5. lq'[lCur].id # 0 /\ lq'[lCur].id \notin done'
  <2>1. \A c \in done : c <= calls
    BY DEF CallsKept
  <2>2. calls + 1 # 0 /\ calls + 1 \notin done
    BY <1>1, <2>1
  <2> QED BY <1>2, <1>3, <2>2
<1>6. LocalQueue \subseteq Slot /\ dispatcher.slot \in Slot /\ lCur \notin LocalQueue
  BY TypeParts, WindowSlots DEF PointerTypes, LocalQueue
<1>7. ASSUME NEW s \in LocalQueue' PROVE lq'[s].state = "served" /\ ~Finished(s)'
  <2>1. CASE s = lCur
    BY <1>2, <1>5, <2>1 DEF Finished
  <2>2. CASE s # lCur
    <3>1. s \in LocalQueue /\ s \in Slot
      BY <1>1, <1>6, <1>7, <2>2
    <3>2. lq[s].state = "served" /\ ~Finished(s)
      BY <3>1 DEF QueueKept
    <3> QED BY <1>1, <1>4, <2>2, <3>1, <3>2
  <2> QED BY <2>1, <2>2
<1>8. ASSUME dispatcher.queue = "local"
      PROVE  /\ dispatcher.slot \notin LocalQueue' /\ ~Finished(dispatcher.slot)'
             /\ lq'[dispatcher.slot].state \in {"served", "ready"}
  <2>1. dispatcher.slot \notin LocalQueue /\ ~Finished(dispatcher.slot)
        /\ lq[dispatcher.slot].state \in {"served", "ready"}
    BY <1>8 DEF QueueKept
  <2>2. dispatcher.slot # lCur
    BY <1>1, <2>1
  <2>3. ~Finished(dispatcher.slot)'
    BY <1>3, <1>4, <1>6, <2>1, <2>2 DEF Finished
  <2> QED BY <1>1, <1>6, <2>1, <2>2, <2>3
<1> QED BY <1>3, <1>7, <1>8 DEF QueueKept, Finished

LEMMA AddedWoken ==
  ASSUME TypeOK, SlotsKept, CallsKept, QueueKept, WokenKept,
         NEW t \in Threads, NEW op \in {"request", "read"}, AddLocal(t, op), ~lapped'
  PROVE  WokenKept'
<1>1. /\ ~Open(lCur) /\ ~Waiting(t) /\ lCur \in Slot /\ calls \in Nat
      /\ \A r \in Slot : r # lCur => lq'[r] = lq[r]
      /\ \A u \in Threads : u # t => thread'[u] = thread[u]
  BY AddedPlace, AddedOthers
<1>2. /\ \A u \in Threads : \A r \in Slot : lq'[r].by = u => sem'[u] = sem[u]
      /\ \A u \in Threads : sem'[u] = sem[u] \/ sem'[u] = 0
      /\ sem'[t] = sem[t] /\ thread'[t].call = calls + 1
  BY AddedWake, AddedCall
<1>3. done' = done
  BY DEF AddLocal
<1>4. \A c \in done : c \in Nat /\ c <= calls
  BY TypeParts, BoundAssumption DEF CallsKept, HistoryTypes
<1>5. ASSUME NEW u \in Threads
      PROVE  /\ sem'[u] = IF Waiting(u)' /\ thread'[u].call \in done' THEN 1 ELSE 0
             /\ Waiting(u)' /\ thread'[u].call \in done' /\ thread'[u].op = "read"
                  => thread'[u].given
  <2>1. CASE u = t
    <3>1. sem[t] = 0
      BY <1>1 DEF WokenKept
    <3>2. thread'[t].call \notin done'
      BY <1>1, <1>2, <1>3, <1>4
    <3> QED BY <1>2, <2>1, <3>1, <3>2
  <2>2. CASE u # t
    <3>1. thread'[u] = thread[u] /\ (Waiting(u)' <=> Waiting(u))
      BY <1>1, <2>2 DEF Waiting
    <3>2. CASE Waiting(u)
      <4>1. PICK s \in Slot : lq[s].by = u /\ lq[s].id = thread[u].call
        BY <3>2 DEF CallsKept
      <4>2. s # lCur
        BY <1>1, <4>1, SlotAssumption DEF Open
      <4>3. lq'[s].by = u
        BY <1>1, <4>1, <4>2
      <4>4. sem'[u] = sem[u]
        BY <1>2, <4>3
      <4> QED BY <1>3, <3>1, <4>4 DEF WokenKept
    <3>3. CASE ~Waiting(u)
      <4>1. sem[u] = 0
        BY <3>3 DEF WokenKept
      <4> QED BY <1>2, <3>1, <3>3, <4>1
    <3> QED BY <3>2, <3>3
  <2> QED BY <2>1, <2>2
<1> QED BY <1>5 DEF WokenKept

\* An answer finds the pending slot of its call as long as that slot is left alone.
LEMMA PendingKept ==
  ASSUME \A s \in Slot : lq[s].state = "pending" => lq'[s].state = "pending" /\ lq'[s].id = lq[s].id
  PROVE  \A id : Requests(id) # {} => Requests(id)' # {}
<1>1. ASSUME NEW id, NEW s \in Requests(id) PROVE s \in Requests(id)'
  BY DEF Requests
<1> QED BY <1>1

LEMMA AnswersLeft ==
  ASSUME AnswersKept, \A id : Requests(id) # {} => Requests(id)' # {},
         wire' = wire, Responses' \subseteq Responses, \A s \in Responses' : rq'[s].id = rq[s].id
  PROVE  AnswersKept'
BY DEF AnswersKept

LEMMA AddedExact ==
  ASSUME TypeOK, SlotsKept, Exact,
         NEW t \in Threads, NEW op \in {"request", "read"}, AddLocal(t, op), ~lapped'
  PROVE  Exact'
<1>1. UNCHANGED <<rq, rCur, rProc, wire, dispatcher, again, empty>> /\ notify' = notify + 1
  BY DEF AddLocal, rvars
<1>2. /\ \A r \in Slot : r # lCur => lq'[r] = lq[r]
      /\ lq[lCur].state = "served" /\ Distance(lProc, lCur)' = Distance(lProc, lCur) + 1
  BY AddedPlace, AddedOthers DEF Exact
<1>3. CallsKept' /\ QueueKept' /\ WokenKept'
  BY AddedCalls, AddedQueue, AddedWoken DEF Exact
<1>4. RemoteEvents' = RemoteEvents /\ Responses' = Responses /\ Unanswered' = Unanswered
  BY <1>1 DEF RemoteEvents, Responses, Unanswered, Window, Distance
<1>5. \A id : Requests(id) # {} => Requests(id)' # {}
  <2>1. \A s \in Slot : lq[s].state = "pending" => lq'[s] = lq[s]
    BY <1>2
  <2> QED BY <2>1, PendingKept
<1>6. AnswersKept'
  BY <1>1, <1>4, <1>5, AnswersLeft DEF Exact
<1>7. RemoteKept'
  BY <1>1, <1>4 DEF Exact, RemoteKept, After
<1>8. Notified'
  <2>1. Distance(rProc, rCur)' = Distance(rProc, rCur)
    BY <1>1 DEF Distance
  <2>2. Distance(lProc, lCur) \in Nat /\ Distance(rProc, rCur) \in Nat
    BY TypeParts, Rounds DEF PointerTypes
  <2>3. notify = Distance(lProc, lCur) + Distance(rProc, rCur)
    BY DEF Exact, Notified
  <2> QED BY <1>1, <1>2, <2>1, <2>2, <2>3 DEF Notified
<1> QED BY <1>1, <1>3, <1>6, <1>7, <1>8 DEF Exact

-----------------------------------------------------------------------------
(* A call returns                                                          *)

LEMMA ReturnFacts ==
  ASSUME TypeOK, SlotsKept, CallsKept, WokenKept, NEW t \in Threads, Return(t)
  PROVE  /\ Waiting(t) /\ thread[t].call \in done /\ sem'[t] = 0
         /\ \A u \in Threads : u # t => sem'[u] = sem[u] /\ thread'[u] = thread[u]
         /\ thread'[t].call = 0 /\ empty' = empty
<1>1. ThreadTypes /\ Waiting(t)
  BY TypeParts DEF Return
<1>2. PICK s \in Slot : lq[s].by = t
  BY <1>1 DEF CallsKept
<1>3. sem[t] > 0 /\ sem' = [sem EXCEPT ![t] = @ - 1]
  BY <1>2 DEF Return
<1>4. thread[t].call \in done /\ sem[t] = 1
  BY <1>3 DEF WokenKept
<1>5. sem'[t] = 0 /\ \A u \in Threads : u # t => sem'[u] = sem[u]
  BY <1>1, <1>3, <1>4 DEF ThreadTypes
<1>6. thread'[t].call = 0 /\ \A u \in Threads : u # t => thread'[u] = thread[u]
  <2>1. thread' = [thread EXCEPT ![t].call = 0]
    BY DEF Return
  <2>2. thread[t] \in ThreadState
    BY <1>1, ThreadFields
  <2>3. thread'[t] = [thread[t] EXCEPT !.call = 0]
    BY <1>1, <2>1 DEF ThreadTypes
  <2>4. thread'[t].call = 0
    BY <2>2, <2>3 DEF ThreadState
  <2> QED BY <1>1, <2>1, <2>4 DEF ThreadTypes
<1>7. empty' = empty
  <2>1. thread[t].op = "read" => thread[t].given
    BY <1>1, <1>4 DEF WokenKept
  <2> QED BY <2>1 DEF Return
<1> QED BY <1>1, <1>4, <1>5, <1>6, <1>7

LEMMA ReturnCalls ==
  ASSUME TypeOK, SlotsKept, CallsKept, WokenKept, NEW t \in Threads, Return(t)
  PROVE  CallsKept'
<1>1. /\ Waiting(t) /\ thread[t].call \in done
      /\ \A u \in Threads : u # t => thread'[u] = thread[u]
      /\ thread'[t].call = 0
  BY ReturnFacts
<1>2. lq' = lq /\ done' = done /\ calls' = calls
  BY DEF Return, lvars
<1>3. ASSUME NEW u \in Threads, Waiting(u)'
      PROVE  \E s \in Slot : lq'[s].by = u /\ lq'[s].id = thread'[u].call
               /\ lq'[s].op = thread'[u].op
  <2>1. u # t /\ thread'[u] = thread[u] /\ Waiting(u)
    BY <1>1, <1>3 DEF Waiting
  <2> QED BY <1>2, <2>1 DEF CallsKept
<1>4. ASSUME NEW s \in Slot PROVE Finished(s)' \/ Open(s)'
  <2>1. Finished(s)' <=> Finished(s)
    BY <1>2 DEF Finished
  <2>2. ASSUME ~Finished(s) PROVE Open(s)'
    <3>1. lq[s].by \in Threads /\ thread[lq[s].by].call = lq[s].id /\ lq[s].id \notin done
      BY <2>2, Owner
    <3>2. lq[s].by # t /\ lq[s].by # None
      BY <1>1, <3>1, SlotAssumption
    <3>3. thread'[lq[s].by] = thread[lq[s].by]
      BY <1>1, <3>1, <3>2
    <3> QED BY <1>2, <3>1, <3>2, <3>3 DEF Open
  <2> QED BY <2>1, <2>2
<1>5. \A s \in Slot : Finished(s)' <=> Finished(s)
  BY <1>2 DEF Finished
<1> QED BY <1>2, <1>3, <1>4, <1>5 DEF CallsKept

LEMMA ReturnWoken ==
  ASSUME TypeOK, SlotsKept, CallsKept, WokenKept, NEW t \in Threads, Return(t)
  PROVE  WokenKept'
<1>1. /\ sem'[t] = 0 /\ thread'[t].call = 0
      /\ \A u \in Threads : u # t => sem'[u] = sem[u] /\ thread'[u] = thread[u]
  BY ReturnFacts
<1>2. done' = done
  BY DEF Return
<1>3. ASSUME NEW u \in Threads
      PROVE  /\ sem'[u] = IF Waiting(u)' /\ thread'[u].call \in done' THEN 1 ELSE 0
             /\ Waiting(u)' /\ thread'[u].call \in done' /\ thread'[u].op = "read"
                  => thread'[u].given
  <2>1. CASE u = t
    BY <1>1, <2>1 DEF Waiting
  <2>2. CASE u # t
    <3>1. sem'[u] = sem[u] /\ thread'[u] = thread[u] /\ (Waiting(u)' <=> Waiting(u))
      BY <1>1, <2>2 DEF Waiting
    <3>2. /\ sem[u] = IF Waiting(u) /\ thread[u].call \in done THEN 1 ELSE 0
          /\ Waiting(u) /\ thread[u].call \in done /\ thread[u].op = "read" => thread[u].given
      BY DEF WokenKept
    <3> QED BY <1>2, <3>1, <3>2
  <2> QED BY <2>1, <2>2
<1> QED BY <1>3 DEF WokenKept

\* What does not depend on the threads.
QueuesSame ==
  UNCHANGED <<lq, lCur, lProc, rq, rCur, rProc, notify, dispatcher, wire>>

LEMMA SameQueues ==
  ASSUME Exact, QueuesSame, done' = done
  PROVE  QueueKept' /\ AnswersKept' /\ RemoteKept' /\ Notified'
<1>1. QueueKept /\ AnswersKept /\ RemoteKept /\ Notified
  BY DEF Exact
<1>2. QueueKept'
  BY <1>1 DEF QueuesSame, QueueKept, LocalQueue, Window, Distance, Finished
<1>3. RemoteEvents' = RemoteEvents /\ Responses' = Responses /\ Unanswered' = Unanswered
  BY DEF QueuesSame, RemoteEvents, Responses, Unanswered, Window, Distance
<1>4. AnswersKept'
  BY <1>1, <1>3 DEF QueuesSame, AnswersKept, Requests
<1>5. RemoteKept'
  BY <1>1, <1>3 DEF QueuesSame, RemoteKept, After
<1>6. Notified'
  BY <1>1 DEF QueuesSame, Notified, Distance
<1> QED BY <1>2, <1>4, <1>5, <1>6

LEMMA ReturnExact ==
  ASSUME TypeOK, SlotsKept, Exact, NEW t \in Threads, Return(t)
  PROVE  Exact'
<1>1. QueuesSame /\ done' = done /\ again' = again
  BY DEF Return, QueuesSame, lvars, rvars
<1>2. empty' = empty
  BY ReturnFacts DEF Exact
<1>3. CallsKept' /\ WokenKept'
  BY ReturnCalls, ReturnWoken DEF Exact
<1> QED BY <1>1, <1>2, <1>3, SameQueues DEF Exact

-----------------------------------------------------------------------------
(* The reader thread                                                       *)

LEMMA CallsSame ==
  ASSUME CallsKept, WokenKept, UNCHANGED <<lq, thread, sem, calls, done>>
  PROVE  CallsKept' /\ WokenKept'
<1>1. \A s \in Slot : (Finished(s)' <=> Finished(s)) /\ (Open(s)' <=> Open(s))
  BY DEF Finished, Open
<1>2. \A t \in Threads : Waiting(t)' <=> Waiting(t)
  BY DEF Waiting
<1>3. CallsKept'
  BY <1>1, <1>2 DEF CallsKept
<1>4. WokenKept'
  BY <1>2 DEF WokenKept
<1> QED BY <1>3, <1>4

LEMMA RemoteAdds ==
  ASSUME TypeOK, SlotsKept, CallsKept, AnswersKept, RemoteKept,
         wire # <<>> \/ Cardinality(Unanswered) < PeerCalls,
         NEW event \in RemoteSlot, AddRemote(event)
  PROVE  /\ RemoteEvents' = RemoteEvents \union {rCur} /\ rCur \notin RemoteEvents /\ rCur \in Slot
         /\ rq'[rCur] = event /\ \A s \in RemoteEvents : rq'[s] = rq[s]
         /\ Distance(rProc, rCur)' = Distance(rProc, rCur) + 1
<1>1. rCur \in Slot /\ rProc \in Slot /\ rq \in [Slot -> RemoteSlot]
  BY TypeParts DEF PointerTypes, SlotTypes
<1>2. Distance(rProc, rCur) + 1 < Slots /\ rCur \notin RemoteEvents
  BY RemoteShort
<1>3. /\ Distance(rProc, After(rCur)) = Distance(rProc, rCur) + 1
      /\ Window(rProc, After(rCur)) = Window(rProc, rCur) \union {rCur}
  BY <1>1, <1>2, WindowAdds
<1>4. /\ rq' = [rq EXCEPT ![rCur] = event] /\ rCur' = After(rCur) /\ rProc' = rProc
      /\ dispatcher' = dispatcher
  BY DEF AddRemote
<1>5. Window(rProc, rCur)' = Window(rProc, rCur) \union {rCur}
  BY <1>3, <1>4 DEF Window, Distance
<1>6. Distance(rProc, rCur)' = Distance(rProc, rCur) + 1
  BY <1>3, <1>4 DEF Distance
<1>7. RemoteEvents' = RemoteEvents \union {rCur}
  BY <1>1, <1>4, <1>5 DEF RemoteEvents
<1>8. rq'[rCur] = event /\ \A s \in Slot : s # rCur => rq'[s] = rq[s]
  BY <1>1, <1>4
<1>9. RemoteEvents \subseteq Slot
  BY DEF RemoteEvents
<1> QED BY <1>1, <1>2, <1>6, <1>7, <1>8, <1>9

\* Whatever is added, the slots stay as they are and are notified of.
LEMMA RemoteAddsExact ==
  ASSUME TypeOK, SlotsKept, Exact,
         wire # <<>> \/ Cardinality(Unanswered) < PeerCalls,
         NEW event \in RemoteSlot, AddRemote(event), event.kind \in {"packet", "response"},
         AnswersKept', Cardinality(Unanswered)' <= PeerCalls
  PROVE  Exact'
<1>1. /\ UNCHANGED <<lq, lCur, lProc, rProc, sem, thread, calls, dispatcher, done, again, empty>>
      /\ notify' = notify + 1
  BY DEF AddRemote, lvars, history
<1>2. CallsKept' /\ WokenKept'
  BY <1>1, CallsSame DEF Exact
<1>3. QueueKept'
  BY <1>1 DEF Exact, QueueKept, LocalQueue, Window, Distance, Finished
<1>4. /\ RemoteEvents' = RemoteEvents \union {rCur} /\ rq'[rCur] = event
      /\ \A s \in RemoteEvents : rq'[s] = rq[s]
      /\ Distance(rProc, rCur)' = Distance(rProc, rCur) + 1
  BY RemoteAdds DEF Exact
<1>5. RemoteKept'
  <2>1. \A s \in RemoteEvents' : rq'[s].kind \in {"packet", "response"}
    BY <1>4 DEF Exact, RemoteKept
  <2>2. dispatcher'.queue = "remote" => After(dispatcher'.slot) = rProc'
    BY <1>1 DEF Exact, RemoteKept
  <2> QED BY <2>1, <2>2 DEF RemoteKept, After
<1>6. Notified'
  <2>1. Distance(lProc, lCur)' = Distance(lProc, lCur)
    BY <1>1 DEF Distance
  <2>2. Distance(lProc, lCur) \in Nat /\ Distance(rProc, rCur) \in Nat
    BY TypeParts, Rounds DEF PointerTypes
  <2>3. notify = Distance(lProc, lCur) + Distance(rProc, rCur)
    BY DEF Exact, Notified
  <2> QED BY <1>1, <1>4, <2>1, <2>2, <2>3 DEF Notified
<1> QED BY <1>1, <1>2, <1>3, <1>5, <1>6 DEF Exact

LEMMA ReceivePacketExact ==
  ASSUME TypeOK, SlotsKept, Exact, ReceivePacket
  PROVE  Exact'
<1> DEFINE event == [kind |-> "packet", id |-> 0]
<1>1. event \in RemoteSlot /\ event.kind = "packet"
  BY BoundAssumption DEF RemoteSlot
<1> HIDE DEF event
<1>2. AddRemote(event) /\ Cardinality(Unanswered) < PeerCalls /\ wire' = wire
  BY DEF ReceivePacket, event
<1>3. /\ RemoteEvents' = RemoteEvents \union {rCur} /\ rq'[rCur] = event
      /\ \A s \in RemoteEvents : rq'[s] = rq[s]
  BY <1>1, <1>2, RemoteAdds DEF Exact
<1>4. Cardinality(Unanswered)' <= PeerCalls
  <2>1. IsFiniteSet(Unanswered)
    <3>1. Unanswered \subseteq Slot
      BY DEF Unanswered
    <3> QED BY <3>1, SlotFinite, FS_Subset
  <2>2. /\ IsFiniteSet(Unanswered \union {rCur})
        /\ Cardinality(Unanswered \union {rCur}) <= Cardinality(Unanswered) + 1
        /\ Cardinality(Unanswered) \in Nat
    <3>1. Cardinality(Unanswered) \in Nat
      BY <2>1, FS_CardinalityType
    <3>2. /\ IsFiniteSet(Unanswered \union {rCur})
          /\ Cardinality(Unanswered \union {rCur}) =
               IF rCur \in Unanswered THEN Cardinality(Unanswered) ELSE Cardinality(Unanswered) + 1
      BY <2>1, FS_AddElement
    <3> QED BY <3>1, <3>2
  <2>3. Unanswered' \subseteq Unanswered \union {rCur}
    <3>1. Unanswered = {s \in RemoteEvents : rq[s].kind = "packet"}
      BY RemoteParts
    <3>2. (/\ Responses = {s \in RemoteEvents : rq[s].kind = "response"}
           /\ Unanswered = {s \in RemoteEvents : rq[s].kind = "packet"})'
      BY RemoteParts, PTL
    <3> QED BY <1>3, <3>1, <3>2
  <2>4. Cardinality(Unanswered') <= Cardinality(Unanswered \union {rCur})
        /\ Cardinality(Unanswered') \in Nat /\ Cardinality(Unanswered \union {rCur}) \in Nat
    BY <2>2, <2>3, FS_Subset, FS_CardinalityType
  <2> QED BY <1>2, <2>2, <2>4, SlotNumbers
<1>5. lq' = lq
  BY <1>2 DEF AddRemote, lvars
<1>6. AnswersKept'
  <2>1. Responses' \subseteq Responses /\ \A s \in Responses' : rq'[s].id = rq[s].id
    BY <1>1, <1>3 DEF Responses
  <2>2. \A id : Requests(id)' = Requests(id)
    BY <1>5 DEF Requests
  <2> QED BY <1>2, <2>1, <2>2, AnswersLeft DEF Exact
<1> QED BY <1>1, <1>2, <1>4, <1>6, RemoteAddsExact

LEMMA ReceiveResponseExact ==
  ASSUME TypeOK, SlotsKept, Exact, ReceiveResponse
  PROVE  Exact'
<1> DEFINE event == [kind |-> "response", id |-> Head(wire)]
<1>1. wire # <<>> /\ wire \in Seq(1..MaxCalls) /\ wire' = Tail(wire) /\ AddRemote(event)
  BY TypeParts DEF CountTypes, ReceiveResponse
<1>2. /\ Head(wire) \in 1..MaxCalls /\ Head(wire) = wire[1] /\ 1 \in DOMAIN wire
      /\ Len(wire) \in Nat /\ DOMAIN wire = 1..Len(wire)
      /\ Len(wire') = Len(wire) - 1 /\ DOMAIN wire' = 1..Len(wire')
      /\ \A k \in DOMAIN wire' :
           k \in Nat /\ k + 1 \in DOMAIN wire /\ wire'[k] = wire[k + 1] /\ k + 1 # 1
  <2>1. Head(wire) \in 1..MaxCalls /\ Head(wire) = wire[1] /\ Len(wire) \in Nat /\ Len(wire) > 0
        /\ DOMAIN wire = 1..Len(wire)
    BY <1>1, HeadTailProperties
  <2>2. Tail(wire) \in Seq(1..MaxCalls) /\ Len(Tail(wire)) = Len(wire) - 1
        /\ DOMAIN Tail(wire) = 1..Len(Tail(wire))
        /\ \A k \in 1..Len(Tail(wire)) : Tail(wire)[k] = wire[k + 1]
    BY <1>1, HeadTailProperties
  <2> QED BY <1>1, <2>1, <2>2
<1>3. event \in RemoteSlot /\ event.kind = "response" /\ event.id = Head(wire)
  BY <1>2, BoundAssumption DEF RemoteSlot
<1> HIDE DEF event
<1>4. /\ RemoteEvents' = RemoteEvents \union {rCur} /\ rq'[rCur] = event
      /\ rCur \notin RemoteEvents
      /\ \A s \in RemoteEvents : rq'[s] = rq[s]
  BY <1>1, <1>3, RemoteAdds DEF Exact
<1>5. Cardinality(Unanswered)' <= PeerCalls
  <2>1. IsFiniteSet(Unanswered)
    <3>1. Unanswered \subseteq Slot
      BY DEF Unanswered
    <3> QED BY <3>1, SlotFinite, FS_Subset
  <2>2. Unanswered' \subseteq Unanswered
    <3>1. Unanswered = {s \in RemoteEvents : rq[s].kind = "packet"}
      BY RemoteParts
    <3>2. (/\ Responses = {s \in RemoteEvents : rq[s].kind = "response"}
           /\ Unanswered = {s \in RemoteEvents : rq[s].kind = "packet"})'
      BY RemoteParts, PTL
    <3> QED BY <1>3, <1>4, <3>1, <3>2
  <2>3. Cardinality(Unanswered') <= Cardinality(Unanswered)
        /\ Cardinality(Unanswered') \in Nat /\ Cardinality(Unanswered) \in Nat
    BY <2>1, <2>2, FS_Subset, FS_CardinalityType
  <2>4. Cardinality(Unanswered) <= PeerCalls
    BY DEF Exact, RemoteKept
  <2> QED BY <2>3, <2>4, SlotNumbers
<1>6. AnswersKept'
  <2>1. lq' = lq
    BY <1>1 DEF AddRemote, lvars
  <2>3. Responses' = Responses \union {rCur} /\ rq'[rCur].id = wire[1]
        /\ \A s \in Responses : rq'[s].id = rq[s].id
    <3>1. \A s \in RemoteEvents' : s \in Responses' <=> rq'[s].kind = "response"
      BY DEF Responses
    <3>2. \A s \in RemoteEvents : s \in Responses <=> rq[s].kind = "response"
      BY DEF Responses
    <3>3. Responses' \subseteq RemoteEvents' /\ Responses \subseteq RemoteEvents
      BY DEF Responses
    <3> QED BY <1>2, <1>3, <1>4, <3>1, <3>2, <3>3
  <2>4. rCur \notin Responses
    BY <1>4 DEF Responses
  <2>5. /\ \A k \in DOMAIN wire : Requests(wire[k]) # {}
        /\ \A s \in Responses : Requests(rq[s].id) # {}
        /\ \A j, k \in DOMAIN wire : wire[j] = wire[k] => j = k
        /\ \A r, s \in Responses : rq[r].id = rq[s].id => r = s
        /\ \A k \in DOMAIN wire, s \in Responses : wire[k] # rq[s].id
    BY DEF Exact, AnswersKept
  <2>6. \A k \in DOMAIN wire' : Requests(wire'[k]) # {}
    BY <1>2, <2>5
  <2>7. \A s \in Responses' : Requests(rq'[s].id) # {}
    <3>1. Requests(wire[1]) # {}
      BY <1>2, <2>5
    <3> QED BY <2>3, <2>5, <3>1
  <2>8. \A j, k \in DOMAIN wire' : wire'[j] = wire'[k] => j = k
    <3>1. ASSUME NEW j \in DOMAIN wire', NEW k \in DOMAIN wire', wire'[j] = wire'[k] PROVE j = k
      <4>1. j + 1 = k + 1 /\ j \in Nat /\ k \in Nat
        BY <1>2, <2>5, <3>1
      <4> QED BY <4>1
    <3> QED BY <3>1
  <2>9. \A r, s \in Responses' : rq'[r].id = rq'[s].id => r = s
    BY <1>2, <2>3, <2>5
  <2>10. \A k \in DOMAIN wire', s \in Responses' : wire'[k] # rq'[s].id
    <3>1. ASSUME NEW k \in DOMAIN wire', NEW s \in Responses' PROVE wire'[k] # rq'[s].id
      <4>1. k + 1 \in DOMAIN wire /\ wire'[k] = wire[k + 1] /\ k + 1 # 1
        BY <1>2
      <4>2. CASE s = rCur
        BY <1>2, <2>3, <2>5, <4>1, <4>2
      <4>3. CASE s \in Responses
        BY <2>3, <2>5, <4>1, <4>3
      <4> QED BY <2>3, <4>2, <4>3
    <3> QED BY <3>1
  <2> QED BY <2>1, <2>6, <2>7, <2>8, <2>9, <2>10 DEF AnswersKept, Requests
<1> QED BY <1>1, <1>3, <1>5, <1>6, RemoteAddsExact

-----------------------------------------------------------------------------
(* The dispatcher takes an event                                           *)

LEMMA LocalFetched ==
  ASSUME Exact, dispatcher = Idle, dispatcher'.queue = "local",
         UNCHANGED <<lq, lCur, rq, rCur, rProc, sem, thread, calls, wire, done, again, empty>>,
         QueueKept', Notified'
  PROVE  Exact'
<1>1. CallsKept' /\ WokenKept'
  BY CallsSame DEF Exact
<1>2. RemoteEvents' = RemoteEvents /\ Responses' = Responses /\ Unanswered' = Unanswered
  <2>1. dispatcher.queue # "remote" /\ dispatcher'.queue # "remote"
    BY DEF Idle
  <2> QED BY <2>1 DEF RemoteEvents, Responses, Unanswered, Window, Distance
<1>3. AnswersKept'
  BY <1>2 DEF Exact, AnswersKept, Requests
<1>4. RemoteKept'
  BY <1>2 DEF Exact, RemoteKept
<1> QED BY <1>1, <1>3, <1>4 DEF Exact

LEMMA FetchReadyExact ==
  ASSUME TypeOK, SlotsKept, Exact, FetchReady
  PROVE  Exact'
<1>1. /\ dispatcher = Idle /\ UNCHANGED <<lq, lCur, lProc, rq, rCur, rProc, notify>>
      /\ UNCHANGED <<sem, thread, calls, wire, done, again, empty>>
  BY DEF FetchReady, lvars, rvars, history
<1>2. PICK s \in Slot : lq[s].state = "ready" /\ dispatcher' = [queue |-> "local", slot |-> s]
  BY DEF FetchReady, Ready, NextSlots
<1>3. dispatcher'.queue = "local" /\ dispatcher'.slot = s
  BY <1>2
<1>4. QueueKept'
  <2>1. ~Finished(s) /\ s \notin LocalQueue
    BY <1>2 DEF Exact, CallsKept, QueueKept
  <2>2. LocalQueue' = LocalQueue /\ \A r : Finished(r)' <=> Finished(r)
    BY <1>1 DEF LocalQueue, Window, Distance, Finished
  <2>3. \A r \in LocalQueue' : lq'[r].state = "served" /\ ~Finished(r)'
    BY <1>1, <2>2 DEF Exact, QueueKept
  <2>4. s \notin LocalQueue' /\ ~Finished(s)' /\ lq'[s].state \in {"served", "ready"}
    BY <1>1, <1>2, <2>1, <2>2
  <2> QED BY <1>3, <2>3, <2>4 DEF QueueKept, Finished
<1>5. Notified'
  BY <1>1 DEF Exact, Notified, Distance
<1> QED BY <1>1, <1>3, <1>4, <1>5, LocalFetched

LEMMA FetchLocalExact ==
  ASSUME TypeOK, SlotsKept, Exact, FetchLocal
  PROVE  Exact'
<1>1. /\ dispatcher = Idle /\ lCur # lProc /\ notify' = notify - 1
      /\ UNCHANGED <<lq, lCur, rq, rCur, rProc>>
      /\ UNCHANGED <<sem, thread, calls, wire, done, again, empty>>
  BY DEF FetchLocal, rvars, history
<1>2. lCur \in Slot /\ lProc \in Slot /\ rCur \in Slot /\ rProc \in Slot /\ notify \in Nat
  BY TypeParts DEF PointerTypes, CountTypes
<1>3. lProc \in LocalQueue
  BY <1>1, <1>2, WindowSlots DEF LocalQueue
<1>4. lq[lProc].state = "served" /\ ~Finished(lProc)
  BY <1>3 DEF Exact, QueueKept
<1>5. NextSlots(lProc, "served") = {lProc}
  BY <1>2, <1>4, NextAt
<1>6. dispatcher' = [queue |-> "local", slot |-> lProc] /\ lProc' = After(lProc)
  BY <1>5 DEF FetchLocal
<1>7. dispatcher'.queue = "local" /\ dispatcher'.slot = lProc
  BY <1>6
<1>8. /\ Distance(After(lProc), lCur) = Distance(lProc, lCur) - 1
      /\ Window(After(lProc), lCur) = Window(lProc, lCur) \ {lProc}
  BY <1>1, <1>2, WindowTakes
<1>9. LocalQueue' = LocalQueue \ {lProc} /\ Distance(lProc, lCur)' = Distance(lProc, lCur) - 1
  BY <1>1, <1>6, <1>8 DEF LocalQueue, Window, Distance
<1>10. QueueKept'
  <2>1. \A r : Finished(r)' <=> lq[r].id = 0 \/ lq[r].id \in done
    BY <1>1 DEF Finished
  <2>2. \A r \in LocalQueue' : lq'[r].state = "served" /\ ~Finished(r)'
    BY <1>1, <1>9, <2>1 DEF Exact, QueueKept, Finished
  <2>3. lProc \notin LocalQueue' /\ lq'[lProc].state = "served"
        /\ ~(lq'[lProc].id = 0 \/ lq'[lProc].id \in done')
    BY <1>1, <1>4, <1>9 DEF Finished
  <2>4. /\ dispatcher'.slot \notin LocalQueue'
             /\ lq'[dispatcher'.slot].state \in {"served", "ready"}
        /\ ~(lq'[dispatcher'.slot].id = 0 \/ lq'[dispatcher'.slot].id \in done')
    BY <1>7, <2>3
  <2> QED BY <2>2, <2>4 DEF QueueKept, Finished
<1>11. Notified'
  <2>1. Distance(rProc, rCur)' = Distance(rProc, rCur)
    BY <1>1 DEF Distance
  <2>2. Distance(lProc, lCur) \in Nat /\ Distance(rProc, rCur) \in Nat
    BY <1>2, Rounds
  <2>3. notify = Distance(lProc, lCur) + Distance(rProc, rCur)
    BY DEF Exact, Notified
  <2> QED BY <1>1, <1>2, <1>9, <2>1, <2>2, <2>3 DEF Notified
<1> QED BY <1>1, <1>7, <1>10, <1>11, LocalFetched

LEMMA FetchRemoteExact ==
  ASSUME TypeOK, SlotsKept, Exact, FetchRemote
  PROVE  Exact'
<1>1. /\ dispatcher = Idle /\ rCur # rProc /\ notify' = notify - 1
      /\ dispatcher' = [queue |-> "remote", slot |-> rProc] /\ rProc' = After(rProc)
      /\ UNCHANGED <<lq, lCur, lProc, rq, rCur>>
      /\ UNCHANGED <<sem, thread, calls, wire, done, again, empty>>
  BY DEF FetchRemote, lvars, history
<1>2. lCur \in Slot /\ lProc \in Slot /\ rCur \in Slot /\ rProc \in Slot /\ notify \in Nat
  BY TypeParts DEF PointerTypes, CountTypes
<1>3. /\ Distance(After(rProc), rCur) = Distance(rProc, rCur) - 1
      /\ Window(After(rProc), rCur) = Window(rProc, rCur) \ {rProc}
      /\ rProc \in Window(rProc, rCur) /\ Window(rProc, rCur) \subseteq Slot
  BY <1>1, <1>2, WindowTakes, WindowSlots
<1>4. Window(rProc, rCur)' = Window(rProc, rCur) \ {rProc}
      /\ Distance(rProc, rCur)' = Distance(rProc, rCur) - 1
  BY <1>1, <1>3 DEF Window, Distance
<1>5. RemoteEvents = Window(rProc, rCur)
  <2>1. dispatcher.queue # "remote"
    BY <1>1 DEF Idle
  <2> QED BY <1>3, <2>1 DEF RemoteEvents
<1>6. RemoteEvents' = RemoteEvents
  <2>1. RemoteEvents' = {s \in Slot : s \in Window(rProc, rCur)' \/ s = rProc}
    <3>1. \A s \in Slot : dispatcher' = [queue |-> "remote", slot |-> s] <=> s = rProc
      BY <1>1
    <3> QED BY <3>1 DEF RemoteEvents
  <2> QED BY <1>2, <1>3, <1>4, <1>5, <2>1
<1>7. Responses' = Responses /\ Unanswered' = Unanswered
  <2>1. Responses' = Responses
    BY <1>1, <1>6 DEF Responses
  <2>2. (/\ Responses = {s \in RemoteEvents : rq[s].kind = "response"}
         /\ Unanswered = {s \in RemoteEvents : rq[s].kind = "packet"})'
    BY RemoteParts, PTL
  <2>3. Unanswered = {s \in RemoteEvents : rq[s].kind = "packet"}
    BY RemoteParts
  <2> QED BY <1>1, <1>6, <2>1, <2>2, <2>3
<1>8. CallsKept' /\ WokenKept'
  BY <1>1, CallsSame DEF Exact
<1>9. QueueKept'
  <2>1. dispatcher'.queue # "local"
    BY <1>1
  <2>2. LocalQueue' = LocalQueue
    BY <1>1 DEF LocalQueue, Window, Distance
  <2> QED BY <1>1, <2>1, <2>2 DEF Exact, QueueKept, Finished
<1>10. AnswersKept'
  BY <1>1, <1>7 DEF Exact, AnswersKept, Requests
<1>11. RemoteKept'
  <2>1. dispatcher'.slot = rProc /\ After(dispatcher'.slot) = rProc'
    BY <1>1
  <2> QED BY <1>1, <1>6, <1>7, <2>1 DEF Exact, RemoteKept, After
<1>12. Notified'
  <2>1. Distance(lProc, lCur)' = Distance(lProc, lCur)
    BY <1>1 DEF Distance
  <2>2. Distance(lProc, lCur) \in Nat /\ Distance(rProc, rCur) \in Nat
    BY <1>2, Rounds
  <2>3. notify = Distance(lProc, lCur) + Distance(rProc, rCur)
    BY DEF Exact, Notified
  <2> QED BY <1>1, <1>2, <1>4, <2>1, <2>2, <2>3 DEF Notified
<1> QED BY <1>1, <1>8, <1>9, <1>10, <1>11, <1>12 DEF Exact

-----------------------------------------------------------------------------
(* The dispatcher serves an event                                          *)

\* What every way of serving leaves alone.
Serving ==
  /\ UNCHANGED <<lCur, lProc, rq, rCur, rProc, notify, calls, empty>>
  /\ dispatcher' = Idle
  /\ \A t \in Threads : thread'[t].call = thread[t].call /\ thread'[t].op = thread[t].op

\* A call that was served has no second slot, so nothing becomes served with it.
LEMMA ServingFinished ==
  ASSUME CallsKept, NEW s \in Slot, ~Finished(s), NEW r \in Slot, r # s,
         lq'[r].id = lq[r].id, done' \subseteq done \union {lq[s].id}, done \subseteq done'
  PROVE  Finished(r)' <=> Finished(r)
<1>1. lq[r].id # lq[s].id
  BY DEF CallsKept, Finished
<1> QED BY <1>1 DEF Finished

LEMMA ServingCalls ==
  ASSUME TypeOK, SlotsKept, CallsKept, Serving,
         NEW s \in Slot, NEW state \in States, SetState(s, state), ~Finished(s),
         state = "pending" => lq[s].op = "request",
         state \in {"blocked", "ready"} => lq[s].op = "read",
         done' = done \/ (state = "served" /\ done' = done \union {lq[s].id})
  PROVE  CallsKept'
<1>1. /\ \A r \in Slot : lq'[r].id = lq[r].id /\ lq'[r].op = lq[r].op /\ lq'[r].by = lq[r].by
      /\ \A r \in Slot : lq'[r].state = IF r = s THEN state ELSE lq[r].state
  BY TypeParts, StateSet
<1>2. \A u \in Threads : thread'[u].call = thread[u].call /\ thread'[u].op = thread[u].op
  BY DEF Serving
<1>3. done \subseteq done' /\ done' \subseteq done \union {lq[s].id} /\ calls' = calls
  BY DEF Serving
<1>4. \A r \in Slot : r # s => (Finished(r)' <=> Finished(r))
  BY <1>1, <1>3, ServingFinished
<1>5. ASSUME NEW t \in Threads, Waiting(t)'
      PROVE  \E r \in Slot : lq'[r].by = t /\ lq'[r].id = thread'[t].call
               /\ lq'[r].op = thread'[t].op
  <2>1. Waiting(t)
    BY <1>2, <1>5 DEF Waiting
  <2>2. PICK r \in Slot : lq[r].by = t /\ lq[r].id = thread[t].call /\ lq[r].op = thread[t].op
    BY <2>1 DEF CallsKept
  <2> QED BY <1>1, <1>2, <2>2
<1>6. \A q, r \in Slot : lq'[q].id = lq'[r].id /\ lq'[q].id # 0 => q = r
  BY <1>1 DEF CallsKept
<1>7. ASSUME NEW r \in Slot PROVE Finished(r)' \/ Open(r)'
  <2>1. CASE Finished(r)
    BY <1>1, <1>3, <2>1 DEF Finished
  <2>2. CASE ~Finished(r)
    <3>1. lq[r].by \in Threads /\ thread[lq[r].by].call = lq[r].id
      BY <2>2, Owner
    <3> QED BY <1>1, <1>2, <3>1, SlotAssumption DEF Open
  <2> QED BY <2>1, <2>2
<1>8. ASSUME NEW r \in Slot
      PROVE  /\ lq'[r].state # "served" => ~Finished(r)'
             /\ lq'[r].state = "pending" => lq'[r].op = "request"
             /\ lq'[r].state \in {"blocked", "ready"} => lq'[r].op = "read"
  <2>1. CASE r = s
    <3>1. lq'[r].state = state /\ lq'[r].op = lq[s].op /\ lq'[r].id = lq[s].id
      BY <1>1, <2>1
    <3>2. state # "served" => ~Finished(r)'
      BY <2>1, <3>1 DEF Finished
    <3> QED BY <3>1, <3>2
  <2>2. CASE r # s
    <3>1. /\ lq[r].state # "served" => ~Finished(r)
          /\ lq[r].state = "pending" => lq[r].op = "request"
          /\ lq[r].state \in {"blocked", "ready"} => lq[r].op = "read"
      BY DEF CallsKept
    <3> QED BY <1>1, <1>4, <2>2, <3>1
  <2> QED BY <2>1, <2>2
<1>9. \A c \in done' : c <= calls'
  <2>1. lq[s].id <= calls
    BY DEF SlotsKept
  <2> QED BY <1>3, <2>1 DEF CallsKept
<1> QED BY <1>5, <1>6, <1>7, <1>8, <1>9 DEF CallsKept

\* Only the thread that made the call is woken.
LEMMA MarkedWoken ==
  ASSUME TypeOK, SlotsKept, CallsKept, WokenKept, Serving,
         NEW s \in Slot, MarkServed(s), ~Finished(s),
         \A t \in Threads : thread[t].given => thread'[t].given,
         lq[s].op = "read" => thread'[lq[s].by].given
  PROVE  WokenKept'
<1> DEFINE owner == lq[s].by
<1>1. /\ owner \in Threads /\ Waiting(owner) /\ thread[owner].call = lq[s].id
      /\ thread[owner].op = lq[s].op /\ lq[s].id \notin done /\ lq[s].id # 0
  BY Owner
<1>2. done' = done \union {lq[s].id} /\ sem' = [sem EXCEPT ![owner] = @ + 1]
  BY DEF MarkServed
<1>3. \A u \in Threads : thread'[u].call = thread[u].call /\ thread'[u].op = thread[u].op
  BY DEF Serving
<1>4. \A u \in Threads : Waiting(u)' <=> Waiting(u)
  BY <1>3 DEF Waiting
<1>5. sem \in [Threads -> Nat]
  BY TypeParts DEF ThreadTypes
<1>6. lq[s].op = "read" => thread'[owner].given
  OBVIOUS
<1> HIDE DEF owner
<1>7. ASSUME NEW u \in Threads
      PROVE  /\ sem'[u] = IF Waiting(u)' /\ thread'[u].call \in done' THEN 1 ELSE 0
             /\ Waiting(u)' /\ thread'[u].call \in done' /\ thread'[u].op = "read"
                  => thread'[u].given
  <2>1. CASE u = owner
    <3>1. sem[u] = 0
      BY <1>1, <2>1 DEF WokenKept
    <3>2. sem'[u] = 1
      BY <1>1, <1>2, <1>5, <2>1, <3>1
    <3>3. Waiting(u)' /\ thread'[u].call \in done'
      BY <1>1, <1>2, <1>3, <1>4, <2>1
    <3> QED BY <1>1, <1>3, <1>6, <2>1, <3>2, <3>3
  <2>2. CASE u # owner
    <3>1. sem'[u] = sem[u]
      BY <1>2, <1>5, <2>2
    <3>2. Waiting(u) => thread[u].call # lq[s].id
      <4>1. ASSUME Waiting(u), thread[u].call = lq[s].id PROVE FALSE
        <5>1. PICK r \in Slot : lq[r].by = u /\ lq[r].id = thread[u].call
          BY <4>1 DEF CallsKept
        <5>2. r = s
          BY <1>1, <4>1, <5>1 DEF CallsKept
        <5> QED BY <2>2, <5>1, <5>2 DEF owner
      <4> QED BY <4>1
    <3>3. Waiting(u)' /\ thread'[u].call \in done' <=> Waiting(u) /\ thread[u].call \in done
      BY <1>2, <1>3, <1>4, <3>2
    <3>4. /\ sem[u] = IF Waiting(u) /\ thread[u].call \in done THEN 1 ELSE 0
          /\ Waiting(u) /\ thread[u].call \in done /\ thread[u].op = "read" => thread[u].given
      BY DEF WokenKept
    <3>5. sem'[u] = IF Waiting(u)' /\ thread'[u].call \in done' THEN 1 ELSE 0
      BY <3>1, <3>3, <3>4
    <3> QED BY <1>3, <3>3, <3>4, <3>5
  <2> QED BY <2>1, <2>2
<1> QED BY <1>7 DEF WokenKept

LEMMA ServingWoken ==
  ASSUME WokenKept, UNCHANGED <<sem, thread, done>>
  PROVE  WokenKept'
BY DEF WokenKept, Waiting

\* The slots in the queue are not the one that is served.
LEMMA ServingQueue ==
  ASSUME TypeOK, CallsKept, QueueKept, Serving, NEW s \in Slot, NEW state \in States,
         SetState(s, state), ~Finished(s), s \notin LocalQueue,
         done \subseteq done', done' \subseteq done \union {lq[s].id}
  PROVE  QueueKept'
<1>1. \A r \in Slot : r # s => lq'[r].state = lq[r].state /\ lq'[r].id = lq[r].id
  BY TypeParts, StateSet
<1>2. \A r \in Slot : r # s => (Finished(r)' <=> Finished(r))
  BY <1>1, ServingFinished
<1>3. LocalQueue' = LocalQueue
  BY DEF Serving, LocalQueue, Window, Distance
<1>4. LocalQueue \subseteq Slot
  BY DEF LocalQueue, Window
<1>5. \A r \in LocalQueue' : lq'[r].state = "served" /\ ~Finished(r)'
  BY <1>1, <1>2, <1>3, <1>4 DEF QueueKept
<1>6. dispatcher'.queue # "local"
  BY DEF Serving, Idle
<1> QED BY <1>5, <1>6 DEF QueueKept, Finished

\* The dispatcher's own event is the only one that leaves.
LEMMA ServingRemote ==
  ASSUME TypeOK, RemoteKept, Notified, Serving
  PROVE  /\ RemoteKept' /\ Notified'
         /\ Responses' \subseteq Responses
         /\ dispatcher.queue = "remote" => dispatcher.slot \notin Responses'
<1>1. rProc \in Slot /\ rCur \in Slot /\ dispatcher.slot \in Slot
  BY TypeParts DEF PointerTypes
<1>2. UNCHANGED <<lCur, lProc, rq, rCur, rProc, notify>>
  BY DEF Serving
<1>3. RemoteEvents' = Window(rProc, rCur)
  <2>1. dispatcher'.queue # "remote"
    BY DEF Serving, Idle
  <2>2. \A s \in Slot : dispatcher' # [queue |-> "remote", slot |-> s]
    BY <2>1
  <2>3. Window(rProc, rCur)' = Window(rProc, rCur)
    BY <1>2 DEF Window, Distance
  <2> QED BY <1>1, <2>2, <2>3, WindowSlots DEF RemoteEvents
<1>4. RemoteEvents' \subseteq RemoteEvents
  BY <1>1, <1>3, WindowSlots DEF RemoteEvents
<1>5. Responses' \subseteq Responses
  BY <1>2, <1>4 DEF Responses
<1>6. dispatcher.queue = "remote" => dispatcher.slot \notin Responses'
  <2>1. dispatcher.queue = "remote" => dispatcher.slot \notin Window(rProc, rCur)
    BY <1>1, WindowSlots DEF RemoteKept
  <2> QED BY <1>3, <2>1 DEF Responses
<1>7. Unanswered' \subseteq Unanswered
  <2>1. Unanswered = {s \in RemoteEvents : rq[s].kind = "packet"}
    BY RemoteParts
  <2>2. (/\ Responses = {s \in RemoteEvents : rq[s].kind = "response"}
         /\ Unanswered = {s \in RemoteEvents : rq[s].kind = "packet"})'
    BY RemoteParts, PTL
  <2> QED BY <1>2, <1>4, <2>1, <2>2
<1>8. Cardinality(Unanswered)' <= PeerCalls
  <2>1. IsFiniteSet(Unanswered)
    <3>1. Unanswered \subseteq Slot
      BY DEF Unanswered
    <3> QED BY <3>1, SlotFinite, FS_Subset
  <2>2. Cardinality(Unanswered') <= Cardinality(Unanswered)
        /\ Cardinality(Unanswered') \in Nat /\ Cardinality(Unanswered) \in Nat
    BY <1>7, <2>1, FS_Subset, FS_CardinalityType
  <2> QED BY <2>2, SlotNumbers DEF RemoteKept
<1>9. RemoteKept'
  <2>1. \A s \in RemoteEvents' : rq'[s].kind \in {"packet", "response"}
    BY <1>2, <1>4 DEF RemoteKept
  <2>2. dispatcher'.queue # "remote"
    BY DEF Serving, Idle
  <2> QED BY <1>8, <2>1, <2>2 DEF RemoteKept
<1>10. Notified'
  BY <1>2 DEF Notified, Distance
<1> QED BY <1>5, <1>6, <1>9, <1>10

\* The dispatcher's own event is still to be served, and no other one is it.
LEMMA LocalServed ==
  ASSUME TypeOK, SlotsKept, Exact, dispatcher.queue = "local"
  PROVE  /\ dispatcher.slot \in Slot /\ ~Finished(dispatcher.slot)
         /\ dispatcher.slot \notin LocalQueue
         /\ lq[dispatcher.slot].state \in {"served", "ready"}
BY TypeParts DEF PointerTypes, Exact, QueueKept

LEMMA PendingLeft ==
  ASSUME TypeOK, NEW s \in Slot, NEW state \in States, SetState(s, state),
         lq[s].state # "pending" \/ state = "pending"
  PROVE  \A id : Requests(id) # {} => Requests(id)' # {}
<1>1. \A r \in Slot : lq[r].state = "pending" => lq'[r].state = "pending" /\ lq'[r].id = lq[r].id
  BY TypeParts, StateSet
<1> QED BY <1>1, PendingKept

LEMMA ServeRequestExact ==
  ASSUME TypeOK, SlotsKept, Exact, ServeRequest
  PROVE  Exact'
<1> DEFINE s == dispatcher.slot
           id == lq[s].id
<1>1. /\ dispatcher.queue = "local" /\ lq[s].op = "request" /\ SetState(s, "pending")
      /\ wire' = Append(wire, id)
  BY DEF ServeRequest
<1>2. UNCHANGED <<sem, thread, done, again, empty>> /\ Serving
  BY DEF ServeRequest, rvars, history, Serving
<1>3. s \in Slot /\ ~Finished(s) /\ s \notin LocalQueue /\ lq[s].state # "pending"
  <2>1. lq[s].state \in {"served", "ready"}
    BY <1>1, LocalServed
  <2> QED BY <1>1, <2>1, LocalServed
<1> HIDE DEF s
<1>4. CallsKept'
  BY <1>1, <1>2, <1>3, ServingCalls DEF Exact, States
<1>5. QueueKept'
  BY <1>1, <1>2, <1>3, ServingQueue DEF Exact, States
<1>6. WokenKept'
  BY <1>2, ServingWoken DEF Exact
<1>7. RemoteKept' /\ Notified' /\ Responses' \subseteq Responses /\ rq' = rq
  BY <1>2, ServingRemote DEF Exact, Serving
<1>8. \A i : Requests(i) # {} => Requests(i)' # {}
  BY <1>1, <1>3, PendingLeft DEF States
<1>9. lq'[s].state = "pending" /\ lq'[s].id = id
  BY <1>1, <1>3, TypeParts, StateSet DEF States
<1>10. Requests(id) = {}
  <2>1. id # 0
    BY <1>3 DEF Finished
  <2>2. ASSUME NEW r \in Slot, lq[r].state = "pending", lq[r].id = id PROVE FALSE
    <3>1. r = s
      BY <1>3, <2>1, <2>2 DEF Exact, CallsKept
    <3> QED BY <1>3, <2>2, <3>1
  <2> QED BY <2>2 DEF Requests
<1> HIDE DEF id
<1>11. AnswersKept'
  <2>1. /\ Len(wire) \in Nat /\ DOMAIN wire = 1..Len(wire)
        /\ DOMAIN wire' = 1..(Len(wire) + 1)
        /\ \A k \in DOMAIN wire : wire'[k] = wire[k]
        /\ wire'[Len(wire) + 1] = id
    <3>1. wire \in Seq(1..MaxCalls)
      BY TypeParts DEF CountTypes
    <3> QED BY <1>1, <3>1
  <2>2. \A k \in DOMAIN wire' : (k \in DOMAIN wire /\ wire'[k] = wire[k])
                                \/ (k = Len(wire) + 1 /\ wire'[k] = id)
    BY <2>1
  <2>3. /\ \A k \in DOMAIN wire : Requests(wire[k]) # {} /\ wire[k] # id
        /\ \A r \in Responses : Requests(rq[r].id) # {} /\ rq[r].id # id
        /\ \A j, k \in DOMAIN wire : wire[j] = wire[k] => j = k
        /\ \A q, r \in Responses : rq[q].id = rq[r].id => q = r
        /\ \A k \in DOMAIN wire, r \in Responses : wire[k] # rq[r].id
    BY <1>10 DEF Exact, AnswersKept
  <2> DEFINE asked(i) == \E q \in Slot : lq'[q].state = "pending" /\ lq'[q].id = i
  <2>9. ASSUME NEW i, Requests(i) # {} PROVE asked(i)
    BY <1>8, <2>9 DEF Requests
  <2>10. asked(id)
    BY <1>3, <1>9
  <2> HIDE DEF asked
  <2>4. \A k \in DOMAIN wire' : asked(wire'[k])
    BY <2>2, <2>3, <2>9, <2>10
  <2>5. \A r \in Responses' : asked(rq'[r].id)
    BY <1>7, <2>3, <2>9
  <2>6. \A j, k \in DOMAIN wire' : wire'[j] = wire'[k] => j = k
    BY <2>2, <2>3
  <2>7. \A q, r \in Responses' : rq'[q].id = rq'[r].id => q = r
    BY <1>7, <2>3
  <2>8. \A k \in DOMAIN wire', r \in Responses' : wire'[k] # rq'[r].id
    BY <1>7, <2>2, <2>3
  <2> QED BY <2>4, <2>5, <2>6, <2>7, <2>8 DEF AnswersKept, Requests, asked
<1> QED BY <1>2, <1>4, <1>5, <1>6, <1>7, <1>11 DEF Exact

LEMMA ServeReadExact ==
  ASSUME TypeOK, SlotsKept, Exact, ServeRead
  PROVE  Exact'
<1> DEFINE s == dispatcher.slot
           t == lq[s].by
<1>1. dispatcher.queue = "local" /\ lq[s].op = "read"
  BY DEF ServeRead
<1>2. /\ s \in Slot /\ ~Finished(s) /\ s \notin LocalQueue /\ lq[s].state # "pending"
      /\ t \in Threads /\ thread[t].call = lq[s].id /\ lq[s].id \notin done
  <2>1. s \in Slot /\ ~Finished(s) /\ s \notin LocalQueue /\ lq[s].state \in {"served", "ready"}
    BY <1>1, LocalServed
  <2>2. t \in Threads /\ thread[t].call = lq[s].id /\ lq[s].id \notin done
    BY <2>1, Owner DEF Exact
  <2> QED BY <2>1, <2>2
<1>3. /\ UNCHANGED <<lCur, lProc, rq, rCur, rProc, notify, calls, empty, wire>>
      /\ dispatcher' = Idle
  BY DEF ServeRead, rvars
<1>4. ASSUME NEW state \in {"served", "blocked"}, SetState(s, state), Serving,
             done \subseteq done', done' \subseteq done \union {lq[s].id}
      PROVE  QueueKept' /\ AnswersKept' /\ RemoteKept' /\ Notified'
  <2>1. state \in States /\ state # "pending"
    BY DEF States
  <2>2. QueueKept'
    BY <1>2, <1>4, <2>1, ServingQueue DEF Exact
  <2>3. RemoteKept' /\ Notified' /\ Responses' \subseteq Responses /\ rq' = rq
    BY <1>4, ServingRemote DEF Exact, Serving
  <2>4. \A i : Requests(i) # {} => Requests(i)' # {}
    BY <1>2, <1>4, <2>1, PendingLeft
  <2>5. AnswersKept'
    BY <1>3, <2>3, <2>4, AnswersLeft DEF Exact
  <2> QED BY <2>2, <2>3, <2>5
<1>5. CASE packets > 0
  <2>1. /\ MarkServed(s)
        /\ thread' = [thread EXCEPT ![t].given = @ \/ thread[t].call = lq[s].id]
    BY <1>5 DEF ServeRead
  <2>2. /\ \A u \in Threads : thread'[u].call = thread[u].call /\ thread'[u].op = thread[u].op
        /\ \A u \in Threads : thread[u].given => thread'[u].given
        /\ thread'[t].given
    <3>1. thread \in [Threads -> ThreadState]
      BY TypeParts DEF ThreadTypes
    <3>2. \A u \in Threads : u # t => thread'[u] = thread[u]
      BY <2>1, <3>1
    <3>3. thread'[t] = [thread[t] EXCEPT !.given = @ \/ thread[t].call = lq[s].id]
      BY <1>2, <2>1, <3>1
    <3>4. thread[t] \in ThreadState
      BY <1>2, <3>1
    <3>5. thread'[t].call = thread[t].call /\ thread'[t].op = thread[t].op
      BY <3>3, <3>4 DEF ThreadState
    <3>6. thread'[t].given
      <4> HIDE DEF s, t
      <4>1. thread'[t].given = (thread[t].given \/ thread[t].call = lq[s].id)
        BY <3>3, <3>4 DEF ThreadState
      <4> QED BY <1>2, <4>1
    <3> HIDE DEF t
    <3> QED BY <3>2, <3>5, <3>6
  <2>3. Serving
    BY <1>3, <2>2 DEF Serving
  <2>4. SetState(s, "served") /\ done' = done \union {lq[s].id} /\ again' = again
    BY <1>2, <2>1 DEF MarkServed
  <2>5. QueueKept' /\ AnswersKept' /\ RemoteKept' /\ Notified'
    BY <1>4, <2>3, <2>4
  <2>6. WokenKept'
    BY <1>2, <2>1, <2>2, <2>3, MarkedWoken DEF Exact
  <2>7. CallsKept'
    BY <1>2, <2>3, <2>4, ServingCalls DEF Exact, States
  <2> QED BY <1>3, <2>4, <2>5, <2>6, <2>7 DEF Exact
<1>6. CASE ~(packets > 0)
  <2>1. SetState(s, "blocked") /\ UNCHANGED <<thread, sem, done, again>>
    BY <1>6 DEF ServeRead
  <2>2. Serving
    BY <1>3, <2>1 DEF Serving
  <2>3. QueueKept' /\ AnswersKept' /\ RemoteKept' /\ Notified'
    BY <1>4, <2>1, <2>2
  <2>4. WokenKept'
    BY <2>1, ServingWoken DEF Exact
  <2>5. CallsKept'
    BY <1>1, <1>2, <2>1, <2>2, ServingCalls DEF Exact, States
  <2> QED BY <1>3, <2>1, <2>3, <2>4, <2>5 DEF Exact
<1> QED BY <1>5, <1>6

LEMMA ServePacketExact ==
  ASSUME TypeOK, SlotsKept, Exact, ServePacket
  PROVE  Exact'
<1>1. UNCHANGED <<sem, thread, done, again, empty, wire, calls>> /\ Serving
  BY DEF ServePacket, rvars, history, Serving
<1>2. RemoteKept' /\ Notified' /\ Responses' \subseteq Responses /\ rq' = rq
  BY <1>1, ServingRemote DEF Exact, Serving
<1>3. WokenKept'
  BY <1>1, ServingWoken DEF Exact
<1>4. ASSUME NEW s \in Slot, lq[s].state = "blocked", SetState(s, "ready")
      PROVE  CallsKept' /\ QueueKept' /\ AnswersKept'
  <2>1. ~Finished(s) /\ lq[s].op = "read" /\ s \notin LocalQueue
    BY <1>4 DEF Exact, CallsKept, QueueKept
  <2>2. CallsKept'
    BY <1>1, <1>4, <2>1, ServingCalls DEF Exact, States
  <2>3. QueueKept'
    BY <1>1, <1>4, <2>1, ServingQueue DEF Exact, States
  <2>4. \A i : Requests(i) # {} => Requests(i)' # {}
    BY <1>4, PendingLeft DEF States
  <2>5. AnswersKept'
    BY <1>1, <1>2, <2>4, AnswersLeft DEF Exact
  <2> QED BY <2>2, <2>3, <2>5
<1>5. ASSUME lq' = lq
      PROVE  CallsKept' /\ QueueKept' /\ AnswersKept'
  <2>1. CallsKept'
    BY <1>1, <1>5, CallsSame DEF Exact
  <2>2. dispatcher'.queue # "local" /\ LocalQueue' = LocalQueue
    BY <1>1 DEF Serving, Idle, LocalQueue, Window, Distance
  <2>3. \A r \in LocalQueue' : lq'[r].state = "served" /\ ~Finished(r)'
    BY <1>1, <1>5, <2>2 DEF Exact, QueueKept, Finished
  <2>4. QueueKept'
    BY <2>2, <2>3 DEF QueueKept, Finished
  <2>5. AnswersKept'
    BY <1>1, <1>2, <1>5 DEF Exact, AnswersKept, Requests
  <2> QED BY <2>1, <2>4, <2>5
<1>6. (\E s \in Slot : lq[s].state = "blocked" /\ SetState(s, "ready")) \/ lq' = lq
  BY DEF ServePacket, NextSlots
<1>7. CallsKept' /\ QueueKept' /\ AnswersKept'
  BY <1>4, <1>5, <1>6
<1> QED BY <1>1, <1>2, <1>3, <1>7 DEF Exact

LEMMA ServeResponseExact ==
  ASSUME TypeOK, SlotsKept, Exact, ServeResponse
  PROVE  Exact'
<1> DEFINE held == dispatcher.slot
<1>1. dispatcher.queue = "remote" /\ rq[held].kind = "response"
  BY DEF ServeResponse
<1>2. PICK s \in Slot : lq[s].state = "pending" /\ lq[s].id = rq[held].id /\ MarkServed(s)
  BY DEF ServeResponse, Requests
<1>3. UNCHANGED <<thread, empty, wire>> /\ Serving
  BY DEF ServeResponse, rvars, Serving
<1>4. ~Finished(s) /\ lq[s].op = "request" /\ s \notin LocalQueue
  BY <1>2 DEF Exact, CallsKept, QueueKept
<1>5. lq[s].id # 0 /\ lq[s].id \notin done
  BY <1>4 DEF Finished
<1>6. SetState(s, "served") /\ done' = done \union {lq[s].id} /\ again' = again
  BY <1>2, <1>5 DEF MarkServed
<1>7. CallsKept'
  BY <1>3, <1>4, <1>6, ServingCalls DEF Exact, States
<1>8. QueueKept'
  BY <1>3, <1>4, <1>6, ServingQueue DEF Exact, States
<1>9. WokenKept'
  BY <1>2, <1>3, <1>4, MarkedWoken DEF Exact
<1>10. RemoteKept' /\ Notified' /\ Responses' \subseteq Responses /\ held \notin Responses'
         /\ rq' = rq
  BY <1>1, <1>3, ServingRemote DEF Exact, Serving
<1>11. held \in Responses
  <2>1. held \in Slot /\ dispatcher = [queue |-> "remote", slot |-> held]
    BY <1>1, TypeParts DEF PointerTypes
  <2> QED BY <1>1, <2>1 DEF Responses, RemoteEvents
<1>12. AnswersKept'
  <2>1. /\ \A k \in DOMAIN wire : Requests(wire[k]) # {} /\ wire[k] # lq[s].id
        /\ \A r \in Responses : Requests(rq[r].id) # {}
        /\ \A q, r \in Responses : rq[q].id = rq[r].id => q = r
        /\ \A j, k \in DOMAIN wire : wire[j] = wire[k] => j = k
        /\ \A k \in DOMAIN wire, r \in Responses : wire[k] # rq[r].id
    BY <1>2, <1>11 DEF Exact, AnswersKept
  <2>2. \A r \in Responses' : rq[r].id # lq[s].id
    BY <1>2, <1>10, <1>11, <2>1
  <2>3. ASSUME NEW i, Requests(i) # {}, i # lq[s].id
        PROVE  \E q \in Slot : lq'[q].state = "pending" /\ lq'[q].id = i
    <3>1. PICK q \in Slot : lq[q].state = "pending" /\ lq[q].id = i
      BY <2>3 DEF Requests
    <3>2. q # s
      BY <2>3, <3>1
    <3>3. lq'[q].state = lq[q].state /\ lq'[q].id = lq[q].id
      BY <1>6, <3>2, TypeParts, StateSet DEF States
    <3> QED BY <3>1, <3>3
  <2>4. \A k \in DOMAIN wire' : \E q \in Slot : lq'[q].state = "pending" /\ lq'[q].id = wire'[k]
    BY <1>3, <2>1, <2>3
  <2>5. \A r \in Responses' : \E q \in Slot : lq'[q].state = "pending" /\ lq'[q].id = rq'[r].id
    BY <1>10, <2>1, <2>2, <2>3
  <2>6. /\ \A q, r \in Responses' : rq'[q].id = rq'[r].id => q = r
        /\ \A j, k \in DOMAIN wire' : wire'[j] = wire'[k] => j = k
        /\ \A k \in DOMAIN wire', r \in Responses' : wire'[k] # rq'[r].id
    BY <1>3, <1>10, <2>1
  <2> QED BY <2>4, <2>5, <2>6 DEF AnswersKept, Requests
<1> QED BY <1>3, <1>6, <1>7, <1>8, <1>9, <1>10, <1>12 DEF Exact

-----------------------------------------------------------------------------
(* The invariant                                                           *)

LEMMA InitInv == Init => IInv
<1> SUFFICES ASSUME Init PROVE IInv
  OBVIOUS
<1>1. /\ lq = [s \in Slot |-> NoEvent] /\ lCur = 0 /\ lProc = 0
      /\ rq = [s \in Slot |-> [kind |-> "none", id |-> 0]] /\ rCur = 0 /\ rProc = 0
      /\ notify = 0 /\ calls = 0 /\ dispatcher = Idle /\ wire = <<>>
      /\ done = {} /\ again = {} /\ empty = {} /\ lapped = FALSE /\ packets = 0 /\ arrived = 0
  BY DEF Init
<1>2. /\ sem = [t \in Threads |-> 0]
      /\ thread = [t \in Threads |-> [call |-> 0, op |-> "none", given |-> FALSE]]
  BY DEF Init
<1>3. 0 \in Slot /\ Distance(0, 0) = 0
  BY SlotNumbers, DistanceZero
<1>4. NoEvent \in LocalSlot /\ NoEvent.id = 0 /\ NoEvent.op = "none" /\ NoEvent.by = None
      /\ NoEvent.state = "served"
  BY BoundAssumption DEF NoEvent, LocalSlot, States, Ops
<1>5. SlotTypes
  <2>1. [kind |-> "none", id |-> 0] \in RemoteSlot
    BY BoundAssumption DEF RemoteSlot
  <2> QED BY <1>1, <1>4, <2>1 DEF SlotTypes
<1>6. ThreadTypes
  <2>1. [call |-> 0, op |-> "none", given |-> FALSE] \in ThreadState
    BY BoundAssumption DEF ThreadState, Ops
  <2> QED BY <1>2, <2>1 DEF ThreadTypes
<1>7. PointerTypes /\ HistoryTypes
  BY <1>1, <1>3 DEF PointerTypes, HistoryTypes, Idle
<1>8. CountTypes
  <2>1. <<>> \in Seq(1..MaxCalls)
    BY EmptySeq
  <2> QED BY <1>1, <2>1, BoundAssumption DEF CountTypes
<1>9. TypeOK
  BY <1>5, <1>6, <1>7, <1>8, TypeParts
<1>10. /\ \A s \in Slot : lq[s].id = 0 /\ lq[s].op = "none" /\ lq[s].by = None
       /\ \A s \in Slot : lq[s].state = "served" /\ Finished(s)
       /\ \A s \in Slot : rq[s].kind = "none"
  BY <1>1, <1>4 DEF Finished
<1>11. SlotsKept
  BY <1>1, <1>10 DEF SlotsKept
<1>12. \A t \in Threads : ~Waiting(t) /\ sem[t] = 0
  BY <1>2 DEF Waiting
<1>13. CallsKept /\ WokenKept
  BY <1>1, <1>10, <1>12 DEF CallsKept, WokenKept
<1>14. LocalQueue = {} /\ RemoteEvents = {}
  <2>1. Window(0, 0) = {}
    BY <1>3, WindowSlots
  <2>2. \A s \in Slot : dispatcher # [queue |-> "remote", slot |-> s]
    BY <1>1 DEF Idle
  <2> QED BY <1>1, <2>1, <2>2 DEF LocalQueue, RemoteEvents
<1>15. QueueKept
  BY <1>1, <1>14 DEF QueueKept, Idle
<1>16. AnswersKept
  <2>1. Responses = {} /\ DOMAIN wire = {}
    BY <1>1, <1>14 DEF Responses
  <2> QED BY <2>1 DEF AnswersKept
<1>17. RemoteKept
  <2>1. Unanswered = {}
    BY <1>14, RemoteParts
  <2>2. Cardinality(Unanswered) <= PeerCalls
    BY <2>1, FS_EmptySet, SlotNumbers
  <2> QED BY <1>1, <1>14, <2>2 DEF RemoteKept, Idle
<1>18. Notified
  BY <1>1, <1>3 DEF Notified
<1> QED BY <1>1, <1>9, <1>11, <1>13, <1>15, <1>16, <1>17, <1>18 DEF IInv, Exact

LEMMA InvStutters == IInv /\ UNCHANGED vars => IInv'
<1> SUFFICES ASSUME IInv, UNCHANGED vars PROVE IInv'
  OBVIOUS
<1>1. /\ UNCHANGED <<lq, lCur, lProc, rq, rCur, rProc, notify, sem, thread, calls>>
      /\ UNCHANGED <<dispatcher, wire, packets, arrived, done, again, empty, lapped>>
  BY DEF vars, lvars, rvars, history
<1>2. TypeOK' /\ SlotsKept'
  BY <1>1 DEF IInv, TypeOK, SlotsKept
<1>3. ASSUME Exact PROVE Exact'
  <2>1. CallsKept' /\ WokenKept'
    BY <1>1, <1>3, CallsSame DEF Exact
  <2>2. LocalQueue' = LocalQueue /\ \A s : Finished(s)' <=> Finished(s)
    BY <1>1 DEF LocalQueue, Window, Distance, Finished
  <2>3. QueueKept'
    BY <1>1, <1>3, <2>2 DEF Exact, QueueKept, Finished
  <2>4. RemoteEvents' = RemoteEvents /\ Responses' = Responses /\ Unanswered' = Unanswered
    BY <1>1 DEF RemoteEvents, Responses, Unanswered, Window, Distance
  <2>5. AnswersKept'
    BY <1>1, <1>3, <2>4 DEF Exact, AnswersKept, Requests
  <2>6. RemoteKept' /\ Notified'
    BY <1>1, <1>3, <2>4 DEF Exact, RemoteKept, Notified, After, Distance
  <2> QED BY <1>1, <1>3, <2>1, <2>3, <2>5, <2>6 DEF Exact
<1> QED BY <1>1, <1>2, <1>3 DEF IInv

LEMMA TypeStep ==
  ASSUME TypeOK, SlotsKept, Next
  PROVE  TypeOK'
<1>1. SlotTypes' /\ PointerTypes' /\ ThreadTypes' /\ CountTypes' /\ HistoryTypes'
  BY SlotTypesStep, PointerTypesStep, ThreadTypesStep, CountTypesStep, HistoryTypesStep
<1>2. (TypeOK <=> SlotTypes /\ PointerTypes /\ ThreadTypes /\ CountTypes /\ HistoryTypes)'
  BY TypeParts, PTL
<1> QED BY <1>1, <1>2

LEMMA ExactStep ==
  ASSUME TypeOK, SlotsKept, Exact, Next, ~lapped'
  PROVE  Exact'
<1>1. ASSUME NEW t \in Threads, Return(t) PROVE Exact'
  BY <1>1, ReturnExact
<1>2. ASSUME NEW t \in Threads, NEW op \in {"request", "read"}, AddLocal(t, op) PROVE Exact'
  BY <1>2, AddedExact
<1>3. CASE ReceiveResponse
  BY <1>3, ReceiveResponseExact
<1>4. CASE ReceivePacket
  BY <1>4, ReceivePacketExact
<1>5. CASE Fetch
  BY <1>5, FetchReadyExact, FetchLocalExact, FetchRemoteExact DEF Fetch
<1>6. CASE Serve
  BY <1>6, ServeRequestExact, ServeReadExact, ServePacketExact, ServeResponseExact DEF Serve
<1> QED BY <1>1, <1>2, <1>3, <1>4, <1>5, <1>6 DEF Next

LEMMA StaysLapped ==
  ASSUME lapped, Next
  PROVE  lapped'
BY DEF Next, AddLocal, Return, ReceiveResponse, ReceivePacket, AddRemote, Fetch, FetchReady,
       FetchLocal, FetchRemote, Serve, ServeRequest, ServeRead, ServePacket, ServeResponse, history

LEMMA InvStep == IInv /\ [Next]_vars => IInv'
<1>1. CASE UNCHANGED vars
  BY <1>1, InvStutters
<1>2. ASSUME IInv, Next PROVE IInv'
  <2>1. TypeOK' /\ SlotsKept'
    BY <1>2, TypeStep, SlotsStep DEF IInv
  <2>2. ~lapped' => Exact'
    BY <1>2, ExactStep, StaysLapped DEF IInv
  <2> QED BY <2>1, <2>2 DEF IInv
<1> QED BY <1>1, <1>2

LEMMA SpecInv == Spec => []IInv
BY InitInv, InvStep, PTL DEF Spec

\* The pointers and the events of both queues are slots, the dispatcher's event is one of
\* them, and no packet is taken that is not there (getNextElementWithState,
\* dispatcherGetNextEvent), also after a call was lapped.
THEOREM TypeSafety == Spec => []TypeOK
<1>1. IInv => TypeOK
  BY DEF IInv
<1> QED BY <1>1, SpecInv, PTL

LEMMA InvExact == IInv => EventsExact
<1> SUFFICES ASSUME IInv, ~lapped
             PROVE NotifiedExactly /\ WokenForItsCall /\ ResponsesMatch /\ ServedOnce
  BY DEF EventsExact
<1>1. TypeOK /\ Exact
  BY DEF IInv
<1>2. NotifiedExactly
  <2>1. lProc \in Slot /\ lCur \in Slot
    BY <1>1, TypeParts DEF PointerTypes
  <2>2. LocalQueue =
          {s \in Slot : lq[s].state = "served" /\ Distance(lProc, s) < Queued(lCur, lProc)}
    <3>1. \A s \in Slot : s \in LocalQueue <=> Distance(lProc, s) < Queued(lCur, lProc)
      BY DEF LocalQueue, Window, Queued
    <3>2. \A s \in LocalQueue : lq[s].state = "served"
      BY <1>1 DEF Exact, QueueKept
    <3>3. LocalQueue \subseteq Slot
      BY DEF LocalQueue, Window
    <3> QED BY <3>1, <3>2, <3>3
  <2>3. Cardinality(LocalQueue) = Distance(lProc, lCur)
    BY <2>1, WindowSize DEF LocalQueue
  <2>4. notify = Distance(lProc, lCur) + Distance(rProc, rCur)
    BY <1>1 DEF Exact, Notified
  <2> HIDE DEF LocalQueue
  <2> QED BY <2>2, <2>3, <2>4 DEF NotifiedExactly, Queued
<1>3. WokenForItsCall
  BY <1>1 DEF Exact, WokenKept, WokenForItsCall
<1>4. ResponsesMatch
  <2>1. ASSUME dispatcher.queue = "remote", rq[dispatcher.slot].kind = "response"
        PROVE  Requests(rq[dispatcher.slot].id) # {}
    <3>1. dispatcher.slot \in Slot /\ dispatcher = [queue |-> "remote", slot |-> dispatcher.slot]
      BY <1>1, <2>1, TypeParts DEF PointerTypes
    <3>2. dispatcher.slot \in Responses
      BY <2>1, <3>1 DEF Responses, RemoteEvents
    <3> QED BY <1>1, <3>2 DEF Exact, AnswersKept
  <2> QED BY <2>1 DEF ResponsesMatch
<1>5. ServedOnce
  BY <1>1 DEF Exact, ServedOnce
<1> QED BY <1>2, <1>3, <1>4, <1>5

\* Until a call is lapped, the notifications are the events nobody fetched, a thread is
\* woken once and for its own call, each response finds its request, and no call is served
\* twice or returns from a read without a packet (dispatcherAddEvent,
\* dispatcherGetNextEvent, dispatcherResponseServe, dispatcherUnblockEvent).
THEOREM EventSafety == Spec => []EventsExact
BY SpecInv, InvExact, PTL
-----------------------------------------------------------------------------
(***************************************************************************)
(* The transport under the scheduler, for any number of messages, chunks   *)
(* and losses of the interface.                                            *)
(*                                                                         *)
(* The writer has at most one transfer pending, that of the unit after the *)
(* last one the host has read, so what the host has read is a run of       *)
(* units.  The reader knows which unit it wants next: until one of the     *)
(* troubles is met that unit is the first on the pipe, or the next the     *)
(* host will write, or everything from its message on went with the        *)
(* interface.                                                              *)
(***************************************************************************)
Unit == Nat \X Nat

Flags ==
  /\ up \in BOOLEAN /\ reconnect \in BOOLEAN
  /\ rwait \in BOOLEAN /\ rlate \in BOOLEAN /\ rsem \in BOOLEAN
  /\ wwait \in BOOLEAN /\ wlate \in BOOLEAN /\ wsem \in BOOLEAN

PipeTyped ==
  /\ pipe \in Seq(Unit)
  /\ \A k \in DOMAIN pipe : pipe[k][1] \in DOMAIN sent /\ pipe[k][2] \in 0..sent[pipe[k][1]]

InTyped ==
  /\ sent \in Seq(0..InChunks) /\ Len(sent) <= MaxIn
  /\ rreq \in Seq(Unit)
  /\ rpc \in {"header", "data", "dead"} /\ chunk \in 0..InChunks
  /\ hdr \in Garbage..Len(sent) /\ prev \in 0..Len(sent)
  /\ hdr = NoMessage => prev = NoMessage
  /\ rpc = "data" => prev # NoMessage
  /\ handled \in Seq(Nat)
  /\ inTrouble \subseteq Troubles

OutTyped ==
  /\ out \in Seq(0..OutChunks) /\ Len(out) <= MaxOut
  /\ wpc \in {"idle", "header", "data"} /\ wchunk \in 0..OutChunks
  /\ wwait => wpc # "idle"
  /\ wpc # "idle" => out # <<>>
  /\ wreq \in Seq(Unit) /\ received \in Seq(Unit)
  /\ Len(wreq) <= 1
  /\ wreq # <<>> => ~wsem /\ (wwait \/ wlate)
  /\ wsem => wwait \/ wlate
  /\ wwait => ~wlate
  /\ outTrouble \subseteq Troubles

Typed == drops \in 0..MaxDrops /\ Flags /\ PipeTyped /\ InTyped /\ OutTyped

LEMMA Bounds ==
  MaxIn \in Nat /\ MaxOut \in Nat /\ InChunks \in Nat /\ OutChunks \in Nat /\ MaxDrops \in Nat
BY BoundsAssumption

LEMMA TypedInit == LinkInit => Typed
<1> SUFFICES ASSUME LinkInit PROVE Typed OBVIOUS
<1>1. Flags BY DEF LinkInit, Flags
<1>2. InTyped BY Bounds DEF LinkInit, InTyped, Garbage, NoMessage, Troubles
<1>3. OutTyped BY Bounds DEF LinkInit, OutTyped, Troubles
<1>4. PipeTyped BY DEF LinkInit, PipeTyped
<1>5. drops \in 0..MaxDrops BY Bounds DEF LinkInit
<1> QED BY <1>1, <1>2, <1>3, <1>4, <1>5 DEF Typed

LEMMA FlagsKept == Flags /\ [LinkNext]_usbVars => Flags'
<1> SUFFICES ASSUME Flags, [LinkNext]_usbVars PROVE Flags' OBVIOUS
<1>1. ASSUME NEW n \in 0..InChunks, HostSends(n) PROVE Flags'
  BY <1>1 DEF Flags, HostSends, linkVars, outVars
<1>2. ASSUME NEW n \in 0..OutChunks, EventSend(n) PROVE Flags'
  BY <1>2 DEF Flags, EventSend, linkVars, inVars
<1>3. CASE ReadCall BY <1>3 DEF Flags, ReadCall, linkVars, outVars
<1>4. CASE ReadTransferDone BY <1>4 DEF Flags, ReadTransferDone, linkVars, outVars
<1>5. CASE ReadReturns
  <2>1. reconnect' \in {reconnect, FALSE} BY <1>5 DEF ReadReturns
  <2>2. reconnect' \in BOOLEAN BY <2>1 DEF Flags
  <2>3. UNCHANGED <<up, rlate, wwait, wlate, wsem>> /\ rsem' = FALSE /\ rwait' = FALSE
    BY <1>5 DEF ReadReturns, outVars
  <2> QED BY <2>2, <2>3 DEF Flags
<1>6. CASE ReadTimesOut BY <1>6 DEF Flags, ReadTimesOut, linkVars, outVars
<1>7. CASE WriteCall BY <1>7 DEF Flags, WriteCall, linkVars, inVars
<1>8. CASE WriteTransferDone BY <1>8 DEF Flags, WriteTransferDone, linkVars, inVars
<1>9. CASE WriteReturns BY <1>9 DEF Flags, WriteReturns, linkVars, inVars
<1>10. CASE WriteTimesOut BY <1>10 DEF Flags, WriteTimesOut, linkVars, inVars
<1>11. CASE InterfaceDown BY <1>11 DEF Flags, InterfaceDown
<1>12. CASE InterfaceUp BY <1>12 DEF Flags, InterfaceUp, outVars
<1>13. CASE UNCHANGED usbVars BY <1>13 DEF Flags, usbVars, linkVars, inVars, outVars
<1> QED
  BY <1>1, <1>2, <1>3, <1>4, <1>5, <1>6, <1>7, <1>8, <1>9, <1>10, <1>11, <1>12, <1>13
  DEF LinkNext

LEMMA UnitsFacts ==
  ASSUME NEW m \in Nat, NEW n \in Nat
  PROVE  /\ Units(m, n) \in Seq(Unit) /\ Len(Units(m, n)) = n + 1
         /\ \A k \in 1..(n + 1) : Units(m, n)[k] = <<m, k - 1>>
<1>1. \A k \in 1..(n + 1) : <<m, k - 1>> \in Unit BY DEF Unit
<1>2. Units(m, n) \in [1..(n + 1) -> Unit] BY <1>1 DEF Units
<1> QED BY <1>2 DEF Units

\* What a message does to the pipe.
LEMMA HostSendsPipe ==
  ASSUME InTyped, PipeTyped, NEW n \in 0..InChunks, HostSends(n)
  PROVE  /\ sent' \in Seq(0..InChunks) /\ Len(sent') = Len(sent) + 1 /\ sent'[Len(sent) + 1] = n
         /\ \A i \in DOMAIN sent : sent'[i] = sent[i]
         /\ pipe' \in Seq(Unit) /\ Len(pipe') = Len(pipe) + n + 1
         /\ \A k \in DOMAIN pipe : pipe'[k] = pipe[k]
         /\ \A k \in 1..(n + 1) : pipe'[Len(pipe) + k] = <<Len(sent) + 1, k - 1>>
<1> DEFINE m == Len(sent) + 1
           u == Units(m, n)
<1>0. m \in Nat /\ n \in Nat /\ sent \in Seq(0..InChunks) BY Bounds DEF InTyped
<1>1. /\ u \in Seq(Unit) /\ Len(u) = n + 1
      /\ \A k \in 1..(n + 1) : u[k] = <<m, k - 1>>
  BY <1>0, UnitsFacts
<1>2. pipe' = pipe \o u /\ sent' = Append(sent, n) /\ pipe \in Seq(Unit)
  BY DEF HostSends, PipeTyped
<1> HIDE DEF u
<1>3. /\ sent' \in Seq(0..InChunks) /\ Len(sent') = m /\ sent'[m] = n
      /\ \A i \in 1..Len(sent) : sent'[i] = sent[i]
  BY <1>0, <1>2
<1>a. pipe' \in Seq(Unit) /\ Len(pipe') = Len(pipe) + Len(u) BY <1>1, <1>2, ConcatProperties
<1>b. Len(pipe) \in Nat BY <1>2
<1>4. pipe' \in Seq(Unit) /\ Len(pipe') = Len(pipe) + n + 1 BY <1>0, <1>1, <1>a, <1>b
<1>5. \A k \in DOMAIN pipe : pipe'[k] = pipe[k] BY <1>1, <1>2
<1>6. ASSUME NEW k \in 1..(n + 1) PROVE pipe'[Len(pipe) + k] = <<m, k - 1>>
  <2>1. pipe'[Len(pipe) + k] = u[k] BY <1>0, <1>1, <1>2
  <2> QED BY <2>1, <1>1
<1>7. \A i \in DOMAIN sent : sent'[i] = sent[i] BY <1>0, <1>3
<1>8. \A k \in 1..(n + 1) : pipe'[Len(pipe) + k] = <<Len(sent) + 1, k - 1>> BY <1>6
<1> HIDE DEF m
<1>9. sent'[Len(sent) + 1] = n /\ Len(sent') = Len(sent) + 1 BY <1>3 DEF m
<1> QED BY <1>3, <1>4, <1>5, <1>7, <1>8, <1>9

LEMMA HostSendsTyped ==
  ASSUME InTyped, PipeTyped, NEW n \in 0..InChunks, HostSends(n)
  PROVE  InTyped' /\ PipeTyped'
<1>1. /\ sent' \in Seq(0..InChunks) /\ Len(sent') = Len(sent) + 1 /\ sent'[Len(sent) + 1] = n
      /\ \A i \in DOMAIN sent : sent'[i] = sent[i]
  BY HostSendsPipe
<1>2. /\ pipe' \in Seq(Unit) /\ Len(pipe') = Len(pipe) + n + 1
      /\ \A k \in DOMAIN pipe : pipe'[k] = pipe[k]
      /\ \A k \in 1..(n + 1) : pipe'[Len(pipe) + k] = <<Len(sent) + 1, k - 1>>
  BY HostSendsPipe
<1>3. sent \in Seq(0..InChunks) /\ pipe \in Seq(Unit) /\ n \in Nat BY Bounds DEF InTyped, PipeTyped
<1>5. ASSUME NEW k \in DOMAIN pipe'
      PROVE  pipe'[k][1] \in DOMAIN sent' /\ pipe'[k][2] \in 0..sent'[pipe'[k][1]]
  <2>1. CASE k <= Len(pipe)
    <3>1. pipe'[k] = pipe[k] /\ k \in DOMAIN pipe BY <2>1, <1>2, <1>3
    <3>2. pipe[k][1] \in DOMAIN sent /\ pipe[k][2] \in 0..sent[pipe[k][1]] BY <3>1 DEF PipeTyped
    <3>3. pipe[k][1] \in DOMAIN sent' BY <3>2, <1>1, <1>3
    <3> QED BY <3>1, <3>2, <3>3, <1>1
  <2>2. CASE k > Len(pipe)
    <3> DEFINE j == k - Len(pipe)
    <3>1. j \in 1..(n + 1) /\ k = Len(pipe) + j BY <2>2, <1>2, <1>3
    <3>2. pipe'[k] = <<Len(sent) + 1, j - 1>> BY <3>1, <1>2
    <3> HIDE DEF j
    <3> QED BY <3>1, <3>2, <1>1, <1>3
  <2> QED BY <2>1, <2>2, <1>2, <1>3
<1>6. UNCHANGED <<rpc, chunk, rwait, rlate, rreq, rsem, hdr, prev, handled, inTrouble>>
  BY DEF HostSends
<1>7. hdr \in Garbage..Len(sent)' /\ prev \in 0..Len(sent)'
  BY <1>1, <1>3 DEF InTyped, Garbage
<1>8. Len(sent') <= MaxIn BY <1>1, <1>3, Bounds DEF HostSends
<1>9. PipeTyped' BY <1>2, <1>5 DEF PipeTyped
<1> QED BY <1>1, <1>6, <1>7, <1>8, <1>9 DEF InTyped

LEMMA ReadCallTyped == ASSUME InTyped, ReadCall PROVE InTyped'
<1>1. Place \in Unit BY DEF InTyped, Place, Header, Unit
<1>2. rreq' \in Seq(Unit) BY <1>1 DEF InTyped, ReadCall
<1>3. UNCHANGED <<sent, rpc, chunk, hdr, prev, handled, inTrouble>> BY DEF ReadCall
<1> QED BY <1>2, <1>3 DEF InTyped

\* The oldest unit leaves the pipe.
LEMMA PipeHead ==
  ASSUME PipeTyped, pipe # <<>>, pipe' = Tail(pipe), UNCHANGED sent
  PROVE  /\ 1 \in DOMAIN pipe /\ Head(pipe) = pipe[1]
         /\ pipe[1][1] \in DOMAIN sent /\ pipe[1][2] \in 0..sent[pipe[1][1]]
         /\ pipe' \in Seq(Unit) /\ Len(pipe') = Len(pipe) - 1
         /\ \A k \in DOMAIN pipe' : k + 1 \in DOMAIN pipe /\ pipe'[k] = pipe[k + 1]
         /\ PipeTyped'
<1>1. pipe \in Seq(Unit) BY DEF PipeTyped
<1>2. /\ 1 \in DOMAIN pipe /\ Head(pipe) = pipe[1]
      /\ pipe' \in Seq(Unit) /\ Len(pipe') = Len(pipe) - 1
      /\ \A k \in DOMAIN pipe' : k + 1 \in DOMAIN pipe /\ pipe'[k] = pipe[k + 1]
  BY <1>1
<1>3. \A k \in DOMAIN pipe : pipe[k][1] \in DOMAIN sent /\ pipe[k][2] \in 0..sent[pipe[k][1]]
  BY DEF PipeTyped
<1>4. ASSUME NEW k \in DOMAIN pipe'
      PROVE  pipe'[k][1] \in DOMAIN sent /\ pipe'[k][2] \in 0..sent[pipe'[k][1]]
  BY <1>2, <1>3
<1>5. PipeTyped' BY <1>2, <1>4 DEF PipeTyped
<1> QED BY <1>2, <1>3, <1>5

LEMMA ReadTransferDoneTyped ==
  ASSUME InTyped, PipeTyped, ReadTransferDone PROVE InTyped' /\ PipeTyped'
<1>1. pipe # <<>> /\ rreq # <<>> /\ pipe' = Tail(pipe) /\ rreq' = Tail(rreq) /\ rsem' = TRUE
  BY DEF ReadTransferDone
<1>2. UNCHANGED <<sent, rpc, chunk, rwait, rlate, prev, handled, inTrouble>>
  BY DEF ReadTransferDone
<1>3. rreq' \in Seq(Unit) BY <1>1 DEF InTyped
<1>4. /\ Head(pipe) = pipe[1] /\ pipe[1][1] \in DOMAIN sent /\ PipeTyped'
  BY <1>1, <1>2, PipeHead
<1>5. pipe[1][1] \in 1..Len(sent) BY <1>4 DEF InTyped
<1>6. hdr' \in {hdr, Garbage, pipe[1][1]} BY <1>4 DEF ReadTransferDone
<1>7. hdr' \in Garbage..Len(sent) /\ (hdr' = NoMessage => hdr = NoMessage)
  BY <1>5, <1>6 DEF InTyped, Garbage, NoMessage
<1> QED BY <1>1, <1>2, <1>3, <1>4, <1>7 DEF InTyped

LEMMA ReadReturnsTyped == ASSUME InTyped, ReadReturns PROVE InTyped'
<1>1. UNCHANGED <<sent, pipe, rlate, rreq, hdr, inTrouble>> /\ rsem' = FALSE /\ rwait' = FALSE
  BY DEF ReadReturns
<1>2. CASE UNCHANGED <<rpc, chunk, prev, handled>> BY <1>1, <1>2 DEF InTyped
<1>3. CASE rpc = "data" /\ DataRead
  <2>0. sent \in Seq(0..InChunks) /\ prev \in 0..Len(sent) /\ prev # 0 /\ handled \in Seq(Nat)
        /\ chunk \in 0..InChunks
    BY <1>3 DEF InTyped, NoMessage
  <2>1. prev \in DOMAIN sent /\ sent[prev] \in 0..InChunks /\ prev \in Nat
    <3>a. prev \in 1..Len(sent) BY <2>0
    <3>1. sent[prev] \in 0..InChunks BY <2>0, <3>a, ElementOfSeq
    <3> QED BY <2>0, <3>1
  <2>2. chunk' \in 0..InChunks /\ handled' \in Seq(Nat) /\ rpc' \in {"header", "data"}
          /\ prev' = prev
    <3>1. Append(handled, prev) \in Seq(Nat) BY <2>0, <2>1, AppendProperties
    <3>2. handled' \in Seq(Nat) /\ rpc' \in {"header", "data"} /\ prev' = prev
      BY <1>3, <2>0, <3>1 DEF DataRead, Deliver
    <3>3. chunk' = chunk \/ (chunk < sent[prev] /\ chunk' = chunk + 1) BY <1>3 DEF DataRead
    <3>4. chunk' \in 0..InChunks BY <2>0, <2>1, <3>3, Bounds
    <3> QED BY <3>2, <3>4
  <2> QED BY <1>1, <1>3, <2>2 DEF InTyped
<1>4. CASE HeaderRead
  <2>1. CASE hdr = Garbage
    <3>1. rpc' = "dead"
            /\ UNCHANGED <<prev, chunk, handled>> BY <1>4, <2>1 DEF HeaderRead, InTyped, Garbage
    <3> QED BY <1>1, <3>1 DEF InTyped
  <2>2. CASE hdr # Garbage /\ hdr = prev BY <1>1, <2>2, <1>4, <1>2 DEF HeaderRead
  <2>3. CASE hdr # Garbage /\ hdr # prev
    <3>0. Take BY <1>4, <2>3 DEF HeaderRead
    <3>a. sent \in Seq(0..InChunks) /\ hdr \in 1..Len(sent) /\ handled \in Seq(Nat)
          /\ chunk \in 0..InChunks
      BY <2>3 DEF InTyped, NoMessage, Garbage
    <3>1. hdr \in DOMAIN sent /\ sent[hdr] \in 0..InChunks /\ hdr # NoMessage /\ hdr \in Nat
      <4>1. sent[hdr] \in 0..InChunks BY <3>a, ElementOfSeq
      <4> QED BY <3>a, <4>1 DEF NoMessage
    <3>2. /\ chunk' \in 0..InChunks /\ handled' \in Seq(Nat) /\ rpc' \in {"header", "data"}
          /\ prev' = hdr
      <4>1. Append(handled, hdr) \in Seq(Nat) BY <3>a, <3>1, AppendProperties
      <4>2. handled' \in Seq(Nat) /\ rpc' \in {"header", "data"} /\ prev' = hdr
        BY <3>0, <3>a, <4>1 DEF Take, Deliver
      <4>3. chunk' = chunk \/ (sent[hdr] # 0 /\ chunk' = 1) BY <3>0 DEF Take
      <4>4. chunk' \in 0..InChunks BY <3>a, <3>1, <4>3, Bounds
      <4> QED BY <4>2, <4>4
    <3> QED BY <1>1, <3>1, <3>2 DEF InTyped
  <2> QED BY <2>1, <2>2, <2>3
<1> QED BY <1>2, <1>3, <1>4 DEF ReadReturns

LEMMA ReadTimesOutTyped == ASSUME InTyped, ReadTimesOut PROVE InTyped'
<1>0. handled \in Seq(Nat) /\ prev \in Nat BY DEF InTyped
<1>a. handled' = handled \/ handled' = Append(handled, prev) BY DEF ReadTimesOut, Deliver
<1>b. rpc' \in {rpc, "header"} BY DEF ReadTimesOut, Deliver
<1>c. Append(handled, prev) \in Seq(Nat) BY <1>0, AppendProperties
<1>1. handled' \in Seq(Nat) /\ rpc' \in {rpc, "header"} BY <1>0, <1>a, <1>b, <1>c
<1>2. inTrouble' \subseteq Troubles BY DEF InTyped, ReadTimesOut, If, Troubles
<1>3. UNCHANGED <<sent, pipe, chunk, rreq, rsem, hdr, prev>> /\ rlate' = TRUE /\ rwait' = FALSE
  BY DEF ReadTimesOut
<1> QED BY <1>1, <1>2, <1>3 DEF InTyped

LEMMA EventSendTyped == ASSUME OutTyped, NEW n \in 0..OutChunks, EventSend(n) PROVE OutTyped'
<1>1. /\ out' = Append(out, n) /\ wpc' = "header" /\ wchunk' = 0 /\ Len(out) < MaxOut
      /\ UNCHANGED <<wwait, wlate, wreq, wsem, received, outTrouble>>
  BY DEF EventSend
<1>a. out \in Seq(0..OutChunks) BY DEF OutTyped
<1>b. /\ Append(out, n) \in Seq(0..OutChunks) /\ Append(out, n) # <<>>
      /\ Len(Append(out, n)) = Len(out) + 1
  BY <1>a, AppendProperties
<1>c. Len(out) \in Nat BY <1>a
<1>d. Len(out') = Len(out) + 1 BY <1>1, <1>b
<1>e. Len(out') <= MaxOut BY <1>1, <1>c, <1>d, Bounds
<1>2. out' \in Seq(0..OutChunks) /\ Len(out') <= MaxOut /\ out' # <<>>
  BY <1>1, <1>b, <1>e
<1>3. wpc' \in {"idle", "header", "data"} /\ wchunk' \in 0..OutChunks BY <1>1, Bounds
<1>4. /\ wreq' \in Seq(Unit) /\ received' \in Seq(Unit) /\ Len(wreq') <= 1
      /\ wreq' # <<>> => ~wsem' /\ (wwait' \/ wlate')
  BY <1>1 DEF OutTyped
<1>5. /\ wsem' => wwait' \/ wlate'
      /\ wwait' => ~wlate'
      /\ outTrouble' \subseteq Troubles
  BY <1>1 DEF OutTyped
<1>6. wwait' => wpc' # "idle" BY <1>1
<1>7. wpc' # "idle" => out' # <<>> BY <1>2
<1> QED BY <1>2, <1>3, <1>4, <1>5, <1>6, <1>7 DEF OutTyped

LEMMA WriteCallTyped == ASSUME OutTyped, WriteCall PROVE OutTyped'
<1>1. <<Len(out), wchunk>> \in Unit BY DEF OutTyped, Unit
<1>2. /\ wpc # "idle" /\ ~wwait /\ wlate' = FALSE /\ wwait' = TRUE
      /\ UNCHANGED <<out, wpc, wchunk, wsem, received>>
      /\ (wreq' = wreq \/ (~wlate /\ wreq' = Append(wreq, <<Len(out), wchunk>>)))
  BY DEF WriteCall
<1>a. wreq \in Seq(Unit) BY DEF OutTyped
<1>b. Append(wreq, <<Len(out), wchunk>>) \in Seq(Unit) BY <1>1, <1>a, AppendProperties
<1>3. wreq' \in Seq(Unit) BY <1>2, <1>a, <1>b
<1>4. ~wlate => wreq = <<>> /\ ~wsem BY <1>2 DEF OutTyped
<1>5. Len(wreq') <= 1 /\ (wreq' # <<>> => ~wsem)
  BY <1>1, <1>2, <1>4 DEF OutTyped
<1>6. outTrouble' \subseteq Troubles BY DEF OutTyped, WriteCall, If, Troubles
<1> QED BY <1>2, <1>3, <1>5, <1>6 DEF OutTyped

LEMMA WriteTransferDoneTyped == ASSUME OutTyped, WriteTransferDone PROVE OutTyped'
<1>1. /\ wreq # <<>> /\ received' = Append(received, Head(wreq))
      /\ wreq' = Tail(wreq) /\ wsem' = TRUE
      /\ UNCHANGED <<out, wpc, wchunk, wwait, wlate, outTrouble>>
  BY DEF WriteTransferDone
<1>2. wreq' = <<>> /\ Head(wreq) \in Unit BY <1>1 DEF OutTyped
<1>3. received' \in Seq(Unit) BY <1>1, <1>2 DEF OutTyped
<1>4. wwait \/ wlate BY <1>1 DEF OutTyped
<1> QED BY <1>1, <1>2, <1>3, <1>4 DEF OutTyped

LEMMA WriteReturnsTyped == ASSUME OutTyped, WriteReturns PROVE OutTyped'
<1>1. /\ wwait /\ wsem /\ wsem' = FALSE /\ wwait' = FALSE
      /\ UNCHANGED <<out, wlate, wreq, received, outTrouble>>
  BY DEF WriteReturns
<1>a. out # <<>> /\ out \in Seq(0..OutChunks) BY <1>1 DEF OutTyped
<1>b. Len(out) \in 1..Len(out) BY <1>a
<1>c. out[Len(out)] \in 0..OutChunks BY <1>a, <1>b, ElementOfSeq
<1>2. Last(out) \in 0..OutChunks BY <1>c DEF Last
<1>3. wchunk' \in 0..OutChunks /\ wpc' \in {"data", "idle"}
  BY <1>2, Bounds DEF OutTyped, WriteReturns
<1>4. wreq = <<>> BY <1>1 DEF OutTyped
<1> QED BY <1>1, <1>2, <1>3, <1>4 DEF OutTyped

LEMMA WriteTimesOutTyped == ASSUME OutTyped, WriteTimesOut PROVE OutTyped'
<1>1. /\ wwait /\ ~wsem /\ wlate' = TRUE /\ wwait' = FALSE /\ wpc' \in {wpc, "idle"}
      /\ UNCHANGED <<out, wchunk, wreq, wsem, received>>
  BY DEF WriteTimesOut
<1>2. outTrouble' \subseteq Troubles BY DEF OutTyped, WriteTimesOut, If, Troubles
<1> QED BY <1>1, <1>2 DEF OutTyped

LEMMA InterfaceDownTyped ==
  ASSUME InTyped, PipeTyped, OutTyped, InterfaceDown PROVE InTyped' /\ PipeTyped' /\ OutTyped'
<1>1. /\ up' = FALSE /\ pipe' = <<>> /\ rreq' = <<>> /\ wreq' = <<>>
      /\ UNCHANGED <<reconnect, sent, rpc, chunk, rwait, rlate, rsem, hdr, prev, handled>>
      /\ UNCHANGED inTrouble
      /\ UNCHANGED <<out, wpc, wchunk, wwait, wlate, wsem, received>>
  BY DEF InterfaceDown
<1>2. outTrouble' \subseteq Troubles BY DEF OutTyped, InterfaceDown, If, Troubles
<1>3. PipeTyped' BY <1>1 DEF PipeTyped
<1>4. InTyped' BY <1>1 DEF InTyped
<1>5. OutTyped' BY <1>1, <1>2 DEF OutTyped
<1> QED BY <1>3, <1>4, <1>5

LEMMA InterfaceUpTyped ==
  ASSUME InTyped, PipeTyped, OutTyped, InterfaceUp PROVE InTyped' /\ PipeTyped' /\ OutTyped'
<1>1. /\ rsem' = TRUE
      /\ UNCHANGED <<sent, pipe, rpc, chunk, rwait, rlate, rreq, hdr, prev, handled>>
      /\ UNCHANGED <<out, wpc, wchunk, wwait, wlate, wreq, wsem, received, outTrouble>>
  BY DEF InterfaceUp, outVars
<1>2. inTrouble' \subseteq Troubles BY DEF InTyped, InterfaceUp, If, Troubles
<1>3. PipeTyped' BY <1>1 DEF PipeTyped
<1>4. InTyped' BY <1>1, <1>2 DEF InTyped
<1>5. OutTyped' BY <1>1 DEF OutTyped
<1> QED BY <1>3, <1>4, <1>5

LEMMA TypedStep == Typed /\ [LinkNext]_usbVars => Typed'
<1> SUFFICES ASSUME Typed, [LinkNext]_usbVars PROVE Typed' OBVIOUS
<1>a. drops \in 0..MaxDrops /\ Flags /\ PipeTyped /\ InTyped /\ OutTyped BY DEF Typed
<1>b. Flags' BY <1>a, FlagsKept
<1> SUFFICES drops' \in 0..MaxDrops /\ PipeTyped' /\ InTyped' /\ OutTyped' BY <1>b DEF Typed
<1>c. UNCHANGED <<drops, outVars>> => drops' \in 0..MaxDrops /\ OutTyped'
  BY <1>a DEF outVars, OutTyped
<1>d. UNCHANGED <<drops, inVars>> => drops' \in 0..MaxDrops /\ PipeTyped' /\ InTyped'
  <2> SUFFICES ASSUME UNCHANGED <<drops, inVars>>
               PROVE  drops' \in 0..MaxDrops /\ PipeTyped' /\ InTyped' OBVIOUS
  <2>1. PipeTyped' BY <1>a DEF inVars, PipeTyped
  <2>2. InTyped' BY <1>a DEF inVars, InTyped
  <2> QED BY <1>a, <2>1, <2>2
<1>e. UNCHANGED <<pipe, sent>> => PipeTyped' BY <1>a DEF PipeTyped
<1>1. CASE \E n \in 0..InChunks : HostSends(n)
  <2> PICK n \in 0..InChunks : HostSends(n) BY <1>1
  <2>1. UNCHANGED <<drops, outVars>> BY DEF HostSends, linkVars
  <2> QED BY <2>1, <1>a, <1>c, HostSendsTyped
<1>2. CASE \E n \in 0..OutChunks : EventSend(n)
  <2> PICK n \in 0..OutChunks : EventSend(n) BY <1>2
  <2>1. UNCHANGED <<drops, inVars>> BY DEF EventSend, linkVars
  <2> QED BY <2>1, <1>a, <1>d, EventSendTyped
<1>3. CASE ReadCall
  <2>1. UNCHANGED <<drops, outVars>> /\ UNCHANGED <<pipe, sent>> BY <1>3 DEF ReadCall, linkVars
  <2> QED BY <2>1, <1>3, <1>a, <1>c, <1>e, ReadCallTyped
<1>4. CASE ReadTransferDone
  <2>1. UNCHANGED <<drops, outVars>> BY <1>4 DEF ReadTransferDone, linkVars
  <2> QED BY <2>1, <1>4, <1>a, <1>c, ReadTransferDoneTyped
<1>5. CASE ReadReturns
  <2>1. UNCHANGED <<drops, outVars>> /\ UNCHANGED <<pipe, sent>> BY <1>5 DEF ReadReturns
  <2> QED BY <2>1, <1>5, <1>a, <1>c, <1>e, ReadReturnsTyped
<1>6. CASE ReadTimesOut
  <2>1. UNCHANGED <<drops, outVars>> /\ UNCHANGED <<pipe, sent>> BY <1>6 DEF ReadTimesOut, linkVars
  <2> QED BY <2>1, <1>6, <1>a, <1>c, <1>e, ReadTimesOutTyped
<1>7. CASE WriteCall
  <2>1. UNCHANGED <<drops, inVars>> BY <1>7 DEF WriteCall, linkVars
  <2> QED BY <2>1, <1>7, <1>a, <1>d, WriteCallTyped
<1>8. CASE WriteTransferDone
  <2>1. UNCHANGED <<drops, inVars>> BY <1>8 DEF WriteTransferDone, linkVars
  <2> QED BY <2>1, <1>8, <1>a, <1>d, WriteTransferDoneTyped
<1>9. CASE WriteReturns
  <2>1. UNCHANGED <<drops, inVars>> BY <1>9 DEF WriteReturns, linkVars
  <2> QED BY <2>1, <1>9, <1>a, <1>d, WriteReturnsTyped
<1>10. CASE WriteTimesOut
  <2>1. UNCHANGED <<drops, inVars>> BY <1>10 DEF WriteTimesOut, linkVars
  <2> QED BY <2>1, <1>10, <1>a, <1>d, WriteTimesOutTyped
<1>11. CASE InterfaceDown
  <2>1. drops' = drops + 1 /\ drops < MaxDrops BY <1>11 DEF InterfaceDown
  <2>2. drops' \in 0..MaxDrops BY <2>1, <1>a, Bounds
  <2> QED BY <2>2, <1>11, <1>a, InterfaceDownTyped
<1>12. CASE InterfaceUp
  <2>1. drops' = drops BY <1>12 DEF InterfaceUp
  <2> QED BY <2>1, <1>12, <1>a, InterfaceUpTyped
<1>13. CASE UNCHANGED usbVars
  <2>1. UNCHANGED <<drops, outVars>> /\ UNCHANGED <<drops, inVars>>
    BY <1>13 DEF usbVars, linkVars
  <2> QED BY <2>1, <1>c, <1>d
<1> QED
  BY <1>1, <1>2, <1>3, <1>4, <1>5, <1>6, <1>7, <1>8, <1>9, <1>10, <1>11, <1>12, <1>13
  DEF LinkNext

\* Consecutive units.
LEMMA ConsecutiveLonger ==
  ASSUME NEW w \in Seq(Unit), NEW c \in Seq(Nat), NEW d \in Seq(Nat),
         Consecutive(w, c), Len(c) <= Len(d), \A i \in DOMAIN c : d[i] = c[i]
  PROVE  Consecutive(w, d)
<1> SUFFICES ASSUME NEW k \in DOMAIN w
             PROVE  /\ w[k][1] \in DOMAIN d
                    /\ w[k][2] \in 0..d[w[k][1]]
                    /\ k + 1 \in DOMAIN w => w[k + 1] = Follower(w[k], d)
  BY DEF Consecutive
<1>1. /\ w[k][1] \in DOMAIN c /\ w[k][2] \in 0..c[w[k][1]]
      /\ k + 1 \in DOMAIN w => w[k + 1] = Follower(w[k], c)
  BY DEF Consecutive
<1>2. d[w[k][1]] = c[w[k][1]] /\ w[k][1] \in DOMAIN d BY SMTT(30), <1>1
<1>3. Follower(w[k], d) = Follower(w[k], c) BY <1>2 DEF Follower
<1> QED BY <1>1, <1>2, <1>3

LEMMA ConsecutiveAppend ==
  ASSUME NEW w \in Seq(Unit), NEW c \in Seq(Nat), NEW u \in Unit,
         Consecutive(w, c), u[1] \in DOMAIN c, u[2] \in 0..c[u[1]],
         w # <<>> => Follower(w[Len(w)], c) = u
  PROVE  Consecutive(Append(w, u), c)
<1> DEFINE v == Append(w, u)
<1>1. v \in Seq(Unit) /\ Len(v) = Len(w) + 1 /\ v[Len(w) + 1] = u
  OBVIOUS
<1>2. \A k \in DOMAIN w : v[k] = w[k] OBVIOUS
<1> HIDE DEF v
<1> SUFFICES ASSUME NEW k \in DOMAIN v
             PROVE  /\ v[k][1] \in DOMAIN c
                    /\ v[k][2] \in 0..c[v[k][1]]
                    /\ k + 1 \in DOMAIN v => v[k + 1] = Follower(v[k], c)
  BY DEF Consecutive, v
<1>3. CASE k = Len(w) + 1 BY <1>1, <1>3
<1>4. CASE k = Len(w)
  <2>1. w # <<>> /\ k \in DOMAIN w BY <1>1, <1>4
  <2> QED BY <2>1, <1>1, <1>2, <1>4 DEF Consecutive
<1>5. CASE k < Len(w)
  <2>1. k \in DOMAIN w /\ k + 1 \in DOMAIN w BY <1>1, <1>5
  <2> QED BY <2>1, <1>2 DEF Consecutive
<1> QED BY <1>1, <1>3, <1>4, <1>5

LEMMA ConsecutiveTail ==
  ASSUME NEW w \in Seq(Unit), w # <<>>, NEW c \in Seq(Nat), Consecutive(w, c)
  PROVE  Consecutive(Tail(w), c)
<1> DEFINE v == Tail(w)
<1>1. v \in Seq(Unit) /\ Len(v) = Len(w) - 1 OBVIOUS
<1>2. \A k \in DOMAIN v : k + 1 \in DOMAIN w /\ v[k] = w[k + 1] OBVIOUS
<1> HIDE DEF v
<1> SUFFICES ASSUME NEW k \in DOMAIN v
             PROVE  /\ v[k][1] \in DOMAIN c
                    /\ v[k][2] \in 0..c[v[k][1]]
                    /\ k + 1 \in DOMAIN v => v[k + 1] = Follower(v[k], c)
  BY DEF Consecutive, v
<1>3. v[k] = w[k + 1] /\ k + 1 \in DOMAIN w BY <1>2
<1>4. k + 1 \in DOMAIN v => v[k + 1] = w[k + 1 + 1] /\ k + 1 + 1 \in DOMAIN w BY <1>2
<1>5. /\ w[k + 1][1] \in DOMAIN c /\ w[k + 1][2] \in 0..c[w[k + 1][1]]
      /\ k + 1 + 1 \in DOMAIN w => w[k + 1 + 1] = Follower(w[k + 1], c)
  BY <1>3 DEF Consecutive
<1> QED BY <1>3, <1>4, <1>5

\* Of a sequence with one unit more.
LEMMA ConsecutivePart ==
  ASSUME NEW w \in Seq(Unit), NEW c \in Seq(Nat), NEW u \in Unit, Consecutive(Append(w, u), c)
  PROVE  Consecutive(w, c)
<1> DEFINE v == Append(w, u)
<1>1. v \in Seq(Unit) /\ Len(v) = Len(w) + 1 OBVIOUS
<1>2. \A k \in DOMAIN w : k \in DOMAIN v /\ v[k] = w[k] OBVIOUS
<1>3. Consecutive(v, c) OBVIOUS
<1> HIDE DEF v
<1> QED BY <1>1, <1>2, <1>3 DEF Consecutive
-----------------------------------------------------------------------------
(* Writing                                                                 *)

Submitted == wreq # <<>> \/ wsem

\* What the host has read and what is on its way to it.
Written == IF wreq = <<>> THEN received ELSE Append(received, wreq[1])

WriterAt ==
  /\ wwait \/ wlate <=> Submitted
  /\ wpc = "idle" => ~Submitted
  /\ wpc = "header" => wchunk = 0
  /\ wpc = "data" => wchunk > 0 /\ ~wlate
  /\ wpc # "idle" => wchunk <= out[Len(out)]
  /\ wreq # <<>> => wreq[1] = <<Len(out), wchunk>>

\* The last unit of a message that was sent, or the last one submitted.
WrittenUpTo ==
  /\ out = <<>> => Written = <<>>
  /\ out # <<>> /\ wpc = "idle" =>
       Written # <<>> /\ Written[Len(Written)] = <<Len(out), out[Len(out)]>>
  /\ wpc # "idle" /\ Submitted =>
       Written # <<>> /\ Written[Len(Written)] = <<Len(out), wchunk>>
  /\ wpc # "idle" /\ ~Submitted =>
       IF Written = <<>> THEN Len(out) = 1 /\ wchunk = 0
       ELSE Follower(Written[Len(Written)], out) = <<Len(out), wchunk>>

WriteKept ==
  outTrouble = {} /\ drops = 0 =>
    /\ up /\ WriterAt /\ WrittenUpTo
    /\ Written # <<>> => Written[1] = <<1, 0>>
    /\ Consecutive(Written, out)

LEMMA WriteInit == LinkInit => WriteKept
BY DEF LinkInit, WriteKept, WriterAt, WrittenUpTo, Written, Submitted, Consecutive

\* What a write step may assume, and what it leaves to show.
Writing ==
  /\ OutTyped /\ up /\ WriterAt /\ WrittenUpTo
  /\ Written # <<>> => Written[1] = <<1, 0>>
  /\ Consecutive(Written, out)

LEMMA WrittenTyped ==
  ASSUME OutTyped
  PROVE  /\ Written \in Seq(Unit) /\ received \in Seq(Unit) /\ out \in Seq(Nat)
         /\ wreq \in Seq(Unit)
         /\ wreq # <<>> => wreq[1] \in Unit
         /\ out # <<>> => Len(out) \in DOMAIN out /\ out[Len(out)] \in Nat
         /\ wchunk \in Nat
<1>1. received \in Seq(Unit) /\ wreq \in Seq(Unit) /\ out \in Seq(0..OutChunks) /\ wchunk \in Nat
  BY Bounds DEF OutTyped
<1>2. wreq # <<>> => wreq[1] \in Unit BY <1>1
<1>3. Written \in Seq(Unit) BY <1>1, <1>2 DEF Written
<1>4. out \in Seq(Nat)
  <2>1. \A i \in 1..Len(out) : out[i] \in 0..OutChunks BY <1>1, ElementOfSeq
  <2>2. out \in [1..Len(out) -> Nat] BY <1>1, <2>1, Bounds
  <2> QED BY <1>1, <2>2
<1> QED BY <1>1, <1>2, <1>3, <1>4

LEMMA EventSendWrites ==
  ASSUME Writing, NEW n \in 0..OutChunks, EventSend(n)
  PROVE  WriteKept'
<1>1. /\ out' = Append(out, n) /\ wpc = "idle" /\ wpc' = "header" /\ wchunk' = 0
      /\ UNCHANGED <<up, wwait, wlate, wreq, wsem, received, outTrouble>>
  BY DEF EventSend, linkVars
<1>2. /\ Written \in Seq(Unit) /\ out \in Seq(Nat) /\ n \in Nat
      /\ out # <<>> => Len(out) \in DOMAIN out /\ out[Len(out)] \in Nat
  BY WrittenTyped, Bounds DEF Writing
<1>3. /\ out' \in Seq(Nat) /\ Len(out') = Len(out) + 1 /\ out'[Len(out) + 1] = n
      /\ \A i \in DOMAIN out : out'[i] = out[i]
  BY <1>1, <1>2
<1>4. Written' = Written BY <1>1 DEF Written
<1>5. Consecutive(Written, out')
  <2>1. Consecutive(Written, out) BY DEF Writing
  <2>2. Len(out) <= Len(out') BY <1>2, <1>3
  <2> QED BY <2>1, <2>2, <1>2, <1>3, ConsecutiveLonger
<1>6. ~Submitted /\ ~Submitted' /\ wreq = <<>>
  BY <1>1 DEF Writing, WriterAt, Submitted
<1>7. WriterAt' BY <1>1, <1>2, <1>3, <1>6 DEF Writing, WriterAt
<1>8. CASE out = <<>>
  <2>1. Written = <<>> /\ Len(out') = 1 BY <1>8, <1>3 DEF Writing, WrittenUpTo
  <2>2. WrittenUpTo' BY <2>1, <1>1, <1>3, <1>4, <1>6 DEF WrittenUpTo
  <2> QED BY <2>2, <1>1, <1>4, <1>5, <1>7 DEF WriteKept, Writing
<1>9. CASE out # <<>>
  <2>1. Written # <<>> /\ Written[Len(Written)] = <<Len(out), out[Len(out)]>>
    BY <1>1, <1>9 DEF Writing, WrittenUpTo
  <2>2. out'[Len(out)] = out[Len(out)] BY <1>2, <1>3, <1>9
  <2>3. Follower(<<Len(out), out[Len(out)]>>, out') = <<Len(out) + 1, 0>>
    BY <2>2, <1>2, <1>9 DEF Follower
  <2>4. out' # <<>> /\ Len(out') = Len(out) + 1 BY <1>3, <1>2
  <2>5. WrittenUpTo' BY <2>1, <2>3, <2>4, <1>1, <1>4, <1>6 DEF WrittenUpTo
  <2> QED BY <2>5, <1>1, <1>4, <1>5, <1>7 DEF WriteKept, Writing
<1> QED BY <1>8, <1>9

LEMMA WriteCallWrites ==
  ASSUME Writing, WriteCall
  PROVE  WriteKept'
<1>1. /\ wpc # "idle" /\ ~wwait /\ wlate' = FALSE /\ wwait' = TRUE
      /\ UNCHANGED <<up, drops, out, wpc, wchunk, wsem, received>>
      /\ wreq' = IF wlate THEN wreq ELSE Append(wreq, <<Len(out), wchunk>>)
  BY DEF WriteCall, linkVars, Writing
<1>2. /\ Written \in Seq(Unit) /\ received \in Seq(Unit) /\ out \in Seq(Nat) /\ wreq \in Seq(Unit)
      /\ out # <<>> /\ Len(out) \in DOMAIN out /\ out[Len(out)] \in Nat /\ wchunk \in Nat
  BY <1>1, WrittenTyped DEF Writing, OutTyped
<1>3. CASE wlate
  <2>1. wreq' = wreq /\ wpc # "data" BY <1>3, <1>1 DEF Writing, WriterAt
  <2>2. Written' = Written /\ Submitted' = Submitted BY <1>1, <2>1 DEF Written, Submitted
  <2>3. Submitted BY <1>3 DEF Writing, WriterAt
  <2>4. WriterAt' BY <1>1, <2>1, <2>2, <2>3 DEF Writing, WriterAt
  <2>5. WrittenUpTo' BY <1>1, <2>2 DEF Writing, WrittenUpTo
  <2> QED BY <1>1, <2>2, <2>4, <2>5 DEF Writing, WriteKept
<1>4. CASE ~wlate
  <2> DEFINE u == <<Len(out), wchunk>>
  <2>1. ~Submitted /\ wreq = <<>> BY <1>1, <1>4 DEF Writing, WriterAt, Submitted
  <2>2. wreq' = <<u>> /\ wreq' # <<>> /\ wreq'[1] = u BY <1>1, <1>4, <2>1
  <2>3. u \in Unit /\ u[1] \in DOMAIN out /\ u[2] \in 0..out[u[1]]
    BY <1>1, <1>2 DEF Unit, Writing, WriterAt
  <2> HIDE DEF u
  <2>4. Written = received /\ Written' = Append(Written, u)
    BY <2>1, <2>2, <1>1 DEF Written
  <2>5. Submitted' BY <2>2 DEF Submitted
  <2>6. Written # <<>> => Follower(Written[Len(Written)], out) = u
    BY <1>1, <2>1 DEF Writing, WrittenUpTo, u
  <2>7. Written = <<>> => u = <<1, 0>>
    BY <1>1, <2>1 DEF Writing, WrittenUpTo, u
  <2>8. Consecutive(Written', out)
    BY <1>2, <2>3, <2>4, <2>6, ConsecutiveAppend DEF Writing
  <2>a. Written \in Seq(Unit) BY <1>2
  <2>b. LET w == Append(Written, u)
        IN  /\ w # <<>> /\ Len(w) = Len(Written) + 1 /\ w[Len(Written) + 1] = u
            /\ \A i \in 1..Len(Written) : w[i] = Written[i]
    BY <2>3, <2>a, AppendProperties
  <2>c. Len(Written) \in Nat BY <2>a
  <2>d. Written # <<>> => 1 \in 1..Len(Written) BY <2>a, <2>c, EmptySeq
  <2>e. Written = <<>> => Len(Written) + 1 = 1 BY EmptySeq
  <2>9. /\ Written' # <<>> /\ Written'[Len(Written')] = u
        /\ Written # <<>> => Written'[1] = Written[1]
        /\ Written = <<>> => Written'[1] = u
    BY <2>4, <2>b, <2>d, <2>e
  <2>10. Written'[1] = <<1, 0>> BY <2>7, <2>9 DEF Writing
  <2>11. WriterAt' BY <1>1, <1>2, <2>2, <2>5 DEF Writing, WriterAt, u
  <2>12. WrittenUpTo' BY <1>1, <1>2, <2>5, <2>9 DEF WrittenUpTo, u
  <2> QED BY <1>1, <2>8, <2>10, <2>11, <2>12 DEF Writing, WriteKept
<1> QED BY <1>3, <1>4

LEMMA WriteTransferDoneWrites ==
  ASSUME Writing, WriteTransferDone
  PROVE  WriteKept'
<1>1. /\ wreq # <<>> /\ received' = Append(received, Head(wreq))
      /\ wreq' = Tail(wreq) /\ wsem' = TRUE
      /\ UNCHANGED <<up, drops, out, wpc, wchunk, wwait, wlate, outTrouble>>
  BY DEF WriteTransferDone, linkVars
<1>2. wreq' = <<>> /\ Head(wreq) = wreq[1]
  BY <1>1 DEF Writing, OutTyped
<1>3. Written' = Written BY <1>1, <1>2 DEF Written
<1>4. Submitted /\ Submitted' BY <1>1 DEF Submitted
<1>5. WriterAt' BY <1>1, <1>2, <1>4 DEF Writing, WriterAt
<1>6. WrittenUpTo' BY <1>1, <1>3, <1>4 DEF Writing, WrittenUpTo
<1> QED BY <1>1, <1>3, <1>5, <1>6 DEF Writing, WriteKept

LEMMA WriteReturnsWrites ==
  ASSUME Writing, WriteReturns
  PROVE  WriteKept'
<1>1. /\ wwait /\ wsem /\ wsem' = FALSE /\ wwait' = FALSE
      /\ UNCHANGED <<up, drops, out, wlate, wreq, received, outTrouble>>
      /\ IF wchunk < out[Len(out)] THEN wpc' = "data" /\ wchunk' = wchunk + 1
                                   ELSE wpc' = "idle" /\ wchunk' = wchunk
  BY DEF WriteReturns, linkVars, Last
<1>2. /\ Written \in Seq(Unit) /\ out \in Seq(Nat)
      /\ wpc # "idle" /\ out # <<>> /\ Len(out) \in DOMAIN out /\ out[Len(out)] \in Nat
      /\ wchunk \in Nat
  BY <1>1, WrittenTyped DEF Writing, OutTyped
<1>3. wreq = <<>> /\ ~wlate BY <1>1 DEF Writing, OutTyped
<1>4. Written' = Written BY <1>1 DEF Written
<1>5. Submitted /\ ~Submitted' BY <1>1, <1>3 DEF Submitted
<1>6. /\ Written # <<>> /\ Written[Len(Written)] = <<Len(out), wchunk>>
      /\ wchunk <= out[Len(out)]
  BY <1>2, <1>5 DEF Writing, WrittenUpTo, WriterAt
<1>7. CASE wchunk < out[Len(out)]
  <2>1. wpc' = "data" /\ wchunk' = wchunk + 1 BY <1>1, <1>7
  <2>2. Follower(<<Len(out), wchunk>>, out) = <<Len(out), wchunk + 1>>
    BY <1>7 DEF Follower
  <2>3. WriterAt' BY <1>1, <1>2, <1>3, <1>5, <1>7, <2>1 DEF WriterAt
  <2>4. WrittenUpTo' BY <1>1, <1>2, <1>4, <1>5, <1>6, <2>1, <2>2 DEF WrittenUpTo
  <2> QED BY <1>1, <1>4, <2>3, <2>4 DEF Writing, WriteKept
<1>8. CASE wchunk = out[Len(out)]
  <2>1. wpc' = "idle" /\ wchunk' = wchunk BY <1>1, <1>2, <1>8
  <2>3. WriterAt' BY <1>1, <1>2, <1>3, <1>5, <2>1 DEF WriterAt
  <2>4. WrittenUpTo' BY <1>1, <1>2, <1>4, <1>5, <1>6, <1>8, <2>1 DEF WrittenUpTo
  <2> QED BY <1>1, <1>4, <2>3, <2>4 DEF Writing, WriteKept
<1> QED BY <1>2, <1>6, <1>7, <1>8

LEMMA WriteTimesOutWrites ==
  ASSUME Writing, WriteTimesOut
  PROVE  WriteKept'
<1>1. /\ wwait /\ ~wsem /\ wlate' = TRUE /\ wwait' = FALSE
      /\ wpc' = (IF wpc = "data" THEN "idle" ELSE wpc)
      /\ UNCHANGED <<up, drops, out, wchunk, wreq, wsem, received>>
      /\ wpc = "data" => "late" \in outTrouble'
  BY DEF WriteTimesOut, linkVars, If
<1>2. CASE wpc = "data" BY <1>1, <1>2 DEF WriteKept
<1>3. CASE wpc # "data"
  <2>1. wpc' = wpc BY <1>1, <1>3
  <2>2. Written' = Written /\ Submitted' = Submitted BY <1>1 DEF Written, Submitted
  <2>3. Submitted BY <1>1 DEF Writing, WriterAt
  <2>4. WriterAt' BY <1>1, <1>3, <2>1, <2>2, <2>3 DEF Writing, WriterAt
  <2>5. WrittenUpTo' BY <1>1, <2>1, <2>2 DEF Writing, WrittenUpTo
  <2> QED BY <1>1, <2>2, <2>4, <2>5 DEF Writing, WriteKept
<1> QED BY <1>2, <1>3

LEMMA WriteStep == Typed /\ WriteKept /\ [LinkNext]_usbVars => WriteKept'
<1> SUFFICES ASSUME Typed, WriteKept, [LinkNext]_usbVars,
                    outTrouble' = {}, drops' = 0
             PROVE  WriteKept'
  BY DEF WriteKept
<1>a. drops \in Nat /\ OutTyped BY Bounds DEF Typed
<1>b. ASSUME outTrouble \subseteq outTrouble', drops' = drops PROVE Writing
  BY <1>a, <1>b DEF WriteKept, Writing
<1>c. ASSUME UNCHANGED <<up, drops, outVars>> PROVE WriteKept'
  <2>1. Writing BY <1>b, <1>c DEF outVars
  <2>2. Written' = Written /\ Submitted' = Submitted BY <1>c DEF Written, Submitted, outVars
  <2>3. WriterAt' BY <2>1, <2>2, <1>c DEF Writing, WriterAt, outVars
  <2>4. WrittenUpTo' BY <2>1, <2>2, <1>c DEF Writing, WrittenUpTo, outVars
  <2> QED BY <2>1, <2>2, <2>3, <2>4, <1>c DEF Writing, WriteKept, outVars
<1>1. CASE \E n \in 0..InChunks : HostSends(n)
  BY <1>1, <1>c DEF HostSends, linkVars
<1>2. CASE \E n \in 0..OutChunks : EventSend(n)
  <2> PICK n \in 0..OutChunks : EventSend(n) BY <1>2
  <2>1. drops' = drops /\ outTrouble' = outTrouble BY DEF EventSend, linkVars
  <2> QED BY <2>1, <1>b, EventSendWrites
<1>3. CASE ReadCall BY <1>3, <1>c DEF ReadCall, linkVars
<1>4. CASE ReadTransferDone BY <1>4, <1>c DEF ReadTransferDone, linkVars
<1>5. CASE ReadReturns BY <1>5, <1>c DEF ReadReturns
<1>6. CASE ReadTimesOut BY <1>6, <1>c DEF ReadTimesOut, linkVars
<1>7. CASE WriteCall
  <2>1. drops' = drops /\ outTrouble \subseteq outTrouble' BY <1>7 DEF WriteCall, linkVars
  <2> QED BY <2>1, <1>b, <1>7, WriteCallWrites
<1>8. CASE WriteTransferDone
  <2>1. drops' = drops /\ outTrouble' = outTrouble BY <1>8 DEF WriteTransferDone, linkVars
  <2> QED BY <2>1, <1>b, <1>8, WriteTransferDoneWrites
<1>9. CASE WriteReturns
  <2>1. drops' = drops /\ outTrouble' = outTrouble BY <1>9 DEF WriteReturns, linkVars
  <2> QED BY <2>1, <1>b, <1>9, WriteReturnsWrites
<1>10. CASE WriteTimesOut
  <2>1. drops' = drops /\ outTrouble \subseteq outTrouble' BY <1>10 DEF WriteTimesOut, linkVars
  <2> QED BY <2>1, <1>b, <1>10, WriteTimesOutWrites
<1>11. CASE InterfaceDown
  <2>1. drops' = drops + 1 BY <1>11 DEF InterfaceDown
  <2> QED BY <2>1, <1>a
<1>12. CASE InterfaceUp
  <2>1. ~up /\ drops' = drops /\ outTrouble' = outTrouble BY <1>12 DEF InterfaceUp, outVars
  <2> QED BY <2>1 DEF WriteKept
<1>13. CASE UNCHANGED usbVars BY <1>13, <1>c DEF usbVars, linkVars
<1> QED
  BY <1>1, <1>2, <1>3, <1>4, <1>5, <1>6, <1>7, <1>8, <1>9, <1>10, <1>11, <1>12, <1>13
  DEF LinkNext

LEMMA WriteHolds == Typed /\ WriteKept => SentWhole
<1> SUFFICES ASSUME Typed, WriteKept, outTrouble = {}, drops = 0
             PROVE  /\ received # <<>> => received[1] = <<1, 0>>
                    /\ Consecutive(received, out)
  BY DEF SentWhole
<1>1. /\ Written # <<>> => Written[1] = <<1, 0>>
      /\ Consecutive(Written, out)
  BY DEF WriteKept
<1>2. /\ Written \in Seq(Unit) /\ received \in Seq(Unit) /\ out \in Seq(Nat)
      /\ wreq # <<>> => wreq[1] \in Unit
  BY WrittenTyped DEF Typed
<1>3. CASE wreq = <<>> BY <1>1, <1>3 DEF Written
<1>4. CASE wreq # <<>>
  <2>1. Written = Append(received, wreq[1]) BY <1>4 DEF Written
  <2>2. Consecutive(received, out) BY <1>1, <1>2, <1>4, <2>1, ConsecutivePart
  <2>3. received # <<>> => Written[1] = received[1] /\ Written # <<>>
    BY <1>2, <1>4, <2>1
  <2> QED BY <1>1, <2>2, <2>3
<1> QED BY <1>3, <1>4

-----------------------------------------------------------------------------
(* Reading                                                                 *)

\* The pipe is a run of units up to the last one the host wrote.
PipeKept ==
  /\ ~up => pipe = <<>>
  /\ Consecutive(pipe, sent)
  /\ pipe # <<>> => pipe[Len(pipe)] = <<Len(sent), sent[Len(sent)]>>
  /\ pipe # <<>> => \A m \in pipe[1][1]..Len(sent) : \E k \in DOMAIN pipe : pipe[k][1] = m

\* The next unit on the pipe, or the next the host writes.
Ahead == IF pipe = <<>> THEN <<Len(sent) + 1, 0>> ELSE pipe[1]

Chunks(m) == IF m = NoMessage THEN 0 ELSE sent[m]

\* Data that timed out at its last chunk are still to come.
LateData == rreq # <<>> /\ rreq[1] # Header

\* The chunk of hdr's message that comes next.
Wanted ==
  IF rpc = "data" THEN (IF rsem THEN chunk + 1 ELSE chunk)
  ELSE IF hdr # prev THEN 1
  ELSE IF LateData THEN Chunks(hdr) ELSE Chunks(hdr) + 1

\* hdr's message is not handled yet.
Fresh == rpc = "data" \/ hdr # prev

ReaderAt ==
  /\ rpc # "dead" /\ hdr # Garbage /\ prev <= hdr
  /\ Len(rreq) <= 1
  /\ rreq # <<>> => up /\ ~rsem /\ (rwait \/ rlate)
  /\ rsem => rwait \/ rlate
  /\ rwait => ~rlate
  /\ hdr # prev => rsem /\ rpc = "header"
  /\ reconnect => rwait /\ rsem /\ rpc = "header" /\ hdr = prev

RequestsKept ==
  /\ rpc = "data" =>
       /\ hdr = prev /\ chunk \in 1..sent[hdr] /\ ~rlate
       /\ rreq # <<>> => rreq[1] = <<hdr, chunk>>
       /\ up /\ rwait /\ ~rsem => rreq # <<>>
  /\ rpc = "header" /\ rreq # <<>> =>
       \/ rreq[1] = Header
       \/ hdr # NoMessage /\ sent[hdr] > 0 /\ rreq[1] = <<hdr, sent[hdr]>>

\* The pipe goes on where the reader is, or the interface took what was on it.
AheadKept ==
  IF Wanted <= Chunks(hdr)
  THEN \/ Ahead = <<hdr, Wanted>>
       \/ ~up /\ \A m \in hdr..Len(sent) : m \in gone
  ELSE /\ Ahead[2] = 0 /\ Ahead[1] > hdr
       /\ \A m \in (hdr + 1)..(Ahead[1] - 1) : m \in gone

Whole(m) == m \in gone \/ \A c \in 1..sent[m] : <<m, c>> \in filled

InOrder == \A j, k \in DOMAIN handled : j < k => handled[j] < handled[k]

HandledKept ==
  /\ \A k \in DOMAIN handled : handled[k] \in 1..hdr /\ (Fresh => handled[k] < hdr)
  /\ \A k \in DOMAIN handled : handled[k] < hdr => Whole(handled[k])
  /\ \A m \in 1..(hdr - 1) : m \in gone \/ \E k \in DOMAIN handled : handled[k] = m
  /\ ~Fresh /\ hdr # NoMessage => \E k \in DOMAIN handled : handled[k] = hdr

FilledKept == hdr \in gone \/ \A c \in 1..(Wanted - 1) : <<hdr, c>> \in filled

ReadSound ==
  ReaderAt /\ RequestsKept /\ AheadKept /\ InOrder /\ HandledKept /\ FilledKept

ReadKept == inTrouble = {} => ReadSound

LinkInv == Typed /\ WriteKept /\ PipeKept /\ ReadKept

LEMMA ReadInit == LinkInit => PipeKept /\ ReadKept
BY DEF LinkInit, PipeKept, ReadKept, ReadSound, ReaderAt, RequestsKept, AheadKept, InOrder,
  HandledKept, FilledKept, Consecutive, Ahead, Wanted, Chunks, LateData, Fresh, Header, NoMessage,
  Garbage

LEMMA SentTyped ==
  ASSUME InTyped
  PROVE  sent \in Seq(Nat) /\ \A m \in DOMAIN sent : sent[m] \in 0..InChunks
<1>1. sent \in Seq(0..InChunks) BY DEF InTyped
<1>2. \A i \in 1..Len(sent) : sent[i] \in 0..InChunks BY <1>1, ElementOfSeq
<1>3. sent \in [1..Len(sent) -> Nat] BY <1>1, <1>2, Bounds
<1> QED BY <1>1, <1>2, <1>3

LEMMA HostSendsPipeKept ==
  ASSUME InTyped, PipeTyped, PipeKept, NEW n \in 0..InChunks, HostSends(n)
  PROVE  PipeKept' /\ Ahead' = Ahead /\ up
<1> DEFINE m == Len(sent) + 1
<1>1. /\ sent' \in Seq(0..InChunks) /\ Len(sent') = Len(sent) + 1 /\ sent'[Len(sent) + 1] = n
      /\ \A i \in DOMAIN sent : sent'[i] = sent[i]
  BY HostSendsPipe
<1>2. /\ pipe' \in Seq(Unit) /\ Len(pipe') = Len(pipe) + n + 1
      /\ \A k \in DOMAIN pipe : pipe'[k] = pipe[k]
      /\ \A k \in 1..(n + 1) : pipe'[Len(pipe) + k] = <<Len(sent) + 1, k - 1>>
  BY HostSendsPipe
<1>3. sent \in Seq(Nat) /\ pipe \in Seq(Unit) /\ n \in Nat /\ Len(pipe) \in Nat /\ Len(sent) \in Nat
  BY SentTyped, Bounds DEF PipeTyped
<1>4. up /\ up' = up BY DEF HostSends, linkVars
<1>5. ASSUME NEW k \in DOMAIN pipe'
      PROVE  /\ pipe'[k][1] \in DOMAIN sent'
             /\ pipe'[k][2] \in 0..sent'[pipe'[k][1]]
             /\ k + 1 \in DOMAIN pipe' => pipe'[k + 1] = Follower(pipe'[k], sent')
  <2>1. CASE k < Len(pipe)
    <3>1. k \in DOMAIN pipe /\ k + 1 \in DOMAIN pipe BY <2>1, <1>2, <1>3
    <3>2. pipe'[k] = pipe[k] /\ pipe'[k + 1] = pipe[k + 1] BY <3>1, <1>2
    <3>3. /\ pipe[k][1] \in DOMAIN sent /\ pipe[k][2] \in 0..sent[pipe[k][1]]
          /\ pipe[k + 1] = Follower(pipe[k], sent)
      BY <3>1 DEF PipeKept, Consecutive
    <3>4. sent'[pipe[k][1]] = sent[pipe[k][1]] /\ pipe[k][1] \in DOMAIN sent'
      BY SMTT(30), <3>3, <1>1, <1>3
    <3>5. Follower(pipe[k], sent') = Follower(pipe[k], sent) BY <3>4 DEF Follower
    <3> QED BY <3>2, <3>3, <3>4, <3>5
  <2>2. CASE k = Len(pipe)
    <3>1. k \in DOMAIN pipe /\ pipe # <<>> BY <2>2, <1>2, <1>3
    <3>2. pipe'[k] = <<Len(sent), sent[Len(sent)]>>
      BY <3>1, <2>2, <1>2 DEF PipeKept
    <3>3. pipe[k][1] \in DOMAIN sent BY <3>1 DEF PipeKept, Consecutive
    <3>4. Len(sent) \in DOMAIN sent BY <3>3, <1>3
    <3>5. sent'[Len(sent)] = sent[Len(sent)] /\ Len(sent) \in DOMAIN sent' BY <3>4, <1>1, <1>3
    <3>6. 1 \in 1..(n + 1) BY <1>3
    <3>7. pipe'[k + 1] = <<Len(sent) + 1, 0>> BY <3>6, <2>2, <1>2
    <3>8. Follower(pipe'[k], sent') = <<Len(sent) + 1, 0>>
      BY <3>2, <3>5, <1>3, <3>4 DEF Follower
    <3>9. sent[Len(sent)] \in Nat BY <3>4, <1>3
    <3> QED BY <3>2, <3>5, <3>7, <3>8, <3>9
  <2>3. CASE k > Len(pipe)
    <3> DEFINE j == k - Len(pipe)
    <3>1. j \in 1..(n + 1) /\ k = Len(pipe) + j /\ k + 1 = Len(pipe) + (j + 1)
      BY <2>3, <1>2, <1>3
    <3>2. k + 1 \in DOMAIN pipe' => j + 1 \in 1..(n + 1) BY SMTT(30), <3>1, <1>2, <1>3
    <3> HIDE DEF j
    <3>3. pipe'[k] = <<Len(sent) + 1, j - 1>> BY <3>1, <1>2
    <3>4. k + 1 \in DOMAIN pipe' => pipe'[k + 1] = <<Len(sent) + 1, j>> /\ j <= n
      <4> SUFFICES ASSUME k + 1 \in DOMAIN pipe'
                   PROVE  pipe'[k + 1] = <<Len(sent) + 1, j>> /\ j <= n
        OBVIOUS
      <4>1. j + 1 \in 1..(n + 1) /\ (j + 1) - 1 = j BY <3>1, <3>2, <1>3
      <4>2. pipe'[Len(pipe) + (j + 1)] = <<Len(sent) + 1, (j + 1) - 1>> BY <4>1, <1>2
      <4>3. pipe'[k + 1] = pipe'[Len(pipe) + (j + 1)] BY <3>1
      <4>4. j <= n BY <3>1, <4>1, <1>3
      <4> QED BY <4>1, <4>2, <4>3, <4>4
    <3>5. k + 1 \in DOMAIN pipe' => Follower(pipe'[k], sent') = <<Len(sent) + 1, j>>
      BY <3>1, <3>3, <3>4, <1>1, <1>3 DEF Follower
    <3>6. Len(sent) + 1 \in DOMAIN sent' /\ j - 1 \in 0..n BY <3>1, <1>1, <1>3
    <3> QED BY <3>3, <3>4, <3>5, <3>6, <1>1
  <2> QED BY <2>1, <2>2, <2>3, <1>2, <1>3
<1>6. Consecutive(pipe', sent') BY <1>5 DEF Consecutive
<1>7. n + 1 \in 1..(n + 1) /\ 1 \in 1..(n + 1) BY <1>3
<1>8. pipe' # <<>> /\ pipe'[Len(pipe')] = <<Len(sent'), sent'[Len(sent')]>>
  <2>1. Len(pipe') = Len(pipe) + (n + 1) BY <1>2, <1>3
  <2>a. pipe'[Len(pipe) + (n + 1)] = <<Len(sent) + 1, (n + 1) - 1>> BY <1>2, <1>7
  <2>b. (n + 1) - 1 = n BY <1>3
  <2>2. pipe'[Len(pipe) + (n + 1)] = <<Len(sent) + 1, n>> BY <2>a, <2>b
  <2>3. pipe' # <<>> BY <2>1, <1>3, <1>2
  <2> QED BY <2>1, <2>2, <2>3, <1>1
<1>9. pipe'[Len(pipe) + 1] = <<Len(sent) + 1, 0>> /\ Len(pipe) + 1 \in DOMAIN pipe'
  BY <1>2, <1>3, <1>7
<1>10. Ahead' = Ahead
  <2>1. CASE pipe = <<>> BY <2>1, <1>8, <1>9 DEF Ahead
  <2>2. CASE pipe # <<>>
    <3>1. 1 \in DOMAIN pipe BY <2>2, <1>3
    <3> QED BY <3>1, <2>2, <1>2, <1>8 DEF Ahead
  <2> QED BY <2>1, <2>2
<1>11. ASSUME NEW x \in pipe'[1][1]..Len(sent')
       PROVE  \E k \in DOMAIN pipe' : pipe'[k][1] = x
  <2>1. CASE x = Len(sent) + 1 BY <2>1, <1>9
  <2>2. CASE x # Len(sent) + 1 /\ pipe = <<>>
    <3>1. pipe'[1][1] = Len(sent) + 1 BY <2>2, <1>9
    <3> QED BY <3>1, <2>2, <1>1, <1>3
  <2>3. CASE x # Len(sent) + 1 /\ pipe # <<>>
    <3>1. 1 \in DOMAIN pipe BY <2>3, <1>3
    <3>2. pipe'[1] = pipe[1] BY <3>1, <1>2
    <3>3. pipe[1][1] \in DOMAIN sent BY <3>1 DEF PipeKept, Consecutive
    <3>4. x \in pipe[1][1]..Len(sent) BY <3>2, <3>3, <2>3, <1>1, <1>3
    <3>5. PICK k \in DOMAIN pipe : pipe[k][1] = x BY <3>4, <2>3 DEF PipeKept
    <3>6. k \in DOMAIN pipe' BY <3>5, <1>2, <1>3
    <3> QED BY <3>5, <3>6, <1>2
  <2> QED BY <2>1, <2>2, <2>3
<1> QED BY <1>4, <1>6, <1>8, <1>10, <1>11 DEF PipeKept

\* The oldest unit is read.
LEMMA TailPipeKept ==
  ASSUME InTyped, PipeTyped, PipeKept, pipe # <<>>, pipe' = Tail(pipe), sent' = sent, up' = up, up
  PROVE  PipeKept' /\ Ahead' = Follower(pipe[1], sent)
<1>1. /\ 1 \in DOMAIN pipe /\ Head(pipe) = pipe[1]
      /\ pipe[1][1] \in DOMAIN sent /\ pipe[1][2] \in 0..sent[pipe[1][1]]
      /\ pipe' \in Seq(Unit) /\ Len(pipe') = Len(pipe) - 1
      /\ \A k \in DOMAIN pipe' : k + 1 \in DOMAIN pipe /\ pipe'[k] = pipe[k + 1]
  BY PipeHead
<1>2. sent \in Seq(Nat) /\ pipe \in Seq(Unit) BY SentTyped DEF PipeTyped
<1>3. Consecutive(pipe, sent) /\ pipe[Len(pipe)] = <<Len(sent), sent[Len(sent)]>>
  BY DEF PipeKept
<1>4. Consecutive(pipe', sent') BY <1>2, <1>3, ConsecutiveTail
<1>5. CASE pipe' = <<>>
  <2>a. Len(pipe') = 0 BY <1>1, <1>5, EmptySeq
  <2>b. Len(pipe) \in Nat BY <1>2
  <2>1. Len(pipe) = 1 BY <1>1, <2>a, <2>b
  <2>2. pipe[1] = <<Len(sent), sent[Len(sent)]>> BY <2>1, <1>3
  <2>3. Len(sent) \in Nat /\ sent[Len(sent)] \in Nat BY <2>2, <1>1, <1>2
  <2>4. Follower(pipe[1], sent) = <<Len(sent) + 1, 0>> BY <2>2, <2>3 DEF Follower
  <2> QED BY <2>4, <1>4, <1>5 DEF PipeKept, Ahead
<1>6. CASE pipe' # <<>>
  <2>1. 1 \in DOMAIN pipe' /\ 2 \in DOMAIN pipe /\ pipe'[1] = pipe[2] BY SMTT(30), <1>1, <1>2, <1>6
  <2>2. pipe[2] = Follower(pipe[1], sent) BY <2>1, <1>1, <1>3 DEF Consecutive
  <2>3. Len(pipe') \in DOMAIN pipe' /\ Len(pipe') + 1 = Len(pipe) BY <1>1, <1>2, <1>6
  <2>4. pipe'[Len(pipe')] = <<Len(sent), sent[Len(sent)]>> BY <2>3, <1>1, <1>3
  <2>5. ASSUME NEW x \in pipe'[1][1]..Len(sent)
        PROVE  \E k \in DOMAIN pipe' : pipe'[k][1] = x
    <3>0. x = pipe'[1][1] => \E k \in DOMAIN pipe' : pipe'[k][1] = x BY <2>1
    <3> SUFFICES ASSUME x # pipe'[1][1] PROVE \E k \in DOMAIN pipe' : pipe'[k][1] = x BY <3>0
    <3>1. pipe'[1][1] \in {pipe[1][1], pipe[1][1] + 1} BY <2>1, <2>2 DEF Follower
    <3>2. pipe[1][1] \in Nat BY <1>1, <1>2
    <3> DEFINE a == pipe[1][1]
               b == pipe'[1][1]
    <3>a. b \in {a, a + 1} /\ a \in Nat /\ x \in b..Len(sent) /\ x # b BY <3>1, <3>2
    <3> HIDE DEF a, b
    <3>b. x \in a..Len(sent) /\ x # a BY <3>a
    <3>3. x \in pipe[1][1]..Len(sent) /\ x # pipe[1][1] BY <3>b DEF a
    <3>4. PICK k \in DOMAIN pipe : pipe[k][1] = x BY <3>3, <1>1 DEF PipeKept
    <3>5. k # 1 BY <3>3, <3>4
    <3>6. k - 1 \in DOMAIN pipe' /\ (k - 1) + 1 = k BY SMTT(30), <3>5, <1>1, <1>2
    <3>7. pipe'[k - 1] = pipe[k] BY <3>6, <1>1
    <3> QED BY <3>4, <3>6, <3>7
  <2> QED BY <2>1, <2>2, <2>4, <2>5, <1>4, <1>6 DEF PipeKept, Ahead
<1> QED BY <1>5, <1>6

\* What a read step may assume.
Reading == InTyped /\ PipeTyped /\ PipeKept /\ ReadSound

LEMMA ReadFacts ==
  ASSUME Reading
  PROVE  /\ sent \in Seq(Nat) /\ handled \in Seq(Nat) /\ pipe \in Seq(Unit) /\ rreq \in Seq(Unit)
         /\ Len(sent) \in Nat /\ hdr \in 0..Len(sent) /\ prev \in 0..Len(sent) /\ chunk \in Nat
         /\ Chunks(hdr) \in Nat
         /\ hdr # NoMessage => hdr \in DOMAIN sent /\ Chunks(hdr) = sent[hdr]
         /\ rpc = "data" => hdr # NoMessage
         /\ rpc \in {"header", "data"}
<1>1. /\ sent \in Seq(Nat) /\ handled \in Seq(Nat) /\ pipe \in Seq(Unit) /\ rreq \in Seq(Unit)
      /\ prev \in 0..Len(sent) /\ chunk \in Nat
  BY SentTyped, Bounds DEF Reading, InTyped, PipeTyped
<1>2. Len(sent) \in Nat BY <1>1
<1>3. hdr \in 0..Len(sent) BY <1>2 DEF Reading, InTyped, ReadSound, ReaderAt, Garbage
<1>4. hdr # NoMessage => hdr \in DOMAIN sent /\ Chunks(hdr) = sent[hdr]
  BY <1>1, <1>3 DEF NoMessage, Chunks
<1>5. Chunks(hdr) \in Nat BY <1>1, <1>4 DEF Chunks
<1>6. rpc = "data" => hdr # NoMessage
  BY DEF Reading, InTyped, ReadSound, RequestsKept
<1>7. rpc \in {"header", "data"} BY DEF Reading, InTyped, ReadSound, ReaderAt
<1> QED BY <1>1, <1>2, <1>3, <1>4, <1>5, <1>6, <1>7

LEMMA WantedFacts ==
  ASSUME Reading
  PROVE  /\ Wanted \in 1..(Chunks(hdr) + 1)
         /\ rpc = "data" /\ rsem => Wanted = chunk + 1
         /\ rpc = "data" /\ ~rsem => Wanted = chunk
         /\ rpc = "header" /\ hdr # prev => Wanted = 1
         /\ rpc = "header" /\ hdr = prev /\ LateData => Wanted = Chunks(hdr)
         /\ rpc = "header" /\ hdr = prev /\ ~LateData => Wanted = Chunks(hdr) + 1
<1>1. /\ Chunks(hdr) \in Nat /\ chunk \in Nat
      /\ hdr # NoMessage => Chunks(hdr) = sent[hdr]
      /\ rpc = "data" => hdr # NoMessage
      /\ rpc \in {"header", "data"}
  BY ReadFacts
<1>2. rpc = "data" => chunk \in 1..Chunks(hdr)
  BY <1>1 DEF Reading, ReadSound, RequestsKept
<1>3. rpc = "header" /\ LateData => Chunks(hdr) > 0
  <2> SUFFICES ASSUME rpc = "header", LateData PROVE Chunks(hdr) > 0 OBVIOUS
  <2>1. rreq # <<>> /\ rreq[1] # Header BY DEF LateData
  <2>2. hdr # NoMessage /\ sent[hdr] > 0 BY <2>1 DEF Reading, ReadSound, RequestsKept
  <2> QED BY <2>2, <1>1
<1>4. rpc = "header" => rpc # "data" OBVIOUS
<1> QED BY <1>1, <1>2, <1>3, <1>4 DEF Wanted

\* Steps that leave what the reader knows as it was.
LEMMA KnownKept ==
  ASSUME Reading, UNCHANGED <<hdr, handled>>, filled \subseteq filled', gone \subseteq gone',
         \A i \in DOMAIN sent : sent'[i] = sent[i], Fresh' <=> Fresh
  PROVE  InOrder' /\ HandledKept'
<1>1. handled' = handled /\ hdr' = hdr /\ hdr \in 0..Len(sent) /\ sent \in Seq(Nat)
  BY ReadFacts
<1>2. InOrder' BY <1>1 DEF Reading, ReadSound, InOrder
<1>3. /\ \A k \in DOMAIN handled : handled[k] \in 1..hdr /\ (Fresh => handled[k] < hdr)
      /\ \A k \in DOMAIN handled : handled[k] < hdr => Whole(handled[k])
      /\ \A m \in 1..(hdr - 1) : m \in gone \/ \E k \in DOMAIN handled : handled[k] = m
      /\ ~Fresh /\ hdr # NoMessage => \E k \in DOMAIN handled : handled[k] = hdr
  BY DEF Reading, ReadSound, HandledKept
<1>4. ASSUME NEW k \in DOMAIN handled, handled[k] < hdr
      PROVE  handled[k] \in gone' \/ \A c \in 1..sent'[handled[k]] : <<handled[k], c>> \in filled'
  <2>1. handled[k] \in DOMAIN sent BY <1>1, <1>3
  <2>2. Whole(handled[k]) BY <1>3, <1>4
  <2> QED BY <2>1, <2>2 DEF Whole
<1>5. \A k \in DOMAIN handled' : handled'[k] < hdr' => Whole(handled[k])'
  BY <1>1, <1>4 DEF Whole
<1> QED BY <1>1, <1>2, <1>3, <1>5 DEF HandledKept

LEMMA FilledStays ==
  ASSUME Reading, hdr' = hdr, filled \subseteq filled', gone \subseteq gone',
         Wanted' = Wanted \/ hdr \in gone'
  PROVE  FilledKept'
BY DEF Reading, ReadSound, FilledKept

\* A message is given to the dispatcher.
LEMMA Delivered ==
  ASSUME Reading, Fresh, hdr # NoMessage, hdr' = hdr, handled' = Append(handled, hdr), ~Fresh',
         UNCHANGED <<sent, filled, gone>>
  PROVE  InOrder' /\ HandledKept'
<1>1. /\ handled \in Seq(Nat) /\ hdr \in 0..Len(sent) /\ Len(sent) \in Nat
      /\ hdr' = hdr /\ handled' = Append(handled, hdr)
  BY ReadFacts
<1>2. /\ \A k \in DOMAIN handled : handled[k] \in 1..hdr /\ handled[k] < hdr
      /\ \A k \in DOMAIN handled : handled[k] < hdr => Whole(handled[k])
      /\ \A m \in 1..(hdr - 1) : m \in gone \/ \E k \in DOMAIN handled : handled[k] = m
  BY DEF Reading, ReadSound, HandledKept
<1>3. hdr \in Nat /\ hdr >= 1 BY <1>1 DEF NoMessage
<1>4. /\ handled' \in Seq(Nat) /\ Len(handled') = Len(handled) + 1 /\ Len(handled) \in Nat
      /\ \A k \in DOMAIN handled : handled'[k] = handled[k]
      /\ handled'[Len(handled) + 1] = hdr
  BY <1>1, <1>3
<1>5. \A k \in DOMAIN handled' : k \in DOMAIN handled \/ k = Len(handled) + 1
  BY <1>1, <1>4
<1>5a. \A k \in DOMAIN handled : k \in DOMAIN handled' BY <1>1, <1>4
<1>6. InOrder'
  <2> SUFFICES ASSUME NEW j \in DOMAIN handled', NEW k \in DOMAIN handled', j < k
               PROVE  handled'[j] < handled'[k]
    BY DEF InOrder
  <2>1. j \in DOMAIN handled BY <1>1, <1>4
  <2>2. CASE k \in DOMAIN handled BY <2>1, <2>2, <1>4 DEF Reading, ReadSound, InOrder
  <2>3. CASE k = Len(handled) + 1 BY <2>1, <2>3, <1>2, <1>4
  <2> QED BY <2>2, <2>3, <1>5
<1>7. \A k \in DOMAIN handled' : handled'[k] \in 1..hdr BY <1>2, <1>3, <1>4, <1>5
<1>8. ASSUME NEW k \in DOMAIN handled', handled'[k] < hdr PROVE Whole(handled'[k])
  <2>1. k \in DOMAIN handled BY <1>3, <1>4, <1>5, <1>8
  <2> QED BY <2>1, <1>2, <1>4
<1>9. \A k \in DOMAIN handled' : handled'[k] < hdr' => Whole(handled[k])'
  BY <1>1, <1>8 DEF Whole
<1>10. \A m \in 1..(hdr - 1) : m \in gone \/ \E k \in DOMAIN handled' : handled'[k] = m
  BY <1>2, <1>4, <1>5a
<1>11. \E k \in DOMAIN handled' : handled'[k] = hdr
  <2>1. Len(handled) + 1 \in DOMAIN handled' BY <1>1, <1>4
  <2> QED BY <2>1, <1>4
<1> QED BY <1>1, <1>6, <1>7, <1>9, <1>10, <1>11 DEF HandledKept

LEMMA AheadStays ==
  ASSUME Reading, hdr' = hdr, Ahead' = Ahead, Wanted' = Wanted, Chunks(hdr)' = Chunks(hdr),
         gone' = gone, up' = up, up \/ sent' = sent
  PROVE  AheadKept'
<1>1. AheadKept BY DEF Reading, ReadSound
<1> QED BY <1>1 DEF AheadKept

LEMMA HostSendsReads ==
  ASSUME Reading, NEW n \in 0..InChunks, HostSends(n)
  PROVE  ReadSound'
<1>1. Ahead' = Ahead /\ up BY HostSendsPipeKept DEF Reading
<1>2. /\ UNCHANGED <<up, reconnect, rpc, chunk, rwait, rlate, rreq, rsem, hdr, prev, handled>>
      /\ UNCHANGED <<filled, gone>>
  BY DEF HostSends, linkVars
<1>3. \A i \in DOMAIN sent : sent'[i] = sent[i] BY HostSendsPipe DEF Reading
<1>4. /\ sent \in Seq(Nat) /\ Chunks(hdr) \in Nat
      /\ hdr # NoMessage => hdr \in DOMAIN sent /\ Chunks(hdr) = sent[hdr]
      /\ rpc = "data" => hdr # NoMessage
  BY ReadFacts
<1>5. Chunks(hdr)' = Chunks(hdr) BY <1>2, <1>3, <1>4 DEF Chunks
<1>6. /\ hdr # NoMessage => sent'[hdr] = sent[hdr]
  BY <1>3, <1>4
<1>7. (Fresh' <=> Fresh) /\ (LateData' <=> LateData) BY <1>2 DEF Fresh, LateData
<1>8. Wanted' = Wanted BY <1>2, <1>5, <1>7 DEF Wanted
<1>9. ReaderAt' BY <1>2 DEF Reading, ReadSound, ReaderAt
<1>10. RequestsKept' BY <1>2, <1>4, <1>6 DEF Reading, ReadSound, RequestsKept
<1>11. AheadKept' BY <1>1, <1>2, <1>5, <1>8, AheadStays
<1>12. InOrder' /\ HandledKept' BY <1>2, <1>3, <1>7, KnownKept
<1>13. FilledKept' BY <1>2, <1>8, FilledStays
<1> QED BY <1>9, <1>10, <1>11, <1>12, <1>13 DEF ReadSound

LEMMA ReadCallReads ==
  ASSUME Reading, ReadCall
  PROVE  ReadSound'
<1>1. /\ ~rwait /\ rlate' = FALSE /\ rwait' = TRUE
      /\ rreq' = IF rlate \/ ~up THEN rreq ELSE Append(rreq, Place)
      /\ UNCHANGED <<up, reconnect, sent, pipe, rpc, chunk, rsem, hdr, prev, handled>>
      /\ UNCHANGED <<filled, gone>>
  BY DEF ReadCall, linkVars
<1>2. ReaderAt /\ RequestsKept BY DEF Reading, ReadSound
<1>3. ~rlate => ~rsem /\ rreq = <<>> /\ hdr = prev BY <1>1, <1>2 DEF ReaderAt
<1>4. /\ ~rlate /\ up => rreq' = <<Place>> /\ rreq' # <<>> /\ rreq'[1] = Place /\ Len(rreq') = 1
      /\ rlate \/ ~up => rreq' = rreq
  <2>1. rlate \/ ~up => rreq' = rreq BY <1>1
  <2>2. ~rlate /\ up => rreq' = Append(<<>>, Place) BY <1>1, <1>3
  <2> DEFINE s == <<Place>>
  <2>3. Append(<<>>, Place) = s /\ s # <<>> /\ s[1] = Place /\ Len(s) = 1 OBVIOUS
  <2> HIDE DEF s
  <2>4. ~rlate /\ up => rreq' = s BY <2>2, <2>3
  <2>5. s = <<Place>> BY DEF s
  <2> QED BY <2>1, <2>3, <2>4, <2>5
<1>5. /\ rpc = "header" => Place = Header
      /\ rpc = "data" => Place = <<hdr, chunk>>
  BY <1>2 DEF Place, RequestsKept
<1>6. rpc \in {"header", "data"} BY ReadFacts
<1>7. rpc = "header" => (LateData' <=> LateData)
  BY <1>3, <1>4, <1>5 DEF LateData
<1>8. Chunks(hdr)' = Chunks(hdr) /\ Ahead' = Ahead /\ (Fresh' <=> Fresh)
  BY <1>1 DEF Chunks, Ahead, Fresh
<1>9. Wanted' = Wanted BY <1>1, <1>6, <1>7, <1>8 DEF Wanted
<1>10. ReaderAt' BY <1>1, <1>2, <1>3, <1>4 DEF ReaderAt
<1>11. RequestsKept'
  <2>1. CASE rpc = "data"
    <3>1. ~rlate /\ hdr = prev /\ chunk \in 1..sent[hdr] BY <2>1, <1>2 DEF RequestsKept
    <3>2. rreq' # <<>> => rreq'[1] = <<hdr, chunk>> BY <2>1, <3>1, <1>3, <1>4, <1>5
    <3>3. up => rreq' # <<>> BY <3>1, <1>4
    <3> QED BY <2>1, <3>1, <3>2, <3>3, <1>1 DEF RequestsKept
  <2>2. CASE rpc = "header" BY <2>2, <1>1, <1>2, <1>4, <1>5 DEF RequestsKept
  <2> QED BY <2>1, <2>2, <1>6
<1>12. AheadKept' BY <1>1, <1>8, <1>9, AheadStays
<1>13. InOrder' /\ HandledKept' BY <1>1, <1>8, KnownKept
<1>14. FilledKept' BY <1>1, <1>9, FilledStays
<1> QED BY <1>10, <1>11, <1>12, <1>13, <1>14 DEF ReadSound

LEMMA OneRequest ==
  ASSUME NEW s \in Seq(Unit), s # <<>>, Len(s) <= 1
  PROVE  Head(s) = s[1] /\ Len(s) = 1 /\ Tail(s) = <<>>
<1>1. Len(s) \in Nat OBVIOUS
<1>0. Len(s) # 0 BY EmptySeq
<1> DEFINE n == Len(s)
<1>a. n \in Nat /\ n # 0 /\ n <= 1 BY <1>0, <1>1
<1> HIDE DEF n
<1>b. n = 1 BY <1>a
<1>2. Len(s) = 1 BY <1>b DEF n
<1>3. Tail(s) \in Seq(Unit) /\ Len(Tail(s)) = 0 BY <1>2
<1>4. Tail(s) = <<>> BY <1>3, EmptySeq
<1> QED BY <1>2, <1>4

LEMMA HeaderArrives ==
  ASSUME Reading, ReadTransferDone, rreq[1] = Header
  PROVE  ReadSound'
<1>1. /\ up /\ rreq # <<>> /\ pipe # <<>>
      /\ pipe' = Tail(pipe) /\ rreq' = Tail(rreq) /\ rsem' = TRUE
      /\ UNCHANGED <<up, reconnect, sent, rpc, chunk, rwait, rlate, prev, handled, gone>>
  BY DEF ReadTransferDone, linkVars
<1>2. /\ sent \in Seq(Nat) /\ pipe \in Seq(Unit) /\ rreq \in Seq(Unit) /\ handled \in Seq(Nat)
      /\ Len(sent) \in Nat /\ hdr \in 0..Len(sent)
      /\ Chunks(hdr) \in Nat
      /\ hdr # NoMessage => hdr \in DOMAIN sent /\ Chunks(hdr) = sent[hdr]
      /\ rpc = "data" => hdr # NoMessage
      /\ rpc \in {"header", "data"}
  BY ReadFacts
<1>3. ReaderAt /\ RequestsKept /\ AheadKept /\ InOrder /\ HandledKept /\ FilledKept
  BY DEF Reading, ReadSound
<1>4. Head(rreq) = rreq[1] /\ Len(rreq) = 1 /\ rreq' = <<>>
  BY <1>1, <1>2, <1>3, OneRequest DEF ReaderAt
<1>5. rpc = "header"
  <2> SUFFICES ASSUME rpc = "data" PROVE FALSE BY <1>2
  <2>1. rreq[1] = <<hdr, chunk>> /\ hdr # NoMessage BY <1>1, <1>2, <1>3 DEF RequestsKept
  <2> QED BY <2>1 DEF Header, NoMessage
<1>6. hdr = prev /\ ~rsem BY <1>1, <1>3 DEF ReaderAt
<1>7. ~LateData /\ ~Fresh BY <1>5, <1>6 DEF LateData, Fresh
<1>8. Wanted = Chunks(hdr) + 1 BY <1>5, <1>6, <1>7, WantedFacts
<1>9. /\ 1 \in DOMAIN pipe /\ Head(pipe) = pipe[1]
      /\ pipe[1][1] \in DOMAIN sent /\ pipe[1][2] \in 0..sent[pipe[1][1]]
  BY <1>1, PipeHead DEF Reading
<1>10. PipeKept' /\ Ahead' = Follower(pipe[1], sent)
  BY <1>1, TailPipeKept DEF Reading
<1> DEFINE f == pipe[1][1]
<1>11. /\ pipe[1][2] = 0 /\ f > hdr /\ \A m \in (hdr + 1)..(f - 1) : m \in gone
  <2>1. Ahead = pipe[1] BY <1>1 DEF Ahead
  <2>2. ~(Wanted <= Chunks(hdr)) BY <1>2, <1>8
  <2> QED BY <2>1, <2>2, <1>3 DEF AheadKept
<1>12. hdr' = f /\ filled' = filled
  BY <1>1, <1>4, <1>9, <1>11 DEF ReadTransferDone
<1>a. f \in DOMAIN sent BY <1>9
<1>14. Ahead' = IF sent[f] > 0 THEN <<f, 1>> ELSE <<f + 1, 0>>
  <2>0. \A i \in DOMAIN sent : sent[i] \in Nat BY <1>2
  <2>1. sent[f] \in Nat BY <2>0, <1>a
  <2> QED BY <2>1, <1>10, <1>11 DEF Follower
<1> HIDE DEF f
<1>13. f \in 1..Len(sent) /\ sent[f] \in Nat /\ f # NoMessage BY SMTT(30), <1>2, <1>a DEF NoMessage
<1>15. hdr' # prev' /\ Fresh' BY <1>1, <1>2, <1>6, <1>11, <1>12, <1>13 DEF Fresh
<1>16. Wanted' = 1 /\ Chunks(hdr)' = sent[f]
  BY <1>1, <1>5, <1>12, <1>13, <1>15 DEF Wanted, Chunks
<1>17. ReaderAt'
  <2>1. hdr' # Garbage BY <1>12, <1>13 DEF Garbage
  <2>2. prev' <= hdr' BY <1>1, <1>2, <1>6, <1>11, <1>12, <1>13
  <2>3. rwait \/ rlate BY <1>1, <1>3 DEF ReaderAt
  <2>4. ~reconnect BY <1>6, <1>3 DEF ReaderAt
  <2>5. (rwait => ~rlate) /\ rpc # "dead" BY <1>3, <1>5 DEF ReaderAt
  <2>6. Len(rreq') <= 1 BY <1>4
  <2> QED BY <2>1, <2>2, <2>3, <2>4, <2>5, <2>6, <1>1, <1>4, <1>5 DEF ReaderAt
<1>18. RequestsKept' BY <1>1, <1>4, <1>5 DEF RequestsKept
<1>19. AheadKept'
  <2>1. CASE sent[f] > 0
    <3>1. Wanted' <= Chunks(hdr)' BY <2>1, <1>13, <1>16
    <3>2. Ahead' = <<hdr', Wanted'>> BY <2>1, <1>12, <1>14, <1>16
    <3> QED BY <3>1, <3>2 DEF AheadKept
  <2>2. CASE sent[f] = 0
    <3>1. ~(Wanted' <= Chunks(hdr)') BY <2>2, <1>16
    <3>2. Ahead' = <<f + 1, 0>> BY <2>2, <1>14
    <3>3. Ahead'[2] = 0 /\ Ahead'[1] = f + 1 BY <3>2
    <3>4. Ahead'[1] > hdr' /\ \A m \in (hdr' + 1)..(Ahead'[1] - 1) : m \in gone'
      BY <3>3, <1>12, <1>13
    <3> QED BY <3>1, <3>3, <3>4 DEF AheadKept
  <2> QED BY <2>1, <2>2, <1>13
<1>20. InOrder' BY <1>1, <1>3 DEF InOrder
<1>21. HandledKept'
  <2>1. \A k \in DOMAIN handled : handled[k] \in 1..hdr BY <1>3 DEF HandledKept
  <2>2. \A k \in DOMAIN handled : handled[k] \in 1..f /\ handled[k] < f
    <3> TAKE k \in DOMAIN handled
    <3> DEFINE x == handled[k]
    <3>1. x \in 1..hdr BY <2>1
    <3>2. hdr \in Nat /\ f \in Nat /\ f > hdr BY <1>2, <1>11, <1>13
    <3> HIDE DEF x
    <3>3. x \in 1..f /\ x < f BY <3>1, <3>2
    <3> QED BY <3>3 DEF x
  <2>3. ASSUME NEW k \in DOMAIN handled PROVE Whole(handled[k])
    <3>1. CASE handled[k] < hdr BY <3>1, <1>3 DEF HandledKept
    <3>2. CASE handled[k] = hdr
      <4>1. hdr # NoMessage BY <3>2, <2>1 DEF NoMessage
      <4>2. Wanted - 1 = sent[hdr] BY <4>1, <1>2, <1>8
      <4>3. hdr \in gone \/ \A c \in 1..sent[hdr] : <<hdr, c>> \in filled
        BY <4>2, <1>3 DEF FilledKept
      <4> QED BY <3>2, <4>3 DEF Whole
    <3> QED BY <3>1, <3>2, <2>1, <1>2
  <2>4. \A k \in DOMAIN handled' : handled'[k] < hdr' => Whole(handled[k])'
    BY <2>3, <1>1, <1>12 DEF Whole
  <2>5. ASSUME NEW m \in 1..(f - 1)
        PROVE  m \in gone \/ \E k \in DOMAIN handled : handled[k] = m
    <3>1. CASE m \in 1..(hdr - 1) BY <3>1, <1>3 DEF HandledKept
    <3>2. CASE m = hdr
      <4>1. hdr # NoMessage BY <3>2 DEF NoMessage
      <4> QED BY <4>1, <3>2, <1>3, <1>7 DEF HandledKept
    <3>3. CASE m \in (hdr + 1)..(f - 1) BY <3>3, <1>11
    <3> QED BY <3>1, <3>2, <3>3, <1>2, <1>13
  <2> QED BY <2>2, <2>4, <2>5, <1>1, <1>12, <1>15 DEF HandledKept
<1>22. FilledKept' BY <1>16 DEF FilledKept
<1> QED BY <1>17, <1>18, <1>19, <1>20, <1>21, <1>22 DEF ReadSound

LEMMA DataArrives ==
  ASSUME Reading, ReadTransferDone, rreq[1] # Header
  PROVE  ReadSound'
<1>1. /\ up /\ rreq # <<>> /\ pipe # <<>>
      /\ pipe' = Tail(pipe) /\ rreq' = Tail(rreq) /\ rsem' = TRUE
      /\ UNCHANGED <<up, reconnect, sent, rpc, chunk, rwait, rlate, prev, handled, gone>>
  BY DEF ReadTransferDone, linkVars
<1>2. /\ sent \in Seq(Nat) /\ pipe \in Seq(Unit) /\ rreq \in Seq(Unit)
      /\ Len(sent) \in Nat /\ hdr \in 0..Len(sent) /\ chunk \in Nat
      /\ Chunks(hdr) \in Nat
      /\ hdr # NoMessage => hdr \in DOMAIN sent /\ Chunks(hdr) = sent[hdr]
      /\ rpc = "data" => hdr # NoMessage
      /\ rpc \in {"header", "data"}
  BY ReadFacts
<1>3. ReaderAt /\ RequestsKept /\ AheadKept /\ FilledKept
  BY DEF Reading, ReadSound
<1>4. Head(rreq) = rreq[1] /\ Len(rreq) = 1 /\ rreq' = <<>> /\ LateData
  BY <1>1, <1>2, <1>3, OneRequest DEF ReaderAt, LateData
<1>5. hdr = prev /\ ~rsem BY <1>1, <1>3 DEF ReaderAt
<1>6. /\ rreq[1] = <<hdr, Wanted>> /\ Wanted <= Chunks(hdr) /\ hdr # NoMessage
      /\ Wanted' = Wanted + 1 /\ Wanted \in Nat /\ Wanted >= 1
  <2>1. CASE rpc = "data"
    <3>1. Wanted = chunk BY <2>1, <1>5, WantedFacts
    <3>2. Wanted' = chunk + 1 BY <2>1, <1>1 DEF Wanted
    <3>3. rreq[1] = <<hdr, chunk>> /\ chunk \in 1..sent[hdr] BY <2>1, <1>1, <1>3 DEF RequestsKept
    <3> QED BY <2>1, <3>1, <3>2, <3>3, <1>2
  <2>2. CASE rpc = "header"
    <3>1. Wanted = Chunks(hdr) BY <2>2, <1>4, <1>5, WantedFacts
    <3>2. hdr' = hdr BY <1>4, <1>1 DEF ReadTransferDone
    <3>3. ~LateData' BY <1>4 DEF LateData
    <3>4. Wanted' = Chunks(hdr) + 1 BY <2>2, <3>2, <3>3, <1>1, <1>5 DEF Wanted, Chunks
    <3>5. hdr # NoMessage /\ sent[hdr] > 0 /\ rreq[1] = <<hdr, sent[hdr]>>
      BY <2>2, <1>1, <1>3 DEF RequestsKept
    <3> QED BY <3>1, <3>4, <3>5, <1>2
  <2> QED BY <2>1, <2>2, <1>2
<1>7. Ahead = pipe[1] /\ Ahead = <<hdr, Wanted>>
  BY <1>1, <1>3, <1>6 DEF Ahead, AheadKept
<1>8. Head(pipe) = pipe[1] BY <1>1, PipeHead DEF Reading
<1>9. hdr' = hdr /\ filled' = filled \union {<<hdr, Wanted>>}
  BY <1>1, <1>4, <1>6, <1>7, <1>8 DEF ReadTransferDone
<1>10. Ahead' = Follower(pipe[1], sent)
  BY <1>1, TailPipeKept DEF Reading
<1>11. Chunks(hdr)' = Chunks(hdr) /\ Chunks(hdr) = sent[hdr] BY <1>1, <1>2, <1>6, <1>9 DEF Chunks
<1>12. Ahead' = IF Wanted < Chunks(hdr) THEN <<hdr, Wanted + 1>> ELSE <<hdr + 1, 0>>
  <2>1. pipe[1] = <<hdr, Wanted>> /\ sent[hdr] = Chunks(hdr) BY <1>7, <1>11
  <2>2. Follower(<<hdr, Wanted>>, sent) =
          IF Wanted < sent[hdr] THEN <<hdr, Wanted + 1>> ELSE <<hdr + 1, 0>>
    BY DEF Follower
  <2> QED BY <2>1, <2>2, <1>10
<1>13. Fresh' <=> Fresh BY <1>1, <1>9 DEF Fresh
<1>14. ReaderAt'
  <2>1. rwait \/ rlate BY <1>1, <1>3 DEF ReaderAt
  <2>2. ~reconnect BY <1>5, <1>3 DEF ReaderAt
  <2> QED BY <2>1, <2>2, <1>1, <1>3, <1>4, <1>5, <1>9 DEF ReaderAt
<1>15. RequestsKept' BY <1>1, <1>3, <1>4, <1>9 DEF RequestsKept
<1>16. AheadKept'
  <2>1. CASE Wanted < Chunks(hdr)
    <3>1. Wanted' <= Chunks(hdr)' BY <2>1, <1>2, <1>6, <1>11
    <3> QED BY <2>1, <3>1, <1>6, <1>9, <1>12 DEF AheadKept
  <2>2. CASE Wanted = Chunks(hdr)
    <3>1. ~(Wanted' <= Chunks(hdr)') BY <2>2, <1>2, <1>6, <1>11
    <3>2. Ahead' = <<hdr + 1, 0>> BY <2>2, <1>2, <1>12
    <3>3. Ahead'[2] = 0 /\ Ahead'[1] = hdr + 1 BY <3>2
    <3>4. Ahead'[1] > hdr' /\ \A m \in (hdr' + 1)..(Ahead'[1] - 1) : m \in gone'
      BY <3>3, <1>2, <1>9
    <3> QED BY <3>1, <3>3, <3>4 DEF AheadKept
  <2> QED BY <2>1, <2>2, <1>2, <1>6
<1>17. InOrder' /\ HandledKept' BY <1>1, <1>9, <1>13, KnownKept
<1>18. FilledKept'
  <2>1. hdr \in gone \/ \A c \in 1..(Wanted - 1) : <<hdr, c>> \in filled BY <1>3 DEF FilledKept
  <2>2. \A c \in 1..Wanted : c \in 1..(Wanted - 1) \/ c = Wanted BY <1>6
  <2>3. hdr \in gone \/ \A c \in 1..Wanted : <<hdr, c>> \in filled' BY <2>1, <2>2, <1>9
  <2>4. Wanted' - 1 = Wanted BY <1>6
  <2> QED BY <2>3, <2>4, <1>1, <1>9 DEF FilledKept
<1> QED BY <1>14, <1>15, <1>16, <1>17, <1>18 DEF ReadSound

\* A read returns, or is late, and the reader goes on.
LEMMA ReadReturnsReads ==
  ASSUME Reading, ReadReturns
  PROVE  ReadSound'
<1>1. /\ rwait /\ rsem /\ rsem' = FALSE /\ rwait' = FALSE
      /\ UNCHANGED <<up, sent, pipe, rlate, rreq, hdr, filled, gone>>
  BY DEF ReadReturns
<1>2. /\ sent \in Seq(Nat) /\ Len(sent) \in Nat /\ hdr \in 0..Len(sent) /\ chunk \in Nat
      /\ Chunks(hdr) \in Nat
      /\ hdr # NoMessage => hdr \in DOMAIN sent /\ Chunks(hdr) = sent[hdr]
      /\ rpc = "data" => hdr # NoMessage
      /\ rpc \in {"header", "data"}
      /\ prev \in 0..Len(sent)
  BY ReadFacts
<1>3. ReaderAt /\ RequestsKept BY DEF Reading, ReadSound
<1>4. rreq = <<>> /\ ~rlate /\ ~LateData BY <1>1, <1>3 DEF ReaderAt, LateData
<1>5. Ahead' = Ahead /\ Chunks(hdr)' = Chunks(hdr) /\ ~LateData'
  BY <1>1, <1>4 DEF Ahead, Chunks, LateData
<1>6. CASE UNCHANGED <<rpc, prev, chunk, handled>> /\ rpc = "header" /\ hdr = prev
           /\ reconnect' = FALSE
  <2>1. Wanted' = Wanted /\ (Fresh' <=> Fresh) BY <1>1, <1>4, <1>5, <1>6 DEF Wanted, Fresh
  <2>2. ReaderAt' BY <1>1, <1>3, <1>4, <1>6 DEF ReaderAt
  <2>3. RequestsKept' BY <1>1, <1>4, <1>6 DEF RequestsKept
  <2>4. AheadKept' BY <2>1, <1>1, <1>5, AheadStays
  <2>5. InOrder' /\ HandledKept' BY <2>1, <1>1, <1>6, KnownKept
  <2>6. FilledKept' BY <2>1, <1>1, FilledStays
  <2> QED BY <2>2, <2>3, <2>4, <2>5, <2>6 DEF ReadSound
<1>7. CASE rpc = "data" /\ DataRead /\ reconnect' = reconnect
  <2>1. /\ hdr = prev /\ chunk \in 1..sent[hdr] /\ hdr # NoMessage /\ ~reconnect
        /\ prev' = prev /\ Wanted = chunk + 1 /\ Fresh
    BY <1>1, <1>2, <1>3, <1>7, WantedFacts DEF RequestsKept, ReaderAt, DataRead, Fresh
  <2>2. CASE chunk < sent[hdr]
    <3>1. chunk' = chunk + 1 /\ rpc' = "data" /\ handled' = handled
      BY <2>1, <2>2, <1>7 DEF DataRead
    <3>2. Wanted' = Wanted /\ Fresh' BY <3>1, <2>1, <1>1 DEF Wanted, Fresh
    <3>3. ReaderAt' BY <3>1, <2>1, <1>1, <1>3, <1>4, <1>7 DEF ReaderAt
    <3>4. chunk' \in 1..sent[hdr] BY <3>1, <2>1, <2>2, <1>2
    <3>5. RequestsKept' BY <3>1, <3>4, <2>1, <1>1, <1>4 DEF RequestsKept
    <3>6. AheadKept' BY <3>2, <1>1, <1>5, AheadStays
    <3>7. InOrder' /\ HandledKept' BY <3>1, <3>2, <2>1, <1>1, KnownKept
    <3>8. FilledKept' BY <3>2, <1>1, FilledStays
    <3> QED BY <3>3, <3>5, <3>6, <3>7, <3>8 DEF ReadSound
  <2>3. CASE chunk = sent[hdr]
    <3>1. rpc' = "header" /\ chunk' = chunk /\ handled' = Append(handled, hdr)
      BY <2>1, <2>3, <1>2, <1>7 DEF DataRead, Deliver
    <3>2. ~Fresh' BY <3>1, <2>1, <1>1 DEF Fresh
    <3>3. Wanted' = Wanted
      BY <3>1, <3>2, <2>1, <2>3, <1>1, <1>2, <1>5 DEF Wanted
    <3>4. ReaderAt' BY <3>1, <2>1, <1>1, <1>3, <1>4, <1>7 DEF ReaderAt
    <3>5. RequestsKept' BY <3>1, <1>1, <1>4 DEF RequestsKept
    <3>6. AheadKept' BY <3>3, <1>1, <1>5, AheadStays
    <3>7. InOrder' /\ HandledKept' BY <3>1, <3>2, <2>1, <1>1, Delivered
    <3>8. FilledKept' BY <3>3, <1>1, FilledStays
    <3> QED BY <3>4, <3>5, <3>6, <3>7, <3>8 DEF ReadSound
  <2> QED BY <2>1, <2>2, <2>3, <1>2
<1>8. CASE rpc = "header" /\ hdr # prev /\ Take /\ reconnect' = reconnect
  <2>1. /\ ~reconnect /\ prev' = hdr /\ Fresh /\ Wanted = 1
    BY <1>3, <1>8, WantedFacts DEF ReaderAt, Take, Fresh
  <2>2. hdr # Garbage /\ prev <= hdr /\ hdr # NoMessage
    BY <1>2, <1>3, <1>8 DEF ReaderAt, NoMessage
  <2>3. CASE sent[hdr] = 0
    <3>1. rpc' = "header" /\ chunk' = chunk /\ handled' = Append(handled, hdr)
      BY <2>3, <1>8 DEF Take, Deliver
    <3>2. ~Fresh' BY <3>1, <2>1, <1>1 DEF Fresh
    <3>3. Wanted' = Wanted
      BY <3>1, <2>1, <2>2, <2>3, <1>1, <1>2, <1>5 DEF Wanted
    <3>4. ReaderAt' BY <3>1, <2>1, <2>2, <1>1, <1>2, <1>3, <1>4, <1>8 DEF ReaderAt
    <3>5. RequestsKept' BY <3>1, <1>1, <1>4 DEF RequestsKept
    <3>6. AheadKept' BY <3>3, <1>1, <1>5, AheadStays
    <3>7. InOrder' /\ HandledKept' BY <3>1, <3>2, <2>1, <2>2, <1>1, Delivered
    <3>8. FilledKept' BY <3>3, <1>1, FilledStays
    <3> QED BY <3>4, <3>5, <3>6, <3>7, <3>8 DEF ReadSound
  <2>4. CASE sent[hdr] # 0
    <3>1. rpc' = "data" /\ chunk' = 1 /\ handled' = handled
      BY <2>4, <1>8 DEF Take
    <3>2. Wanted' = Wanted /\ Fresh' BY <3>1, <2>1, <1>1 DEF Wanted, Fresh
    <3>3. ReaderAt' BY <3>1, <2>1, <2>2, <1>1, <1>2, <1>3, <1>4, <1>8 DEF ReaderAt
    <3>4. chunk' \in 1..sent[hdr] BY <3>1, <2>2, <2>4, <1>2
    <3>5. RequestsKept' BY <3>1, <3>4, <2>1, <1>1, <1>4 DEF RequestsKept
    <3>6. AheadKept' BY <3>2, <1>1, <1>5, AheadStays
    <3>7. InOrder' /\ HandledKept' BY <3>1, <3>2, <2>1, <1>1, KnownKept
    <3>8. FilledKept' BY <3>2, <1>1, FilledStays
    <3> QED BY <3>3, <3>5, <3>6, <3>7, <3>8 DEF ReadSound
  <2> QED BY <2>3, <2>4
<1>9. CASE rpc = "header" /\ reconnect
  <2>1. hdr = prev BY <1>9, <1>3 DEF ReaderAt
  <2>2. reconnect' = FALSE /\ UNCHANGED <<rpc, prev, chunk, handled>> BY <1>9 DEF ReadReturns
  <2> QED BY <2>1, <2>2, <1>6, <1>9
<1>10. CASE rpc = "header" /\ ~reconnect
  <2>1. HeaderRead /\ reconnect' = reconnect BY <1>10 DEF ReadReturns
  <2>2. hdr # Garbage BY <1>3 DEF ReaderAt
  <2>3. CASE hdr = prev
    <3>1. UNCHANGED <<rpc, prev, chunk, handled>> BY <2>1, <2>2, <2>3 DEF HeaderRead
    <3>2. reconnect' = FALSE BY <2>1, <1>10
    <3> QED BY <3>1, <3>2, <2>3, <1>6, <1>10
  <2>4. CASE hdr # prev
    <3>1. Take BY <2>1, <2>2, <2>4 DEF HeaderRead
    <3> QED BY <3>1, <2>1, <2>4, <1>8, <1>10
  <2> QED BY <2>3, <2>4
<1>11. CASE rpc = "data"
  <2>1. DataRead /\ reconnect' = reconnect BY <1>11 DEF ReadReturns
  <2> QED BY <2>1, <1>7, <1>11
<1> QED BY <1>2, <1>9, <1>10, <1>11

\* While the interface is down nothing is on the pipe.
LEMMA AheadDown ==
  ASSUME Reading, ~up
  PROVE  Ahead = <<Len(sent) + 1, 0>>
BY DEF Reading, PipeKept, Ahead

LEMMA ReadTimesOutReads ==
  ASSUME Reading, ReadTimesOut, inTrouble' = {}
  PROVE  ReadSound'
<1>1. /\ rwait /\ ~rsem /\ rlate' = TRUE /\ rwait' = FALSE
      /\ UNCHANGED <<up, reconnect, sent, pipe, chunk, rreq, rsem, hdr, prev, filled, gone>>
      /\ IF rpc = "data" THEN Deliver(prev) ELSE UNCHANGED <<rpc, handled>>
      /\ ~(rpc = "data" /\ chunk < sent[prev])
  BY DEF ReadTimesOut, linkVars, If
<1>2. /\ sent \in Seq(Nat) /\ Len(sent) \in Nat /\ hdr \in 0..Len(sent) /\ chunk \in Nat
      /\ Chunks(hdr) \in Nat
      /\ hdr # NoMessage => hdr \in DOMAIN sent /\ Chunks(hdr) = sent[hdr]
      /\ rpc = "data" => hdr # NoMessage
      /\ rpc \in {"header", "data"}
  BY ReadFacts
<1>3. ReaderAt /\ RequestsKept /\ AheadKept BY DEF Reading, ReadSound
<1>4. hdr = prev /\ ~reconnect BY <1>1, <1>3 DEF ReaderAt
<1>5. Ahead' = Ahead /\ Chunks(hdr)' = Chunks(hdr) /\ (LateData' <=> LateData)
  BY <1>1 DEF Ahead, Chunks, LateData
<1>6. CASE rpc = "header"
  <2>1. rpc' = rpc /\ handled' = handled BY <1>1, <1>6
  <2>2. Wanted' = Wanted /\ (Fresh' <=> Fresh) BY <2>1, <1>1, <1>5, <1>6 DEF Wanted, Fresh
  <2>3. ReaderAt' BY <2>1, <1>1, <1>3, <1>4 DEF ReaderAt
  <2>4. RequestsKept' BY <2>1, <1>1, <1>3, <1>6 DEF RequestsKept
  <2>5. AheadKept' BY <2>2, <1>1, <1>5, AheadStays
  <2>6. InOrder' /\ HandledKept' BY <2>1, <2>2, <1>1, KnownKept
  <2>7. FilledKept' BY <2>2, <1>1, FilledStays
  <2> QED BY <2>3, <2>4, <2>5, <2>6, <2>7 DEF ReadSound
<1>7. CASE rpc = "data"
  <2>1. rpc' = "header" /\ handled' = Append(handled, hdr) BY <1>1, <1>4, <1>7 DEF Deliver
  <2>2. /\ chunk \in 1..sent[hdr] /\ hdr # NoMessage
        /\ rreq # <<>> => rreq[1] = <<hdr, chunk>>
        /\ up => rreq # <<>>
    BY <1>1, <1>2, <1>3, <1>7 DEF RequestsKept
  <2>3. chunk = Chunks(hdr) /\ Chunks(hdr) = sent[hdr] BY <2>2, <1>1, <1>2, <1>4, <1>7
  <2>4. Fresh /\ ~Fresh' /\ Wanted = chunk
    BY <2>1, <1>1, <1>4, <1>7, WantedFacts DEF Fresh
  <2>5. rreq # <<>> => rreq[1] # Header
    BY <2>2 DEF Header, NoMessage
  <2>6. Wanted' = IF LateData THEN Chunks(hdr) ELSE Chunks(hdr) + 1
    BY <2>1, <1>1, <1>4, <1>5 DEF Wanted
  <2>7. ReaderAt' BY <2>1, <1>1, <1>3, <1>4 DEF ReaderAt
  <2>8. RequestsKept' BY <2>1, <2>2, <2>3, <1>1, <1>2 DEF RequestsKept
  <2>9. InOrder' /\ HandledKept' BY <2>1, <2>2, <2>4, <1>1, Delivered
  <2>10. CASE rreq # <<>>
    <3>1. Wanted' = Wanted BY <2>3, <2>4, <2>5, <2>6, <2>10 DEF LateData
    <3>2. AheadKept' BY <3>1, <1>1, <1>5, AheadStays
    <3>3. FilledKept' BY <3>1, <1>1, FilledStays
    <3> QED BY <3>2, <3>3, <2>7, <2>8, <2>9 DEF ReadSound
  <2>11. CASE rreq = <<>>
    <3>1. ~up BY <2>2, <2>11
    <3>2. Ahead = <<Len(sent) + 1, 0>> BY <3>1, AheadDown
    <3>3. Wanted <= Chunks(hdr) /\ Wanted # 0 BY <2>2, <2>3, <2>4, <1>2
    <3>4. Ahead # <<hdr, Wanted>> BY <3>2, <3>3
    <3>5. \A m \in hdr..Len(sent) : m \in gone BY <3>3, <3>4, <1>3 DEF AheadKept
    <3>6. Wanted' = Chunks(hdr) + 1 BY <2>6, <2>11 DEF LateData
    <3>7. ~(Wanted' <= Chunks(hdr)') BY <3>6, <1>2, <1>5
    <3>8. Ahead'[2] = 0 /\ Ahead'[1] = Len(sent) + 1 BY <3>2, <1>5
    <3>9. Ahead'[1] > hdr' /\ \A m \in (hdr' + 1)..(Ahead'[1] - 1) : m \in gone'
      BY <3>5, <3>8, <1>1, <1>2
    <3>10. AheadKept' BY <3>7, <3>8, <3>9 DEF AheadKept
    <3>11. hdr \in gone BY <3>5, <1>2
    <3>12. FilledKept' BY <3>11, <1>1, FilledStays
    <3> QED BY <3>10, <3>12, <2>7, <2>8, <2>9 DEF ReadSound
  <2> QED BY <2>10, <2>11
<1> QED BY <1>2, <1>6, <1>7

LEMMA InterfaceDownReads ==
  ASSUME Reading, InterfaceDown
  PROVE  ReadSound' /\ PipeKept'
<1>1. /\ up /\ up' = FALSE /\ pipe' = <<>> /\ rreq' = <<>>
      /\ gone' = gone \union {pipe[k][1] : k \in DOMAIN pipe}
      /\ UNCHANGED <<reconnect, sent, rpc, chunk, rwait, rlate, rsem, hdr, prev, handled, filled>>
  BY DEF InterfaceDown
<1>2. /\ sent \in Seq(Nat) /\ pipe \in Seq(Unit)
      /\ Len(sent) \in Nat /\ hdr \in 0..Len(sent) /\ chunk \in Nat
      /\ Chunks(hdr) \in Nat
      /\ hdr # NoMessage => hdr \in DOMAIN sent /\ Chunks(hdr) = sent[hdr]
      /\ rpc = "data" => hdr # NoMessage
      /\ rpc \in {"header", "data"}
  BY ReadFacts
<1>3. ReaderAt /\ RequestsKept /\ AheadKept BY DEF Reading, ReadSound
<1>4. PipeKept' BY <1>1 DEF PipeKept, Consecutive
<1>5. Ahead' = <<Len(sent) + 1, 0>> /\ Chunks(hdr)' = Chunks(hdr) /\ ~LateData'
        /\ (Fresh' <=> Fresh)
  BY <1>1 DEF Ahead, Chunks, LateData, Fresh
<1>6. \A m \in Ahead[1]..Len(sent) : m \in gone'
  <2>1. CASE pipe = <<>>
    <3>1. Ahead[1] = Len(sent) + 1 BY <2>1 DEF Ahead
    <3> QED BY <3>1, <1>2
  <2>2. CASE pipe # <<>>
    <3>1. \A m \in pipe[1][1]..Len(sent) : \E k \in DOMAIN pipe : pipe[k][1] = m
      BY <2>2 DEF Reading, PipeKept
    <3>2. Ahead[1] = pipe[1][1] BY <2>2 DEF Ahead
    <3> QED BY <3>1, <3>2, <1>1
  <2> QED BY <2>1, <2>2
<1>7. gone \subseteq gone' BY <1>1
<1>8. ReaderAt' BY <1>1, <1>3 DEF ReaderAt
<1>9. RequestsKept' BY <1>1, <1>3 DEF RequestsKept
<1>10. InOrder' /\ HandledKept' BY <1>1, <1>5, <1>7, KnownKept
<1>11. CASE Wanted <= Chunks(hdr)
  <2>1. Ahead = <<hdr, Wanted>> BY <1>1, <1>3, <1>11 DEF AheadKept
  <2>2. \A m \in hdr..Len(sent) : m \in gone' BY <2>1, <1>6
  <2>3. hdr \in gone' BY <2>2, <1>2
  <2>4. FilledKept' BY <2>3, <1>1, <1>7, FilledStays
  <2>a. /\ hdr' = hdr /\ sent' = sent /\ ~up'
        /\ \A m \in hdr'..Len(sent') : m \in gone'
    BY <2>2, <1>1
  <2>5. Wanted' <= Chunks(hdr)' => AheadKept' BY <2>a DEF AheadKept
  <2>6. ASSUME ~(Wanted' <= Chunks(hdr)') PROVE AheadKept'
    <3>1. Ahead'[2] = 0 /\ Ahead'[1] = Len(sent) + 1 BY <1>5
    <3>2. Ahead'[1] > hdr' /\ \A m \in (hdr' + 1)..(Ahead'[1] - 1) : m \in gone'
      BY <3>1, <2>2, <1>1, <1>2
    <3> QED BY <3>1, <3>2, <2>6 DEF AheadKept
  <2> QED BY <2>4, <2>5, <2>6, <1>4, <1>8, <1>9, <1>10 DEF ReadSound
<1>12. CASE ~(Wanted <= Chunks(hdr))
  <2>1. Ahead[2] = 0 /\ Ahead[1] > hdr /\ \A m \in (hdr + 1)..(Ahead[1] - 1) : m \in gone
    BY <1>3, <1>12 DEF AheadKept
  <2>2. rpc = "header" /\ hdr = prev => ~LateData /\ Wanted = Chunks(hdr) + 1
    BY <1>2, <1>12, WantedFacts
  <2>3. Wanted' = Wanted
    <3>1. CASE rpc = "header" /\ hdr = prev BY <3>1, <2>2, <1>1, <1>5 DEF Wanted
    <3>2. CASE rpc = "header" /\ hdr # prev BY <3>2, <1>1 DEF Wanted
    <3>3. CASE rpc = "data" BY <3>3, <1>1 DEF Wanted
    <3> QED BY <3>1, <3>2, <3>3, <1>2
  <2>4. ~(Wanted' <= Chunks(hdr)') BY <2>3, <1>5, <1>12
  <2>5. Ahead'[2] = 0 /\ Ahead'[1] = Len(sent) + 1 BY <1>5
  <2>6. Ahead[1] \in Nat
    <3>1. CASE pipe = <<>> BY <3>1, <1>2 DEF Ahead
    <3>2. CASE pipe # <<>>
      <4>1. pipe[1] \in Unit BY <3>2, <1>2
      <4> QED BY <4>1, <3>2 DEF Ahead, Unit
    <3> QED BY <3>1, <3>2
  <2>7. ASSUME NEW m \in (hdr + 1)..Len(sent) PROVE m \in gone'
    <3>1. CASE m < Ahead[1]
      <4>1. m \in (hdr + 1)..(Ahead[1] - 1) BY <3>1, <2>6, <1>2
      <4> QED BY <4>1, <2>1, <1>7
    <3>2. CASE m >= Ahead[1]
      <4>1. m \in Ahead[1]..Len(sent) BY <3>2, <2>6, <1>2
      <4> QED BY <4>1, <1>6
    <3> QED BY <3>1, <3>2, <2>6, <1>2
  <2>8. Ahead'[1] > hdr' /\ \A m \in (hdr' + 1)..(Ahead'[1] - 1) : m \in gone'
    BY <2>5, <2>7, <1>1, <1>2
  <2>9. AheadKept' BY <2>4, <2>5, <2>8 DEF AheadKept
  <2>10. FilledKept' BY <2>3, <1>1, <1>7, FilledStays
  <2> QED BY <2>9, <2>10, <1>4, <1>8, <1>9, <1>10 DEF ReadSound
<1> QED BY <1>11, <1>12

LEMMA InterfaceUpReads ==
  ASSUME Reading, InterfaceUp, inTrouble' = {}
  PROVE  ReadSound' /\ PipeKept'
<1>1. /\ ~up /\ up' = TRUE /\ reconnect' = TRUE /\ rsem' = TRUE
      /\ ~rsem /\ rwait /\ rpc = "header"
      /\ UNCHANGED <<sent, pipe, rpc, chunk, rwait, rlate, rreq, hdr, prev, handled, filled, gone>>
  BY DEF InterfaceUp, If
<1>2. Chunks(hdr) \in Nat BY ReadFacts
<1>3. ReaderAt /\ RequestsKept /\ AheadKept /\ PipeKept BY DEF Reading, ReadSound
<1>4. pipe = <<>> /\ rreq = <<>> /\ hdr = prev BY <1>1, <1>3 DEF ReaderAt, PipeKept
<1>5. PipeKept' BY <1>1, <1>4 DEF PipeKept, Consecutive
<1>6. Ahead' = Ahead /\ Chunks(hdr)' = Chunks(hdr) /\ (Fresh' <=> Fresh) /\ ~LateData /\ ~LateData'
  BY <1>1, <1>4 DEF Ahead, Chunks, Fresh, LateData
<1>7. Wanted' = Wanted /\ Wanted = Chunks(hdr) + 1
  BY <1>1, <1>4, <1>6 DEF Wanted
<1>8. ReaderAt' BY <1>1, <1>3, <1>4 DEF ReaderAt
<1>9. RequestsKept' BY <1>1, <1>4 DEF RequestsKept
<1>10. ~(Wanted <= Chunks(hdr)) BY <1>2, <1>7
<1>11. AheadKept' BY <1>1, <1>3, <1>6, <1>7, <1>10 DEF AheadKept
<1>12. InOrder' /\ HandledKept' BY <1>1, <1>6, KnownKept
<1>13. FilledKept' BY <1>1, <1>7, FilledStays
<1> QED BY <1>5, <1>8, <1>9, <1>11, <1>12, <1>13 DEF ReadSound

\* What is on the pipe needs no assumption about troubles.
LEMMA PipeStep ==
  ASSUME Typed, PipeKept, [LinkNext]_usbVars
  PROVE  PipeKept'
<1>1. InTyped /\ PipeTyped BY DEF Typed
<1>2. ASSUME NEW n \in 0..InChunks, HostSends(n) PROVE PipeKept'
  BY <1>1, <1>2, HostSendsPipeKept
<1>3. ASSUME ReadTransferDone PROVE PipeKept'
  <2>1. pipe # <<>> /\ pipe' = Tail(pipe) /\ sent' = sent /\ up' = up /\ up
    BY <1>3 DEF ReadTransferDone, linkVars
  <2> QED BY <2>1, <1>1, TailPipeKept
<1>4. ASSUME InterfaceDown PROVE PipeKept'
  BY <1>4 DEF InterfaceDown, PipeKept, Consecutive
<1>5. ASSUME InterfaceUp PROVE PipeKept'
  <2>1. ~up /\ pipe' = pipe BY <1>5 DEF InterfaceUp
  <2>2. pipe' = <<>> BY <2>1 DEF PipeKept
  <2> QED BY <2>2 DEF PipeKept, Consecutive
<1>6. ASSUME UNCHANGED <<up, sent, pipe>> PROVE PipeKept'
  BY <1>6 DEF PipeKept, Consecutive, Follower
<1>7. \/ ReadCall \/ ReadReturns \/ ReadTimesOut \/ \E n \in 0..OutChunks : EventSend(n)
      \/ WriteCall \/ WriteTransferDone \/ WriteReturns \/ WriteTimesOut \/ UNCHANGED usbVars
      => UNCHANGED <<up, sent, pipe>>
  BY DEF ReadCall, ReadReturns, ReadTimesOut, EventSend, WriteCall, WriteTransferDone,
    WriteReturns, WriteTimesOut, usbVars, linkVars, inVars
<1> QED BY <1>2, <1>3, <1>4, <1>5, <1>6, <1>7 DEF LinkNext

\* The writer leaves the reader alone.
LEMMA ReadUntouched ==
  ASSUME ReadSound, UNCHANGED linkVars, UNCHANGED inVars
  PROVE  ReadSound'
BY DEF ReadSound, ReaderAt, RequestsKept, AheadKept, InOrder, HandledKept, FilledKept, Whole,
  Ahead, Wanted, Chunks, LateData, Fresh, linkVars, inVars

LEMMA ReadStep ==
  ASSUME Typed, PipeKept, ReadKept, [LinkNext]_usbVars
  PROVE  ReadKept'
<1> SUFFICES ASSUME inTrouble' = {} PROVE ReadSound'
  BY DEF ReadKept
<1>1. inTrouble = {}
  BY DEF LinkNext, HostSends, EventSend, ReadCall, ReadTransferDone, ReadReturns, ReadTimesOut,
    WriteCall, WriteTransferDone, WriteReturns, WriteTimesOut, InterfaceDown, InterfaceUp,
    usbVars, inVars
<1>2. Reading BY <1>1 DEF Reading, Typed, ReadKept
<1>3. ASSUME NEW n \in 0..InChunks, HostSends(n) PROVE ReadSound'
  BY <1>2, <1>3, HostSendsReads
<1>4. CASE ReadCall BY <1>2, <1>4, ReadCallReads
<1>5. CASE ReadTransferDone BY <1>2, <1>5, HeaderArrives, DataArrives
<1>6. CASE ReadReturns BY <1>2, <1>6, ReadReturnsReads
<1>7. CASE ReadTimesOut BY <1>2, <1>7, ReadTimesOutReads
<1>8. CASE InterfaceDown BY <1>2, <1>8, InterfaceDownReads
<1>9. CASE InterfaceUp BY <1>2, <1>9, InterfaceUpReads
<1>10. ReadSound BY <1>2 DEF Reading
<1>11. ASSUME UNCHANGED linkVars, UNCHANGED inVars PROVE ReadSound'
  BY <1>10, <1>11, ReadUntouched
<1>12. \/ \E n \in 0..OutChunks : EventSend(n)
       \/ WriteCall \/ WriteTransferDone \/ WriteReturns \/ WriteTimesOut \/ UNCHANGED usbVars
       => UNCHANGED linkVars /\ UNCHANGED inVars
  BY DEF EventSend, WriteCall, WriteTransferDone, WriteReturns, WriteTimesOut, usbVars
<1> QED BY <1>3, <1>4, <1>5, <1>6, <1>7, <1>8, <1>9, <1>11, <1>12 DEF LinkNext

LEMMA ReadHolds ==
  ASSUME Typed, PipeKept, ReadKept
  PROVE  HandledOnceAndWhole
<1> SUFFICES ASSUME inTrouble = {}
             PROVE  /\ rpc # "dead"
                    /\ \A j, k \in DOMAIN handled : j < k => handled[j] < handled[k]
                    /\ 1..(hdr - 1) \subseteq ToSet(handled) \union gone
                    /\ \A k \in 1..(Len(handled) - 1) :
                         {handled[k]} \X (1..sent[handled[k]]) \subseteq
                             filled \union (gone \X (1..InChunks))
  BY DEF HandledOnceAndWhole
<1>1. Reading BY DEF Reading, Typed, ReadKept
<1>2. ReaderAt /\ InOrder /\ HandledKept BY <1>1 DEF Reading, ReadSound
<1>3. handled \in Seq(Nat) /\ hdr \in 0..Len(sent) /\ Len(sent) \in Nat BY <1>1, ReadFacts
<1>4. ASSUME NEW m \in 1..(hdr - 1) PROVE m \in ToSet(handled) \union gone
  <2>1. m \in gone \/ \E k \in DOMAIN handled : handled[k] = m BY <1>2 DEF HandledKept
  <2> QED BY <2>1 DEF ToSet
<1>5. ASSUME NEW k \in 1..(Len(handled) - 1), NEW c \in 1..sent[handled[k]]
      PROVE  <<handled[k], c>> \in filled \union (gone \X (1..InChunks))
  <2>1. k \in DOMAIN handled /\ k + 1 \in DOMAIN handled /\ k < k + 1 BY SMTT(30), <1>3
  <2>2. handled[k] < handled[k + 1] BY <2>1, <1>2 DEF InOrder
  <2>3. handled[k] \in 1..hdr /\ handled[k + 1] \in 1..hdr BY <2>1, <1>2 DEF HandledKept
  <2> DEFINE x == handled[k]
             y == handled[k + 1]
  <2>4. x < y /\ x \in 1..hdr /\ y \in 1..hdr BY <2>2, <2>3
  <2> HIDE DEF x, y
  <2>5. x < hdr /\ x \in 1..Len(sent) BY <2>4, <1>3
  <2>a. DOMAIN sent = 1..Len(sent) BY <1>1, ReadFacts
  <2>6. handled[k] < hdr /\ handled[k] \in DOMAIN sent BY <2>5, <2>a DEF x
  <2>7. Whole(handled[k]) BY <2>1, <2>6, <1>2 DEF HandledKept
  <2>8. sent[handled[k]] \in 0..InChunks BY <2>6, <1>1, SentTyped DEF Reading
  <2>9. c \in 1..InChunks BY <2>8, Bounds
  <2> QED BY <2>7, <2>9 DEF Whole
<1>6. \A k \in 1..(Len(handled) - 1) :
        {handled[k]} \X (1..sent[handled[k]]) \subseteq filled \union (gone \X (1..InChunks))
  BY <1>5
<1> QED BY <1>2, <1>4, <1>6 DEF ReaderAt, InOrder

-----------------------------------------------------------------------------
(* The theorems                                                            *)

LEMMA LinkInvInit == LinkInit => LinkInv
BY TypedInit, WriteInit, ReadInit DEF LinkInv

LEMMA LinkInvStep == LinkInv /\ [LinkNext]_usbVars => LinkInv'
<1> SUFFICES ASSUME LinkInv, [LinkNext]_usbVars PROVE LinkInv' OBVIOUS
<1>1. Typed /\ WriteKept /\ PipeKept /\ ReadKept BY DEF LinkInv
<1>2. Typed' BY <1>1, TypedStep
<1>3. WriteKept' BY <1>1, WriteStep
<1>4. PipeKept' BY <1>1, PipeStep
<1>5. ReadKept' BY <1>1, ReadStep
<1> QED BY <1>2, <1>3, <1>4, <1>5 DEF LinkInv

LEMMA LinkSpecInv == LinkSpec => []LinkInv
BY LinkInvInit, LinkInvStep, PTL DEF LinkSpec

LEMMA TypesHold == LinkInv => LinkTypeOK
<1> SUFFICES ASSUME LinkInv PROVE LinkTypeOK OBVIOUS
<1>1. drops \in 0..MaxDrops /\ Flags /\ InTyped /\ OutTyped BY DEF LinkInv, Typed
<1>2. {up, reconnect, rwait, rlate, rsem, wwait, wlate, wsem} \subseteq BOOLEAN
  BY <1>1, Zenon DEF Flags
<1> QED BY <1>1, <1>2 DEF LinkTypeOK, InTyped, OutTyped

\* At most one write transfer is pending (usb_vsc_write waits for the one a timeout left
\* instead of submitting another), and every message, chunk and place is one there is.
THEOREM LinkTypeSafety == LinkSpec => []LinkTypeOK
BY LinkSpecInv, TypesHold, PTL

\* Until a data read is abandoned or the interface comes up at the wrong moment, the
\* dispatcher gets each message once, in order and with its data, but for what the
\* interface took (dispatcherEventReceive, USBLinkRead, usb_vsc_read); until a data write
\* is late or the interface goes down, the host reads what was sent (USBLinkWrite).
THEOREM LinkSafety == LinkSpec => []LinkKept
<1>1. LinkInv => LinkKept
  BY WriteHolds, ReadHolds DEF LinkInv, LinkKept
<1> QED BY <1>1, LinkSpecInv, PTL

=============================================================================
