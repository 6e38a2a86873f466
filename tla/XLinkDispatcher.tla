--------------------------- MODULE XLinkDispatcher --------------------------
(***************************************************************************)
(* The event queues of one XLink scheduler. Application threads put local  *)
(* events into slots of lQueue and wait on a semaphore of their own, the   *)
(* reader thread puts events of the other end into rQueue, and the         *)
(* dispatcher thread serves both. A slot whose state is "served" is either *)
(* free or holds an event that was added and not looked at yet; the two    *)
(* pointers of a queue tell which.                                         *)
(*                                                                         *)
(* Two kinds of local events: a request, pending until the other end       *)
(* responds, and a read, served here once there is a packet and blocked    *)
(* until then. Two kinds of remote events: a response and a packet. Reset  *)
(* is not modelled here.                                                   *)
(***************************************************************************)
EXTENDS Naturals, Sequences, FiniteSets

CONSTANTS
  Threads,   \* application threads
  None,      \* no thread
  Slots,     \* MAX_EVENTS
  PeerCalls, \* packets the other end sends before it has the responses to earlier ones
  MaxCalls,  \* bound: calls of all threads
  MaxPackets \* bound: packets the other end sends

ASSUME SlotAssumption ==
  /\ Slots \in Nat /\ PeerCalls \in Nat
  /\ IsFiniteSet(Threads) /\ Cardinality(Threads) + PeerCalls < Slots /\ None \notin Threads
ASSUME BoundAssumption == MaxCalls \in Nat /\ MaxPackets \in Nat

VARIABLES
  lq, lCur, lProc,  \* lQueue: slots, next to fill (cur), next to serve (curProc)
  rq, rCur, rProc,  \* rQueue
  notify,           \* notifyDispatcherSem
  sem,              \* per thread: its semaphore of eventSemaphores
  thread,           \* per thread: the call it waits in and what it was given for it
  calls,            \* calls so far, the identity of events (createUniqueID)
  dispatcher,       \* the event it holds: queue and slot, or none
  wire,             \* requests the other end has not responded to
  packets,          \* packets stored and not read
  arrived,          \* packets received so far
  done,             \* calls that were served (history)
  again,            \* calls that were served after that (history)
  empty,            \* reads that returned without a packet (history)
  lapped            \* a call was made whose slot in turn was still open, that is, some
                    \* call was open while Slots - 1 later ones were made (history)

lvars == <<lq, lCur, lProc>>
rvars == <<rq, rCur, rProc>>
history == <<done, again, empty, lapped>>
vars == <<lvars, rvars, notify, sem, thread, calls, dispatcher, wire, packets, arrived, history>>

Slot == 0..(Slots - 1)
AfterNoWrap(s) == s + 1   \* mutant: no wrap
After(s) == (s + 1) % Slots
NoEvent == [state |-> "served", id |-> 0, op |-> "none", by |-> None]
Idle == [queue |-> "none", slot |-> 0]
Waiting(t) == thread[t].call # 0

Init ==
  /\ lq = [s \in Slot |-> NoEvent] /\ lCur = 0 /\ lProc = 0
  /\ rq = [s \in Slot |-> [kind |-> "none", id |-> 0]] /\ rCur = 0 /\ rProc = 0
  /\ notify = 0
  /\ sem = [t \in Threads |-> 0]
  /\ thread = [t \in Threads |-> [call |-> 0, op |-> "none", given |-> FALSE]]
  /\ calls = 0
  /\ dispatcher = Idle
  /\ wire = <<>> /\ packets = 0 /\ arrived = 0
  /\ done = {} /\ again = {} /\ empty = {} /\ lapped = FALSE

\* getNextElementWithState: going round from start, the first slot in this state.
Distance(start, s) == (s + Slots - start) % Slots
NextSlots(start, state) ==
  {s \in Slot : /\ lq[s].state = state
                /\ \A r \in Slot : lq[r].state = state => Distance(start, s) <= Distance(start, r)}

(***************************************************************************)
(* Application threads                                                     *)
(***************************************************************************)
\* The slot holds a call that its thread has not returned from.
Open(s) == lq[s].by # None /\ thread[lq[s].by].call = lq[s].id

\* dispatcherAddEvent(EVENT_LOCAL): the state of the slot stays "served". A semaphore is
\* destroyed with the last slot that refers to it.
AddLocal(t, op) ==
  /\ ~Waiting(t) /\ calls < MaxCalls
  /\ lapped' = (lapped \/ Open(lCur))
  /\ calls' = calls + 1
  /\ \E s \in NextSlots(lCur, "served") :
       /\ lq' = [lq EXCEPT ![s] = [state |-> "served", id |-> calls + 1, op |-> op, by |-> t]]
       /\ lCur' = After(s)
       /\ sem' = [u \in Threads |-> IF u = t \/ \E r \in Slot : lq'[r].by = u THEN sem[u] ELSE 0]
  /\ notify' = notify + 1
  /\ thread' = [thread EXCEPT ![t] = [call |-> calls + 1, op |-> op, given |-> FALSE]]
  /\ UNCHANGED <<lProc, rvars, dispatcher, wire, packets, arrived, done, again, empty>>

\* dispatcherWaitEventComplete: a thread that finds its semaphore gone does not wait.
Return(t) ==
  /\ Waiting(t)
  /\ \/ sem[t] > 0 /\ sem' = [sem EXCEPT ![t] = @ - 1]
     \/ (\A s \in Slot : lq[s].by # t) /\ UNCHANGED sem
  /\ thread' = [thread EXCEPT ![t].call = 0]
  /\ empty' = IF thread[t].op = "read" /\ ~thread[t].given
              THEN empty \union {thread[t].call} ELSE empty
  /\ UNCHANGED <<lvars, rvars, notify, calls, dispatcher, wire, packets, arrived, done, again, lapped>>

(***************************************************************************)
(* The reader thread, and the other end                                    *)
(***************************************************************************)
\* dispatcherAddEvent(EVENT_REMOTE): slots of rQueue are always "served".
AddRemote(event) ==
  /\ rq' = [rq EXCEPT ![rCur] = event]
  /\ rCur' = After(rCur)
  /\ notify' = notify + 1
  /\ UNCHANGED <<lvars, rProc, sem, thread, calls, dispatcher, history>>

ReceiveResponse ==
  /\ wire # <<>>
  /\ wire' = Tail(wire)
  /\ AddRemote([kind |-> "response", id |-> Head(wire)])
  /\ UNCHANGED <<packets, arrived>>

\* The packet is stored before its event is added. The other end waits for a response.
Unanswered ==
  {s \in Slot : /\ rq[s].kind = "packet"
                /\ \/ dispatcher = [queue |-> "remote", slot |-> s]
                   \/ Distance(rProc, s) < Distance(rProc, rCur)}

ReceivePacket ==
  /\ arrived < MaxPackets /\ Cardinality(Unanswered) < PeerCalls
  /\ arrived' = arrived + 1
  /\ packets' = packets + 1
  /\ AddRemote([kind |-> "packet", id |-> 0])
  /\ UNCHANGED wire

(***************************************************************************)
(* The dispatcher thread: dispatcherGetNextEvent                           *)
(***************************************************************************)
Ready == NextSlots(0, "ready")

FetchReady ==
  /\ dispatcher = Idle
  /\ \E s \in Ready : dispatcher' = [queue |-> "local", slot |-> s]
  /\ UNCHANGED <<lvars, rvars, notify, sem, thread, calls, wire, packets, arrived, history>>

FetchLocalKeepsNotify ==
  /\ dispatcher = Idle /\ Ready = {} /\ notify > 0 /\ lCur # lProc
  /\ \E s \in NextSlots(lProc, "served") :
       /\ dispatcher' = [queue |-> "local", slot |-> s]
       /\ lProc' = After(s)
  /\ UNCHANGED <<lq, lCur, rvars, notify, sem, thread, calls, wire, packets, arrived, history>>

FetchLocalStays ==
  /\ dispatcher = Idle /\ Ready = {} /\ notify > 0 /\ lCur # lProc
  /\ notify' = notify - 1
  /\ \E s \in NextSlots(lProc, "served") :
       /\ dispatcher' = [queue |-> "local", slot |-> s]
       /\ lProc' = s
  /\ UNCHANGED <<lq, lCur, rvars, sem, thread, calls, wire, packets, arrived, history>>

\* A local event if there is one: the first slot from curProc on that is "served".
FetchLocal ==
  /\ dispatcher = Idle /\ Ready = {} /\ notify > 0 /\ lCur # lProc
  /\ notify' = notify - 1
  /\ \E s \in NextSlots(lProc, "served") :
       /\ dispatcher' = [queue |-> "local", slot |-> s]
       /\ lProc' = After(s)
  /\ UNCHANGED <<lq, lCur, rvars, sem, thread, calls, wire, packets, arrived, history>>

FetchRemote ==
  /\ dispatcher = Idle /\ Ready = {} /\ notify > 0 /\ lCur = lProc /\ rCur # rProc
  /\ notify' = notify - 1
  /\ dispatcher' = [queue |-> "remote", slot |-> rProc]
  /\ rProc' = After(rProc)
  /\ UNCHANGED <<lvars, rq, rCur, sem, thread, calls, wire, packets, arrived, history>>

(***************************************************************************)
(* The dispatcher thread: serving the event it fetched                     *)
(***************************************************************************)
SetState(s, state) == lq' = [lq EXCEPT ![s].state = state]

MarkServed(s) ==
  /\ SetState(s, "served")
  /\ sem' = [sem EXCEPT ![lq[s].by] = @ + 1]
  /\ done' = done \union {lq[s].id}
  /\ again' = IF lq[s].id \in done THEN again \union {lq[s].id} ELSE again

ServeRequestWakes ==
  /\ dispatcher.queue = "local" /\ lq[dispatcher.slot].op = "request"
  /\ SetState(dispatcher.slot, "pending")
  /\ wire' = Append(wire, lq[dispatcher.slot].id)
  /\ sem' = [sem EXCEPT ![lq[dispatcher.slot].by] = @ + 1]
  /\ dispatcher' = Idle
  /\ UNCHANGED <<lCur, lProc, rvars, notify, thread, calls, packets, arrived, history>>

ServeRequestNotPending ==
  /\ dispatcher.queue = "local" /\ lq[dispatcher.slot].op = "request"
  /\ wire' = Append(wire, lq[dispatcher.slot].id)
  /\ dispatcher' = Idle
  /\ UNCHANGED <<lvars, rvars, notify, sem, thread, calls, packets, arrived, history>>

ServeRequest ==
  /\ dispatcher.queue = "local" /\ lq[dispatcher.slot].op = "request"
  /\ SetState(dispatcher.slot, "pending")
  /\ wire' = Append(wire, lq[dispatcher.slot].id)
  /\ dispatcher' = Idle
  /\ UNCHANGED <<lCur, lProc, rvars, notify, sem, thread, calls, packets, arrived, history>>

ServeReadEmpty ==
  LET s == dispatcher.slot
  IN /\ dispatcher.queue = "local" /\ lq[s].op = "read"
     /\ packets' = IF packets > 0 THEN packets - 1 ELSE 0
     /\ thread' = [thread EXCEPT ![lq[s].by].given = packets > 0]
     /\ MarkServed(s)
     /\ dispatcher' = Idle
     /\ UNCHANGED <<lCur, lProc, rvars, notify, calls, wire, arrived, empty, lapped>>

\* The packet goes to where the event points, which is the caller only as long as it waits.
ServeRead ==
  LET s == dispatcher.slot
  IN /\ dispatcher.queue = "local" /\ lq[s].op = "read"
     /\ \/ /\ packets > 0
           /\ packets' = packets - 1
           /\ thread' = [thread EXCEPT ![lq[s].by].given = @ \/ thread[lq[s].by].call = lq[s].id]
           /\ MarkServed(s)
        \/ /\ packets = 0
           /\ SetState(s, "blocked")
           /\ UNCHANGED <<packets, thread, sem, done, again>>
     /\ dispatcher' = Idle
     /\ UNCHANGED <<lCur, lProc, rvars, notify, calls, wire, arrived, empty, lapped>>

ServePacketSilently ==
  /\ dispatcher.queue = "remote" /\ rq[dispatcher.slot].kind = "packet"
  /\ dispatcher' = Idle
  /\ UNCHANGED <<lvars, rvars, notify, sem, thread, calls, wire, packets, arrived, history>>

\* dispatcherUnblockEvent: the blocked read in the lowest slot, if any.
ServePacket ==
  /\ dispatcher.queue = "remote" /\ rq[dispatcher.slot].kind = "packet"
  /\ \/ \E s \in NextSlots(0, "blocked") : SetState(s, "ready")
     \/ NextSlots(0, "blocked") = {} /\ UNCHANGED lq
  /\ dispatcher' = Idle
  /\ UNCHANGED <<lCur, lProc, rvars, notify, sem, thread, calls, wire, packets, arrived, history>>

\* dispatcherResponseServe: "no request for this response" is an assertion failure.
Requests(id) == {s \in Slot : lq[s].state = "pending" /\ lq[s].id = id}

ServeResponse ==
  /\ dispatcher.queue = "remote" /\ rq[dispatcher.slot].kind = "response"
  /\ \E s \in Requests(rq[dispatcher.slot].id) : MarkServed(s)
  /\ dispatcher' = Idle
  /\ UNCHANGED <<lCur, lProc, rvars, notify, thread, calls, wire, packets, arrived, empty, lapped>>

-----------------------------------------------------------------------------
Fetch == FetchReady \/ FetchLocal \/ FetchRemote
Serve == ServeRequest \/ ServeRead \/ ServePacket \/ ServeResponse

Next ==
  \/ \E t \in Threads : Return(t) \/ \E op \in {"request", "read"} : AddLocal(t, op)
  \/ ReceiveResponse \/ ReceivePacket
  \/ Fetch \/ Serve

Spec == Init /\ [][Next]_vars

\* The library's threads run and the other end responds; it need not send packets.
Fairness ==
  /\ WF_vars(Fetch \/ Serve) /\ WF_vars(ReceiveResponse)
  /\ \A t \in Threads : WF_vars(Return(t))

FairSpec == Spec /\ Fairness

-----------------------------------------------------------------------------
TypeOK ==
  /\ lq \in [Slot -> [state : {"served", "blocked", "ready", "pending"}, id : 0..MaxCalls,
                      op : {"none", "request", "read"}, by : Threads \union {None}]]
  /\ rq \in [Slot -> [kind : {"none", "packet", "response"}, id : 0..MaxCalls]]
  /\ {lCur, lProc, rCur, rProc} \subseteq Slot
  /\ notify \in Nat /\ sem \in [Threads -> Nat]
  /\ thread \in [Threads -> [call : 0..MaxCalls, op : {"none", "request", "read"},
                             given : BOOLEAN]]
  /\ calls \in 0..MaxCalls /\ arrived \in 0..MaxPackets /\ packets \in 0..arrived
  /\ dispatcher \in [queue : {"none", "local", "remote"}, slot : Slot]
  /\ wire \in Seq(1..MaxCalls)
  /\ done \union again \union empty \subseteq 1..MaxCalls /\ lapped \in BOOLEAN

Queued(cur, proc) == Distance(proc, cur)

\* The notifications left are exactly the events nobody fetched, so the dispatcher neither
\* sleeps on a queued event nor finds both queues empty.
NotifiedExactly ==
  notify = Cardinality({s \in Slot : lq[s].state = "served" /\ Distance(lProc, s) < Queued(lCur, lProc)})
             + Queued(rCur, rProc)

\* A thread is woken once and for the call it waits in, when that call was served.
WokenForItsCall ==
  \A t \in Threads : sem[t] <= 1 /\ (sem[t] > 0 => thread[t].call \in done)

\* Every response finds the pending request it answers.
ResponsesMatch ==
  dispatcher.queue = "remote" /\ rq[dispatcher.slot].kind = "response"
    => Requests(rq[dispatcher.slot].id) # {}

\* No event is served again after its call was completed, and XLinkReadData "will only have
\* something if it was written to by the remote": when it returns it has been given a packet.
ServedOnce == again = {} /\ empty = {}

\* Each event is announced once, served once, and wakes the thread that waits for it, as
\* long as no call stays open while the others go once round the queue. (After that a
\* finished slot between curProc and cur is taken for a new event: dispatcherGetNextEvent.)
EventsExact ==
  ~lapped => NotifiedExactly /\ WokenForItsCall /\ ResponsesMatch /\ ServedOnce

\* Every request returns, and no read stays blocked while a packet is stored, unless a call
\* was lapped.
CallsReturn ==
  \A t \in Threads :
    /\ Waiting(t) /\ thread[t].op = "request" ~> ~Waiting(t) \/ lapped
    /\ Waiting(t) /\ thread[t].op = "read" /\ packets > 0 ~> ~Waiting(t) \/ packets = 0 \/ lapped
=============================================================================
