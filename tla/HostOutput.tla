----------------------------- MODULE HostOutput -----------------------------
(***************************************************************************)
(* The output half of the host SDK: the message thread                     *)
(* (ConnectorMessageThread) receives SET_OUTPUT headers and their payloads *)
(* from the device and keeps them in a bounded queue, throwing the oldest  *)
(* away when it is full; the output thread (DlOutputThread) post-processes *)
(* each item, calls the application's handler and frees it, or calls the   *)
(* watchdog handler after enough polls of an empty queue. Xeye::uninit     *)
(* stops the two threads one after the other.                              *)
(*                                                                         *)
(* Item m is the one made for the m-th header the device sends. It owns up *)
(* to three allocations: the message, the big result and the image.        *)
(***************************************************************************)
EXTENDS Naturals, Sequences, FiniteSets

CONSTANTS
  Cap,           \* _max_queue_size of the output queue
  WatchdogPolls, \* consecutive empty polls before watchdog_handler (1600)
  MaxHeaders     \* bound: headers the device sends

ASSUME CapAssumption == Cap \in Nat \ {0}
ASSUME BoundAssumption == WatchdogPolls \in Nat \ {0} /\ MaxHeaders \in Nat

VARIABLES
  heap,     \* live allocations, pairs <<item, part>>
  outq,     \* DlOutputQueue
  receiver, \* the message thread: pc, its item and the parts it holds of it
  worker,   \* the output thread: pc and its item
  arrived,  \* headers received so far (history; numbers the items)
  rejected, \* items the message thread gave up on (history)
  handled,  \* items the application's handler saw, in order (history)
  polls,    \* empty_count modulo WatchdogPolls
  barked,   \* the last poll called watchdog_handler
  nullItem, \* the message thread dereferenced an item it did not get
  owner     \* Xeye::uninit: "up", "joinReceiver", "joinWorker", "down"

vars == <<heap, outq, receiver, worker, arrived, rejected, handled, polls,
          barked, nullItem, owner>>

Items == 1..(MaxHeaders + 1)
Parts == {"message", "result", "image"}
Item == [id : Items, parts : SUBSET Parts]
NoItem == [id |-> 0, parts |-> {}]

ReceiverRunning == owner = "up"
WorkerRunning == owner \in {"up", "joinReceiver"}
Allocations(item) == {<<item.id, part>> : part \in item.parts}

Init ==
  /\ heap = {}
  /\ outq = <<>>
  /\ receiver = [pc |-> "loop", item |-> NoItem, awaits |-> {}]
  /\ worker = [pc |-> "loop", item |-> NoItem]
  /\ arrived = 0 /\ rejected = {} /\ handled = <<>>
  /\ polls = 0 /\ barked = FALSE
  /\ nullItem = FALSE
  /\ owner = "up"

(***************************************************************************)
(* ConnectorMessageThread::s_thread_func                                   *)
(***************************************************************************)
ReceiverAt(pc) == receiver.pc = pc /\ ~nullItem
FullOffByOne == Len(outq) > Cap           \* mutant: > for >=
Full == Len(outq) >= Cap
workerVars == <<worker, handled, polls, barked>>

\* The thread has the message buffer of the next item and waits for its header.
EnterReceive ==
  /\ ReceiverAt("loop")
  /\ \/ /\ ReceiverRunning
        /\ receiver' = [pc |-> "header", awaits |-> {},
                        item |-> [id |-> arrived + 1, parts |-> {"message"}]]
        /\ heap' = heap \union {<<arrived + 1, "message">>}
     \/ /\ ~ReceiverRunning
        /\ receiver' = [receiver EXCEPT !.pc = "exited"]
        /\ UNCHANGED heap
  /\ UNCHANGED <<outq, workerVars, arrived, rejected, nullItem, owner>>

GiveUpSilently ==                         \* mutant: an early continue nobody accounts for
  /\ receiver' = [pc |-> "loop", item |-> NoItem, awaits |-> {}]
  /\ UNCHANGED <<heap, rejected>>

\* Every failure after the message buffer is allocated sets the inner ret and breaks:
\* the outer ret stays 0, so the loop goes round without freeing anything.
GiveUp ==
  /\ rejected' = rejected \union {receiver.item.id}
  /\ receiver' = [pc |-> "loop", item |-> NoItem, awaits |-> {}]
  /\ UNCHANGED heap

\* A header arrives, or receive fails: a SET_OUTPUT with a result names the payloads
\* that follow it (a result that is not embedded, an image the configuration asks
\* for); a wrong magic, another type or no result is dropped.
ReceiveHeader ==
  /\ ReceiverAt("header") /\ arrived < MaxHeaders
  /\ arrived' = arrived + 1
  /\ \/ GiveUp
     \/ /\ \E payloads \in SUBSET {"result", "image"} :
             receiver' = [receiver EXCEPT !.awaits = payloads, !.pc = "payload"]
        /\ UNCHANGED <<heap, rejected>>
  /\ UNCHANGED <<outq, workerVars, nullItem, owner>>

\* The big result first, then the image; each is allocated before it is received.
ReceivePayload ==
  /\ ReceiverAt("payload") /\ receiver.awaits # {}
  /\ LET part == IF "result" \in receiver.awaits THEN "result" ELSE "image"
     IN /\ heap' = heap \union {<<receiver.item.id, part>>}
        /\ \/ /\ receiver' = [receiver EXCEPT !.item.parts = @ \union {part},
                                              !.awaits = @ \ {part}]
              /\ UNCHANGED rejected
           \/ /\ rejected' = rejected \union {receiver.item.id}
              /\ receiver' = [pc |-> "loop", item |-> NoItem, awaits |-> {}]
  /\ UNCHANGED <<outq, workerVars, arrived, nullItem, owner>>

EnqueueItem ==
  /\ outq' = Append(outq, receiver.item)
  /\ receiver' = [pc |-> "loop", item |-> NoItem, awaits |-> {}]

PushItem ==
  /\ ReceiverAt("payload") /\ receiver.awaits = {}
  /\ \/ ~Full /\ EnqueueItem
     \/ /\ Full
        /\ receiver' = [receiver EXCEPT !.pc = "evict"]
        /\ UNCHANGED outq
  /\ UNCHANGED <<heap, workerVars, arrived, rejected, nullItem, owner>>

EvictWithoutRemoving ==                   \* mutant: front() without pop()
  /\ ReceiverAt("evict") /\ outq # <<>>
  /\ heap' = heap \ Allocations(Head(outq))
  /\ receiver' = [receiver EXCEPT !.pc = "repush"]
  /\ UNCHANGED <<outq, workerVars, arrived, rejected, nullItem, owner>>

\* The result of pop is not looked at: when the output thread has emptied the queue
\* in the meantime, the default item's null xeye_message is dereferenced.
EvictOldest ==
  /\ ReceiverAt("evict")
  /\ \/ /\ outq # <<>>
        /\ heap' = heap \ Allocations(Head(outq))
        /\ outq' = Tail(outq)
        /\ receiver' = [receiver EXCEPT !.pc = "repush"]
        /\ UNCHANGED nullItem
     \/ /\ outq = <<>>
        /\ nullItem' = TRUE
        /\ UNCHANGED <<heap, outq, receiver>>
  /\ UNCHANGED <<workerVars, arrived, rejected, owner>>

\* assert(0 == ret): the item just made room for itself.
RepushItem ==
  /\ ReceiverAt("repush") /\ ~Full
  /\ EnqueueItem
  /\ UNCHANGED <<heap, workerVars, arrived, rejected, nullItem, owner>>

(***************************************************************************)
(* DlOutputThread::s_thread_func                                           *)
(***************************************************************************)
WorkerAt(pc) == worker.pc = pc /\ ~nullItem
receiverVars == <<receiver, arrived, rejected, nullItem>>

PollForgets ==                            \* mutant: empty_count starts over at every poll
  /\ WorkerAt("loop") /\ WorkerRunning /\ outq = <<>>
  /\ polls' = 1 % WatchdogPolls
  /\ barked' = (polls' = 0)
  /\ UNCHANGED <<heap, outq, receiverVars, worker, handled, owner>>

PollEmpty ==
  /\ WorkerAt("loop") /\ WorkerRunning /\ outq = <<>>
  /\ polls' = (polls + 1) % WatchdogPolls
  /\ barked' = (polls' = 0)
  /\ UNCHANGED <<heap, outq, receiverVars, worker, handled, owner>>

TakeNewest ==                             \* mutant: back() for front()
  /\ WorkerAt("loop") /\ WorkerRunning /\ outq # <<>>
  /\ worker' = [pc |-> "handle", item |-> outq[Len(outq)]]
  /\ outq' = SubSeq(outq, 1, Len(outq) - 1)
  /\ polls' = 0 /\ barked' = FALSE
  /\ UNCHANGED <<heap, receiverVars, handled, owner>>

TakeItem ==
  /\ WorkerAt("loop") /\ WorkerRunning /\ outq # <<>>
  /\ worker' = [pc |-> "handle", item |-> Head(outq)]
  /\ outq' = Tail(outq)
  /\ polls' = 0 /\ barked' = FALSE
  /\ UNCHANGED <<heap, receiverVars, handled, owner>>

HandleOrLeave ==                          \* mutant: a failed postprocess ends the thread
  /\ WorkerAt("handle")
  /\ \/ handled' = Append(handled, worker.item.id) /\ worker' = [worker EXCEPT !.pc = "free"]
     \/ /\ "result" \in worker.item.parts /\ UNCHANGED handled
        /\ worker' = [pc |-> "exited", item |-> NoItem]
  /\ UNCHANGED <<heap, outq, receiverVars, polls, barked, owner>>

\* The handler is skipped when postprocess cannot allocate the float result.
HandleItem ==
  /\ WorkerAt("handle")
  /\ \/ handled' = Append(handled, worker.item.id)
     \/ "result" \in worker.item.parts /\ UNCHANGED handled
  /\ worker' = [worker EXCEPT !.pc = "free"]
  /\ UNCHANGED <<heap, outq, receiverVars, polls, barked, owner>>

FreeItem ==
  /\ WorkerAt("free")
  /\ heap' = heap \ Allocations(worker.item)
  /\ worker' = [pc |-> "loop", item |-> NoItem]
  /\ UNCHANGED <<outq, receiverVars, handled, polls, barked, owner>>

LeaveWorker ==
  /\ WorkerAt("loop") /\ ~WorkerRunning
  /\ worker' = [worker EXCEPT !.pc = "exited"]
  /\ UNCHANGED <<heap, outq, receiverVars, handled, polls, barked, owner>>

(***************************************************************************)
(* Xeye::uninit: stop and join the message thread, then the output thread, *)
(* then delete the queue                                                   *)
(***************************************************************************)
Uninit ==
  /\ ~nullItem
  /\ \/ owner = "up" /\ owner' = "joinReceiver" /\ UNCHANGED outq
     \/ /\ owner = "joinReceiver" /\ ReceiverAt("exited")
        /\ owner' = "joinWorker" /\ UNCHANGED outq
     \/ /\ owner = "joinWorker" /\ WorkerAt("exited")
        /\ owner' = "down" /\ outq' = <<>>
  /\ UNCHANGED <<heap, receiverVars, workerVars>>

-----------------------------------------------------------------------------
\* What the device has to do for the message thread to go on.
DeviceStep == ReceiveHeader \/ ReceivePayload
ReceiverStep == EnterReceive \/ PushItem \/ EvictOldest \/ RepushItem
WorkerStep == PollEmpty \/ TakeItem \/ HandleItem \/ FreeItem \/ LeaveWorker

Next == DeviceStep \/ ReceiverStep \/ WorkerStep \/ Uninit

Spec == Init /\ [][Next]_vars

\* The host's threads are scheduled, the device owes nothing, and uninit goes on
\* once it was called.
HostFairness ==
  /\ WF_vars(ReceiverStep) /\ WF_vars(WorkerStep)
  /\ WF_vars(owner # "up" /\ Uninit)

FairSpec == Spec /\ HostFairness
-----------------------------------------------------------------------------
TypeOK ==
  /\ heap \in SUBSET (Items \X Parts)
  /\ outq \in Seq(Item) /\ Len(outq) <= Cap
  /\ receiver \in [pc : {"loop", "header", "payload", "evict", "repush", "exited"},
                   item : Item \union {NoItem}, awaits : SUBSET {"result", "image"}]
  /\ worker \in [pc : {"loop", "handle", "free", "exited"}, item : Item \union {NoItem}]
  /\ receiver.item = NoItem <=> receiver.pc \in {"loop", "exited"}
  /\ worker.item = NoItem <=> worker.pc \in {"loop", "exited"}
  /\ arrived \in 0..MaxHeaders
  /\ rejected \in SUBSET Items /\ handled \in Seq(Items)
  /\ polls \in 0..(WatchdogPolls - 1) /\ barked \in BOOLEAN
  /\ nullItem \in BOOLEAN
  /\ owner \in {"up", "joinReceiver", "joinWorker", "down"}

Held == {receiver.item, worker.item} \union {outq[k] : k \in DOMAIN outq}

\* The pointers in an item are valid wherever it is: what the message thread, the
\* queue and the output thread hold is allocated, and no two of them hold the same
\* item, so eviction and hand-over never free twice or read freed memory.
HeldItemsLive ==
  /\ \A item \in Held : Allocations(item) \subseteq heap
  /\ \A j, k \in DOMAIN outq : j < k => outq[j].id < outq[k].id
  /\ \A k \in DOMAIN outq :
       /\ worker.item.id < outq[k].id
       /\ receiver.item.id # 0 => outq[k].id < receiver.item.id
  /\ receiver.item.id # 0 => worker.item.id < receiver.item.id

\* Memory is lost only with an item whose reception failed part way, or with the
\* queue uninit deletes: eviction and the output thread free every part of an item.
LostOnlyWithRejected ==
  \A a \in heap :
    \/ \E item \in Held : a \in Allocations(item)
    \/ a[1] \in rejected
    \/ owner = "down"

\* The assert after an eviction holds: no other thread can take the freed slot.
RepushFits == receiver.pc = "repush" => ~Full

\* The handler sees results in the order the device sent them, each at most once:
\* eviction makes gaps, it never delivers an older result after a newer one.
HandledInOrder ==
  \A j, k \in DOMAIN handled : j < k => handled[j] < handled[k]

\* A result that entered the queue is handled, evicted, or given up by uninit.
QueuedLeaves ==
  \A m \in Items :
    (\E k \in DOMAIN outq : outq[k].id = m)
      ~> (nullItem \/ \A k \in DOMAIN outq : outq[k].id # m)

\* Silence is noticed: an output thread that finds the queue empty gets an item,
\* calls the watchdog handler, or is stopped.
SilenceIsNoticed ==
  WorkerAt("loop") ~> (barked \/ worker.pc = "handle" \/ ~WorkerRunning \/ nullItem)

\* Eviction and hand-over keep every item in one place and allocated, lose none but
\* those whose reception failed, and always make room for the one to be pushed.
ItemsOwned == HeldItemsLive /\ LostOnlyWithRejected /\ RepushFits

\* What the application may expect of the output thread: results in order, none of
\* them stuck, and silence of the device noticed. (nullItem: the message thread has
\* popped from a queue the output thread had emptied, and dereferenced the result.)
ResultsServed == []HandledInOrder /\ QueuedLeaves /\ SilenceIsNoticed
=============================================================================
