----------------------------- MODULE HostInput -----------------------------
(***************************************************************************)
(* The input half of the host SDK: application threads hand image buffers  *)
(* to XeyeComputation::push_data_item, which keeps them in a bounded queue *)
(* (DlQueue) and, when that is full, throws the oldest away; the input     *)
(* thread (DlInputThread) takes them out, writes a SET_INPUT header and    *)
(* the pixels to the USB connector and frees them.                         *)
(*                                                                         *)
(* One step is one critical section of DlQueue, one free or one transfer,  *)
(* so every interleaving of the producers and the input thread is here.    *)
(* A buffer is named by a model value and is pushed at most once, as an    *)
(* application that allocates one per push does.                           *)
(***************************************************************************)
EXTENDS Naturals, Sequences, FiniteSets

CONSTANTS
  Producers,   \* application threads that call push_image
  Images,      \* pixel buffers, each allocated for one push_image
  Cap,         \* _max_queue_size of the input queue
  None         \* no image

ASSUME CapAssumption == Cap \in Nat \ {0}
ASSUME NoneAssumption == None \notin Images

VARIABLES
  mode,      \* xeye_mode of the configuration, set by Xeye::init for good
  heap,      \* heap[i]: "new" before malloc, "live" until free, then "freed"
  inq,       \* DlInputQueue
  prod,      \* prod[p]: where p is in push_data_item, its item, the one it popped
  raced,     \* raced[p]: a push of another thread succeeded since p's pop (history)
  admitted,  \* the images DlQueue::push accepted, in that order (history)
  returned,  \* images push_image gave back with an error
  sender,    \* the input thread
  wire,      \* what the input thread wrote to the OUT endpoint, in order
  owner      \* the thread in Xeye::uninit: "up", "joining", "down"

vars == <<mode, heap, inq, prod, raced, admitted, returned, sender, wire, owner>>

Idle == [pc |-> "idle", item |-> None, victim |-> None]
Running == owner = "up"

Init ==
  /\ mode \in {"computation", "standard"}
  /\ heap = [i \in Images |-> "new"]
  /\ inq = <<>>
  /\ prod = [p \in Producers |-> Idle]
  /\ raced = [p \in Producers |-> FALSE]
  /\ admitted = <<>>
  /\ returned = {}
  /\ sender = [pc |-> "loop", item |-> None]
  /\ wire = <<>>
  /\ owner = "up"

(***************************************************************************)
(* XeyeComputation::push_data_item, run by producer p                      *)
(***************************************************************************)
At(p, pc) == prod[p].pc = pc
FullOffByOne == Len(inq) > Cap            \* mutant: > for >=
Full == Len(inq) >= Cap

\* DlQueue::push: reports failure, and changes nothing, when the queue is full.
Enqueue(p) ==
  /\ ~Full
  /\ inq' = Append(inq, prod[p].item)
  /\ admitted' = Append(admitted, prod[p].item)
  /\ raced' = [q \in Producers |-> q # p]
  /\ prod' = [prod EXCEPT ![p] = Idle]

\* The application allocates and fills a buffer and calls push_image.
PushImage(p) ==
  /\ Running /\ At(p, "idle")
  /\ \E i \in Images :
       /\ heap[i] = "new"
       /\ heap' = [heap EXCEPT ![i] = "live"]
       /\ prod' = [prod EXCEPT ![p] = [pc |-> "push", item |-> i, victim |-> None]]
  /\ UNCHANGED <<mode, inq, raced, admitted, returned, sender, wire, owner>>

Push(p) ==
  /\ At(p, "push")
  /\ \/ Enqueue(p)
     \/ /\ Full
        /\ prod' = [prod EXCEPT ![p].pc = "pop"]
        /\ UNCHANGED <<inq, raced, admitted>>
  /\ UNCHANGED <<mode, heap, returned, sender, wire, owner>>

PopWithoutRemoving(p) ==                  \* mutant: front() without pop()
  /\ At(p, "pop") /\ inq # <<>>
  /\ prod' = [prod EXCEPT ![p].pc = "free", ![p].victim = Head(inq)]
  /\ raced' = [raced EXCEPT ![p] = FALSE]
  /\ UNCHANGED <<mode, heap, inq, admitted, returned, sender, wire, owner>>

PopSkipped(p) ==                          \* mutant: push again without making room
  /\ At(p, "pop")
  /\ prod' = [prod EXCEPT ![p].pc = "repush"]
  /\ raced' = [raced EXCEPT ![p] = FALSE]
  /\ UNCHANGED <<mode, heap, inq, admitted, returned, sender, wire, owner>>

\* The oldest item makes room. The input thread may have emptied the queue since
\* the push failed: then there is nothing to free.
PopOldest(p) ==
  /\ At(p, "pop")
  /\ raced' = [raced EXCEPT ![p] = FALSE]
  /\ \/ /\ inq # <<>>
        /\ inq' = Tail(inq)
        /\ prod' = [prod EXCEPT ![p].pc = "free", ![p].victim = Head(inq)]
     \/ /\ inq = <<>>
        /\ inq' = inq
        /\ prod' = [prod EXCEPT ![p].pc = "repush"]
  /\ UNCHANGED <<mode, heap, admitted, returned, sender, wire, owner>>

VictimNotFreed(p) ==                      \* mutant: the evicted item is dropped, not freed
  /\ At(p, "free")
  /\ prod' = [prod EXCEPT ![p].pc = "repush", ![p].victim = None]
  /\ UNCHANGED <<mode, heap, inq, raced, admitted, returned, sender, wire, owner>>

FreeVictim(p) ==
  /\ At(p, "free")
  /\ heap' = [heap EXCEPT ![prod[p].victim] = "freed"]
  /\ prod' = [prod EXCEPT ![p].pc = "repush", ![p].victim = None]
  /\ UNCHANGED <<mode, inq, raced, admitted, returned, sender, wire, owner>>

\* The second push is not retried: its result is push_image's.
Repush(p) ==
  /\ At(p, "repush")
  /\ \/ Enqueue(p) /\ UNCHANGED returned
     \/ /\ Full
        /\ returned' = returned \union {prod[p].item}
        /\ prod' = [prod EXCEPT ![p] = Idle]
        /\ UNCHANGED <<inq, raced, admitted>>
  /\ UNCHANGED <<mode, heap, sender, wire, owner>>

(***************************************************************************)
(* DlInputThread::s_thread_func                                            *)
(***************************************************************************)
SenderAt(pc) == sender.pc = pc

TakeNewest ==                             \* mutant: back() for front()
  /\ mode = "computation" /\ Running /\ SenderAt("loop") /\ inq # <<>>
  /\ sender' = [pc |-> "header", item |-> inq[Len(inq)]]
  /\ inq' = SubSeq(inq, 1, Len(inq) - 1)
  /\ UNCHANGED <<mode, heap, prod, raced, admitted, returned, wire, owner>>

LeaveOnlyWithWork ==                      \* mutant: the flag is read only after a pop
  /\ ~Running /\ SenderAt("loop") /\ inq # <<>>
  /\ sender' = [sender EXCEPT !.pc = "exited"]
  /\ UNCHANGED <<mode, heap, inq, prod, raced, admitted, returned, wire, owner>>

\* while (_s_running): take the next item, or poll again in 10 ms. In standard mode the
\* thread only sleeps: what push_image admits stays in the queue.
TakeNext ==
  /\ mode = "computation" /\ Running /\ SenderAt("loop") /\ inq # <<>>
  /\ sender' = [pc |-> "header", item |-> Head(inq)]
  /\ inq' = Tail(inq)
  /\ UNCHANGED <<mode, heap, prod, raced, admitted, returned, wire, owner>>

LeaveLoop ==
  /\ ~Running /\ SenderAt("loop")
  /\ sender' = [sender EXCEPT !.pc = "exited"]
  /\ UNCHANGED <<mode, heap, inq, prod, raced, admitted, returned, wire, owner>>

Write(part) == wire' = Append(wire, [part |-> part, image |-> sender.item])

FailedSendLeavesThread ==                 \* mutant: return for break on a failed send
  /\ SenderAt("header")
  /\ \/ Write("header") /\ sender' = [sender EXCEPT !.pc = "pixels"]
     \/ UNCHANGED wire /\ sender' = [pc |-> "exited", item |-> None]
  /\ UNCHANGED <<mode, heap, inq, prod, raced, admitted, returned, owner>>

\* A failed malloc or a failed transfer skips the rest of the frame.
SendHeader ==
  /\ SenderAt("header")
  /\ \/ Write("header") /\ sender' = [sender EXCEPT !.pc = "pixels"]
     \/ UNCHANGED wire /\ sender' = [sender EXCEPT !.pc = "free"]
  /\ UNCHANGED <<mode, heap, inq, prod, raced, admitted, returned, owner>>

SendPixels ==
  /\ SenderAt("pixels")
  /\ Write("pixels") \/ UNCHANGED wire
  /\ sender' = [sender EXCEPT !.pc = "free"]
  /\ UNCHANGED <<mode, heap, inq, prod, raced, admitted, returned, owner>>

FreeSent ==
  /\ SenderAt("free")
  /\ heap' = [heap EXCEPT ![sender.item] = "freed"]
  /\ sender' = [pc |-> "loop", item |-> None]
  /\ UNCHANGED <<mode, inq, prod, raced, admitted, returned, wire, owner>>

(***************************************************************************)
(* Xeye::uninit: DlInputThread::stop clears the flag and joins the thread, *)
(* then the queue is deleted, with whatever it still holds. No thread may  *)
(* be inside push_image by then.                                           *)
(***************************************************************************)
StopInputThread ==
  /\ Running /\ \A p \in Producers : At(p, "idle")
  /\ owner' = "joining"
  /\ UNCHANGED <<mode, heap, inq, prod, raced, admitted, returned, sender, wire>>

JoinAndDelete ==
  /\ owner = "joining" /\ SenderAt("exited")
  /\ owner' = "down"
  /\ inq' = <<>>
  /\ UNCHANGED <<mode, heap, prod, raced, admitted, returned, sender, wire>>

-----------------------------------------------------------------------------
ProducerStep(p) ==
  PushImage(p) \/ Push(p) \/ PopOldest(p) \/ FreeVictim(p) \/ Repush(p)
SenderStep == TakeNext \/ LeaveLoop \/ SendHeader \/ SendPixels \/ FreeSent
OwnerStep == StopInputThread \/ JoinAndDelete

Next == (\E p \in Producers : ProducerStep(p)) \/ SenderStep \/ OwnerStep

Spec == Init /\ [][Next]_vars

\* Threads are scheduled and the device keeps accepting transfers; the application
\* owes no further push and need never call uninit.
Fairness ==
  /\ WF_vars(SenderStep)
  /\ WF_vars(JoinAndDelete)
  /\ \A p \in Producers :
       WF_vars(Push(p) \/ PopOldest(p) \/ FreeVictim(p) \/ Repush(p))

FairSpec == Spec /\ Fairness
-----------------------------------------------------------------------------
QueueOK ==
  /\ inq \in Seq(Images) /\ admitted \in Seq(Images)
  /\ Len(inq) <= Cap

\* A producer has an item exactly while it is inside push_image, and a victim exactly
\* between the pop and the free.
ProducerState ==
  {r \in [pc : {"idle", "push", "pop", "free", "repush"},
          item : Images \union {None}, victim : Images \union {None}] :
     /\ r.pc = "idle" <=> r.item = None
     /\ r.pc = "free" <=> r.victim # None}

ProducersOK ==
  /\ prod \in [Producers -> ProducerState]
  /\ raced \in [Producers -> BOOLEAN]

SenderOK ==
  /\ sender \in [pc : {"loop", "header", "pixels", "free", "exited"},
                 item : Images \union {None}]
  /\ sender.pc \in {"loop", "exited"} <=> sender.item = None
  /\ wire \in Seq([part : {"header", "pixels"}, image : Images])

\* The queue never exceeds its size, a thread holds an item exactly while it works on
\* one, and every variable stays in its range.
TypeOK ==
  /\ heap \in [Images -> {"new", "live", "freed"}]
  /\ returned \in SUBSET Images
  /\ owner \in {"up", "joining", "down"}
  /\ mode \in {"computation", "standard"}
  /\ QueueOK
  /\ ProducersOK
  /\ SenderOK

Pushed(i) == \E p \in Producers : prod[p].item = i
Evicted(i) == \E p \in Producers : prod[p].victim = i
Queued(i) == \E k \in DOMAIN inq : inq[k] = i
InSender(i) == sender.item = i
Held(i) == Pushed(i) \/ Evicted(i) \/ Queued(i) \/ InSender(i)

OneItem == \A i \in Images : \A p, q \in Producers :
             prod[p].item = i /\ prod[q].item = i => p = q
OneVictim == \A i \in Images : \A p, q \in Producers :
               prod[p].victim = i /\ prod[q].victim = i => p = q
OneSlot == \A j, k \in DOMAIN inq : inq[j] = inq[k] => j = k
OneRole == \A i \in Images :
  /\ ~(Pushed(i) /\ Evicted(i)) /\ ~(Pushed(i) /\ Queued(i))
  /\ ~(Pushed(i) /\ InSender(i)) /\ ~(Evicted(i) /\ Queued(i))
  /\ ~(Evicted(i) /\ InSender(i)) /\ ~(Queued(i) /\ InSender(i))
HeldIsLive == \A i \in Images : Held(i) => heap[i] = "live"

\* No buffer is reachable from two places at once, and none that was freed is
\* reachable at all: the raw pointers XeyeDataItem copies about are never freed
\* twice or sent after free, however producers and the input thread interleave.
OwnedOnce == OneItem /\ OneVictim /\ OneSlot /\ OneRole /\ HeldIsLive

\* A buffer leaks only in the two ways the code leaves to its caller: push_image
\* returned an error, or uninit deleted a queue that was not empty.
NoLeak ==
  \A i \in Images :
    heap[i] = "live" => Held(i) \/ i \in returned \/ owner = "down"

\* push_image fails only when another thread refilled the queue between this
\* thread's pop and its second push; with a single producer it never fails.
RejectOnlyIfRaced ==
  \A p \in Producers : At(p, "repush") /\ Full => raced[p]

\* Headers reach the wire in the order the queue admitted the images: eviction and
\* failed transfers leave gaps, never a swap, and no image is announced twice.
HeadersInPushOrder ==
  \A m, n \in DOMAIN wire :
    m < n /\ wire[m].part = "header" /\ wire[n].part = "header" =>
      \E j, k \in DOMAIN admitted :
        j < k /\ admitted[j] = wire[m].image /\ admitted[k] = wire[n].image

\* In computation mode nothing stays in the queue while transfers complete: every
\* admitted image is sent, evicted, or given up by uninit. (In standard mode
\* push_image admits images too, and the thread takes none: dl_input_thread.cpp:92.)
AdmittedLeaves ==
  mode = "computation" => \A i \in Images : Queued(i) ~> ~Queued(i)

\* DlInputThread::stop returns: the join waits for one frame at most.
StopReturns == owner = "joining" ~> owner = "down"

\* What push_image promises of an image it took: it is announced in its turn, in
\* computation mode it does not stay in the queue, and in neither mode does it keep the
\* SDK from shutting down.
ImagesServed == []HeadersInPushOrder /\ AdmittedLeaves /\ StopReturns
=============================================================================
