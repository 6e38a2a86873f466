-------------------------- MODULE HostInput_proofs --------------------------
(***************************************************************************)
(* Type correctness and memory safety of the input half of the host SDK,   *)
(* for any number of producers and images and any queue size.              *)
(***************************************************************************)
EXTENDS HostInput, SequenceTheorems, TLAPS

\* What holds between a producer's pop and its second push: the slot it made is
\* still free, or another thread took it.
RoomOrRaced ==
  \A p \in Producers : (At(p, "free") \/ At(p, "repush")) /\ Full => raced[p]

-----------------------------------------------------------------------------
\* A producer's record as a member of ProducerState, field by field.
LEMMA ProducerFields ==
  ASSUME NEW r, ProducersOK, NEW p \in Producers, r = prod[p]
  PROVE  /\ r \in ProducerState
         /\ r = [pc |-> r.pc, item |-> r.item, victim |-> r.victim]
         /\ r.pc \in {"idle", "push", "pop", "free", "repush"}
         /\ r.pc # "idle" => r.item \in Images
         /\ r.pc = "idle" => r.item = None
         /\ r.pc = "free" => r.victim \in Images
         /\ r.pc # "free" => r.victim = None
BY DEF ProducersOK, ProducerState

LEMMA ProducerStates ==
  /\ Idle \in ProducerState
  /\ \A i \in Images :
       /\ [pc |-> "push", item |-> i, victim |-> None] \in ProducerState
       /\ [pc |-> "pop", item |-> i, victim |-> None] \in ProducerState
       /\ [pc |-> "repush", item |-> i, victim |-> None] \in ProducerState
       /\ \A v \in Images : [pc |-> "free", item |-> i, victim |-> v] \in ProducerState
BY NoneAssumption DEF Idle, ProducerState

\* DlQueue::push keeps the queue within its size and puts the item last.
LEMMA EnqueueStep ==
  ASSUME TypeOK, NEW p \in Producers, prod[p].pc # "idle", Enqueue(p)
  PROVE  /\ prod[p].item \in Images
         /\ QueueOK' /\ ProducersOK'
<1> USE CapAssumption, NoneAssumption
<1>1. prod[p].item \in Images
  BY ProducerFields DEF TypeOK
<1>2. ProducersOK'
  BY ProducerStates DEF TypeOK, ProducersOK, Enqueue
<1>3. QueueOK'
  BY <1>1 DEF TypeOK, QueueOK, Enqueue, Full
<1>4. QED
  BY <1>1, <1>2, <1>3

\* Taking the head of a non-empty queue.
LEMMA DequeueStep ==
  ASSUME QueueOK, inq # <<>>, inq' = Tail(inq), admitted' = admitted
  PROVE  /\ Head(inq) \in Images /\ Head(inq) = inq[1] /\ 1 \in DOMAIN inq
         /\ QueueOK'
         /\ Len(inq') = Len(inq) - 1
         /\ Len(inq) \in Nat
         /\ \A k \in DOMAIN inq' : k + 1 \in DOMAIN inq /\ inq'[k] = inq[k + 1]
<1>1. Head(inq) \in Images /\ Tail(inq) \in Seq(Images) /\ Len(Tail(inq)) = Len(inq) - 1
  BY HeadTailProperties DEF QueueOK
<1>2. QED
  BY <1>1, CapAssumption DEF QueueOK

-----------------------------------------------------------------------------
LEMMA InitType == Init => TypeOK
BY CapAssumption, NoneAssumption, ProducerStates
   DEF Init, TypeOK, QueueOK, ProducersOK, SenderOK

LEMMA StepType == TypeOK /\ [Next]_vars => TypeOK'
<1> USE CapAssumption, NoneAssumption
<1> SUFFICES ASSUME TypeOK, [Next]_vars PROVE TypeOK'
  OBVIOUS
<1> USE DEF At, SenderAt
<1>1. ASSUME NEW p \in Producers, PushImage(p) PROVE TypeOK'
  <2>1. PICK i \in Images :
          /\ heap' = [heap EXCEPT ![i] = "live"]
          /\ prod' = [prod EXCEPT ![p] = [pc |-> "push", item |-> i, victim |-> None]]
    BY <1>1 DEF PushImage
  <2>2. ProducersOK'
    BY <1>1, <2>1, ProducerStates DEF PushImage, TypeOK, ProducersOK
  <2>3. QED
    BY <1>1, <2>1, <2>2 DEF PushImage, TypeOK, QueueOK, SenderOK
<1>2. ASSUME NEW p \in Producers, Push(p) PROVE TypeOK'
  <2>1. CASE Enqueue(p)
    BY <1>2, <2>1, EnqueueStep DEF Push, TypeOK, SenderOK
  <2>2. CASE prod' = [prod EXCEPT ![p].pc = "pop"] /\ UNCHANGED <<inq, raced, admitted>>
    <3>1. prod[p] = [pc |-> "push", item |-> prod[p].item, victim |-> None]
          /\ prod[p].item \in Images
      BY <1>2, ProducerFields DEF Push, TypeOK
    <3>2. [prod[p] EXCEPT !.pc = "pop"] = [pc |-> "pop", item |-> prod[p].item, victim |-> None]
      BY <3>1
    <3>3. ProducersOK'
      BY <2>2, <3>1, <3>2, ProducerStates DEF TypeOK, ProducersOK
    <3>4. QED
      BY <1>2, <2>2, <3>3 DEF Push, TypeOK, QueueOK, SenderOK
  <2>3. QED
    BY <1>2, <2>1, <2>2 DEF Push
<1>3. ASSUME NEW p \in Producers, PopOldest(p) PROVE TypeOK'
  <2>0. prod[p] = [pc |-> "pop", item |-> prod[p].item, victim |-> None]
        /\ prod[p].item \in Images
    BY <1>3, ProducerFields DEF PopOldest, TypeOK
  <2>1. QueueOK' /\ (inq # <<>> => Head(inq) \in Images)
    BY <1>3, DequeueStep DEF PopOldest, TypeOK, QueueOK
  <2>2. ProducersOK'
    <3>1. CASE inq # <<>> /\ prod' = [prod EXCEPT ![p].pc = "free", ![p].victim = Head(inq)]
      <4>1. prod'[p] = [pc |-> "free", item |-> prod[p].item, victim |-> Head(inq)]
        BY <2>0, <3>1 DEF TypeOK, ProducersOK
      <4>2. \A q \in Producers : prod'[q] \in ProducerState
        BY <2>0, <2>1, <3>1, <4>1, ProducerStates DEF TypeOK, ProducersOK
      <4>3. QED
        BY <1>3, <3>1, <4>2 DEF PopOldest, TypeOK, ProducersOK
    <3>2. CASE prod' = [prod EXCEPT ![p].pc = "repush"]
      <4>1. prod'[p] = [pc |-> "repush", item |-> prod[p].item, victim |-> None]
        BY <2>0, <3>2 DEF TypeOK, ProducersOK
      <4>2. \A q \in Producers : prod'[q] \in ProducerState
        BY <2>0, <3>2, <4>1, ProducerStates DEF TypeOK, ProducersOK
      <4>3. QED
        BY <1>3, <3>2, <4>2 DEF PopOldest, TypeOK, ProducersOK
    <3>3. QED
      BY <1>3, <3>1, <3>2 DEF PopOldest
  <2>3. QED
    BY <1>3, <2>1, <2>2 DEF PopOldest, TypeOK, SenderOK
<1>4. ASSUME NEW p \in Producers, FreeVictim(p) PROVE TypeOK'
  <2>1. prod[p] = [pc |-> "free", item |-> prod[p].item, victim |-> prod[p].victim]
        /\ prod[p].item \in Images /\ prod[p].victim \in Images
    BY <1>4, ProducerFields DEF FreeVictim, TypeOK
  <2>2. prod'[p] = [pc |-> "repush", item |-> prod[p].item, victim |-> None]
    BY <1>4, <2>1 DEF FreeVictim, TypeOK, ProducersOK
  <2>3. ProducersOK'
    <3>1. \A q \in Producers : prod'[q] \in ProducerState
      BY <1>4, <2>1, <2>2, ProducerStates DEF FreeVictim, TypeOK, ProducersOK
    <3>2. QED
      BY <1>4, <3>1 DEF FreeVictim, TypeOK, ProducersOK
  <2>4. QED
    BY <1>4, <2>3 DEF FreeVictim, TypeOK, QueueOK, SenderOK
<1>5. ASSUME NEW p \in Producers, Repush(p) PROVE TypeOK'
  <2>0. prod[p].pc = "repush" /\ prod[p].item \in Images
    BY <1>5, ProducerFields DEF Repush, TypeOK
  <2>1. CASE Enqueue(p)
    BY <1>5, <2>0, <2>1, EnqueueStep DEF Repush, TypeOK, SenderOK
  <2>2. CASE /\ returned' = returned \union {prod[p].item}
             /\ prod' = [prod EXCEPT ![p] = Idle]
             /\ UNCHANGED <<inq, raced, admitted>>
    BY <1>5, <2>0, <2>2, ProducerStates
       DEF Repush, TypeOK, QueueOK, ProducersOK, SenderOK
  <2>3. QED
    BY <1>5, <2>1, <2>2 DEF Repush
<1>6. CASE TakeNext
  BY <1>6, DequeueStep DEF TakeNext, TypeOK, ProducersOK, SenderOK
<1>7. CASE LeaveLoop
  BY <1>7 DEF LeaveLoop, TypeOK, QueueOK, ProducersOK, SenderOK
<1>8. ASSUME NEW part \in {"header", "pixels"}, sender.item \in Images
      PROVE  Write(part) => wire' \in Seq([part : {"header", "pixels"}, image : Images])
  <2>1. [part |-> part, image |-> sender.item] \in [part : {"header", "pixels"}, image : Images]
    BY <1>8
  <2>2. QED
    BY <2>1, AppendProperties DEF Write, TypeOK, SenderOK
<1>9. CASE SendHeader \/ SendPixels
  <2>1. sender.item \in Images /\ sender.pc \in {"header", "pixels"}
    BY <1>9 DEF SendHeader, SendPixels, TypeOK, SenderOK
  <2>2. wire' \in Seq([part : {"header", "pixels"}, image : Images])
    BY <1>8, <1>9, <2>1 DEF SendHeader, SendPixels, TypeOK, SenderOK
  <2>3. sender' \in [pc : {"loop", "header", "pixels", "free", "exited"},
                     item : Images \union {None}]
        /\ sender'.pc \notin {"loop", "exited"} /\ sender'.item \in Images
    BY <1>9, <2>1 DEF SendHeader, SendPixels, TypeOK, SenderOK
  <2>4. SenderOK'
    BY <2>2, <2>3 DEF SenderOK
  <2>5. QED
    BY <1>9, <2>4 DEF SendHeader, SendPixels, TypeOK, QueueOK, ProducersOK
<1>10. CASE FreeSent
  BY <1>10 DEF FreeSent, TypeOK, QueueOK, ProducersOK, SenderOK
<1>11. CASE StopInputThread
  BY <1>11 DEF StopInputThread, TypeOK, QueueOK, ProducersOK, SenderOK
<1>12. CASE JoinAndDelete
  BY <1>12 DEF JoinAndDelete, TypeOK, QueueOK, ProducersOK, SenderOK
<1>13. CASE UNCHANGED vars
  BY <1>13 DEF vars, TypeOK, QueueOK, ProducersOK, SenderOK
<1>14. QED
  BY <1>1, <1>2, <1>3, <1>4, <1>5, <1>6, <1>7, <1>8, <1>9, <1>10, <1>11, <1>12,
     <1>13 DEF Next, ProducerStep, SenderStep, OwnerStep

\* The queue never exceeds its size, a thread holds an item exactly while it works on
\* one, and every variable stays in its range.
THEOREM TypeCorrect == Spec => []TypeOK
BY InitType, StepType, PTL DEF Spec

-----------------------------------------------------------------------------
\* Between its pop and its second push a producer has the slot it made, unless
\* another thread's push succeeded meanwhile.
LEMMA RoomStep == TypeOK /\ RoomOrRaced /\ [Next]_vars => RoomOrRaced'
<1> USE CapAssumption DEF RoomOrRaced, At, Full
<1> SUFFICES ASSUME TypeOK, RoomOrRaced, [Next]_vars,
                    NEW q \in Producers,
                    prod'[q].pc \in {"free", "repush"}, Len(inq') >= Cap
             PROVE  raced'[q]
  OBVIOUS
<1>0. QueueOK /\ prod \in [Producers -> ProducerState] /\ Len(inq) \in Nat
  BY DEF TypeOK, QueueOK, ProducersOK
<1>1. ASSUME NEW p \in Producers, PushImage(p) PROVE raced'[q]
  BY <1>0, <1>1 DEF PushImage
<1>2. ASSUME NEW p \in Producers, Enqueue(p) PROVE raced'[q]
  BY <1>0, <1>2 DEF Enqueue, Idle
<1>3. ASSUME NEW p \in Producers, Push(p) PROVE raced'[q]
  <2>1. CASE prod' = [prod EXCEPT ![p].pc = "pop"] /\ UNCHANGED <<inq, raced, admitted>>
    BY <1>0, <2>1
  <2>2. QED
    BY <1>2, <1>3, <2>1 DEF Push
<1>4. ASSUME NEW p \in Producers, PopOldest(p) PROVE raced'[q]
  <2>1. Len(inq') <= Len(inq) /\ Len(inq') < Cap
    BY <1>0, <1>4, DequeueStep DEF PopOldest, QueueOK
  <2>2. QED
    BY <1>0, <2>1
<1>5. ASSUME NEW p \in Producers, FreeVictim(p) PROVE raced'[q]
  BY <1>0, <1>5 DEF FreeVictim
<1>6. ASSUME NEW p \in Producers, Repush(p) PROVE raced'[q]
  BY <1>0, <1>2, <1>6 DEF Repush, Idle
<1>7. CASE TakeNext
  BY <1>0, <1>7, DequeueStep DEF TakeNext
<1>8. CASE LeaveLoop \/ SendHeader \/ SendPixels \/ FreeSent \/ StopInputThread
  BY <1>8 DEF LeaveLoop, SendHeader, SendPixels, FreeSent, StopInputThread
<1>9. CASE JoinAndDelete
  BY <1>9 DEF JoinAndDelete
<1>10. CASE UNCHANGED vars
  BY <1>10 DEF vars
<1>11. QED
  BY <1>1, <1>3, <1>4, <1>5, <1>6, <1>7, <1>8, <1>9, <1>10
     DEF Next, ProducerStep, SenderStep, OwnerStep

\* push_image fails only when another thread refilled the queue between this
\* thread's pop and its second push; with a single producer it never fails.
THEOREM RejectsOnlyRaces == Spec => []RejectOnlyIfRaced
<1>1. Init => RoomOrRaced
  BY DEF Init, RoomOrRaced, At, Idle
<1>2. RoomOrRaced => RejectOnlyIfRaced
  BY DEF RoomOrRaced, RejectOnlyIfRaced
<1>3. QED
  BY <1>1, <1>2, InitType, StepType, RoomStep, PTL DEF Spec

-----------------------------------------------------------------------------
\* The images in the queue after a pop and after a push.
LEMMA QueueAfterPop ==
  ASSUME QueueOK, OneSlot, inq # <<>>, inq' = Tail(inq), admitted' = admitted
  PROVE  OneSlot' /\ Queued(Head(inq))
         /\ \A i \in Images : Queued(i)' <=> Queued(i) /\ i # Head(inq)
<1>1. /\ \A k \in DOMAIN inq' : k + 1 \in DOMAIN inq /\ inq'[k] = inq[k + 1]
      /\ Len(inq') = Len(inq) - 1 /\ Len(inq) \in Nat
      /\ Head(inq) = inq[1] /\ 1 \in DOMAIN inq
      /\ inq \in Seq(Images) /\ inq' \in Seq(Images)
  BY DequeueStep DEF QueueOK
<1>2. DOMAIN inq = 1..Len(inq) /\ DOMAIN inq' = 1..(Len(inq) - 1)
  BY <1>1
<1>3. OneSlot'
  BY <1>1, <1>2 DEF OneSlot
<1>4. ASSUME NEW i \in Images PROVE Queued(i)' <=> Queued(i) /\ i # Head(inq)
  <2>1. ASSUME Queued(i)' PROVE Queued(i) /\ i # Head(inq)
    <3>1. PICK k \in DOMAIN inq' : inq'[k] = i
      BY <2>1 DEF Queued
    <3>2. k + 1 \in DOMAIN inq /\ inq[k + 1] = i /\ k + 1 # 1
      BY <1>1, <1>2, <3>1
    <3>3. QED
      BY <1>1, <3>2 DEF Queued, OneSlot
  <2>2. ASSUME Queued(i), i # Head(inq) PROVE Queued(i)'
    <3>1. PICK k \in DOMAIN inq : inq[k] = i
      BY <2>2 DEF Queued
    <3>2. k - 1 \in DOMAIN inq' /\ (k - 1) + 1 = k
      BY <1>1, <1>2, <2>2, <3>1
    <3>3. inq'[k - 1] = i
      BY <1>1, <3>1, <3>2
    <3>4. QED
      BY <3>2, <3>3 DEF Queued
  <2>3. QED
    BY <2>1, <2>2
<1>5. Queued(Head(inq))
  BY <1>1 DEF Queued
<1>6. QED
  BY <1>3, <1>4, <1>5

LEMMA QueueAfterPush ==
  ASSUME QueueOK, OneSlot, NEW x \in Images, ~Queued(x), inq' = Append(inq, x)
  PROVE  OneSlot' /\ \A i \in Images : Queued(i)' <=> Queued(i) \/ i = x
<1>1. /\ Len(inq) \in Nat /\ DOMAIN inq = 1..Len(inq)
      /\ DOMAIN inq' = 1..(Len(inq) + 1)
      /\ \A k \in 1..Len(inq) : inq'[k] = inq[k]
      /\ inq'[Len(inq) + 1] = x
  BY DEF QueueOK
<1>2. OneSlot'
  BY <1>1 DEF OneSlot, Queued
<1>3. ASSUME NEW i \in Images PROVE Queued(i)' <=> Queued(i) \/ i = x
  <2>1. Queued(i)' => Queued(i) \/ i = x
    BY <1>1 DEF Queued
  <2>2. Queued(i) => Queued(i)'
    BY <1>1 DEF Queued
  <2>3. i = x => Queued(i)'
    <3>1. Len(inq) + 1 \in DOMAIN inq'
      BY <1>1
    <3>2. QED
      BY <1>1, <3>1 DEF Queued
  <2>4. QED
    BY <2>1, <2>2, <2>3
<1>4. QED
  BY <1>2, <1>3

\* An image pushed into the queue: it leaves the producer's hands.
LEMMA OwnedAfterEnqueue ==
  ASSUME TypeOK, OwnedOnce, NEW p \in Producers, prod[p].pc # "idle", prod[p].pc # "free",
         Enqueue(p), UNCHANGED <<heap, sender>>
  PROVE  OwnedOnce' /\ \A i \in Images : Held(i) => Held(i)'
<1>1. prod[p].item \in Images /\ prod[p].victim = None
  BY ProducerFields DEF TypeOK
<1>2. Pushed(prod[p].item)
  BY DEF Pushed
<1>3. ~Queued(prod[p].item)
  BY <1>1, <1>2 DEF OwnedOnce, OneRole
<1>4. OneSlot' /\ \A i \in Images : Queued(i)' <=> Queued(i) \/ i = prod[p].item
  BY <1>1, <1>3, QueueAfterPush DEF Enqueue, TypeOK, OwnedOnce
<1>5. \A q \in Producers :
        /\ prod'[q].victim = prod[q].victim
        /\ prod'[q].item = IF q = p THEN None ELSE prod[q].item
  BY <1>1 DEF Enqueue, Idle, TypeOK, ProducersOK
<1>6. \A i \in Images : Pushed(i)' <=> Pushed(i) /\ i # prod[p].item
  BY <1>1, <1>5, NoneAssumption DEF Pushed, OwnedOnce, OneItem
<1>7. \A i \in Images : Evicted(i)' <=> Evicted(i)
  BY <1>5 DEF Evicted
<1>8. \A i \in Images : InSender(i)' <=> InSender(i)
  BY DEF InSender
<1>9. OneItem' /\ OneVictim'
  BY <1>5, NoneAssumption DEF OwnedOnce, OneItem, OneVictim
<1>10. OneRole'
  BY <1>2, <1>4, <1>6, <1>7, <1>8 DEF OwnedOnce, OneRole
<1>11. HeldIsLive'
  BY <1>2, <1>4, <1>6, <1>7, <1>8 DEF OwnedOnce, HeldIsLive, Held
<1>12. \A i \in Images : Held(i) => Held(i)'
  BY <1>4, <1>6, <1>7, <1>8 DEF Held
<1>13. QED
  BY <1>4, <1>9, <1>10, <1>11, <1>12 DEF OwnedOnce

LEMMA OwnedInit == Init => OwnedOnce
BY NoneAssumption DEF Init, OwnedOnce, OneItem, OneVictim, OneSlot, OneRole, HeldIsLive,
     Held, Pushed, Evicted, Queued, InSender, Idle

\* A step that moves no pointer and frees nothing.
LEMMA OwnedUnmoved ==
  ASSUME OwnedOnce, UNCHANGED <<heap, inq, sender>>,
         \A q \in Producers :
           prod'[q].item = prod[q].item /\ prod'[q].victim = prod[q].victim
  PROVE  OwnedOnce' /\ \A i \in Images : Held(i) => Held(i)'
<1>1. \A i \in Images : /\ Pushed(i)' <=> Pushed(i)
                        /\ Evicted(i)' <=> Evicted(i)
                        /\ Queued(i)' <=> Queued(i)
                        /\ InSender(i)' <=> InSender(i)
  BY DEF Pushed, Evicted, Queued, InSender
<1>2. OneItem' /\ OneVictim' /\ OneSlot'
  BY DEF OwnedOnce, OneItem, OneVictim, OneSlot
<1>3. OneRole'
  BY <1>1 DEF OwnedOnce, OneRole
<1>4. HeldIsLive'
  BY <1>1 DEF OwnedOnce, HeldIsLive, Held
<1>5. QED
  BY <1>1, <1>2, <1>3, <1>4 DEF OwnedOnce, Held

LEMMA OwnedStep ==
  TypeOK /\ OwnedOnce /\ NoLeak /\ [Next]_vars => OwnedOnce' /\ NoLeak'
<1> SUFFICES ASSUME TypeOK, OwnedOnce, NoLeak, [Next]_vars PROVE OwnedOnce' /\ NoLeak'
  OBVIOUS
<1> USE NoneAssumption
<1>0. heap \in [Images -> {"new", "live", "freed"}] /\ prod \in [Producers -> ProducerState]
  BY DEF TypeOK, ProducersOK
\* A new buffer goes to one producer.
<1>1. ASSUME NEW p \in Producers, PushImage(p) PROVE OwnedOnce' /\ NoLeak'
  <2>1. PICK x \in Images :
          /\ heap[x] = "new" /\ heap' = [heap EXCEPT ![x] = "live"]
          /\ prod' = [prod EXCEPT ![p] = [pc |-> "push", item |-> x, victim |-> None]]
    BY <1>1 DEF PushImage
  <2>2. prod[p].item = None /\ prod[p].victim = None /\ UNCHANGED <<inq, returned, sender, owner>>
    BY <1>1, ProducerFields DEF PushImage, At, TypeOK
  <2>3. ~Held(x)
    BY <2>1 DEF OwnedOnce, HeldIsLive
  <2>4. \A q \in Producers : /\ prod'[q].victim = prod[q].victim
                             /\ prod'[q].item = IF q = p THEN x ELSE prod[q].item
    BY <1>0, <2>1, <2>2
  <2>5. \A i \in Images : /\ Pushed(i)' <=> Pushed(i) \/ i = x
                          /\ Evicted(i)' <=> Evicted(i)
                          /\ Queued(i)' <=> Queued(i)
                          /\ InSender(i)' <=> InSender(i)
    BY <2>2, <2>4 DEF Pushed, Evicted, Queued, InSender
  <2>6. OneItem' /\ OneVictim' /\ OneSlot'
    BY <2>2, <2>3, <2>4 DEF OwnedOnce, OneItem, OneVictim, OneSlot, Held, Pushed
  <2>7. OneRole'
    BY <2>3, <2>5 DEF OwnedOnce, OneRole, Held
  <2>8. HeldIsLive'
    BY <1>0, <2>1, <2>5 DEF OwnedOnce, HeldIsLive, Held
  <2>9. NoLeak'
    BY <1>0, <2>1, <2>2, <2>5 DEF NoLeak, Held
  <2>10. QED
    BY <2>6, <2>7, <2>8, <2>9 DEF OwnedOnce
<1>2. ASSUME NEW p \in Producers, Push(p) PROVE OwnedOnce' /\ NoLeak'
  <2>1. UNCHANGED <<heap, returned, sender, owner>> /\ prod[p].pc = "push"
    BY <1>2 DEF Push, At
  <2>2. OwnedOnce' /\ \A i \in Images : Held(i) => Held(i)'
    <3>1. CASE Enqueue(p)
      BY <2>1, <3>1, OwnedAfterEnqueue
    <3>2. CASE prod' = [prod EXCEPT ![p].pc = "pop"] /\ UNCHANGED <<inq, raced, admitted>>
      BY <1>0, <2>1, <3>2, OwnedUnmoved DEF ProducerState
    <3>3. QED
      BY <1>2, <3>1, <3>2 DEF Push
  <2>3. QED
    BY <2>1, <2>2 DEF NoLeak
\* The oldest image moves from the queue to the producer that will free it.
<1>3. ASSUME NEW p \in Producers, PopOldest(p) PROVE OwnedOnce' /\ NoLeak'
  <2>1. UNCHANGED <<heap, admitted, returned, sender, owner>> /\ prod[p].victim = None
        /\ prod[p].pc = "pop"
    BY <1>3, ProducerFields DEF PopOldest, At, TypeOK
  <2>2. CASE /\ inq # <<>> /\ inq' = Tail(inq)
             /\ prod' = [prod EXCEPT ![p].pc = "free", ![p].victim = Head(inq)]
    <3>0. Head(inq) \in Images
      BY <2>1, <2>2, DequeueStep DEF TypeOK
    <3>1. OneSlot' /\ Queued(Head(inq))
          /\ \A i \in Images : Queued(i)' <=> Queued(i) /\ i # Head(inq)
      BY <2>1, <2>2, QueueAfterPop DEF TypeOK, OwnedOnce
    <3>2. \A q \in Producers :
            /\ prod'[q].item = prod[q].item
            /\ prod'[q].victim = IF q = p THEN Head(inq) ELSE prod[q].victim
      BY <1>0, <2>2 DEF ProducerState
    <3>3. \A i \in Images : /\ Pushed(i)' <=> Pushed(i)
                            /\ Evicted(i)' <=> Evicted(i) \/ i = Head(inq)
                            /\ InSender(i)' <=> InSender(i)
      BY <2>1, <3>2 DEF Pushed, Evicted, InSender
    <3>4. OneItem' /\ OneVictim'
      BY <3>0, <3>1, <3>2 DEF OwnedOnce, OneItem, OneVictim, OneRole, Evicted
    <3>5. OneRole'
      BY <3>0, <3>1, <3>3 DEF OwnedOnce, OneRole
    <3>6. HeldIsLive'
      BY <2>1, <3>0, <3>1, <3>3 DEF OwnedOnce, HeldIsLive, Held
    <3>7. NoLeak'
      BY <2>1, <3>1, <3>3 DEF NoLeak, Held
    <3>8. QED
      BY <3>1, <3>4, <3>5, <3>6, <3>7 DEF OwnedOnce
  <2>3. CASE inq' = inq /\ prod' = [prod EXCEPT ![p].pc = "repush"]
    <3>1. OwnedOnce' /\ \A i \in Images : Held(i) => Held(i)'
      BY <1>0, <2>1, <2>3, OwnedUnmoved DEF ProducerState
    <3>2. QED
      BY <2>1, <3>1 DEF NoLeak
  <2>4. QED
    BY <1>3, <2>2, <2>3 DEF PopOldest
<1>4. ASSUME NEW p \in Producers, FreeVictim(p) PROVE OwnedOnce' /\ NoLeak'
  <2>1. PICK v \in Images : v = prod[p].victim /\ Evicted(v)
    BY <1>4, ProducerFields DEF FreeVictim, At, TypeOK, Evicted
  <2>2. heap' = [heap EXCEPT ![v] = "freed"] /\ UNCHANGED <<inq, returned, sender, owner>>
    BY <1>4, <2>1 DEF FreeVictim
  <2>3. \A q \in Producers : /\ prod'[q].item = prod[q].item
                             /\ prod'[q].victim = IF q = p THEN None ELSE prod[q].victim
    BY <1>0, <1>4 DEF FreeVictim, ProducerState
  <2>4. \A i \in Images : Evicted(i)' <=> Evicted(i) /\ i # v
    BY <2>1, <2>3 DEF Evicted, OwnedOnce, OneVictim
  <2>5. \A i \in Images : /\ Pushed(i)' <=> Pushed(i)
                          /\ Queued(i)' <=> Queued(i)
                          /\ InSender(i)' <=> InSender(i)
    BY <2>2, <2>3 DEF Pushed, Queued, InSender
  <2>6. OneItem' /\ OneVictim' /\ OneSlot'
    BY <2>2, <2>3 DEF OwnedOnce, OneItem, OneVictim, OneSlot
  <2>7. OneRole'
    BY <2>4, <2>5 DEF OwnedOnce, OneRole
  <2>8. ~Held(v)'
    BY <2>1, <2>4, <2>5 DEF OwnedOnce, OneRole, Held
  <2>9. \A i \in Images : i # v => (Held(i)' <=> Held(i))
    BY <2>4, <2>5 DEF Held
  <2>10. HeldIsLive'
    BY <1>0, <2>1, <2>2, <2>8, <2>9 DEF OwnedOnce, HeldIsLive
  <2>11. NoLeak'
    BY <1>0, <2>1, <2>2, <2>9 DEF NoLeak
  <2>12. QED
    BY <2>6, <2>7, <2>10, <2>11 DEF OwnedOnce
<1>5. ASSUME NEW p \in Producers, Repush(p) PROVE OwnedOnce' /\ NoLeak'
  <2>1. UNCHANGED <<heap, sender, owner>> /\ prod[p].pc = "repush"
        /\ prod[p].item \in Images /\ prod[p].victim = None
    BY <1>5, ProducerFields DEF Repush, At, TypeOK
  <2>2. CASE Enqueue(p) /\ UNCHANGED returned
    BY <2>1, <2>2, OwnedAfterEnqueue DEF NoLeak
  <2>3. CASE /\ returned' = returned \union {prod[p].item}
             /\ prod' = [prod EXCEPT ![p] = Idle]
             /\ UNCHANGED <<inq, raced, admitted>>
    <3>1. \A q \in Producers : /\ prod'[q].victim = prod[q].victim
                               /\ prod'[q].item = IF q = p THEN None ELSE prod[q].item
      BY <1>0, <2>1, <2>3 DEF Idle
    <3>2. \A i \in Images : /\ Pushed(i)' => Pushed(i)
                            /\ Pushed(i) => Pushed(i)' \/ i = prod[p].item
                            /\ Evicted(i)' <=> Evicted(i)
                            /\ Queued(i)' <=> Queued(i)
                            /\ InSender(i)' <=> InSender(i)
      BY <2>1, <2>3, <3>1 DEF Pushed, Evicted, Queued, InSender
    <3>3. OneItem' /\ OneVictim' /\ OneSlot'
      BY <2>3, <3>1 DEF OwnedOnce, OneItem, OneVictim, OneSlot
    <3>4. OneRole'
      BY <3>2 DEF OwnedOnce, OneRole
    <3>5. HeldIsLive'
      BY <2>1, <3>2 DEF OwnedOnce, HeldIsLive, Held
    <3>6. NoLeak'
      BY <2>1, <2>3, <3>2 DEF NoLeak, Held
    <3>7. QED
      BY <3>3, <3>4, <3>5, <3>6 DEF OwnedOnce
  <2>4. QED
    BY <1>5, <2>2, <2>3 DEF Repush
\* The oldest image moves from the queue to the input thread.
<1>6. CASE TakeNext
  <2>1. UNCHANGED <<heap, prod, admitted, returned, owner>> /\ sender.item = None
    BY <1>6 DEF TakeNext, SenderAt, TypeOK, SenderOK
  <2>2. Head(inq) \in Images /\ sender'.item = Head(inq)
    BY <1>6, DequeueStep DEF TakeNext, TypeOK
  <2>3. OneSlot' /\ Queued(Head(inq))
        /\ \A i \in Images : Queued(i)' <=> Queued(i) /\ i # Head(inq)
    BY <1>6, QueueAfterPop DEF TakeNext, TypeOK, OwnedOnce
  <2>4. \A i \in Images : /\ Pushed(i)' <=> Pushed(i)
                          /\ Evicted(i)' <=> Evicted(i)
                          /\ InSender(i)' <=> i = Head(inq)
                          /\ ~InSender(i)
    BY <2>1, <2>2 DEF Pushed, Evicted, InSender
  <2>5. OneItem' /\ OneVictim'
    BY <2>1 DEF OwnedOnce, OneItem, OneVictim
  <2>6. OneRole'
    BY <2>2, <2>3, <2>4 DEF OwnedOnce, OneRole
  <2>7. HeldIsLive'
    BY <2>1, <2>2, <2>3, <2>4 DEF OwnedOnce, HeldIsLive, Held
  <2>8. NoLeak'
    BY <2>1, <2>3, <2>4 DEF NoLeak, Held
  <2>9. QED
    BY <2>3, <2>5, <2>6, <2>7, <2>8 DEF OwnedOnce
<1>7. CASE LeaveLoop \/ SendHeader \/ SendPixels
  <2>1. UNCHANGED <<heap, inq, prod, returned, owner>> /\ sender'.item = sender.item
    BY <1>7 DEF LeaveLoop, SendHeader, SendPixels, TypeOK, SenderOK
  <2>2. \A i \in Images : /\ Pushed(i)' <=> Pushed(i)
                          /\ Evicted(i)' <=> Evicted(i)
                          /\ Queued(i)' <=> Queued(i)
                          /\ InSender(i)' <=> InSender(i)
    BY <2>1 DEF Pushed, Evicted, Queued, InSender
  <2>3. OneItem' /\ OneVictim' /\ OneSlot'
    BY <2>1 DEF OwnedOnce, OneItem, OneVictim, OneSlot
  <2>4. OneRole' /\ HeldIsLive'
    BY <2>1, <2>2 DEF OwnedOnce, OneRole, HeldIsLive, Held
  <2>5. NoLeak'
    BY <2>1, <2>2 DEF NoLeak, Held
  <2>6. QED
    BY <2>3, <2>4, <2>5 DEF OwnedOnce
<1>8. CASE FreeSent
  <2> DEFINE x == sender.item
  <2>1. x \in Images /\ heap' = [heap EXCEPT ![x] = "freed"]
        /\ UNCHANGED <<inq, prod, returned, owner>> /\ sender'.item = None
    BY <1>8 DEF FreeSent, SenderAt, TypeOK, SenderOK
  <2>2. \A i \in Images : /\ Pushed(i)' <=> Pushed(i)
                          /\ Evicted(i)' <=> Evicted(i)
                          /\ Queued(i)' <=> Queued(i)
                          /\ ~InSender(i)'
                          /\ InSender(i) <=> i = x
    BY <2>1 DEF Pushed, Evicted, Queued, InSender
  <2> HIDE DEF x
  <2>3. OneItem' /\ OneVictim' /\ OneSlot'
    BY <2>1 DEF OwnedOnce, OneItem, OneVictim, OneSlot
  <2>4. OneRole'
    BY <2>2 DEF OwnedOnce, OneRole
  <2>5. HeldIsLive'
    BY <1>0, <2>1, <2>2 DEF OwnedOnce, OneRole, HeldIsLive, Held
  <2>6. NoLeak'
    BY <1>0, <2>1, <2>2 DEF NoLeak, Held
  <2>7. QED
    BY <2>3, <2>4, <2>5, <2>6 DEF OwnedOnce
<1>9. CASE StopInputThread
  <2>1. UNCHANGED <<heap, inq, prod, returned, sender>> /\ owner # "down"
    BY <1>9 DEF StopInputThread, Running
  <2>2. OwnedOnce' /\ \A i \in Images : Held(i) => Held(i)'
    BY <2>1, OwnedUnmoved
  <2>3. QED
    BY <2>1, <2>2 DEF NoLeak
\* The deleted queue forgets its images; they stay allocated.
<1>10. CASE JoinAndDelete
  <2>1. inq' = <<>> /\ UNCHANGED <<heap, prod, returned, sender>> /\ owner' = "down"
    BY <1>10 DEF JoinAndDelete
  <2>2. \A i \in Images : /\ Pushed(i)' <=> Pushed(i)
                          /\ Evicted(i)' <=> Evicted(i)
                          /\ ~Queued(i)'
                          /\ InSender(i)' <=> InSender(i)
    BY <2>1 DEF Pushed, Evicted, Queued, InSender
  <2>3. OneItem' /\ OneVictim' /\ OneSlot'
    BY <2>1 DEF OwnedOnce, OneItem, OneVictim, OneSlot
  <2>4. OneRole' /\ HeldIsLive'
    BY <2>1, <2>2 DEF OwnedOnce, OneRole, HeldIsLive, Held
  <2>5. QED
    BY <2>1, <2>3, <2>4 DEF OwnedOnce, NoLeak
<1>11. CASE UNCHANGED vars
  BY <1>11, OwnedUnmoved DEF vars, NoLeak
<1>12. QED
  BY <1>1, <1>2, <1>3, <1>4, <1>5, <1>6, <1>7, <1>8, <1>9, <1>10, <1>11
     DEF Next, ProducerStep, SenderStep, OwnerStep

\* However producers, eviction and the input thread interleave, no buffer is reachable
\* from two places, freed twice or used after free.
THEOREM NoDoubleOwner == Spec => []OwnedOnce
<1>1. Init => NoLeak
  BY DEF Init, NoLeak
<1>2. QED
  BY <1>1, InitType, StepType, OwnedInit, OwnedStep, PTL DEF Spec

\* A buffer is lost only when push_image returned an error or uninit deleted a queue
\* that still held it.
THEOREM NothingElseLeaks == Spec => []NoLeak
<1>1. Init => NoLeak
  BY DEF Init, NoLeak
<1>2. QED
  BY <1>1, InitType, StepType, OwnedInit, OwnedStep, PTL DEF Spec
=============================================================================
