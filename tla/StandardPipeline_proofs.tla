----------------------- MODULE StandardPipeline_proofs -----------------------
(***************************************************************************)
(* The pipeline of standard mode, for pools and queues of any size: the    *)
(* queues suffice, the senders take turns, and an image is near its        *)
(* result.                                                                 *)
(*                                                                         *)
(* The last needs the whole line of results, from the sender back to the   *)
(* camera: the p-th result sent is computed from frame p or a later one of *)
(* its parity, so every place of the line has a frame it cannot be         *)
(* before. Images all arrive and are numbered without gaps; those not sent *)
(* hold their frames, which keeps the newest result within the pool of the *)
(* oldest image.                                                           *)
(***************************************************************************)
EXTENDS StandardPipeline, SequenceTheorems, FiniteSetTheorems, TLAPS

\* A queue of frames in the order of the camera.
Growing(q) ==
  /\ \A k \in DOMAIN q : q[k] < camera
  /\ \A j, k \in DOMAIN q : j < k => q[j] < q[k]

FramesKept == Growing(imageIn) /\ Growing(dispatchIn) /\ Cardinality(FramesHeld) <= VdoFrames

TensorsKept == \A n \in Nets : TensorsHeld(n) <= Tensors

\* A thread has a frame while it is at work, of its own network, and all frames are the
\* camera's.
FramesPlaced ==
  /\ \A n \in Nets :
       /\ net[n].pc = "frame" <=> net[n].frame = NoFrame
       /\ net[n].frame # NoFrame => NetOf(net[n].frame) = n /\ net[n].frame < camera
       /\ netIn[n] # NoFrame => NetOf(netIn[n]) = n /\ netIn[n] < camera
       /\ \A k \in DOMAIN syncIn[n] : NetOf(syncIn[n][k]) = n /\ syncIn[n][k] < camera
  /\ \A k \in DOMAIN resultIn : resultIn[k] < camera
  /\ resultTx.pc = "idle" <=> resultTx.frame = NoFrame
  /\ resultTx.frame # NoFrame => resultTx.frame < camera
  /\ imageTx.pc = "idle" <=> imageTx.frame = NoFrame
  /\ imageTx.frame # NoFrame => imageTx.frame < camera

\* Who has the turn, and what reached the host last.
TurnsKept ==
  /\ resultTx.pc = "send" => flag = 0
  /\ imageTx.pc = "send" => flag = 5 /\ withImage
  /\ failures = 0 => (flag = 5 <=> wire.part = "header")
  /\ wire.part = "image" => withImage

\* Places in line, counted from the first frame: images and results sent, results merged by
\* plgsyncout; then the least frame each place after it can hold, for a network's results,
\* its thread, its receiver and the frames not dispatched yet.
ImagesSent == camera - Len(imageIn) - (IF imageTx.pc = "idle" THEN 0 ELSE 1)
ResultsSent == ImagesSent + (IF flag = 5 THEN 1 ELSE 0)
Merged == ResultsSent + (IF resultTx.pc = "idle" THEN 0 ELSE 1) + Len(resultIn)
Merging(n) == Merged + (IF n = sel THEN 0 ELSE 1)
Running(n) == Merging(n) + 2 * Len(syncIn[n])
Coming(n) == Running(n) + (IF net[n].pc = "frame" THEN 0 ELSE 2)
Later(n) == Coming(n) + (IF netIn[n] = NoFrame THEN 0 ELSE 2)

\* A queue of frames without gaps whose last is the one before c.
Numbered(q, c) == \A k \in DOMAIN q : q[k] = c - Len(q) + k - 1

ImageLine ==
  /\ Numbered(imageIn, camera) /\ Numbered(dispatchIn, camera)
  /\ imageTx.pc # "idle" => imageTx.frame = ImagesSent

ResultLine ==
  /\ flag = 5 => wire.result >= ImagesSent /\ wire.result < camera
  /\ resultTx.pc # "idle" => resultTx.frame >= ResultsSent
  /\ \A k \in DOMAIN resultIn : resultIn[k] >= Merged - Len(resultIn) + k - 1
  /\ sel = Merged % 2

NetPlace(n) ==
  /\ \A k \in DOMAIN syncIn[n] : syncIn[n][k] >= Merging(n) + 2 * (k - 1)
  /\ net[n].pc # "frame" => net[n].frame >= Running(n)
  /\ netIn[n] # NoFrame => netIn[n] >= Coming(n)
  /\ \A f \in Frame : f >= camera - Len(dispatchIn) /\ NetOf(f) = n => f >= Later(n)

NetLine == \A n \in Nets : NetPlace(n)

InLine == Calm /\ withImage => ImageLine /\ ResultLine /\ NetLine

IInv == /\ TypeOK /\ FramesKept /\ TensorsKept /\ FramesPlaced /\ TurnsKept /\ InLine
        /\ ImageNearResult

-----------------------------------------------------------------------------
(* Frames and queues                                                       *)

LEMMA Sizes ==
  /\ MaxFrames \in Nat /\ MaxFrames >= 1 /\ Frame \subseteq Nat /\ NoFrame \notin Frame
       /\ NoFrame \in Nat
  /\ \A f : f \in Frame <=> f \in Nat /\ f < MaxFrames
BY FrameAssumption DEF Frame, NoFrame

LEMMA Parity ==
  ASSUME NEW f \in Nat
  PROVE  /\ NetOf(f) \in Nets /\ NetOf(f + 1) = 1 - NetOf(f)
         /\ \A g \in Nat : NetOf(g) = NetOf(f) /\ g > f => g >= f + 2
BY DEF NetOf, Nets

\* r is q with x put behind it.
Joins(q, r, x) ==
  /\ Len(q) \in Nat /\ DOMAIN q = 1..Len(q)
  /\ Len(r) = Len(q) + 1 /\ DOMAIN r = 1..(Len(q) + 1)
  /\ \A k \in 1..Len(q) : r[k] = q[k]
  /\ r[Len(q) + 1] = x

\* r is q without its first.
Leaves(q, r) ==
  /\ Len(q) \in Nat /\ Len(q) >= 1 /\ DOMAIN q = 1..Len(q) /\ Head(q) = q[1]
  /\ Len(r) = Len(q) - 1 /\ DOMAIN r = 1..(Len(q) - 1)
  /\ \A k \in 1..(Len(q) - 1) : r[k] = q[k + 1]

LEMMA JoinsQueue ==
  ASSUME NEW S, NEW q \in Seq(S), NEW x \in S
  PROVE  Append(q, x) \in Seq(S) /\ Joins(q, Append(q, x), x)
<1>1. /\ Append(q, x) \in Seq(S) /\ Len(Append(q, x)) = Len(q) + 1
      /\ \A i \in 1..Len(q) : Append(q, x)[i] = q[i]
      /\ Append(q, x)[Len(q) + 1] = x
  BY AppendProperties
<1>2. Len(q) \in Nat /\ DOMAIN q = 1..Len(q) /\ DOMAIN Append(q, x) = 1..(Len(q) + 1)
  BY <1>1
<1>3. QED
  BY <1>1, <1>2 DEF Joins

LEMMA LeavesQueue ==
  ASSUME NEW S, NEW q \in Seq(S), q # <<>>
  PROVE  Head(q) \in S /\ Tail(q) \in Seq(S) /\ Leaves(q, Tail(q))
<1>1. /\ q[1] \in S /\ Len(q) \in Nat /\ Len(q) >= 1 /\ Head(q) = q[1]
      /\ Tail(q) \in Seq(S) /\ Len(Tail(q)) = Len(q) - 1
  BY HeadTailProperties
<1>2. DOMAIN q = 1..Len(q) /\ DOMAIN Tail(q) = 1..(Len(q) - 1)
  BY <1>1
<1>3. \A k \in 1..(Len(q) - 1) : Tail(q)[k] = q[k + 1]
  BY <1>1
<1>4. QED
  BY <1>1, <1>2, <1>3 DEF Leaves

LEMMA QueueType ==
  ASSUME NEW S, NEW q \in Seq(S)
  PROVE  Len(q) \in Nat /\ DOMAIN q = 1..Len(q) /\ \A k \in 1..Len(q) : q[k] \in S
OBVIOUS

LEMMA JoinsRange ==
  ASSUME NEW q, NEW r, NEW x, Joins(q, r, x)
  PROVE  Range(r) = Range(q) \cup {x}
<1>1. /\ Len(q) \in Nat /\ DOMAIN q = 1..Len(q) /\ DOMAIN r = 1..(Len(q) + 1)
      /\ \A k \in 1..Len(q) : r[k] = q[k]
      /\ r[Len(q) + 1] = x
  BY DEF Joins
<1>2. DOMAIN r = DOMAIN q \cup {Len(q) + 1}
  BY <1>1
<1>3. QED
  BY <1>1, <1>2 DEF Range

LEMMA LeavesRange ==
  ASSUME NEW q, NEW r, Leaves(q, r)
  PROVE  Range(r) \subseteq Range(q) /\ Head(q) \in Range(q)
<1>1. /\ Len(q) \in Nat /\ Len(q) >= 1 /\ DOMAIN q = 1..Len(q) /\ Head(q) = q[1]
      /\ DOMAIN r = 1..(Len(q) - 1) /\ \A k \in 1..(Len(q) - 1) : r[k] = q[k + 1]
  BY DEF Leaves
<1>2. \A k \in DOMAIN r : k + 1 \in DOMAIN q /\ r[k] = q[k + 1]
  BY <1>1
<1>3. 1 \in DOMAIN q
  BY <1>1
<1>4. QED
  BY <1>1, <1>2, <1>3 DEF Range

\* A growing queue is as long as it has frames.
LEMMA RangeSize ==
  ASSUME NEW q \in Seq(Frame), \A j, k \in DOMAIN q : j < k => q[j] < q[k]
  PROVE  IsFiniteSet(Range(q)) /\ Cardinality(Range(q)) = Len(q)
<1>1. Len(q) \in Nat /\ DOMAIN q = 1..Len(q) /\ \A k \in 1..Len(q) : q[k] \in Nat
  BY QueueType, Sizes
<1>2. q \in [1..Len(q) -> Range(q)]
  BY <1>1 DEF Range
<1>3. \A j, k \in 1..Len(q) : q[j] = q[k] => j = k
  BY <1>1
<1>4. \A f \in Range(q) : \E k \in 1..Len(q) : q[k] = f
  BY <1>1 DEF Range
<1>5. q \in Bijection(1..Len(q), Range(q))
  BY <1>2, <1>3, <1>4 DEF Bijection, Injection, Surjection, IsInjective
<1>6. ExistsBijection(1..Len(q), Range(q))
  BY <1>5 DEF ExistsBijection
<1>7. QED
  BY <1>1, <1>6, FS_CountingElements, FS_NatBijection


\* Results of network n in a queue.
OfNet(q, n) == {k \in DOMAIN q : NetOf(q[k]) = n}

LEMMA OfNetFinite ==
  ASSUME NEW q, Len(q) \in Nat, DOMAIN q = 1..Len(q), NEW n
  PROVE  IsFiniteSet(OfNet(q, n)) /\ Cardinality(OfNet(q, n)) \in Nat
<1>1. OfNet(q, n) \subseteq 1..Len(q)
  BY DEF OfNet
<1>2. IsFiniteSet(1..Len(q))
  BY FS_Interval
<1>3. IsFiniteSet(OfNet(q, n))
  BY <1>1, <1>2, FS_Subset
<1>4. QED
  BY <1>3, FS_CardinalityType

LEMMA JoinsCount ==
  ASSUME NEW q, NEW r, NEW x, Joins(q, r, x), NEW n
  PROVE  Cardinality(OfNet(r, n)) = Cardinality(OfNet(q, n)) + (IF NetOf(x) = n THEN 1 ELSE 0)
<1>1. /\ Len(q) \in Nat /\ DOMAIN q = 1..Len(q) /\ DOMAIN r = 1..(Len(q) + 1)
      /\ \A k \in 1..Len(q) : r[k] = q[k]
      /\ r[Len(q) + 1] = x
  BY DEF Joins
<1>2. OfNet(r, n) = IF NetOf(x) = n THEN OfNet(q, n) \cup {Len(q) + 1} ELSE OfNet(q, n)
  BY <1>1 DEF OfNet
<1>3. Len(q) + 1 \notin OfNet(q, n)
  BY <1>1 DEF OfNet
<1>4. IsFiniteSet(OfNet(q, n)) /\ Cardinality(OfNet(q, n)) \in Nat
  BY <1>1, OfNetFinite
<1>5. Cardinality(OfNet(q, n) \cup {Len(q) + 1}) = Cardinality(OfNet(q, n)) + 1
  BY <1>3, <1>4, FS_AddElement
<1>6. QED
  BY <1>2, <1>4, <1>5

LEMMA LeavesCount ==
  ASSUME NEW q, NEW r, Leaves(q, r), NEW n
  PROVE  Cardinality(OfNet(q, n)) = Cardinality(OfNet(r, n)) + (IF NetOf(Head(q)) = n THEN 1 ELSE 0)
<1>1. /\ Len(q) \in Nat /\ Len(q) >= 1 /\ DOMAIN q = 1..Len(q) /\ Head(q) = q[1]
      /\ Len(r) = Len(q) - 1 /\ DOMAIN r = 1..(Len(q) - 1)
      /\ \A k \in 1..(Len(q) - 1) : r[k] = q[k + 1]
  BY DEF Leaves
<1> DEFINE B == OfNet(q, n) \ {1}
           f == [k \in OfNet(r, n) |-> k + 1]
<1>2. IsFiniteSet(OfNet(q, n)) /\ IsFiniteSet(OfNet(r, n)) /\ Cardinality(OfNet(q, n)) \in Nat
  BY <1>1, OfNetFinite
<1>3. \A k \in OfNet(r, n) : k \in Nat /\ k + 1 \in B
  BY <1>1 DEF OfNet
<1>4. \A k \in B : k \in Nat /\ k - 1 \in OfNet(r, n)
  <2>1. \A k \in B : k \in 2..Len(q) /\ NetOf(q[k]) = n
    BY <1>1 DEF OfNet
  <2>2. \A k \in 2..Len(q) :
          k - 1 \in 1..(Len(q) - 1) /\ r[k - 1] = q[(k - 1) + 1] /\ (k - 1) + 1 = k
    BY <1>1
  <2>3. QED
    BY <1>1, <2>1, <2>2 DEF OfNet
<1>5. f \in [OfNet(r, n) -> B] /\ \A j, k \in OfNet(r, n) : f[j] = f[k] => j = k
  BY <1>3
<1>6. \A k \in B : \E j \in OfNet(r, n) : f[j] = k
  <2>1. \A k \in B : f[k - 1] = k
    BY <1>4
  <2>2. QED
    BY <1>4, <2>1
<1>7. f \in Bijection(OfNet(r, n), B)
  BY <1>5, <1>6 DEF Bijection, Injection, Surjection, IsInjective
<1>8. Cardinality(B) = Cardinality(OfNet(r, n))
  BY <1>2, <1>7, FS_Bijection DEF ExistsBijection
<1>9. Cardinality(B) = IF 1 \in OfNet(q, n) THEN Cardinality(OfNet(q, n)) - 1 ELSE Cardinality(OfNet(q, n))
  BY <1>2, FS_RemoveElement
<1>10. 1 \in OfNet(q, n) <=> NetOf(Head(q)) = n
  BY <1>1 DEF OfNet
<1>11. QED
  BY <1>2, <1>8, <1>9, <1>10

LEMMA CountBoth ==
  ASSUME NEW q \in Seq(Frame)
  PROVE  Len(q) = Cardinality(OfNet(q, 0)) + Cardinality(OfNet(q, 1))
<1>1. Len(q) \in Nat /\ DOMAIN q = 1..Len(q) /\ \A k \in 1..Len(q) : NetOf(q[k]) \in Nets
  BY QueueType, Sizes, Parity
<1>2. OfNet(q, 0) \cup OfNet(q, 1) = 1..Len(q) /\ OfNet(q, 0) \cap OfNet(q, 1) = {}
  BY <1>1 DEF OfNet, Nets
<1>3. /\ IsFiniteSet(OfNet(q, 0)) /\ IsFiniteSet(OfNet(q, 1))
      /\ Cardinality(OfNet(q, 0)) \in Nat /\ Cardinality(OfNet(q, 1)) \in Nat
  BY <1>1, OfNetFinite
<1>4. Cardinality(1..Len(q)) = Len(q)
  BY <1>1, FS_Interval
<1>5. Cardinality({}) = 0
  BY FS_EmptySet
<1>6. Cardinality(OfNet(q, 0) \cup OfNet(q, 1))
        = Cardinality(OfNet(q, 0)) + Cardinality(OfNet(q, 1)) - Cardinality(OfNet(q, 0) \cap OfNet(q, 1))
  BY <1>3, FS_Union, Zenon
<1>7. /\ Cardinality(OfNet(q, 0) \cap OfNet(q, 1)) = 0
      /\ Cardinality(OfNet(q, 0) \cup OfNet(q, 1)) = Len(q)
  BY <1>2, <1>4, <1>5, Zenon
<1>8. QED
  BY <1>1, <1>3, <1>6, <1>7

-----------------------------------------------------------------------------
(* The types                                                               *)

Thread == [pc : {"frame", "tensor", "run"}, frame : Frame \cup {NoFrame}]
Sender == [pc : {"idle", "wait", "send"}, frame : Frame \cup {NoFrame}]

LEMMA TypeStep ==
  ASSUME TypeOK, FramesPlaced, [Next]_vars
  PROVE  TypeOK'
<1> USE Sizes DEF TypeOK
<1>0. net \in [Nets -> Thread] /\ resultTx \in Sender /\ imageTx \in Sender
  BY DEF Thread, Sender
<1>00. camera \in Nat /\ sel \in {0, 1} /\ \A n \in Nets : syncIn[n] \in Seq(Frame)
  BY DEF Nets
<1>1. CASE Skip
  BY <1>1 DEF Skip, queues, senders
<1>2. CASE Capture
  <2>1. camera \in Frame
    BY <1>2, <1>00 DEF Capture
  <2>2. Append(imageIn, camera) \in Seq(Frame) /\ Append(dispatchIn, camera) \in Seq(Frame)
    BY <2>1
  <2>3. QED
    BY <1>2, <2>2 DEF Capture, senders, history
<1>3. CASE Dispatch
  <2>1. Head(dispatchIn) \in Frame /\ Tail(dispatchIn) \in Seq(Frame)
    BY <1>3, LeavesQueue DEF Dispatch
  <2>2. netIn' \in [Nets -> Frame \cup {NoFrame}]
    BY <1>3, <2>1 DEF Dispatch
  <2>3. QED
    BY SMTT(30), <1>3, <2>1, <2>2 DEF Dispatch, senders, history
<1>4. CASE Sync
  <2>1. Head(syncIn[sel]) \in Frame /\ Tail(syncIn[sel]) \in Seq(Frame)
    BY <1>4, LeavesQueue DEF Sync
  <2>2. resultIn' \in Seq(Frame)
    BY <1>4, <2>1, JoinsQueue DEF Sync
  <2>3. syncIn' \in [Nets -> Seq(Frame)]
    BY <1>4, <2>1 DEF Sync
  <2>4. sel' \in Nets
    BY <1>00, <1>4 DEF Sync, Nets
  <2>5. QED
    BY <1>4, <2>2, <2>3, <2>4 DEF Sync, senders, history
<1>5. ASSUME NEW n \in Nets,
             NetTakesFrame(n) \/ NetTakesTensor(n) \/ NetSendsResult(n) \/ NetHasNoResult(n)
      PROVE  TypeOK'
  <2>1. CASE NetTakesFrame(n)
    BY <2>1 DEF NetTakesFrame, senders, history
  <2>2. CASE NetTakesTensor(n)
    BY ZenonT(30), <2>2 DEF NetTakesTensor, queues, senders, history
  <2>3. CASE NetSendsResult(n)
    <3>1. net[n].frame \in Frame
      BY <2>3 DEF NetSendsResult, FramesPlaced
    <3>2. Append(syncIn[n], net[n].frame) \in Seq(Frame)
      BY <3>1
    <3>3. syncIn' \in [Nets -> Seq(Frame)]
      BY <2>3, <3>2 DEF NetSendsResult
    <3>4. net' \in [Nets -> [pc : {"frame", "tensor", "run"}, frame : Frame \cup {NoFrame}]]
      BY <2>3 DEF NetSendsResult
    <3>5. QED
      BY <2>3, <3>3, <3>4 DEF NetSendsResult, senders, history
  <2>4. CASE NetHasNoResult(n)
    BY <2>4 DEF NetHasNoResult, queues, senders
  <2>5. QED
    BY <1>5, <2>1, <2>2, <2>3, <2>4
<1>6. CASE ResultReceive
  <2>1. Head(resultIn) \in Frame /\ Tail(resultIn) \in Seq(Frame)
    BY <1>6, LeavesQueue DEF ResultReceive
  <2>2. QED
    BY <1>6, <2>1 DEF ResultReceive, history
<1>7. CASE ResultBegin
  BY <1>7 DEF ResultBegin, queues, history
<1>8. ASSUME NEW sent \in BOOLEAN, ResultEnd(sent) PROVE TypeOK'
  <2>1. wire' \in [part : {"none", "header", "image"},
                   result : Frame \cup {NoFrame}, image : Frame \cup {NoFrame}]
    BY <1>8 DEF ResultEnd
  <2>2. /\ resultTx' \in Sender /\ flag' \in {0, 5} /\ failures' \in Nat
        /\ UNCHANGED <<withImage, first, camera, queues, net, sel, imageTx, skips, silent>>
    BY <1>8 DEF ResultEnd, Sender
  <2>3. QED
    BY <2>1, <2>2 DEF queues, Sender
<1>9. CASE ImageReceive
  <2>1. Head(imageIn) \in Frame /\ Tail(imageIn) \in Seq(Frame)
    BY <1>9, LeavesQueue DEF ImageReceive
  <2>2. QED
    BY <1>9, <2>1 DEF ImageReceive, history
<1>10. CASE ImageBegin
  BY <1>10 DEF ImageBegin, queues, history
<1>11. ASSUME NEW sent \in BOOLEAN, ImageEnd(sent) PROVE TypeOK'
  <2>1. wire' \in [part : {"none", "header", "image"},
                   result : Frame \cup {NoFrame}, image : Frame \cup {NoFrame}]
    BY <1>11 DEF ImageEnd
  <2>2. /\ imageTx' \in Sender /\ flag' \in {0, 5} /\ failures' \in Nat
        /\ UNCHANGED <<withImage, first, camera, queues, net, sel, resultTx, skips, silent>>
    BY <1>11 DEF ImageEnd, Sender
  <2>3. QED
    BY <2>1, <2>2 DEF queues, Sender
<1>12. CASE UNCHANGED vars
  BY <1>12 DEF vars, queues, senders, history
<1>13. QED
  BY <1>1, <1>2, <1>3, <1>4, <1>5, <1>6, <1>7, <1>8, <1>9, <1>10, <1>11, <1>12 DEF Next


-----------------------------------------------------------------------------
(* The turns                                                               *)

LEMMA TurnsStep ==
  ASSUME TypeOK, TurnsKept, [Next]_vars
  PROVE  TurnsKept'
<1>0. /\ flag \in {0, 5} /\ resultTx \in Sender /\ imageTx \in Sender /\ failures \in Nat
      /\ withImage \in BOOLEAN
      /\ wire \in [part : {"none", "header", "image"},
                   result : Frame \cup {NoFrame}, image : Frame \cup {NoFrame}]
  BY DEF TypeOK, Sender
<1>1. CASE ResultReceive
  BY <1>0, <1>1 DEF ResultReceive, history, TurnsKept, Sender
<1>2. CASE ResultBegin
  BY <1>0, <1>2 DEF ResultBegin, queues, history, TurnsKept, Sender
<1>3. ASSUME NEW sent \in BOOLEAN, ResultEnd(sent) PROVE TurnsKept'
  <2>1. flag = 0 /\ flag' = 5 /\ resultTx'.pc = "idle" /\ imageTx.pc # "send"
        /\ UNCHANGED <<withImage, imageTx>>
    BY <1>0, <1>3 DEF ResultEnd, TurnsKept, Sender
  <2>2. CASE sent = TRUE
    BY <1>0, <1>3, <2>1, <2>2 DEF ResultEnd, TurnsKept
  <2>3. CASE sent = FALSE
    BY <1>0, <1>3, <2>1, <2>3 DEF ResultEnd, TurnsKept
  <2>4. QED
    BY <2>2, <2>3
<1>4. CASE ImageReceive
  BY <1>0, <1>4 DEF ImageReceive, history, TurnsKept, Sender
<1>5. CASE ImageBegin
  BY <1>0, <1>5 DEF ImageBegin, queues, history, TurnsKept, Sender
<1>6. ASSUME NEW sent \in BOOLEAN, ImageEnd(sent) PROVE TurnsKept'
  <2>1. flag = 5 /\ withImage /\ imageTx'.pc = "idle" /\ resultTx.pc # "send"
        /\ UNCHANGED <<withImage, resultTx>>
    BY <1>0, <1>6 DEF ImageEnd, TurnsKept, Sender
  <2>2. CASE sent = TRUE
    <3>1. flag' = 0 /\ failures' = failures
            /\ wire' = [wire EXCEPT !.part = "image", !.image = imageTx.frame]
      BY <1>6, <2>2 DEF ImageEnd
    <3>2. wire'.part = "image"
      BY <1>0, <3>1
    <3>3. QED
      BY <1>0, <2>1, <3>1, <3>2 DEF TurnsKept
  <2>3. CASE sent = FALSE
    BY <1>0, <1>6, <2>1, <2>3 DEF ImageEnd, TurnsKept
  <2>4. QED
    BY <2>2, <2>3
<1>7. CASE UNCHANGED <<withImage, flag, resultTx, imageTx, wire, failures>>
  BY <1>7 DEF TurnsKept
<1>8. CASE Skip \/ Capture \/ Dispatch \/ Sync
  BY <1>7, <1>8 DEF Skip, Capture, Dispatch, Sync, senders, history
<1>9. ASSUME NEW n \in Nets,
             NetTakesFrame(n) \/ NetTakesTensor(n) \/ NetSendsResult(n) \/ NetHasNoResult(n)
      PROVE  TurnsKept'
  BY <1>7, <1>9 DEF NetTakesFrame, NetTakesTensor, NetSendsResult, NetHasNoResult, senders, history
<1>10. CASE UNCHANGED vars
  BY <1>7, <1>10 DEF vars, senders, history
<1>11. QED
  BY <1>1, <1>2, <1>3, <1>4, <1>5, <1>6, <1>8, <1>9, <1>10 DEF Next

-----------------------------------------------------------------------------
(* The frames                                                              *)

LEMMA PlacedStep ==
  ASSUME TypeOK, FramesKept, FramesPlaced, [Next]_vars
  PROVE  FramesPlaced'
<1>0. /\ net \in [Nets -> Thread] /\ resultTx \in Sender /\ imageTx \in Sender
      /\ netIn \in [Nets -> Frame \cup {NoFrame}] /\ camera \in Nat
      /\ syncIn \in [Nets -> Seq(Frame)] /\ sel \in Nets
      /\ imageIn \in Seq(Frame) /\ dispatchIn \in Seq(Frame) /\ resultIn \in Seq(Frame)
      /\ \A f \in Frame : f # NoFrame /\ f \in Nat
      /\ NoFrame \in Nat
  BY Sizes DEF TypeOK, Thread, Sender
<1>00. \A n \in Nets : net[n].frame \in Nat /\ netIn[n] \in Nat /\ syncIn[n] \in Seq(Frame)
                       /\ DOMAIN syncIn[n] = 1..Len(syncIn[n]) /\ Len(syncIn[n]) \in Nat
                       /\ \A k \in DOMAIN syncIn[n] : syncIn[n][k] \in Nat
  BY <1>0, QueueType, Sizes DEF Thread
<1>01. /\ resultTx.frame \in Nat /\ imageTx.frame \in Nat
       /\ \A k \in DOMAIN resultIn : resultIn[k] \in Nat
  BY <1>0, QueueType, Sizes DEF Sender
<1>1. CASE Skip \/ Capture
  <2>1. camera' = camera + 1 /\ UNCHANGED <<net, netIn, syncIn, resultIn, resultTx, imageTx>>
    BY <1>1 DEF Skip, Capture, queues, senders
  <2>2. \A f \in Nat : f < camera => f < camera'
    BY <1>0, <2>1
  <2>3. QED
    BY <1>00, <1>01, <2>1, <2>2 DEF FramesPlaced
<1>2. CASE Dispatch
  <2>1. Head(dispatchIn) \in Frame /\ Head(dispatchIn) = dispatchIn[1] /\ 1 \in DOMAIN dispatchIn
    BY <1>0, <1>2, LeavesQueue DEF Dispatch, Leaves
  <2>2. Head(dispatchIn) < camera /\ NetOf(Head(dispatchIn)) \in Nets
    BY <1>0, <2>1, Parity DEF FramesKept, Growing
  <2>3. netIn' = [netIn EXCEPT ![NetOf(Head(dispatchIn))] = Head(dispatchIn)]
    BY <1>2 DEF Dispatch
  <2>4. \A n \in Nets : 
          netIn'[n] = netIn[n] \/ (netIn'[n] = Head(dispatchIn) /\ n = NetOf(Head(dispatchIn)))
    BY <1>0, <2>2, <2>3
  <2>5. UNCHANGED <<net, camera, syncIn, resultIn, resultTx, imageTx>>
    BY <1>2 DEF Dispatch, senders
  <2>6. QED
    BY <2>2, <2>4, <2>5 DEF FramesPlaced
<1>3. CASE Sync
  <2>1. /\ UNCHANGED <<net, netIn, camera, resultTx, imageTx>>
        /\ syncIn[sel] \in Seq(Frame) /\ syncIn[sel] # <<>>
        /\ resultIn' = Append(resultIn, Head(syncIn[sel]))
        /\ syncIn'[sel] = Tail(syncIn[sel]) /\ \A n \in Nets \ {sel} : syncIn'[n] = syncIn[n]
    BY <1>0, <1>3 DEF Sync, senders
  <2>2. Leaves(syncIn[sel], syncIn'[sel]) /\ Joins(resultIn, resultIn', Head(syncIn[sel]))
    BY <1>0, <2>1, LeavesQueue, JoinsQueue
  <2>20. \A k \in DOMAIN syncIn[sel] : NetOf(syncIn[sel][k]) = sel /\ syncIn[sel][k] < camera
    BY <1>0 DEF FramesPlaced
  <2>3. Head(syncIn[sel]) < camera
    BY <2>2, <2>20 DEF Leaves
  <2>4. \A k \in DOMAIN resultIn' : resultIn'[k] < camera
    BY <2>2, <2>3 DEF Joins, FramesPlaced
  <2>5. \A k \in DOMAIN syncIn'[sel] : NetOf(syncIn'[sel][k]) = sel /\ syncIn'[sel][k] < camera
    <3>1. \A k \in DOMAIN syncIn'[sel] :
            k + 1 \in DOMAIN syncIn[sel] /\ syncIn'[sel][k] = syncIn[sel][k + 1]
      BY <2>2 DEF Leaves
    <3>2. QED
      BY <2>20, <3>1
  <2>6. \A n \in Nets : \A k \in DOMAIN syncIn'[n] :
          NetOf(syncIn'[n][k]) = n /\ syncIn'[n][k] < camera
    BY <2>1, <2>5 DEF FramesPlaced
  <2>7. QED
    BY <2>1, <2>4, <2>6 DEF FramesPlaced
<1>4. ASSUME NEW n \in Nets,
             NetTakesFrame(n) \/ NetTakesTensor(n) \/ NetSendsResult(n) \/ NetHasNoResult(n)
      PROVE  FramesPlaced'
  <2>0. UNCHANGED <<camera, resultIn, resultTx, imageTx>>
    BY <1>4 DEF NetTakesFrame, NetTakesTensor, NetSendsResult, NetHasNoResult, queues, senders
  <2>1. CASE NetTakesFrame(n)
    <3>1. /\ netIn[n] # NoFrame /\ net'[n].pc = "tensor" /\ net'[n].frame = netIn[n]
          /\ netIn'[n] = NoFrame /\ syncIn' = syncIn
          /\ \A m \in Nets \ {n} : net'[m] = net[m] /\ netIn'[m] = netIn[m]
      BY <1>0, <2>1 DEF NetTakesFrame
    <3>2. QED
      BY <2>0, <3>1 DEF FramesPlaced
  <2>2. CASE NetTakesTensor(n)
    <3>1. /\ UNCHANGED <<syncIn, netIn>> /\ net[n].pc # "frame" /\ net'[n].pc # "frame"
          /\ net'[n].frame = net[n].frame
          /\ \A m \in Nets \ {n} : net'[m] = net[m]
      BY <1>0, <2>2 DEF NetTakesTensor, queues, Thread
    <3>2. QED
      BY <2>0, <3>1 DEF FramesPlaced
  <2>3. CASE NetSendsResult(n)
    <3>1. /\ netIn' = netIn /\ net[n].pc = "run" /\ net'[n].pc = "frame" /\ net'[n].frame = NoFrame
          /\ \A m \in Nets \ {n} : net'[m] = net[m] /\ syncIn'[m] = syncIn[m]
          /\ syncIn'[n] = Append(syncIn[n], net[n].frame)
      BY <1>0, <2>3 DEF NetSendsResult
    <3>2. net[n].frame # NoFrame /\ NetOf(net[n].frame) = n /\ net[n].frame < camera
      BY <3>1 DEF FramesPlaced
    <3>3. net[n].frame \in Frame
      BY <1>0, <3>2 DEF Thread
    <3>4. Joins(syncIn[n], syncIn'[n], net[n].frame)
      BY <1>00, <3>1, <3>3, JoinsQueue
    <3>5. \A k \in DOMAIN syncIn'[n] : NetOf(syncIn'[n][k]) = n /\ syncIn'[n][k] < camera
      BY <3>2, <3>4 DEF Joins, FramesPlaced
    <3>6. \A m \in Nets : \A k \in DOMAIN syncIn'[m] :
            NetOf(syncIn'[m][k]) = m /\ syncIn'[m][k] < camera
      BY <3>1, <3>5 DEF FramesPlaced
    <3>7. QED
      BY <2>0, <3>1, <3>6 DEF FramesPlaced
  <2>4. CASE NetHasNoResult(n)
    <3>1. /\ UNCHANGED <<syncIn, netIn>> /\ net'[n].pc = "frame" /\ net'[n].frame = NoFrame
          /\ \A m \in Nets \ {n} : net'[m] = net[m]
      BY <1>0, <2>4 DEF NetHasNoResult, queues, Thread
    <3>2. QED
      BY <2>0, <3>1 DEF FramesPlaced
  <2>5. QED
    BY <1>4, <2>1, <2>2, <2>3, <2>4
<1>5. CASE ResultReceive
  <2>1. /\ UNCHANGED <<net, netIn, camera, syncIn, imageTx>> /\ resultIn # <<>>
        /\ resultIn' = Tail(resultIn) /\ resultTx'.pc = "wait" /\ resultTx'.frame = Head(resultIn)
    BY <1>5 DEF ResultReceive
  <2>2. Leaves(resultIn, resultIn') /\ Head(resultIn) \in Frame
    BY <1>0, <2>1, LeavesQueue
  <2>3. Head(resultIn) < camera /\ \A k \in DOMAIN resultIn' : resultIn'[k] < camera
    BY <2>2 DEF Leaves, FramesPlaced
  <2>4. QED
    BY <1>0, <2>1, <2>2, <2>3 DEF FramesPlaced
<1>6. ASSUME NEW sent \in BOOLEAN, ResultEnd(sent) PROVE FramesPlaced'
  <2>1. UNCHANGED <<net, netIn, camera, syncIn, resultIn, imageTx>> /\ resultTx'.pc = "idle"
          /\ resultTx'.frame = NoFrame
    BY <1>6 DEF ResultEnd, queues
  <2>2. QED
    BY <2>1 DEF FramesPlaced
<1>7. CASE ImageReceive
  <2>1. /\ UNCHANGED <<net, netIn, camera, syncIn, resultIn, resultTx>> /\ imageIn # <<>>
        /\ imageIn' = Tail(imageIn) /\ imageTx'.pc = "wait" /\ imageTx'.frame = Head(imageIn)
    BY <1>7 DEF ImageReceive
  <2>2. Leaves(imageIn, imageIn') /\ Head(imageIn) \in Frame
    BY <1>0, <2>1, LeavesQueue
  <2>3. Head(imageIn) < camera
    BY <2>2 DEF Leaves, FramesKept, Growing
  <2>4. QED
    BY <1>0, <2>1, <2>2, <2>3 DEF FramesPlaced
<1>8. CASE ResultBegin \/ ImageBegin
  <2>1. /\ UNCHANGED <<net, netIn, camera, syncIn, resultIn>>
        /\ resultTx'.frame = resultTx.frame /\ (resultTx'.pc = "idle" <=> resultTx.pc = "idle")
        /\ \/ imageTx'.frame = imageTx.frame /\ (imageTx'.pc = "idle" <=> imageTx.pc = "idle")
           \/ imageTx'.pc = "idle" /\ imageTx'.frame = NoFrame
    BY <1>0, <1>8 DEF ResultBegin, ImageBegin, queues, Sender
  <2>2. QED
    BY <2>1 DEF FramesPlaced
<1>9. ASSUME NEW sent \in BOOLEAN, ImageEnd(sent) PROVE FramesPlaced'
  <2>1. UNCHANGED <<net, netIn, camera, syncIn, resultIn, resultTx>> /\ imageTx'.pc = "idle"
          /\ imageTx'.frame = NoFrame
    BY <1>9 DEF ImageEnd, queues
  <2>2. QED
    BY <2>1 DEF FramesPlaced
<1>10. CASE UNCHANGED vars
  BY <1>10 DEF vars, queues, senders, FramesPlaced
<1>11. QED
  BY <1>1, <1>2, <1>3, <1>4, <1>5, <1>6, <1>7, <1>8, <1>9, <1>10 DEF Next


\* What a thread of the pipeline does with frames: it hands on frames that are held.
LEMMA HeldFinite ==
  ASSUME TypeOK
  PROVE  FramesHeld \subseteq Frame /\ IsFiniteSet(FramesHeld) /\ Cardinality(FramesHeld) \in Nat
<1>1. \A q \in Seq(Frame) : Range(q) \subseteq Frame
  BY QueueType DEF Range
<1>2. /\ Range(imageIn) \subseteq Frame /\ Range(dispatchIn) \subseteq Frame
      /\ \A n \in Nets : netIn[n] \in Frame \cup {NoFrame} /\ net[n].frame \in Frame \cup {NoFrame}
      /\ imageTx.frame \in Frame \cup {NoFrame}
  BY <1>1 DEF TypeOK
<1>3. FramesHeld \subseteq Frame
  BY <1>2 DEF FramesHeld
<1>4. IsFiniteSet(Frame)
  BY FrameAssumption, FS_Interval DEF Frame
<1>5. IsFiniteSet(FramesHeld)
  BY <1>3, <1>4, FS_Subset
<1>6. QED
  BY <1>3, <1>5, FS_CardinalityType

LEMMA HeldNext ==
  ASSUME TypeOK, FramesKept, [Next]_vars
  PROVE  \/ FramesHeld' \subseteq FramesHeld
         \/ Capture /\ FramesHeld' \subseteq FramesHeld \cup {camera}
<1>0. /\ net \in [Nets -> Thread] /\ imageTx \in Sender /\ netIn \in [Nets -> Frame \cup {NoFrame}]
      /\ imageIn \in Seq(Frame) /\ dispatchIn \in Seq(Frame) /\ camera \in Nat
  BY DEF TypeOK, Thread, Sender
<1> DEFINE Here(f) == \/ f \in Range(imageIn) \/ f \in Range(dispatchIn)
                      \/ \E n \in Nets : f = netIn[n] \/ f = net[n].frame
                      \/ f = imageTx.frame
           There(f) == \/ f \in Range(imageIn') \/ f \in Range(dispatchIn')
                       \/ \E n \in Nets : f = netIn'[n] \/ f = net'[n].frame
                       \/ f = imageTx'.frame
<1>1. \A f :
        (f \in FramesHeld <=> f # NoFrame /\ Here(f)) /\ (f \in FramesHeld' <=> f # NoFrame /\ There(f))
  BY DEF FramesHeld
<1>2. SUFFICES \/ \A f : There(f) => Here(f) \/ f = NoFrame
               \/ Capture /\ \A f : There(f) => Here(f) \/ f = NoFrame \/ f = camera
  BY <1>1
<1>3. CASE Capture
  <2>1. camera \in Frame /\ UNCHANGED <<net, netIn, imageTx>>
        /\ imageIn' = Append(imageIn, camera) /\ dispatchIn' = Append(dispatchIn, camera)
    BY <1>0, <1>3, Sizes DEF Capture, senders
  <2>2. Range(imageIn') = Range(imageIn) \cup {camera}
          /\ Range(dispatchIn') = Range(dispatchIn) \cup {camera}
    BY <1>0, <2>1, JoinsQueue, JoinsRange
  <2>3. QED
    BY <1>3, <2>1, <2>2
<1>4. CASE Dispatch
  <2>1. /\ UNCHANGED <<net, imageIn, imageTx>> /\ dispatchIn # <<>>
             /\ dispatchIn' = Tail(dispatchIn)
        /\ netIn' = [netIn EXCEPT ![NetOf(Head(dispatchIn))] = Head(dispatchIn)]
    BY <1>4 DEF Dispatch, senders
  <2>2. Range(dispatchIn') \subseteq Range(dispatchIn) /\ Head(dispatchIn) \in Range(dispatchIn)
    BY <1>0, <2>1, LeavesQueue, LeavesRange
  <2>3. \A n \in Nets : netIn'[n] = netIn[n] \/ netIn'[n] = Head(dispatchIn)
    BY <1>0, <2>1
  <2>4. QED
    BY <2>1, <2>2, <2>3
<1>5. CASE ImageReceive
  <2>1. /\ UNCHANGED <<net, netIn, dispatchIn>> /\ imageIn # <<>> /\ imageIn' = Tail(imageIn)
        /\ imageTx'.frame = Head(imageIn)
    BY <1>5 DEF ImageReceive
  <2>2. Range(imageIn') \subseteq Range(imageIn) /\ Head(imageIn) \in Range(imageIn)
    BY <1>0, <2>1, LeavesQueue, LeavesRange
  <2>3. QED
    BY <2>1, <2>2
<1>6. ASSUME UNCHANGED <<imageIn, dispatchIn>>,
             imageTx'.frame = imageTx.frame \/ imageTx'.frame = NoFrame,
             NEW n \in Nets, \A m \in Nets \ {n} : net'[m] = net[m] /\ netIn'[m] = netIn[m],
             net'[n].frame \in {net[n].frame, netIn[n], NoFrame}, netIn'[n] \in {netIn[n], NoFrame}
      PROVE  \A f : There(f) => Here(f) \/ f = NoFrame
  BY <1>6
<1>7. ASSUME NEW n \in Nets,
             NetTakesFrame(n) \/ NetTakesTensor(n) \/ NetSendsResult(n) \/ NetHasNoResult(n)
      PROVE  \A f : There(f) => Here(f) \/ f = NoFrame
  <2>1. UNCHANGED <<imageIn, dispatchIn, imageTx>>
    BY <1>7 DEF NetTakesFrame, NetTakesTensor, NetSendsResult, NetHasNoResult, queues, senders
  <2>2. /\ \A m \in Nets \ {n} : net'[m] = net[m] /\ netIn'[m] = netIn[m]
        /\ net'[n].frame \in {net[n].frame, netIn[n], NoFrame} /\ netIn'[n] \in {netIn[n], NoFrame}
    BY <1>0, <1>7 DEF NetTakesFrame, NetTakesTensor, NetSendsResult, NetHasNoResult, queues, Thread
  <2>3. QED
    BY <1>6, <2>1, <2>2
<1>8. CASE UNCHANGED <<imageIn, dispatchIn, net, netIn>>
             /\ imageTx'.frame \in {imageTx.frame, NoFrame}
  BY <1>8
<1>9. CASE Skip \/ Sync \/ ResultReceive \/ ResultBegin \/ ImageBegin \/ UNCHANGED vars
  BY <1>0, <1>8, <1>9 DEF Skip, Sync, ResultReceive, ResultBegin, ImageBegin, vars, queues,
     senders, Sender
<1>10. ASSUME NEW sent \in BOOLEAN, ResultEnd(sent) \/ ImageEnd(sent)
       PROVE  \A f : There(f) => Here(f) \/ f = NoFrame
  BY <1>8, <1>10 DEF ResultEnd, ImageEnd, queues
<1> HIDE DEF Here, There
<1>11. QED
  BY <1>3, <1>4, <1>5, <1>7, <1>9, <1>10 DEF Next

LEMMA GrowingJoin ==
  ASSUME camera' = camera + 1, camera \in Nat, NEW q \in Seq(Nat), NEW r, Joins(q, r, camera),
         Growing(q)
  PROVE  /\ \A k \in DOMAIN r : r[k] < camera'
         /\ \A j, k \in DOMAIN r : j < k => r[j] < r[k]
<1>1. /\ Len(q) \in Nat /\ DOMAIN q = 1..Len(q) /\ DOMAIN r = 1..(Len(q) + 1)
      /\ \A k \in 1..Len(q) : r[k] = q[k] /\ q[k] \in Nat /\ q[k] < camera
      /\ \A j, k \in 1..Len(q) : j < k => q[j] < q[k]
      /\ r[Len(q) + 1] = camera
  BY QueueType DEF Joins, Growing
<1>2. \A k \in DOMAIN r : k \in 1..Len(q) \/ k = Len(q) + 1
  BY <1>1
<1>3. \A k \in DOMAIN r : r[k] \in Nat /\ r[k] < camera'
  BY <1>1, <1>2
<1>4. ASSUME NEW j \in DOMAIN r, NEW k \in DOMAIN r, j < k PROVE r[j] < r[k]
  <2>1. j \in 1..Len(q)
    BY <1>1, <1>4
  <2>2. CASE k \in 1..Len(q)
    BY <1>1, <1>4, <2>1, <2>2
  <2>3. CASE k = Len(q) + 1
    BY <1>1, <2>1, <2>3
  <2>4. QED
    BY <1>2, <2>2, <2>3
<1>5. QED
  BY <1>3, <1>4

LEMMA GrowingLeave ==
  ASSUME NEW q, NEW r, Leaves(q, r), Growing(q)
  PROVE  /\ \A k \in DOMAIN r : r[k] < camera
         /\ \A j, k \in DOMAIN r : j < k => r[j] < r[k]
<1>1. \A k \in DOMAIN r : k \in Nat /\ k + 1 \in DOMAIN q /\ r[k] = q[k + 1]
  BY DEF Leaves
<1>2. \A j, k \in DOMAIN r : j < k => j + 1 < k + 1
  BY <1>1
<1>3. QED
  BY <1>1, <1>2 DEF Growing

LEMMA FramesStep ==
  ASSUME TypeOK, FramesKept, [Next]_vars
  PROVE  FramesKept'
<1>0. /\ imageIn \in Seq(Frame) /\ dispatchIn \in Seq(Frame) /\ camera \in Nat
      /\ imageIn \in Seq(Nat) /\ dispatchIn \in Seq(Nat)
  BY Sizes DEF TypeOK
<1>1. Cardinality(FramesHeld)' <= VdoFrames
  <2>1. IsFiniteSet(FramesHeld) /\ Cardinality(FramesHeld) \in Nat /\ VdoFrames \in Nat
    BY HeldFinite, PoolAssumption
  <2>2. CASE FramesHeld' \subseteq FramesHeld
    <3>1. Cardinality(FramesHeld') <= Cardinality(FramesHeld) /\ IsFiniteSet(FramesHeld')
      BY <2>1, <2>2, FS_Subset
    <3>2. Cardinality(FramesHeld') \in Nat
      BY <3>1, FS_CardinalityType
    <3>3. QED
      BY <2>1, <3>1, <3>2 DEF FramesKept
  <2>3. CASE Capture /\ FramesHeld' \subseteq FramesHeld \cup {camera}
    <3>1. Cardinality(FramesHeld) < VdoFrames
      BY <2>3 DEF Capture
    <3>2. /\ IsFiniteSet(FramesHeld \cup {camera})
          /\ Cardinality(FramesHeld \cup {camera}) <= Cardinality(FramesHeld) + 1
          /\ Cardinality(FramesHeld \cup {camera}) \in Nat
      BY <2>1, FS_AddElement
    <3>3. Cardinality(FramesHeld') <= Cardinality(FramesHeld \cup {camera})
            /\ IsFiniteSet(FramesHeld')
      BY <2>3, <3>2, FS_Subset
    <3>4. Cardinality(FramesHeld') \in Nat
      BY <3>3, FS_CardinalityType
    <3>5. QED
      BY <2>1, <3>1, <3>2, <3>3, <3>4
  <2>4. QED
    BY <2>2, <2>3, HeldNext
<1>2. CASE Capture
  <2>1. /\ imageIn' = Append(imageIn, camera) /\ dispatchIn' = Append(dispatchIn, camera)
        /\ camera' = camera + 1
    BY <1>2 DEF Capture
  <2>2. Joins(imageIn, imageIn', camera) /\ Joins(dispatchIn, dispatchIn', camera)
    BY <1>0, <2>1, JoinsQueue
  <2>3. QED
    BY <1>0, <1>1, <2>1, <2>2, GrowingJoin DEF FramesKept, Growing
<1>3. CASE Dispatch
  <2>1. UNCHANGED <<camera, imageIn>> /\ Leaves(dispatchIn, dispatchIn')
    BY <1>0, <1>3, LeavesQueue DEF Dispatch
  <2>2. QED
    BY <1>1, <2>1, GrowingLeave DEF FramesKept, Growing
<1>4. CASE ImageReceive
  <2>1. UNCHANGED <<camera, dispatchIn>> /\ Leaves(imageIn, imageIn')
    BY <1>0, <1>4, LeavesQueue DEF ImageReceive
  <2>2. QED
    BY <1>1, <2>1, GrowingLeave DEF FramesKept, Growing
<1>5. CASE UNCHANGED <<imageIn, dispatchIn>> /\ camera' \in {camera, camera + 1}
  <2>1. \A k :
          (k \in DOMAIN imageIn => imageIn[k] \in Nat) /\ (k \in DOMAIN dispatchIn => dispatchIn[k] \in Nat)
    BY <1>0, QueueType
  <2>2. \A f \in Nat : f < camera => f < camera'
    BY <1>0, <1>5
  <2>3. QED
    BY <1>1, <1>5, <2>1, <2>2 DEF FramesKept, Growing
<1>6. CASE Skip \/ Sync \/ ResultReceive \/ ResultBegin \/ ImageBegin \/ UNCHANGED vars
  BY <1>5, <1>6 DEF Skip, Sync, ResultReceive, ResultBegin, ImageBegin, vars, queues, senders
<1>7. ASSUME NEW sent \in BOOLEAN, ResultEnd(sent) \/ ImageEnd(sent) PROVE FramesKept'
  BY <1>5, <1>7 DEF ResultEnd, ImageEnd, queues
<1>8. ASSUME NEW n \in Nets,
             NetTakesFrame(n) \/ NetTakesTensor(n) \/ NetSendsResult(n) \/ NetHasNoResult(n)
      PROVE  FramesKept'
  BY <1>5, <1>8 DEF NetTakesFrame, NetTakesTensor, NetSendsResult, NetHasNoResult, queues, senders
<1>9. QED
  BY <1>2, <1>3, <1>4, <1>6, <1>7, <1>8 DEF Next

-----------------------------------------------------------------------------
(* The buffers of the results                                              *)

LEMMA TensorsAre ==
  \A n : TensorsHeld(n) = (IF net[n].pc = "run" THEN 1 ELSE 0) + Len(syncIn[n])
                         + Cardinality(OfNet(resultIn, n))
                         + (IF resultTx.frame # NoFrame /\ NetOf(resultTx.frame) = n THEN 1 ELSE 0)
BY DEF TensorsHeld, OfNet

LEMMA TensorsStep ==
  ASSUME TypeOK, FramesPlaced, TensorsKept, [Next]_vars
  PROVE  TensorsKept'
<1>0. /\ net \in [Nets -> Thread] /\ syncIn \in [Nets -> Seq(Frame)] /\ sel \in Nets
      /\ resultIn \in Seq(Frame) /\ resultTx \in Sender
      /\ \A n \in Nets : syncIn[n] \in Seq(Frame) /\ Len(syncIn[n]) \in Nat
      /\ Tensors \in Nat /\ Len(resultIn) \in Nat /\ DOMAIN resultIn = 1..Len(resultIn)
  BY PoolAssumption, QueueType DEF TypeOK, Thread, Sender
<1> DEFINE R(n) == Cardinality(OfNet(resultIn, n))
           S(n) == Len(syncIn[n])
           Tx(n) == IF resultTx.frame # NoFrame /\ NetOf(resultTx.frame) = n THEN 1 ELSE 0
           Run(n) == IF net[n].pc = "run" THEN 1 ELSE 0
           R1(n) == Cardinality(OfNet(resultIn', n))
           S1(n) == Len(syncIn'[n])
           Tx1(n) == IF resultTx'.frame # NoFrame /\ NetOf(resultTx'.frame) = n THEN 1 ELSE 0
           Run1(n) == IF net'[n].pc = "run" THEN 1 ELSE 0
<1>1. \A n \in Nets : R(n) \in Nat /\ S(n) \in Nat /\ Tx(n) \in {0, 1} /\ Run(n) \in {0, 1}
  BY <1>0, OfNetFinite
<1>2. \A n \in Nets : Run(n) + S(n) + R(n) + Tx(n) <= Tensors
  BY TensorsAre DEF TensorsKept
<1>3. SUFFICES \A n \in Nets : Run1(n) + S1(n) + R1(n) + Tx1(n) <= Tensors
  BY DEF TensorsKept, TensorsHeld, OfNet
<1>4. ASSUME UNCHANGED <<net, syncIn, resultIn>>,
             resultTx'.frame = resultTx.frame \/ resultTx'.frame = NoFrame
      PROVE  \A n \in Nets : Run1(n) + S1(n) + R1(n) + Tx1(n) <= Tensors
  <2>1. \A n \in Nets : Run1(n) = Run(n) /\ S1(n) = S(n) /\ R1(n) = R(n) /\ Tx1(n) \in {0, Tx(n)}
    BY <1>4
  <2> HIDE DEF R, S, Tx, Run, R1, S1, Tx1, Run1
  <2>2. ASSUME NEW n \in Nets PROVE Run1(n) + S1(n) + R1(n) + Tx1(n) <= Tensors
    <3>1. /\ R(n) \in Nat /\ S(n) \in Nat /\ Tx(n) \in {0, 1} /\ Run(n) \in {0, 1}
               /\ Tensors \in Nat
          /\ Run(n) + S(n) + R(n) + Tx(n) <= Tensors
      BY <1>0, <1>1, <1>2
    <3>2. Run1(n) = Run(n) /\ S1(n) = S(n) /\ R1(n) = R(n) /\ Tx1(n) \in {0, Tx(n)}
      BY <2>1
    <3>3. QED
      BY <3>1, <3>2
  <2>3. QED
    BY <2>2
<1>5. CASE Skip \/ Capture \/ Dispatch \/ ResultBegin \/ ImageReceive \/ ImageBegin
             \/ UNCHANGED vars
  <2>1. UNCHANGED <<net, syncIn, resultIn>> /\ resultTx'.frame = resultTx.frame
    BY <1>0, <1>5 DEF Skip, Capture, Dispatch, ResultBegin, ImageReceive, ImageBegin, vars, queues,
                      senders, Sender
  <2> HIDE DEF R, S, Tx, Run, R1, S1, Tx1, Run1
  <2>2. QED
    BY <1>4, <2>1
<1>6. ASSUME NEW sent \in BOOLEAN, ResultEnd(sent) \/ ImageEnd(sent)
      PROVE  UNCHANGED <<net, syncIn, resultIn>>
               /\ (resultTx'.frame = resultTx.frame \/ resultTx'.frame = NoFrame)
  BY <1>6 DEF ResultEnd, ImageEnd, queues
<1>7. CASE Sync
  <2>1. /\ UNCHANGED <<net, resultTx>> /\ Leaves(syncIn[sel], syncIn'[sel])
        /\ \A n \in Nets \ {sel} : syncIn'[n] = syncIn[n]
        /\ Joins(resultIn, resultIn', Head(syncIn[sel]))
    BY <1>0, <1>7, LeavesQueue, JoinsQueue DEF Sync, senders
  <2>2. NetOf(Head(syncIn[sel])) = sel
    <3>1. Head(syncIn[sel]) = syncIn[sel][1] /\ 1 \in DOMAIN syncIn[sel]
      BY <2>1 DEF Leaves
    <3>2. \A k \in DOMAIN syncIn[sel] : NetOf(syncIn[sel][k]) = sel
      BY <1>0 DEF FramesPlaced
    <3>3. QED
      BY <3>1, <3>2
  <2>3. \A n \in Nets : R1(n) = R(n) + (IF n = sel THEN 1 ELSE 0)
    BY <2>1, <2>2, JoinsCount
  <2>4. S1(sel) = S(sel) - 1 /\ \A n \in Nets \ {sel} : S1(n) = S(n)
    BY <2>1 DEF Leaves
  <2>5. \A n \in Nets : Run1(n) = Run(n) /\ Tx1(n) = Tx(n)
    BY <2>1
  <2> HIDE DEF R, S, Tx, Run, R1, S1, Tx1, Run1
  <2>6. ASSUME NEW n \in Nets PROVE Run1(n) + S1(n) + R1(n) + Tx1(n) <= Tensors
    <3>1. /\ R(n) \in Nat /\ S(n) \in Nat /\ Tx(n) \in {0, 1} /\ Run(n) \in {0, 1}
               /\ Tensors \in Nat
          /\ Run(n) + S(n) + R(n) + Tx(n) <= Tensors
      BY <1>0, <1>1, <1>2
    <3>2. \/ R1(n) = R(n) + 1 /\ S1(n) = S(n) - 1
          \/ R1(n) = R(n) /\ S1(n) = S(n)
      <4>1. CASE n = sel
        BY <2>3, <2>4, <4>1
      <4>2. CASE n # sel
        <5>1. R1(n) = R(n) + 0
          BY <2>3, <4>2
        <5>2. QED
          BY <2>4, <3>1, <4>2, <5>1
      <4>3. QED
        BY <4>1, <4>2
    <3>3. Run1(n) = Run(n) /\ Tx1(n) = Tx(n)
      BY <2>5
    <3>4. QED
      BY <3>1, <3>2, <3>3
  <2>7. QED
    BY <2>6
<1>8. CASE ResultReceive
  <2>1. /\ UNCHANGED <<net, syncIn>> /\ Leaves(resultIn, resultIn')
             /\ resultTx'.frame = Head(resultIn)
        /\ Head(resultIn) \in Frame
    BY <1>0, <1>8, LeavesQueue DEF ResultReceive
  <2>2. \A n \in Nets : R(n) = R1(n) + Tx1(n)
    BY <2>1, LeavesCount, Sizes
  <2>3. \A n : R1(n) \in Nat /\ Tx1(n) \in {0, 1}
    <3>1. Len(resultIn') \in Nat /\ DOMAIN resultIn' = 1..Len(resultIn')
      BY <2>1 DEF Leaves
    <3>2. QED
      BY <3>1, OfNetFinite
  <2>4. \A n \in Nets : Run1(n) = Run(n) /\ S1(n) = S(n)
    BY <2>1
  <2> HIDE DEF R, S, Tx, Run, R1, S1, Tx1, Run1
  <2>5. ASSUME NEW n \in Nets PROVE Run1(n) + S1(n) + R1(n) + Tx1(n) <= Tensors
    <3>1. /\ R(n) \in Nat /\ S(n) \in Nat /\ Tx(n) \in {0, 1} /\ Run(n) \in {0, 1}
               /\ Tensors \in Nat
          /\ Run(n) + S(n) + R(n) + Tx(n) <= Tensors
      BY <1>0, <1>1, <1>2
    <3>2. /\ Run1(n) = Run(n) /\ S1(n) = S(n) /\ R(n) = R1(n) + Tx1(n)
          /\ R1(n) \in Nat /\ Tx1(n) \in {0, 1}
      BY <2>2, <2>3, <2>4
    <3>3. QED
      BY <3>1, <3>2
  <2>6. QED
    BY <2>5
<1>9. ASSUME NEW n \in Nets,
             NetTakesFrame(n) \/ NetTakesTensor(n) \/ NetSendsResult(n) \/ NetHasNoResult(n)
      PROVE  /\ UNCHANGED <<resultIn, resultTx>>
             /\ \A m \in Nets \ {n} : net'[m] = net[m] /\ syncIn'[m] = syncIn[m]
             /\ \/ net'[n].pc # "run" /\ syncIn'[n] = syncIn[n]
                \/ net'[n].pc # "run" /\ net[n].pc = "run" /\ Len(syncIn'[n]) = Len(syncIn[n]) + 1
                \/ net[n].pc # "run" /\ TensorsHeld(n) < Tensors /\ syncIn'[n] = syncIn[n]
  <2>1. CASE NetTakesFrame(n) \/ NetHasNoResult(n)
    BY <1>0, <2>1 DEF NetTakesFrame, NetHasNoResult, queues, senders
  <2>2. CASE NetTakesTensor(n)
    BY <1>0, <2>2 DEF NetTakesTensor, queues, senders
  <2>3. CASE NetSendsResult(n)
    <3>1. net[n].frame \in Frame
      BY <1>0, <2>3 DEF NetSendsResult, FramesPlaced, Thread
    <3>2. Len(Append(syncIn[n], net[n].frame)) = Len(syncIn[n]) + 1
      BY <1>0, <3>1
    <3>3. QED
      BY <1>0, <2>3, <3>2 DEF NetSendsResult, senders
  <2>4. QED
    BY <1>9, <2>1, <2>2, <2>3
<1>10. ASSUME NEW n \in Nets,
              NetTakesFrame(n) \/ NetTakesTensor(n) \/ NetSendsResult(n) \/ NetHasNoResult(n),
              NEW m \in Nets
       PROVE  Run1(m) + S1(m) + R1(m) + Tx1(m) <= Tensors
  <2>0. R1(m) = R(m) /\ Tx1(m) = Tx(m)
    BY <1>9, <1>10
  <2>1. \/ Run1(m) = Run(m) /\ S1(m) = S(m)
        \/ Run1(m) = 0 /\ S1(m) = S(m)
        \/ Run1(m) = 0 /\ Run(m) = 1 /\ S1(m) = S(m) + 1
        \/ Run1(m) \in {0, 1} /\ Run(m) = 0 /\ S1(m) = S(m) /\ TensorsHeld(m) < Tensors
    BY <1>9, <1>10
  <2>2. TensorsHeld(m) = Run(m) + S(m) + R(m) + Tx(m)
    BY TensorsAre
  <2> HIDE DEF R, S, Tx, Run, R1, S1, Tx1, Run1
  <2>3. R(m) \in Nat /\ S(m) \in Nat /\ Tx(m) \in {0, 1} /\ Run(m) \in {0, 1} /\ Tensors \in Nat
        /\ Run(m) + S(m) + R(m) + Tx(m) <= Tensors
    BY <1>0, <1>1, <1>2
  <2>4. QED
    BY <2>0, <2>1, <2>2, <2>3
<1> HIDE DEF R, S, Tx, Run, R1, S1, Tx1, Run1
<1>11. QED
  BY <1>4, <1>5, <1>6, <1>7, <1>8, <1>10 DEF Next


-----------------------------------------------------------------------------
(* The line of results                                                     *)

LEMMA PlaceTypes ==
  ASSUME TypeOK
  PROVE  /\ camera \in Nat /\ Len(imageIn) \in Nat /\ Len(dispatchIn) \in Nat
              /\ Len(resultIn) \in Nat
         /\ DOMAIN imageIn = 1..Len(imageIn) /\ DOMAIN dispatchIn = 1..Len(dispatchIn)
         /\ DOMAIN resultIn = 1..Len(resultIn)
         /\ ImagesSent \in Int /\ ResultsSent \in Int /\ Merged \in Int
         /\ \A n \in Nets : /\ Len(syncIn[n]) \in Nat /\ DOMAIN syncIn[n] = 1..Len(syncIn[n])
                            /\ Merging(n) \in Int /\ Running(n) \in Int /\ Coming(n) \in Int
                            /\ Later(n) \in Int
<1>1. /\ camera \in Nat /\ Len(imageIn) \in Nat /\ Len(dispatchIn) \in Nat /\ Len(resultIn) \in Nat
      /\ DOMAIN imageIn = 1..Len(imageIn) /\ DOMAIN dispatchIn = 1..Len(dispatchIn)
      /\ DOMAIN resultIn = 1..Len(resultIn)
      /\ \A n \in Nets : Len(syncIn[n]) \in Nat /\ DOMAIN syncIn[n] = 1..Len(syncIn[n])
  BY QueueType, Sizes DEF TypeOK
<1>2. ImagesSent \in Int
  BY <1>1 DEF ImagesSent
<1>3. ResultsSent \in Int
  BY <1>2 DEF ResultsSent
<1>4. Merged \in Int
  BY <1>1, <1>3 DEF Merged
<1>5. \A n \in Nets : Merging(n) \in Int
  BY <1>4 DEF Merging
<1>6. \A n \in Nets : Running(n) \in Int
  BY <1>1, <1>5 DEF Running
<1>7. \A n \in Nets : Coming(n) \in Int
  BY <1>6 DEF Coming
<1>8. \A n \in Nets : Later(n) \in Int
  BY <1>7 DEF Later
<1>9. QED
  BY <1>1, <1>2, <1>3, <1>4, <1>5, <1>6, <1>7, <1>8

\* Nothing moved that counts for the networks.
LEMMA PlaceBy ==
  ASSUME NEW n \in Nets, NetPlace(n), Merging(n)' = Merging(n),
         net'[n] = net[n], netIn'[n] = netIn[n], syncIn'[n] = syncIn[n],
         camera' - Len(dispatchIn') = camera - Len(dispatchIn)
  PROVE  NetPlace(n)'
<1>1. Running(n)' = Running(n)
  BY DEF Running
<1>2. Coming(n)' = Coming(n)
  BY <1>1 DEF Coming
<1>3. Later(n)' = Later(n)
  BY <1>2 DEF Later
<1>4. QED
  BY <1>1, <1>2, <1>3 DEF NetPlace

LEMMA NetLineBy ==
  ASSUME NetLine, UNCHANGED <<net, netIn, syncIn>>, \A n \in Nets : Merging(n)' = Merging(n),
         camera' - Len(dispatchIn') = camera - Len(dispatchIn)
  PROVE  NetLine'
BY PlaceBy DEF NetLine

LEMMA ResultLineBy ==
  ASSUME ResultLine, UNCHANGED <<flag, wire, resultTx, resultIn, sel>>, ImagesSent' = ImagesSent,
         wire.result \in Nat, camera \in Nat, camera' \in {camera, camera + 1}
  PROVE  /\ ResultLine' /\ ResultsSent' = ResultsSent /\ Merged' = Merged
         /\ \A n \in Nets : Merging(n)' = Merging(n)
<1>1. ResultsSent' = ResultsSent
  BY DEF ResultsSent
<1>2. Merged' = Merged
  BY <1>1 DEF Merged
<1>3. \A n \in Nets : Merging(n)' = Merging(n)
  BY <1>2 DEF Merging
<1>4. wire.result < camera => wire.result < camera'
  OBVIOUS
<1>5. QED
  BY <1>1, <1>2, <1>3, <1>4 DEF ResultLine

Line == ImageLine /\ ResultLine /\ NetLine

LEMMA JoinsNumbers ==
  ASSUME NEW c \in Nat, NEW q, NEW r, Joins(q, r, c),
         Numbered(q, c)
  PROVE  Numbered(r, c + 1)
<1>1. /\ Len(q) \in Nat /\ DOMAIN q = 1..Len(q) /\ Len(r) = Len(q) + 1
      /\ r[Len(q) + 1] = c /\ \A k \in 1..Len(q) : r[k] = q[k] /\ q[k] = c - Len(q) + k - 1
  BY DEF Joins, Numbered
<1>2. \A k \in DOMAIN r : k \in 1..Len(q) \/ k = Len(q) + 1
  BY DEF Joins
<1>3. \A k \in 1..Len(q) : r[k] = (c + 1) - Len(r) + k - 1
  BY <1>1
<1>4. r[Len(q) + 1] = (c + 1) - Len(r) + (Len(q) + 1) - 1
  BY <1>1
<1>5. QED
  BY <1>2, <1>3, <1>4 DEF Numbered

LEMMA LeavesNumbers ==
  ASSUME NEW c \in Nat, NEW q, NEW r, Leaves(q, r),
         Numbered(q, c)
  PROVE  q[1] = c - Len(q) /\ Numbered(r, c)
<1>1. /\ Len(q) \in Nat /\ Len(q) >= 1 /\ DOMAIN q = 1..Len(q) /\ Len(r) = Len(q) - 1
      /\ \A k \in DOMAIN r : k \in Nat /\ k + 1 \in DOMAIN q /\ r[k] = q[k + 1]
  BY DEF Leaves
<1>2. \A k \in DOMAIN r : r[k] = c - Len(q) + (k + 1) - 1
  BY <1>1 DEF Numbered
<1>3. q[1] = c - Len(q)
  BY <1>1 DEF Numbered
<1>4. QED
  BY <1>1, <1>2, <1>3 DEF Numbered

\* The steps before the merger.
LEMMA LineCapture ==
  ASSUME TypeOK, Line, Capture
  PROVE  Line'
<1>1. /\ UNCHANGED <<net, netIn, syncIn, flag, wire, resultTx, resultIn, sel, imageTx>>
      /\ camera' = camera + 1 /\ camera \in Frame
      /\ imageIn' = Append(imageIn, camera) /\ dispatchIn' = Append(dispatchIn, camera)
      /\ imageIn \in Seq(Frame) /\ dispatchIn \in Seq(Frame) /\ wire.result \in Nat
  BY Sizes, PlaceTypes DEF Capture, senders, TypeOK
<1>2. Joins(imageIn, imageIn', camera) /\ Joins(dispatchIn, dispatchIn', camera)
  BY <1>1, JoinsQueue
<1>3. Len(imageIn') = Len(imageIn) + 1 /\ Len(dispatchIn') = Len(dispatchIn) + 1
  BY <1>2 DEF Joins
<1>4. ImagesSent' = ImagesSent
  BY <1>1, <1>3, PlaceTypes DEF ImagesSent
<1>5. camera' - Len(dispatchIn') = camera - Len(dispatchIn)
  BY <1>1, <1>3, PlaceTypes
<1>6. ResultLine' /\ NetLine'
  BY <1>1, <1>4, <1>5, PlaceTypes, ResultLineBy, NetLineBy DEF Line
<1>7. Numbered(imageIn', camera') /\ Numbered(dispatchIn', camera')
  BY <1>1, <1>2, PlaceTypes, JoinsNumbers DEF Line, ImageLine
<1>9. imageTx'.pc # "idle" => imageTx'.frame = ImagesSent'
  BY <1>1, <1>4 DEF Line, ImageLine
<1>10. QED
  BY <1>6, <1>7, <1>9 DEF Line, ImageLine

LEMMA LineDispatch ==
  ASSUME TypeOK, Line, Dispatch
  PROVE  Line'
<1> DEFINE d == Head(dispatchIn)
<1>1. /\ UNCHANGED <<net, syncIn, flag, wire, resultTx, resultIn, sel, imageTx, imageIn, camera>>
      /\ netIn' = [netIn EXCEPT ![NetOf(d)] = d] /\ netIn \in [Nets -> Frame \cup {NoFrame}]
      /\ dispatchIn' = Tail(dispatchIn) /\ dispatchIn # <<>> /\ dispatchIn \in Seq(Frame)
      /\ wire.result \in Nat
  BY Sizes DEF Dispatch, senders, TypeOK
<1>2. Leaves(dispatchIn, dispatchIn') /\ d \in Frame
  BY <1>1, LeavesQueue
<1>3. ImagesSent' = ImagesSent
  BY <1>1 DEF ImagesSent
<1>4. ResultLine' /\ \A n \in Nets : Merging(n)' = Merging(n)
  BY <1>1, <1>3, PlaceTypes, ResultLineBy DEF Line
<1>5. /\ Len(dispatchIn') = Len(dispatchIn) - 1 /\ d = dispatchIn[1] /\ Len(dispatchIn) >= 1
      /\ \A k \in DOMAIN dispatchIn' :
           k \in Nat /\ k + 1 \in DOMAIN dispatchIn /\ dispatchIn'[k] = dispatchIn[k + 1]
  BY <1>2, PlaceTypes DEF Leaves
<1>6. d = camera - Len(dispatchIn)
  BY <1>2, <1>5, PlaceTypes, LeavesNumbers DEF Line, ImageLine
<1>7. Numbered(dispatchIn', camera)
  BY <1>2, PlaceTypes, LeavesNumbers DEF Line, ImageLine
<1>8. ImageLine'
  BY <1>1, <1>3, <1>7 DEF Line, ImageLine
<1>9. \A n \in Nets : Running(n)' = Running(n)
  BY <1>1, <1>4 DEF Running
<1>10. \A n \in Nets : Coming(n)' = Coming(n)
  BY <1>1, <1>9 DEF Coming
<1>11. d \in Nat /\ NetOf(d) \in Nets /\ d # NoFrame
  BY <1>2, Parity, Sizes
<1>12. netIn'[NetOf(d)] = d /\ \A n \in Nets \ {NetOf(d)} : netIn'[n] = netIn[n]
  BY <1>1, <1>11
<1>13. camera' - Len(dispatchIn') = d + 1
  BY <1>1, <1>5, <1>6, PlaceTypes
<1> HIDE DEF d
<1>14. ASSUME NEW n \in Nets, n # NetOf(d)
       PROVE  /\ netIn'[n] # NoFrame => netIn'[n] >= Coming(n)'
              /\ \A f \in Frame : f >= camera' - Len(dispatchIn') /\ NetOf(f) = n => f >= Later(n)'
  <2>1. netIn'[n] = netIn[n] /\ Later(n)' = Later(n)
    BY <1>10, <1>12, <1>14 DEF Later
  <2>2. \A f \in Frame : f >= d + 1 => f >= d
    BY <1>11, Sizes
  <2>3. QED
    BY <1>6, <1>10, <1>13, <2>1, <2>2 DEF Line, NetLine, NetPlace
<1>15. ASSUME NEW n \in Nets, n = NetOf(d)
       PROVE  /\ netIn'[n] # NoFrame => netIn'[n] >= Coming(n)'
              /\ \A f \in Frame : f >= camera' - Len(dispatchIn') /\ NetOf(f) = n => f >= Later(n)'
  <2>1. Later(n)' = Coming(n) + 2
    BY <1>10, <1>11, <1>12, <1>15 DEF Later
  <2>2. d >= Later(n)
    <3>1. \A f \in Frame : f >= d /\ NetOf(f) = n => f >= Later(n)
      BY <1>6 DEF Line, NetLine, NetPlace
    <3>2. QED
      BY <1>2, <1>11, <1>15, <3>1
  <2>3. Later(n) \in {Coming(n), Coming(n) + 2} /\ Coming(n) \in Int
    BY PlaceTypes DEF Later
  <2>4. d >= Coming(n)
    BY <1>11, <2>2, <2>3
  <2>5. ASSUME NEW f \in Frame, f >= d + 1, NetOf(f) = n PROVE f >= Coming(n) + 2
    <3>1. f \in Nat /\ f >= d + 2
      <4>1. f \in Nat /\ f > d
        BY <1>11, <2>5, Sizes
      <4>2. QED
        BY <1>11, <1>15, <2>5, <4>1, Parity
    <3>2. QED
      BY <1>11, <2>3, <2>4, <3>1
  <2>6. QED
    BY <1>10, <1>12, <1>13, <1>15, <2>1, <2>4, <2>5
<1>16. NetLine'
  BY <1>1, <1>4, <1>9, <1>14, <1>15 DEF Line, NetLine, NetPlace
<1>17. QED
  BY <1>4, <1>8, <1>16 DEF Line


\* The networks and the merger.
LEMMA LineNet ==
  ASSUME TypeOK, FramesPlaced, Line, NEW n \in Nets,
         NetTakesFrame(n) \/ NetTakesTensor(n) \/ NetSendsResult(n)
  PROVE  Line'
<1>0. /\ net \in [Nets -> Thread] /\ netIn \in [Nets -> Frame \cup {NoFrame}]
      /\ syncIn \in [Nets -> Seq(Frame)] /\ wire.result \in Nat /\ syncIn[n] \in Seq(Frame)
      /\ camera \in Nat
  BY Sizes DEF TypeOK, Thread
<1>1. /\ UNCHANGED <<camera, imageIn, dispatchIn, resultIn, sel, flag, resultTx, imageTx, wire>>
      /\ \A m \in Nets \ {n} : net'[m] = net[m] /\ netIn'[m] = netIn[m] /\ syncIn'[m] = syncIn[m]
  BY <1>0 DEF NetTakesFrame, NetTakesTensor, NetSendsResult, queues, senders
<1>2. ImagesSent' = ImagesSent
  BY <1>1 DEF ImagesSent
<1>3. ImageLine'
  BY <1>1, <1>2 DEF Line, ImageLine, Numbered
<1>4. ResultLine' /\ \A m \in Nets : Merging(m)' = Merging(m)
  BY <1>0, <1>1, <1>2, ResultLineBy DEF Line
<1>5. \A m \in Nets \ {n} : NetPlace(m)'
  BY <1>1, <1>4, PlaceBy DEF Line, NetLine
<1>6. NetPlace(n) /\ Merging(n)' = Merging(n) /\ Merging(n) \in Int /\ Len(syncIn[n]) \in Nat
      /\ Running(n) \in Int /\ Coming(n) \in Int
  BY <1>4, PlaceTypes DEF Line, NetLine
<1>7. ASSUME NetTakesFrame(n) PROVE NetPlace(n)'
  <2>1. /\ netIn[n] # NoFrame /\ net[n].pc = "frame" /\ net'[n].pc = "tensor"
             /\ net'[n].frame = netIn[n]
        /\ netIn'[n] = NoFrame /\ syncIn'[n] = syncIn[n]
    BY <1>0, <1>7 DEF NetTakesFrame
  <2>2. Running(n)' = Running(n) /\ Coming(n) = Running(n) /\ Coming(n)' = Running(n) + 2
    BY <1>6, <2>1 DEF Running, Coming
  <2>3. Later(n)' = Later(n)
    BY <1>6, <2>1, <2>2 DEF Later
  <2>4. QED
    BY <1>1, <1>6, <2>1, <2>2, <2>3 DEF NetPlace
<1>8. ASSUME NetTakesTensor(n) PROVE NetPlace(n)'
  <2>1. /\ netIn' = netIn /\ net[n].pc # "frame" /\ net'[n].pc # "frame"
             /\ net'[n].frame = net[n].frame
        /\ syncIn' = syncIn
    BY <1>0, <1>8 DEF NetTakesTensor, queues, Thread
  <2>2. Running(n)' = Running(n)
    BY <1>6, <2>1 DEF Running
  <2>3. Coming(n)' = Coming(n)
    BY <2>1, <2>2 DEF Coming
  <2>4. Later(n)' = Later(n)
    BY <2>1, <2>3 DEF Later
  <2>5. QED
    BY <1>1, <1>6, <2>1, <2>2, <2>3, <2>4 DEF NetPlace
<1>9. ASSUME NetSendsResult(n) PROVE NetPlace(n)'
  <2>1. /\ netIn' = netIn /\ net[n].pc = "run" /\ net'[n].pc = "frame"
        /\ syncIn'[n] = Append(syncIn[n], net[n].frame)
    BY <1>0, <1>9 DEF NetSendsResult
  <2>2. net[n].frame \in Frame
    BY <1>0, <2>1 DEF FramesPlaced, Thread
  <2>3. Joins(syncIn[n], syncIn'[n], net[n].frame)
    BY <1>0, <2>1, <2>2, JoinsQueue
  <2>4. Len(syncIn'[n]) = Len(syncIn[n]) + 1
    BY <2>3 DEF Joins
  <2>5. Running(n) = Merging(n) + 2 * Len(syncIn[n])
    BY DEF Running
  <2>6. Running(n)' = Running(n) + 2
    BY <1>6, <2>4 DEF Running
  <2>7. Coming(n)' = Coming(n)
    BY <1>6, <2>1, <2>6 DEF Coming
  <2>8. Later(n)' = Later(n)
    BY <2>1, <2>7 DEF Later
  <2>9. \A k \in DOMAIN syncIn'[n] : syncIn'[n][k] >= Merging(n) + 2 * (k - 1)
    <3>1. \A k \in DOMAIN syncIn'[n] :
            (k \in DOMAIN syncIn[n] /\ syncIn'[n][k] = syncIn[n][k]) \/ k = Len(syncIn[n]) + 1
      BY <2>3 DEF Joins
    <3>2. syncIn'[n][Len(syncIn[n]) + 1] >= Merging(n) + 2 * ((Len(syncIn[n]) + 1) - 1)
      <4>1. net[n].frame >= Running(n) /\ syncIn'[n][Len(syncIn[n]) + 1] = net[n].frame
        BY <1>6, <2>1, <2>3 DEF NetPlace, Joins
      <4>2. (Len(syncIn[n]) + 1) - 1 = Len(syncIn[n])
        BY <1>6
      <4>3. QED
        BY <2>5, <4>1, <4>2
    <3>3. QED
      BY <1>6, <3>1, <3>2 DEF NetPlace
  <2>10. QED
    BY <1>1, <1>6, <2>1, <2>7, <2>8, <2>9 DEF NetPlace
<1>10. QED
  BY <1>3, <1>4, <1>5, <1>7, <1>8, <1>9 DEF Line, NetLine

LEMMA LineSync ==
  ASSUME TypeOK, Line, Sync
  PROVE  Line'
<1>0. /\ syncIn \in [Nets -> Seq(Frame)] /\ wire.result \in Nat /\ syncIn[sel] \in Seq(Frame)
      /\ camera \in Nat /\ sel \in Nets /\ resultIn \in Seq(Frame)
  BY Sizes DEF TypeOK
<1>1. /\ UNCHANGED <<camera, imageIn, dispatchIn, net, netIn, flag, resultTx, imageTx, wire>>
      /\ syncIn[sel] # <<>> /\ syncIn'[sel] = Tail(syncIn[sel])
      /\ \A m \in Nets \ {sel} : syncIn'[m] = syncIn[m]
      /\ resultIn' = Append(resultIn, Head(syncIn[sel])) /\ sel' = 1 - sel
  BY <1>0 DEF Sync, senders
<1>2. Leaves(syncIn[sel], syncIn'[sel]) /\ Joins(resultIn, resultIn', Head(syncIn[sel]))
  BY <1>0, <1>1, LeavesQueue, JoinsQueue
<1>3. ImagesSent' = ImagesSent /\ ResultsSent' = ResultsSent
  BY <1>1 DEF ImagesSent, ResultsSent
<1>4. ImageLine'
  BY <1>1, <1>3 DEF Line, ImageLine, Numbered
<1>5. Len(resultIn') = Len(resultIn) + 1 /\ Len(resultIn) \in Nat
  BY <1>2 DEF Joins
<1>6. Merged' = Merged + 1 /\ Merged \in Int
  <2>1. ResultsSent \in Int /\ Merged \in Int /\ resultTx' = resultTx
    BY <1>1, PlaceTypes
  <2>2. QED
    BY <1>3, <1>5, <2>1 DEF Merged
<1>7. sel = Merged % 2 /\ sel' = Merged' % 2
  <2>1. \A z \in Int : (z + 1) % 2 = 1 - (z % 2)
    OBVIOUS
  <2>2. QED
    BY <1>1, <1>6, <2>1 DEF Line, ResultLine
<1>8. Head(syncIn[sel]) >= Merged
  <2>1. Head(syncIn[sel]) = syncIn[sel][1] /\ 1 \in DOMAIN syncIn[sel]
    BY <1>2 DEF Leaves
  <2>2. NetPlace(sel)
    BY <1>0 DEF Line, NetLine
  <2>3. Head(syncIn[sel]) >= Merging(sel) + 2 * (1 - 1)
    BY <2>1, <2>2 DEF NetPlace
  <2>4. Merging(sel) + 2 * (1 - 1) = Merged
    BY <1>6 DEF Merging
  <2>5. QED
    BY <2>3, <2>4
<1>9. \A k \in DOMAIN resultIn' : resultIn'[k] >= Merged' - Len(resultIn') + k - 1
  <2>1. \A k \in DOMAIN resultIn' :
          k \in Nat /\ ((k \in DOMAIN resultIn /\ resultIn'[k] = resultIn[k]) \/ k = Len(resultIn) + 1)
    BY <1>2 DEF Joins
  <2>2. resultIn'[Len(resultIn) + 1] = Head(syncIn[sel])
    BY <1>2 DEF Joins
  <2>3. Merged' - Len(resultIn') + (Len(resultIn) + 1) - 1 = Merged
    BY <1>5, <1>6
  <2>4. \A k \in Nat : Merged' - Len(resultIn') + k - 1 = Merged - Len(resultIn) + k - 1
    BY <1>5, <1>6
  <2>5. QED
    BY <1>8, <2>1, <2>2, <2>3, <2>4 DEF Line, ResultLine
<1>10. ResultLine'
  BY <1>1, <1>3, <1>7, <1>9 DEF Line, ResultLine
<1>11. \A n \in Nets : Merging(n)' = IF n = sel THEN Merging(n) + 2 ELSE Merging(n)
  <2>1. \A n \in Nets : n = 0 \/ n = 1
    BY DEF Nets
  <2>2. sel \in {0, 1}
    BY <1>0 DEF Nets
  <2>3. ASSUME NEW n \in Nets, n = sel PROVE Merging(n)' = Merging(n) + 2
    <3>1. n # sel'
      BY <1>1, <2>2, <2>3
    <3>2. QED
      BY <1>6, <2>3, <3>1 DEF Merging
  <2>4. ASSUME NEW n \in Nets, n # sel PROVE Merging(n)' = Merging(n)
    <3>1. n = sel'
      BY <1>1, <2>1, <2>2, <2>4
    <3>2. QED
      BY <1>6, <2>4, <3>1 DEF Merging
  <2>5. QED
    BY <2>3, <2>4
<1>12. \A m \in Nets \ {sel} : NetPlace(m)'
  BY <1>1, <1>11, PlaceBy DEF Line, NetLine
<1>13. ASSUME NEW n \in Nets, n = sel PROVE NetPlace(n)'
  <2>1. NetPlace(n) /\ Merging(n)' = Merging(n) + 2 /\ Merging(n) \in Int /\ Len(syncIn[n]) \in Nat
    BY <1>11, <1>13, PlaceTypes DEF Line, NetLine
  <2>0. Leaves(syncIn[n], syncIn'[n])
    BY <1>2, <1>13
  <2>2. Len(syncIn'[n]) = Len(syncIn[n]) - 1
    BY <2>0 DEF Leaves
  <2>3. Running(n)' = Running(n)
    BY <2>1, <2>2 DEF Running
  <2>4. Coming(n)' = Coming(n)
    BY <1>1, <2>3 DEF Coming
  <2>5. Later(n)' = Later(n)
    BY <1>1, <2>4 DEF Later
  <2>6. \A k \in DOMAIN syncIn'[n] :
          k \in Nat /\ k + 1 \in DOMAIN syncIn[n] /\ syncIn'[n][k] = syncIn[n][k + 1]
    BY <2>0 DEF Leaves
  <2>7. \A k \in Nat : Merging(n)' + 2 * (k - 1) = Merging(n) + 2 * ((k + 1) - 1)
    BY <2>1
  <2>8. \A k \in DOMAIN syncIn'[n] : syncIn'[n][k] >= Merging(n)' + 2 * (k - 1)
    BY <2>1, <2>6, <2>7 DEF NetPlace
  <2>9. QED
    BY <1>1, <2>1, <2>3, <2>4, <2>5, <2>8 DEF NetPlace
<1>14. NetLine'
  BY <1>12, <1>13 DEF NetLine
<1>15. QED
  BY <1>4, <1>10, <1>14 DEF Line


\* The senders.
LEMMA LineReceive ==
  ASSUME TypeOK, Line, ResultReceive
  PROVE  Line'
<1>0. wire.result \in Nat /\ camera \in Nat /\ resultIn \in Seq(Frame)
  BY Sizes DEF TypeOK
<1>1. /\ UNCHANGED <<camera, imageIn, dispatchIn, net, netIn, syncIn, sel, flag, imageTx, wire>>
      /\ resultIn # <<>> /\ resultIn' = Tail(resultIn)
      /\ resultTx.pc = "idle" /\ resultTx'.pc = "wait" /\ resultTx'.frame = Head(resultIn)
  BY DEF ResultReceive
<1>2. Leaves(resultIn, resultIn')
  BY <1>0, <1>1, LeavesQueue
<1>3. ImagesSent' = ImagesSent /\ ResultsSent' = ResultsSent
  BY <1>1 DEF ImagesSent, ResultsSent
<1>4. ImageLine'
  BY <1>1, <1>3 DEF Line, ImageLine, Numbered
<1>5. /\ Len(resultIn') = Len(resultIn) - 1 /\ Len(resultIn) \in Nat /\ Len(resultIn) >= 1
      /\ Head(resultIn) = resultIn[1] /\ 1 \in DOMAIN resultIn
  BY <1>2 DEF Leaves
<1>6. ResultsSent \in Int /\ Merged = ResultsSent + Len(resultIn) /\ Merged' = Merged
  <2>1. ResultsSent \in Int
    BY PlaceTypes
  <2>2. QED
    BY <1>1, <1>3, <1>5, <2>1 DEF Merged
<1>7. Head(resultIn) >= ResultsSent
  <2>1. resultIn[1] >= Merged - Len(resultIn) + 1 - 1
    BY <1>5 DEF Line, ResultLine
  <2>2. Merged - Len(resultIn) + 1 - 1 = ResultsSent
    BY <1>5, <1>6
  <2>3. QED
    BY <1>5, <2>1, <2>2
<1>8. \A k \in DOMAIN resultIn' : resultIn'[k] >= Merged - Len(resultIn') + k - 1
  <2>1. \A k \in DOMAIN resultIn' :
          k \in Nat /\ k + 1 \in DOMAIN resultIn /\ resultIn'[k] = resultIn[k + 1]
    BY <1>2 DEF Leaves
  <2>2. \A k \in Nat : Merged - Len(resultIn) + (k + 1) - 1 = Merged - Len(resultIn') + k - 1
    BY <1>5, <1>6
  <2>3. QED
    BY <2>1, <2>2 DEF Line, ResultLine
<1>9. ResultLine'
  BY <1>1, <1>3, <1>6, <1>7, <1>8 DEF Line, ResultLine
<1>10. \A n \in Nets : Merging(n)' = Merging(n)
  BY <1>1, <1>6 DEF Merging
<1>11. NetLine'
  BY <1>1, <1>10, NetLineBy DEF Line
<1>12. QED
  BY <1>4, <1>9, <1>11 DEF Line

LEMMA LineResult ==
  ASSUME TypeOK, FramesPlaced, TurnsKept, Line, ResultEnd(TRUE)
  PROVE  Line' /\ wire'.part = "header"
<1>0. wire.result \in Nat /\ camera \in Nat /\ resultTx \in Sender
      /\ wire \in [part : {"none", "header", "image"},
                   result : Frame \cup {NoFrame}, image : Frame \cup {NoFrame}]
  BY Sizes DEF TypeOK, Sender
<1>1. /\ UNCHANGED <<camera, imageIn, dispatchIn, resultIn, net, netIn, syncIn, sel, imageTx>>
      /\ flag = 0 /\ flag' = 5 /\ resultTx.pc = "send" /\ resultTx'.pc = "idle"
      /\ wire' = [wire EXCEPT !.part = "header", !.result = resultTx.frame]
  BY DEF ResultEnd, TurnsKept, queues
<1>2. wire'.result = resultTx.frame /\ wire'.part = "header"
  BY <1>0, <1>1
<1>3. ImagesSent' = ImagesSent
  BY <1>1 DEF ImagesSent
<1>4. ImageLine'
  BY <1>1, <1>3 DEF Line, ImageLine, Numbered
<1>5. ResultsSent = ImagesSent /\ ResultsSent' = ResultsSent + 1
  BY <1>1, <1>3, PlaceTypes DEF ResultsSent
<1>6. Merged' = Merged
  <2>1. ResultsSent \in Int /\ Len(resultIn) \in Nat
    BY PlaceTypes
  <2>2. Merged = ResultsSent + 1 + Len(resultIn) /\ Merged' = ResultsSent + 1 + 0 + Len(resultIn)
    BY <1>1, <1>5 DEF Merged
  <2>3. QED
    BY <2>1, <2>2
<1>7. resultTx.frame >= ImagesSent /\ resultTx.frame < camera
  BY <1>1, <1>5 DEF Line, ResultLine, FramesPlaced
<1>8. ResultLine'
  BY <1>1, <1>2, <1>3, <1>5, <1>6, <1>7 DEF Line, ResultLine
<1>9. \A n \in Nets : Merging(n)' = Merging(n)
  BY <1>1, <1>6 DEF Merging
<1>10. NetLine'
  BY <1>1, <1>9, NetLineBy DEF Line
<1>11. QED
  BY <1>2, <1>4, <1>8, <1>10 DEF Line

LEMMA LineImageReceive ==
  ASSUME TypeOK, Line, ImageReceive
  PROVE  Line'
<1>0. wire.result \in Nat /\ camera \in Nat /\ imageIn \in Seq(Frame)
  BY Sizes DEF TypeOK
<1>1. /\ UNCHANGED <<camera, resultIn, dispatchIn, net, netIn, syncIn, sel, flag, resultTx, wire>>
      /\ imageIn # <<>> /\ imageIn' = Tail(imageIn)
      /\ imageTx.pc = "idle" /\ imageTx'.pc = "wait" /\ imageTx'.frame = Head(imageIn)
  BY DEF ImageReceive
<1>2. Leaves(imageIn, imageIn')
  BY <1>0, <1>1, LeavesQueue
<1>3. Len(imageIn') = Len(imageIn) - 1 /\ Len(imageIn) \in Nat /\ Head(imageIn) = imageIn[1]
  BY <1>2 DEF Leaves
<1>4. ImagesSent' = ImagesSent /\ ImagesSent = camera - Len(imageIn)
  BY <1>0, <1>1, <1>3 DEF ImagesSent
<1>5. imageIn[1] = camera - Len(imageIn) /\ Numbered(imageIn', camera)
  BY <1>0, <1>2, LeavesNumbers DEF Line, ImageLine
<1>6. ImageLine'
  BY <1>1, <1>3, <1>4, <1>5 DEF Line, ImageLine, Numbered
<1>7. ResultLine' /\ \A n \in Nets : Merging(n)' = Merging(n)
  BY <1>0, <1>1, <1>4, ResultLineBy DEF Line
<1>8. NetLine'
  BY <1>1, <1>7, NetLineBy DEF Line
<1>9. QED
  BY <1>6, <1>7, <1>8 DEF Line

\* An image reaches the host: all that came after it still hold their frames.
LEMMA LineImage ==
  ASSUME TypeOK, FramesKept, FramesPlaced, TurnsKept, Line, ImageEnd(TRUE)
  PROVE  Line' /\ ImageNearResult'
<1>0. /\ wire.result \in Nat /\ camera \in Nat /\ imageTx \in Sender /\ imageIn \in Seq(Frame)
      /\ wire \in [part : {"none", "header", "image"},
                   result : Frame \cup {NoFrame}, image : Frame \cup {NoFrame}]
      /\ VdoFrames \in Nat
  BY Sizes, PoolAssumption DEF TypeOK, Sender
<1>1. /\ UNCHANGED <<camera, imageIn, dispatchIn, resultIn, net, netIn, syncIn, sel, resultTx>>
      /\ flag = 5 /\ flag' = 0 /\ imageTx.pc = "send" /\ imageTx'.pc = "idle"
      /\ wire' = [wire EXCEPT !.part = "image", !.image = imageTx.frame]
  BY DEF ImageEnd, TurnsKept, queues
<1>2. wire'.result = wire.result /\ wire'.image = imageTx.frame
  BY <1>0, <1>1
<1>3. ImagesSent' = ImagesSent + 1 /\ ImagesSent = camera - Len(imageIn) - 1 /\ Len(imageIn) \in Nat
  BY <1>0, <1>1, PlaceTypes DEF ImagesSent
<1>4. ImageLine'
  BY <1>1 DEF Line, ImageLine, Numbered
<1>5. ResultsSent' = ResultsSent /\ ImagesSent \in Int
  BY <1>1, <1>3, PlaceTypes DEF ResultsSent
<1>6. Merged' = Merged
  BY <1>1, <1>5 DEF Merged
<1>7. ResultLine'
  BY <1>1, <1>5, <1>6 DEF Line, ResultLine
<1>8. \A n \in Nets : Merging(n)' = Merging(n)
  BY <1>1, <1>6 DEF Merging
<1>9. NetLine'
  BY <1>1, <1>8, NetLineBy DEF Line
<1>10. imageTx.frame = ImagesSent /\ wire.result >= ImagesSent /\ wire.result < camera
  BY <1>1 DEF Line, ImageLine, ResultLine
<1>11. ImagesSent..(camera - 1) \subseteq FramesHeld
  <2>1. SUFFICES ASSUME NEW f \in ImagesSent..(camera - 1) PROVE f \in FramesHeld
    OBVIOUS
  <2>2. imageTx.frame \in Frame
    BY <1>0, <1>1 DEF FramesPlaced, Sender
  <2>3. f \in Nat /\ f <= camera - 1 /\ f >= ImagesSent
    BY <1>0, <1>5, <1>10, <2>2, Sizes
  <2>4. f # NoFrame
    BY <1>0, <2>3, Sizes DEF TypeOK, NoFrame
  <2>5. CASE f = ImagesSent
    BY <1>10, <2>4, <2>5 DEF FramesHeld
  <2>6. CASE f > ImagesSent
    <3> DEFINE k == f - (camera - Len(imageIn)) + 1
    <3>1. k \in 1..Len(imageIn)
      BY <1>0, <1>3, <2>3, <2>6
    <3>2. imageIn[k] = camera - Len(imageIn) + k - 1
      BY <3>1, PlaceTypes DEF Line, ImageLine, Numbered
    <3>3. imageIn[k] = f
      BY <1>0, <1>3, <2>3, <3>2
    <3>4. f \in Range(imageIn)
      BY <3>1, <3>3, PlaceTypes DEF Range
    <3>5. QED
      BY <2>4, <3>4 DEF FramesHeld
  <2>7. QED
    BY <1>5, <2>3, <2>5, <2>6
<1>12. camera - ImagesSent <= VdoFrames
  <2>1. IsFiniteSet(FramesHeld) /\ Cardinality(FramesHeld) <= VdoFrames
          /\ Cardinality(FramesHeld) \in Nat
    BY HeldFinite DEF FramesKept
  <2>2. Cardinality(ImagesSent..(camera - 1)) <= Cardinality(FramesHeld)
    BY <1>11, <2>1, FS_Subset
  <2>3. Cardinality(ImagesSent..(camera - 1)) = (camera - 1) - ImagesSent + 1
    BY <1>0, <1>3, <1>5, FS_Interval
  <2>4. QED
    BY <1>0, <1>5, <2>1, <2>2, <2>3
<1>13. wire'.image <= wire'.result /\ wire'.result < wire'.image + VdoFrames
  BY <1>0, <1>2, <1>5, <1>10, <1>12
<1>14. QED
  BY <1>4, <1>7, <1>9, <1>13 DEF Line, ImageNearResult

LEMMA LineBegin ==
  ASSUME TypeOK, Line, withImage, ResultBegin \/ ImageBegin
  PROVE  Line'
<1>0. wire.result \in Nat /\ camera \in Nat /\ resultTx \in Sender /\ imageTx \in Sender
  BY Sizes DEF TypeOK, Sender
<1>1. /\ UNCHANGED <<camera, imageIn, dispatchIn, resultIn, net, netIn, syncIn, sel, flag, wire>>
      /\ resultTx'.frame = resultTx.frame /\ (resultTx'.pc = "idle" <=> resultTx.pc = "idle")
      /\ imageTx'.frame = imageTx.frame /\ (imageTx'.pc = "idle" <=> imageTx.pc = "idle")
  BY <1>0 DEF ResultBegin, ImageBegin, queues, Sender
<1>2. ImagesSent' = ImagesSent
  BY <1>1 DEF ImagesSent
<1>3. ResultsSent' = ResultsSent
  BY <1>1, <1>2 DEF ResultsSent
<1>4. Merged' = Merged
  BY <1>1, <1>3 DEF Merged
<1>5. \A n \in Nets : Merging(n)' = Merging(n)
  BY <1>1, <1>4 DEF Merging
<1>6. ImageLine'
  BY <1>1, <1>2 DEF Line, ImageLine, Numbered
<1>7. ResultLine'
  BY <1>1, <1>2, <1>3, <1>4 DEF Line, ResultLine
<1>8. NetLine'
  BY <1>1, <1>5, NetLineBy DEF Line
<1>9. QED
  BY <1>6, <1>7, <1>8 DEF Line

\* Nothing of the line changes.
LEMMA LineStutters ==
  ASSUME Line, UNCHANGED vars
  PROVE  Line'
BY DEF vars, queues, senders, Line, ImageLine, ResultLine, NetLine, NetPlace, Numbered, ImagesSent,
       ResultsSent, Merged, Merging, Running, Coming, Later

\* Which steps are calm.
LEMMA CalmStep ==
  ASSUME TypeOK, [Next]_vars, Calm', withImage'
  PROVE  /\ Calm /\ withImage
         /\ \/ Capture \/ Dispatch \/ Sync \/ ResultReceive \/ ResultBegin \/ ImageReceive
              \/ ImageBegin
            \/ ResultEnd(TRUE) \/ ImageEnd(TRUE) \/ UNCHANGED vars
            \/ \E n \in Nets : NetTakesFrame(n) \/ NetTakesTensor(n) \/ NetSendsResult(n)
<1>0. skips \in Nat /\ silent \in Nat /\ failures \in Nat
  BY DEF TypeOK
<1>1. CASE Skip
  <2>1. skips' = skips + 1
    BY <1>1 DEF Skip
  <2>2. QED
    BY <1>0, <2>1 DEF Calm
<1>2. ASSUME NEW n \in Nets, NetHasNoResult(n) PROVE FALSE
  <2>1. silent' = silent + 1
    BY <1>2 DEF NetHasNoResult
  <2>2. QED
    BY <1>0, <2>1 DEF Calm
<1>3. ASSUME NEW sent \in BOOLEAN, ResultEnd(sent) \/ ImageEnd(sent)
      PROVE  sent = TRUE /\ Calm /\ withImage
  <2>1. CASE sent = FALSE
    <3>1. failures' = failures + 1
      BY <1>3, <2>1 DEF ResultEnd, ImageEnd
    <3>2. QED
      BY <1>0, <3>1 DEF Calm
  <2>2. CASE sent = TRUE
    <3>1. UNCHANGED <<withImage, first, skips, silent, failures>>
      BY <1>3, <2>2 DEF ResultEnd, ImageEnd
    <3>2. QED
      BY <2>2, <3>1 DEF Calm
  <2>3. QED
    BY <2>1, <2>2
<1>4. CASE \/ Capture \/ Dispatch \/ Sync \/ ResultReceive \/ ResultBegin \/ ImageReceive
                \/ ImageBegin
           \/ UNCHANGED vars
  <2>1. UNCHANGED <<withImage, first, skips, silent, failures>>
    BY <1>4 DEF Capture, Dispatch, Sync, ResultReceive, ResultBegin, ImageReceive, ImageBegin,
       vars, history
  <2>2. QED
    BY <1>4, <2>1 DEF Calm
<1>5. ASSUME NEW n \in Nets, NetTakesFrame(n) \/ NetTakesTensor(n) \/ NetSendsResult(n)
      PROVE  Calm /\ withImage
  <2>1. UNCHANGED <<withImage, first, skips, silent, failures>>
    BY <1>5 DEF NetTakesFrame, NetTakesTensor, NetSendsResult, history
  <2>2. QED
    BY <2>1 DEF Calm
<1>6. QED
  BY <1>1, <1>2, <1>3, <1>4, <1>5 DEF Next

LEMMA InLineStep ==
  ASSUME IInv, [Next]_vars
  PROVE  InLine'
<1>1. SUFFICES ASSUME Calm', withImage' PROVE Line'
  BY DEF InLine, Line
<1>2. TypeOK /\ FramesKept /\ FramesPlaced /\ TurnsKept /\ Calm /\ withImage
  BY <1>1, CalmStep DEF IInv
<1>3. Line
  BY <1>2 DEF IInv, InLine, Line
<1>4. QED
  BY <1>1, <1>2, <1>3, CalmStep, LineCapture, LineDispatch, LineSync, LineReceive, LineBegin,
     LineImageReceive, LineResult, LineImage, LineNet, LineStutters

LEMMA NearStep ==
  ASSUME IInv, [Next]_vars
  PROVE  ImageNearResult'
<1>1. SUFFICES ASSUME Calm', wire'.part = "image" PROVE ImageNearResult'
  BY DEF ImageNearResult
<1>2. withImage'
  BY <1>1, TurnsStep DEF IInv, TurnsKept
<1>3. TypeOK /\ FramesKept /\ FramesPlaced /\ TurnsKept /\ Calm /\ withImage /\ Line
  BY <1>1, <1>2, CalmStep DEF IInv, InLine, Line
<1>4. CASE ResultEnd(TRUE)
  BY <1>1, <1>3, <1>4, LineResult
<1>5. CASE ImageEnd(TRUE)
  BY <1>3, <1>5, LineImage
<1>6. CASE wire' = wire
  BY <1>1, <1>3, <1>6 DEF IInv, ImageNearResult
<1>7. CASE Capture \/ Dispatch \/ Sync \/ ResultReceive \/ ResultBegin \/ ImageReceive
             \/ ImageBegin \/ UNCHANGED vars
  BY <1>6, <1>7 DEF Capture, Dispatch, Sync, ResultReceive, ResultBegin, ImageReceive, ImageBegin,
     vars, senders
<1>8. ASSUME NEW n \in Nets, NetTakesFrame(n) \/ NetTakesTensor(n) \/ NetSendsResult(n)
      PROVE  ImageNearResult'
  BY <1>6, <1>8 DEF NetTakesFrame, NetTakesTensor, NetSendsResult, senders
<1>9. QED
  BY <1>1, <1>2, <1>3, <1>4, <1>5, <1>7, <1>8, CalmStep

-----------------------------------------------------------------------------
(* The invariant                                                           *)

LEMMA InitInv == Init => IInv
<1> SUFFICES ASSUME Init PROVE IInv
  OBVIOUS
<1>0. /\ first \in Nets /\ camera = first /\ Nets = {0, 1} /\ imageIn = <<>> /\ dispatchIn = <<>>
           /\ resultIn = <<>>
      /\ \A n \in Nets :
           syncIn[n] = <<>> /\ net[n].pc = "frame" /\ net[n].frame = NoFrame /\ netIn[n] = NoFrame
      /\ resultTx.pc = "idle" /\ resultTx.frame = NoFrame /\ imageTx.pc = "idle"
           /\ imageTx.frame = NoFrame
      /\ sel = 0 /\ flag = 0 /\ wire.part = "none" /\ withImage \in BOOLEAN
  BY DEF Init, Nets
<1>1. TypeOK
  BY Sizes DEF Init, TypeOK, Nets
<1>2. FramesPlaced /\ TurnsKept /\ ImageNearResult
  BY <1>0 DEF FramesPlaced, TurnsKept, ImageNearResult
<1>3. FramesKept
  <2>1. FramesHeld = {}
    BY <1>0 DEF FramesHeld, Range
  <2>2. QED
    BY <1>0, <2>1, FS_EmptySet, PoolAssumption DEF FramesKept, Growing
<1>4. TensorsKept
  <2>1. \A n \in Nets : OfNet(resultIn, n) = {}
    BY <1>0 DEF OfNet
  <2>2. Len(<<>>) = 0 /\ Cardinality({}) = 0
    BY FS_EmptySet
  <2>3. ASSUME NEW n \in Nets PROVE TensorsHeld(n) = 0
    <3>1. net[n].pc # "run" /\ Len(syncIn[n]) = 0 /\ Cardinality(OfNet(resultIn, n)) = 0
      BY <1>0, <2>1, <2>2
    <3>2. TensorsHeld(n) = 0 + 0 + 0 + 0
      BY <1>0, <3>1, TensorsAre
    <3>3. QED
      BY <3>2
  <2>4. QED
    BY <2>3, PoolAssumption DEF TensorsKept
<1>5. InLine
  <2>1. SUFFICES ASSUME first = 0 PROVE Line
    BY DEF InLine, Calm, Line
  <2>20. Len(imageIn) = 0 /\ Len(resultIn) = 0 /\ Len(dispatchIn) = 0
           /\ \A n \in Nets : Len(syncIn[n]) = 0
    <3>1. Len(<<>>) = 0
      OBVIOUS
    <3>2. QED
      BY <1>0, <3>1, Zenon
  <2>2. ImagesSent = 0 /\ Len(resultIn) = 0 /\ Len(dispatchIn) = 0
          /\ \A n \in Nets : Len(syncIn[n]) = 0
    <3>1. ImagesSent = 0 - 0 - 0
      BY <1>0, <2>1, <2>20 DEF ImagesSent
    <3>2. QED
      BY <2>20, <3>1
  <2>3. ResultsSent = 0
    BY <1>0, <2>2 DEF ResultsSent
  <2>4. Merged = 0
    BY <1>0, <2>2, <2>3 DEF Merged
  <2>5. \A n \in Nets : Merging(n) = n
    BY <1>0, <2>4 DEF Merging
  <2>6. \A n \in Nets : Running(n) = n
    BY <1>0, <2>2, <2>5 DEF Running
  <2>7. \A n \in Nets : Coming(n) = n
    BY <1>0, <2>6 DEF Coming
  <2>8. \A n \in Nets : Later(n) = n
    BY <1>0, <2>7 DEF Later
  <2>9. \A f \in Frame : f >= NetOf(f)
    BY Sizes DEF NetOf
  <2>10. NetLine
    BY <1>0, <2>8, <2>9 DEF NetLine, NetPlace
  <2>11. ImageLine /\ ResultLine
    BY <1>0, <2>4 DEF ImageLine, ResultLine, Numbered
  <2>12. QED
    BY <2>10, <2>11 DEF Line
<1>6. QED
  BY <1>1, <1>2, <1>3, <1>4, <1>5 DEF IInv

LEMMA InvStep == IInv /\ [Next]_vars => IInv'
BY TypeStep, FramesStep, TensorsStep, PlacedStep, TurnsStep, InLineStep, NearStep DEF IInv

LEMMA SpecInv == Spec => []IInv
BY InitInv, InvStep, PTL DEF Spec

-----------------------------------------------------------------------------
(* The theorems                                                            *)

\* Every variable keeps its type (createPipeline, PlgFrmDispatch, PlgNetwork, PlgFrmSync,
\* PlgXlink).
THEOREM TypeSafety == Spec => []TypeOK
<1>1. IInv => TypeOK
  BY DEF IInv
<1>2. QED
  BY <1>1, SpecInv, PTL

\* No receiver ever gets more than it was created for, whatever the networks and the senders
\* do: the queue of frames holds no more than the pool of frames, that of results no more
\* than both pools of results.
THEOREM QueueSafety == Spec => []QueuesSuffice
<1>1. ASSUME IInv PROVE QueuesSuffice
  <2>0. /\ TypeOK /\ Growing(imageIn) /\ Growing(dispatchIn) /\ imageIn \in Seq(Frame)
        /\ dispatchIn \in Seq(Frame) /\ resultIn \in Seq(Frame)
        /\ Cardinality(FramesHeld) <= VdoFrames /\ VdoFrames \in Nat /\ Tensors \in Nat
    BY <1>1, PoolAssumption DEF IInv, TypeOK, FramesKept
  <2>1. /\ Len(imageIn) \in Nat /\ Len(dispatchIn) \in Nat /\ Len(resultIn) \in Nat
        /\ DOMAIN resultIn = 1..Len(resultIn) /\ \A n \in Nets : Len(syncIn[n]) \in Nat
        /\ Cardinality(FramesHeld) \in Nat /\ IsFiniteSet(FramesHeld)
    BY <2>0, PlaceTypes, HeldFinite
  <2>2. ASSUME NEW q \in Seq(Frame), Growing(q), Range(q) \subseteq FramesHeld
        PROVE Len(q) <= VdoFrames
    <3>1. Cardinality(Range(q)) = Len(q) /\ Len(q) \in Nat
      BY <2>2, RangeSize, QueueType DEF Growing
    <3>2. Cardinality(Range(q)) <= Cardinality(FramesHeld)
      BY <2>1, <2>2, FS_Subset
    <3>3. QED
      BY <2>0, <2>1, <3>1, <3>2
  <2>3. Range(imageIn) \subseteq FramesHeld /\ Range(dispatchIn) \subseteq FramesHeld
    <3>1. \A q \in Seq(Frame) : NoFrame \notin Range(q)
      BY QueueType, Sizes DEF Range
    <3>2. QED
      BY <2>0, <3>1 DEF FramesHeld
  <2>4. Len(imageIn) <= VdoFrames /\ Len(dispatchIn) <= VdoFrames
    BY <2>0, <2>2, <2>3
  <2>5. ASSUME NEW n \in Nets
        PROVE  Len(syncIn[n]) + Cardinality(OfNet(resultIn, n)) <= Tensors
                 /\ Cardinality(OfNet(resultIn, n)) \in Nat
    <3> DEFINE A == IF net[n].pc = "run" THEN 1 ELSE 0
               B == IF resultTx.frame # NoFrame /\ NetOf(resultTx.frame) = n THEN 1 ELSE 0
               C == Cardinality(OfNet(resultIn, n))
    <3>1. A \in {0, 1} /\ B \in {0, 1} /\ C \in Nat /\ Len(syncIn[n]) \in Nat
      BY <2>1, OfNetFinite
    <3>2. A + Len(syncIn[n]) + C + B <= Tensors
      BY <1>1, TensorsAre DEF IInv, TensorsKept
    <3> HIDE DEF A, B, C
    <3>3. Len(syncIn[n]) + C <= Tensors
      BY <2>0, <3>1, <3>2
    <3>4. QED
      BY <3>1, <3>3 DEF C
  <2>6. Len(resultIn) <= 2 * Tensors
    <3>1. Len(resultIn) = Cardinality(OfNet(resultIn, 0)) + Cardinality(OfNet(resultIn, 1))
      BY <2>0, CountBoth
    <3>2. /\ Len(syncIn[0]) \in Nat /\ Len(syncIn[1]) \in Nat
          /\ Cardinality(OfNet(resultIn, 0)) \in Nat /\ Cardinality(OfNet(resultIn, 1)) \in Nat
          /\ Len(syncIn[0]) + Cardinality(OfNet(resultIn, 0)) <= Tensors
          /\ Len(syncIn[1]) + Cardinality(OfNet(resultIn, 1)) <= Tensors
      BY <2>1, <2>5 DEF Nets
    <3>3. QED
      BY SMTT(30), <2>0, <3>1, <3>2
  <2>7. \A n \in Nets : Len(syncIn[n]) <= Tensors
    <3>1. SUFFICES ASSUME NEW n \in Nets PROVE Len(syncIn[n]) <= Tensors
      OBVIOUS
    <3>2. Len(syncIn[n]) \in Nat
      BY <2>1
    <3>3. QED
      BY <2>0, <2>5, <3>2
  <2>8. /\ ImageQueue \in Nat /\ DispatchQueue \in Nat /\ SyncQueue \in Nat /\ ResultQueue \in Nat
        /\ VdoFrames <= ImageQueue /\ VdoFrames <= DispatchQueue
        /\ Tensors <= SyncQueue /\ 2 * Tensors <= ResultQueue
    BY QueueAssumption
  <2>9. QED
    BY <2>0, <2>1, <2>4, <2>6, <2>7, <2>8 DEF QueuesSuffice
<1>2. QED
  BY <1>1, SpecInv, PTL

\* Header and image reach the host by turns while no send fails, and as long as nothing is
\* skipped, silent or lost, the image after a result is the one it was computed from or one
\* of those captured before it, fewer back than there are video frames (flag_seqNo,
\* PlgFrmDispatch, PlgFrmSync).
THEOREM ImageSafety == Spec => ImagesFollowResults
<1> DEFINE Turns == wire' # wire /\ failures = 0 =>
                      IF wire'.part = "image" THEN wire.part = "header"
                      ELSE wire.part = "header" => ~withImage
<1>1. IInv /\ [Next]_vars => [Turns]_vars
  <2>1. SUFFICES ASSUME IInv, Next, wire' # wire, failures = 0
                 PROVE  IF wire'.part = "image" THEN wire.part = "header"
                        ELSE wire.part = "header" => ~withImage
    OBVIOUS
  <2>2. TurnsKept /\ wire \in [part : {"none", "header", "image"},
                               result : Frame \cup {NoFrame}, image : Frame \cup {NoFrame}]
    BY <2>1 DEF IInv, TypeOK
  <2>3. ASSUME NEW sent \in BOOLEAN, ResultEnd(sent)
        PROVE wire'.part = "header" /\ wire.part # "header"
    <3>1. resultTx.pc = "send" /\ wire' = [wire EXCEPT !.part = "header", !.result = resultTx.frame]
      BY <2>1, <2>3 DEF ResultEnd
    <3>2. QED
      BY <2>1, <2>2, <3>1 DEF TurnsKept
  <2>4. ASSUME NEW sent \in BOOLEAN, ImageEnd(sent)
        PROVE wire'.part = "image" /\ wire.part = "header"
    <3>1. imageTx.pc = "send" /\ wire' = [wire EXCEPT !.part = "image", !.image = imageTx.frame]
      BY <2>1, <2>4 DEF ImageEnd
    <3>2. QED
      BY <2>1, <2>2, <3>1 DEF TurnsKept
  <2>5. ~(Skip \/ Capture \/ Dispatch \/ Sync \/ ResultReceive \/ ResultBegin \/ ImageReceive \/ ImageBegin)
    BY <2>1 DEF Skip, Capture, Dispatch, Sync, ResultReceive, ResultBegin, ImageReceive,
       ImageBegin, senders
  <2>6. \A n \in Nets :
          ~(NetTakesFrame(n) \/ NetTakesTensor(n) \/ NetSendsResult(n) \/ NetHasNoResult(n))
    BY <2>1 DEF NetTakesFrame, NetTakesTensor, NetSendsResult, NetHasNoResult, senders
  <2>7. QED
    BY <2>1, <2>3, <2>4, <2>5, <2>6 DEF Next
<1>2. Spec => [][Turns]_vars
  BY <1>1, SpecInv, PTL DEF Spec
<1>3. IInv' => ImageNearResult'
  BY DEF IInv
<1>4. Spec => [][ImageNearResult']_vars
  BY <1>3, SpecInv, PTL DEF Spec
<1>5. QED
  BY <1>2, <1>4 DEF ImagesFollowResults, SendersTakeTurns
=============================================================================
