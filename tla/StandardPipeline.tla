--------------------------- MODULE StandardPipeline ---------------------------
(***************************************************************************)
(* The device in standard mode: the camera's frames go to two places. One  *)
(* is the image sender (PlgXlink "vdoout"); the other is a dispatcher that *)
(* gives even frames to one network and odd frames to another, whose       *)
(* results a third plugin puts back in turn, even first, for the result    *)
(* sender (PlgXlink "nnresultout"). Each plugin is a thread, joined to the *)
(* next by a bounded queue of reference-counted buffers from fixed pools.  *)
(*                                                                         *)
(* The two senders take turns through one integer, flag_seqNo: the result  *)
(* sender waits for 0, sends a header and stores 5; the image sender waits *)
(* for 5, sends an image and stores 0. The host reads an image after each  *)
(* header and takes it for the image the result was computed from.         *)
(*                                                                         *)
(* A frame is its sequence number; a result is the number of the frame it  *)
(* was computed from. A frame's buffer is free once no plugin and no queue *)
(* holds the frame, so the pools are counted, not stored. Results fit into *)
(* the header (at most 21504 of 32768 bytes), so no third send is modelled.*)
(***************************************************************************)
EXTENDS Naturals, Sequences, FiniteSets, Functions

CONSTANTS
  VdoFrames,   \* N_POOL_FRMS_VDO: buffers for video frames
  Tensors,     \* buffers for the results of one network
  ImageQueue, DispatchQueue, SyncQueue, ResultQueue, \* sizes the receivers are created with
  MaxFrames,   \* bound: sequence numbers the camera reaches
  MaxFaults    \* bound: numbers the camera leaves out, frames without a result and failed
               \* sends, together

ASSUME PoolAssumption == VdoFrames \in Nat \ {0} /\ Tensors \in Nat \ {0}

\* The sizes main.cpp, PlgXlink.cpp and frmdispatch.cpp choose: 3 frames, queues of 8 and 16
\* for them; 4 results of each network, queues of 4 for each and of 8 for both.
ASSUME QueueAssumption ==
  /\ {ImageQueue, DispatchQueue, SyncQueue, ResultQueue} \subseteq Nat
  /\ VdoFrames <= ImageQueue /\ VdoFrames <= DispatchQueue
  /\ Tensors <= SyncQueue /\ 2 * Tensors <= ResultQueue

ASSUME FrameAssumption == MaxFrames \in Nat \ {0}

VARIABLES
  withImage,  \* with_original_image of the configuration
  first,      \* number of the first frame
  camera,     \* number of the next frame
  imageIn,    \* plgOut.in
  dispatchIn, \* plgfrmdisp.inFrame
  netIn,      \* inF of each network: one frame, overwritten by a newer one
  net,        \* each network's thread: what it waits for or does, and its frame
  syncIn,     \* inFrame_even and inFrame_odd of plgsyncout
  sel,        \* the network plgsyncout takes the next result from
  resultIn,   \* plgNNOut.in
  flag,       \* flag_seqNo
  resultTx,   \* thread of plgNNOut
  imageTx,    \* thread of plgOut
  wire,       \* last transfer that reached the host, with the last result and image
  skips, silent, failures \* what went wrong so far (history)

queues == <<imageIn, dispatchIn, netIn, syncIn, resultIn>>
senders == <<flag, resultTx, imageTx, wire>>
history == <<skips, silent, failures>>
vars == <<withImage, first, camera, queues, net, sel, senders, history>>

Nets == {0, 1}                       \* plgNN takes even frames, plgNN2 odd ones
Frame == 0..MaxFrames - 1
NoFrame == MaxFrames
NetOf(f) == f % 2
FaultLeft == skips + silent + failures < MaxFaults

Init ==
  /\ withImage \in BOOLEAN
  /\ first \in Nets /\ camera = first
  /\ imageIn = <<>> /\ dispatchIn = <<>> /\ resultIn = <<>>
  /\ netIn = [n \in Nets |-> NoFrame]
  /\ net = [n \in Nets |-> [pc |-> "frame", frame |-> NoFrame]]
  /\ syncIn = [n \in Nets |-> <<>>] /\ sel = 0
  /\ flag = 0
  /\ resultTx = [pc |-> "idle", frame |-> NoFrame]
  /\ imageTx = [pc |-> "idle", frame |-> NoFrame]
  /\ wire = [part |-> "none", result |-> NoFrame, image |-> NoFrame]
  /\ skips = 0 /\ silent = 0 /\ failures = 0

(***************************************************************************)
(* Pools: a buffer is taken while something refers to it.                  *)
(***************************************************************************)
FramesHeld ==
  (Range(imageIn) \cup Range(dispatchIn) \cup {netIn[n] : n \in Nets}
     \cup {net[n].frame : n \in Nets} \cup {imageTx.frame}) \ {NoFrame}

TensorsHeld(n) ==
  (IF net[n].pc = "run" THEN 1 ELSE 0) + Len(syncIn[n])
    + Cardinality({k \in DOMAIN resultIn : NetOf(resultIn[k]) = n})
    + (IF resultTx.frame # NoFrame /\ NetOf(resultTx.frame) = n THEN 1 ELSE 0)

(***************************************************************************)
(* Camera and image processor                                              *)
(***************************************************************************)
\* A frame for which there is no buffer waits; meanwhile the sensor goes on, so the next
\* one need not be its successor.
Skip ==
  /\ FaultLeft /\ camera < MaxFrames
  /\ camera' = camera + 1 /\ skips' = skips + 1
  /\ UNCHANGED <<withImage, first, queues, net, sel, senders, silent, failures>>

Capture ==
  /\ camera < MaxFrames
  /\ Cardinality(FramesHeld) < VdoFrames
  /\ imageIn' = Append(imageIn, camera)
  /\ dispatchIn' = Append(dispatchIn, camera)
  /\ camera' = camera + 1
  /\ UNCHANGED <<withImage, first, netIn, net, syncIn, sel, resultIn, senders, history>>

(***************************************************************************)
(* PlgFrmDispatch                                                          *)
(***************************************************************************)
\* The network's receiver holds one frame and is created to overwrite it.
Dispatch ==
  /\ dispatchIn # <<>>
  /\ LET f == Head(dispatchIn) IN netIn' = [netIn EXCEPT ![NetOf(f)] = f]
  /\ dispatchIn' = Tail(dispatchIn)
  /\ UNCHANGED <<withImage, first, camera, imageIn, net, syncIn, sel, resultIn, senders, history>>

(***************************************************************************)
(* PlgNetwork: takes a frame, then a buffer for the result, then runs.     *)
(***************************************************************************)
NetTakesFrame(n) ==
  /\ net[n].pc = "frame" /\ netIn[n] # NoFrame
  /\ net' = [net EXCEPT ![n] = [pc |-> "tensor", frame |-> netIn[n]]]
  /\ netIn' = [netIn EXCEPT ![n] = NoFrame]
  /\ UNCHANGED <<withImage, first, camera, imageIn, dispatchIn, syncIn, sel, resultIn, senders, history>>

NetTakesAnyTensor(n) ==
  /\ net[n].pc = "tensor" /\ TensorsHeld(n) <= Tensors
  /\ net' = [net EXCEPT ![n].pc = "run"]
  /\ UNCHANGED <<withImage, first, camera, queues, sel, senders, history>>

NetTakesTensor(n) ==
  /\ net[n].pc = "tensor" /\ TensorsHeld(n) < Tensors
  /\ net' = [net EXCEPT ![n].pc = "run"]
  /\ UNCHANGED <<withImage, first, camera, queues, sel, senders, history>>

NetSendsReleased(n) ==  \* the buffer is released before it is sent
  /\ net[n].pc = "run"
  /\ syncIn' = [syncIn EXCEPT ![n] = Append(@, NoFrame)]
  /\ net' = [net EXCEPT ![n] = [pc |-> "frame", frame |-> NoFrame]]
  /\ UNCHANGED <<withImage, first, camera, imageIn, dispatchIn, netIn, sel, resultIn, senders, history>>

NetSendsResult(n) ==
  /\ net[n].pc = "run"
  /\ syncIn' = [syncIn EXCEPT ![n] = Append(@, net[n].frame)]
  /\ net' = [net EXCEPT ![n] = [pc |-> "frame", frame |-> NoFrame]]
  /\ UNCHANGED <<withImage, first, camera, imageIn, dispatchIn, netIn, sel, resultIn, senders, history>>

\* PostProcessing returns 0: the loop goes on without sending anything.
NetHasNoResult(n) ==
  /\ net[n].pc = "run" /\ FaultLeft
  /\ silent' = silent + 1
  /\ net' = [net EXCEPT ![n] = [pc |-> "frame", frame |-> NoFrame]]
  /\ UNCHANGED <<withImage, first, camera, queues, sel, senders, skips, failures>>

(***************************************************************************)
(* PlgFrmSync: even and odd in turn, waiting for the one whose turn it is. *)
(***************************************************************************)
SyncAnyNet ==  \* takes a result of whichever network has one
  \E n \in Nets :
    /\ syncIn[n] # <<>>
    /\ resultIn' = Append(resultIn, Head(syncIn[n]))
    /\ syncIn' = [syncIn EXCEPT ![n] = Tail(@)]
    /\ sel' = 1 - n
    /\ UNCHANGED <<withImage, first, camera, imageIn, dispatchIn, netIn, net, senders, history>>

Sync ==
  /\ syncIn[sel] # <<>>
  /\ resultIn' = Append(resultIn, Head(syncIn[sel]))
  /\ syncIn' = [syncIn EXCEPT ![sel] = Tail(@)]
  /\ sel' = 1 - sel
  /\ UNCHANGED <<withImage, first, camera, imageIn, dispatchIn, netIn, net, senders, history>>

(***************************************************************************)
(* PlgXlink "nnresultout". The buffer received goes with the next turn of  *)
(* the loop.                                                               *)
(***************************************************************************)
ResultReceive ==
  /\ resultTx.pc = "idle" /\ resultIn # <<>>
  /\ resultTx' = [pc |-> "wait", frame |-> Head(resultIn)]
  /\ resultIn' = Tail(resultIn)
  /\ UNCHANGED <<withImage, first, camera, imageIn, dispatchIn, netIn, net, syncIn, sel, flag, imageTx, wire, history>>

ResultBeginFlagFirst ==  \* hands over before the header is sent
  /\ resultTx.pc = "wait" /\ flag = 0
  /\ resultTx' = [resultTx EXCEPT !.pc = "send"]
  /\ flag' = 5
  /\ UNCHANGED <<withImage, first, camera, queues, net, sel, imageTx, wire, history>>

ResultBegin ==
  /\ resultTx.pc = "wait" /\ flag = 0
  /\ resultTx' = [resultTx EXCEPT !.pc = "send"]
  /\ UNCHANGED <<withImage, first, camera, queues, net, sel, flag, imageTx, wire, history>>

ResultEndIfSent(sent) ==  \* the turn passes only if the header was sent
  /\ resultTx.pc = "send"
  /\ IF sent THEN wire' = [wire EXCEPT !.part = "header", !.result = resultTx.frame]
             ELSE UNCHANGED wire
  /\ sent \/ FaultLeft
  /\ failures' = IF sent THEN failures ELSE failures + 1
  /\ flag' = IF sent THEN 5 ELSE flag
  /\ resultTx' = [pc |-> "idle", frame |-> NoFrame]
  /\ UNCHANGED <<withImage, first, camera, queues, net, sel, imageTx, skips, silent>>

\* sendMsg does not report a failure: the image sender has its turn either way.
ResultEnd(sent) ==
  /\ resultTx.pc = "send"
  /\ IF sent THEN wire' = [wire EXCEPT !.part = "header", !.result = resultTx.frame]
             ELSE UNCHANGED wire
  /\ sent \/ FaultLeft
  /\ failures' = IF sent THEN failures ELSE failures + 1
  /\ flag' = 5
  /\ resultTx' = [pc |-> "idle", frame |-> NoFrame]
  /\ UNCHANGED <<withImage, first, camera, queues, net, sel, imageTx, skips, silent>>

(***************************************************************************)
(* PlgXlink "vdoout"                                                       *)
(***************************************************************************)
ImageReceive ==
  /\ imageTx.pc = "idle" /\ imageIn # <<>>
  /\ imageTx' = [pc |-> "wait", frame |-> Head(imageIn)]
  /\ imageIn' = Tail(imageIn)
  /\ UNCHANGED <<withImage, first, camera, dispatchIn, netIn, net, syncIn, sel, resultIn, flag, resultTx, wire, history>>

\* Without images to send the frame is dropped and the flag stays.
ImageBegin ==
  /\ imageTx.pc = "wait" /\ flag = 5
  /\ imageTx' = IF withImage THEN [imageTx EXCEPT !.pc = "send"]
                             ELSE [pc |-> "idle", frame |-> NoFrame]
  /\ UNCHANGED <<withImage, first, camera, queues, net, sel, flag, resultTx, wire, history>>

\* A failed send leaves the turn with the image sender, which goes on with the next frame.
ImageEnd(sent) ==
  /\ imageTx.pc = "send"
  /\ sent \/ FaultLeft
  /\ failures' = IF sent THEN failures ELSE failures + 1
  /\ flag' = IF sent THEN 0 ELSE flag
  /\ IF sent THEN wire' = [wire EXCEPT !.part = "image", !.image = imageTx.frame]
             ELSE UNCHANGED wire
  /\ imageTx' = [pc |-> "idle", frame |-> NoFrame]
  /\ UNCHANGED <<withImage, first, camera, queues, net, sel, resultTx, skips, silent>>

Next ==
  \/ Skip \/ Capture \/ Dispatch \/ Sync
  \/ \E n \in Nets : \/ NetTakesFrame(n) \/ NetTakesTensor(n)
                     \/ NetSendsResult(n) \/ NetHasNoResult(n)
  \/ ResultReceive \/ ResultBegin \/ \E sent \in BOOLEAN : ResultEnd(sent)
  \/ ImageReceive \/ ImageBegin \/ \E sent \in BOOLEAN : ImageEnd(sent)

Spec == Init /\ [][Next]_vars

\* Every plugin is a thread of its own that the scheduler runs; a receive returns when its
\* queue is not empty, and the host reads, so a send ends. Nothing is assumed of skips.
FairSpec ==
  /\ Spec
  /\ WF_vars(Capture) /\ WF_vars(Dispatch) /\ WF_vars(Sync)
  /\ \A n \in Nets : /\ WF_vars(NetTakesFrame(n)) /\ WF_vars(NetTakesTensor(n))
                     /\ WF_vars(NetSendsResult(n) \/ NetHasNoResult(n))
  /\ WF_vars(ResultReceive) /\ WF_vars(ResultBegin) /\ WF_vars(\E s \in BOOLEAN : ResultEnd(s))
  /\ WF_vars(ImageReceive) /\ WF_vars(ImageBegin) /\ WF_vars(\E s \in BOOLEAN : ImageEnd(s))

(***************************************************************************)
(* Properties                                                              *)
(***************************************************************************)
\* Every variable has its type.
TypeOK ==
  /\ withImage \in BOOLEAN /\ first \in Nets /\ camera \in 0..MaxFrames
  /\ imageIn \in Seq(Frame) /\ dispatchIn \in Seq(Frame) /\ resultIn \in Seq(Frame)
  /\ netIn \in [Nets -> Frame \cup {NoFrame}]
  /\ net \in [Nets -> [pc : {"frame", "tensor", "run"}, frame : Frame \cup {NoFrame}]]
  /\ syncIn \in [Nets -> Seq(Frame)]
  /\ sel \in Nets /\ flag \in {0, 5}
  /\ resultTx \in [pc : {"idle", "wait", "send"}, frame : Frame \cup {NoFrame}]
  /\ imageTx \in [pc : {"idle", "wait", "send"}, frame : Frame \cup {NoFrame}]
  /\ wire \in [part : {"none", "header", "image"},
               result : Frame \cup {NoFrame}, image : Frame \cup {NoFrame}]
  /\ skips \in Nat /\ silent \in Nat /\ failures \in Nat

\* No receiver ever holds more than it was created for: the pools of frames and of result
\* buffers stop the camera and the networks first, even when no result is taken any more.
QueuesSuffice ==
  /\ Len(imageIn) <= ImageQueue /\ Len(dispatchIn) <= DispatchQueue
  /\ \A n \in Nets : Len(syncIn[n]) <= SyncQueue
  /\ Len(resultIn) <= ResultQueue

Calm == skips = 0 /\ silent = 0 /\ failures = 0 /\ first = 0

\* The host reads header and image in turn: unless a send has failed, an image reaches it
\* only right after a header, and with images on a header never right after a header
\* (flag_seqNo passes the turn, PlgXlink.cpp).
SendersTakeTurns ==
  [][wire' # wire /\ failures = 0 =>
       IF wire'.part = "image" THEN wire.part = "header"
       ELSE wire.part = "header" => ~withImage]_vars

\* While nothing is skipped, silent or lost, the image that follows a result is the
\* result's own or an older one, and the frames overwritten before a slow network took them
\* set it back by less than the pool of video frames: by at most two with three buffers.
ImageNearResult ==
  (Calm /\ wire.part = "image") =>
    /\ wire.image <= wire.result
    /\ wire.result < wire.image + VdoFrames

\* What the host puts together belongs together: header and image by turns, and an image
\* near its result.
ImagesFollowResults == SendersTakeTurns /\ [][ImageNearResult']_vars

\* With images on, and while no number is skipped and every frame has a result, frames keep
\* coming, even when sends fail: the frames no network took (overwritten, dispatched too
\* late) do not use up the pool, although their images wait for results.
FramesKeepComing ==
  withImage => <>(camera = MaxFrames \/ skips + silent > 0)

===============================================================================
