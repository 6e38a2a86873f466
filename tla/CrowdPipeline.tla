---------------------------- MODULE CrowdPipeline ----------------------------
(***************************************************************************)
(* How the crowd application takes a camera frame through both processors. *)
(*                                                                         *)
(* LEON RT converts frame after frame into one of several buffers, hands   *)
(* it to one of two inference threads on LEON OS by setting that thread's  *)
(* flag, feeds the tracker from the result buffer of the same thread and   *)
(* sends LEON OS a message.  It waits only for the flag of the thread whose *)
(* turn it is: the other one still works on the frame before, and the      *)
(* result it picks up is the one its thread left two frames ago.           *)
(*                                                                         *)
(* Three things are shared by address and without a lock: the frame (a     *)
(* thread reads g_pucConvBufY when it gets to it, not when it is asked),   *)
(* the result, and what a message points to: one vector of tracks, filled  *)
(* again for the next frame box by box or, when it grows, moved to other   *)
(* memory, and one picture.  And the tasks of LEON OS are suspended from   *)
(* time to time, while its flash is written; LEON RT is not.               *)
(*                                                                         *)
(* The board is the one whose frames are converted (XEYE_20) and inference *)
(* is on (not LIVE).                                                       *)
(***************************************************************************)
EXTENDS Integers, Sequences

CONSTANTS
    ConvBufs,        \* PP_BUFS, 6 in the code
    GrabEvery,       \* online_grab_conf: INTERVAL, a picture every so many frames
    QueueSize,       \* MSG_QUEUE_SIZE of lrt2los_channel, 32 in the code
    MaxTracks,       \* bound: tracks the tracker has
    Tracked,         \* bound: per frame, the numbers of tracks it may have then
    MaxFrames,       \* bound: frames the camera delivers
    MaxSuspensions   \* bound: how often the tasks of LEON OS are suspended

ASSUME SizeAssumption ==
    /\ ConvBufs \in Nat /\ ConvBufs > 2
    /\ QueueSize \in Nat \ {0} /\ GrabEvery \in Nat \ {0}
    /\ MaxTracks \in Nat /\ MaxFrames \in Nat /\ MaxSuspensions \in Nat
    /\ Tracked \in [1..MaxFrames -> SUBSET (0..MaxTracks)]

VARIABLES
    mode,       \* g_running_mode: read from the configuration at the start
    rt,         \* where LEON RT is with its frame
    frame,      \* which frame that is: usbFrameCtr + 1, and deepcount + 1
    conv,       \* convBuf: the frame in each buffer, whole or in part
    flag,       \* deeplearningFlag: per thread, EMPTY or DETECT
    asked,      \* history: the frame at which its flag was set last
    deep,       \* where each inference thread is
    image,      \* the frame in the buffer it was given
    result,     \* g_modelOutBuf: the image each thread's was found in, and
                \* the frame at which it was asked for it
    count,      \* the result whose number of boxes LEON RT has read
    fed,        \* history: the image whose boxes the tracker got last
    tracks,     \* _this_tracker->tracks.size()
    room,       \* capacity of tracking_info_to_os; it only grows, and its
                \* memory is moved exactly then, so it also names the memory
    size,       \* tracking_info_to_os.size()
    boxes,      \* its memory: the frame each place was filled at
    jpg,        \* jpgBuf: the frame it is of, whole or in part
    img,        \* img_len > 0
    chan,       \* lrt2los_channel
    ipc,        \* where thread_ipc_handler is
    todo,       \* how many messages it still takes before it waits again
    msg,        \* msg_received
    suspended,  \* deep_task_control: the three tasks do not run
    sent,       \* history: messages sent since they were suspended
    suspensions

frames    == <<rt, frame, conv, jpg, img>>
inference == <<flag, asked, deep, image, result>>
tracking  == <<count, fed, tracks>>
vector    == <<room, size, boxes>>
handler   == <<ipc, todo, msg>>
windows   == <<suspended, suspensions>>
vars == <<mode, frames, inference, tracking, vector, handler, chan, sent, windows>>

Slots == {0, 1}

None      == 0    \* before the first frame
NoResult  == [asked |-> None, image |-> None]
NoMessage == [frame |-> None, len |-> 0, room |-> 0, img |-> FALSE]

\* use_deep_res: the thread whose turn it is.
Slot == (frame - 1) % 2

\* What g_pucConvBufY points to.
Current == frame

Buffer(f) == f % ConvBufs

\* What the last and the last but one frame of this thread's was.
Before(f) == IF f > 2 THEN f - 2 ELSE None

At(pc) == rt = pc

Goto(pc) == rt' = pc
-----------------------------------------------------------------------------
Init ==
    /\ mode \in {"NORMAL", "RECORD"}
    /\ rt = "camera" /\ frame = None
    /\ conv = [b \in 0..ConvBufs - 1 |-> [frame |-> None, whole |-> TRUE]]
    /\ flag = [i \in Slots |-> "EMPTY"] /\ asked = [i \in Slots |-> None]
    /\ deep = [i \in Slots |-> "poll"] /\ image = [i \in Slots |-> None]
    /\ result = [i \in Slots |-> NoResult]
    /\ count = NoResult /\ fed = None
    /\ tracks = 0
    /\ room = 0 /\ size = 0 /\ boxes = [k \in 1..MaxTracks |-> None]
    /\ jpg = [frame |-> None, whole |-> FALSE] /\ img = FALSE
    /\ chan = <<>> /\ ipc = "wait" /\ todo = 0 /\ msg = NoMessage
    /\ suspended = FALSE /\ sent = 0 /\ suspensions = 0
-----------------------------------------------------------------------------
(* LEON RT: runInit's loop and deepLearning                                *)

\* A new frame of the camera: the pointer to its buffer is set before the
\* buffer is filled.
NewFrame ==
    /\ At("camera") /\ frame < MaxFrames
    /\ frame' = frame + 1
    /\ conv' = [conv EXCEPT ![Buffer(frame')] = [frame |-> frame',
                                                 whole |-> FALSE]]
    /\ Goto("convert")
    /\ UNCHANGED <<mode, jpg, img, inference, tracking, vector, handler, chan, sent, windows>>

\* (mutant) a recorder makes a picture of each frame.
ConvertedEncodesAll ==
    /\ At("convert")
    /\ conv' = [conv EXCEPT ![Buffer(frame)].whole = TRUE]
    /\ Goto(IF mode = "RECORD" THEN "encode" ELSE "turn")
    /\ UNCHANGED <<mode, frame, jpg, img, inference, tracking, vector, handler, chan,
                   sent, windows>>

\* sippProcessFrame returns.  A recorder makes a picture of each third frame.
Converted ==
    /\ At("convert")
    /\ conv' = [conv EXCEPT ![Buffer(frame)].whole = TRUE]
    /\ Goto(IF mode = "RECORD" /\ (frame - 1) % 3 = 0 THEN "encode" ELSE "turn")
    /\ UNCHANGED <<mode, frame, jpg, img, inference, tracking, vector, handler, chan,
                   sent, windows>>

\* get_img_jpg begins to write jpgBuf.
Encode ==
    /\ At("encode")
    /\ jpg' = [frame |-> frame, whole |-> FALSE]
    /\ Goto("picture")
    /\ UNCHANGED <<mode, frame, conv, img, inference, tracking, vector, handler,
                   chan, sent, windows>>

\* The compression is done and get_img_str has put the text of the picture
\* over it; without a picture there is no text.
Pictured ==
    /\ At("picture")
    /\ \E made \in BOOLEAN : jpg' = [jpg EXCEPT !.whole = made] /\ img' = made
    /\ Goto(IF mode = "RECORD" THEN "turn" ELSE "count")
    /\ UNCHANGED <<mode, frame, conv, inference, tracking, vector, handler, chan,
                   sent, windows>>

\* (mutant) does not wait for the thread.
AskAtOnce ==
    /\ At("turn")
    /\ flag' = [flag EXCEPT ![Slot] = "DETECT"]
    /\ asked' = [asked EXCEPT ![Slot] = frame]
    /\ Goto(IF mode = "NORMAL" THEN "grab" ELSE "send")
    /\ UNCHANGED <<mode, frame, conv, jpg, img, deep, image, result, tracking, vector,
                   handler, chan, sent, windows>>

\* schedule_deeplearning.
Ask ==
    /\ At("turn")
    /\ flag[Slot] = "EMPTY"
    /\ flag' = [flag EXCEPT ![Slot] = "DETECT"]
    /\ asked' = [asked EXCEPT ![Slot] = frame]
    /\ Goto(IF mode = "NORMAL" THEN "grab" ELSE "send")
    /\ UNCHANGED <<mode, frame, conv, jpg, img, deep, image, result, tracking, vector,
                   handler, chan, sent, windows>>

\* trigger_online_grab; if it says yes, a picture of this frame over the last.
Wanted == frame > 1 /\ (frame - 1) % GrabEvery = 0

Grab ==
    /\ At("grab")
    /\ \/ /\ Wanted
          /\ jpg' = [frame |-> frame, whole |-> FALSE] /\ Goto("picture")
       \/ /\ ~Wanted
          /\ UNCHANGED jpg /\ Goto("count")
    /\ UNCHANGED <<mode, frame, conv, img, inference, tracking, vector, handler,
                   chan, sent, windows>>

\* detect_backupproc reads the number of boxes ...
ReadCount ==
    /\ At("count")
    /\ count' = result[Slot]
    /\ Goto("boxes")
    /\ UNCHANGED <<mode, frame, conv, jpg, img, inference, fed, tracks, vector,
                   handler, chan, sent, windows>>

\* ... then the boxes; run_tracker gets them.
ReadBoxes ==
    /\ At("boxes")
    /\ fed' = result[Slot].image /\ count' = NoResult
    /\ tracks' \in Tracked[frame]
    /\ Goto("pack")
    /\ UNCHANGED <<mode, frame, conv, jpg, img, inference, vector, handler, chan,
                   sent, windows>>

\* (mutant) leaves the memory as it is.
ReserveNothing ==
    /\ At("pack")
    /\ size' = 0 /\ UNCHANGED <<room, boxes>>
    /\ Goto(IF tracks = 0 THEN "send" ELSE "fill")
    /\ UNCHANGED <<mode, frame, conv, jpg, img, inference, tracking, handler,
                   chan, sent, windows>>

\* pack_tracking_info_into_buffer: reserve moves a vector that is too small to
\* other memory and frees what it had; resize(0) keeps the memory.
Reserve ==
    /\ At("pack")
    /\ \/ /\ tracks > room
          /\ room' = tracks /\ boxes' = [k \in 1..MaxTracks |-> None]
       \/ /\ tracks <= room
          /\ UNCHANGED <<room, boxes>>
    /\ size' = 0
    /\ Goto(IF tracks = 0 THEN "send" ELSE "fill")
    /\ UNCHANGED <<mode, frame, conv, jpg, img, inference, tracking, handler,
                   chan, sent, windows>>

\* push_back, track by track.
PushBack ==
    /\ At("fill")
    /\ size' = size + 1 /\ boxes' = [boxes EXCEPT ![size'] = frame]
    /\ Goto(IF size' = tracks THEN "send" ELSE "fill")
    /\ UNCHANGED <<mode, frame, conv, jpg, img, inference, tracking, room,
                   handler, chan, sent, windows>>

\* A message has the address of the vector's memory and of the picture, if
\* there is one; a recorder's vector is always empty.
Message == [frame |-> frame, len |-> size, room |-> room, img |-> img]

\* (mutant) sends whatever the queue holds.
SendUnchecked ==
    /\ At("send")
    /\ \/ /\ mode = "NORMAL" \/ img
          /\ chan' = Append(chan, Message)
          /\ sent' = sent + (IF suspended THEN 1 ELSE 0)
       \/ /\ mode = "RECORD" /\ ~img
          /\ UNCHANGED <<chan, sent>>
    /\ img' = FALSE
    /\ Goto("camera")
    /\ UNCHANGED <<mode, frame, conv, jpg, inference, tracking, vector, handler,
                   windows>>

\* LeonIPCSendMessage; a full queue only leaves a line in the log.
Send ==
    /\ At("send")
    /\ \/ /\ mode = "NORMAL" \/ img
          /\ chan' = IF Len(chan) < QueueSize
                       THEN Append(chan, Message)
                       ELSE chan
          /\ sent' = sent + (IF suspended THEN 1 ELSE 0)
       \/ /\ mode = "RECORD" /\ ~img
          /\ UNCHANGED <<chan, sent>>
    /\ img' = FALSE
    /\ Goto("camera")
    /\ UNCHANGED <<mode, frame, conv, jpg, inference, tracking, vector, handler,
                   windows>>
-----------------------------------------------------------------------------
(* LEON OS: the inference threads, deepLearning and deepLearning_multi     *)

\* (mutant) a recorder's thread leaves the case without giving the flag back.
SkipKeepsFlag(i) ==
    /\ ~suspended /\ deep[i] = "poll" /\ flag[i] = "DETECT" /\ mode = "RECORD"
    /\ UNCHANGED vars

\* A recorder infers nothing.
Skip(i) ==
    /\ ~suspended /\ deep[i] = "poll" /\ flag[i] = "DETECT" /\ mode = "RECORD"
    /\ flag' = [flag EXCEPT ![i] = "EMPTY"]
    /\ UNCHANGED <<mode, frames, asked, deep, image, result, tracking, vector, handler,
                   chan, sent, windows>>

\* The thread sees its flag and takes the address of the frame.
TakeImage(i) ==
    /\ ~suspended /\ deep[i] = "poll" /\ flag[i] = "DETECT" /\ mode = "NORMAL"
    /\ image' = [image EXCEPT ![i] = Current]
    /\ deep' = [deep EXCEPT ![i] = "resize"]
    /\ UNCHANGED <<mode, frames, flag, asked, result, tracking, vector, handler, chan,
                   sent, windows>>

\* NNPreProcess has read the frame; fathomrun_every works on the copy.
Resized(i) ==
    /\ ~suspended /\ deep[i] = "resize"
    /\ deep' = [deep EXCEPT ![i] = "infer"]
    /\ UNCHANGED <<mode, frames, flag, asked, image, result, tracking, vector, handler,
                   chan, sent, windows>>

\* (mutant) the flag is given back before the result is copied.
InferFlagFirst(i) ==
    /\ ~suspended /\ deep[i] = "infer"
    /\ flag' = [flag EXCEPT ![i] = "EMPTY"]
    /\ deep' = [deep EXCEPT ![i] = "done"]
    /\ UNCHANGED <<mode, frames, asked, image, result, tracking, vector, handler, chan,
                   sent, windows>>

\* The result is copied to g_modelOutBuf ...
Infer(i) ==
    /\ ~suspended /\ deep[i] = "infer"
    /\ result' = [result EXCEPT ![i] = [asked |-> asked[i],
                                        image |-> image[i]]]
    /\ deep' = [deep EXCEPT ![i] = "done"]
    /\ UNCHANGED <<mode, frames, flag, asked, image, tracking, vector, handler, chan,
                   sent, windows>>

\* ... and then the flag is given back.
GiveBack(i) ==
    /\ ~suspended /\ deep[i] = "done"
    /\ flag' = [flag EXCEPT ![i] = "EMPTY"]
    /\ deep' = [deep EXCEPT ![i] = "poll"]
    /\ image' = [image EXCEPT ![i] = None]
    /\ UNCHANGED <<mode, frames, asked, result, tracking, vector, handler, chan,
                   sent, windows>>
-----------------------------------------------------------------------------
(* LEON OS: thread_ipc_handler                                             *)

\* LeonIPCWaitMessage and LeonIPCNumberOfPendingMessages.
CountMessages ==
    /\ ~suspended /\ ipc = "wait" /\ chan # <<>>
    /\ todo' = Len(chan) /\ ipc' = "read"
    /\ UNCHANGED <<mode, frames, inference, tracking, vector, msg, chan, sent, windows>>

\* LeonIPCReadMessage.
ReadMessage ==
    /\ ~suspended /\ ipc = "read"
    /\ msg' = Head(chan) /\ chan' = Tail(chan)
    /\ todo' = todo - 1 /\ ipc' = "add"
    /\ UNCHANGED <<mode, frames, inference, tracking, vector, sent, windows>>

\* add_tracking_data and add_jpeg_image_data copy what the message points to.
AddData ==
    /\ ~suspended /\ ipc = "add"
    /\ ipc' = IF todo = 0 THEN "wait" ELSE "read"
    /\ msg' = NoMessage
    /\ UNCHANGED <<mode, frames, inference, tracking, vector, todo, chan, sent, windows>>
-----------------------------------------------------------------------------
(* deep_task_control, called by the threads that write the flash.  It      *)
(* suspends or resumes the three tasks one after the other; here that is   *)
(* one step.                                                               *)

Suspend ==
    /\ ~suspended /\ suspensions < MaxSuspensions
    /\ suspended' = TRUE /\ suspensions' = suspensions + 1
    /\ UNCHANGED <<mode, frames, inference, tracking, vector, handler, chan, sent>>

Resume ==
    /\ suspended
    /\ suspended' = FALSE /\ sent' = 0
    /\ UNCHANGED <<mode, frames, inference, tracking, vector, handler, chan,
                   suspensions>>
-----------------------------------------------------------------------------
RT ==
    \/ NewFrame \/ Converted \/ Encode \/ Ask \/ Grab \/ Pictured
    \/ ReadCount \/ ReadBoxes \/ Reserve \/ PushBack \/ Send

Deep(i) == Skip(i) \/ TakeImage(i) \/ Resized(i) \/ Infer(i) \/ GiveBack(i)

Handler == CountMessages \/ ReadMessage \/ AddData

Next ==
    \/ NewFrame \/ Converted \/ Encode \/ Ask \/ Grab \/ Pictured
    \/ ReadCount \/ ReadBoxes \/ Reserve \/ PushBack \/ Send
    \/ \E i \in Slots :
          Skip(i) \/ TakeImage(i) \/ Resized(i) \/ Infer(i) \/ GiveBack(i)
    \/ CountMessages \/ ReadMessage \/ AddData
    \/ Suspend \/ Resume

\* The camera goes on, each thread runs, and whoever suspended the tasks
\* resumes them.
Fairness ==
    /\ WF_vars(RT) /\ WF_vars(Handler) /\ WF_vars(Resume)
    /\ \A i \in Slots : WF_vars(Deep(i))

Spec == Init /\ [][Next]_vars /\ Fairness
-----------------------------------------------------------------------------
(* Properties                                                              *)

Records == [frame : 1..MaxFrames, len : 0..MaxTracks, room : 0..MaxTracks,
            img : BOOLEAN]
Results == [asked : 0..MaxFrames, image : 0..MaxFrames]

\* The types of the variables; the channel holds no more than its pool has
\* room for.
TypeOK ==
    /\ mode \in {"NORMAL", "RECORD"}
    /\ rt \in {"camera", "convert", "encode", "picture", "turn", "grab", "count",
               "boxes", "pack", "fill", "send"}
    /\ frame \in 0..MaxFrames
    /\ conv \in [0..ConvBufs - 1 -> [frame : 0..MaxFrames, whole : BOOLEAN]]
    /\ flag \in [Slots -> {"EMPTY", "DETECT"}]
    /\ asked \in [Slots -> 0..MaxFrames]
    /\ deep \in [Slots -> {"poll", "resize", "infer", "done"}]
    /\ image \in [Slots -> 0..MaxFrames]
    /\ result \in [Slots -> Results] /\ count \in Results
    /\ fed \in 0..MaxFrames /\ tracks \in 0..MaxTracks
    /\ room \in 0..MaxTracks /\ size \in 0..MaxTracks
    /\ boxes \in [1..MaxTracks -> 0..MaxFrames]
    /\ jpg \in [frame : 0..MaxFrames, whole : BOOLEAN] /\ img \in BOOLEAN
    /\ chan \in Seq(Records) /\ Len(chan) <= QueueSize
    /\ ipc \in {"wait", "read", "add"} /\ todo \in 0..QueueSize
    /\ msg \in Records \union {NoMessage}
    /\ suspended \in BOOLEAN /\ suspensions \in 0..MaxSuspensions
    /\ sent \in 0..MaxFrames

\* While a thread reads a frame, its buffer keeps that frame although LEON RT
\* goes on converting.  It is the frame the thread was asked for or one of the
\* two after it, and it is still being converted only if it is a later one.
\* (NNPreProcess reading lrt_g_pucConvBufY; PP_BUFS and the two flags.)
ImageStable ==
    \A i \in Slots : deep[i] = "resize" =>
        LET buffer == conv[Buffer(image[i])] IN
        /\ image[i] \in asked[i]..asked[i] + 2
        /\ buffer.frame = image[i]
        /\ ~buffer.whole => image[i] > asked[i]

\* What the tracker gets was asked for two frames ago, or for this frame by a
\* thread that was already done with it; and the boxes belong to another
\* result than their number only in that second case.
\* (detect_backupproc reading g_modelOutBuf right after the flag was set.)
ResultLag ==
    /\ At("count") \/ At("boxes") =>
          result[Slot].asked \in {Before(frame), frame}
    /\ At("boxes") /\ count # result[Slot] =>
          count.asked = Before(frame) /\ result[Slot].asked = frame

\* The images behind what the tracker gets go back in time by one frame at
\* most, though two threads pick their frames when they get to them.
\* (use_deep_res taking turns; tracker::predict counts each call as a frame.)
FedNearlyInOrder == [][fed' >= fed - 1]_vars

\* While the tasks of LEON OS are suspended LEON RT sends three messages at
\* most, however long that takes: it stops at a flag nobody gives back.  So a
\* queue with room for three when they are suspended does not fill during an
\* update of the flash.
\* (schedule_deeplearning's wait and deep_task_control.)
FewWhileSuspended == suspended => sent <= 3

\* The frame whose tracks LEON RT packs, or packed last.
Packing == IF rt \in {"fill", "send", "camera"} THEN frame ELSE frame - 1

\* What a message points to is that of its frame only for so long.  Its tracks
\* are until LEON RT packs those of the next frame: from then on they are
\* written over one after the other, with tracks of later frames, never of
\* earlier ones, or the vector has grown and the address is that of freed
\* memory.  Its picture is until LEON RT makes another, which is GrabEvery
\* frames later or, on a recorder, three.
\* (thread_ipc_handler copying from tracking_info_to_os and jpgBuf.)
DataLasts ==
    ipc = "add" =>
        /\ mode = "NORMAL" =>
              /\ msg.len <= msg.room /\ msg.room <= room
              /\ Packing = msg.frame =>
                    msg.room = room /\ \A k \in 1..msg.len : boxes[k] = msg.frame
              /\ msg.room = room => \A k \in 1..msg.len : boxes[k] >= msg.frame
        /\ msg.img =>
              \/ jpg = [frame |-> msg.frame, whole |-> TRUE]
              \/ frame >= msg.frame + (IF mode = "RECORD" THEN 3 ELSE GrabEvery)

\* What is shared by address lasts: a frame while it is read, a result until it
\* is picked up, what a message points to until a later frame gets that far.
SharedInTime == ImageStable /\ ResultLag /\ DataLasts

\* Every frame of the camera gets through and every message is taken, whatever
\* is suspended and resumed in between.
\* (the flags given back on every path of both threads.)
FramesKeepComing ==
    <>[](/\ frame = MaxFrames /\ At("camera")
         /\ chan = <<>> /\ ipc = "wait")

\* The frames flow: each one gets through, and in this order.
FramesFlow == FedNearlyInOrder /\ FramesKeepComing
=============================================================================
