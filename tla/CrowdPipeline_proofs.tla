------------------------ MODULE CrowdPipeline_proofs ------------------------
(***************************************************************************)
(* Safety of the frame pipeline over both processors, for any number of    *)
(* frames and suspensions, any size of the queue and any number of buffers *)
(* above two.                                                              *)
(*                                                                         *)
(* Everything follows from how LEON RT takes turns: which frame each       *)
(* thread was asked for is a function of the frame number and of whether   *)
(* LEON RT has passed the turn of this frame.                              *)
(***************************************************************************)
EXTENDS CrowdPipeline, SequenceTheorems, TLAPS

\* This frame's flag has been set, or there is no frame yet.
Turned ==
  \/ rt \in {"camera", "grab", "count", "boxes", "pack", "fill", "send"}
  \/ mode = "NORMAL" /\ rt = "picture"

\* A frame a picture is made of: each third of a recorder, else the ones that are due.
Due(f) == (f - 1) % (IF mode = "RECORD" THEN 3 ELSE GrabEvery) = 0

\* A recorder takes the short way; pictures are made of the frames due only.
ModeFollowed ==
  /\ rt # "camera" => frame >= 1
  /\ mode = "RECORD" => rt \notin {"grab", "count", "boxes", "pack", "fill"}
  /\ mode = "NORMAL" => rt # "encode"
  /\ At("encode") \/ At("picture") => Due(frame)

AskedInTurn ==
  /\ asked[Slot] = IF Turned THEN frame ELSE Before(frame)
  /\ asked[1 - Slot] = IF frame > 0 THEN frame - 1 ELSE None

\* A thread works for the frame it was asked for, or a later one it found; until it is
\* done, its result is that of the frame it was asked for before.
ThreadsBehind ==
  \A i \in Slots :
    /\ deep[i] # "poll" => flag[i] = "DETECT" /\ mode = "NORMAL"
    /\ flag[i] = "DETECT" => asked[i] >= 1
    /\ deep[i] # "poll" => image[i] \in asked[i]..frame
    /\ result[i].image \in result[i].asked..frame
    /\ mode = "NORMAL" =>
         result[i].asked = IF flag[i] = "EMPTY" \/ deep[i] = "done"
                             THEN asked[i] ELSE Before(asked[i])

\* The number of boxes and the boxes are of one result, or the thread has finished since.
CountBehind ==
  At("boxes") => \/ count = result[Slot]
                 \/ count.asked = Before(frame) /\ result[Slot].asked = frame

\* The last three frames are in buffers of their own.
BuffersKept ==
  \A g \in 1..frame : g >= frame - 2 =>
    /\ conv[Buffer(g)].frame = g
    /\ conv[Buffer(g)].whole \/ (g = frame /\ At("convert"))

\* The vector has its tracks of this frame as far as it has been filled.
VectorFilled ==
  /\ size <= room
  /\ At("fill") => size < tracks /\ tracks <= room
  /\ At("fill") \/ (mode = "NORMAL" /\ At("send")) =>
       \A k \in 1..size : boxes[k] = frame

\* The picture is of a frame that was due; what is sent with one is of this frame.
PictureCurrent ==
  /\ jpg.frame <= frame
  /\ jpg.frame > 0 => Due(jpg.frame)
  /\ At("picture") => jpg.frame = frame
  /\ img => /\ \/ rt \in {"count", "boxes", "pack", "fill", "send"}
               \/ At("turn") /\ mode = "RECORD"
            /\ jpg = [frame |-> frame, whole |-> TRUE]

\* What a message points to has not gone back behind the message, and is its own until the
\* next tracks are packed and the next picture is due.
TracksIntact(m) ==
  /\ m.len <= m.room /\ m.room <= room
  /\ Packing = m.frame => m.room = room /\ \A k \in 1..m.len : boxes[k] = m.frame
  /\ m.room = room => \A k \in 1..m.len : boxes[k] >= m.frame

PictureIntact(m) ==
  \/ jpg = [frame |-> m.frame, whole |-> TRUE]
  \/ jpg.frame > m.frame

Intact(m) ==
  /\ m.frame <= Packing
  /\ mode = "NORMAL" => TracksIntact(m)
  /\ m.img => Due(m.frame) /\ PictureIntact(m)

MessagesIntact ==
  /\ \A k \in DOMAIN chan : Intact(chan[k])
  /\ ipc = "add" => msg \in Records /\ Intact(msg)
  /\ ipc = "read" => todo \in 1..Len(chan)
  /\ ipc = "add" => todo <= Len(chan)

\* The tracker has been fed an image no newer than the frame of that time.
FedBehind ==
  fed <= IF rt \in {"convert", "encode", "picture", "turn", "grab", "count", "boxes"}
           THEN frame - 1 ELSE frame

\* Each flag that is empty lets one more frame through, and so does having passed the turn.
Empties == (IF flag[0] = "EMPTY" THEN 1 ELSE 0) + (IF flag[1] = "EMPTY" THEN 1 ELSE 0)
Passed == IF Turned /\ ~At("camera") THEN 1 ELSE 0

BudgetKept ==
  /\ sent <= frame /\ (~At("camera") => sent < frame)
  /\ ~suspended => sent = 0
  /\ suspended => sent + Empties + Passed <= 3

IInv ==
  /\ TypeOK /\ ModeFollowed /\ AskedInTurn /\ ThreadsBehind /\ CountBehind
  /\ BuffersKept /\ VectorFilled /\ PictureCurrent /\ MessagesIntact /\ FedBehind /\ BudgetKept

-----------------------------------------------------------------------------
\* Two threads take turns.
LEMMA SlotTurns ==
  ASSUME NEW f \in Nat
  PROVE  /\ (f - 1) % 2 \in Slots /\ f % 2 \in Slots
         /\ f % 2 = 1 - ((f - 1) % 2)
BY DEF Slots

LEMMA SlotStep ==
  ASSUME frame \in Nat
  PROVE  /\ Slot \in Slots
         /\ frame' = frame => Slot' = Slot
         /\ frame' = frame + 1 => Slot' = 1 - Slot
<1>1. Slot \in Slots /\ frame % 2 = 1 - Slot
  BY SlotTurns DEF Slot
<1>2. frame' = frame + 1 => Slot' = frame % 2
  BY DEF Slot
<1>3. QED
  BY <1>1, <1>2 DEF Slot

LEMMA BufferType ==
  ASSUME NEW a \in Nat
  PROVE  Buffer(a) \in 0..ConvBufs - 1
BY SizeAssumption DEF Buffer

\* Frames less than three apart are in different buffers.
LEMMA BuffersApart ==
  ASSUME NEW a \in Nat, NEW b \in Nat, a < b, b <= a + 2
  PROVE  Buffer(a) # Buffer(b)
<1> DEFINE p == a \div ConvBufs
           q == b \div ConvBufs
<1>1. SUFFICES ASSUME a % ConvBufs = b % ConvBufs PROVE FALSE
  BY DEF Buffer
<1>2. /\ p \in Int /\ q \in Int
      /\ a = ConvBufs * p + (a % ConvBufs)
      /\ b = ConvBufs * q + (b % ConvBufs)
  BY SizeAssumption
<1>3. b - a = ConvBufs * (q - p)
  BY <1>1, <1>2, SizeAssumption
<1>4. q - p >= 1
  BY <1>2, <1>3, SizeAssumption
<1>5. ConvBufs * (q - p) >= ConvBufs
  BY <1>2, <1>4, SizeAssumption
<1>6. QED
  BY <1>3, <1>5, SizeAssumption

\* Frames that are due are as far apart as the pictures are.
LEMMA DueApart ==
  ASSUME NEW a \in Nat, NEW b \in Nat, a < b, Due(a), Due(b)
  PROVE  b >= a + (IF mode = "RECORD" THEN 3 ELSE GrabEvery)
<1> DEFINE n == IF mode = "RECORD" THEN 3 ELSE GrabEvery
           p == (a - 1) \div n
           q == (b - 1) \div n
<1>1. n \in Nat /\ n > 0
  BY SizeAssumption
<1>2. (a - 1) % n = 0 /\ (b - 1) % n = 0
  BY DEF Due
<1> HIDE DEF n
<1>3. /\ p \in Int /\ q \in Int
      /\ a - 1 = n * p /\ b - 1 = n * q
  BY <1>1, <1>2
<1>4. b - a = n * (q - p)
  BY <1>1, <1>3
<1>5. q - p >= 1
  BY <1>1, <1>3, <1>4
<1>6. n * (q - p) >= n
  BY <1>1, <1>3, <1>5
<1>7. b >= a + n
  BY <1>1, <1>4, <1>6, <1>3
<1>8. QED
  BY <1>7 DEF n

-----------------------------------------------------------------------------
LEMMA InitType == Init => TypeOK
<1> SUFFICES ASSUME Init PROVE TypeOK
  OBVIOUS
<1> USE SizeAssumption DEF Init, None, NoResult, NoMessage
<1>1. NoResult \in Results
  BY DEF Results
<1>2. conv \in [0..ConvBufs - 1 -> [frame : 0..MaxFrames, whole : BOOLEAN]]
  OBVIOUS
<1>7. /\ boxes \in [1..MaxTracks -> 0..MaxFrames]
      /\ jpg \in [frame : 0..MaxFrames, whole : BOOLEAN]
  OBVIOUS
<1>3. chan \in Seq(Records) /\ Len(chan) <= QueueSize
  OBVIOUS
<1>4. /\ flag \in [Slots -> {"EMPTY", "DETECT"}] /\ asked \in [Slots -> 0..MaxFrames]
      /\ deep \in [Slots -> {"poll", "resize", "infer", "done"}]
      /\ image \in [Slots -> 0..MaxFrames] /\ result \in [Slots -> Results]
  BY <1>1
<1>5. img \in BOOLEAN /\ suspended \in BOOLEAN
  BY Zenon
<1>6. QED
  BY <1>1, <1>2, <1>3, <1>4, <1>5, <1>7 DEF TypeOK

LEMMA InitInv == Init => IInv
<1> SUFFICES ASSUME Init PROVE IInv
  OBVIOUS
<1> USE DEF Init, None, NoResult, NoMessage, Slots, At
<1>1. frame = 0 /\ Slot \in Slots
  BY SlotTurns DEF Slot
<1>2. ModeFollowed /\ AskedInTurn
  BY <1>1 DEF ModeFollowed, AskedInTurn, Before, Turned
<1>3. ThreadsBehind /\ CountBehind
  BY <1>1 DEF ThreadsBehind, CountBehind, Before
<1>4. BuffersKept /\ VectorFilled /\ MessagesIntact /\ FedBehind /\ BudgetKept
  BY DEF BuffersKept, VectorFilled, MessagesIntact, FedBehind, BudgetKept
<1>5. PictureCurrent
  BY DEF PictureCurrent
<1>6. QED
  BY <1>2, <1>3, <1>4, <1>5, InitType DEF IInv

-----------------------------------------------------------------------------
LEMMA Numbers ==
  ASSUME TypeOK
  PROVE  /\ frame \in Nat /\ Slot \in Slots
         /\ \A j \in Slots : /\ asked[j] \in Nat /\ image[j] \in Nat
                              /\ result[j].asked \in Nat /\ result[j].image \in Nat
<1>1. frame \in Nat
  BY SizeAssumption DEF TypeOK
<1>2. Slot \in Slots
  BY <1>1, SlotStep
<1>3. ASSUME NEW j \in Slots
      PROVE  /\ asked[j] \in Nat /\ image[j] \in Nat
             /\ result[j].asked \in Nat /\ result[j].image \in Nat
  <2>1. asked[j] \in 0..MaxFrames /\ image[j] \in 0..MaxFrames /\ result[j] \in Results
    BY DEF TypeOK
  <2>2. QED
    BY <2>1, SizeAssumption DEF Results
<1>4. QED
  BY <1>1, <1>2, <1>3

\* No thread is asked for a frame that has not come.
LEMMA AskedBound ==
  ASSUME TypeOK, AskedInTurn
  PROVE  \A j \in Slots : asked[j] <= frame
<1>1. frame \in Nat /\ Slot \in Slots
  BY Numbers
<1>2. asked[Slot] <= frame /\ asked[1 - Slot] <= frame
  BY <1>1 DEF AskedInTurn, Before, None
<1>3. \A j \in Slots : j = Slot \/ j = 1 - Slot
  BY <1>1 DEF Slots
<1>4. QED
  BY <1>2, <1>3

\* Who was asked last but has not given its flag back was asked for one of the last frames.
LEMMA AskedSince ==
  ASSUME TypeOK, AskedInTurn, NEW j \in Slots, asked[j] >= 1
  PROVE  asked[j] >= frame - 2 /\ (rt = "convert" => asked[j] < frame)
<1>1. frame \in Nat /\ Slot \in Slots
  BY Numbers
<1>2. j = Slot \/ j = 1 - Slot
  BY <1>1 DEF Slots
<1>3. CASE j = Slot
  BY <1>1, <1>3 DEF AskedInTurn, Turned, Before, None
<1>4. CASE j = 1 - Slot
  BY <1>1, <1>4 DEF AskedInTurn, None
<1>5. QED
  BY <1>2, <1>3, <1>4

\* Taking a message off the channel.
LEMMA HeadOfRecords ==
  ASSUME NEW q \in Seq(Records), q # <<>>
  PROVE  /\ Head(q) = q[1] /\ Head(q) \in Records /\ Len(Tail(q)) = Len(q) - 1
         /\ \A k \in DOMAIN Tail(q) : k + 1 \in DOMAIN q /\ Tail(q)[k] = q[k + 1]
<1>1. Len(q) \in Nat /\ Len(q) > 0 /\ Len(Tail(q)) = Len(q) - 1
  BY HeadTailProperties
<1>2. QED
  BY <1>1, HeadTailProperties

-----------------------------------------------------------------------------
\* One lemma for each conjunct of the invariant: a step for each action that can disturb
\* it, one for those that cannot.
LEMMA ModeStep == IInv /\ [Next]_vars => ModeFollowed'
<1> SUFFICES ASSUME IInv, [Next]_vars PROVE ModeFollowed'
  OBVIOUS
<1> USE DEF IInv, TypeOK, frames, inference, tracking, vector, handler, windows, At, Goto, ModeFollowed
<1>1. CASE NewFrame
  BY <1>1 DEF NewFrame
<1>2. CASE Converted
  BY <1>2 DEF Converted, Due
<1>3. CASE Ask
  BY <1>3 DEF Ask
<1>4. CASE Encode \/ Grab \/ Pictured \/ ReadCount \/ ReadBoxes \/ Reserve \/ PushBack \/ Send \/ CountMessages \/
          ReadMessage \/ AddData \/ Suspend \/ Resume
  BY <1>4 DEF Encode, Grab, Pictured, ReadCount, ReadBoxes, Reserve, PushBack, Send, CountMessages,
         ReadMessage, AddData, Suspend, Resume, Wanted, Due
<1>5. ASSUME NEW i \in Slots, Skip(i) \/ TakeImage(i) \/ Resized(i) \/ Infer(i) \/ GiveBack(i)
      PROVE  ModeFollowed'
  BY <1>5 DEF Due, Skip, TakeImage, Resized, Infer, GiveBack
<1>6. CASE UNCHANGED vars
  BY <1>6 DEF vars, Due
<1>7. QED
  BY <1>1, <1>2, <1>3, <1>4, <1>5, <1>6 DEF Next

LEMMA BudgetStep == IInv /\ [Next]_vars => BudgetKept'
<1> SUFFICES ASSUME IInv, [Next]_vars PROVE BudgetKept'
  OBVIOUS
<1> USE DEF IInv, TypeOK, frames, inference, tracking, vector, handler, windows, At, Goto, ModeFollowed,
            BudgetKept, Empties, Passed, Slots, Turned
<1>0. /\ Slot \in Slots
      /\ frame' = frame => Slot' = Slot
      /\ frame' = frame + 1 => Slot' = 1 - Slot
  BY SlotStep
<1>1. CASE NewFrame
  BY <1>1, <1>0 DEF NewFrame
<1>2. CASE Ask
  BY <1>2, <1>0 DEF Ask
<1>3. CASE Send
  BY SMTT(30), <1>3, <1>0 DEF Send
<1>4. CASE Suspend
  BY <1>4, <1>0 DEF Suspend
<1>5. CASE Resume
  BY <1>5, <1>0 DEF Resume
<1>6. ASSUME NEW i \in Slots, Skip(i) PROVE BudgetKept'
  BY <1>6, <1>0 DEF Skip
<1>7. ASSUME NEW i \in Slots, GiveBack(i) PROVE BudgetKept'
  BY <1>7, <1>0 DEF GiveBack
<1>8. CASE Converted \/ Encode \/ Grab \/ Pictured \/ ReadCount \/ ReadBoxes \/ Reserve \/ PushBack \/ CountMessages \/
          ReadMessage \/ AddData
  <2>1. /\ flag' = flag /\ frame' = frame /\ sent' = sent /\ suspended' = suspended
        /\ rt' = "camera" <=> rt = "camera"
        /\ Turned' <=> Turned
    BY <1>8 DEF Converted, Encode, Grab, Pictured, ReadCount, ReadBoxes, Reserve, PushBack,
         CountMessages, ReadMessage, AddData
  <2>2. Passed' = Passed
    BY <2>1 DEF Passed, At
  <2>3. QED
    BY <2>1, <2>2
<1>9. ASSUME NEW i \in Slots, TakeImage(i) \/ Resized(i) \/ Infer(i)
      PROVE  BudgetKept'
  BY SMTT(30), <1>9, <1>0 DEF TakeImage, Resized, Infer
<1>10. CASE UNCHANGED vars
  BY <1>10, <1>0 DEF vars
<1>11. QED
  BY <1>1, <1>2, <1>3, <1>4, <1>5, <1>6, <1>7, <1>8, <1>9, <1>10 DEF Next

LEMMA FedStep == IInv /\ [Next]_vars => FedBehind'
<1> SUFFICES ASSUME IInv, [Next]_vars PROVE FedBehind'
  OBVIOUS
<1> USE DEF IInv, TypeOK, frames, inference, tracking, vector, handler, windows, At, Goto, FedBehind,
            ModeFollowed, ThreadsBehind
<1>0. /\ Slot \in Slots
      /\ frame' = frame => Slot' = Slot
      /\ frame' = frame + 1 => Slot' = 1 - Slot
  BY SlotStep
<1>1. CASE NewFrame
  BY <1>1, <1>0 DEF NewFrame
<1>2. CASE Ask
  BY <1>2, <1>0 DEF Ask
<1>3. CASE ReadBoxes
  BY <1>3, <1>0 DEF ReadBoxes
<1>4. CASE Send
  BY <1>4, <1>0 DEF Send
<1>5. CASE Converted \/ Encode \/ Grab \/ Pictured \/ ReadCount \/ Reserve \/ PushBack \/ CountMessages \/ ReadMessage \/
          AddData \/ Suspend \/ Resume
  BY <1>5, <1>0 DEF Converted, Encode, Grab, Pictured, ReadCount, Reserve, PushBack, CountMessages,
         ReadMessage, AddData, Suspend, Resume
<1>6. ASSUME NEW i \in Slots, Skip(i) \/ TakeImage(i) \/ Resized(i) \/ Infer(i) \/ GiveBack(i)
      PROVE  FedBehind'
  BY <1>6, <1>0 DEF Skip, TakeImage, Resized, Infer, GiveBack
<1>7. CASE UNCHANGED vars
  BY <1>7, <1>0 DEF vars
<1>8. QED
  BY <1>1, <1>2, <1>3, <1>4, <1>5, <1>6, <1>7 DEF Next

LEMMA VectorStep == IInv /\ [Next]_vars => VectorFilled'
<1> SUFFICES ASSUME IInv, [Next]_vars PROVE VectorFilled'
  OBVIOUS
<1> USE DEF IInv, TypeOK, frames, inference, tracking, vector, handler, windows, At, Goto,
            VectorFilled, ModeFollowed
<1>0. MaxTracks \in Nat
  BY SizeAssumption
<1>1. CASE Reserve
  BY <1>0, <1>1 DEF Reserve
<1>2. CASE PushBack
  <2>1. /\ size \in Nat /\ size < tracks /\ tracks <= room /\ size' = size + 1
        /\ tracks \in 0..MaxTracks /\ room \in 0..MaxTracks
        /\ UNCHANGED <<frame, tracks, room>>
    BY <1>0, <1>2 DEF PushBack
  <2>2. size' \in 1..MaxTracks
    BY <1>0, <2>1
  <2>3. \A k \in 1..size' : boxes'[k] = frame
    BY <1>0, <1>2, <2>1, <2>2 DEF PushBack
  <2>4. rt' = IF size' = tracks THEN "send" ELSE "fill"
    BY <1>2 DEF PushBack
  <2>5. QED
    BY <1>0, <2>1, <2>2, <2>3, <2>4
<1>3. CASE NewFrame \/ Converted \/ Encode \/ Ask \/ Grab \/ Pictured \/ ReadCount \/ ReadBoxes
          \/ Send \/ CountMessages \/ ReadMessage \/ AddData \/ Suspend \/ Resume
  BY <1>3 DEF NewFrame, Converted, Encode, Ask, Grab, Pictured, ReadCount, ReadBoxes, Send,
         CountMessages, ReadMessage, AddData, Suspend, Resume
<1>4. ASSUME NEW i \in Slots, Skip(i) \/ TakeImage(i) \/ Resized(i) \/ Infer(i) \/ GiveBack(i)
      PROVE  VectorFilled'
  BY <1>4 DEF Skip, TakeImage, Resized, Infer, GiveBack
<1>5. CASE UNCHANGED vars
  BY <1>5 DEF vars
<1>6. QED
  BY <1>1, <1>2, <1>3, <1>4, <1>5 DEF Next

LEMMA NewPicture ==
  ASSUME frame \in Nat, jpg' = [frame |-> frame, whole |-> FALSE], UNCHANGED <<mode, frame>>,
         Due(frame), ~img'
  PROVE  PictureCurrent'
<1>1. jpg'.frame = frame /\ frame' = frame /\ mode' = mode
  OBVIOUS
<1>2. Due(jpg.frame)'
  BY <1>1, Zenon DEF Due
<1>3. QED
  BY <1>1, <1>2 DEF PictureCurrent, At

LEMMA PictureStep == IInv /\ [Next]_vars => PictureCurrent'
<1> SUFFICES ASSUME IInv, [Next]_vars PROVE PictureCurrent'
  OBVIOUS
<1> USE DEF IInv, TypeOK, frames, inference, tracking, vector, handler, windows, At, Goto,
            PictureCurrent, ModeFollowed, Due
<1>1. CASE NewFrame
  BY <1>1 DEF NewFrame
<1>2. CASE Converted
  BY <1>2 DEF Converted
<1>3. CASE Encode
  <2>1. /\ jpg' = [frame |-> frame, whole |-> FALSE] /\ UNCHANGED <<mode, frame, img>>
        /\ Due(frame) /\ ~img
    BY <1>3 DEF Encode
  <2>2. QED
    BY <2>1, Numbers, NewPicture
<1>4. CASE Grab
  <2>1. UNCHANGED <<mode, frame, img>> /\ ~img /\ mode = "NORMAL"
    BY <1>4 DEF Grab
  <2>2. CASE Wanted
    <3>1. jpg' = [frame |-> frame, whole |-> FALSE] /\ Due(frame)
      BY <1>4, <2>1, <2>2 DEF Grab, Wanted
    <3>2. QED
      BY <2>1, <3>1, Numbers, NewPicture
  <2>3. CASE ~Wanted
    <3>1. jpg' = jpg /\ rt' = "count"
      BY <1>4, <2>3 DEF Grab
    <3>2. QED
      BY <2>1, <3>1
  <2>4. QED
    BY <2>2, <2>3
<1>5. CASE Pictured
  <2>1. PICK made \in BOOLEAN : jpg' = [jpg EXCEPT !.whole = made] /\ img' = made
    BY <1>5 DEF Pictured
  <2>2. jpg' = [frame |-> frame, whole |-> made]
    BY <1>5, <2>1 DEF Pictured
  <2>3. /\ UNCHANGED <<mode, frame>>
        /\ rt' = IF mode = "RECORD" THEN "turn" ELSE "count"
    BY <1>5 DEF Pictured
  <2>4. Due(frame)
    BY <1>5 DEF Pictured
  <2>5. QED
    BY <2>1, <2>2, <2>3, <2>4
<1>6. CASE Ask
  BY <1>6 DEF Ask
<1>7. CASE ReadCount \/ ReadBoxes \/ Reserve \/ PushBack \/ Send
  BY <1>7 DEF ReadCount, ReadBoxes, Reserve, PushBack, Send
<1>8. CASE CountMessages \/ ReadMessage \/ AddData \/ Suspend \/ Resume
  BY <1>8 DEF CountMessages, ReadMessage, AddData, Suspend, Resume
<1>9. ASSUME NEW i \in Slots, Skip(i) \/ TakeImage(i) \/ Resized(i) \/ Infer(i) \/ GiveBack(i)
      PROVE  PictureCurrent'
  BY SMTT(30), <1>9 DEF Skip, TakeImage, Resized, Infer, GiveBack
<1>10. CASE UNCHANGED vars
  BY <1>10 DEF vars
<1>11. QED
  BY <1>1, <1>2, <1>3, <1>4, <1>5, <1>6, <1>7, <1>8, <1>9, <1>10 DEF Next

LEMMA AskedStep == IInv /\ [Next]_vars => AskedInTurn'
<1> SUFFICES ASSUME IInv, [Next]_vars PROVE AskedInTurn'
  OBVIOUS
<1> USE DEF IInv, TypeOK, frames, inference, tracking, vector, handler, windows, At, Goto, ModeFollowed,
            AskedInTurn, Turned, Before, None, Slots
<1>0. /\ Slot \in Slots
      /\ frame' = frame => Slot' = Slot
      /\ frame' = frame + 1 => Slot' = 1 - Slot
  BY SlotStep
<1>1. CASE NewFrame
  BY SMTT(30), <1>1, <1>0 DEF NewFrame
<1>2. CASE Ask
  BY <1>2, <1>0 DEF Ask
<1>3. CASE Send
  BY <1>3, <1>0 DEF Send
<1>4. CASE Converted \/ Encode \/ Grab \/ Pictured \/ ReadCount \/ ReadBoxes \/ Reserve \/ PushBack \/ CountMessages \/
          ReadMessage \/ AddData \/ Suspend \/ Resume
  BY <1>4, <1>0 DEF Converted, Encode, Grab, Pictured, ReadCount, ReadBoxes, Reserve, PushBack,
         CountMessages, ReadMessage, AddData, Suspend, Resume
<1>5. ASSUME NEW i \in Slots, Skip(i) \/ TakeImage(i) \/ Resized(i) \/ Infer(i) \/ GiveBack(i)
      PROVE  AskedInTurn'
  <2>1. UNCHANGED <<rt, mode, frame, asked>>
    BY <1>5 DEF Skip, TakeImage, Resized, Infer, GiveBack
  <2>2. QED
    BY SMTT(30), <2>1, <1>0
<1>6. CASE UNCHANGED vars
  BY <1>6, <1>0 DEF vars
<1>7. QED
  BY <1>1, <1>2, <1>3, <1>4, <1>5, <1>6 DEF Next

LEMMA NewFrameThreads ==
  ASSUME IInv, NewFrame
  PROVE  ThreadsBehind'
<1>1. frame' = frame + 1 /\ UNCHANGED <<mode, flag, asked, deep, image, result>>
  BY DEF NewFrame, inference
<1>2. SUFFICES ASSUME NEW j \in Slots
               PROVE  /\ deep[j] # "poll" => image[j] \in asked[j]..frame + 1
                      /\ result[j].image \in result[j].asked..frame + 1
  BY <1>1 DEF IInv, ThreadsBehind, Before
<1>3. /\ frame \in Nat /\ asked[j] \in Nat /\ image[j] \in Nat
      /\ result[j].asked \in Nat /\ result[j].image \in Nat
  BY <1>2, Numbers DEF IInv
<1>4. /\ deep[j] # "poll" => image[j] \in asked[j]..frame
      /\ result[j].image \in result[j].asked..frame
  BY <1>2 DEF IInv, ThreadsBehind
<1>5. QED
  BY <1>3, <1>4

LEMMA TakeImageThreads ==
  ASSUME IInv, NEW i \in Slots, TakeImage(i)
  PROVE  ThreadsBehind'
<1>1. /\ UNCHANGED <<mode, frame, flag, asked, result>>
      /\ image' = [image EXCEPT ![i] = frame] /\ deep' = [deep EXCEPT ![i] = "resize"]
      /\ flag[i] = "DETECT" /\ mode = "NORMAL" /\ deep[i] = "poll"
  BY DEF TakeImage, Current, frames
<1>2. image \in [Slots -> 0..MaxFrames] /\ deep \in [Slots -> {"poll", "resize", "infer", "done"}]
  BY DEF IInv, TypeOK
<1>3. frame \in Nat /\ asked[i] \in Nat /\ asked[i] <= frame
  BY Numbers, AskedBound DEF IInv
<1>4. QED
  BY <1>1, <1>2, <1>3 DEF IInv, ThreadsBehind, Before

LEMMA ThreadsStep == IInv /\ [Next]_vars => ThreadsBehind'
<1> SUFFICES ASSUME IInv, [Next]_vars PROVE ThreadsBehind'
  OBVIOUS
<1> USE DEF IInv, TypeOK, frames, inference, tracking, vector, handler, windows, At, Goto,
            ThreadsBehind, ModeFollowed, AskedInTurn, Turned, Slots, Results,
            Before, None
<1>0. /\ Slot \in Slots
      /\ frame' = frame => Slot' = Slot
      /\ frame' = frame + 1 => Slot' = 1 - Slot
  BY SlotStep
<1>1. CASE NewFrame
  BY <1>1, NewFrameThreads
<1>2. CASE Ask
  BY <1>2, <1>0 DEF Ask
<1>3. ASSUME NEW i \in Slots, Skip(i) PROVE ThreadsBehind'
  BY <1>3, <1>0 DEF Skip
<1>4. ASSUME NEW i \in Slots, TakeImage(i) PROVE ThreadsBehind'
  BY <1>4, TakeImageThreads
<1>5. ASSUME NEW i \in Slots, Infer(i) PROVE ThreadsBehind'
  BY <1>5, <1>0 DEF Infer
<1>6. ASSUME NEW i \in Slots, GiveBack(i) PROVE ThreadsBehind'
  BY <1>6, <1>0 DEF GiveBack
<1>7. CASE Converted \/ Encode \/ Grab \/ Pictured \/ ReadCount \/ ReadBoxes \/ Reserve \/ PushBack \/ Send \/
          CountMessages \/ ReadMessage \/ AddData \/ Suspend \/ Resume
  BY <1>7, <1>0 DEF Converted, Encode, Grab, Pictured, ReadCount, ReadBoxes, Reserve, PushBack, Send,
         CountMessages, ReadMessage, AddData, Suspend, Resume
<1>8. ASSUME NEW i \in Slots, Resized(i)
      PROVE  ThreadsBehind'
  BY <1>8, <1>0 DEF Resized
<1>9. CASE UNCHANGED vars
  BY <1>9, <1>0 DEF vars
<1>10. QED
  BY <1>1, <1>2, <1>3, <1>4, <1>5, <1>6, <1>7, <1>8, <1>9 DEF Next

LEMMA CountStep == IInv /\ [Next]_vars => CountBehind'
<1> SUFFICES ASSUME IInv, [Next]_vars PROVE CountBehind'
  OBVIOUS
<1> USE DEF IInv, TypeOK, frames, inference, tracking, vector, handler, windows, At, Goto, CountBehind,
            ThreadsBehind, ModeFollowed, AskedInTurn, Turned, Results, Before, None
<1>0. /\ Slot \in Slots
      /\ frame' = frame => Slot' = Slot
      /\ frame' = frame + 1 => Slot' = 1 - Slot
  BY SlotStep
<1>1. CASE Ask
  BY <1>1, <1>0 DEF Ask
<1>2. CASE ReadCount
  BY <1>2, <1>0 DEF ReadCount
<1>3. ASSUME NEW i \in Slots, Infer(i) PROVE CountBehind'
  <2>1. /\ UNCHANGED <<rt, frame, count, asked, mode>> /\ Slot' = Slot /\ deep[i] = "infer"
        /\ result' = [result EXCEPT ![i] = [asked |-> asked[i], image |-> image[i]]]
    BY <1>3, <1>0 DEF Infer
  <2>2. result[Slot].asked = Before(frame) \/ i # Slot \/ ~At("boxes")
    BY <1>0, <1>3, <2>1
  <2>3. result'[Slot].asked = frame \/ i # Slot \/ ~At("boxes")
    BY <1>0, <2>1
  <2>4. QED
    BY <1>0, <2>1, <2>2, <2>3
<1>4. CASE NewFrame \/ Converted \/ Encode \/ Grab \/ Pictured \/ ReadBoxes \/ Reserve \/ PushBack \/ Send \/
          CountMessages \/ ReadMessage \/ AddData \/ Suspend \/ Resume
  BY <1>4, <1>0 DEF NewFrame, Converted, Encode, Grab, Pictured, ReadBoxes, Reserve, PushBack, Send,
         CountMessages, ReadMessage, AddData, Suspend, Resume
<1>5. ASSUME NEW i \in Slots, Skip(i) \/ TakeImage(i) \/ Resized(i) \/ GiveBack(i)
      PROVE  CountBehind'
  BY <1>5, <1>0 DEF Skip, TakeImage, Resized, GiveBack
<1>6. CASE UNCHANGED vars
  BY <1>6, <1>0 DEF vars
<1>7. QED
  BY <1>1, <1>2, <1>3, <1>4, <1>5, <1>6 DEF Next

\* A message put in is of this frame; a message taken out is one that was in.
LEMMA MessageType ==
  ASSUME TypeOK, frame >= 1
  PROVE  Message \in Records
BY SizeAssumption DEF TypeOK, Records, Message

LEMMA MessageIntact ==
  ASSUME IInv, At("send"), mode = "NORMAL" \/ img
  PROVE  Intact(Message)
<1>1. frame \in Nat /\ frame >= 1 /\ Packing = frame /\ size \in Nat /\ room \in Nat
  BY SizeAssumption DEF IInv, TypeOK, ModeFollowed, At, Packing
<1>2. mode = "NORMAL" => size <= room /\ \A k \in 1..size : boxes[k] = frame
  BY DEF IInv, VectorFilled
<1>3. img => Due(frame) /\ jpg = [frame |-> frame, whole |-> TRUE]
  <2>1. img => jpg = [frame |-> frame, whole |-> TRUE] /\ (jpg.frame > 0 => Due(jpg.frame))
    BY DEF IInv, PictureCurrent
  <2>2. QED
    BY <1>1, <2>1
<1>4. mode = "NORMAL" => TracksIntact(Message)
  BY <1>1, <1>2 DEF TracksIntact, Message
<1>5. img => PictureIntact(Message)
  BY <1>3 DEF PictureIntact, Message
<1>6. QED
  BY <1>1, <1>3, <1>4, <1>5 DEF Intact, Message

\* What keeps the vector, the picture and their frame keeps every message as it is.
LEMMA SameIntact ==
  ASSUME UNCHANGED <<mode, room, boxes, jpg>>, Packing' = Packing, NEW m
  PROVE  Intact(m)' <=> Intact(m)
BY DEF Intact, TracksIntact, PictureIntact, Due

\* The messages that are there, after a step that neither adds nor takes one.
Kept == UNCHANGED <<chan, ipc, msg, todo>>

LEMMA KeptMessages ==
  ASSUME IInv, Kept, \A m \in Records : Intact(m) => Intact(m)'
  PROVE  MessagesIntact'
<1>1. \A k \in DOMAIN chan : chan[k] \in Records
  BY DEF IInv, TypeOK
<1>2. QED
  BY <1>1 DEF IInv, MessagesIntact, Kept

LEMMA SendMessages ==
  ASSUME IInv, Send
  PROVE  MessagesIntact'
<1>1. /\ UNCHANGED <<mode, room, boxes, jpg, ipc, msg, todo>> /\ frame' = frame
      /\ At("send") /\ At("camera")' /\ Packing' = Packing
  BY DEF Send, tracking, vector, handler, At, Goto, Packing
<1>2. \A n : Intact(n)' <=> Intact(n)
  BY <1>1, SameIntact
<1>3. chan \in Seq(Records) /\ todo \in Int /\ frame >= 1 /\ Len(chan) \in Nat
  BY <1>1, SizeAssumption DEF IInv, TypeOK, ModeFollowed, At
<1>4. Message \in Records
  BY <1>3, MessageType DEF IInv
<1>5. \A k \in DOMAIN chan : Intact(chan[k])
  BY DEF IInv, MessagesIntact
<1>6. /\ Len(chan') \in Nat /\ Len(chan') >= Len(chan)
      /\ \A k \in DOMAIN chan' : Intact(chan'[k])
  <2>1. CASE chan' = chan
    BY <1>3, <1>5, <2>1
  <2>2. CASE chan' = Append(chan, Message) /\ (mode = "NORMAL" \/ img)
    <3>1. Intact(Message)
      BY <1>1, <2>2, MessageIntact
    <3>2. /\ Len(chan') = Len(chan) + 1 /\ chan' \in Seq(Records)
          /\ chan'[Len(chan) + 1] = Message
          /\ \A k \in 1..Len(chan) : chan'[k] = chan[k]
      BY <1>3, <1>4, <2>2, AppendProperties
    <3>3. QED
      BY <1>3, <1>5, <3>1, <3>2
  <2>3. QED
    BY <2>1, <2>2 DEF Send
<1>7. QED
  BY <1>1, <1>2, <1>3, <1>6 DEF IInv, MessagesIntact

LEMMA ReadMessages ==
  ASSUME IInv, ReadMessage
  PROVE  MessagesIntact'
<1>1. UNCHANGED <<mode, room, boxes, jpg>> /\ Packing' = Packing
  BY DEF ReadMessage, frames, vector, Packing
<1>2. \A n : Intact(n)' <=> Intact(n)
  BY <1>1, SameIntact
<1>3. chan \in Seq(Records) /\ todo \in 1..Len(chan) /\ chan # <<>>
  BY DEF IInv, TypeOK, MessagesIntact, ReadMessage
<1>4. /\ msg' = chan[1] /\ msg' \in Records /\ chan' = Tail(chan)
      /\ Len(chan') = Len(chan) - 1
      /\ \A k \in DOMAIN chan' : k + 1 \in DOMAIN chan /\ chan'[k] = chan[k + 1]
  BY <1>3, HeadOfRecords DEF ReadMessage
<1>5. \A k \in DOMAIN chan : Intact(chan[k])
  BY DEF IInv, MessagesIntact
<1>6. 1 \in DOMAIN chan /\ Len(chan) \in Nat
  BY <1>3
<1>7. QED
  BY <1>2, <1>3, <1>4, <1>5, <1>6 DEF MessagesIntact, ReadMessage

\* The vector is moved or filled for a frame later than that of any message.
LEMMA ReserveMessages ==
  ASSUME IInv, Reserve
  PROVE  MessagesIntact'
<1>1. /\ Kept /\ UNCHANGED <<mode, frame, jpg>> /\ At("pack")
      /\ rt' \in {"send", "fill"}
  BY DEF Kept, Reserve, handler, At, Goto
<1>2. frame \in Nat /\ Packing = frame - 1 /\ Packing' = frame
  BY <1>1, Numbers DEF IInv, Packing, At
<1>3. \/ room' > room
      \/ UNCHANGED <<room, boxes>>
  BY DEF Reserve
<1>4. room \in Nat /\ room' \in Nat
  BY SizeAssumption DEF IInv, TypeOK, Reserve
<1>5. ASSUME NEW m \in Records, Intact(m) PROVE Intact(m)'
  <2>1. m.frame \in Nat /\ m.frame < frame /\ m.room \in Nat
    BY <1>2, <1>5, SizeAssumption DEF Intact, Records
  <2>2. mode = "NORMAL" => TracksIntact(m)'
    BY <1>2, <1>3, <1>4, <1>5, <2>1 DEF Intact, TracksIntact
  <2>3. m.img => (Due(m.frame) /\ PictureIntact(m))'
    BY <1>1, <1>5 DEF Intact, Due, PictureIntact
  <2>4. QED
    BY <1>1, <1>2, <2>1, <2>2, <2>3 DEF Intact
<1>6. QED
  BY <1>1, <1>5, KeptMessages

LEMMA PushBackMessages ==
  ASSUME IInv, PushBack
  PROVE  MessagesIntact'
<1>1. /\ Kept /\ UNCHANGED <<mode, frame, room, jpg>> /\ At("fill")
      /\ rt' \in {"send", "fill"} /\ size' = size + 1
      /\ boxes' = [boxes EXCEPT ![size + 1] = frame]
  BY DEF Kept, PushBack, handler, At, Goto
<1>2. frame \in Nat /\ Packing = frame /\ Packing' = frame
  BY <1>1, Numbers DEF IInv, Packing, At
<1>3. boxes \in [1..MaxTracks -> 0..MaxFrames]
  BY DEF IInv, TypeOK
<1>4. ASSUME NEW m \in Records, Intact(m) PROVE Intact(m)'
  <2>1. m.frame \in Nat /\ m.frame <= frame /\ m.len \in 0..MaxTracks
    BY <1>2, <1>4, SizeAssumption DEF Intact, Records
  <2>2. \A k \in 1..m.len : k \in 1..MaxTracks /\ boxes'[k] \in {boxes[k], frame}
    BY <1>1, <1>3, <2>1, SizeAssumption
  <2>3. mode = "NORMAL" => TracksIntact(m)'
    BY <1>1, <1>2, <1>4, <2>1, <2>2 DEF Intact, TracksIntact
  <2>4. m.img => (Due(m.frame) /\ PictureIntact(m))'
    BY <1>1, <1>4 DEF Intact, Due, PictureIntact
  <2>5. QED
    BY <1>1, <1>2, <2>1, <2>3, <2>4 DEF Intact
<1>5. QED
  BY <1>1, <1>4, KeptMessages

\* A picture is begun and finished before this frame's message is sent.
LEMMA PictureMessages ==
  ASSUME IInv, Encode \/ Grab \/ Pictured
  PROVE  MessagesIntact'
<1>1. /\ Kept /\ UNCHANGED <<mode, frame, room, boxes>>
      /\ rt \in {"encode", "grab", "picture"} /\ rt' \in {"picture", "count", "turn"}
      /\ \/ jpg' = jpg
         \/ jpg' = [frame |-> frame, whole |-> FALSE]
         \/ At("picture") /\ jpg'.frame = jpg.frame
  <2>1. CASE Encode
    BY <2>1 DEF Kept, Encode, vector, handler, At, Goto
  <2>2. CASE Grab
    BY <2>2 DEF Kept, Grab, vector, handler, At, Goto
  <2>3. CASE Pictured
    <3>1. PICK made \in BOOLEAN : jpg' = [jpg EXCEPT !.whole = made]
      BY <2>3 DEF Pictured
    <3>2. jpg'.frame = jpg.frame
      BY <3>1 DEF IInv, TypeOK
    <3>3. QED
      BY <2>3, <3>2 DEF Kept, Pictured, vector, handler, At, Goto
  <2>4. QED
    BY <2>1, <2>2, <2>3
<1>2. frame \in Nat /\ Packing = frame - 1 /\ Packing' = Packing
  BY <1>1, Numbers DEF IInv, Packing
<1>3. At("picture") => jpg.frame = frame
  BY DEF IInv, PictureCurrent
<1>4. ASSUME NEW m \in Records, Intact(m) PROVE Intact(m)'
  <2>1. m.frame \in Nat /\ m.frame < frame
    BY <1>2, <1>4, SizeAssumption DEF Intact, Records
  <2>2. m.img => PictureIntact(m)'
    BY <1>1, <1>3, <1>4, <2>1 DEF Intact, PictureIntact
  <2>3. QED
    BY <1>1, <1>2, <1>4, <2>2 DEF Intact, TracksIntact, Due
<1>5. QED
  BY <1>1, <1>4, KeptMessages

LEMMA MessagesStep == IInv /\ [Next]_vars => MessagesIntact'
<1> SUFFICES ASSUME IInv, [Next]_vars PROVE MessagesIntact'
  OBVIOUS
<1>1. ASSUME Kept, UNCHANGED <<mode, room, boxes, jpg>>, Packing' = Packing
      PROVE  MessagesIntact'
  BY <1>1, SameIntact, KeptMessages
<1>2. CASE NewFrame
  <2>1. /\ Kept /\ UNCHANGED <<mode, room, boxes, jpg>>
        /\ rt = "camera" /\ rt' = "convert" /\ frame' = frame + 1
    BY <1>2 DEF NewFrame, Kept, vector, handler, At, Goto
  <2>2. Packing' = Packing
    BY <2>1, Numbers DEF IInv, Packing
  <2>3. QED
    BY <1>1, <2>1, <2>2
<1>3. CASE Converted \/ ReadCount \/ ReadBoxes
  <2>1. /\ Kept /\ UNCHANGED <<mode, frame, room, boxes, jpg>>
        /\ rt \notin {"fill", "send", "camera"} /\ rt' \notin {"fill", "send", "camera"}
    BY <1>3 DEF Converted, ReadCount, ReadBoxes, Kept, vector, handler, At, Goto
  <2>2. QED
    BY <1>1, <2>1 DEF Packing
<1>13. CASE Ask
  <2>1. /\ Kept /\ UNCHANGED <<mode, frame, room, boxes, jpg>> /\ rt = "turn"
        /\ rt' = IF mode = "NORMAL" THEN "grab" ELSE "send"
    BY <1>13 DEF Ask, Kept, vector, handler, At, Goto
  <2>2. CASE mode = "NORMAL"
    BY <1>1, <2>1, <2>2 DEF Packing
  <2>3. CASE mode # "NORMAL"
    <3>1. frame \in Nat /\ Packing = frame - 1 /\ Packing' = frame
      BY <2>1, <2>3, Numbers DEF IInv, Packing
    <3>2. ASSUME NEW m \in Records, Intact(m) PROVE Intact(m)'
      <4>1. m.frame \in Nat /\ m.frame <= frame
        BY <3>1, <3>2, SizeAssumption DEF Intact, Records
      <4>2. QED
        BY <2>1, <2>3, <3>1, <3>2, <4>1 DEF Intact, PictureIntact, Due
    <3>3. QED
      BY <2>1, <3>2, KeptMessages
  <2>4. QED
    BY <2>2, <2>3
<1>4. CASE Encode \/ Grab \/ Pictured
  BY <1>4, PictureMessages
<1>5. CASE Reserve
  BY <1>5, ReserveMessages
<1>6. CASE PushBack
  BY <1>6, PushBackMessages
<1>7. CASE Send
  BY <1>7, SendMessages
<1>8. CASE CountMessages \/ AddData
  <2>1. UNCHANGED <<mode, room, boxes, jpg, chan>> /\ Packing' = Packing
    BY <1>8 DEF CountMessages, AddData, frames, vector, Packing
  <2>2. \A n : Intact(n)' <=> Intact(n)
    BY <2>1, SameIntact
  <2>3. chan \in Seq(Records) /\ Len(chan) \in Nat
    BY DEF IInv, TypeOK
  <2>4. CASE CountMessages
    BY <2>1, <2>2, <2>3, <2>4 DEF IInv, MessagesIntact, CountMessages
  <2>5. CASE AddData
    BY <2>1, <2>2, <2>3, <2>5, SizeAssumption DEF IInv, TypeOK, MessagesIntact, AddData
  <2>6. QED
    BY <1>8, <2>4, <2>5
<1>9. CASE ReadMessage
  BY <1>9, ReadMessages
<1>10. CASE Suspend \/ Resume
  BY <1>1, <1>10 DEF Suspend, Resume, Kept, frames, vector, handler, Packing
<1>11. ASSUME NEW i \in Slots, Skip(i) \/ TakeImage(i) \/ Resized(i) \/ Infer(i) \/ GiveBack(i)
      PROVE  MessagesIntact'
  BY <1>1, <1>11 DEF Skip, TakeImage, Resized, Infer, GiveBack, Kept, frames, vector, handler,
         Packing
<1>12. CASE UNCHANGED vars
  BY <1>1, <1>12 DEF vars, Kept, frames, vector, handler, Packing
<1>14. QED
  BY <1>2, <1>3, <1>4, <1>5, <1>6, <1>7, <1>8, <1>9, <1>10, <1>11, <1>12, <1>13 DEF Next

LEMMA NewFrameBuffers ==
  ASSUME IInv, NewFrame
  PROVE  BuffersKept'
<1>0. frame \in Nat /\ frame' = frame + 1 /\ rt' = "convert"
  BY Numbers DEF IInv, NewFrame, Goto
<1>1. SUFFICES ASSUME NEW g \in 1..frame + 1, g >= frame - 1
               PROVE  /\ conv'[Buffer(g)].frame = g
                      /\ conv'[Buffer(g)].whole \/ g = frame + 1
  BY <1>0 DEF BuffersKept, At, Buffer
<1>2. frame \in Nat /\ g \in Nat
  BY Numbers DEF IInv
<1>3. /\ Buffer(frame + 1) \in 0..ConvBufs - 1 /\ Buffer(g) \in 0..ConvBufs - 1
      /\ Buffer(frame') = Buffer(frame + 1)
  BY <1>2, BufferType DEF NewFrame
<1>4. conv' = [conv EXCEPT ![Buffer(frame + 1)] = [frame |-> frame + 1, whole |-> FALSE]]
  BY <1>3 DEF NewFrame
<1>5. conv \in [0..ConvBufs - 1 -> [frame : 0..MaxFrames, whole : BOOLEAN]]
  BY DEF IInv, TypeOK
<1>6. CASE g = frame + 1
  BY <1>3, <1>4, <1>5, <1>6
<1>7. CASE g # frame + 1
  <2>1. g < frame + 1 /\ frame + 1 <= g + 2 /\ frame + 1 \in Nat
    BY <1>1, <1>2, <1>7
  <2>2. Buffer(g) # Buffer(frame + 1)
    BY <1>2, <2>1, BuffersApart
  <2>3. conv'[Buffer(g)] = conv[Buffer(g)]
    BY <1>3, <1>4, <1>5, <2>2
  <2>4. g \in 1..frame /\ g >= frame - 2
    BY <1>1, <1>2, <2>1
  <2>5. QED
    BY <2>3, <2>4 DEF IInv, BuffersKept, NewFrame, At
<1>8. QED
  BY <1>6, <1>7

LEMMA BuffersStep == IInv /\ [Next]_vars => BuffersKept'
<1> SUFFICES ASSUME IInv, [Next]_vars PROVE BuffersKept'
  OBVIOUS
<1> USE DEF IInv, TypeOK, frames, inference, tracking, vector, handler, windows, At, Goto, BuffersKept,
            ModeFollowed
<1>1. CASE NewFrame
  BY <1>1, NewFrameBuffers
<1>2. CASE Converted
  BY SMTT(30), <1>2, BufferType, BuffersApart DEF Converted
<1>3. CASE Encode \/ Ask \/ Grab \/ Pictured \/ ReadCount \/ ReadBoxes \/ Reserve \/ PushBack \/ Send \/ CountMessages \/
          ReadMessage \/ AddData \/ Suspend \/ Resume
  BY <1>3, BufferType, BuffersApart DEF Encode, Ask, Grab, Pictured, ReadCount, ReadBoxes, Reserve, PushBack,
         Send, CountMessages, ReadMessage, AddData, Suspend, Resume
<1>4. ASSUME NEW i \in Slots, Skip(i) \/ TakeImage(i) \/ Resized(i) \/ Infer(i) \/ GiveBack(i)
      PROVE  BuffersKept'
  BY <1>4, BufferType, BuffersApart DEF Skip, TakeImage, Resized, Infer, GiveBack
<1>5. CASE UNCHANGED vars
  BY <1>5, BufferType, BuffersApart DEF vars
<1>6. QED
  BY <1>1, <1>2, <1>3, <1>4, <1>5 DEF Next

LEMMA SendType ==
  ASSUME IInv, Send
  PROVE  chan' \in Seq(Records) /\ Len(chan') <= QueueSize /\ sent' \in 0..MaxFrames
<1> DEFINE m == Message
<1>1. /\ frame \in Nat /\ frame >= 1 /\ frame <= MaxFrames /\ img \in BOOLEAN
      /\ chan \in Seq(Records) /\ Len(chan) <= QueueSize
      /\ sent \in Nat /\ sent < frame /\ MaxFrames \in Nat /\ QueueSize \in Nat
  BY SizeAssumption DEF IInv, TypeOK, ModeFollowed, BudgetKept, Send, At
<1>2. m \in Records
  BY <1>1, MessageType DEF IInv
<1> HIDE DEF m
<1>3. chan' = chan \/ (Len(chan) < QueueSize /\ chan' = Append(chan, m))
  BY DEF Send, m
<1>4. chan' \in Seq(Records) /\ Len(chan') <= QueueSize
  <2>1. CASE chan' = chan
    BY <1>1, <2>1
  <2>2. CASE Len(chan) < QueueSize /\ chan' = Append(chan, m)
    BY <1>1, <1>2, <2>2, AppendProperties
  <2>3. QED
    BY <1>3, <2>1, <2>2
<1>5. sent' = sent \/ sent' = sent + 1
  BY <1>1 DEF Send
<1>6. QED
  BY <1>1, <1>4, <1>5

LEMMA ReadType ==
  ASSUME IInv, ReadMessage
  PROVE  /\ chan' \in Seq(Records) /\ Len(chan') <= QueueSize
         /\ msg' \in Records /\ todo' \in 0..QueueSize
<1>1. /\ chan \in Seq(Records) /\ Len(chan) <= QueueSize /\ QueueSize \in Nat
      /\ todo \in 1..Len(chan) /\ chan # <<>>
  BY SizeAssumption DEF IInv, TypeOK, MessagesIntact, ReadMessage
<1>2. /\ Len(chan) \in Nat /\ Tail(chan) \in Seq(Records)
      /\ Len(Tail(chan)) = Len(chan) - 1 /\ Head(chan) \in Records
  BY <1>1, HeadTailProperties
<1>3. QED
  BY <1>1, <1>2 DEF ReadMessage

LEMMA TypeStep == IInv /\ [Next]_vars => TypeOK'
<1> SUFFICES ASSUME IInv, [Next]_vars PROVE TypeOK'
  OBVIOUS
<1> USE DEF IInv, TypeOK, frames, inference, tracking, vector, handler, windows, At, Goto, ModeFollowed
<1>0. /\ Slot \in Slots
      /\ frame' = frame => Slot' = Slot
      /\ frame' = frame + 1 => Slot' = 1 - Slot
  BY SlotStep
<1>1. CASE NewFrame
  <2>1. frame' \in 0..MaxFrames
    BY <1>1, SizeAssumption DEF NewFrame
  <2>2. [frame |-> frame', whole |-> FALSE] \in [frame : 0..MaxFrames, whole : BOOLEAN]
    BY <2>1
  <2>3. conv' \in [0..ConvBufs - 1 -> [frame : 0..MaxFrames, whole : BOOLEAN]]
    BY <1>1, <2>2 DEF NewFrame
  <2>4. QED
    BY <1>1, <2>1, <2>3 DEF NewFrame
<1>2. CASE Converted
  <2>1. conv' \in [0..ConvBufs - 1 -> [frame : 0..MaxFrames, whole : BOOLEAN]]
    BY <1>2 DEF Converted
  <2>2. QED
    BY <1>2, <2>1 DEF Converted
<1>3. CASE Encode
  BY <1>3, <1>0, SizeAssumption DEF Encode
<1>4. CASE Ask
  BY <1>4, <1>0, SizeAssumption DEF Ask
<1>5. CASE Grab
  <2>1. [frame |-> frame, whole |-> FALSE] \in [frame : 0..MaxFrames, whole : BOOLEAN]
    OBVIOUS
  <2>2. jpg' \in [frame : 0..MaxFrames, whole : BOOLEAN]
    BY <1>5, <2>1 DEF Grab
  <2>3. QED
    BY <1>5, <2>2 DEF Grab
<1>6. CASE ReadCount
  <2>1. count' \in Results
    BY <1>6, <1>0 DEF ReadCount
  <2>2. QED
    BY <1>6, <2>1 DEF ReadCount
<1>7. CASE ReadBoxes
  <2>1. fed' \in 0..MaxFrames /\ count' \in Results /\ tracks' \in 0..MaxTracks
    BY SMTT(30), <1>7, <1>0, SizeAssumption DEF ReadBoxes, Results, NoResult, None
  <2>2. QED
    BY <1>7, <2>1 DEF ReadBoxes
<1>8. CASE Reserve
  <2>1. room' \in 0..MaxTracks /\ size' \in 0..MaxTracks
    BY SMTT(30), <1>8, SizeAssumption DEF Reserve
  <2>2. boxes' \in [1..MaxTracks -> 0..MaxFrames]
    BY SMTT(30), <1>8, SizeAssumption DEF Reserve, None
  <2>3. QED
    BY <1>8, <2>1, <2>2 DEF Reserve
<1>9. CASE Send
  BY <1>9, SendType DEF Send
<1>10. CASE CountMessages
  BY SMTT(30), <1>10, <1>0, SizeAssumption DEF CountMessages
<1>11. CASE ReadMessage
  BY <1>11, ReadType DEF ReadMessage
<1>12. CASE AddData
  <2>1. ipc' \in {"wait", "read", "add"}
    BY <1>12 DEF AddData
  <2>2. QED
    BY <1>12, <2>1 DEF AddData
<1>13. CASE Suspend
  BY SMTT(30), <1>13, <1>0, SizeAssumption DEF Suspend
<1>14. CASE Resume
  <2>1. suspended' \in BOOLEAN
    BY <1>14, Zenon DEF Resume
  <2>2. sent' \in 0..MaxFrames
    BY <1>14, SizeAssumption DEF Resume
  <2>3. QED
    BY <1>14, <2>1, <2>2 DEF Resume
<1>15. ASSUME NEW i \in Slots, TakeImage(i) PROVE TypeOK'
  <2>1. /\ image' \in [Slots -> 0..MaxFrames]
        /\ deep' \in [Slots -> {"poll", "resize", "infer", "done"}]
    BY <1>15 DEF TakeImage, Current
  <2>2. QED
    BY <1>15, <2>1 DEF TakeImage
<1>16. ASSUME NEW i \in Slots, Infer(i) PROVE TypeOK'
  <2>1. [asked |-> asked[i], image |-> image[i]] \in Results
    BY DEF Results
  <2>2. /\ result' \in [Slots -> Results]
        /\ deep' \in [Slots -> {"poll", "resize", "infer", "done"}]
    BY <1>16, <2>1 DEF Infer
  <2>3. QED
    BY <1>16, <2>2 DEF Infer
<1>17. ASSUME NEW i \in Slots, GiveBack(i) PROVE TypeOK'
  <2>1. /\ flag' \in [Slots -> {"EMPTY", "DETECT"}]
        /\ image' \in [Slots -> 0..MaxFrames]
        /\ deep' \in [Slots -> {"poll", "resize", "infer", "done"}]
    BY <1>17, SizeAssumption DEF GiveBack, None
  <2>2. QED
    BY <1>17, <2>1 DEF GiveBack
<1>18. ASSUME NEW i \in Slots, Skip(i) \/ Resized(i)
      PROVE  TypeOK'
  <2>1. CASE Skip(i)
    <3>1. flag' \in [Slots -> {"EMPTY", "DETECT"}]
      BY <2>1 DEF Skip
    <3>2. QED
      BY SMTT(30), <2>1, <3>1 DEF Skip
  <2>2. CASE Resized(i)
    <3>1. deep' \in [Slots -> {"poll", "resize", "infer", "done"}]
      BY <2>2 DEF Resized
    <3>2. QED
      BY SMTT(30), <2>2, <3>1 DEF Resized
  <2>3. QED
    BY <1>18, <2>1, <2>2
<1>19. CASE UNCHANGED vars
  BY SMTT(30), <1>19, <1>0, SizeAssumption DEF vars
<1>20. CASE Pictured
  <2>1. PICK made \in BOOLEAN : jpg' = [jpg EXCEPT !.whole = made] /\ img' = made
    BY <1>20 DEF Pictured
  <2>2. jpg' \in [frame : 0..MaxFrames, whole : BOOLEAN]
    BY <2>1
  <2>3. img' \in BOOLEAN
    BY <2>1, Zenon
  <2>4. QED
    BY <1>20, <2>2, <2>3 DEF Pictured
<1>21. CASE PushBack
  <2>1. size' = size + 1 /\ size \in Nat /\ size < tracks /\ tracks \in 0..MaxTracks
    BY <1>21, SizeAssumption DEF PushBack, VectorFilled
  <2>2. size' \in 1..MaxTracks /\ size' \in 0..MaxTracks
    BY <2>1, SizeAssumption
  <2>3. boxes' \in [1..MaxTracks -> 0..MaxFrames]
    BY <1>21, <2>2 DEF PushBack
  <2>4. QED
    BY <1>21, <2>2, <2>3 DEF PushBack
<1>22. QED
  BY <1>1, <1>2, <1>3, <1>4, <1>5, <1>6, <1>7, <1>8, <1>9, <1>10, <1>11, <1>12, <1>13,
     <1>14, <1>15, <1>16, <1>17, <1>18, <1>19, <1>20, <1>21 DEF Next

LEMMA StepInv == IInv /\ [Next]_vars => IInv'
BY ModeStep, BudgetStep, FedStep, VectorStep, PictureStep, AskedStep, ThreadsStep, CountStep, MessagesStep,
   BuffersStep, TypeStep DEF IInv

LEMMA SpecInv == Spec => []IInv
BY InitInv, StepInv, PTL DEF Spec

-----------------------------------------------------------------------------
(* What the invariant says of what is shared                               *)

\* A frame being read is in one of the last three buffers.
LEMMA StableByInv == IInv => ImageStable
<1> SUFFICES ASSUME IInv, NEW i \in Slots, deep[i] = "resize"
             PROVE  /\ image[i] \in asked[i]..asked[i] + 2
                    /\ conv[Buffer(image[i])].frame = image[i]
                    /\ ~conv[Buffer(image[i])].whole => image[i] > asked[i]
  BY DEF ImageStable
<1>1. frame \in Nat /\ asked[i] \in Nat /\ image[i] \in Nat
  BY Numbers DEF IInv
<1>2. image[i] \in asked[i]..frame /\ flag[i] = "DETECT" /\ asked[i] >= 1
  BY DEF IInv, ThreadsBehind
<1>3. asked[i] >= frame - 2 /\ (rt = "convert" => asked[i] < frame)
  BY <1>1, <1>2, AskedSince DEF IInv
<1>4. image[i] \in 1..frame /\ image[i] >= frame - 2
  BY <1>1, <1>2, <1>3
<1>5. QED
  BY <1>1, <1>2, <1>3, <1>4 DEF IInv, BuffersKept, At

LEMMA LagByInv == IInv => ResultLag
<1> SUFFICES ASSUME IInv, At("count") \/ At("boxes")
             PROVE  result[Slot].asked \in {Before(frame), frame}
  BY DEF ResultLag, IInv, CountBehind
<1>1. Slot \in Slots /\ mode = "NORMAL" /\ asked[Slot] = frame
  BY Numbers DEF IInv, TypeOK, ModeFollowed, AskedInTurn, Turned, At
<1>2. QED
  BY <1>1 DEF IInv, ThreadsBehind

LEMMA LastsByInv == IInv => DataLasts
<1> SUFFICES ASSUME IInv, ipc = "add" PROVE DataLasts
  BY DEF DataLasts
<1>1. frame \in Nat /\ jpg.frame \in Nat /\ msg.frame \in Nat /\ msg.frame >= 1
  BY SizeAssumption DEF IInv, TypeOK, MessagesIntact, Records
<1>2. Intact(msg)
  BY DEF IInv, MessagesIntact
<1>3. ASSUME msg.img, jpg.frame > msg.frame
      PROVE  frame >= msg.frame + (IF mode = "RECORD" THEN 3 ELSE GrabEvery)
  <2>1. Due(msg.frame) /\ Due(jpg.frame) /\ jpg.frame <= frame
    BY <1>1, <1>2, <1>3 DEF Intact, IInv, PictureCurrent
  <2>2. jpg.frame >= msg.frame + (IF mode = "RECORD" THEN 3 ELSE GrabEvery)
    BY <1>1, <1>3, <2>1, DueApart
  <2>3. QED
    BY <1>1, <2>1, <2>2, SizeAssumption
<1>4. QED
  BY <1>2, <1>3 DEF Intact, TracksIntact, PictureIntact, DataLasts

\* No result is picked up that is older than the frame before the last.
LEMMA FedByInv == IInv /\ [Next]_vars => fed' >= fed - 1
<1> SUFFICES ASSUME IInv, [Next]_vars PROVE fed' >= fed - 1
  OBVIOUS
<1>1. fed \in Int /\ frame \in Nat
  BY Numbers DEF IInv, TypeOK
<1>2. CASE ReadBoxes
  <2>1. /\ Slot \in Slots /\ mode = "NORMAL" /\ asked[Slot] = frame /\ frame >= 1
        /\ fed' = result[Slot].image
    BY <1>2, Numbers DEF IInv, TypeOK, ModeFollowed, AskedInTurn, Turned, At, ReadBoxes
  <2>2. result[Slot].asked \in Nat /\ result[Slot].image \in result[Slot].asked..frame
    BY <2>1, Numbers DEF IInv, ThreadsBehind
  <2>3. result[Slot].asked \in {frame, Before(frame)}
    BY <2>1 DEF IInv, ThreadsBehind
  <2>4. fed <= frame - 1
    BY <1>2 DEF IInv, FedBehind, ReadBoxes, At
  <2>5. QED
    BY <1>1, <2>1, <2>2, <2>3, <2>4 DEF Before, None
<1>3. CASE UNCHANGED fed
  BY <1>1, <1>3
<1>4. ~ReadBoxes => UNCHANGED fed
  BY DEF Next, vars, tracking, NewFrame, Converted, Encode, Ask, Grab, Pictured, ReadCount, Reserve, PushBack, Send,
         Skip, TakeImage, Resized, Infer, GiveBack, CountMessages, ReadMessage, AddData,
         Suspend, Resume
<1>5. QED
  BY <1>2, <1>3, <1>4

-----------------------------------------------------------------------------
\* The variables keep their types, and the channel of messages holds no more than its pool
\* has room for.
\* (lrt2los_channel; LeonIPCSendMessage drops what does not fit.)
THEOREM TypeSafety == Spec => []TypeOK
<1>1. IInv => TypeOK
  BY DEF IInv
<1>2. QED
  BY <1>1, SpecInv, PTL

\* Whatever the speed of the threads and however long they are suspended, a frame is not
\* written over while it is read, as three buffers and two flags are enough, and the
\* tracker's result is of the frame before the last or of this one.  What a message points
\* to has no such protection, only a time: its tracks are its own until LEON RT packs the
\* next frame's, after that later frames' in part or in memory that has been freed, and its
\* picture until the next is due.
\* (NNPreProcess, detect_backupproc and thread_ipc_handler reading without a lock.)
THEOREM SharingSafety == Spec => []SharedInTime
<1>1. IInv => SharedInTime
  BY StableByInv, LagByInv, LastsByInv DEF SharedInTime
<1>2. QED
  BY <1>1, SpecInv, PTL

\* While the flash is written at most three messages are sent, so a queue that had room for
\* three when the tasks were suspended does not fill.
\* (schedule_deeplearning waiting for a flag; deep_task_control.)
THEOREM SuspensionSafety == Spec => []FewWhileSuspended
<1>1. IInv => FewWhileSuspended
  <2>1. SUFFICES ASSUME IInv, suspended PROVE sent <= 3
    BY DEF FewWhileSuspended
  <2>2. sent \in Nat /\ Empties \in Nat /\ Passed \in Nat
    BY <2>1, SizeAssumption DEF IInv, TypeOK, Empties, Passed
  <2>3. QED
    BY <2>1, <2>2 DEF IInv, BudgetKept
<1>2. QED
  BY <1>1, SpecInv, PTL

\* The images behind what the tracker gets never go back by more than one frame.
\* (use_deep_res taking turns between two threads of unequal speed.)
THEOREM FeedOrder == Spec => FedNearlyInOrder
<1>1. IInv /\ [Next]_vars => [fed' >= fed - 1]_vars
  BY FedByInv
<1>2. QED
  BY <1>1, SpecInv, PTL DEF Spec, FedNearlyInOrder
=============================================================================
