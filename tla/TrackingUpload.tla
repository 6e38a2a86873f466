--------------------------- MODULE TrackingUpload ---------------------------
(***************************************************************************)
(* The crowd application's upload of tracking data.  The task that handles *)
(* messages of the second processor puts the boxes of a frame, and its     *)
(* picture, into two rings and sends a message that holds their addresses  *)
(* to a queue.  The consumer task gathers messages, turns them into JSON,  *)
(* which takes boxes and pictures out of the rings, and posts them.  When  *)
(* the server cannot be reached for too long it writes its messages to the *)
(* card and has the device reset; the next start reads them back.          *)
(*                                                                         *)
(* A message finds its boxes by address only, so the rings must be in step *)
(* with the messages that still wait.                                      *)
(***************************************************************************)
EXTENDS Integers, Sequences, SequencesExt

CONSTANTS
    BoxRing,      \* boxes the first ring holds (a power of two)
    ImageRing,    \* pictures the second ring holds; a picture is one unit
    QueueSize,    \* messages the queue holds
    Threshold,    \* messages gathered before a post, unless the queue is quiet
    Limit,        \* watchdog_triggered_frames
    MaxFrames,    \* bound: frames admitted in a behaviour
    MaxBoxes,     \* bound: boxes of a frame
    MaxBoots,     \* bound: starts of the device
    None          \* the null address

ASSUME SizesAssumption ==
    /\ {BoxRing, ImageRing, QueueSize, Threshold, Limit,
        MaxFrames, MaxBoxes, MaxBoots} \subseteq Nat \ {0}
    /\ Threshold <= Limit
    /\ None \notin Nat

VARIABLES
    mode,       \* lrt_g_running_mode: frames carry boxes or only pictures
    frames,     \* frames admitted so far
    boxes,      \* ringbuf_for_bboxes_ptr_
    images,     \* ringbuf_for_images_ptr_
    inflight,   \* the message add_tracking_data built and has yet to send
    queue,      \* msg_queue_id_
    cached,     \* http_msgs_cached_for_tracking_ and ..._for_images_
    pc,         \* where the consumer is
    which,      \* the cache it is about to post or posts
    thres,      \* tracking_thres
    todo,       \* the message convert_tracking_info_to_json looks at
    body,       \* the frames of the JSON text built so far
    file,       \* tracking_data.txt on the card
    boots,      \* starts of the device
    posted,     \* history: frames the server's connection took, in order
    spoiled,    \* history: a post failed after its data had left the rings
    copied      \* history: boxes missing in the ring were written to the card

ringVars == <<boxes, images>>
addVars  == <<mode, frames, inflight>>
uploadVars ==
    <<mode, frames, boxes, images, inflight, queue, cached, pc, which, thres,
      todo, body, file, boots, posted, spoiled, copied>>

Kinds == {"TRACKING", "IMAGE"}
-----------------------------------------------------------------------------
(* Ringbuf_t: the place of the oldest element and the elements, in order.  *)
Empty == [head |-> 0, q |-> <<>>]

Place(ring, size) == (ring.head + Len(ring.q)) % size

Room(ring, size) == size - Len(ring.q)

\* put stores what fits and answers the address of the first element.
Put(ring, size, els) ==
    [ring EXCEPT !.q = @ \o SubSeq(els, 1, Min({Len(els), Room(ring, size)}))]

\* (mutant) one element too few leaves the ring.
GetOneShort(ring, size, n) ==
    LET got == Min({n, Len(ring.q)}) - (IF n > 1 THEN 1 ELSE 0)
    IN  [head |-> (ring.head + got) % size,
         q    |-> SubSeq(ring.q, got + 1, Len(ring.q))]

\* get takes as many elements as there are, up to n.
Get(ring, size, n) ==
    LET got == Min({n, Len(ring.q)})
    IN  [head |-> (ring.head + got) % size,
         q    |-> SubSeq(ring.q, got + 1, Len(ring.q))]

AtHead(ring, addr) == ring.q # <<>> /\ ring.head = addr

\* find: the distance from the read address, 0 for "none".  When the live
\* part does not reach the end of the buffer the count of the second loop
\* wraps around and places that hold nothing are found as well.
Find(ring, size, addr) ==
    LET distance == (addr + size - ring.head) % size
        wraps    == Len(ring.q) >= size - ring.head
    IN  IF ring.q = <<>> \/ (wraps /\ distance >= Len(ring.q))
        THEN 0 ELSE distance

BoxesOf(f, n) == [i \in 1..n |-> <<f, i>>]

Message(type, f, n, addr, img) ==
    [type |-> type, frame |-> f, n |-> n, addr |-> addr, img |-> img]
-----------------------------------------------------------------------------
UploadInit ==
    /\ mode \in {"NORMAL", "RECORD"}
    /\ frames = 0 /\ inflight = <<>> /\ queue = <<>>
    /\ boxes = Empty /\ images = Empty
    /\ cached = [k \in Kinds |-> <<>>]
    /\ pc = "receive" /\ which = "TRACKING" /\ thres = Threshold
    /\ todo = 1 /\ body = <<>>
    /\ file = <<>> /\ boots = 1
    /\ posted = <<>> /\ spoiled = FALSE /\ copied = FALSE
-----------------------------------------------------------------------------
(* The task that handles the second processor's messages.                  *)
On == pc # "aborted"

\* (mutant) no slot kept free.
MayAddToTheLast ==
    /\ On /\ inflight = <<>> /\ frames < MaxFrames
    /\ QueueSize - Len(queue) >= 1

MayAdd ==
    /\ On /\ inflight = <<>> /\ frames < MaxFrames
    /\ QueueSize - Len(queue) >= 2

\* add_tracking_data: a frame whose boxes do not fit is refused, a picture
\* that does not fit is left out.
AddTracking ==
    /\ MayAdd /\ mode = "NORMAL"
    /\ \E n \in 0..MaxBoxes, jpg \in BOOLEAN :
         LET f      == frames + 1
             taken  == jpg /\ Room(images, ImageRing) > 0
         IN  /\ Room(boxes, BoxRing) >= n
             /\ frames' = f
             /\ boxes' = Put(boxes, BoxRing, BoxesOf(f, n))
             /\ images' = IF taken THEN Put(images, ImageRing, <<f>>) ELSE images
             /\ inflight' = <<Message("TRACKING", f, n,
                   IF n > 0 THEN Place(boxes, BoxRing) ELSE None,
                   IF taken THEN Place(images, ImageRing) ELSE None)>>
    /\ UNCHANGED <<mode, queue, cached, pc, which, thres, todo, body, file,
                   boots, posted, spoiled, copied>>

\* add_jpeg_image_data: recording mode sends pictures alone.
AddImage ==
    /\ MayAdd /\ mode = "RECORD"
    /\ Room(images, ImageRing) > 0
    /\ frames' = frames + 1
    /\ images' = Put(images, ImageRing, <<frames + 1>>)
    /\ inflight' = <<Message("IMAGE", frames + 1, 0, None,
                             Place(images, ImageRing))>>
    /\ UNCHANGED <<mode, boxes, queue, cached, pc, which, thres, todo, body,
                   file, boots, posted, spoiled, copied>>

Send ==
    /\ On /\ inflight # <<>>
    /\ queue' = queue \o inflight
    /\ inflight' = <<>>
    /\ UNCHANGED <<mode, frames, ringVars, cached, pc, which, thres, todo,
                   body, file, boots, posted, spoiled, copied>>
-----------------------------------------------------------------------------
(* thread_consumer.                                                        *)
\* (mutant) the newest message goes first.
TakeMessageFirst ==
    /\ queue # <<>>
    /\ cached' = [cached EXCEPT ![Head(queue).type] = <<Head(queue)>> \o @]
    /\ queue' = Tail(queue)

TakeMessage ==
    /\ queue # <<>>
    /\ cached' = [cached EXCEPT ![Head(queue).type] = Append(@, Head(queue))]
    /\ queue' = Tail(queue)

\* The first receive waits one second.  After a message the consumer goes
\* for another one whatever the number pending.
Receive ==
    /\ pc = "receive"
    /\ TakeMessage
    /\ pc' = "second"
    /\ UNCHANGED <<addVars, ringVars, which, thres, todo, body, file, boots,
                   posted, spoiled, copied>>

\* (mutant) a quiet queue does not lower the threshold.
ReceiveTimeoutKeeps ==
    /\ pc = "receive" /\ queue = <<>>
    /\ thres' = thres /\ pc' = "check"
    /\ UNCHANGED <<addVars, ringVars, queue, cached, which, todo, body, file,
                   boots, posted, spoiled, copied>>

ReceiveTimeout ==
    /\ pc = "receive" /\ queue = <<>>
    /\ thres' = 1 /\ pc' = "check"
    /\ UNCHANGED <<addVars, ringVars, queue, cached, which, todo, body, file,
                   boots, posted, spoiled, copied>>

\* RTEMS_WAIT in the place of the timeout is 0, no timeout.
ReceiveSecond ==
    /\ pc = "second"
    /\ TakeMessage
    /\ thres' = Threshold /\ pc' = "check"
    /\ UNCHANGED <<addVars, ringVars, which, todo, body, file, boots, posted,
                   spoiled, copied>>

Due == IF which = "TRACKING" THEN Len(cached[which]) >= thres
                             ELSE cached[which] # <<>>

\* On to the other cache, or to the next message.
Advance ==
    /\ which' = IF which = "TRACKING" THEN "IMAGE" ELSE "TRACKING"
    /\ pc' = IF which = "TRACKING" THEN "check" ELSE "receive"

NothingDue ==
    /\ pc = "check" /\ ~Due
    /\ Advance
    /\ UNCHANGED <<addVars, ringVars, queue, cached, thres, todo, body, file,
                   boots, posted, spoiled, copied>>

Connect ==
    /\ pc = "check" /\ Due
    /\ pc' = "convert" /\ todo' = 1 /\ body' = <<>>
    /\ UNCHANGED <<addVars, ringVars, queue, cached, which, thres, file, boots,
                   posted, spoiled, copied>>

\* Messages being saved: the ring, the vector their boxes pass through, whether
\* it kept boxes of an earlier message, and the lines written.
Saving == [ring |-> boxes, vec |-> <<>>, short |-> FALSE, lines |-> <<>>]

\* The vector, resized to n and filled as far as the ring goes: what is missing
\* stays as it was, or is new.
Filled(vec, ring, n) ==
    [i \in 1..n |-> IF i <= Len(ring.q) THEN ring.q[i]
                    ELSE IF i <= Len(vec) THEN vec[i] ELSE <<0, i>>]

\* (mutant) the boxes are read and left in the ring.
SaveLinePeeks(acc, m) ==
    IF m.n = 0
    THEN [acc EXCEPT !.lines = Append(@, [frame |-> m.frame, boxes |-> <<>>])]
    ELSE LET vec == Filled(acc.vec, acc.ring, m.n)
         IN  [ring  |-> acc.ring, vec |-> vec,
              short |-> acc.short \/ Len(acc.ring.q) < m.n,
              lines |-> Append(acc.lines, [frame |-> m.frame, boxes |-> vec])]

\* A message takes its number of boxes from the head of the ring.
SaveLine(acc, m) ==
    IF m.n = 0
    THEN [acc EXCEPT !.lines = Append(@, [frame |-> m.frame, boxes |-> <<>>])]
    ELSE LET vec == Filled(acc.vec, acc.ring, m.n)
         IN  [ring  |-> Get(acc.ring, BoxRing, m.n), vec |-> vec,
              short |-> acc.short \/ Len(acc.ring.q) < m.n,
              lines |-> Append(acc.lines, [frame |-> m.frame, boxes |-> vec])]

\* save_tracking_data_to_local_file
Saved(msgs) ==
    LET after[k \in 0..Len(msgs)] ==
            IF k = 0 THEN Saving ELSE SaveLine(after[k - 1], msgs[k])
    IN  after[Len(msgs)]

\* post_tracking_msg answered false: past the limit the messages are saved,
\* if the card lets itself be written, and the watchdog callback resets the
\* device; otherwise they stay cached.
PostGaveUp ==
    IF which = "TRACKING" /\ Len(cached[which]) > Limit
    THEN /\ pc' = "reset"
         /\ \/ LET save == Saved(cached[which])
               IN  /\ file' = save.lines
                   /\ boxes' = save.ring
                   /\ copied' = (copied \/ save.short)
                   /\ cached' = [cached EXCEPT ![which] = <<>>]
            \/ UNCHANGED <<file, boxes, cached, copied>>
         /\ UNCHANGED which
    ELSE /\ Advance
         /\ UNCHANGED <<file, boxes, cached, copied>>

ConnectFails ==
    /\ pc = "check" /\ Due
    /\ PostGaveUp
    /\ UNCHANGED <<addVars, images, queue, thres, todo, body, boots, posted,
                   spoiled>>

(* convert_tracking_info_to_json, one message at a time.                   *)
Current == cached[which][todo]

\* The ring as the message finds it: boxes of frames that are gone are
\* skipped until its own come first.
Synced(m) ==
    IF AtHead(boxes, m.addr) THEN boxes
    ELSE Get(boxes, BoxRing, Find(boxes, BoxRing, m.addr))

\* No boxes of this message, as far as the address tells: the frame is left
\* out, its picture with it.
Unfound(m) ==
    /\ m.n > 0
    /\ ~AtHead(boxes, m.addr)
    /\ Find(boxes, BoxRing, m.addr) = 0

\* The three assertions of the conversion.
BoxesAsserted(m) ==
    m.n > 0 => Len(Synced(m).q) >= m.n /\ Synced(m).head = m.addr
ImageAsserted(m) ==
    m.img # None => AtHead(images, m.img)

DropFrame ==
    /\ pc = "convert" /\ todo <= Len(cached[which])
    /\ Unfound(Current)
    /\ todo' = todo + 1
    /\ UNCHANGED <<addVars, ringVars, queue, cached, pc, which, thres, body,
                   file, boots, posted, spoiled, copied>>

ConvertFrame ==
    /\ pc = "convert" /\ todo <= Len(cached[which])
    /\ LET m == Current
       IN  /\ ~Unfound(m) /\ BoxesAsserted(m) /\ ImageAsserted(m)
           /\ boxes' = IF m.n > 0 THEN Get(Synced(m), BoxRing, m.n) ELSE boxes
           /\ images' = IF m.img # None THEN Get(images, ImageRing, 1) ELSE images
           /\ body' = Append(body,
                [frame |-> m.frame,
                 boxes |-> IF m.n > 0 THEN SubSeq(Synced(m).q, 1, m.n) ELSE <<>>,
                 img   |-> IF m.img # None THEN Head(images.q) ELSE None])
    /\ todo' = todo + 1
    /\ UNCHANGED <<addVars, queue, cached, pc, which, thres, file, boots,
                   posted, spoiled, copied>>

Abort ==
    /\ pc = "convert" /\ todo <= Len(cached[which])
    /\ ~Unfound(Current)
    /\ ~(BoxesAsserted(Current) /\ ImageAsserted(Current))
    /\ pc' = "aborted"
    /\ UNCHANGED <<addVars, ringVars, queue, cached, which, thres, todo, body,
                   file, boots, posted, spoiled, copied>>

Converted == pc = "convert" /\ todo > Len(cached[which])

\* The connection took every byte.
PostSucceeds ==
    /\ Converted
    /\ posted' = posted \o body
    /\ cached' = [cached EXCEPT ![which] = <<>>]
    /\ todo' = 1 /\ body' = <<>>
    /\ Advance
    /\ UNCHANGED <<addVars, ringVars, queue, thres, file, boots, spoiled, copied>>

\* It did not.  connect_to_server also answers true when the server refused
\* the connection, so this is what a refusal comes to.
PostFails ==
    /\ Converted
    /\ spoiled' = (spoiled \/ \E m \in ToSet(cached[which]) :
                                  m.n > 0 \/ m.img # None)
    /\ todo' = 1 /\ body' = <<>>
    /\ PostGaveUp
    /\ UNCHANGED <<addVars, images, queue, thres, boots, posted>>
-----------------------------------------------------------------------------
(* Starts of the device.                                                   *)

\* (mutant) the address behind the boxes instead of the one before them.
ReadLineAfter(acc, line) ==
    LET ring == Put(acc.ring, BoxRing, line.boxes)
    IN  [ring |-> ring,
         msgs |-> Append(acc.msgs,
                    Message("TRACKING", line.frame, Len(line.boxes),
                            Place(ring, BoxRing), None))]

ReadLine(acc, line) ==
    LET n == Len(line.boxes)
    IN  [ring |-> Put(acc.ring, BoxRing, line.boxes),
         msgs |-> Append(acc.msgs,
                    Message("TRACKING", line.frame, n,
                            Place(acc.ring, BoxRing), None))]

\* read_tracking_data_from_local_file, all lines.
ReadBack ==
    LET after[k \in 0..Len(file)] ==
            IF k = 0 THEN [ring |-> Empty, msgs |-> <<>>]
            ELSE ReadLine(after[k - 1], file[k])
    IN  after[Len(file)]

\* A reset or a power cut loses everything but the card; init reads the file
\* back, removes it, and starts the consumer.
Boot ==
    /\ boots < MaxBoots
    /\ boots' = boots + 1
    /\ boxes' = ReadBack.ring
    /\ cached' = [k \in Kinds |-> IF k = "TRACKING" THEN ReadBack.msgs ELSE <<>>]
    /\ file' = <<>>
    /\ images' = Empty /\ inflight' = <<>> /\ queue' = <<>>
    /\ pc' = "receive" /\ which' = "TRACKING" /\ thres' = Threshold
    /\ todo' = 1 /\ body' = <<>>
    /\ spoiled' = (spoiled /\ file # <<>>)
    /\ UNCHANGED <<mode, frames, posted, copied>>

\* The watchdog callback and the assertion end in a reset; a power cut may
\* come at any time.
Restart == pc \in {"reset", "aborted"} /\ Boot
PowerCut == pc \notin {"reset", "aborted"} /\ Boot

Consume ==
    \/ Receive \/ ReceiveTimeout \/ ReceiveSecond \/ NothingDue
    \/ ConnectFails \/ Connect
    \/ DropFrame \/ ConvertFrame \/ Abort
    \/ PostSucceeds \/ PostFails

UploadNext ==
    AddTracking \/ AddImage \/ Send \/ Consume \/ Restart \/ PowerCut

\* The tasks are scheduled, and a server that is tried again and again is
\* reached and takes the data again and again.
UploadFairness ==
    /\ WF_uploadVars(Send)
    /\ WF_uploadVars(Receive \/ ReceiveTimeout \/ ReceiveSecond \/ NothingDue
               \/ DropFrame \/ ConvertFrame \/ Abort)
    /\ SF_uploadVars(Connect)
    /\ SF_uploadVars(PostSucceeds)

UploadSpec == UploadInit /\ [][UploadNext]_uploadVars /\ UploadFairness
-----------------------------------------------------------------------------
(* Properties.                                                             *)

Box == (0..MaxFrames) \X (1..MaxBoxes)
Address(size) == (0..size - 1) \cup {None}
Messages == [type : Kinds, frame : 1..MaxFrames, n : 0..MaxBoxes,
             addr : Address(BoxRing), img : Address(ImageRing)]
Entries == [frame : 1..MaxFrames, boxes : Seq(Box), img : (1..MaxFrames) \cup {None}]

\* The types, and that neither a ring nor the queue holds more than it can.
UploadTypeOK ==
    /\ mode \in {"NORMAL", "RECORD"} /\ frames \in 0..MaxFrames
    /\ boxes \in [head : 0..BoxRing - 1, q : Seq(Box)]
    /\ images \in [head : 0..ImageRing - 1, q : Seq(1..MaxFrames)]
    /\ Len(boxes.q) <= BoxRing /\ Len(images.q) <= ImageRing
    /\ inflight \in Seq(Messages) /\ Len(inflight) <= 1
    /\ queue \in Seq(Messages) /\ Len(queue) + Len(inflight) < QueueSize
    /\ cached \in [Kinds -> Seq(Messages)]
    /\ pc \in {"receive", "second", "check", "convert", "reset", "aborted"}
    /\ which \in Kinds /\ thres \in {1, Threshold}
    /\ todo \in 1..Len(cached[which]) + 1
    /\ body \in Seq(Entries) /\ posted \in Seq(Entries)
    /\ file \in Seq([frame : 1..MaxFrames, boxes : Seq(Box)])
    /\ boots \in 1..MaxBoots /\ spoiled \in BOOLEAN /\ copied \in BOOLEAN

\* Messages whose data is still to be taken, oldest first.
Waiting ==
    LET left(k) == IF pc \in {"convert", "aborted"} /\ which = k
                   THEN SubSeq(cached[k], todo, Len(cached[k]))
                   ELSE cached[k]
    IN  left("TRACKING") \o left("IMAGE") \o queue \o inflight

\* What a message claims of the rings: where, and what should be there.
BoxClaim(m)   == [addr |-> m.addr, data |-> BoxesOf(m.frame, m.n)]
ImageClaim(m) == [addr |-> m.img,
                  data |-> IF m.img = None THEN <<>> ELSE <<m.frame>>]

\* A ring holds what is claimed, one after the other, and nothing else.
Holds(ring, size, claims) ==
    LET upto[i \in 0..Len(claims)] ==
            IF i = 0 THEN 0 ELSE upto[i - 1] + Len(claims[i].data)
    IN  /\ Len(ring.q) = upto[Len(claims)]
        /\ \A i \in DOMAIN claims : claims[i].data # <<>> =>
             /\ claims[i].addr = (ring.head + upto[i - 1]) % size
             /\ \A k \in DOMAIN claims[i].data :
                  ring.q[upto[i - 1] + k] = claims[i].data[k]

\* Unless a post failed after its data had left the rings, the rings hold the
\* data of the messages that wait and nothing else, in the messages' order,
\* and each message holds the place of its own (saved messages leave their
\* pictures behind for the moment up to the reset): across batches whose server
\* could not be reached, the reading back of a saved file, and frames added
\* while a batch is converted (tracking_data_manager.hpp:224-288, :333-353).
RingsInStep ==
    ~spoiled =>
        /\ Holds(boxes, BoxRing,
                 [i \in 1..Len(Waiting) |-> BoxClaim(Waiting[i])])
        /\ pc # "reset" =>
             Holds(images, ImageRing,
                   [i \in 1..Len(Waiting) |-> ImageClaim(Waiting[i])])

\* No assertion of the conversion fails and no frame is dropped or goes out
\* under the boxes or the picture of another one, unless such a post failed
\* before (tracking_data_manager.hpp:339-353, :383).
OnlyLatePostsSpoil ==
    ~spoiled =>
        /\ pc # "aborted"
        /\ \A i \in 1..Len(body) :
             /\ body[i].frame = cached[which][i].frame
             /\ body[i].boxes = BoxesOf(body[i].frame, cached[which][i].n)
             /\ body[i].img \in {body[i].frame, None}

\* Rings and messages stay in step, and what is built from them is right, unless
\* a post failed late.  (After such a post the assertions at :352 and :383 can
\* fail, and frames can go out under the boxes of others.)
DataInStep == RingsInStep /\ OnlyLatePostsSpoil

\* Whatever fails, and whenever the device restarts: no box is posted under
\* two frames, still in the ring or on the card after it was posted, or on
\* the card and in the ring; unless a save found fewer boxes in the ring than its
\* messages have, and wrote those of an earlier one that the vector still held
\* (tracking_data_manager.hpp:90-150).
EachBoxOnce ==
    LET at == [posted |-> posted, body |-> body, file |-> file,
               ring |-> <<[boxes |-> boxes.q]>>]
    IN  ~copied =>
          \A a, b \in DOMAIN at : \A i \in DOMAIN at[a], j \in DOMAIN at[b] :
            \A k \in DOMAIN at[a][i].boxes, l \in DOMAIN at[b][j].boxes :
              at[a][i].boxes[k] = at[b][j].boxes[l] => <<a, i, k>> = <<b, j, l>>

\* Frames are posted in the order they were added and none twice, restarts
\* included (tracking_data_manager.hpp:171, :195-197, :203-204).
PostedInOrder ==
    \A i, j \in 1..Len(posted) : i < j => posted[i].frame < posted[j].frame

\* The server gets no box and no frame twice and the frames in order.
PostedOnceInOrder == EachBoxOnce /\ PostedInOrder

\* Once no more frames come and the server can be reached, the backlog
\* drains, a consumer's batch below the threshold as well, unless the number
\* of messages leaves the consumer in its second receive, which waits without
\* a timeout, or the device is down: it has saved its messages and awaits the
\* reset it asked for, or an assertion has stopped it
\* (tracking_data_manager.hpp:162-207, :352).
BacklogDrains ==
    <>[](\/ queue = <<>> /\ cached["TRACKING"] = <<>> /\ cached["IMAGE"] = <<>>
         \/ pc = "second" /\ queue = <<>>
         \/ pc \in {"reset", "aborted"})
=============================================================================
