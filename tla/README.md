# Hydra Xeye: specifications in TLA+

These modules specify the concurrent and distributed parts of Hydra Xeye: the
host SDK (`src/xcore/basic_devkit/host`), the device program it talks to
(`src/xcore/basic_devkit/starter`), the XLink stream library
(`src/xcore/platform/module/vsc_xlink`) with the USB transport under it, and the
people-counting application (`src/xcore/crowd_app`). TLC checks them on small
instances; TLAPS proves some of the results for every value of the constants.
`PROJECT.json` maps each definition to the lines it translates and lists the
runs, the mutants that show each property can fail, the findings, the hazards
and the theorems.

Run one instance with `tlc -config MCHostInput.cfg MCHostInput`, check the proofs
with `tlapm HostInput_proofs.tla`.

## 1. Inventory

### Host SDK (`basic_devkit/host`)

| Part | State | Operations | Talks to |
|---|---|---|---|
| `XeyeComputation`, `DlInputThread`, `DlQueue` (input) | bounded queue of items with raw pixel pointers | `push_image`: push, else pop the oldest, free it, push again; thread: pop, send header, send pixels, free | application threads; OUT pipe |
| `ConnectorMessageThread`, `DlOutputThread`, `DlQueue` (output) | bounded queue, the item being received, the silence counter | receive header, then result and image; push or evict; poll, call the handler, free, count silence, bark | IN pipe; the application's handler and watchdog |
| `Xeye` | mode, connector, threads | `init`, `start` (CONFIG_XEYE and model), `stop` (STOP_XEYE), `uninit` (stop and join) | all of the above |
| `UsbConnector`, `xeye_usb` | libusb handle | bulk transfers without timeout (`XEYE_VSC_TIMEOUT` is 0) | device |

Hard here: `push_image` makes three critical sections out of what looks like one
operation, from several threads; items are copied with their raw pointers; the
application's thread and the input thread share a pipe without a lock over a
frame; threads are joined while they are inside a blocking receive. Correct
means: every buffer has one owner and is freed once; a push fails only if it
lost a race; order is kept across evictions; the pipe's two ends agree on what
is a header; calls return.

### Device starter (`basic_devkit/starter`)

| Part | State | Operations | Talks to |
|---|---|---|---|
| `POSIX_Init` loop (`leon/main.cpp`) | mode, one message buffer for all messages, payload being read | receive header, dispatch on type, receive model or pixels, run, answer in one or two sends | USB pipes |
| Standard-mode pipeline (`main.cpp`, `PlgXlink`, `PlgNetwork`, `frmdispatch`) | five kinds of bounded queues, pools of reference-counted buffers, `flag_seqNo` | capture, dispatch even and odd frames, run two networks, put results back in turn, send result and image in turn | IN pipe |

Hard here: a failed receive handles the old buffer again; a payload whose header
was not accepted stays on the pipe; in the pipeline, seven threads share pools,
the two senders share one integer, and the frame queues before the networks are
overwritten. Correct means: framing is lost only from named causes; no queue
overflows; header and image alternate; the image belongs to its result; frames
keep coming.

### XLink (`platform/module/vsc_xlink/leon/XLink`)

| Part | State | Operations | Talks to |
|---|---|---|---|
| Streams (`XLink.c`) | per stream: write size, credit (remote fill level and packets), local fill level, ring of 64 packets, close state | open, write, read, release, close and the messages they send | dispatcher; other end |
| Dispatcher (`XLinkDispatcher.c`) | two rings of event slots with two pointers each, counting semaphore, a semaphore per thread | add an event, fetch the next, serve it or block it, find the request of a response, wake the caller, reset | application threads; reader thread |
| Platform layer and driver (`UsbLinkPlatform.c`, `usb_vsc.c`, `vsc2app_outcall.c`) | pending transfers, a timeout mark and a semaphore per direction, connected and reconnected flags | chunked reads and writes, each waiting one second; completions, interface down and up | reader and dispatcher threads; the host |

Hard here: a write waits for credit that a message of the other end gives back; a
close waits for all data to be released and crosses writes of other threads; slots
are reused while other slots stay blocked; the same slot state means "free",
"queued" and "finished". Correct means: credit is conserved, no assertion fails,
each call is served once, its own thread wakes, calls return, the stream is a
bounded FIFO, and messages cross the transport once and whole although a transfer
outlives the call that timed out.

### Crowd application (`crowd_app`) and platform

| Part | State | Operations | Talks to | Hard |
|---|---|---|---|---|
| Frame pipeline (`leon_rt/run.c`, `leon_rt/deep.cpp`, `leon/deep.cpp`, `leon/main.cpp`) | frame buffers, a flag and a result buffer per inference thread, one track vector, one picture, the channel of messages | convert, hand over, detect, track, send; read a message and copy what it points to | tracker, upload, watchdog | everything but the message is shared by address, without a lock |
| Tracker (`leon_rt/run_tracker.cpp`, `leon_rt/matching`) | tracks with age and hits | thin out, predict, two matchings, update, delete | the pipeline calls it once per result | the life of a track over many frames; lists of indices passed from step to step |
| `TrackingDataManager`, `Ringbuf_t` | message queue, ring of boxes, ring of pictures, two caches, a file on the card | add, batch, convert, post, retry, save before a reset, read back | pipeline's handler; server; watchdog | data leave the rings before the post has succeeded; a wait without limit |
| `SpiFlash`, `OnlineUpdateManager`, `WatchDog`, `main.cpp` | layout and firmware in flash, the copy in memory, one file offset, feeding, suspension | record a reason, erase, write, suspend, resume, reset | all threads | writers without a lock, resets between erase and write |
| `HeartbeatManager` | message queue, cache | add, post, retry | server | messages freed before a post that can fail |
| USB device API (`xeye_usb_api.c`) | semaphores, connected flag | read, write | the starter's binary library | semaphores deleted under a waiter |
| Exposure, drivers, start-up, vendored code | - | - | - | sequential, or not this repository's own logic |

Correct means: what is shared is read before it is written over; each detection
and each box is used once and goes out once, in order; the record in flash tells
the truth; whoever runs into trouble gets the device reset.

Every component, modelled or not, is in `PROJECT.json` with its reason; the
places where this code is hardest to test are under `hazards` with their lines.

## 2. What is modelled

A module models one component with one action per critical section, transfer or
handler; everything a handler does to the state is in its action. The names are
the code's. History variables (marked so in their comments) are read by
properties and by no guard.

| Module | Code | State and actions |
|---|---|---|
| `HostInput` | `xeye_computation.cpp`, `dl_queue.h`, `dl_input_thread.cpp` | `inq` is the queue, `prod[p]` a thread inside `push_data_item`, `sender` the input thread, `heap` the life of each buffer, `mode` the mode the SDK was initialised for. `Push`, `PopOldest`, `FreeVictim`, `Repush` are the steps of `push_data_item`; the sender's steps are a pop, two sends and a free; `StopInputThread`, `JoinAndDelete` are `uninit`. |
| `HostOutput` | `connector_message_thread.cpp`, `dl_output_thread.cpp`, `dl_queue.h`, `Xeye::uninit` | an item is a message number with the parts that are allocated for it; `receiver` reads header, then payloads, pushes, evicts, pushes again; `worker` polls, handles, frees, counts silent polls up to `WatchdogPolls`. `ReceiveHeader` and `ReceivePayload` are the device's half. |
| `UsbSession` | `xeye.cpp`, `dl_input_thread.cpp`, `connector_message_thread.cpp`, `starter/leon/main.cpp` | `out` and `in` are the pipes. The OUT pipe is cut into cells of a header's size, so that a payload can be misread as a header. `fits` says whether model and images are within the device's buffers. `app` is `Xeye::start`/`stop`, `inp` the input thread, `dev` the device's loop, `host` the message thread. |
| `XLinkStream` | `XLink.c`: write, read, release, close; requests, responses and their blocking | `desc` has the fields of `streamDesc_t` at both ends, `call` the call each thread is in, `local` and `remote` what the dispatcher has to look at, `link` the wire. |
| `XLinkChannel` | promise of `XLink.h` | the abstract bounded FIFO that `XLinkStream` is shown to implement by a refinement mapping (`ImplementsChannel`): what is on the link and unread is `unread`, what is read and not released is `unreleased`. |
| `XLinkDispatcher` | `XLinkDispatcher.c`: both queues, fetch, serve, block, unblock, response matching, wake-up | `lq`, `rq` are the slots, `lCur`/`lProc` the pointers, `notify` and `sem` the semaphores. |
| `StandardPipeline` | `main.cpp` (pipeline), `PlgXlink.cpp`, `PlgNetwork.cpp`, `frmdispatch.cpp` | each queue is a sequence of frame numbers, each plugin's thread a program counter, `flag` is `flag_seqNo`; pools are counted from what is held. |
| `UsbLink` | `usb_vsc.c`, `vsc2app_outcall.c`, `UsbLinkPlatform.c`, the reading and sending of `XLink.c` | a unit is a header or a chunk; `pipe`, `rreq`, `wreq` are what the host has written and the transfers the driver holds, `rlate`/`wlate` the marks of a timeout, `rsem`/`wsem` the semaphores. |
| `CrowdPipeline` | `run.c`, both `deep.cpp`, `img2msg.cpp`, `backproc.cpp`, `thread_ipc_handler` | `conv` are the buffers, `flag`, `asked`, `image`, `result` what each inference thread was given and left, `chan` the messages; `size`, `room` and `boxes` are the vector of tracks a message points to, its capacity (it grows by moving to other memory) and that memory, `jpg` the picture; `Reserve` and each `PushBack` are steps, so that LEON OS copies in between. `Suspend` and `Resume` are `deep_task_control`. |
| `Tracker` | `run_tracker.cpp`, `tracker.cpp`, `track.cpp`, `linear_assignment.cpp`, `model.cpp` | the stages of `run_tracker` are actions, so that what one leaves for the next can be talked about: `Preprocess`, `Predict`, one `MatchingCascade` per level, `MatchRest`, `Update`; `matches` and `free` are what they hand on. Boxes have one size and lie on a line. |
| `TrackingUpload` | `tracking_data_manager.hpp`, `ringbuf.hpp`, the results of `http.hpp` | both rings with their heads and contents, `queue`, `cached`, `file`; `pc` is the consumer. A conversion goes frame by frame, because the producer adds in between. |
| `CrowdReboot` | `spiflash.hpp`, `spiflash.c`, `watchdog.hpp`, `main.cpp`, `online_update_manager.hpp` (its effect on the flash), `cmdlist.cpp` | `layout` and `firmware` are the flash, `ram` the copy read at the start, `pos` the one offset, `step[t]` where a thread is in suspending, erasing, seeking, writing, resuming, resetting; `autoFeed` is the watchdog's. |
| `*_proofs` | - | theorems with their proofs (section 5): `HostInput`, `UsbSession`, `XLinkStream`, `StandardPipeline` and `CrowdPipeline` about the module they are named after; `XLinkDevice` about `XLinkDispatcher` and `UsbLink`, `Results` about `HostOutput` and `TrackingUpload`, `CrowdApp` about `CrowdReboot` and `Tracker` |

How they compose. `HostInput` and `HostOutput` are the two queues either side of
`UsbSession`, which abstracts them (its input thread takes a next image, its
message thread delivers a result) and adds the pipe they share. `StandardPipeline`
is what the device does after the session's loop ends in standard mode.
`XLinkDispatcher` is the engine below `XLinkStream`, which takes its queues to
be first-in first-out (true until a call is lapped), and `UsbLink` is the link
both take to be reliable (true until one of its four mishaps). In the
application, `CrowdPipeline` calls the tracker with the boxes of `ReadBoxes`
(one frame of `Tracker`), its `AddData` is the `AddTracking` and `AddImage` of
`TrackingUpload`, whose `Restart` is one of the recorded resets of
`CrowdReboot`; `Suspend` and `Resume` of `CrowdPipeline` are what every writer of
the flash in `CrowdReboot` does. `XLinkStream` implements the abstract
`XLinkChannel` under a refinement mapping. The `MC*` modules hold the constants of
the instances.

Where the code breaks a property in a corner of its own making, a history variable
marks that corner and the property says what holds outside it, so that the
corner stays in the model and its extent is checked: `lapped`
(`XLinkDispatcher`), `crossed` (`XLinkStream`), `inTrouble` and `outTrouble`
(`UsbLink`), `spoiled` and `copied` (`TrackingUpload`), `lost` (`CrowdReboot`), `nullItem`
(`HostOutput`). Section 4 says what these corners are.

## 3. Runs

| Run | Instance and bounds | What it shows |
|---|---|---|
| `host_input` | 2 producers, 4 buffers, queue of 2, both modes; 139 488 states | `OwnedOnce`, `NoLeak`: one owner per buffer, no double free, no leak except a rejected push or `uninit` with a full queue. `RejectOnlyIfRaced`: a push fails only when raced. `ImagesServed`: headers keep the push order; with transfers that complete, everything queued leaves in computation mode and the join returns in either mode. In standard mode the thread takes nothing from the queue. Two producers and two slots are the least that let one thread take the slot another has just made; four buffers let both be inside with a full queue. |
| `host_output` | 4 headers, queue of 2, bark after 2 silent polls; 340 596 states | `ItemsOwned`: items keep their memory and lose it only to a rejected reception, and the item an eviction makes room for fits. `ResultsServed`: order is kept across evictions, queued results leave, silence leads to the watchdog. Four headers fill the queue, evict and still leave one being handled. The code's 16 polls are 2 here: the counter is only compared with its limit. |
| `usb_session` | model of 1 cell, image of 2, 2 images, 2 starts, at most 1 failed receive and 1 failed send on the device, 1 payload not sent and 1 failed receive on the host; model and image each within the device's buffer or not; 107 184 states | `FramingKept`: the causes of lost framing are one host thread inside the other's frame, an image announced to a device that is not in computation mode, a model or image larger than the device's buffer, a payload that was announced and not sent, a failed receive on the device; in the other direction a failed send of the device and a failed receive or `malloc` of the message thread; and results come in order. `SendsReturn`: no host thread hangs in a send in computation mode. An image of two cells is the least that can be half read. |
| `xlink_stream` | 2 writers, one of which closes, and a reader; packets of 1 and 3 bytes in lines of 2; buffer of 6 bytes and 3 packets; at most 5 packets; 31 422 states | `CreditSound`: until a write crosses a close, credit is exact, no assertion fails, a close is never refused. `CallsReturn`: writes and the close return. `ImplementsChannel`: the stream implements `XLinkChannel`. Small packets fill the packet ring first and large ones the bytes. |
| `xlink_dispatcher` | 2 threads, 4 slots, 6 calls, 2 packets; 275 767 states | `EventsExact`: until a call is lapped, notifications are exactly the events not fetched, each call is served once, its own thread is woken for it, responses find their request, a read returns with a packet. `CallsReturn`. Six calls go round four slots once and a half, so that lapping happens too. |
| `usb_link` | 2 messages each way, 2 chunks in and 1 out, 1 drop of the interface; 425 184 states | `LinkKept`: messages are handled once, in order and whole, and what the host reads is a run of units, each header followed by its chunks and then by the next header, but for the four mishaps. `LinkServes`: the host's pipe drains, and a send ends unless its transfer went with the interface. Two messages show what a late transfer does to the message after it. |
| `standard_pipeline` | 8 frames, 3 video buffers, 3 result buffers per network, sync queues of 3, result queue of 6, 1 fault; 633 057 states | `QueuesSuffice`. `ImagesFollowResults`: header and image alternate while sends succeed, and an image is older than its result by fewer frames than there are video buffers (by two at most here). `FramesKeepComing`, even when a send fails, as long as no frame number is left out and every frame has a result. Three video buffers, the image queue and the dispatch queue are the code's own numbers; result buffers and the two queues that hold them are scaled from 4 and 8. Eight frames use every buffer more than twice. |
| `crowd_pipeline` | 3 buffers, a queue of 2, 4 frames of up to 2 tracks, a picture due every 2 frames, 1 suspension; 866 724 states | `SharedInTime`: a frame stays intact while it is read (and which frame that can be); a result is at most two frames old; the tracks a message points to are those of its frame until the next frame's are packed, and from then on partly later frames' or freed memory; its picture is its own until the next one is made. `FewWhileSuspended`: at most three messages come while nobody reads, so a queue with room for three when the tasks are suspended does not fill. `FramesFlow`: images go back by one frame at most, and every frame gets through. The code has six buffers; three are the fewest for which the property holds. Four frames use each inference thread twice, let the vector grow after a message was queued and overwrite a picture; a queue of two also overflows. |
| `tracker` | up to 3 detections in 3 places, 6 frames, tracks confirmed after 3 hits and kept for 2 misses; 555 201 states | `DealtFairly`: each detection is used once, a confirmed track goes without one in its reach only if a confirmed track seen no longer ago got it, and a detection in reach of a track left unmatched goes to another track and makes no new one (one in reach of matched tracks only does make one, `tracker.cpp:54`). `LifeCycle`: tracks are confirmed, kept and deleted after the frames their parameters say. Neighbouring places are in reach of each other, those two apart are not; six frames confirm a track and delete it. |
| `tracking_upload` | ring of 4 boxes and 2 pictures, batches of 3, 4 frames of up to 2 boxes, 2 starts; 303 689 states | `DataInStep`: rings and messages stay in step, and what is built from them is right, unless a post failed after its conversion. `PostedOnceInOrder`: no box twice unless a save copied one, frames in order, restarts included. `BacklogDrains`, unless the consumer sits in its second receive. Four frames wrap both rings. |
| `crowd_reboot` | 3 starts, 1 firmware, at most 2 threads besides main in the flash; 277 595 states | `RecordTruthful`: after a start the device knows how many resets it asked for and why the last one came. `FlashGuarded`: the firmware is whole unless a reset or another writer fell into a write; the watchdog is fed through a write unless another thread resumed. `TroubleEnds`: a recorder's reset follows and a hung main task is reset, unless the ipc task suspended itself. Three starts let a recorded and an unrecorded reset both be read at a next start. |
| `tracker_thinned` (violation) | 4 detections | Of two detections to throw out the wrong one goes and two that overlap stay (section 4). |

Every bound is a constant with a comment (`Max...`) or the size of a constant
set. `CHECK_DEADLOCK FALSE` stands in the configurations because these systems
stop: the bounds are used up, `uninit` has returned, or the device has left its
loop. That nobody waits for ever is a liveness property of each run instead.

### Fairness

Weak fairness is given to each thread of the library or device that is inside an
operation, because each runs on a preemptive scheduler (pthreads on the host,
RTEMS on the device) and its loop has no exit besides the modelled ones. It is
never given to what the environment decides: the application need not call
`push_image`, `start`, `stop` or `uninit`, nor write or close; the device owes no
message in `HostOutput`; the interface need not come up in `UsbLink`; no file
arrives, no call returns and no power fails by fairness in `CrowdReboot`;
failures need not happen and need not stop before their bound. What goes further
is stated where it is used:

* `HostInput`: a transfer completes. `StandardPipeline`: the host reads, so that a
  send ends.
* `XLinkStream`: the application at the reading end asks for what was written and
  releases it, without which no flow control can promise that a write returns. It
  need not ask for more.
* `UsbLink`: the driver completes a transfer for which there is data, or a host that
  reads.
* `CrowdPipeline`: the camera goes on, and whoever suspended the tasks resumes
  them (each caller of `deep_task_control(0)` that is not itself suspended does).
* `CrowdReboot`: threads that are not suspended run, and the hardware watchdog of a
  hung main task fires when nothing feeds it.
* `TrackingUpload`: strong fairness of `Connect` and `PostSucceeds`: a server tried
  again and again is reached and takes the data now and then. Between two tries
  the attempt is over, so weak fairness would say nothing.

Weak fairness is enough in the other cases: no step relied on is enabled and
disabled again without end within the bounds.

## 4. Findings and limits

The violation run is a disagreement between the code and its comments:
`ModelDetection::dataPreprocessing` collects the indices of the detections to
delete and erases them one after the other at the indices they had before the
first was erased (`leon_rt/matching/model.cpp:102`).

The properties that hold name their own limits, each a corner of the code that a
maintainer should know of:

* `HostInput`: with two producers `push_image` can fail on a queue that was being
  emptied for it; with one it cannot. In standard mode `push_image` takes images
  all the same, and the input thread, which sleeps as long as the mode is not
  computation mode, takes none of them (`dl_input_thread.cpp:92`): the queue fills,
  evicts, and goes with `uninit`.
* `HostOutput`: the pop that should remove the oldest item may find the queue empty;
  its result is not checked, and a null message is dereferenced
  (`connector_message_thread.cpp:267`). The thread receives without a timeout
  (`XEYE_VSC_TIMEOUT` is 0), so `uninit`, which joins it, waits for a silent device
  for ever.
* `UsbSession`: framing does get lost, from the causes `FramingKept` lists, and
  nothing on the wire recovers it; a model larger than the device's buffer is one of
  them, because the device leaves the loop's turn with the model on the pipe
  (`leon/main.cpp:255`), a failed `malloc` of the message thread another
  (`connector_message_thread.cpp:200`). The device ignores `STOP_XEYE` and stays in its
  mode.
* `XLinkStream`: a write served between a close and its response reaches an end that
  has forgotten the stream, and its assertion aborts the process
  (`XLink.c:133`). When both ends write and close, one close may never return:
  it is woken only by messages of its own direction (`XLink.c:612`); the run writes in one direction.
* `XLinkDispatcher`: when a call stays open while others go once round the queue, a
  finished slot is taken for a new event: its caller is woken twice, and the next
  read returns success without a packet (`XLinkDispatcher.c:358`).
* `UsbLink`: a data read that times out is logged only; the packet is delivered and
  acknowledged before its data are there (`XLink.c:145`). A data write that times
  out costs the next header. A write pending when the interface goes down blocks
  every later send.
* `StandardPipeline`: one frame number left out by the camera, or one frame without
  a result, can stop the pipeline: the plugin that puts results back in turn waits
  for the number's parity. A configuration without images
  (`with_original_image` 0) gets one result only: nothing stores 0 back to
  `flag_seqNo` after the first header.
* `CrowdPipeline`: a message has the address of the one vector of tracks. When LEON OS
  is more than a frame behind, it copies tracks while they are written over
  (`leon_rt/deep.cpp:217`), and once a frame had more tracks than any before, it
  copies from memory that `reserve` has freed (`leon_rt/deep.cpp:215`). `DataLasts` says
  until when neither can happen; it does not promise more. A picture is likewise written
  over when the next one is made.
* `TrackingUpload`: a post that fails after its conversion leaves messages whose
  data have left the rings; the next conversion drops or mixes frames and can fail
  its assertion (`tracking_data_manager.hpp:352`). When such messages are saved, the ring
  has fewer boxes than they name; `get` fills what it can of a vector that still holds
  the boxes of the message before, and these go to the card a second time (`:102`,
  `copied`). The consumer's second receive has
  no timeout (`:179`), so a lone message is not flushed.
* `CrowdReboot`: the ipc task that finds inference blocked suspends itself on the
  way to the reset, with the watchdog feeding itself (`main.cpp:211`): neither the
  record nor the reset comes. Writers of the flash share one offset and no lock.

## 5. Proofs

The `*_proofs` modules state theorems about the specifications of the modules they
extend (`Spec`, or `LinkSpec`, `TrackerSpec`, `UploadSpec` where two share a
module), for every value of the constants that the assumptions allow, checked by
TLAPS to the last leaf. All have the same shape: an inductive invariant (`IInv`,
`LinkInv`, `TrackerInv`, `UploadInv`; in `HostInput_proofs` the property itself is
strengthened), which the initial states satisfy, a preservation lemma for each
action or kind of action, and the theorem from the lemma that the specification
keeps it. Each invariant was checked by TLC on the instance of the module's run
before it was proved (`XLinkStream`'s on three more, with writers at both ends).

Every invariant the runs check is a theorem, and so are the refinement
`ImplementsChannel` and the action property `LifeCycle`.

| Module | Proved | Assumed of the constants |
|---|---|---|
| `HostInput_proofs` | `TypeCorrect`, `RejectsOnlyRaces`, `NoDoubleOwner`, `NothingElseLeaks` | the queue has room for an item; `None` is no image |
| `UsbSession_proofs` | `TypeSafety`, `FramingSafety` (`FramingKept`) | model and image have a length; the bounds are numbers |
| `XLinkStream_proofs` | `TypeSafety`, `CreditSafety` (`CreditSound`), `ChannelRefinement` (`ImplementsChannel`) | finitely many threads; packets and lines are not empty; a stream has room for one packet in its ring |
| `XLinkDevice_proofs` | of `XLinkDispatcher`: `TypeSafety`, `EventSafety` (`EventsExact`) | finitely many threads; they and the packets the other end may have unanswered are fewer than the slots; the bounds are numbers |
| | of `UsbLink`: `LinkTypeSafety`, `LinkSafety` (`LinkKept`) | the bounds are numbers |
| `StandardPipeline_proofs` | `TypeSafety`, `QueueSafety` (`QueuesSuffice`), `ImageSafety` (`ImagesFollowResults`) | the queues are sized to the pools as `main.cpp`, `PlgXlink.cpp` and `frmdispatch.cpp` size them |
| `CrowdPipeline_proofs` | `TypeSafety`, `SharingSafety` (`SharedInTime`), `SuspensionSafety` (`FewWhileSuspended`), `FeedOrder` (`FedNearlyInOrder`, a part of `FramesFlow`) | more than two frame buffers (the code has six); a picture is due every so many frames, the queue has room for a message; no frame has more tracks than the bound |
| `CrowdApp_proofs` | of `CrowdReboot`: `TypeSafety`, `RecordSafety` (`RecordTruthful`), `FlashSafety` (`FlashGuarded`) | at most seven starts, which keeps the counts within the three bits the model gives them |
| | of `Tracker`: `TrackerTypes`, `TrackerFairness` (`DealtFairly`), `TrackerLife` (`LifeCycle`) | finitely many places, boxes that are not empty, thresholds below 100 percent, a cascade of at least one level, more than one hit to confirm |
| `Results_proofs` | of `TrackingUpload`: `UploadTypes`, `UploadInStep` (`DataInStep`), `UploadOnceInOrder` (`PostedOnceInOrder`) | no buffer, batch or bound is 0, a batch is no longer than the limit of the backlog; null is no address |
| | of `HostOutput`: `TypeCorrect`, `OwnershipSafety` (`ItemsOwned`), `ResultOrder` (`HandledInOrder`, a part of `ResultsServed`) | the queue has room for an item; the bounds are numbers |

The arguments, and why the properties need strengthening:

* `HostInput`. `RejectOnlyIfRaced` speaks of the second push only; the producer may
  have come from freeing its victim with the queue refilled. `RoomOrRaced` says
  the same of both program counters: after a pop there is room, unless another
  thread's push succeeded since. `OwnedOnce` is inductive relative to `TypeOK`;
  `OwnedStep` shows for each action what it does to every role of a buffer.
* `HostOutput`. Items are numbered as headers arrive, and one order holds them all:
  what was handled, what the output thread holds, the queue from head to tail,
  what the message thread works on (`QueueOrdered`, `HandledFirst`). Distinct
  numbers in distinct places give ownership as well as order; `RepushFits` keeps the
  room an eviction has made until the second push, because no other thread pushes.
* `UsbSession`. `FramingKept` speaks of the moment at which the device reads a wrong
  cell; the invariant has to say what is on the pipe before. `InStep`: with no
  cause to blame, the pipe holds what is left of the payload the device is in, then
  headers, of which only `STOP_XEYE` is followed by anything; a host thread
  between the two transfers of its frame has its header last on the pipe or taken.
  A header the device refuses (`early`, `refused`) is a cause at once, before the
  payload behind it is misread.
* `XLinkStream`. Credit is compared with five queues, so the invariant is an
  equation (`CreditExact`): what an end was charged is what is on the link, in
  the other end's dispatcher, in its store, and in the releases on their way back. It
  needs that each thread has one message in the system (`OneMessageEach`), that a
  close is the last message of its end (`CloseLast`), and an inequality that
  survives a crossing (`CreditCovers`), from which the types follow in all states.
  Queues are counted by recursive functions (`Total` of `XLinkChannel`), about which
  the proof needs induction: `Induction`, a set that has 0 and every successor has
  every number, is proved from the well-foundedness of the numbers and applied to
  sets of lengths for which a fact about a count holds (`TotalTail`,
  `TotalConcat`, `OfTypeConcat`).
  The refinement holds if end `app` has a buffer (otherwise its stream is closed
  for writing at the start and the channel's size is that of nothing); a served write
  is `Write` of the channel, a served read its `Read`, a served release its
  `Release`, the last step of a close its `Close`; everything else, the messages
  on the link and the responses included, is a stutter.
* `XLinkDispatcher`. The types and what each slot says of itself (`SlotsKept`) hold
  always; the rest, `Exact`, until a call is lapped. Then a call that was not served
  has its slot to itself and its thread waits in it (`CallsKept`), so the turn of
  the pointer always finds a finished slot to fill, and the slots between the two
  pointers (`Window`) are exactly the events nobody fetched (`QueueKept`). That the
  pointers do not meet needs a count: each queued local event stands for a thread
  that waits (`QueueShort`), each remote one for a thread whose answer it is or for one
  that waits at the other end (`RemoteShort`), and a pending request has one answer
  on its way (`AnswersKept`). The code has 64 slots and 32 semaphores at each end, so
  the assumption leaves out one case, in which all 64 are taken at once: then the two
  pointers meet and a full queue looks empty.
* `UsbLink`. At most one write transfer is pending, because a call after a timeout
  waits for that transfer instead of submitting its own (`WriteKept`); it carries
  the unit after the last one the host has read, so what the host has read is a run
  of units. The reader's half rests on knowing which unit it wants next (`Wanted`):
  until one of the troubles is met that unit is the first on the pipe, or the next the
  host will write, or everything from its message on went with the interface. The
  property speaks only of what was handled; which chunks of the message before may
  still be filled by a late transfer has to be said of every state in between.
* `StandardPipeline`. `QueuesSuffice` follows from counting: a queue's frames are
  distinct, ordered and held (`FramesKept`), so they are no more than the pool;
  results are no more than the result buffers of their network (`TensorsKept`).
  `ImageNearResult` needs the whole line of results: the p-th result sent is of frame p
  or a later one of p's parity, so each place of the line back to the camera has a
  frame it cannot be before (`InLine`), and the images not yet sent, numbered
  without gaps, hold their frames (`FramesPlaced`), which keeps the newest result
  within the pool of the oldest image. The bound proved, fewer frames than video
  buffers, is the one the run checks with three.
* `CrowdPipeline`. Everything follows from the turn: which frame each inference
  thread was asked for is a function of the frame number and of whether LEON RT
  has set this frame's flag (`AskedInTurn`); so a thread still reading is at most two
  frames behind, which is less than the buffers. What a message points to needs a
  statement about each place a message can be in, the channel and the handler
  (`TracksIntact`, `PictureIntact`), and about how far LEON RT has come with the vector
  (`VectorFilled`) and with the picture (`PictureCurrent`); the capacity names the memory,
  because the vector moves exactly when it grows. `BudgetKept` ties the messages
  sent while the tasks are suspended to the flags still set and the place of
  LEON RT in its frame.
* `CrowdReboot`. Until a write is crossed or cut at most one thread has data in the
  flash (`Alone`), and what the flash holds follows from who that is and how far it
  has come (`LayoutKept`, `FirmwareKept`); counts of resets do not outrun the starts,
  which is what keeps a clear-only write to flash from losing bits.
* `Tracker`. That the assignment is one of least total cost has to become a statement
  about single tracks: if a pairing of least cost leaves a track and a detection over
  within reach of each other, then giving the one to the other, in the place of a pair
  too far apart or of nothing, makes it cheaper. The total is a recursive function over sets of pairs that
  chooses an element at each step, so the proof first shows that the order does not
  matter (`TotalAdds`, `TotalReplaces`, by induction on the size). Level by level
  the cascade then adds up: what a level leaves free is out of reach of all it left over.
* `TrackingUpload`. All messages that wait form one line (`Line`), and an action takes
  from its front or puts at its end. `Shape` says where the line lies: only one of the
  two caches is ever used, since the mode is fixed at the start, and a saved file and
  cached messages exclude each other. `InStep`: unless a post failed late, each ring
  holds what the rest of the line claims, one claim behind the other from the ring's head
  on; then a conversion finds its own boxes first, no search is needed, no assertion
  fails, and a save reads each message's own boxes. A file must fit the ring it is read
  back into and hold the truth (`Filed`), or the claim would not survive a start. `Order`: the
  frames of what was posted, of the text, of the file and of the line rise and follow
  one another. `Once`: as long as no save copied anything, no box is at two places, and
  none is younger than the newest frame; it holds after late posts too, where boxes
  and frames no longer belong together, because a conversion, a save and a start
  each move a piece of the ring that no other piece overlaps.

Proving changed the models in these places: `XLinkStream`'s sums are recursive
functions where they were folds, `crossed` is also set by a call in a direction without a
buffer, `CrowdReboot` has an assumption on its bounds, `StandardPipeline` on its
queues and frames, `UsbSession` on its bounds, `XLinkDispatcher` on its threads and
bounds, `CrowdPipeline` on its pictures and tracks. The tracker's and the upload's folds became recursive functions as well.
`FreshestFirst` was strengthened to what the proof gave. `SentWhole` says unit by unit what
it said of a flattened sequence. In `TrackingUpload` the
attempt to prove that no box is written to the card twice failed, because it is
false: the vector of `save_tracking_data_to_local_file` keeps boxes of the message
before; the model now has that vector, and `copied` the corner it makes.

What stays with TLC:

* every liveness property (`ImagesServed`, `ResultsServed`'s other half, `SendsReturn`,
  `CallsReturn`, `LinkServes`, `FramesKeepComing`, `FramesFlow`'s other half,
  `BacklogDrains`, `TroubleEnds`): TLAPS proves no fairness and no ENABLED;
* that the tracker's thinning does what its comments say, which it does not (the
  violation run).

## 6. Plan

The order follows what the program is for: first the SDK that every
user of the device runs, then the stream library, then the device, then the
application. All modules of the plan are written, all eleven that specify code have
theorems, and every invariant the runs check is proved. What remains is to say more:

1. abstract specifications of what the queues of the host promise (results are handled in
   the order of their arrival, the oldest is given up when there is no room) and of what
   the dispatcher promises (a call is served once and then returns), checked as
   refinements and proved from the invariants there are;
2. composition: that `XLinkStream` over the events of `XLinkDispatcher` and the link of
   `UsbLink`, until a call is lapped and but for the four mishaps, is the `XLinkStream`
   over queues that the run checks.

## 7. What is not modelled

* Contents: pixels, results, JSON, image formats, the configuration file. A
  message is its number and kind.
* Timing: a timeout or a sleep is a step that may happen; `XEYE_VSC_TIMEOUT` is
  0 in this build, so the host's transfers do not time out.
* Partial transfers of the session: a transfer of `UsbSession` moves all of its
  cells or fails as the callers treat it. (`UsbLink` has pending ones.) A send of the
  host that fails leaves nothing on the pipe; one that fails with the header announces
  nothing, so it is no step of its own.
* XLink: opening streams and their ids (`XLinkStream` starts from an open stream with
  the buffer size known at both ends), ping, reset (nothing in the repository asks
  for one), several links, two reading threads on one stream; in `UsbLink`, the
  JTAG and serial variants and the memory pool.
* The second USB API (`xeye_usb_api.c`, called by no source file), `SharedQueue`
  (included by none) and the heartbeat (a use of freed memory, which a model could
  only restate).
* A power cut inside a save or a read-back of `TrackingUpload`: each is one step.
* Half a suspension: `deep_task_control` suspends or resumes three tasks one after the
  other, in `CrowdPipeline` in one step; callers that overlap are in `CrowdReboot`.
* Feeding during the main task's own write (`CrowdReboot`): the main task records
  and clears the reason at the start without suspending anything, so the watchdog does
  not feed itself then, and `FedWhileWriting` does not speak of it.
* The application: boards whose frames need no conversion, LIVE mode, the video
  stream to USB, pictures on demand, download and unpacking of an update, flash
  calls that fail, Munkres' algorithm (taken to be the least total cost it
  computes).
* `HostInput` and `HostOutput` leave out failed `malloc`s (on the receiving side
  `UsbSession` has them) and the logging; a buffer is pushed at most once by the application.
* The memory model: plain flags shared between threads (`_s_running`,
  `flag_seqNo`) are read and written atomically in one order.
* Kalman filtering, image signal processing, camera drivers, network and file
  systems, board start-up, ciphers and vendored code: arithmetic on floats,
  hardware access or third-party code with no protocol of this repository's
  own. `PROJECT.json` lists each with its reason.
