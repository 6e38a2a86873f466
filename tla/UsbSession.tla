----------------------------- MODULE UsbSession -----------------------------
(***************************************************************************)
(* The session protocol between the host SDK and the device over two USB   *)
(* pipes. A header says what follows it: CONFIG_XEYE is followed by the    *)
(* model, SET_INPUT by an image, SET_OUTPUT by a result that did not fit   *)
(* into it; STOP_XEYE stands alone. Nothing on the wire tells a header     *)
(* from a payload: the two ends agree because each reads what the other    *)
(* wrote, in the same order.                                               *)
(*                                                                         *)
(* On the host the application's thread (Xeye::start, Xeye::stop) and the  *)
(* input thread (DlInputThread) both write the OUT pipe, with no lock over *)
(* the two transfers of a frame; the message thread reads the IN pipe. On  *)
(* the device one loop (POSIX_Init) reads OUT and writes IN.               *)
(*                                                                         *)
(* The OUT pipe is cut into cells of a header's size. A transfer returns   *)
(* once the device has read all of it (libusb_bulk_transfer without        *)
(* timeout), so each host thread has at most one on the pipe.              *)
(***************************************************************************)
EXTENDS Naturals, Sequences

CONSTANTS
  ModelCells,  \* length of the model, in headers
  ImageCells,  \* length of an image, in headers
  MaxImages,   \* bound: images the input thread takes from its queue
  MaxStarts,   \* bound: calls of Xeye::start
  MaxFaults    \* bound, each: receives and sends that fail on the device, payloads the host
               \* does not send, receives that fail on the host

ASSUME LengthAssumption == ModelCells \in Nat \ {0} /\ ImageCells \in Nat \ {0}
ASSUME BoundAssumption == {MaxImages, MaxStarts, MaxFaults} \subseteq Nat

VARIABLES
  hostMode, \* mode the application initialised the SDK with
  fits,     \* the application's model, its images are no larger than the device's buffers
  app,      \* the application's thread: pc and calls of start so far
  inp,      \* the input thread: pc and the image it sends
  out,      \* OUT pipe: cells written and not yet read
  dev,      \* device loop: pc, mode, _message_buffer, cells still to read, reply size
  in,       \* IN pipe: transfers written and not yet read
  host,     \* message thread: what it waits for, and for which image
  got,      \* images whose result reached the output queue, in order
  lost,     \* the device took a payload for a header or a header for a payload
  hostLost, \* the message thread did
  overlap,  \* one host thread wrote inside the other's frame (history)
  early,    \* a SET_INPUT reached a device not in computation mode (history)
  faults,   \* receives that failed on the device (history)
  failed,   \* sends that failed on the device (history)
  cut,      \* frames the host announced and failed to complete (history)
  refused,  \* the device refused a model or an image that is too large (history)
  missed    \* receives that failed on the host (history)

hostVars == <<hostMode, fits, app, inp>>
causes == <<overlap, early, faults, failed, cut, refused, missed>>
vars == <<hostVars, out, dev, in, host, got, lost, hostLost, causes>>

NoBuffer == [type |-> "none", image |-> 0]

Init ==
  /\ hostMode \in {"computation", "standard"} /\ fits \in [model : BOOLEAN, image : BOOLEAN]
  /\ app = [pc |-> "idle", starts |-> 0]
  /\ inp = [pc |-> "idle", image |-> 0]
  /\ out = <<>> /\ in = <<>>
  /\ dev = [pc |-> "header", mode |-> "unknown", buf |-> NoBuffer, need |-> 0]
  /\ host = [awaits |-> "header", image |-> 0]
  /\ got = <<>>
  /\ lost = FALSE /\ hostLost = FALSE
  /\ overlap = FALSE /\ early = FALSE /\ refused = FALSE
  /\ faults = 0 /\ failed = 0 /\ cut = 0 /\ missed = 0

(***************************************************************************)
(* Host: one transfer on the OUT pipe. The threads of the host are told    *)
(* apart by the "by" field of what they wrote.                             *)
(***************************************************************************)
Header(by, type, image) == <<[by |-> by, part |-> "header", type |-> type, image |-> image]>>
PayloadOneShort(by, type, image, n) ==
  [k \in 1..(n - 1) |-> [by |-> by, part |-> "payload", type |-> type, image |-> image]]

Payload(by, type, image, n) ==
  [k \in 1..n |-> [by |-> by, part |-> "payload", type |-> type, image |-> image]]

Sent(by) == \A k \in DOMAIN out : out[k].by # by

\* Between the two transfers of a frame.
AppMidFrame == app.pc = "config"
InputMidFrame == inp.pc = "header"

Submit(cells, otherMidFrame) ==
  /\ out' = out \o cells
  /\ overlap' = (overlap \/ otherMidFrame)
  /\ UNCHANGED <<hostMode, fits, dev, in, host, got, lost, hostLost>>
  /\ UNCHANGED <<early, faults, failed, cut, refused, missed>>

(***************************************************************************)
(* Xeye::start and Xeye::stop                                              *)
(***************************************************************************)
Start ==
  /\ app.pc = "idle" /\ app.starts < MaxStarts
  /\ app' = [pc |-> "config", starts |-> app.starts + 1]
  /\ Submit(Header("app", "config", 0), InputMidFrame)
  /\ UNCHANGED inp

SendModel ==
  /\ app.pc = "config" /\ Sent("app")
  /\ app' = [app EXCEPT !.pc = "model"]
  /\ Submit(Payload("app", "model", 0, ModelCells), InputMidFrame)
  /\ UNCHANGED inp

StartReturns ==
  /\ app.pc = "model" /\ Sent("app")
  /\ app' = [app EXCEPT !.pc = "up"]
  /\ UNCHANGED <<hostMode, fits, inp, out, dev, in, host, got, lost, hostLost, causes>>

\* In standard mode stop returns at once and sends nothing.
Stop ==
  /\ app.pc = "up"
  /\ \/ /\ hostMode = "computation"
        /\ app' = [app EXCEPT !.pc = "stopping"]
        /\ Submit(Header("app", "stop", 0), InputMidFrame)
     \/ /\ hostMode = "standard"
        /\ app' = [app EXCEPT !.pc = "idle"]
        /\ UNCHANGED <<hostMode, fits, out, dev, in, host, got, lost, hostLost, causes>>
  /\ UNCHANGED inp

StopReturns ==
  /\ app.pc = "stopping" /\ Sent("app")
  /\ app' = [app EXCEPT !.pc = "idle"]
  /\ UNCHANGED <<hostMode, fits, inp, out, dev, in, host, got, lost, hostLost, causes>>

(***************************************************************************)
(* DlInputThread::s_thread_func: it runs from Xeye::init on, whether or    *)
(* not start was called, and only in computation mode.                     *)
(***************************************************************************)
SendInputHeader ==
  /\ hostMode = "computation" /\ inp.pc = "idle" /\ inp.image < MaxImages
  /\ inp' = [pc |-> "header", image |-> inp.image + 1]
  /\ Submit(Header("input", "set_input", inp.image + 1), AppMidFrame)
  /\ UNCHANGED app

SendPixels ==
  /\ inp.pc = "header" /\ Sent("input")
  /\ inp' = [inp EXCEPT !.pc = "pixels"]
  /\ Submit(Payload("input", "image", inp.image, ImageCells), AppMidFrame)
  /\ UNCHANGED app

InputDone ==
  /\ inp.pc = "pixels" /\ Sent("input")
  /\ inp' = [inp EXCEPT !.pc = "idle"]
  /\ UNCHANGED <<hostMode, fits, app, out, dev, in, host, got, lost, hostLost, causes>>

\* A payload that cannot be sent (for the input thread also one without pixels) ends the
\* frame after its header: start returns an error, the input thread takes the next image.
PayloadNotSent ==
  /\ cut < MaxFaults /\ cut' = cut + 1
  /\ \/ /\ app.pc = "config" /\ Sent("app")
        /\ app' = [app EXCEPT !.pc = "idle"] /\ UNCHANGED inp
     \/ /\ inp.pc = "header" /\ Sent("input")
        /\ inp' = [inp EXCEPT !.pc = "idle"] /\ UNCHANGED app
  /\ UNCHANGED <<hostMode, fits, out, dev, in, host, got, lost, hostLost>>
  /\ UNCHANGED <<overlap, early, faults, failed, refused, missed>>

(***************************************************************************)
(* Device: POSIX_Init's loop                                               *)
(***************************************************************************)
\* The switch on message_type. A payload announced by a header that is not accepted, a
\* model or an image larger than the buffer or an image outside computation mode, is left
\* on the pipe; STOP_XEYE is one of the types the switch does not know.
Dispatch(buf) ==
  LET config == buf.type = "config"
      input == buf.type = "set_input"
      ready == dev.mode = "computation"
  IN /\ dev' = CASE config /\ fits.model ->
                       [dev EXCEPT !.pc = "model", !.buf = buf, !.need = ModelCells]
                 [] input /\ ready /\ fits.image ->
                       [dev EXCEPT !.pc = "pixels", !.buf = buf, !.need = ImageCells]
                 [] OTHER -> [dev EXCEPT !.buf = buf]
     /\ early' = (early \/ (input /\ ~ready))
     /\ refused' = (\/ refused \/ (config /\ ~fits.model)
                    \/ (input /\ ready /\ ~fits.image))

\* A payload read as a header fits no message type and is ignored.
ReadHeader ==
  /\ dev.pc = "header" /\ out # <<>>
  /\ out' = Tail(out)
  /\ \/ /\ Head(out).part = "header"
        /\ Dispatch([type |-> Head(out).type, image |-> Head(out).image])
        /\ UNCHANGED lost
     \/ /\ Head(out).part = "payload"
        /\ Dispatch(NoBuffer)
        /\ lost' = TRUE
  /\ UNCHANGED <<hostVars, in, host, got, hostLost, overlap, faults, failed, cut, missed>>

\* A failed receive is reported and the old contents of the buffer handled again.
HeaderFails ==
  /\ dev.pc = "header" /\ faults < MaxFaults
  /\ faults' = faults + 1
  /\ Dispatch(dev.buf)
  /\ UNCHANGED <<hostVars, out, in, host, got, lost, hostLost, overlap, failed, cut, missed>>

ReadModel ==
  /\ dev.pc = "model" /\ dev.need > 0 /\ out # <<>>
  /\ out' = Tail(out)
  /\ dev' = [dev EXCEPT !.need = @ - 1]
  /\ lost' = (lost \/ Head(out).type # "model")
  /\ UNCHANGED <<hostVars, in, host, got, hostLost, causes>>

ConfigureLeavesLoop ==
  /\ dev.pc = "model" /\ dev.need = 0
  /\ dev' = [dev EXCEPT !.mode = hostMode, !.pc = "left"]
  /\ UNCHANGED <<hostVars, out, in, host, got, lost, hostLost, causes>>

\* The mode is set before the configuration is parsed; in standard mode the loop ends
\* and the camera pipeline takes over the IN pipe.
Configure ==
  /\ dev.pc = "model" /\ dev.need = 0
  /\ \E parsed \in BOOLEAN :
       dev' = [dev EXCEPT !.mode = hostMode,
                          !.pc = IF parsed /\ hostMode = "standard" THEN "left" ELSE "header"]
  /\ UNCHANGED <<hostVars, out, in, host, got, lost, hostLost, causes>>

ReadPixels ==
  /\ dev.pc = "pixels" /\ dev.need > 0 /\ out # <<>>
  /\ out' = Tail(out)
  /\ dev' = [dev EXCEPT !.need = @ - 1]
  /\ lost' = (lost \/ Head(out).type # "image" \/ Head(out).image # dev.buf.image)
  /\ UNCHANGED <<hostVars, in, host, got, hostLost, causes>>

\* A failed receive of a payload gives the message up; the rest of it is not read.
PayloadFails ==
  /\ dev.pc \in {"model", "pixels"} /\ dev.need > 0 /\ faults < MaxFaults
  /\ faults' = faults + 1
  /\ dev' = [dev EXCEPT !.pc = "header", !.need = 0]
  /\ UNCHANGED <<hostVars, out, in, host, got, lost, hostLost>>
  /\ UNCHANGED <<overlap, early, failed, cut, refused, missed>>

ReplySendsBoth ==
  /\ dev.pc = "pixels" /\ dev.need = 0
  /\ \E embedded \in BOOLEAN :
       /\ in' = Append(in, [part |-> "header", image |-> dev.buf.image, embedded |-> embedded])
       /\ dev' = [dev EXCEPT !.pc = "result", !.buf.type = "set_output"]
  /\ UNCHANGED <<hostVars, out, host, got, lost, hostLost, causes>>

\* ComputationModeRun, then the answer is built over the request in the same buffer.
Reply ==
  /\ dev.pc = "pixels" /\ dev.need = 0
  /\ \E embedded \in BOOLEAN :
       /\ in' = Append(in, [part |-> "header", image |-> dev.buf.image, embedded |-> embedded])
       /\ dev' = [dev EXCEPT !.pc = IF embedded THEN "answered" ELSE "result",
                             !.buf.type = "set_output"]
  /\ UNCHANGED <<hostVars, out, host, got, lost, hostLost, causes>>

SendResultAtOnce ==
  /\ dev.pc = "result"
  /\ in' = Append(in, [part |-> "result", image |-> dev.buf.image, embedded |-> FALSE])
  /\ dev' = [dev EXCEPT !.pc = "answered"]
  /\ UNCHANGED <<hostVars, out, host, got, lost, hostLost, causes>>

SendResult ==
  /\ dev.pc = "result" /\ in = <<>>
  /\ in' = <<[part |-> "result", image |-> dev.buf.image, embedded |-> FALSE]>>
  /\ dev' = [dev EXCEPT !.pc = "answered"]
  /\ UNCHANGED <<hostVars, out, host, got, lost, hostLost, causes>>

AnsweredRetries ==
  /\ dev.pc = "answered" /\ in = <<>>
  /\ dev' = [dev EXCEPT !.pc = "pixels"]
  /\ UNCHANGED <<hostVars, out, in, host, got, lost, hostLost, causes>>

Answered ==
  /\ dev.pc = "answered" /\ in = <<>>
  /\ dev' = [dev EXCEPT !.pc = "header"]
  /\ UNCHANGED <<hostVars, out, in, host, got, lost, hostLost, causes>>

\* A failed send of the header or of the result ends the answer there.
SendFails ==
  /\ \/ dev.pc = "pixels" /\ dev.need = 0
     \/ dev.pc = "result" /\ in = <<>>
  /\ failed < MaxFaults
  /\ failed' = failed + 1
  /\ dev' = [dev EXCEPT !.pc = "header", !.buf.type = "set_output"]
  /\ UNCHANGED <<hostVars, out, in, host, got, lost, hostLost>>
  /\ UNCHANGED <<overlap, early, faults, cut, refused, missed>>

(***************************************************************************)
(* Host: ConnectorMessageThread                                            *)
(***************************************************************************)
HostReceive ==
  /\ in # <<>>
  /\ in' = Tail(in)
  /\ LET t == Head(in)
         whole == (host.awaits = "header" /\ t.part = "header" /\ t.embedded)
                    \/ (host.awaits = "result" /\ t.part = "result")
     IN /\ host' = IF host.awaits = "header" /\ t.part = "header" /\ ~t.embedded
                   THEN [awaits |-> "result", image |-> t.image]
                   ELSE [awaits |-> "header", image |-> 0]
        /\ got' = IF whole THEN Append(got, t.image) ELSE got
        /\ hostLost' = (hostLost \/ t.part # host.awaits)
  /\ UNCHANGED <<hostVars, out, dev, lost, causes>>

\* A failed receive, of a header or of a result, or a buffer that cannot be allocated: the
\* message is given up and the thread awaits a header again. A transfer on the pipe stays
\* there or is gone with the failed receive.
HostFails ==
  /\ missed < MaxFaults /\ missed' = missed + 1
  /\ host' = [awaits |-> "header", image |-> 0]
  /\ in' \in {in, <<>>}
  /\ UNCHANGED <<hostVars, out, dev, got, lost, hostLost>>
  /\ UNCHANGED <<overlap, early, faults, failed, cut, refused>>

-----------------------------------------------------------------------------
AppStep == Start \/ SendModel \/ StartReturns \/ Stop \/ StopReturns
InputStep == SendInputHeader \/ SendPixels \/ InputDone
DeviceStep ==
  ReadHeader \/ ReadModel \/ Configure \/ ReadPixels \/ Reply \/ SendResult \/ Answered
Fault == PayloadNotSent \/ HeaderFails \/ PayloadFails \/ SendFails \/ HostFails

Next == AppStep \/ InputStep \/ DeviceStep \/ Fault \/ HostReceive

Spec == Init /\ [][Next]_vars

\* Threads already inside a call go on; the application need not call anything.
Fairness ==
  /\ WF_vars(DeviceStep) /\ WF_vars(HostReceive)
  /\ WF_vars(SendModel \/ StartReturns \/ StopReturns)
  /\ WF_vars(SendPixels \/ InputDone)

FairSpec == Spec /\ Fairness

-----------------------------------------------------------------------------
TypeOK ==
  /\ hostMode \in {"computation", "standard"}
  /\ app \in [pc : {"idle", "config", "model", "up", "stopping"}, starts : 0..MaxStarts]
  /\ inp \in [pc : {"idle", "header", "pixels"}, image : 0..MaxImages]
  /\ out \in Seq([by : {"app", "input"}, part : {"header", "payload"},
                  type : {"config", "stop", "set_input", "model", "image"},
                  image : 0..MaxImages])
  /\ dev \in [pc : {"header", "model", "pixels", "result", "answered", "left"},
              mode : {"unknown", "computation", "standard"},
              buf : [type : {"none", "config", "stop", "set_input", "set_output"},
                     image : 0..MaxImages],
              need : 0..(ModelCells + ImageCells)]
  /\ Len(in) <= 1
  /\ host \in [awaits : {"header", "result"}, image : 0..MaxImages]
  /\ got \in Seq(1..MaxImages)
  /\ fits \in [model : BOOLEAN, image : BOOLEAN]
  /\ {faults, failed, cut, missed} \subseteq 0..MaxFaults

\* The device takes a header for a header and a payload for its payload until one of five
\* things happens: a host thread writes inside the other's frame, an image is announced to
\* a device that is not in computation mode, a model or an image is announced that is
\* larger than the device's buffer for it, the host announces a payload and fails to send
\* it, or a receive fails on the device.
FramingLostOnlyBy == lost => overlap \/ early \/ refused \/ cut > 0 \/ faults > 0

\* The message thread takes a result for a result and a header for a header as long as no
\* send of the device failed and neither a receive nor an allocation of its own did.
HostFramingLostOnlyBy == hostLost => failed > 0 \/ missed > 0

\* Results arrive in the order of the images, none twice. A header that a failed receive
\* left in the buffer can be answered again, so this too needs receives that work.
ResultsInOrder ==
  faults = 0 /\ ~lost => \A j, k \in DOMAIN got : j < k => got[j] < got[k]

\* Neither end ever takes one thing for another, nor an answer for that of another image,
\* unless one of the causes above is to blame.
FramingKept == FramingLostOnlyBy /\ HostFramingLostOnlyBy /\ ResultsInOrder

\* In computation mode no thread of the host waits for ever in a send: the device goes
\* on reading the OUT pipe, because the message thread goes on reading the IN pipe.
SendsReturn == hostMode = "computation" =>
  /\ inp.pc = "header" ~> inp.pc = "idle"
  /\ app.pc \in {"config", "model"} ~> app.pc \in {"up", "idle"}
  /\ app.pc = "stopping" ~> app.pc = "idle"
=============================================================================
