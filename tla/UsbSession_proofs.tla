-------------------------- MODULE UsbSession_proofs --------------------------
(***************************************************************************)
(* The two ends of the USB session stay in step, for a model and an image  *)
(* of any length and any number of images, starts and faults.              *)
(*                                                                         *)
(* Without a cause to blame, the OUT pipe holds first what is left of the  *)
(* payload the device is reading, then headers, of which only STOP_XEYE is *)
(* ever followed by anything; a thread between the two transfers of its    *)
(* frame has its header last on the pipe or already taken by the device.   *)
(***************************************************************************)
EXTENDS UsbSession, SequenceTheorems, TLAPS

Cell == [by : {"app", "input"}, part : {"header", "payload"},
         type : {"config", "stop", "set_input", "model", "image"}, image : 0..MaxImages]

Transfer == [part : {"header", "result"}, image : 1..MaxImages, embedded : BOOLEAN]

\* What each thread of the host can have on the pipe.
CellsKept ==
  /\ \A k \in DOMAIN out :
       IF out[k].by = "app"
       THEN \/ app.pc = "config" /\ out[k].part = "header" /\ out[k].type = "config"
            \/ app.pc = "model" /\ out[k].part = "payload" /\ out[k].type = "model"
            \/ app.pc = "stopping" /\ out[k].part = "header" /\ out[k].type = "stop"
       ELSE \/ /\ inp.pc = "header" /\ out[k].part = "header" /\ out[k].type = "set_input"
               /\ out[k].image = inp.image
            \/ inp.pc = "pixels" /\ out[k].part = "payload" /\ out[k].type = "image"
  /\ inp.pc # "idle" => inp.image > 0
  /\ \A j, k \in DOMAIN out :
       out[j].type = "set_input" /\ out[k].type = "set_input" => j = k

\* What the device is about.
DeviceKept ==
  /\ dev.pc \in {"pixels", "result", "answered"} => dev.buf.image > 0
  /\ dev.buf.type = "set_input" => dev.buf.image > 0
  /\ dev.pc = "result" => dev.buf.type = "set_output"
  /\ dev.need > 0 => dev.pc \in {"model", "pixels"}

\* The two pipes and the message thread, after which send of the device.
InKept ==
  /\ in \in Seq(Transfer)
  /\ in # <<>> => dev.pc \in {"result", "answered"}
  /\ in # <<>> /\ dev.pc = "result" => in[1].part = "header" /\ ~in[1].embedded

\* No cause to blame so far.
Clean == ~overlap /\ ~early /\ ~refused /\ cut = 0 /\ faults = 0

\* What the device reads as a payload is that payload, or the thread that announced it
\* has still to send it.
PayloadFirst ==
  /\ dev.pc = "model" =>
       \/ app.pc = "config" /\ inp.pc # "header" /\ out = <<>> /\ dev.need = ModelCells
       \/ dev.need <= Len(out) /\ \A k \in 1..dev.need : out[k].type = "model"
  /\ dev.pc = "pixels" =>
       \/ /\ inp.pc = "header" /\ app.pc # "config" /\ out = <<>> /\ dev.need = ImageCells
          /\ inp.image = dev.buf.image
       \/ /\ dev.need <= Len(out)
          /\ \A k \in 1..dev.need : out[k].type = "image" /\ out[k].image = dev.buf.image

\* Behind it come headers; one that announces a payload is the last.
HeadersBehind ==
  \A k \in DOMAIN out :
    k > dev.need => /\ out[k].part = "header"
                    /\ out[k].type # "stop" => k = Len(out)

\* Between its transfers a thread knows where its header is.
Announced ==
  /\ app.pc = "config" =>
       \/ out # <<>> /\ out[Len(out)].type = "config"
       \/ dev.pc = "model" /\ dev.need = ModelCells /\ out = <<>>
  /\ inp.pc = "header" =>
       \/ out # <<>> /\ out[Len(out)].type = "set_input"
       \/ dev.pc = "pixels" /\ dev.need = ImageCells /\ out = <<>> /\ inp.image = dev.buf.image

InStep == Clean => ~lost /\ PayloadFirst /\ HeadersBehind /\ Announced

\* The message thread and the device's answer.
HostInStep ==
  failed = 0 /\ missed = 0 =>
    /\ ~hostLost
    /\ in # <<>> => in[1].part = host.awaits
    /\ in = <<>> => (dev.pc = "result" <=> host.awaits = "result")
    /\ in # <<>> => (dev.pc = "result" <=> in[1].part = "header" /\ ~in[1].embedded)

\* An input header is still to be read.
Pending == \E k \in DOMAIN out : out[k].type = "set_input"

\* Image i is later than all results so far.
New(i) ==
  /\ \A j \in DOMAIN got : got[j] < i
  /\ i <= inp.image /\ (Pending => i < inp.image)

\* Results arrived, on the way and in the making are in the order of their images.
Ordered ==
  faults = 0 /\ ~lost =>
    /\ \A j, k \in DOMAIN got : j < k => got[j] < got[k]
    /\ \A j \in DOMAIN got : got[j] <= inp.image /\ (Pending => got[j] < inp.image)
    /\ dev.pc \in {"pixels", "result"} => New(dev.buf.image)
    /\ in # <<>> /\ (in[1].part = "result" \/ in[1].embedded) => New(in[1].image)

IInv == TypeOK /\ CellsKept /\ DeviceKept /\ InKept /\ InStep /\ HostInStep /\ Ordered

USE LengthAssumption, BoundAssumption
-----------------------------------------------------------------------------
(* The pipe                                                                *)

LEMMA WrittenCells ==
  ASSUME NEW S, NEW q \in Seq(S), NEW c \in Seq(S)
  PROVE  /\ q \o c \in Seq(S) /\ Len(q \o c) = Len(q) + Len(c)
         /\ DOMAIN (q \o c) = 1..(Len(q) + Len(c))
         /\ \A k \in 1..Len(q) : (q \o c)[k] = q[k]
         /\ \A k \in DOMAIN (q \o c) :
              k > Len(q) => k - Len(q) \in 1..Len(c) /\ (q \o c)[k] = c[k - Len(q)]
<1>1. Len(q) \in Nat /\ Len(c) \in Nat
  OBVIOUS
<1>2. /\ q \o c \in Seq(S) /\ Len(q \o c) = Len(q) + Len(c)
      /\ \A i \in 1..(Len(q) + Len(c)) : (q \o c)[i] = IF i <= Len(q) THEN q[i] ELSE c[i - Len(q)]
  BY ConcatProperties
<1>3. DOMAIN (q \o c) = 1..(Len(q) + Len(c))
  BY <1>2
<1>4. QED
  BY <1>1, <1>2, <1>3

LEMMA ReadCell ==
  ASSUME NEW S, NEW q \in Seq(S), q # <<>>
  PROVE  /\ Head(q) = q[1] /\ q[1] \in S /\ Len(q) \in Nat /\ Len(q) >= 1
         /\ Tail(q) \in Seq(S) /\ Len(Tail(q)) = Len(q) - 1
         /\ DOMAIN q = 1..Len(q) /\ DOMAIN Tail(q) = 1..(Len(q) - 1)
         /\ \A k \in 1..(Len(q) - 1) : Tail(q)[k] = q[k + 1]
         /\ Len(q) = 1 => Tail(q) = <<>>
<1>1. /\ q[1] \in S /\ Len(q) \in Nat /\ Len(q) >= 1 /\ Head(q) = q[1]
      /\ Tail(q) \in Seq(S) /\ Len(Tail(q)) = Len(q) - 1
  BY HeadTailProperties
<1>2. DOMAIN q = 1..Len(q) /\ DOMAIN Tail(q) = 1..(Len(q) - 1)
  BY <1>1
<1>3. Len(q) = 1 => Tail(q) = <<>>
  <2>1. Len(q) = 1 => Len(Tail(q)) = 0
    BY <1>1
  <2>2. QED
    BY <1>1, <2>1, EmptySeq
<1>4. QED
  BY <1>1, <1>2, <1>3, HeadTailProperties

\* What a transfer puts behind what is on the pipe.
Adds(by, part, type, image, n) ==
  /\ out' \in Seq(Cell) /\ Len(out') = Len(out) + n /\ DOMAIN out' = 1..(Len(out) + n)
  /\ \A k \in 1..Len(out) : out'[k] = out[k]
  /\ \A k \in 1..(Len(out) + n) :
       k > Len(out) => out'[k] = [by |-> by, part |-> part, type |-> type, image |-> image]

Takes ==
  /\ out # <<>> /\ Head(out) = out[1] /\ out[1] \in Cell /\ Len(out) >= 1
  /\ out' \in Seq(Cell) /\ Len(out') = Len(out) - 1 /\ DOMAIN out' = 1..(Len(out) - 1)
  /\ \A k \in 1..(Len(out) - 1) : out'[k] = out[k + 1]
  /\ Len(out) = 1 => out' = <<>>

LEMMA OutType ==
  ASSUME TypeOK
  PROVE  out \in Seq(Cell) /\ Len(out) \in Nat /\ DOMAIN out = 1..Len(out)
<1>1. out \in Seq(Cell)
  BY DEF TypeOK, Cell
<1>2. QED
  BY <1>1

\* A header is one cell, a payload as many as it is long.
LEMMA AddsCells ==
  ASSUME TypeOK, NEW c \in Seq(Cell), out' = out \o c
  PROVE  /\ out' \in Seq(Cell) /\ Len(out') = Len(out) + Len(c)
         /\ DOMAIN out' = 1..(Len(out) + Len(c))
         /\ \A k \in 1..Len(out) : out'[k] = out[k]
         /\ \A k \in 1..(Len(out) + Len(c)) :
              k > Len(out) => k - Len(out) \in 1..Len(c) /\ out'[k] = c[k - Len(out)]
BY OutType, WrittenCells

LEMMA AddsHeader ==
  ASSUME TypeOK, NEW by \in {"app", "input"}, NEW type \in {"config", "stop", "set_input"}
  PROVE  \A image \in 0..MaxImages :
           out' = out \o Header(by, type, image) => Adds(by, "header", type, image, 1)
<1> SUFFICES ASSUME NEW image \in 0..MaxImages, out' = out \o Header(by, type, image)
             PROVE  Adds(by, "header", type, image, 1)
  OBVIOUS
<1> DEFINE cell == [by |-> by, part |-> "header", type |-> type, image |-> image]
           c == Header(by, type, image)
<1>1. c \in Seq(Cell) /\ Len(c) = 1 /\ \A k \in 1..1 : c[k] = cell
  BY DEF Header, Cell
<1> HIDE DEF c, cell
<1>2. out' = out \o c
  BY DEF c
<1>3. /\ out' \in Seq(Cell) /\ Len(out') = Len(out) + 1 /\ DOMAIN out' = 1..(Len(out) + 1)
      /\ \A k \in 1..Len(out) : out'[k] = out[k]
      /\ \A k \in 1..(Len(out) + 1) : k > Len(out) => out'[k] = cell
  BY <1>1, <1>2, AddsCells
<1>4. QED
  BY <1>3 DEF Adds, cell

LEMMA AddsPayload ==
  ASSUME TypeOK, NEW by \in {"app", "input"}, NEW type \in {"model", "image"}, NEW n \in Nat
  PROVE  \A image \in 0..MaxImages :
           out' = out \o Payload(by, type, image, n) => Adds(by, "payload", type, image, n)
<1> SUFFICES ASSUME NEW image \in 0..MaxImages, out' = out \o Payload(by, type, image, n)
             PROVE  Adds(by, "payload", type, image, n)
  OBVIOUS
<1> DEFINE cell == [by |-> by, part |-> "payload", type |-> type, image |-> image]
           c == Payload(by, type, image, n)
<1>1. c \in Seq(Cell) /\ Len(c) = n /\ \A k \in 1..n : c[k] = cell
  BY DEF Payload, Cell
<1> HIDE DEF c, cell
<1>2. out' = out \o c
  BY DEF c
<1>3. /\ out' \in Seq(Cell) /\ Len(out') = Len(out) + n /\ DOMAIN out' = 1..(Len(out) + n)
      /\ \A k \in 1..Len(out) : out'[k] = out[k]
      /\ \A k \in 1..(Len(out) + n) : k > Len(out) => out'[k] = cell
  BY <1>1, <1>2, AddsCells
<1>4. QED
  BY <1>3 DEF Adds, cell

\* Only three types are headers.
LEMMA HeaderTypes ==
  ASSUME CellsKept
  PROVE  \A k \in DOMAIN out :
           out[k].part = "header" <=> out[k].type \in {"config", "stop", "set_input"}
BY DEF CellsKept

LEMMA TakesHead ==
  ASSUME TypeOK, out # <<>>, out' = Tail(out)
  PROVE  Takes
BY OutType, ReadCell DEF Takes


-----------------------------------------------------------------------------
(* The types                                                               *)

Needs == 0..(ModelCells + ImageCells)

Devices == [pc : {"header", "model", "pixels", "result", "answered", "left"},
            mode : {"unknown", "computation", "standard"},
            buf : [type : {"none", "config", "stop", "set_input", "set_output"},
                   image : 0..MaxImages],
            need : Needs]

Apps == [pc : {"idle", "config", "model", "up", "stopping"}, starts : 0..MaxStarts]

Inputs == [pc : {"idle", "header", "pixels"}, image : 0..MaxImages]

\* A step of the host's application or input thread.
LEMMA HostType ==
  ASSUME TypeOK, UNCHANGED <<hostMode, fits, dev, in, host, got, faults, failed, missed>>,
         out' \in Seq(Cell), app' \in Apps, inp' \in Inputs, cut' \in 0..MaxFaults
  PROVE  TypeOK'
BY ZenonT(60) DEF TypeOK, Cell, Apps, Inputs

\* A step of the device alone.
LEMMA DeviceType ==
  ASSUME TypeOK, UNCHANGED <<hostVars, host, got>>, out' \in Seq(Cell), dev' \in Devices,
         Len(in') <= 1, {faults', failed', cut', missed'} \subseteq 0..MaxFaults
  PROVE  TypeOK'
BY DEF TypeOK, Cell, Devices, Needs, hostVars

LEMMA DispatchType ==
  ASSUME dev \in Devices
  PROVE  \A buf \in [type : {"none", "config", "stop", "set_input", "set_output"},
                     image : 0..MaxImages] : Dispatch(buf) => dev' \in Devices
<1>1. ModelCells \in Needs /\ ImageCells \in Needs
  BY DEF Needs
<1>2. SUFFICES ASSUME NEW buf \in [type : {"none", "config", "stop", "set_input", "set_output"},
                                  image : 0..MaxImages],
                      Dispatch(buf)
               PROVE  dev' \in Devices
  OBVIOUS
<1>3. \/ dev' = [dev EXCEPT !.pc = "model", !.buf = buf, !.need = ModelCells]
      \/ dev' = [dev EXCEPT !.pc = "pixels", !.buf = buf, !.need = ImageCells]
      \/ dev' = [dev EXCEPT !.buf = buf]
  BY <1>2 DEF Dispatch
<1>4. CASE dev' = [dev EXCEPT !.pc = "model", !.buf = buf, !.need = ModelCells]
  BY <1>1, <1>4 DEF Devices
<1>5. CASE dev' = [dev EXCEPT !.pc = "pixels", !.buf = buf, !.need = ImageCells]
  BY <1>1, <1>5 DEF Devices
<1>6. CASE dev' = [dev EXCEPT !.buf = buf]
  BY <1>6 DEF Devices
<1>7. QED
  BY <1>3, <1>4, <1>5, <1>6

LEMMA StepType ==
  ASSUME TypeOK, CellsKept, DeviceKept, InKept, [Next]_vars
  PROVE  TypeOK'
<1> USE DEF hostVars, causes
<1>0. /\ TypeOK /\ app \in Apps /\ inp \in Inputs
      /\ out \in Seq(Cell) /\ got \in Seq(1..MaxImages) /\ faults \in 0..MaxFaults
      /\ failed \in 0..MaxFaults /\ cut \in 0..MaxFaults /\ missed \in 0..MaxFaults
      /\ MaxImages \in Nat /\ MaxStarts \in Nat /\ MaxFaults \in Nat /\ 0 \in 0..MaxImages
      /\ dev \in Devices /\ Len(in) <= 1
      /\ {faults, failed, cut, missed} \subseteq 0..MaxFaults
      /\ 0 \in Needs /\ (dev.need > 0 => dev.need - 1 \in Needs)
      /\ hostMode \in {"computation", "standard"} /\ fits \in [model : BOOLEAN, image : BOOLEAN]
  BY SMTT(40) DEF TypeOK, Cell, Devices, Needs, Apps, Inputs
<1>1. CASE Start
  <2>1. out' \in Seq(Cell)
    <3>1. Adds("app", "header", "config", 0, 1)
      BY <1>0, <1>1, AddsHeader DEF Start, Submit
    <3>2. QED
      BY <3>1 DEF Adds
  <2>2. app' \in Apps /\ inp' \in Inputs
    BY <1>0, <1>1 DEF Start, Apps, Inputs
  <2>3. UNCHANGED <<hostMode, fits, dev, in, host, got, faults, failed, cut, missed>>
    BY <1>1 DEF Start, Submit
  <2>4. QED
    BY <1>0, <2>1, <2>2, <2>3, HostType
<1>2. CASE SendModel
  <2>1. out' \in Seq(Cell)
    <3>1. Adds("app", "payload", "model", 0, ModelCells)
      BY <1>0, <1>2, AddsPayload DEF SendModel, Submit
    <3>2. QED
      BY <3>1 DEF Adds
  <2>2. app' \in Apps /\ inp' \in Inputs
    BY <1>0, <1>2 DEF SendModel, Apps, Inputs
  <2>3. UNCHANGED <<hostMode, fits, dev, in, host, got, faults, failed, cut, missed>>
    BY <1>2 DEF SendModel, Submit
  <2>4. QED
    BY <1>0, <2>1, <2>2, <2>3, HostType
<1>3. CASE StartReturns
  <2>1. out' \in Seq(Cell)
    BY <1>0, <1>3 DEF StartReturns
  <2>2. app' \in Apps /\ inp' \in Inputs
    BY <1>0, <1>3 DEF StartReturns, Apps, Inputs
  <2>3. UNCHANGED <<hostMode, fits, dev, in, host, got, faults, failed, cut, missed>>
    BY <1>3 DEF StartReturns
  <2>4. QED
    BY <1>0, <2>1, <2>2, <2>3, HostType
<1>4. CASE Stop
  <2>1. out' \in Seq(Cell)
    <3>1. out' = out \/ out' = out \o Header("app", "stop", 0)
      BY <1>4 DEF Stop, Submit
    <3>2. out' = out \o Header("app", "stop", 0) => Adds("app", "header", "stop", 0, 1)
      BY <1>0, AddsHeader
    <3>3. QED
      BY <1>0, <3>1, <3>2 DEF Adds
  <2>2. app' \in Apps /\ inp' \in Inputs
    BY <1>0, <1>4 DEF Stop, Apps, Inputs
  <2>3. UNCHANGED <<hostMode, fits, dev, in, host, got, faults, failed, cut, missed>>
    BY <1>4 DEF Stop, Submit
  <2>4. QED
    BY <1>0, <2>1, <2>2, <2>3, HostType
<1>5. CASE StopReturns
  <2>1. out' \in Seq(Cell)
    BY <1>0, <1>5 DEF StopReturns
  <2>2. app' \in Apps /\ inp' \in Inputs
    BY <1>0, <1>5 DEF StopReturns, Apps, Inputs
  <2>3. UNCHANGED <<hostMode, fits, dev, in, host, got, faults, failed, cut, missed>>
    BY <1>5 DEF StopReturns
  <2>4. QED
    BY <1>0, <2>1, <2>2, <2>3, HostType
<1>6. CASE SendInputHeader
  <2>0. inp.image + 1 \in 0..MaxImages
    BY <1>0, <1>6 DEF SendInputHeader, Inputs
  <2>1. out' \in Seq(Cell)
    <3>1. Adds("input", "header", "set_input", inp.image + 1, 1)
      BY <1>0, <2>0, <1>6, AddsHeader DEF SendInputHeader, Submit
    <3>2. QED
      BY <3>1 DEF Adds
  <2>2. app' \in Apps /\ inp' \in Inputs
    BY <1>0, <2>0, <1>6 DEF SendInputHeader, Apps, Inputs
  <2>3. UNCHANGED <<hostMode, fits, dev, in, host, got, faults, failed, cut, missed>>
    BY <1>6 DEF SendInputHeader, Submit
  <2>4. QED
    BY <1>0, <2>1, <2>2, <2>3, HostType
<1>7. CASE SendPixels
  <2>1. out' \in Seq(Cell)
    <3>1. Adds("input", "payload", "image", inp.image, ImageCells)
      BY <1>0, <1>7, AddsPayload DEF SendPixels, Submit, Inputs
    <3>2. QED
      BY <3>1 DEF Adds
  <2>2. app' \in Apps /\ inp' \in Inputs
    BY <1>0, <1>7 DEF SendPixels, Apps, Inputs
  <2>3. UNCHANGED <<hostMode, fits, dev, in, host, got, faults, failed, cut, missed>>
    BY <1>7 DEF SendPixels, Submit
  <2>4. QED
    BY <1>0, <2>1, <2>2, <2>3, HostType
<1>8. CASE InputDone
  <2>1. out' \in Seq(Cell)
    BY <1>0, <1>8 DEF InputDone
  <2>2. app' \in Apps /\ inp' \in Inputs
    BY <1>0, <1>8 DEF InputDone, Apps, Inputs
  <2>3. UNCHANGED <<hostMode, fits, dev, in, host, got, faults, failed, cut, missed>>
    BY <1>8 DEF InputDone
  <2>4. QED
    BY <1>0, <2>1, <2>2, <2>3, HostType
<1>9. CASE PayloadNotSent
  <2>1. app' \in Apps /\ inp' \in Inputs
    BY <1>0, <1>9 DEF PayloadNotSent, Apps, Inputs
  <2>2. UNCHANGED <<hostMode, fits, out, dev, in, host, got, faults, failed, missed>>
    BY <1>9 DEF PayloadNotSent
  <2>3. cut' \in 0..MaxFaults
    BY <1>0, <1>9 DEF PayloadNotSent
  <2>4. QED
    BY <1>0, <2>1, <2>2, <2>3, HostType
<1>10. CASE ReadHeader
  <2>1. Takes
    BY <1>0, <1>10, TakesHead DEF ReadHeader
  <2>2. NoBuffer \in [type : {"none", "config", "stop", "set_input", "set_output"},
                     image : 0..MaxImages]
    BY <1>0 DEF NoBuffer
  <2>3. Head(out).part = "header" =>
          [type |-> Head(out).type, image |-> Head(out).image]
            \in [type : {"none", "config", "stop", "set_input", "set_output"}, image : 0..MaxImages]
    <3>1. 1 \in DOMAIN out
      BY <1>0, <2>1 DEF Takes
    <3>2. out[1].part = "header" => out[1].type \in {"config", "stop", "set_input"}
      BY <3>1, HeaderTypes
    <3>3. QED
      BY <2>1, <3>2 DEF Takes, Cell
  <2>4. dev' \in Devices
    BY <1>0, <1>10, <2>2, <2>3, DispatchType DEF ReadHeader
  <2>5. UNCHANGED <<hostVars, host, got, in, faults, failed, cut, missed>> /\ out' \in Seq(Cell)
    BY <1>10, <2>1 DEF ReadHeader, Takes
  <2>6. QED
    BY <1>0, <2>4, <2>5, DeviceType
<1>11. CASE HeaderFails
  <2>1. dev.buf \in [type : {"none", "config", "stop", "set_input", "set_output"},
                    image : 0..MaxImages]
    BY <1>0 DEF Devices
  <2>2. dev' \in Devices
    BY <1>0, <1>11, <2>1, DispatchType DEF HeaderFails
  <2>3. UNCHANGED <<hostVars, host, got, in, out, failed, cut, missed>> /\ faults' \in 0..MaxFaults
    BY <1>0, <1>11 DEF HeaderFails
  <2>4. QED
    BY <1>0, <2>2, <2>3, DeviceType
<1>12. CASE ReadModel
  <2>1. Takes
    BY <1>0, <1>12, TakesHead DEF ReadModel
  <2>2. dev' \in Devices
    BY <1>0, <1>12 DEF ReadModel, Devices
  <2>3. UNCHANGED <<hostVars, host, got, in, faults, failed, cut, missed>> /\ out' \in Seq(Cell)
    BY <1>12, <2>1 DEF ReadModel, Takes
  <2>4. QED
    BY <1>0, <2>2, <2>3, DeviceType
<1>13. CASE Configure
  <2>1. dev' \in Devices
    BY <1>0, <1>13 DEF Configure, Devices
  <2>2. UNCHANGED <<hostVars, host, got, in, out, faults, failed, cut, missed>>
    BY <1>0, <1>13 DEF Configure
  <2>3. QED
    BY <1>0, <2>1, <2>2, DeviceType
<1>14. CASE ReadPixels
  <2>1. Takes
    BY <1>0, <1>14, TakesHead DEF ReadPixels
  <2>2. dev' \in Devices
    BY <1>0, <1>14 DEF ReadPixels, Devices
  <2>3. UNCHANGED <<hostVars, host, got, in, faults, failed, cut, missed>> /\ out' \in Seq(Cell)
    BY <1>14, <2>1 DEF ReadPixels, Takes
  <2>4. QED
    BY <1>0, <2>2, <2>3, DeviceType
<1>15. CASE PayloadFails
  <2>1. dev' \in Devices
    BY <1>0, <1>15 DEF PayloadFails, Devices
  <2>2. UNCHANGED <<hostVars, host, got, in, out, failed, cut, missed>> /\ faults' \in 0..MaxFaults
    BY <1>0, <1>15 DEF PayloadFails
  <2>3. QED
    BY <1>0, <2>1, <2>2, DeviceType
<1>16. CASE Reply
  <2>0. \/ dev' = [dev EXCEPT !.pc = "answered", !.buf.type = "set_output"]
        \/ dev' = [dev EXCEPT !.pc = "result", !.buf.type = "set_output"]
    BY <1>16 DEF Reply
  <2>1. dev' \in Devices
    <3>1. CASE dev' = [dev EXCEPT !.pc = "answered", !.buf.type = "set_output"]
      BY <1>0, <3>1 DEF Devices
    <3>2. CASE dev' = [dev EXCEPT !.pc = "result", !.buf.type = "set_output"]
      BY <1>0, <3>2 DEF Devices
    <3>3. QED
      BY <2>0, <3>1, <3>2
  <2>2. in = <<>>
    BY <1>16 DEF Reply, InKept
  <2>3. UNCHANGED <<hostVars, host, got, out, faults, failed, cut, missed>> /\ Len(in') <= 1
    BY <1>0, <1>16, <2>2 DEF Reply
  <2>4. QED
    BY <1>0, <2>1, <2>3, DeviceType
<1>17. CASE SendResult
  <2>1. dev' \in Devices
    BY <1>0, <1>17 DEF SendResult, Devices
  <2>2. UNCHANGED <<hostVars, host, got, out, faults, failed, cut, missed>> /\ Len(in') <= 1
    BY <1>0, <1>17 DEF SendResult
  <2>3. QED
    BY <1>0, <2>1, <2>2, DeviceType
<1>18. CASE Answered
  <2>1. dev' \in Devices
    BY <1>0, <1>18 DEF Answered, Devices
  <2>2. UNCHANGED <<hostVars, host, got, in, out, faults, failed, cut, missed>>
    BY <1>0, <1>18 DEF Answered
  <2>3. QED
    BY <1>0, <2>1, <2>2, DeviceType
<1>19. CASE SendFails
  <2>1. dev' \in Devices
    BY <1>0, <1>19 DEF SendFails, Devices
  <2>2. UNCHANGED <<hostVars, host, got, in, out, faults, cut, missed>> /\ failed' \in 0..MaxFaults
    BY SMTT(30), <1>0, <1>19 DEF SendFails
  <2>3. QED
    BY <1>0, <2>1, <2>2, DeviceType
<1>20. CASE HostReceive
  <2>1. /\ Head(in) \in Transfer
        /\ Len(in') <= 1
    <3>1. in # <<>> /\ in' = Tail(in)
      BY <1>20 DEF HostReceive
    <3>2. QED
      BY <1>0, <3>1, ReadCell DEF InKept
  <2>2. host' \in [awaits : {"header", "result"}, image : 0..MaxImages]
    <3>1. Head(in).image \in 1..MaxImages /\ Head(in).image \in 0..MaxImages
      BY <1>0, <2>1 DEF Transfer
    <3>2. QED
      BY <1>0, <1>20, <3>1 DEF HostReceive
  <2>3. got' \in Seq(1..MaxImages)
    <3>1. got' = got \/ got' = Append(got, Head(in).image)
      BY <1>20 DEF HostReceive
    <3>2. Head(in).image \in 1..MaxImages
      BY <2>1 DEF Transfer
    <3>3. ASSUME NEW x \in 1..MaxImages PROVE Append(got, x) \in Seq(1..MaxImages)
      <4>1. got \in Seq(1..MaxImages)
        BY <1>0
      <4>2. QED
        BY <4>1, AppendProperties
    <3>4. QED
      BY <1>0, <3>1, <3>2, <3>3
  <2>4. UNCHANGED <<hostVars, out, dev, faults, failed, cut, missed>>
    BY <1>20 DEF HostReceive
  <2>5. QED
    BY <1>0, <2>1, <2>2, <2>3, <2>4 DEF TypeOK
<1>21. CASE HostFails
  <2>1. host' \in [awaits : {"header", "result"}, image : 0..MaxImages] /\ Len(in') <= 1
    BY <1>0, <1>21 DEF HostFails
  <2>2. UNCHANGED <<hostVars, out, dev, got, faults, failed, cut>> /\ missed' \in 0..MaxFaults
    BY <1>0, <1>21 DEF HostFails
  <2>3. QED
    BY <1>0, <2>1, <2>2 DEF TypeOK
<1>22. CASE UNCHANGED vars
  BY <1>0, <1>22, HostType DEF vars
<1>23. QED
  BY <1>1, <1>2, <1>3, <1>4, <1>5, <1>6, <1>7, <1>8, <1>9, <1>10, <1>11, <1>12, <1>13,
     <1>14, <1>15, <1>16, <1>17, <1>18, <1>19, <1>20, <1>21, <1>22 DEF Next, AppStep,
     InputStep, DeviceStep, Fault

-----------------------------------------------------------------------------
(* Steps of the same kind                                                  *)

\* The application's thread starts a transfer.
AppWrites(pc, next, part, type, n) ==
  /\ app.pc = pc /\ app'.pc = next /\ inp' = inp
  /\ Adds("app", part, type, 0, n)
  /\ overlap' = (overlap \/ inp.pc = "header")
  /\ UNCHANGED <<dev, in, host, got, lost, hostLost, early, faults, failed, cut, refused, missed>>

\* The input thread does.
InputWrites(pc, next, image, part, type, n) ==
  /\ inp.pc = pc /\ inp'.pc = next /\ inp'.image = image /\ image > 0 /\ app' = app
  /\ Adds("input", part, type, image, n)
  /\ overlap' = (overlap \/ app.pc = "config")
  /\ UNCHANGED <<dev, in, host, got, lost, hostLost, early, faults, failed, cut, refused, missed>>

\* A call of the host ends.
CallEnds ==
  /\ UNCHANGED <<out, dev, in, host, got, lost, hostLost>>
  /\ UNCHANGED <<overlap, early, faults, failed, refused, missed>>
  /\ \/ /\ inp' = inp
        /\ \/ app.pc \in {"model", "stopping"} /\ Sent("app") /\ cut' = cut
           \/ app.pc = "up" /\ cut' = cut
           \/ app.pc = "config" /\ Sent("app") /\ cut' = cut + 1
        /\ app'.pc \in {"idle", "up"}
     \/ /\ app' = app /\ Sent("input")
        /\ \/ inp.pc = "pixels" /\ cut' = cut
           \/ inp.pc = "header" /\ cut' = cut + 1
        /\ inp'.pc = "idle" /\ inp'.image = inp.image

\* The device does something else than read the OUT pipe.
DeviceOwn ==
  /\ UNCHANGED <<hostVars, out, lost, overlap, cut, missed>>
  /\ HeaderFails \/ Configure \/ PayloadFails \/ Reply \/ SendResult \/ Answered \/ SendFails

Moves ==
  \/ AppWrites("idle", "config", "header", "config", 1)
  \/ Sent("app") /\ AppWrites("config", "model", "payload", "model", ModelCells)
  \/ AppWrites("up", "stopping", "header", "stop", 1)
  \/ InputWrites("idle", "header", inp.image + 1, "header", "set_input", 1)
  \/ Sent("input") /\ InputWrites("header", "pixels", inp.image, "payload", "image", ImageCells)
  \/ CallEnds
  \/ ReadHeader \/ ReadModel \/ ReadPixels
  \/ DeviceOwn \/ HostReceive \/ HostFails
  \/ UNCHANGED vars

LEMMA NextMoves ==
  ASSUME IInv, [Next]_vars
  PROVE  Moves
<1> USE DEF Moves
<1>0. /\ TypeOK /\ CellsKept /\ 0 \in 0..MaxImages /\ inp.image \in 0..MaxImages
      /\ app \in [pc : {"idle", "config", "model", "up", "stopping"}, starts : 0..MaxStarts]
      /\ inp \in [pc : {"idle", "header", "pixels"}, image : 0..MaxImages]
      /\ MaxImages \in Nat /\ inp.image \in Nat
  BY DEF IInv, TypeOK
<1>1. Start => AppWrites("idle", "config", "header", "config", 1)
  <2>1. Start => Adds("app", "header", "config", 0, 1)
    BY <1>0, AddsHeader DEF Start, Submit
  <2>2. QED
    BY <2>1 DEF Start, Submit, InputMidFrame, AppWrites
<1>2. SendModel => Sent("app") /\ AppWrites("config", "model", "payload", "model", ModelCells)
  BY <1>0, AddsPayload DEF SendModel, Submit, InputMidFrame, AppWrites
<1>3. Stop => AppWrites("up", "stopping", "header", "stop", 1) \/ CallEnds
  <2>1. CASE hostMode = "standard"
    BY <1>0, <2>1 DEF Stop, CallEnds, causes
  <2>2. CASE hostMode = "computation"
    BY <1>0, <2>2, AddsHeader DEF Stop, Submit, InputMidFrame, AppWrites
  <2>3. QED
    BY <2>1, <2>2 DEF Stop
<1>4. SendInputHeader => InputWrites("idle", "header", inp.image + 1, "header", "set_input", 1)
  <2>1. SUFFICES ASSUME SendInputHeader
                 PROVE InputWrites("idle", "header", inp.image + 1, "header", "set_input", 1)
    OBVIOUS
  <2>2. inp.image + 1 \in 0..MaxImages /\ inp.image + 1 > 0
    BY <1>0, <2>1 DEF SendInputHeader
  <2>3. Adds("input", "header", "set_input", inp.image + 1, 1)
    BY <1>0, <2>1, <2>2, AddsHeader DEF SendInputHeader, Submit
  <2>4. QED
    BY <2>1, <2>2, <2>3 DEF SendInputHeader, Submit, AppMidFrame, InputWrites
<1>5. SendPixels =>
        Sent("input") /\ InputWrites("header", "pixels", inp.image, "payload", "image", ImageCells)
  <2>1. SUFFICES ASSUME SendPixels
                 PROVE Sent("input")
                         /\ InputWrites("header", "pixels", inp.image, "payload", "image", ImageCells)
    OBVIOUS
  <2>2. inp.image > 0
    BY <1>0, <2>1 DEF SendPixels, CellsKept
  <2>3. Adds("input", "payload", "image", inp.image, ImageCells)
    BY <1>0, <2>1, AddsPayload DEF SendPixels, Submit
  <2>4. inp' = [inp EXCEPT !.pc = "pixels"] /\ inp'.pc = "pixels" /\ inp'.image = inp.image
    BY <1>0, <2>1 DEF SendPixels
  <2>5. QED
    BY <2>1, <2>2, <2>3, <2>4 DEF SendPixels, Submit, AppMidFrame, InputWrites
<1>6. StartReturns \/ StopReturns \/ InputDone => CallEnds
  BY <1>0 DEF StartReturns, StopReturns, InputDone, CallEnds, causes
<1>7. PayloadNotSent => CallEnds
  BY <1>0 DEF PayloadNotSent, CallEnds
<1>8. HeaderFails \/ Configure \/ PayloadFails \/ Reply \/ SendResult \/ Answered \/ SendFails
        => DeviceOwn
  BY DEF HeaderFails, Configure, PayloadFails, Reply, SendResult, Answered, SendFails,
         DeviceOwn, hostVars, causes
<1>9. QED
  BY <1>1, <1>2, <1>3, <1>4, <1>5, <1>6, <1>7, <1>8
     DEF Next, AppStep, InputStep, DeviceStep, Fault

-----------------------------------------------------------------------------
(* One lemma for each part of the invariant                                *)

\* CellsKept, one cell at a time.
LEMMA CellsBy ==
  ASSUME DOMAIN out' \subseteq Nat,
         \A k \in DOMAIN out' :
           \/ /\ out'[k].by = "app"
              /\ \/ app'.pc = "config" /\ out'[k].part = "header" /\ out'[k].type = "config"
                 \/ app'.pc = "model" /\ out'[k].part = "payload" /\ out'[k].type = "model"
                 \/ app'.pc = "stopping" /\ out'[k].part = "header" /\ out'[k].type = "stop"
           \/ /\ out'[k].by = "input"
              /\ \/ /\ inp'.pc = "header" /\ out'[k].part = "header" /\ out'[k].type = "set_input"
                    /\ out'[k].image = inp'.image
                 \/ inp'.pc = "pixels" /\ out'[k].part = "payload" /\ out'[k].type = "image",
         inp'.pc # "idle" => inp'.image > 0,
         \A j, k \in DOMAIN out' :
           out'[j].type = "set_input" /\ out'[k].type = "set_input" => j = k
  PROVE  CellsKept'
BY DEF CellsKept

LEMMA CellsStep ==
  ASSUME IInv, [Next]_vars
  PROVE  CellsKept'
<1>0. /\ TypeOK /\ CellsKept /\ Len(out) \in Nat /\ DOMAIN out = 1..Len(out)
      /\ \A k \in DOMAIN out : out[k].by \in {"app", "input"}
  <2>1. TypeOK /\ CellsKept
    BY DEF IInv
  <2>2. \A k \in DOMAIN out : out[k] \in Cell
    BY <2>1, OutType
  <2>3. QED
    BY <2>1, <2>2, OutType DEF Cell
<1>a. \A k \in DOMAIN out : out[k].by = "app" =>
        \/ app.pc = "config" /\ out[k].part = "header" /\ out[k].type = "config"
        \/ app.pc = "model" /\ out[k].part = "payload" /\ out[k].type = "model"
        \/ app.pc = "stopping" /\ out[k].part = "header" /\ out[k].type = "stop"
  BY <1>0 DEF CellsKept
<1>b. \A k \in DOMAIN out : out[k].by = "input" =>
        \/ /\ inp.pc = "header" /\ out[k].part = "header" /\ out[k].type = "set_input"
           /\ out[k].image = inp.image
        \/ inp.pc = "pixels" /\ out[k].part = "payload" /\ out[k].type = "image"
  BY <1>0 DEF CellsKept
<1>c. /\ inp.pc # "idle" => inp.image > 0
      /\ \A j, k \in DOMAIN out :
           out[j].type = "set_input" /\ out[k].type = "set_input" => j = k
  BY <1>0 DEF CellsKept
<1>1. ASSUME AppWrites("idle", "config", "header", "config", 1) PROVE CellsKept'
  BY <1>0, <1>1 DEF AppWrites, Adds, CellsKept
<1>2. ASSUME Sent("app"), AppWrites("config", "model", "payload", "model", ModelCells)
      PROVE CellsKept'
  <2>1. /\ app'.pc = "model" /\ inp' = inp /\ DOMAIN out' = 1..(Len(out) + ModelCells)
        /\ \A k \in 1..Len(out) : out'[k] = out[k] /\ out[k].by = "input"
        /\ \A k \in 1..(Len(out) + ModelCells) : k > Len(out) =>
             out'[k].by = "app" /\ out'[k].part = "payload" /\ out'[k].type = "model"
    BY <1>0, <1>2 DEF AppWrites, Adds, Sent
  <2>2. \A k \in 1..(Len(out) + ModelCells) : k \in 1..Len(out) \/ k > Len(out)
    BY <1>0
  <2>3. QED
    BY <1>0, <1>b, <1>c, <2>1, <2>2, CellsBy
<1>3. ASSUME AppWrites("up", "stopping", "header", "stop", 1) PROVE CellsKept'
  BY SMTT(30), <1>0, <1>3 DEF AppWrites, Adds, CellsKept
<1>4. ASSUME InputWrites("idle", "header", inp.image + 1, "header", "set_input", 1) PROVE CellsKept'
  BY SMTT(30), <1>0, <1>4 DEF InputWrites, Adds, CellsKept
<1>5. ASSUME Sent("input"),
             InputWrites("header", "pixels", inp.image, "payload", "image", ImageCells)
      PROVE  CellsKept'
  <2>1. /\ inp'.pc = "pixels" /\ inp'.image > 0 /\ app' = app
             /\ DOMAIN out' = 1..(Len(out) + ImageCells)
        /\ \A k \in 1..Len(out) : out'[k] = out[k] /\ out[k].by = "app"
        /\ \A k \in 1..(Len(out) + ImageCells) : k > Len(out) =>
             out'[k].by = "input" /\ out'[k].part = "payload" /\ out'[k].type = "image"
    BY SMTT(30), <1>0, <1>5 DEF InputWrites, Adds, Sent
  <2>2. \A k \in 1..(Len(out) + ImageCells) : k \in 1..Len(out) \/ k > Len(out)
    BY <1>0
  <2>3. QED
    BY <1>0, <1>a, <1>c, <2>1, <2>2, CellsBy
<1>6. CASE CallEnds
  <2>1. CASE inp' = inp /\ \A k \in DOMAIN out : out[k].by = "input"
    BY <1>0, <1>6, <2>1, <1>b, <1>c, CellsBy DEF CallEnds
  <2>2. CASE app' = app /\ inp'.pc = "idle" /\ \A k \in DOMAIN out : out[k].by = "app"
    BY <1>0, <1>6, <2>2, <1>a, <1>c, CellsBy DEF CallEnds
  <2>3. QED
    BY <1>0, <1>6, <1>a, <2>1, <2>2 DEF CallEnds, Sent
<1>7. ASSUME Takes, UNCHANGED hostVars PROVE CellsKept'
  <2>1. /\ app' = app /\ inp' = inp /\ DOMAIN out' = 1..(Len(out) - 1)
        /\ \A k \in DOMAIN out' : k + 1 \in DOMAIN out /\ out'[k] = out[k + 1]
    BY <1>0, <1>7 DEF Takes, hostVars
  <2>2. \A j, k \in DOMAIN out' : j + 1 = k + 1 => j = k
    BY <1>0, <2>1
  <2>3. QED
    BY <1>0, <1>a, <1>b, <1>c, <2>1, <2>2, CellsBy
<1>8. CASE ReadHeader \/ ReadModel \/ ReadPixels
  BY <1>0, <1>7, <1>8, TakesHead DEF ReadHeader, ReadModel, ReadPixels
<1>9. CASE DeviceOwn \/ HostReceive \/ HostFails \/ UNCHANGED vars
  BY <1>0, <1>9 DEF DeviceOwn, HostReceive, HostFails, vars, hostVars, CellsKept
<1>10. QED
  BY <1>1, <1>2, <1>3, <1>4, <1>5, <1>6, <1>8, <1>9, NextMoves DEF Moves

LEMMA DeviceKeptStep ==
  ASSUME IInv, [Next]_vars
  PROVE  DeviceKept'
<1>0. /\ TypeOK /\ CellsKept /\ DeviceKept /\ dev \in Devices /\ Len(out) \in Nat
      /\ DOMAIN out = 1..Len(out) /\ dev.need \in Nat /\ inp.image \in Nat
  BY OutType DEF IInv, TypeOK, Devices, Needs
<1>1. CASE UNCHANGED dev
  BY <1>0, <1>1 DEF DeviceKept
<1>2. ASSUME NEW image \in Nat, NEW type, type = "set_input" => image > 0,
             dev.pc = "header", Dispatch([type |-> type, image |-> image])
      PROVE  DeviceKept'
  BY <1>0, <1>2 DEF Dispatch, DeviceKept, Devices
<1>3. CASE ReadHeader
  <2>1. Takes /\ dev.pc = "header" /\ 1 \in DOMAIN out
    BY <1>0, <1>3, TakesHead DEF ReadHeader, Takes
  <2>2. out[1].type = "set_input" => out[1].image > 0
    BY <1>0, <2>1 DEF CellsKept
  <2>3. out[1].image \in Nat
    BY <2>1 DEF Takes, Cell
  <2>4. QED
    BY <1>2, <1>3, <2>1, <2>2, <2>3 DEF ReadHeader, Takes, NoBuffer
<1>4. CASE HeaderFails
  <2>1. dev.buf = [type |-> dev.buf.type, image |-> dev.buf.image] /\ dev.buf.image \in Nat
    BY <1>0 DEF Devices
  <2>2. QED
    BY <1>0, <1>2, <1>4, <2>1 DEF HeaderFails, DeviceKept
<1>5. CASE ReadModel
  BY <1>0, <1>5 DEF ReadModel, DeviceKept, Devices
<1>6. CASE ReadPixels
  BY <1>0, <1>6 DEF ReadPixels, DeviceKept, Devices
<1>7. CASE Configure
  BY <1>0, <1>7 DEF Configure, DeviceKept, Devices
<1>8. CASE PayloadFails
  BY <1>0, <1>8 DEF PayloadFails, DeviceKept, Devices
<1>9. CASE Reply
  BY <1>0, <1>9 DEF Reply, DeviceKept, Devices
<1>10. CASE SendResult \/ Answered
  BY <1>0, <1>10 DEF SendResult, Answered, DeviceKept, Devices
<1>11. CASE SendFails
  BY <1>0, <1>11 DEF SendFails, DeviceKept, Devices
<1>12. QED
  BY <1>1, <1>3, <1>4, <1>5, <1>6, <1>7, <1>8, <1>9, <1>10, <1>11, NextMoves
     DEF Moves, AppWrites, InputWrites, CallEnds, DeviceOwn, HostReceive, HostFails, vars

\* A step of the device that leaves no payload to read.
LEMMA InStepOwn ==
  ASSUME InStep, DeviceKept, UNCHANGED <<app, inp, out, lost, overlap, early, refused, cut>>,
         faults' = faults,
         dev'.need = dev.need, dev.need = 0, dev'.pc \notin {"model", "pixels"}
  PROVE  InStep'
<1>1. SUFFICES ASSUME Clean, Clean', ~lost, PayloadFirst, HeadersBehind, Announced
               PROVE  PayloadFirst' /\ HeadersBehind' /\ Announced'
  BY DEF InStep, Clean
<1>2. QED
  BY <1>1 DEF PayloadFirst, HeadersBehind, Announced

LEMMA InStepStep ==
  ASSUME IInv, [Next]_vars
  PROVE  InStep'
<1>0. /\ TypeOK /\ CellsKept /\ DeviceKept /\ InStep /\ dev \in Devices /\ Len(out) \in Nat
      /\ DOMAIN out = 1..Len(out) /\ dev.need \in Nat /\ inp.image \in Nat
      /\ faults \in Nat /\ cut \in Nat
      /\ out # <<>> => Len(out) >= 1
      /\ out = <<>> => Len(out) = 0
      /\ ModelCells \in Nat /\ ModelCells > 0 /\ ImageCells \in Nat /\ ImageCells > 0
      /\ \A k \in DOMAIN out : out[k].by \in {"app", "input"}
  <2>1. TypeOK /\ \A k \in DOMAIN out : out[k] \in Cell
    BY OutType DEF IInv
  <2>2. \A k \in DOMAIN out : out[k].by \in {"app", "input"}
    BY <2>1 DEF Cell
  <2>3. dev \in Devices /\ dev.need \in Nat
    BY <2>1 DEF TypeOK, Devices, Needs
  <2>4. QED
    BY <2>1, <2>2, <2>3, OutType DEF IInv, TypeOK
<1>1. SUFFICES ASSUME Clean' PROVE InStep'
  BY DEF InStep
<1>2. Clean => ~lost /\ PayloadFirst /\ HeadersBehind /\ Announced
  BY <1>0 DEF InStep
<1>c. \A k \in DOMAIN out :
        /\ out[k].type = "config" => out[k].by = "app" /\ app.pc = "config"
        /\ out[k].type = "set_input" =>
             out[k].by = "input" /\ inp.pc = "header" /\ out[k].image = inp.image
        /\ out[k].part = "header" => out[k].type \in {"config", "set_input", "stop"}
  BY <1>0 DEF CellsKept
<1>3. ASSUME NEW pc \in {"idle", "up"}, NEW next, NEW type \in {"config", "stop"},
             next = "config" <=> type = "config",
             AppWrites(pc, next, "header", type, 1)
      PROVE  InStep'
  <2>1. /\ app.pc = pc /\ app'.pc = next /\ inp' = inp /\ dev' = dev /\ lost' = lost
        /\ Len(out') = Len(out) + 1 /\ DOMAIN out' = 1..(Len(out) + 1)
        /\ \A k \in 1..Len(out) : out'[k] = out[k]
        /\ inp.pc # "header" /\ Clean
    BY <1>0, <1>1, <1>3 DEF AppWrites, Adds, Clean
  <2>9. out'[Len(out) + 1].part = "header" /\ out'[Len(out) + 1].type = type
    <3>1. Len(out) + 1 \in 1..(Len(out) + 1) /\ Len(out) + 1 > Len(out)
      BY <1>0
    <3>2. QED
      BY <3>1, <1>3 DEF AppWrites, Adds
  <2>2. \A k \in DOMAIN out : k > dev.need => out[k].part = "header" /\ out[k].type = "stop"
    BY <1>2, <1>c, <2>1 DEF HeadersBehind
  <2>3. HeadersBehind'
    BY <1>0, <2>1, <2>2, <2>9 DEF HeadersBehind
  <2>4. PayloadFirst'
    BY <1>0, <1>2, <2>1 DEF PayloadFirst
  <2>5. Announced'
    <3>1. out' # <<>> /\ Len(out') \in Nat
      BY <1>0, <2>1
    <3>2. QED
      BY <1>3, <2>1, <2>9, <3>1 DEF Announced
  <2>6. QED
    BY <1>2, <2>1, <2>3, <2>4, <2>5 DEF InStep
<1>4. ASSUME InputWrites("idle", "header", inp.image + 1, "header", "set_input", 1)
      PROVE  InStep'
  <2>1. /\ inp.pc = "idle" /\ inp'.pc = "header" /\ app' = app /\ dev' = dev /\ lost' = lost
        /\ Len(out') = Len(out) + 1 /\ DOMAIN out' = 1..(Len(out) + 1)
        /\ \A k \in 1..Len(out) : out'[k] = out[k]
        /\ app.pc # "config" /\ Clean
    BY <1>0, <1>1, <1>4 DEF InputWrites, Adds, Clean
  <2>9. out'[Len(out) + 1].part = "header" /\ out'[Len(out) + 1].type = "set_input"
    <3>1. Len(out) + 1 \in 1..(Len(out) + 1) /\ Len(out) + 1 > Len(out)
      BY <1>0
    <3>2. QED
      BY <3>1, <1>4 DEF InputWrites, Adds
  <2>2. \A k \in DOMAIN out : k > dev.need => out[k].part = "header" /\ out[k].type = "stop"
    BY <1>2, <1>c, <2>1 DEF HeadersBehind
  <2>3. HeadersBehind'
    BY <1>0, <2>1, <2>2, <2>9 DEF HeadersBehind
  <2>4. PayloadFirst'
    BY <1>0, <1>2, <2>1 DEF PayloadFirst
  <2>5. Announced'
    <3>1. out' # <<>> /\ Len(out') \in Nat
      BY <1>0, <2>1
    <3>2. QED
      BY <2>1, <2>9, <3>1 DEF Announced
  <2>6. QED
    BY <1>2, <2>1, <2>3, <2>4, <2>5 DEF InStep
<1>5. ASSUME Sent("app"), AppWrites("config", "model", "payload", "model", ModelCells) PROVE InStep'
  <2>1. /\ app.pc = "config" /\ app'.pc = "model" /\ inp' = inp /\ dev' = dev /\ lost' = lost
        /\ inp.pc # "header" /\ Clean
    BY <1>0, <1>1, <1>5 DEF AppWrites, Clean
  <2>2. dev.pc = "model" /\ dev.need = ModelCells /\ out = <<>>
    BY <1>0, <1>2, <1>c, <1>5, <2>1 DEF Announced, Sent
  <2>3. /\ Len(out') = ModelCells /\ DOMAIN out' = 1..ModelCells
        /\ \A k \in 1..ModelCells : out'[k].type = "model"
    BY <1>0, <1>5, <2>2 DEF AppWrites, Adds
  <2>4. QED
    BY <1>0, <1>2, <2>1, <2>2, <2>3 DEF InStep, PayloadFirst, HeadersBehind, Announced
<1>6. ASSUME Sent("input"),
             InputWrites("header", "pixels", inp.image, "payload", "image", ImageCells)
      PROVE  InStep'
  <2>1. /\ inp.pc = "header" /\ inp'.pc = "pixels" /\ app' = app /\ dev' = dev /\ lost' = lost
        /\ app.pc # "config" /\ Clean
    BY <1>0, <1>1, <1>6 DEF InputWrites, Clean
  <2>2. dev.pc = "pixels" /\ dev.need = ImageCells /\ out = <<>> /\ dev.buf.image = inp.image
    BY <1>0, <1>2, <1>c, <1>6, <2>1 DEF Announced, Sent
  <2>3. /\ Len(out') = ImageCells /\ DOMAIN out' = 1..ImageCells
        /\ \A k \in 1..ImageCells : out'[k].type = "image" /\ out'[k].image = inp.image
    BY <1>0, <1>6, <2>2 DEF InputWrites, Adds
  <2>4. QED
    BY <1>0, <1>2, <2>1, <2>2, <2>3 DEF InStep, PayloadFirst, HeadersBehind, Announced
<1>7. CASE CallEnds
  <2>1. UNCHANGED <<dev, out, lost>> /\ Clean /\ cut' = cut
    BY <1>0, <1>1, <1>7 DEF CallEnds, Clean
  <2>2. \/ inp' = inp /\ app.pc # "config" /\ app'.pc # "config"
        \/ app' = app /\ inp.pc # "header" /\ inp'.pc # "header"
    BY <1>0, <1>7, <2>1 DEF CallEnds
  <2>3. QED
    BY <1>0, <1>2, <2>1, <2>2 DEF InStep, PayloadFirst, HeadersBehind, Announced
<1>8. CASE ReadHeader
  <2>1. /\ Takes /\ dev.pc = "header" /\ dev.need = 0 /\ Clean
        /\ UNCHANGED <<app, inp>>
    <3>1. Takes /\ dev.pc = "header" /\ UNCHANGED <<app, inp, overlap, faults, cut>>
      BY <1>0, <1>8, TakesHead DEF ReadHeader, hostVars
    <3>2. (early => early') /\ (refused => refused')
      BY <1>8 DEF ReadHeader, Dispatch
    <3>3. dev.need = 0
      BY <1>0, <3>1 DEF DeviceKept
    <3>4. QED
      BY <1>1, <3>1, <3>2, <3>3 DEF Clean
  <2>2. /\ 1 \in DOMAIN out /\ out[1].part = "header" /\ Head(out) = out[1] /\ Len(out) >= 1
        /\ out[1].type # "stop" => Len(out) = 1 /\ out' = <<>>
        /\ out[1].type \in {"config", "set_input", "stop"}
    BY <1>0, <1>2, <1>c, <2>1 DEF Takes, HeadersBehind
  <2>3. Dispatch([type |-> out[1].type, image |-> out[1].image]) /\ lost' = lost
    BY <1>8, <2>2 DEF ReadHeader
  <2>4. CASE out[1].type = "config"
    <3>1. dev'.pc = "model" /\ dev'.need = ModelCells /\ out' = <<>> /\ Len(out) = 1
      <4>1. fits.model
        BY <1>1, <2>3, <2>4 DEF Dispatch, Clean
      <4>2. QED
        BY <1>0, <2>2, <2>3, <2>4, <4>1 DEF Dispatch, Devices
    <3>2. app.pc = "config" /\ inp.pc # "header"
      BY <1>2, <1>c, <2>1, <2>2, <2>4, <3>1 DEF Announced
    <3>3. QED
      BY <1>2, <2>1, <2>3, <3>1, <3>2 DEF InStep, PayloadFirst, HeadersBehind, Announced
  <2>5. CASE out[1].type = "set_input"
    <3>1. /\ dev'.pc = "pixels" /\ dev'.need = ImageCells /\ out' = <<>> /\ Len(out) = 1
          /\ dev'.buf.image = out[1].image
      BY <1>0, <1>1, <2>2, <2>3, <2>5 DEF Dispatch, Devices, Clean
    <3>2. inp.pc = "header" /\ app.pc # "config" /\ inp.image = out[1].image
      BY <1>2, <1>c, <2>1, <2>2, <2>5, <3>1 DEF Announced
    <3>3. QED
      BY <1>2, <2>1, <2>3, <3>1, <3>2 DEF InStep, PayloadFirst, HeadersBehind, Announced
  <2>6. CASE out[1].type = "stop"
    <3>1. dev'.pc = "header" /\ dev'.need = 0
      BY <1>0, <2>1, <2>3, <2>6 DEF Dispatch, Devices
    <3>2. /\ Len(out') = Len(out) - 1 /\ DOMAIN out' = 1..(Len(out) - 1)
          /\ \A k \in DOMAIN out' : k + 1 \in DOMAIN out /\ out'[k] = out[k + 1]
      BY <1>0, <2>1 DEF Takes
    <3>3. HeadersBehind'
      BY <1>0, <1>2, <2>1, <3>1, <3>2 DEF HeadersBehind
    <3>4. app.pc = "config" \/ inp.pc = "header" => Len(out) > 1
      BY <1>0, <1>2, <2>1, <2>2, <2>6 DEF Announced
    <3>5. Len(out) > 1 => out' # <<>> /\ out'[Len(out')] = out[Len(out)]
      BY <1>0, <3>2
    <3>6. Announced'
      BY <1>2, <2>1, <3>4, <3>5 DEF Announced
    <3>7. QED
      BY <1>2, <2>1, <2>3, <3>1, <3>3, <3>6 DEF InStep, PayloadFirst
  <2>7. QED
    BY <2>2, <2>4, <2>5, <2>6
<1>9. CASE ReadModel \/ ReadPixels
  <2>1. /\ Takes /\ UNCHANGED <<app, inp>> /\ dev.need > 0
        /\ dev' = [dev EXCEPT !.need = @ - 1] /\ Clean
    BY <1>0, <1>1, <1>9, TakesHead DEF ReadModel, ReadPixels, Clean, hostVars, causes
  <2>2. dev'.need = dev.need - 1 /\ dev'.pc = dev.pc /\ dev'.buf = dev.buf
    BY <1>0, <2>1 DEF Devices
  <2>3. /\ Len(out') = Len(out) - 1 /\ DOMAIN out' = 1..(Len(out) - 1) /\ Len(out) >= 1
        /\ \A k \in DOMAIN out' : k + 1 \in DOMAIN out /\ out'[k] = out[k + 1]
        /\ out # <<>> /\ Head(out) = out[1]
    BY SMTT(30), <1>0, <2>1 DEF Takes
  <2>4. /\ dev.need <= Len(out)
        /\ \/ dev.pc = "model" /\ \A k \in 1..dev.need : out[k].type = "model"
           \/ /\ dev.pc = "pixels"
              /\ \A k \in 1..dev.need : out[k].type = "image" /\ out[k].image = dev.buf.image
    BY <1>0, <1>2, <1>9, <2>1, <2>3 DEF PayloadFirst, ReadModel, ReadPixels
  <2>5. lost' = FALSE
    <3>1. 1 \in 1..dev.need /\ ~lost
      BY <1>0, <1>2, <2>1
    <3>2. CASE ReadModel
      BY <2>3, <2>4, <3>1, <3>2 DEF ReadModel
    <3>3. CASE ReadPixels
      BY <2>3, <2>4, <3>1, <3>3 DEF ReadPixels
    <3>4. QED
      BY <1>9, <3>2, <3>3
  <2>6. PayloadFirst'
    <3>1. dev'.need <= Len(out') /\ \A k \in 1..dev'.need :
            k + 1 \in 1..dev.need /\ k \in DOMAIN out'
      BY SMTT(30), <1>0, <2>1, <2>2, <2>3, <2>4
    <3>2. QED
      BY <2>2, <2>3, <2>4, <3>1 DEF PayloadFirst
  <2>7. HeadersBehind'
    <3>1. \A k \in DOMAIN out' : /\ k > dev'.need => k + 1 > dev.need
                                /\ k + 1 = Len(out) => k = Len(out')
      BY <1>0, <2>2, <2>3
    <3>2. ASSUME NEW k \in DOMAIN out', k > dev'.need
          PROVE  out'[k].part = "header" /\ (out'[k].type # "stop" => k = Len(out'))
      <4>1. k + 1 \in DOMAIN out /\ k + 1 > dev.need /\ out'[k] = out[k + 1]
        BY <1>0, <2>2, <2>3, <3>1, <3>2
      <4>2. out[k + 1].part = "header" /\ (out[k + 1].type # "stop" => k + 1 = Len(out))
        BY <1>2, <2>1, <4>1 DEF HeadersBehind
      <4>3. QED
        BY <3>1, <4>1, <4>2
    <3>3. QED
      BY <3>2 DEF HeadersBehind
  <2>8. app.pc = "config" \/ inp.pc = "header" => Len(out) > 1
    BY <1>0, <1>2, <2>1, <2>3, <2>4 DEF Announced
  <2>9. Len(out) > 1 => out' # <<>> /\ out'[Len(out')] = out[Len(out)]
    BY <1>0, <2>3
  <2>10. Announced'
    BY <1>2, <2>1, <2>3, <2>8, <2>9 DEF Announced
  <2>11. QED
    BY <2>5, <2>6, <2>7, <2>10 DEF InStep
<1>10. CASE DeviceOwn
  <2>1. UNCHANGED <<app, inp, out, lost, overlap, cut>>
    BY <1>10 DEF DeviceOwn, hostVars
  <2>2. ~HeaderFails /\ ~PayloadFails
    BY <1>0, <1>1 DEF HeaderFails, PayloadFails, Clean
  <2>3. /\ dev'.need = dev.need /\ dev.need = 0 /\ dev'.pc \notin {"model", "pixels"}
        /\ UNCHANGED <<early, refused, faults>>
    <3>1. CASE Configure
      BY <1>0, <3>1 DEF Configure, Devices, causes
    <3>2. CASE Reply
      BY <1>0, <3>2 DEF Reply, Devices, causes
    <3>3. CASE SendResult
      BY <1>0, <3>3 DEF SendResult, Devices, DeviceKept, causes
    <3>4. CASE Answered
      BY <1>0, <3>4 DEF Answered, Devices, DeviceKept, causes
    <3>5. CASE SendFails
      BY <1>0, <3>5 DEF SendFails, Devices, DeviceKept, causes
    <3>6. QED
      BY <1>10, <2>2, <3>1, <3>2, <3>3, <3>4, <3>5 DEF DeviceOwn
  <2>4. QED
    BY <1>0, <2>1, <2>3, InStepOwn
<1>11. CASE HostReceive \/ HostFails \/ UNCHANGED vars
  <2>1. UNCHANGED <<app, inp, out, lost, dev>> /\ Clean
    BY <1>1, <1>11 DEF HostReceive, HostFails, vars, hostVars, causes, Clean
  <2>2. QED
    BY <1>2, <2>1 DEF InStep, PayloadFirst, HeadersBehind, Announced
<1>12. QED
  BY <1>3, <1>4, <1>5, <1>6, <1>7, <1>8, <1>9, <1>10, <1>11, NextMoves DEF Moves

\* What an answer puts on the IN pipe.
LEMMA Replies ==
  ASSUME IInv, Reply
  PROVE  /\ in = <<>> /\ in' \in Seq(Transfer) /\ in' # <<>> /\ Len(in') = 1
         /\ in'[1].part = "header" /\ in'[1].image = dev.buf.image
         /\ in'[1].embedded \in BOOLEAN
         /\ dev'.pc = (IF in'[1].embedded THEN "answered" ELSE "result")
         /\ dev'.buf.image = dev.buf.image
<1>0. dev \in Devices /\ DeviceKept /\ dev.pc = "pixels"
  BY DEF IInv, TypeOK, Devices, Needs, Reply
<1>1. in = <<>>
  BY <1>0 DEF IInv, InKept
<1>2. dev.buf.image \in 1..MaxImages
  BY <1>0 DEF DeviceKept, Devices
<1>3. PICK embedded \in BOOLEAN :
        /\ in' = Append(in, [part |-> "header", image |-> dev.buf.image, embedded |-> embedded])
        /\ dev' = [dev EXCEPT !.pc = IF embedded THEN "answered" ELSE "result",
                              !.buf.type = "set_output"]
  BY DEF Reply
<1> DEFINE t == [part |-> "header", image |-> dev.buf.image, embedded |-> embedded]
<1>4. t \in Transfer
  BY <1>2 DEF Transfer
<1>5. in' = <<t>>
  BY <1>1, <1>3
<1>6. t.part = "header" /\ t.image = dev.buf.image /\ t.embedded = embedded
  OBVIOUS
<1>7. dev'.pc = (IF embedded THEN "answered" ELSE "result") /\ dev'.buf.image = dev.buf.image
  BY <1>0, <1>3 DEF Devices
<1> HIDE DEF t
<1>8. in' \in Seq(Transfer) /\ in' # <<>> /\ Len(in') = 1 /\ in'[1] = t
  BY <1>4, <1>5
<1>9. QED
  BY <1>1, <1>6, <1>7, <1>8

LEMMA ResultSent ==
  ASSUME IInv, SendResult
  PROVE  /\ in = <<>> /\ in' \in Seq(Transfer) /\ in' # <<>> /\ Len(in') = 1
         /\ in'[1].part = "result" /\ in'[1].image = dev.buf.image /\ ~in'[1].embedded
         /\ dev.pc = "result" /\ dev'.pc = "answered"
<1>0. dev \in Devices /\ DeviceKept /\ dev.pc = "result"
  BY DEF IInv, TypeOK, Devices, Needs, SendResult
<1>1. dev.buf.image \in 1..MaxImages
  BY <1>0 DEF DeviceKept, Devices
<1> DEFINE t == [part |-> "result", image |-> dev.buf.image, embedded |-> FALSE]
<1>2. t \in Transfer
  BY <1>1 DEF Transfer
<1>3. t.part = "result" /\ t.image = dev.buf.image /\ t.embedded = FALSE
  OBVIOUS
<1>4. in = <<>> /\ in' = <<t>>
  BY DEF SendResult
<1>5. dev'.pc = "answered"
  BY <1>0 DEF SendResult, Devices
<1> HIDE DEF t
<1>6. in' \in Seq(Transfer) /\ in' # <<>> /\ Len(in') = 1 /\ in'[1] = t
  BY <1>2, <1>4
<1>7. QED
  BY <1>0, <1>3, <1>4, <1>5, <1>6

\* At most one transfer waits.
LEMMA Received ==
  ASSUME IInv, HostReceive
  PROVE  /\ in # <<>> /\ in' = <<>> /\ Head(in) = in[1] /\ in[1] \in Transfer
         /\ dev.pc \in {"result", "answered"}
<1>1. in \in Seq(Transfer) /\ Len(in) <= 1 /\ in # <<>>
  BY DEF IInv, TypeOK, InKept, HostReceive
<1>2. /\ Head(in) = in[1] /\ in[1] \in Transfer /\ Len(in) = 1 /\ Tail(in) = <<>>
  <2>1. /\ Head(in) = in[1] /\ in[1] \in Transfer /\ Len(in) \in Nat /\ Len(in) >= 1
        /\ Len(in) = 1 => Tail(in) = <<>>
    BY <1>1, ReadCell
  <2>2. \A n \in Nat : n <= 1 /\ n >= 1 => n = 1
    OBVIOUS
  <2>3. Len(in) = 1
    BY <1>1, <2>1, <2>2, Zenon
  <2>4. QED
    BY <2>1, <2>3, Zenon
<1>3. QED
  BY <1>1, <1>2 DEF HostReceive, IInv, InKept

\* Steps that do not touch the IN pipe.
LEMMA PipesApart ==
  ASSUME IInv, Moves
  PROVE  \/ UNCHANGED <<in, host, got, hostLost, failed, missed, dev>>
         \/ /\ UNCHANGED <<in, host, got, hostLost>> /\ in = <<>>
            /\ dev.pc # "result" /\ dev'.pc \notin {"result", "answered"}
            /\ failed' = failed \/ failed' > 0
            /\ missed' = missed
         \/ /\ UNCHANGED <<in, host, got, hostLost>> /\ in = <<>>
            /\ dev.pc = "result" /\ dev'.pc = "header" /\ failed' > 0
         \/ Reply \/ SendResult \/ HostReceive \/ HostFails
<1>0. dev \in Devices /\ (in = <<>> \/ dev.pc \in {"result", "answered"})
  BY DEF IInv, TypeOK, Devices, Needs, InKept
<1>00. dev \in Devices /\ failed \in Nat
  BY DEF IInv, TypeOK, Devices, Needs
<1>1. CASE ReadHeader
  BY <1>0, <1>00, <1>1 DEF ReadHeader, Dispatch, Devices
<1>2. CASE ReadModel
  BY <1>0, <1>00, <1>2 DEF ReadModel, Devices, causes
<1>3. CASE ReadPixels
  BY <1>0, <1>00, <1>3 DEF ReadPixels, Devices, causes
<1>4. CASE HeaderFails
  BY <1>0, <1>00, <1>4 DEF HeaderFails, Dispatch, Devices
<1>5. CASE Configure
  BY <1>0, <1>00, <1>5 DEF Configure, Devices, causes
<1>6. CASE PayloadFails
  BY <1>0, <1>00, <1>6 DEF PayloadFails, Devices
<1>7. CASE Answered
  BY <1>0, <1>00, <1>7 DEF Answered, Devices, causes
<1>8. CASE SendFails
  BY <1>0, <1>00, <1>8 DEF SendFails, Devices
<1>9. QED
  BY <1>1, <1>2, <1>3, <1>4, <1>5, <1>6, <1>7, <1>8
     DEF Moves, AppWrites, InputWrites, CallEnds, DeviceOwn, vars, causes

LEMMA InStepIn ==
  ASSUME IInv, [Next]_vars
  PROVE  InKept'
<1>0. InKept
  BY DEF IInv
<1>1. CASE Reply
  BY <1>1, Replies DEF InKept
<1>2. CASE SendResult
  BY <1>2, ResultSent DEF InKept
<1>3. CASE HostReceive
  BY <1>3, Received DEF InKept
<1>4. CASE UNCHANGED <<in, dev>> \/ (in' = in /\ in = <<>>)
  BY <1>0, <1>4 DEF InKept
<1>5. CASE HostFails
  <2>1. UNCHANGED dev /\ in' \in {in, <<>>}
    BY <1>5 DEF HostFails
  <2>2. CASE in' = in
    BY <1>0, <2>1, <2>2 DEF InKept
  <2>3. CASE in' = <<>>
    BY <2>3 DEF InKept
  <2>4. QED
    BY <2>1, <2>2, <2>3
<1>6. QED
  BY <1>1, <1>2, <1>3, <1>4, <1>5, NextMoves, PipesApart

LEMMA HostInStepStep ==
  ASSUME IInv, [Next]_vars
  PROVE  HostInStep'
<1>0. HostInStep /\ InKept /\ failed \in Nat /\ missed \in Nat /\ host.awaits \in {"header", "result"}
  BY DEF IInv, TypeOK
<1>1. CASE Reply
  <2>1. UNCHANGED <<failed, missed, host, hostLost>> /\ dev.pc = "pixels"
    BY <1>1 DEF Reply, causes
  <2>2. QED
    BY <1>0, <1>1, <2>1, Replies DEF HostInStep
<1>2. CASE SendResult
  <2>1. UNCHANGED <<failed, missed, host, hostLost>>
    BY <1>2 DEF SendResult, causes
  <2>2. QED
    BY <1>0, <1>2, <2>1, ResultSent DEF HostInStep
<1>3. CASE HostReceive
  <2>1. UNCHANGED <<failed, missed, dev>>
    BY <1>3 DEF HostReceive, causes
  <2>2. SUFFICES ASSUME failed = 0, missed = 0 PROVE HostInStep'
    BY <2>1 DEF HostInStep
  <2>3. in[1].part = host.awaits /\ hostLost' = FALSE
    BY <1>0, <1>3, <2>2, Received DEF HostInStep, HostReceive
  <2>4. host'.awaits = (IF in[1].part = "header" /\ ~in[1].embedded THEN "result" ELSE "header")
    BY <1>3, <2>3, Received DEF HostReceive
  <2>5. QED
    BY <1>0, <1>3, <2>1, <2>2, <2>3, <2>4, Received DEF HostInStep
<1>4. CASE UNCHANGED <<in, host, hostLost>> /\ in = <<>> /\ dev.pc # "result" /\ dev'.pc # "result"
             /\ (failed' = failed \/ failed' > 0) /\ missed' = missed
  BY <1>0, <1>4 DEF HostInStep
<1>5. CASE UNCHANGED <<in, host, hostLost, failed, missed, dev>> \/ failed' > 0
  BY <1>0, <1>5 DEF HostInStep
<1>6. CASE HostFails
  <2>1. missed' > 0
    BY <1>0, <1>6 DEF HostFails
  <2>2. QED
    BY <2>1 DEF HostInStep
<1>7. QED
  BY <1>1, <1>2, <1>3, <1>4, <1>5, <1>6, NextMoves, PipesApart

\* Ordered outlasts a step that takes no new image and changes neither the results nor
\* the answer under way.
LEMMA OrderedBy ==
  ASSUME Ordered, faults' = 0 /\ ~lost' => faults = 0 /\ ~lost,
         UNCHANGED <<got, inp.image>>, Pending' => Pending,
         dev'.pc \in {"pixels", "result"} =>
           dev.pc \in {"pixels", "result"} /\ dev'.buf.image = dev.buf.image,
         in' # <<>> /\ (in'[1].part = "result" \/ in'[1].embedded) =>
           \/ in' = in
           \/ dev.pc \in {"pixels", "result"} /\ in'[1].image = dev.buf.image
  PROVE  Ordered'
<1>1. SUFFICES ASSUME faults' = 0, ~lost', faults = 0, ~lost PROVE Ordered'
  BY DEF Ordered
<1>2. \A i : New(i) => (\A j \in DOMAIN got' : got'[j] < i) /\ i <= inp'.image
                       /\ (Pending' => i < inp'.image)
  BY DEF New
<1>3. dev'.pc \in {"pixels", "result"} => New(dev.buf.image) /\ dev'.buf.image = dev.buf.image
  BY <1>1 DEF Ordered
<1>4. dev'.pc \in {"pixels", "result"} => New(dev.buf.image)'
  BY <1>2, <1>3 DEF New
<1>5. in' # <<>> /\ (in'[1].part = "result" \/ in'[1].embedded) => New(in'[1].image)
  BY <1>1 DEF Ordered
<1>6. in' # <<>> /\ (in'[1].part = "result" \/ in'[1].embedded) => New(in[1].image)'
  BY <1>2, <1>5 DEF New
<1>7. QED
  BY <1>1, <1>4, <1>6 DEF Ordered

LEMMA OrderedStep ==
  ASSUME IInv, [Next]_vars
  PROVE  Ordered'
<1>0. /\ TypeOK /\ CellsKept /\ InKept /\ Ordered /\ dev \in Devices /\ Len(out) \in Nat
      /\ DOMAIN out = 1..Len(out) /\ inp.image \in Nat /\ faults \in Nat
      /\ DOMAIN got = 1..Len(got) /\ Len(got) \in Nat /\ \A j \in DOMAIN got : got[j] \in Nat
      /\ in # <<>> => dev.pc \in {"result", "answered"}
  BY SMTT(30), OutType DEF IInv, TypeOK, Devices, Needs, InKept
<1>1. ASSUME NEW pc, NEW next, NEW part, NEW type, type # "set_input", NEW n \in Nat,
             AppWrites(pc, next, part, type, n)
      PROVE  Ordered'
  <2>1. UNCHANGED <<dev, in, got, lost, faults, inp>>
    BY <1>1 DEF AppWrites
  <2>2. Pending' => Pending
    BY <1>0, <1>1 DEF AppWrites, Adds, Pending
  <2>3. QED
    BY <1>0, <2>1, <2>2, OrderedBy
<1>2. ASSUME InputWrites("header", "pixels", inp.image, "payload", "image", ImageCells)
      PROVE  Ordered'
  <2>1. UNCHANGED <<dev, in, got, lost, faults, inp.image>>
    BY <1>2 DEF InputWrites
  <2>2. Pending' => Pending
    BY <1>0, <1>2 DEF InputWrites, Adds, Pending
  <2>3. QED
    BY <1>0, <2>1, <2>2, OrderedBy
<1>3. ASSUME InputWrites("idle", "header", inp.image + 1, "header", "set_input", 1)
      PROVE  Ordered'
  <2>1. UNCHANGED <<dev, in, got, lost, faults>> /\ inp'.image = inp.image + 1
    BY <1>3 DEF InputWrites
  <2>2. \A i : New(i) => (\A j \in DOMAIN got : got[j] < i) /\ i <= inp.image
    BY DEF New
  <2>3. dev.buf.image \in Nat /\ (in # <<>> => in[1].image \in Nat)
    <3>1. dev.buf.image \in 0..MaxImages
      BY <1>0 DEF Devices
    <3>2. ASSUME in # <<>> PROVE in[1].image \in 1..MaxImages
      <4>1. in[1] \in Transfer
        BY <1>0, <3>2, ReadCell DEF InKept
      <4>2. QED
        BY <4>1 DEF Transfer
    <3>3. QED
      BY <3>1, <3>2
  <2>4. \A i \in Nat : New(i) => i < inp'.image
    BY <1>0, <2>1, <2>2
  <2>5. \A j \in DOMAIN got : faults = 0 /\ ~lost => got[j] < inp'.image
    BY <1>0, <2>1 DEF Ordered
  <2>6. QED
    BY SMTT(30), <1>0, <2>1, <2>2, <2>3, <2>4, <2>5 DEF Ordered, New
<1>4. CASE CallEnds
  <2>1. UNCHANGED <<dev, in, got, lost, faults, inp.image>> /\ Pending' = Pending
    BY <1>4 DEF CallEnds, Pending
  <2>2. QED
    BY <1>0, <2>1, OrderedBy
<1>5. ASSUME Takes
      PROVE  \A k \in DOMAIN out' :
               k \in Nat /\ k >= 1 /\ k + 1 \in DOMAIN out /\ out'[k] = out[k + 1]
  BY <1>0, <1>5 DEF Takes
<1>51. ASSUME Takes PROVE Pending' => Pending
  BY <1>5, <1>51, Zenon DEF Pending
<1>6. CASE ReadModel \/ ReadPixels
  <2>1. UNCHANGED <<in, got, faults, inp.image>> /\ Takes /\ (~lost' => ~lost)
    BY <1>0, <1>6, TakesHead DEF ReadModel, ReadPixels, hostVars, causes
  <2>2. dev'.pc = dev.pc /\ dev'.buf = dev.buf
    BY <1>0, <1>6 DEF ReadModel, ReadPixels, Devices
  <2>3. QED
    BY <1>0, <1>51, <2>1, <2>2, OrderedBy
<1>7. CASE ReadHeader
  <2>1. /\ UNCHANGED <<in, got, faults, inp.image>> /\ Takes /\ (~lost' => ~lost)
        /\ dev.pc = "header" /\ in = <<>>
    BY <1>0, <1>7, TakesHead DEF ReadHeader, hostVars
  <2>2. CASE dev'.pc \notin {"pixels", "result"}
    BY <1>0, <1>51, <2>1, <2>2, OrderedBy
  <2>3. CASE dev'.pc \in {"pixels", "result"}
    <3>1. out[1].type = "set_input" /\ dev'.buf.image = out[1].image /\ 1 \in DOMAIN out
      <4>1. Head(out) = out[1] /\ 1 \in DOMAIN out
        BY <1>0, <2>1 DEF Takes
      <4>2. CASE Dispatch(NoBuffer)
        BY <1>0, <2>1, <2>3, <4>2 DEF Dispatch, NoBuffer, Devices
      <4>3. CASE Dispatch([type |-> Head(out).type, image |-> Head(out).image])
        <5> DEFINE buf == [type |-> Head(out).type, image |-> Head(out).image]
        <5>1. buf.type = out[1].type /\ buf.image = out[1].image
          BY <4>1
        <5>2. Dispatch(buf)
          BY <4>3
        <5> HIDE DEF buf
        <5>3. buf.type = "set_input" /\ dev'.buf = buf
          BY <1>0, <2>1, <2>3, <5>2 DEF Dispatch, Devices
        <5>4. QED
          BY <4>1, <5>1, <5>3
      <4>4. QED
        BY <1>7, <4>2, <4>3 DEF ReadHeader
    <3>2. out[1].image = inp.image
      BY <1>0, <3>1 DEF CellsKept
    <3>3. Pending
      BY <3>1 DEF Pending
    <3>4. ~Pending'
      <4>1. SUFFICES ASSUME NEW k \in DOMAIN out', out'[k].type = "set_input" PROVE FALSE
        BY DEF Pending
      <4>2. k \in Nat /\ k >= 1 /\ k + 1 \in DOMAIN out /\ out[k + 1].type = "set_input"
        BY <1>5, <2>1, <4>1
      <4>3. k + 1 # 1
        BY <4>2
      <4>4. QED
        BY <1>0, <3>1, <4>2, <4>3 DEF CellsKept
    <3>5. QED
      BY <1>0, <2>1, <3>1, <3>2, <3>3, <3>4 DEF Ordered, New
  <2>4. QED
    BY <2>2, <2>3
<1>8. CASE DeviceOwn
  <2>1. /\ UNCHANGED <<got, lost, inp.image>> /\ Pending' = Pending
    BY <1>8 DEF DeviceOwn, HeaderFails, Configure, PayloadFails, Reply, SendResult, Answered,
                SendFails, hostVars, Pending
  <2>2. CASE HeaderFails \/ PayloadFails
    BY <1>0, <2>2 DEF HeaderFails, PayloadFails, Ordered
  <2>3. CASE Configure \/ Answered \/ SendFails
    <3>1. UNCHANGED <<in, faults>> /\ dev'.pc \notin {"pixels", "result"}
      BY <1>0, <2>3 DEF Configure, Answered, SendFails, causes, Devices
    <3>2. QED
      BY <1>0, <2>1, <3>1, OrderedBy
  <2>4. CASE Reply
    <3>1. faults' = faults /\ dev.pc = "pixels"
      BY <2>4 DEF Reply, causes
    <3>2. QED
      BY <1>0, <2>1, <2>4, <3>1, Replies, OrderedBy
  <2>5. CASE SendResult
    <3>1. faults' = faults
      BY <2>5 DEF SendResult, causes
    <3>2. QED
      BY <1>0, <2>1, <2>5, <3>1, ResultSent, OrderedBy
  <2>6. QED
    BY <1>8, <2>2, <2>3, <2>4, <2>5 DEF DeviceOwn
<1>9. CASE HostReceive
  <2>1. UNCHANGED <<dev, lost, faults, inp, out>> /\ in' = <<>> /\ Pending' = Pending
    BY <1>9, Received DEF HostReceive, hostVars, causes, Pending
  <2>2. CASE got' = got
    BY <1>0, <2>1, <2>2, OrderedBy
  <2>3. CASE got' # got
    <3>1. /\ got' = Append(got, in[1].image) /\ in # <<>>
          /\ in[1].part = "result" \/ in[1].embedded
          /\ in[1].part = "header" => in[1].embedded
          /\ in[1].image \in Nat
      BY <1>9, <2>3, Received DEF HostReceive, Transfer
    <3>2. SUFFICES ASSUME faults = 0, ~lost, New(in[1].image) PROVE Ordered'
      BY <1>0, <2>1, <3>1 DEF Ordered
    <3>3. dev.pc \notin {"pixels", "result"}
      BY <1>0, <3>1 DEF InKept
    <3>4. /\ DOMAIN got' = 1..(Len(got) + 1)
          /\ \A j \in 1..Len(got) : got'[j] = got[j] /\ got[j] < in[1].image
          /\ got'[Len(got) + 1] = in[1].image
      BY SMTT(30), <1>0, <3>1, <3>2 DEF New
    <3>5. \A j, k \in DOMAIN got' : j < k => got'[j] < got'[k]
      BY <1>0, <3>2, <3>4 DEF Ordered
    <3>6. \A j \in DOMAIN got' : got'[j] <= inp.image /\ (Pending => got'[j] < inp.image)
      BY <1>0, <3>2, <3>4 DEF Ordered, New
    <3>7. QED
      BY <2>1, <3>3, <3>5, <3>6 DEF Ordered
  <2>4. QED
    BY <2>2, <2>3
<1>10. CASE HostFails \/ UNCHANGED vars
  <2>1. UNCHANGED <<dev, got, lost, faults, inp.image>> /\ Pending' = Pending
    BY <1>10 DEF HostFails, vars, hostVars, causes, Pending
  <2>2. in' = in \/ in' = <<>>
    BY <1>10 DEF HostFails, vars
  <2>3. QED
    BY <1>0, <2>1, <2>2, OrderedBy
<1>11. QED
  BY <1>1, <1>2, <1>3, <1>4, <1>6, <1>7, <1>8, <1>9, <1>10, NextMoves DEF Moves

LEMMA InitInv == Init => IInv
<1> SUFFICES ASSUME Init PROVE IInv
  OBVIOUS
<1>1. TypeOK
  BY DEF Init, TypeOK, NoBuffer
<1>2. CellsKept /\ DeviceKept /\ InKept
  BY DEF Init, CellsKept, DeviceKept, InKept, NoBuffer
<1>3. InStep
  BY DEF Init, InStep, PayloadFirst, HeadersBehind, Announced
<1>4. HostInStep /\ Ordered
  BY DEF Init, HostInStep, Ordered
<1>5. QED
  BY <1>1, <1>2, <1>3, <1>4 DEF IInv

LEMMA InvStep == IInv /\ [Next]_vars => IInv'
<1>1. ASSUME IInv, [Next]_vars PROVE TypeOK'
  BY <1>1, StepType DEF IInv
<1>2. QED
  BY <1>1, CellsStep, DeviceKeptStep, InStepIn, InStepStep, HostInStepStep, OrderedStep
     DEF IInv

LEMMA SpecInv == Spec => []IInv
BY InitInv, InvStep, PTL DEF Spec

-----------------------------------------------------------------------------
(* The theorems                                                            *)

\* Every variable keeps its type, the IN pipe never holds more than one transfer (Xeye::start,
\* DlInputThread, POSIX_Init, ConnectorMessageThread).
THEOREM TypeSafety == Spec => []TypeOK
<1>1. IInv => TypeOK
  BY DEF IInv
<1>2. QED
  BY <1>1, SpecInv, PTL

\* The device takes a header for a header and a payload for its payload unless a frame was
\* cut into or cut short, an image came too early, a model was too large or a receive failed;
\* the message thread does so unless a send of the device or a receive of its own failed; and
\* results arrive in the order of their images (POSIX_Init, ConnectorMessageThread).
THEOREM FramingSafety == Spec => []FramingKept
<1>1. ASSUME IInv PROVE FramingLostOnlyBy
  <2>1. TypeOK
    BY <1>1 DEF IInv
  <2>2. cut \in Nat /\ faults \in Nat
    BY <2>1 DEF TypeOK
  <2>3. QED
    BY <1>1, <2>2 DEF IInv, InStep, Clean, FramingLostOnlyBy
<1>2. ASSUME IInv PROVE HostFramingLostOnlyBy
  <2>1. failed \in Nat /\ missed \in Nat
    BY <1>2 DEF IInv, TypeOK
  <2>2. QED
    BY <1>2, <2>1 DEF IInv, HostInStep, HostFramingLostOnlyBy
<1>3. IInv => ResultsInOrder
  BY DEF IInv, Ordered, ResultsInOrder
<1>4. IInv => FramingKept
  BY <1>1, <1>2, <1>3 DEF FramingKept
<1>5. QED
  BY <1>4, SpecInv, PTL
=============================================================================
