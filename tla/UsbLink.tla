------------------------------- MODULE UsbLink -------------------------------
(***************************************************************************)
(* The transport under XLink on the device: one thread reads events, one   *)
(* sends them, each as a header and, for a write, its data in chunks.  A   *)
(* transfer is submitted to the USB driver, which wakes the caller through *)
(* a semaphore.  The driver waits a second; a call that has timed out      *)
(* leaves its transfer pending, and the next call of that direction waits  *)
(* for that transfer instead of submitting its own.                        *)
(*                                                                         *)
(* A unit <<m, c>> is what one transfer carries: chunk c of message m, or  *)
(* its header for c = 0.                                                   *)
(***************************************************************************)
EXTENDS Integers, SequencesExt

CONSTANTS
    MaxIn,        \* bound: messages the host sends
    MaxOut,       \* bound: messages the device sends
    InChunks,     \* bound: chunks (USB_CHUNK_SIZE) of a message's data, from
    OutChunks,    \* the host and to it
    MaxDrops      \* bound: times the interface goes down

ASSUME BoundsAssumption == 
    {MaxIn, MaxOut, InChunks, OutChunks, MaxDrops} \subseteq Nat

VARIABLES
    up,           \* sg_usb_connected
    reconnect,    \* sg_usb_reconnect
    drops,        \* times the interface went down
    \* from the host
    sent,         \* chunks of the messages the host sent
    pipe,         \* units the host has written and the device not read
    rpc,          \* where the reading thread is
    chunk,        \* the chunk it reads
    rwait,        \* it waits for semReadId
    rlate,        \* readtimeout
    rreq,         \* places of the read transfers pending in the driver
    rsem,         \* semReadId is released
    hdr,          \* event->header: the message it announces
    prev,         \* prevEvent
    handled,      \* messages given to the dispatcher, in order
    filled,       \* units that reached their place in a packet
    gone,         \* history: messages the host lost with the interface
    inTrouble,    \* history: see Troubles
    \* to the host
    out,          \* chunks of the messages to send
    wpc, wchunk, wwait, wlate, wreq, wsem,   \* as for reading
    received,     \* units the host has read
    outTrouble

linkVars == <<up, reconnect, drops>>
inVars   == <<sent, pipe, rpc, chunk, rwait, rlate, rreq, rsem, hdr, prev,
              handled, filled, gone, inTrouble>>
outVars  == <<out, wpc, wchunk, wwait, wlate, wreq, wsem, received, outTrouble>>
usbVars  == <<linkVars, inVars, outVars>>

Header    == <<0, 0>>      \* the place of a header, event->header
NoMessage == 0
Garbage   == -1            \* data where a header should be

\* "abandoned": a read that timed out left chunks of its data unread.
\* "early": the interface came up while the reader waited for data or not at
\* all, and what it released the reader for was something else.
\* "late": a data write timed out; the next header is not written.
\* "severed": the interface went down with a write pending.
Troubles == {"abandoned", "early", "late", "severed"}

If(trouble, happens) == IF happens THEN {trouble} ELSE {}

Units(m, n) == [k \in 1..(n + 1) |-> <<m, k - 1>>]
-----------------------------------------------------------------------------
LinkInit ==
    /\ up = TRUE /\ reconnect = FALSE /\ drops = 0
    /\ sent = <<>> /\ pipe = <<>>
    /\ rpc = "header" /\ chunk = 0 /\ rwait = FALSE /\ rlate = FALSE
    /\ rreq = <<>> /\ rsem = FALSE /\ hdr = NoMessage /\ prev = NoMessage
    /\ handled = <<>> /\ filled = {} /\ gone = {} /\ inTrouble = {}
    /\ out = <<>> /\ wpc = "idle" /\ wchunk = 0 /\ wwait = FALSE
    /\ wlate = FALSE /\ wreq = <<>> /\ wsem = FALSE
    /\ received = <<>> /\ outTrouble = {}
-----------------------------------------------------------------------------
(* Reading                                                                 *)

\* The host writes a message; external.
HostSends(n) ==
    /\ up /\ Len(sent) < MaxIn
    /\ sent' = Append(sent, n)
    /\ pipe' = pipe \o Units(Len(sent) + 1, n)
    /\ UNCHANGED <<linkVars, rpc, chunk, rwait, rlate, rreq, rsem, hdr, prev,
                   handled, filled, gone, inTrouble, outVars>>

\* While data are read prevEvent tells their message: another transfer may
\* have overwritten the header.
Place == IF rpc = "header" THEN Header ELSE <<prev, chunk>>

\* usb_vsc_read: nothing is submitted for a call that follows a timeout.
ReadCall ==
    /\ rpc # "dead" /\ ~rwait
    /\ rreq' = IF rlate \/ ~up THEN rreq ELSE Append(rreq, Place)
    /\ rlate' = FALSE /\ rwait' = TRUE
    /\ UNCHANGED <<linkVars, sent, pipe, rpc, chunk, rsem, hdr, prev, handled,
                   filled, gone, inTrouble, outVars>>

\* The driver completes the oldest transfer.
ReadTransferDone ==
    /\ up /\ rreq # <<>> /\ pipe # <<>>
    /\ LET unit == Head(pipe)
       IN  IF Head(rreq) = Header
           THEN /\ hdr' = IF unit[2] = 0 THEN unit[1] ELSE Garbage
                /\ UNCHANGED filled
           ELSE /\ filled' = filled \union {u \in {unit} : u = Head(rreq)}
                /\ UNCHANGED hdr
    /\ pipe' = Tail(pipe) /\ rreq' = Tail(rreq) /\ rsem' = TRUE
    /\ UNCHANGED <<linkVars, sent, rpc, chunk, rwait, rlate, prev, handled,
                   gone, inTrouble, outVars>>

\* dispatcherAddEvent
Deliver(m) ==
    /\ handled' = Append(handled, m)
    /\ rpc' = "header"

Take ==
    /\ prev' = hdr
    /\ IF sent[hdr] = 0
       THEN Deliver(hdr) /\ UNCHANGED chunk
       ELSE rpc' = "data" /\ chunk' = 1 /\ UNCHANGED handled

\* (mutant) the second of two equal headers is an event like any other.
HeaderTaken ==
    IF hdr = Garbage THEN rpc' = "dead" /\ UNCHANGED <<prev, chunk, handled>>
    ELSE Take

\* dispatcherEventReceive after its read: a header like the last one is
\* dropped, data where a header should be fail an assertion.
HeaderRead ==
    CASE hdr = Garbage -> rpc' = "dead" /\ UNCHANGED <<prev, chunk, handled>>
      [] hdr = prev    -> UNCHANGED <<rpc, prev, chunk, handled>>
      [] OTHER         -> Take

DataRead ==
    /\ IF chunk < sent[prev]
       THEN chunk' = chunk + 1 /\ UNCHANGED <<rpc, handled>>
       ELSE Deliver(prev) /\ UNCHANGED chunk
    /\ UNCHANGED prev

\* The wait succeeds.  After a reconnection the first header is not looked at.
ReadReturns ==
    /\ rwait /\ rsem
    /\ rsem' = FALSE /\ rwait' = FALSE
    /\ CASE rpc = "data" -> DataRead /\ UNCHANGED reconnect
         [] rpc = "header" /\ reconnect ->
              reconnect' = FALSE /\ UNCHANGED <<rpc, chunk, prev, handled>>
         [] OTHER -> HeaderRead /\ UNCHANGED reconnect
    /\ UNCHANGED <<up, drops, sent, pipe, rlate, rreq, hdr, filled, gone,
                   inTrouble, outVars>>

\* A second has passed.  The header's read is tried again, the data's has
\* failed, and the packet is delivered as it is.
ReadTimesOut ==
    /\ rwait /\ ~rsem
    /\ rlate' = TRUE /\ rwait' = FALSE
    /\ IF rpc = "data" THEN Deliver(prev) ELSE UNCHANGED <<rpc, handled>>
    /\ inTrouble' = inTrouble \union
                      If("abandoned", rpc = "data" /\ chunk < sent[prev])
    /\ UNCHANGED <<linkVars, sent, pipe, chunk, rreq, rsem, hdr, prev, filled,
                   gone, outVars>>
-----------------------------------------------------------------------------
(* Writing                                                                 *)

\* dispatcherEventSend
EventSend(n) ==
    /\ wpc = "idle" /\ Len(out) < MaxOut
    /\ out' = Append(out, n) /\ wpc' = "header" /\ wchunk' = 0
    /\ UNCHANGED <<linkVars, inVars, wwait, wlate, wreq, wsem, received,
                   outTrouble>>

\* (mutant) the mark of the timeout stays.
WriteCallStaysLate ==
    /\ wpc # "idle" /\ ~wwait
    /\ wreq' = IF wlate \/ ~up THEN wreq ELSE Append(wreq, <<Len(out), wchunk>>)
    /\ wwait' = TRUE
    /\ outTrouble' = outTrouble \union If("severed", ~wlate /\ ~up)
    /\ UNCHANGED <<linkVars, inVars, out, wpc, wchunk, wlate, wsem, received>>

\* (mutant) a call that follows a timeout submits its transfer as well.
WriteCallAlways ==
    /\ wpc # "idle" /\ ~wwait
    /\ wreq' = IF ~up THEN wreq ELSE Append(wreq, <<Len(out), wchunk>>)
    /\ wlate' = FALSE /\ wwait' = TRUE
    /\ outTrouble' = outTrouble \union If("severed", ~wlate /\ ~up)
    /\ UNCHANGED <<linkVars, inVars, out, wpc, wchunk, wsem, received>>

\* usb_vsc_write
WriteCall ==
    /\ wpc # "idle" /\ ~wwait
    /\ wreq' = IF wlate \/ ~up THEN wreq ELSE Append(wreq, <<Len(out), wchunk>>)
    /\ wlate' = FALSE /\ wwait' = TRUE
    /\ outTrouble' = outTrouble \union If("severed", ~wlate /\ ~up)
    /\ UNCHANGED <<linkVars, inVars, out, wpc, wchunk, wsem, received>>

\* The host reads a unit and the driver completes its transfer.
WriteTransferDone ==
    /\ up /\ wreq # <<>>
    /\ received' = Append(received, Head(wreq))
    /\ wreq' = Tail(wreq) /\ wsem' = TRUE
    /\ UNCHANGED <<linkVars, inVars, out, wpc, wchunk, wwait, wlate, outTrouble>>

WriteReturns ==
    /\ wwait /\ wsem
    /\ wsem' = FALSE /\ wwait' = FALSE
    /\ IF wchunk < Last(out)
       THEN wpc' = "data" /\ wchunk' = wchunk + 1
       ELSE wpc' = "idle" /\ UNCHANGED wchunk
    /\ UNCHANGED <<linkVars, inVars, out, wlate, wreq, received, outTrouble>>

\* The header's write is tried again, the data's has failed.
WriteTimesOut ==
    /\ wwait /\ ~wsem
    /\ wlate' = TRUE /\ wwait' = FALSE
    /\ wpc' = IF wpc = "data" THEN "idle" ELSE wpc
    /\ outTrouble' = outTrouble \union If("late", wpc = "data")
    /\ UNCHANGED <<linkVars, inVars, out, wchunk, wreq, wsem, received>>
-----------------------------------------------------------------------------
(* The interface                                                           *)

\* The pending transfers end with an error, which wakes nobody.
InterfaceDown ==
    /\ up /\ drops < MaxDrops
    /\ up' = FALSE /\ drops' = drops + 1
    /\ pipe' = <<>> /\ rreq' = <<>> /\ wreq' = <<>>
    /\ gone' = gone \union {pipe[k][1] : k \in DOMAIN pipe}
    /\ outTrouble' = outTrouble \union If("severed", wreq # <<>>)
    /\ UNCHANGED <<reconnect, sent, rpc, chunk, rwait, rlate, rsem, hdr, prev,
                   handled, filled, inTrouble, out, wpc, wchunk, wwait, wlate,
                   wsem, received>>

\* (mutant) the release is left out, as in the other copy of this file.
InterfaceUpSilently ==
    /\ ~up
    /\ up' = TRUE /\ reconnect' = TRUE
    /\ inTrouble' = inTrouble \union
                      If("early", rsem \/ ~rwait \/ rpc # "header")
    /\ UNCHANGED <<drops, sent, pipe, rpc, chunk, rwait, rlate, rreq, rsem, hdr,
                   prev, handled, filled, gone, outVars>>

\* Coming up releases the first read semaphore.
InterfaceUp ==
    /\ ~up
    /\ up' = TRUE /\ reconnect' = TRUE
    /\ rsem' = TRUE
    /\ inTrouble' = inTrouble \union
                      If("early", rsem \/ ~rwait \/ rpc # "header")
    /\ UNCHANGED <<drops, sent, pipe, rpc, chunk, rwait, rlate, rreq, hdr,
                   prev, handled, filled, gone, outVars>>
-----------------------------------------------------------------------------
Reader == ReadCall \/ ReadReturns
Writer == WriteCall \/ WriteReturns

LinkNext ==
    \/ \E n \in 0..InChunks : HostSends(n)
    \/ \E n \in 0..OutChunks : EventSend(n)
    \/ ReadCall \/ ReadTransferDone \/ ReadReturns \/ ReadTimesOut
    \/ WriteCall \/ WriteTransferDone \/ WriteReturns \/ WriteTimesOut
    \/ InterfaceDown \/ InterfaceUp

\* The threads run, the driver moves what the host has written or is ready to
\* read; nothing makes the interface come up.
LinkFairness ==
    /\ WF_usbVars(Reader) /\ WF_usbVars(ReadTransferDone)
    /\ WF_usbVars(Writer) /\ WF_usbVars(WriteTransferDone)

LinkSpec == LinkInit /\ [][LinkNext]_usbVars /\ LinkFairness
-----------------------------------------------------------------------------
LinkTypeOK ==
    /\ {up, reconnect, rwait, rlate, rsem, wwait, wlate, wsem} \subseteq BOOLEAN
    /\ drops \in 0..MaxDrops
    /\ Len(sent) <= MaxIn /\ Len(out) <= MaxOut
    /\ rpc \in {"header", "data", "dead"} /\ wpc \in {"idle", "header", "data"}
    /\ chunk \in 0..InChunks /\ wchunk \in 0..OutChunks
    /\ hdr \in Garbage..Len(sent) /\ prev \in 0..Len(sent)
    /\ Len(wreq) <= 1
    /\ inTrouble \union outTrouble \subseteq Troubles

\* Messages are handled once each and in order, none is left out but those the
\* interface took, data are never taken for a header, and data that came late
\* are there before the next message is handled; unless a data read was
\* abandoned or the interface came up at the wrong moment.
HandledOnceAndWhole ==
    inTrouble = {} =>
        /\ rpc # "dead"
        /\ \A j, k \in DOMAIN handled : j < k => handled[j] < handled[k]
        /\ 1..(hdr - 1) \subseteq ToSet(handled) \union gone
        /\ \A k \in 1..(Len(handled) - 1) :
             {handled[k]} \X (1..sent[handled[k]]) \subseteq
                 filled \union (gone \X (1..InChunks))

\* The unit that comes after u when messages of those many chunks are sent.
Follower(u, chunks) ==
    IF u[2] < chunks[u[1]] THEN <<u[1], u[2] + 1>> ELSE <<u[1] + 1, 0>>

\* Units of messages of those many chunks, each the one after the one before.
Consecutive(units, chunks) ==
    \A k \in DOMAIN units :
        /\ units[k][1] \in DOMAIN chunks
        /\ units[k][2] \in 0..chunks[units[k][1]]
        /\ k + 1 \in DOMAIN units => units[k + 1] = Follower(units[k], chunks)

\* The host reads what was sent, as it was sent, from the first header on,
\* unless a data write timed out or the interface went down.
SentWhole ==
    outTrouble = {} /\ drops = 0 =>
        /\ received # <<>> => received[1] = <<1, 0>>
        /\ Consecutive(received, out)

\* Both directions carry messages whole, in order and once, unless one of the
\* troubles above has come over them.
LinkKept == HandledOnceAndWhole /\ SentWhole

\* What the host writes is read.
PipeDrains == <>[](pipe = <<>> \/ rpc = "dead")

\* A send ends, unless the interface stays down or a pending write went with it.
SendsEnd ==
    wpc # "idle" ~> (wpc = "idle" \/ ~up \/ "severed" \in outTrouble)

\* Neither direction stops for good.
LinkServes == PipeDrains /\ SendsEnd
=============================================================================
