----------------------------- MODULE CrowdReboot -----------------------------
(***************************************************************************)
(* How the crowd application writes its flash, keeps its watchdog fed      *)
(* meanwhile, and has the device reset.                                    *)
(*                                                                         *)
(* The flash holds the firmware and, behind it, a layout: a count of the   *)
(* resets the application asked for and the reason of the last one.  Five  *)
(* threads write it, each in steps that others may come between:           *)
(*   main      at the start: reads the layout, puts "power off" back       *)
(*   consumer  of the tracking data, when the network is lost: records the *)
(*             reason and resets the device                                *)
(*   updater   writes a firmware and records its reset                     *)
(*   ipc       hears nothing from the second processor: records and resets *)
(*   cli       the telnet task: "firmapply", and "reset", which records    *)
(*             nothing                                                     *)
(* All but main first suspend the inference tasks and have the watchdog    *)
(* feed itself; nothing counts how many asked for that.                    *)
(***************************************************************************)
EXTENDS Integers, FiniteSets

CONSTANTS
    MaxBoots,     \* bound: starts of the device in a behaviour
    MaxImages,    \* bound: firmwares that arrive
    MaxBusy       \* bound: threads that write at once, besides main

ASSUME BoundsAssumption ==
    MaxBoots \in 1..7 /\ MaxImages \in Nat /\ MaxBusy \in Nat

VARIABLES
    layout,     \* what the flash holds at flash_offset
    firmware,   \* what it holds at offset 0
    pos,        \* where the offset of the one descriptor, spi_fd, points
    ram,        \* m_flash_layout
    phase,      \* where POSIX_Init is
    op,         \* thread -> the region it is writing
    step,       \* thread -> how far it is with that
    rec,        \* thread -> the layout it writes
    then,       \* updater: a reset follows the firmware it writes
    autoFeed,   \* WatchDog::auto_feed_enabled
    suspended,  \* the inference tasks and the ipc task are suspended
    boots,      \* starts so far
    images,     \* firmwares arrived so far
    resets,     \* history: resets that were recorded first
    cause,      \* history: reason of the latest reset
    lost        \* history: what has gone wrong between threads, see Mishaps

flash   == <<layout, firmware, pos>>
windows == <<autoFeed, suspended>>
device  == <<phase, ram, boots>>
history == <<resets, cause, lost>>
vars == <<flash, device, op, step, rec, then, windows, images, history>>

Threads   == {"main", "consumer", "updater", "ipc", "cli"}
Recorders == {"consumer", "updater", "ipc"}

PowerOff == 0
Network == 1
DeepBlocked == 2
Upgrade == 3
Reasons == {PowerOff, Network, DeepBlocked, Upgrade}

\* FlashLayout; const_valid_flag reads "blank" after an erase and "damaged"
\* when something else was written there.
Layouts == [flag : {"valid", "blank", "damaged"}, count : 0..MaxBoots,
            reason : Reasons]
Layout(count, reason) == [flag |-> "valid", count |-> count, reason |-> reason]
Fresh   == Layout(0, PowerOff)
Blank   == [Fresh EXCEPT !.flag = "blank"]
Damaged == [Fresh EXCEPT !.flag = "damaged"]
-----------------------------------------------------------------------------
(* The flash chip: programming a bit can clear it, only an erase sets it.  *)
BitAnd(a, b) ==
    LET bit(k) == ((a \div k) % 2) * ((b \div k) % 2) * k
    IN  bit(1) + bit(2) + bit(4)

Programmed(old, new) ==
    CASE old.flag = "blank"   -> new
      [] old.flag = "damaged" -> Damaged
      [] OTHER -> Layout(BitAnd(old.count, new.count),
                         BitAnd(old.reason, new.reason))

TasksExist == phase \in {"clear", "loop", "hung"}
WatchdogOn == TasksExist

\* "crossed": two threads had their data in the flash half written at once.
\* "cut": a reset came while another thread's were.
\* "early": in this start, a thread resumed the tasks in another one's window.
Mishaps == {"crossed", "cut", "early"}

If(mishap, happens) == IF happens THEN {mishap} ELSE {}

\* What t writes is neither as it was nor finished; a recorder has finished
\* when the reset it recorded comes.
InFlash(t) ==
    \/ op[t] = "layout"   /\ step[t] \in {"seek", "write", "resume", "reset"}
    \/ op[t] = "firmware" /\ step[t] \in {"seek", "write"}

\* Between deep_task_control's two calls.
InWindow(t) == t # "main" /\ step[t] \in {"erase", "seek", "write", "resume"}

\* Until main has read the layout and written it back, it tells of the last
\* start.
Unread == phase = "boot"

\* (mutant) every thread but main is suspended, the caller with them.
RunsIfMain(t) == ~(t # "main" /\ suspended)

\* The ipc task is one of those that suspending suspends.
Runs(t) == ~(t = "ipc" /\ suspended)

\* Keeping the processor busy with the flash.
Writing(t) == step[t] \in {"erase", "seek", "write"} /\ Runs(t)

Active == phase \notin {"dead", "over"}

Goto(t, s) == step' = [step EXCEPT ![t] = s]

Begin(t, region, first) ==
    /\ op' = [op EXCEPT ![t] = region]
    /\ Goto(t, first)

Finish(t) ==
    /\ op' = [op EXCEPT ![t] = "none"]
    /\ Goto(t, "idle")
    /\ rec' = [rec EXCEPT ![t] = Fresh]
-----------------------------------------------------------------------------
Quiet == [t \in Threads |-> "idle"]

Init ==
    /\ layout \in {Blank, Damaged} /\ firmware = "good" /\ pos = "past"
    /\ ram = Fresh /\ phase = "boot"
    /\ op = [t \in Threads |-> "none"] /\ step = Quiet
    /\ rec = [t \in Threads |-> Fresh] /\ then = FALSE
    /\ autoFeed = FALSE /\ suspended = FALSE
    /\ boots = 1 /\ images = 0
    /\ resets = 0 /\ cause = PowerOff /\ lost = {}

\* A reset, whoever asked for it; the firmware must be whole to start again.
Restart ==
    /\ phase' = IF boots = MaxBoots THEN "over"
                ELSE IF firmware = "good" THEN "boot" ELSE "dead"
    /\ boots' = IF boots = MaxBoots THEN boots ELSE boots + 1
    /\ ram' = Fresh /\ pos' = "past"
    /\ op' = [t \in Threads |-> "none"] /\ step' = Quiet
    /\ rec' = [t \in Threads |-> Fresh] /\ then' = FALSE
    /\ autoFeed' = FALSE /\ suspended' = FALSE
    /\ UNCHANGED <<layout, firmware, images>>

\* A reset nobody recorded: power, the watchdog, the reset command, or a
\* start that fails after the flash has been opened.
Unrecorded ==
    /\ Restart
    /\ cause' = PowerOff /\ UNCHANGED resets
    /\ lost' = (lost \ {"early"}) \union
                  If("cut", Unread \/ \E t \in Threads : InFlash(t))
-----------------------------------------------------------------------------
(* POSIX_Init                                                              *)

\* (mutant) what is written back is what was read.
ReadKeepsReason ==
    /\ phase = "boot" /\ step["main"] = "idle"
    /\ ram' = IF layout.flag = "valid" THEN layout ELSE Fresh
    /\ rec' = [rec EXCEPT !["main"] = ram']
    /\ pos' = "past"
    /\ Begin("main", "layout", "erase")
    /\ UNCHANGED <<layout, firmware, phase, boots, then, windows, images,
                   history>>

\* (mutant) the valid flag is not looked at.
ReadUnchecked ==
    /\ phase = "boot" /\ step["main"] = "idle"
    /\ ram' = layout
    /\ rec' = [rec EXCEPT !["main"] = [ram' EXCEPT !.reason = PowerOff]]
    /\ pos' = "past"
    /\ Begin("main", "layout", "erase")
    /\ UNCHANGED <<layout, firmware, phase, boots, then, windows, images,
                   history>>

\* SpiFlash::init: the copy written back says "power off".
MainRead ==
    /\ phase = "boot" /\ step["main"] = "idle"
    /\ ram' = IF layout.flag = "valid" THEN layout ELSE Fresh
    /\ rec' = [rec EXCEPT !["main"] = [ram' EXCEPT !.reason = PowerOff]]
    /\ pos' = "past"
    /\ Begin("main", "layout", "erase")
    /\ UNCHANGED <<layout, firmware, phase, boots, then, windows, images,
                   history>>

\* The consumer and the updater start, the watchdog, then the inference tasks;
\* then the reason is reset, with nothing suspended.
StartTasks ==
    /\ phase = "services"
    /\ phase' = "clear"
    /\ rec' = [rec EXCEPT !["main"] = [ram EXCEPT !.reason = PowerOff]]
    /\ Begin("main", "layout", "erase")
    /\ UNCHANGED <<flash, ram, boots, then, windows, images, history>>

\* The loop's call for the time may not come back: a short answer has it
\* wait for more.
Hang ==
    /\ phase = "loop" /\ phase' = "hung"
    /\ UNCHANGED <<flash, ram, boots, op, step, rec, then, windows, images,
                   history>>

Unhang ==
    /\ phase = "hung" /\ phase' = "loop"
    /\ UNCHANGED <<flash, ram, boots, op, step, rec, then, windows, images,
                   history>>
-----------------------------------------------------------------------------
(* What starts a thread writing.                                           *)

\* update_reboot_reason_recording writes a copy: m_flash_layout keeps the
\* values read at the start.
Copy(reason) == Layout(ram.count + 1, reason)

Record(t, reason) ==
    /\ rec' = [rec EXCEPT ![t] = Copy(reason)]
    /\ Begin(t, "layout", "suspend")

\* Bounds, not code: in the last start nobody begins to write but main.
Idle(t) ==
    /\ step[t] = "idle" /\ boots < MaxBoots
    /\ Cardinality({u \in Threads \ {"main"} : step[u] # "idle"}) < MaxBusy

\* The consumer has missed too many frames.
GiveUp ==
    /\ phase \in {"services", "clear", "loop", "hung"}
    /\ Idle("consumer")
    /\ Record("consumer", Network)
    /\ UNCHANGED <<flash, device, then, windows, images, history>>

\* The server sends files: a firmware, after which an unknown file may have
\* the reset forgotten, or only others.
UpdateArrives ==
    /\ phase \in {"services", "clear", "loop", "hung"}
    /\ Idle("updater")
    /\ \/ /\ images < MaxImages
          /\ images' = images + 1
          /\ then' \in BOOLEAN
          /\ Begin("updater", "firmware", "suspend")
          /\ UNCHANGED rec
       \/ /\ Record("updater", Upgrade)
          /\ UNCHANGED <<images, then>>
    /\ UNCHANGED <<flash, device, windows, history>>

\* Nothing came from the second processor for a minute.
IpcTimeout ==
    /\ TasksExist /\ Runs("ipc") /\ Idle("ipc")
    /\ Record("ipc", DeepBlocked)
    /\ UNCHANGED <<flash, device, then, windows, images, history>>

\* The firmapply command; without a file on the card it only suspends and
\* resumes.
FirmApply ==
    /\ Active /\ ~Unread /\ Idle("cli")
    /\ images < MaxImages
    /\ images' = images + 1
    /\ \E region \in {"firmware", "none"} : Begin("cli", region, "suspend")
    /\ UNCHANGED <<flash, device, rec, then, windows, history>>
-----------------------------------------------------------------------------
(* The steps of a write.                                                   *)

\* (mutant) the tasks are suspended, the watchdog does not feed itself.
SuspendUnfed(t) ==
    /\ Runs(t) /\ step[t] = "suspend"
    /\ suspended' = (suspended \/ TasksExist)
    /\ Goto(t, IF op[t] = "none" THEN "resume" ELSE "erase")
    /\ UNCHANGED <<flash, device, op, rec, then, autoFeed, images, history>>

\* deep_task_control(0), then a wait.
Suspend(t) ==
    /\ Runs(t) /\ step[t] = "suspend"
    /\ autoFeed' = TRUE
    /\ suspended' = (suspended \/ TasksExist)
    /\ Goto(t, IF op[t] = "none" THEN "resume" ELSE "erase")
    /\ UNCHANGED <<flash, device, op, rec, then, images, history>>

Erase(t) ==
    /\ Runs(t) /\ step[t] = "erase"
    /\ IF op[t] = "layout"
       THEN layout' = Blank /\ UNCHANGED firmware
       ELSE firmware' = "blank" /\ UNCHANGED layout
    /\ Goto(t, "seek")
    /\ lost' = lost \union If("crossed", \E u \in Threads \ {t} : InFlash(u))
    /\ UNCHANGED <<pos, device, op, rec, then, windows, images, resets, cause>>

\* (mutant) no seek for offset 0.
SeekBeyondZero(t) ==
    /\ Runs(t) /\ step[t] = "seek"
    /\ pos' = IF op[t] = "layout" THEN "layout" ELSE pos
    /\ Goto(t, "write")
    /\ UNCHANGED <<layout, firmware, device, op, rec, then, windows, images,
                   history>>

SeekTo(t) ==
    /\ Runs(t) /\ step[t] = "seek"
    /\ pos' = op[t]
    /\ Goto(t, "write")
    /\ UNCHANGED <<layout, firmware, device, op, rec, then, windows, images,
                   history>>

\* After the last write of its own: main goes on, the others resume.
AfterWrite(t) ==
    IF t = "main"
    THEN /\ Finish(t)
         /\ phase' = IF phase = "boot" THEN "services" ELSE "loop"
    ELSE Goto(t, "resume") /\ UNCHANGED <<op, phase, rec>>

\* The data go where the shared offset points by now.
Write(t) ==
    /\ Runs(t) /\ step[t] = "write"
    /\ pos' = "past"
    /\ layout' = IF pos # "layout" THEN layout
                 ELSE IF op[t] = "layout" THEN Programmed(layout, rec[t])
                 ELSE Damaged
    /\ firmware' = IF pos # "firmware" THEN firmware
                   ELSE IF op[t] = "firmware" /\ firmware = "blank" THEN "good"
                   ELSE "damaged"
    /\ AfterWrite(t)
    /\ UNCHANGED <<ram, boots, then, windows, images, history>>

\* (mutant) the watchdog goes on feeding itself.
ResumeStillFed(t) ==
    /\ Runs(t) /\ step[t] = "resume"
    /\ suspended' = FALSE
    /\ lost' = lost \union If("early", \E u \in Threads \ {t} : InWindow(u))
    /\ CASE op[t] = "layout" -> Goto(t, "reset") /\ UNCHANGED <<op, rec>>
         [] op[t] = "firmware" /\ t = "updater" /\ then -> Record(t, Upgrade)
         [] OTHER -> Finish(t)
    /\ then' = (then /\ t # "updater")
    /\ UNCHANGED <<flash, device, autoFeed, images, resets, cause>>

\* deep_task_control(1): whoever else has asked for the suspension.
Resume(t) ==
    /\ Runs(t) /\ step[t] = "resume"
    /\ autoFeed' = FALSE
    /\ suspended' = FALSE
    /\ lost' = lost \union If("early", \E u \in Threads \ {t} : InWindow(u))
    /\ CASE op[t] = "layout" -> Goto(t, "reset") /\ UNCHANGED <<op, rec>>
         [] op[t] = "firmware" /\ t = "updater" /\ then -> Record(t, Upgrade)
         [] OTHER -> Finish(t)
    /\ then' = (then /\ t # "updater")
    /\ UNCHANGED <<flash, device, images, resets, cause>>

\* The logging is stopped, a second passes, and the device is reset.
SystemReset(t) ==
    /\ Runs(t) /\ step[t] = "reset"
    /\ Restart
    /\ resets' = resets + 1
    /\ cause' = rec[t].reason
    /\ lost' = (lost \ {"early"}) \union
                  If("cut", \E u \in Threads \ {t} : InFlash(u))
-----------------------------------------------------------------------------
(* Resets nobody records.                                                  *)

\* Nobody feeds the watchdog: main hangs, or the flash keeps the processor.
WatchdogFires ==
    /\ WatchdogOn /\ ~autoFeed
    /\ phase = "hung" \/ \E t \in Threads : Writing(t)
    /\ Unrecorded

PowerCut == Active /\ Unrecorded
-----------------------------------------------------------------------------
Advance(t) ==
    Suspend(t) \/ Erase(t) \/ SeekTo(t) \/ Write(t) \/ Resume(t) \/ SystemReset(t)

Next ==
    \/ MainRead \/ StartTasks \/ Hang \/ Unhang
    \/ GiveUp \/ UpdateArrives \/ IpcTimeout \/ FirmApply
    \/ \E t \in Threads :
         \/ Suspend(t) \/ Erase(t) \/ SeekTo(t)
         \/ Write(t) \/ Resume(t) \/ SystemReset(t)
    \/ WatchdogFires \/ PowerCut

\* Threads that are not suspended run and the watchdog counts down by itself;
\* nothing makes a call return, a file arrive or the power fail.
Fairness ==
    /\ WF_vars(MainRead) /\ WF_vars(StartTasks)
    /\ \A t \in Threads : WF_vars(Advance(t))
    /\ WF_vars(phase = "hung" /\ WatchdogFires)

Spec == Init /\ [][Next]_vars /\ Fairness
-----------------------------------------------------------------------------
TypeOK ==
    /\ layout \in Layouts
    /\ ram \in Layouts /\ ram.flag = "valid"
    /\ firmware \in {"good", "blank", "damaged"}
    /\ pos \in {"layout", "firmware", "past"}
    /\ phase \in {"boot", "services", "clear", "loop", "hung", "dead", "over"}
    /\ op \in [Threads -> {"none", "layout", "firmware"}]
    /\ step \in [Threads -> {"idle", "suspend", "erase", "seek", "write",
                             "resume", "reset"}]
    /\ rec \in [Threads -> Layouts]
    /\ {then, autoFeed, suspended} \subseteq BOOLEAN /\ lost \subseteq Mishaps
    /\ boots \in 1..MaxBoots /\ images \in 0..MaxImages
    /\ resets \in 0..MaxBoots /\ cause \in Reasons

\* Once started, the device knows how many resets it asked for and why the
\* last one came, unless a reset fell into another thread's write or two
\* threads wrote the flash at once.
RecordTruthful ==
    phase \in {"services", "clear", "loop", "hung"} /\ {"crossed", "cut"} \cap lost = {}
        => ram = Layout(resets, cause)

\* The device starts after every reset, unless one cut a write short or two
\* threads moved the shared offset about.
FirmwareTornOnlyBy ==
    phase = "dead" => {"crossed", "cut"} \cap lost # {}

\* A thread that writes between suspending and resuming has the watchdog
\* feed itself, unless another thread resumed in the meantime.
FedWhileWriting ==
    "early" \notin lost =>
        \A t \in Threads \ {"main"} : Writing(t) => autoFeed

\* The flash survives its writers: the firmware is whole unless one of two causes
\* is to blame, and the watchdog does not strike while a thread writes.
FlashGuarded == FirmwareTornOnlyBy /\ FedWhileWriting

\* A thread that begins to record a reset resets the device.
Doomed(t) == op[t] = "layout" /\ step[t] # "idle"
ResetFollows(t) == Doomed(t) ~> ~Doomed(t)
RecorderResets == \A t \in {"consumer", "updater"} : ResetFollows(t)

\* The main task hangs for ever only when the ipc task has suspended itself:
\* otherwise the watchdog ends it.
IpcStuck == step["ipc"] \in {"erase", "seek", "write", "resume"} /\ ~Runs("ipc")
HangEnds == <>[](phase = "hung") => <>[]IpcStuck

\* A device in trouble starts anew: whoever set out to reset it does, and a main
\* task that hangs is ended. (The ipc task is no such thread: it suspends itself
\* on the way, with the watchdog feeding itself.)
TroubleEnds == RecorderResets /\ HangEnds
=============================================================================
