---------------------------- MODULE CrowdApp_proofs ----------------------------
(***************************************************************************)
(* Two parts of the crowd application.                                     *)
(*                                                                         *)
(* What the flash and the watchdog go through while five threads write,    *)
(* for any number of firmwares, of writers at once and of starts up to the *)
(* bound.  As long as no write was crossed and none was cut, at most one   *)
(* thread has its data in the flash, and what the flash holds follows from *)
(* which one that is and how far it has come.                              *)
(*                                                                         *)
(* How the tracker deals out what was detected, for any size of the boxes, *)
(* any thresholds and any number of detections and frames up to the bound. *)
(* A pairing of least cost leaves nobody over who is within reach of       *)
(* somebody left over: exchanging one pair, or two, would make it cheaper. *)
(* Level by level this adds up to the order the detections are dealt in.   *)
(***************************************************************************)
EXTENDS CrowdReboot, Tracker, SequenceTheorems, FiniteSetTheorems,
        WellFoundedInduction, TLAPS

Clean == "crossed" \notin lost /\ "cut" \notin lost

Up == phase \in {"services", "clear", "loop", "hung"}

\* Where a thread can be with what it writes; in a start that has not read the layout,
\* and in the last one, only main writes.
StepsKept ==
  /\ \A t \in Threads :
       /\ step[t] = "idle" => op[t] = "none"
       /\ step[t] \in {"erase", "seek", "write"} => op[t] # "none"
       /\ step[t] = "reset" => op[t] = "layout"
       /\ t # "main" /\ (~Up \/ boots = MaxBoots) => step[t] = "idle"
  /\ step["main"] \in {"idle", "erase", "seek", "write"} /\ op["main"] # "firmware"
  /\ step["main"] # "idle" => phase \in {"boot", "clear"}
  /\ phase = "clear" => step["main"] # "idle"

\* No count is ahead of the starts.
CountsKept ==
  /\ layout.count <= boots /\ (phase = "boot" => layout.count < boots)
  /\ ram.count < boots
  /\ \A t \in Threads : rec[t].count <= boots /\ rec[t].flag = "valid"
  /\ rec["main"].count < boots
  /\ resets <= boots /\ (phase # "over" => resets < boots)

\* Two threads in the flash have been noticed.
Alone == Clean => \A t, u \in Threads : InFlash(t) /\ InFlash(u) => t = u

\* What main has read, and what is written with it.
ReadKept ==
  Clean =>
    /\ Up \/ step["main"] # "idle" => ram = Layout(resets, cause)
    /\ step["main"] # "idle" => rec["main"] = Layout(resets, PowerOff)
    /\ \A t \in Threads : t # "main" /\ op[t] = "layout" => rec[t].count = resets + 1

\* What the flash holds behind the firmware.
LayoutKept ==
  Clean =>
    /\ phase = "boot" /\ step["main"] \in {"idle", "erase"} =>
         IF boots = 1 THEN layout \in {Blank, Damaged} /\ resets = 0 /\ cause = PowerOff
                      ELSE layout = Layout(resets, cause)
    /\ Up /\ (\A t \in Threads : op[t] = "layout" => ~InFlash(t)) =>
         layout = Layout(resets, PowerOff)
    /\ \A t \in Threads : op[t] = "layout" =>
         /\ step[t] \in {"seek", "write"} => layout = Blank
         /\ step[t] = "write" => pos = "layout"
         /\ step[t] \in {"resume", "reset"} => layout = rec[t]

FirmwareKept ==
  Clean =>
    /\ phase # "dead"
    /\ (\A t \in Threads : op[t] = "firmware" => ~InFlash(t)) => firmware = "good"
    /\ \A t \in Threads : op[t] = "firmware" =>
         /\ step[t] \in {"seek", "write"} => firmware = "blank"
         /\ step[t] = "write" => pos = "firmware"

FedInWindow == "early" \notin lost => \A t \in Threads : InWindow(t) => autoFeed

IInv ==
  /\ TypeOK /\ StepsKept /\ CountsKept /\ Alone /\ ReadKept /\ LayoutKept
  /\ FirmwareKept /\ FedInWindow

USE BoundsAssumption
-----------------------------------------------------------------------------
(* Steps of the same kind                                                  *)

\* A thread begins to write, or only to suspend and resume.
Starts(t) ==
  /\ t \in Threads \ {"main"} /\ step[t] = "idle" /\ Up /\ boots < MaxBoots
  /\ step' = [step EXCEPT ![t] = "suspend"]
  /\ \/ \E reason \in Reasons : /\ op' = [op EXCEPT ![t] = "layout"]
                                /\ rec' = [rec EXCEPT ![t] = Copy(reason)]
     \/ \E region \in {"firmware", "none"} : /\ op' = [op EXCEPT ![t] = region]
                                             /\ rec' = rec
  /\ then' \in BOOLEAN /\ images' \in 0..MaxImages
  /\ UNCHANGED <<layout, firmware, pos, ram, phase, boots, autoFeed, suspended, resets,
                 cause, lost>>

\* The device is reset, by a thread that recorded it or by nobody.
Restarts ==
  /\ phase \notin {"dead", "over"} /\ Restart
  /\ Clean' => Clean
  /\ lost' \subseteq Mishaps
  /\ \/ \E t \in Threads : /\ step[t] = "reset"
                           /\ resets' = resets + 1 /\ cause' = rec[t].reason
                           /\ Clean' => \A u \in Threads \ {t} : ~InFlash(u)
     \/ /\ resets' = resets /\ cause' = PowerOff
        /\ Clean' => phase # "boot" /\ \A u \in Threads : ~InFlash(u)

Moves ==
  \/ MainRead \/ StartTasks \/ Hang \/ Unhang
  \/ \E t \in Threads : Starts(t)
  \/ \E t \in Threads : Suspend(t) \/ Erase(t) \/ SeekTo(t) \/ Write(t) \/ Resume(t)
  \/ Restarts
  \/ UNCHANGED vars

LEMMA NextMoves ==
  ASSUME IInv, [Next]_vars
  PROVE  Moves
<1> USE DEF flash, windows, device, history, Record, Begin, Goto, Idle, Threads, Reasons,
            Network, Upgrade, DeepBlocked, PowerOff
<1>0. TypeOK /\ StepsKept
  BY DEF IInv
<1>1. GiveUp => Starts("consumer")
  BY <1>0 DEF GiveUp, Starts, Up, TypeOK
<1>2. UpdateArrives => Starts("updater")
  BY <1>0 DEF UpdateArrives, Starts, Up, TypeOK
<1>3. IpcTimeout => Starts("ipc")
  BY <1>0 DEF IpcTimeout, Starts, Up, TypeOK, TasksExist
<1>4. ASSUME FirmApply PROVE Starts("cli")
  <2>1. Up /\ images' \in 0..MaxImages /\ then' \in BOOLEAN
    BY <1>0, <1>4 DEF FirmApply, Up, TypeOK, Active, Unread
  <2>2. \E region \in {"firmware", "none"} : op' = [op EXCEPT !["cli"] = region]
    BY <1>4 DEF FirmApply
  <2>3. QED
    BY <1>4, <2>1, <2>2 DEF FirmApply, Starts
<1>5. ASSUME NEW t \in Threads, SystemReset(t) PROVE Restarts
  <2>1. phase \notin {"dead", "over"}
    BY <1>0, <1>5 DEF SystemReset, StepsKept, Up
  <2> DEFINE cut == \E u \in Threads \ {t} : InFlash(u)
  <2>2. lost' = (lost \ {"early"}) \union (IF cut THEN {"cut"} ELSE {})
    BY <1>5 DEF SystemReset, If
  <2> HIDE DEF cut
  <2>3. lost' \subseteq Mishaps /\ (Clean' => Clean /\ ~cut)
    BY <1>0, <2>2 DEF TypeOK, Clean, Mishaps
  <2> USE DEF cut
  <2>4. QED
    BY <1>5, <2>1, <2>3 DEF SystemReset, Restarts
<1>6. ASSUME Unrecorded, phase \notin {"dead", "over"} PROVE Restarts
  <2> DEFINE cut == phase = "boot" \/ \E u \in Threads : InFlash(u)
  <2>1. lost' = (lost \ {"early"}) \union (IF cut THEN {"cut"} ELSE {})
    BY <1>6 DEF Unrecorded, Unread, If
  <2> HIDE DEF cut
  <2>2. lost' \subseteq Mishaps /\ (Clean' => Clean /\ ~cut)
    BY <1>0, <2>1 DEF TypeOK, Clean, Mishaps
  <2> USE DEF cut
  <2>3. QED
    BY <1>6, <2>2 DEF Unrecorded, Restarts
<1>7. WatchdogFires \/ PowerCut => Restarts
  BY <1>6 DEF WatchdogFires, PowerCut, WatchdogOn, TasksExist, Active
<1>8. QED
  BY <1>1, <1>2, <1>3, <1>4, <1>5, <1>7 DEF Next, Moves

-----------------------------------------------------------------------------
(* The chip                                                                *)

LEMMA BitAndBelow ==
  ASSUME NEW a \in 0..7, NEW b \in 0..7
  PROVE  BitAnd(a, b) \in 0..b
<1> DEFINE x(k) == (a \div k) % 2
           y(k) == (b \div k) % 2
<1>1. /\ x(1) \in 0..1 /\ x(2) \in 0..1 /\ x(4) \in 0..1
      /\ y(1) \in 0..1 /\ y(2) \in 0..1 /\ y(4) \in 0..1
  OBVIOUS
<1>2. y(1) + 2 * y(2) + 4 * y(4) = b
  OBVIOUS
<1>3. /\ x(1) * y(1) \in 0..y(1) /\ x(2) * y(2) \in 0..y(2) /\ x(4) * y(4) \in 0..y(4)
  BY <1>1
<1>4. BitAnd(a, b) = x(1) * y(1) * 1 + x(2) * y(2) * 2 + x(4) * y(4) * 4
  BY DEF BitAnd
<1> HIDE DEF x, y
<1>5. QED
  BY <1>1, <1>2, <1>3, <1>4

LEMMA ProgrammedType ==
  ASSUME NEW old \in Layouts, NEW new \in Layouts
  PROVE  /\ Programmed(old, new) \in Layouts
         /\ Programmed(old, new).count <= new.count
<1> USE DEF Layouts, Layout, Fresh, Damaged, Reasons, PowerOff, Network, DeepBlocked, Upgrade
<1>1. old.count \in 0..7 /\ new.count \in 0..7 /\ old.reason \in 0..7 /\ new.reason \in 0..7
  OBVIOUS
<1>2. BitAnd(old.count, new.count) \in 0..new.count
        /\ BitAnd(old.reason, new.reason) \in 0..new.reason
  BY <1>1, BitAndBelow
<1>3. CASE old.flag = "blank"
  BY <1>3 DEF Programmed
<1>4. CASE old.flag = "damaged"
  BY <1>4 DEF Programmed
<1>5. CASE old.flag = "valid"
  BY <1>1, <1>2, <1>5 DEF Programmed
<1>6. QED
  BY <1>3, <1>4, <1>5

-----------------------------------------------------------------------------
(* One lemma for each part of the invariant                                *)

LEMMA Numbers ==
  ASSUME IInv
  PROVE  /\ boots \in Nat /\ boots >= 1 /\ boots <= MaxBoots /\ resets \in Nat
         /\ layout \in Layouts /\ layout.count \in Nat /\ ram \in Layouts /\ ram.count \in Nat
         /\ \A t \in Threads : rec[t] \in Layouts /\ rec[t].count \in Nat
         /\ "main" \in Threads
<1>1. \A x \in Layouts : x.count \in Nat
  BY DEF Layouts
<1>2. "main" \in Threads
  BY DEF Threads
<1>3. QED
  BY <1>1, <1>2 DEF IInv, TypeOK

LEMMA RestartInv ==
  ASSUME IInv, Restarts
  PROVE  /\ StepsKept' /\ CountsKept' /\ Alone' /\ ReadKept' /\ LayoutKept'
         /\ FirmwareKept' /\ FedInWindow'
<1>1. /\ \A t \in Threads : step'[t] = "idle" /\ op'[t] = "none" /\ rec'[t] = Fresh
      /\ phase' \in {"boot", "dead", "over"} /\ ram' = Fresh
      /\ phase' = "dead" => firmware # "good"
      /\ UNCHANGED <<layout, firmware>>
  BY DEF Restarts, Restart, Quiet
<1>2. "main" \in Threads
  BY DEF Threads
<1>3. /\ boots \in Nat /\ boots >= 1 /\ boots <= MaxBoots /\ resets \in Nat /\ layout.count \in Nat
      /\ resets < boots /\ layout.count <= boots
      /\ phase' # "over" => boots' = boots + 1
      /\ boots' \in {boots, boots + 1}
      /\ resets' \in {resets, resets + 1}
  <2>1. resets < boots /\ layout.count <= boots
    BY DEF IInv, CountsKept, Restarts
  <2>2. /\ phase' # "over" => boots' = boots + 1
        /\ boots' \in {boots, boots + 1}
    BY DEF Restarts, Restart
  <2>3. resets' \in {resets, resets + 1}
    BY DEF Restarts
  <2>4. QED
    BY <2>1, <2>2, <2>3, Numbers
<1>4. StepsKept'
  BY <1>1, <1>2 DEF StepsKept
<1>5. CountsKept'
  BY <1>1, <1>2, <1>3 DEF CountsKept, Fresh, Layout
<1>6. Alone' /\ FedInWindow'
  BY <1>1 DEF Alone, InFlash, FedInWindow, InWindow
<1>7. ReadKept'
  BY <1>1, <1>2 DEF ReadKept, Up
<1>8. ASSUME Clean' PROVE layout = Layout(resets', cause') /\ firmware = "good"
  <2>1. Clean
    BY <1>8 DEF Restarts
  <2>2. ASSUME NEW t \in Threads, step[t] = "reset", resets' = resets + 1, cause' = rec[t].reason,
               \A u \in Threads \ {t} : ~InFlash(u)
        PROVE  layout = Layout(resets', cause') /\ firmware = "good"
    <3>1. op[t] = "layout" /\ t # "main"
      BY <2>2 DEF IInv, StepsKept
    <3>2. layout = rec[t] /\ rec[t].count = resets + 1 /\ rec[t].flag = "valid"
            /\ rec[t] \in Layouts
      BY <2>1, <2>2, <3>1 DEF IInv, LayoutKept, ReadKept, CountsKept, TypeOK
    <3>3. layout = Layout(resets', cause')
      BY <2>2, <3>2 DEF Layouts, Layout
    <3>4. QED
      BY <2>1, <2>2, <3>1, <3>3 DEF IInv, FirmwareKept
  <2>3. ASSUME resets' = resets, cause' = PowerOff, phase # "boot", \A u \in Threads : ~InFlash(u)
        PROVE  layout = Layout(resets', cause') /\ firmware = "good"
    <3>1. Up
      BY <2>3 DEF IInv, TypeOK, Up, Restarts
    <3>2. QED
      BY <2>1, <2>3, <3>1 DEF IInv, LayoutKept, FirmwareKept
  <2>4. QED
    BY <1>8, <2>2, <2>3 DEF Restarts
<1>9. LayoutKept'
  BY <1>1, <1>2, <1>3, <1>8 DEF LayoutKept, Up
<1>10. FirmwareKept'
  BY <1>1, <1>8 DEF FirmwareKept
<1>11. QED
  BY <1>4, <1>5, <1>6, <1>7, <1>9, <1>10

\* While nothing was crossed, a thread that touches the flash is alone with it.
LEMMA AloneThere ==
  ASSUME IInv, Clean, NEW t \in Threads, InFlash(t)
  PROVE  \A u \in Threads \ {t} : ~InFlash(u)
BY DEF IInv, Alone

LEMMA EraseClean ==
  ASSUME IInv, Clean', NEW t \in Threads, Erase(t)
  PROVE  /\ Clean /\ \A u \in Threads \ {t} : ~InFlash(u)
         /\ \/ op[t] = "layout" /\ layout' = Blank /\ firmware' = firmware
            \/ op[t] = "firmware" /\ firmware' = "blank" /\ layout' = layout
<1>1. op[t] \in {"layout", "firmware"}
  BY DEF IInv, TypeOK, StepsKept, Erase
<1>2. QED
  BY <1>1 DEF Erase, Clean, If

\* The data go where they belong, to cells that are blank.
LEMMA WriteClean ==
  ASSUME IInv, Clean, NEW t \in Threads, Write(t)
  PROVE  /\ \A u \in Threads \ {t} : ~InFlash(u)
         /\ \/ op[t] = "layout" /\ layout' = rec[t] /\ firmware' = firmware
            \/ op[t] = "firmware" /\ firmware' = "good" /\ layout' = layout
<1>1. op[t] \in {"layout", "firmware"} /\ step[t] = "write"
  BY DEF IInv, TypeOK, StepsKept, Write
<1>2. \A u \in Threads \ {t} : ~InFlash(u)
  BY <1>1, AloneThere DEF InFlash
<1>3. CASE op[t] = "layout"
  <2>1. layout.flag = "blank" /\ pos = "layout"
    BY <1>1, <1>3 DEF IInv, LayoutKept, Blank, Fresh, Layout
  <2>2. QED
    BY <1>2, <1>3, <2>1 DEF Write, Programmed
<1>4. CASE op[t] = "firmware"
  BY <1>1, <1>2, <1>4 DEF IInv, FirmwareKept, Write
<1>5. QED
  BY <1>1, <1>3, <1>4

LEMMA ResumeParts ==
  ASSUME IInv, NEW t \in Threads, Resume(t)
  PROVE  /\ UNCHANGED <<layout, firmware, pos, phase, ram, boots, images, resets, cause>>
         /\ autoFeed' = FALSE /\ suspended' = FALSE
         /\ then' \in {then, FALSE}
         /\ lost \subseteq lost' /\ lost' \subseteq Mishaps
         /\ (Clean' <=> Clean) /\ step[t] = "resume" /\ t # "main" /\ Up
         /\ \A u \in Threads \ {t} :
              /\ op'[u] = op[u] /\ rec'[u] = rec[u] /\ step'[u] = step[u]
              /\ InFlash(u)' <=> InFlash(u)
         /\ \/ /\ op[t] = "layout" /\ op' = op /\ rec' = rec
               /\ step' = [step EXCEPT ![t] = "reset"]
            \/ /\ op[t] = "firmware" /\ op' = [op EXCEPT ![t] = "layout"]
               /\ rec' = [rec EXCEPT ![t] = Copy(Upgrade)]
               /\ step' = [step EXCEPT ![t] = "suspend"]
            \/ /\ op[t] # "layout" /\ op' = [op EXCEPT ![t] = "none"]
               /\ rec' = [rec EXCEPT ![t] = Fresh]
               /\ step' = [step EXCEPT ![t] = "idle"]
<1>0. TypeOK /\ StepsKept
  BY DEF IInv
<1>1. \/ /\ op[t] = "layout" /\ op' = op /\ rec' = rec
         /\ step' = [step EXCEPT ![t] = "reset"]
      \/ /\ op[t] = "firmware" /\ op' = [op EXCEPT ![t] = "layout"]
         /\ rec' = [rec EXCEPT ![t] = Copy(Upgrade)]
         /\ step' = [step EXCEPT ![t] = "suspend"]
      \/ /\ op[t] # "layout" /\ op' = [op EXCEPT ![t] = "none"]
         /\ rec' = [rec EXCEPT ![t] = Fresh]
         /\ step' = [step EXCEPT ![t] = "idle"]
  <2>1. CASE op[t] = "layout"
    BY <2>1 DEF Resume, Goto
  <2>2. CASE op[t] = "firmware" /\ t = "updater" /\ then
    BY <2>2 DEF Resume, Record, Begin, Goto
  <2>3. CASE op[t] # "layout" /\ ~(op[t] = "firmware" /\ t = "updater" /\ then)
    BY <2>3 DEF Resume, Finish, Goto
  <2>4. QED
    BY <2>1, <2>2, <2>3
<1>2. step[t] = "resume" /\ t # "main" /\ Up
  BY <1>0 DEF Resume, StepsKept
<1>3. \A u \in Threads \ {t} : op'[u] = op[u] /\ rec'[u] = rec[u] /\ step'[u] = step[u]
  BY <1>0, <1>1 DEF TypeOK
<1>4. \A u \in Threads \ {t} : InFlash(u)' <=> InFlash(u)
  BY <1>3 DEF InFlash
<1>5. lost \subseteq lost' /\ lost' \subseteq Mishaps /\ (Clean' <=> Clean)
  <2>1. lost' = lost \/ lost' = lost \union {"early"}
    BY DEF Resume, If
  <2>2. QED
    BY <1>0, <2>1 DEF TypeOK, Mishaps, Clean
<1>6. then' \in {then, FALSE}
  <2>1. then \in BOOLEAN
    BY <1>0 DEF TypeOK
  <2>2. QED
    BY <2>1 DEF Resume
<1>7. QED
  BY <1>1, <1>2, <1>3, <1>4, <1>5, <1>6 DEF Resume, flash, device

\* What LayoutKept says outlasts a step of a thread that touches nothing.
LEMMA LayoutCarried ==
  ASSUME LayoutKept, Clean' => Clean, Up, NEW t \in Threads, t # "main",
         UNCHANGED <<layout, pos, phase, boots, resets, cause>>,
         \A u \in Threads \ {t} : op'[u] = op[u] /\ rec'[u] = rec[u] /\ step'[u] = step[u],
         op[t] = "layout" => step[t] \in {"idle", "suspend", "erase"},
         op'[t] = "layout" => step'[t] \in {"idle", "suspend", "erase"}
  PROVE  LayoutKept'
<1>1. SUFFICES ASSUME Clean' PROVE LayoutKept'
  BY DEF LayoutKept
<1>2. phase' # "boot" /\ Clean
  BY <1>1 DEF Up
<1>3. ASSUME \A u \in Threads : op'[u] = "layout" => ~InFlash(u)'
      PROVE  layout' = Layout(resets', PowerOff)
  <2>1. \A u \in Threads \ {t} : op[u] = "layout" => ~InFlash(u)
    BY <1>3 DEF InFlash
  <2>2. op[t] = "layout" => ~InFlash(t)
    BY DEF InFlash
  <2>3. QED
    BY <1>2, <2>1, <2>2 DEF LayoutKept
<1>4. ASSUME NEW u \in Threads, op'[u] = "layout"
      PROVE  /\ step'[u] \in {"seek", "write"} => layout' = Blank
             /\ step'[u] = "write" => pos' = "layout"
             /\ step'[u] \in {"resume", "reset"} => layout' = rec'[u]
  <2>1. CASE u = t
    BY <1>4, <2>1
  <2>2. CASE u # t
    BY <1>2, <1>4, <2>2 DEF LayoutKept
  <2>3. QED
    BY <2>1, <2>2
<1>5. QED
  BY <1>2, <1>3, <1>4 DEF LayoutKept

LEMMA StepsStep ==
  ASSUME IInv, [Next]_vars
  PROVE  StepsKept'
<1> USE DEF IInv, TypeOK, flash, windows, device, history, Begin, Goto, AfterWrite, Finish,
            StepsKept, Up, Threads
<1>1. CASE MainRead
  BY <1>1 DEF MainRead
<1>2. CASE StartTasks
  BY <1>2 DEF StartTasks
<1>3. CASE Hang
  BY <1>3 DEF Hang
<1>4. CASE Unhang
  BY <1>4 DEF Unhang
<1>5. ASSUME NEW t \in Threads, Starts(t) PROVE StepsKept'
  BY <1>5 DEF Starts, Copy
<1>6. ASSUME NEW t \in Threads, Suspend(t) PROVE StepsKept'
  BY <1>6 DEF Suspend
<1>7. ASSUME NEW t \in Threads, Erase(t) PROVE StepsKept'
  BY <1>7 DEF Erase
<1>8. ASSUME NEW t \in Threads, SeekTo(t) PROVE StepsKept'
  BY <1>8 DEF SeekTo
<1>9. ASSUME NEW t \in Threads, Write(t) PROVE StepsKept'
  BY <1>9 DEF Write
<1>10. ASSUME NEW t \in Threads, Resume(t) PROVE StepsKept'
  BY <1>10 DEF Resume, Record, Copy
<1>11. CASE Restarts
  BY <1>11, RestartInv
<1>12. CASE UNCHANGED vars
  BY <1>12 DEF vars
<1>13. QED
  BY <1>1, <1>2, <1>3, <1>4, <1>5, <1>6, <1>7, <1>8, <1>9, <1>10, <1>11, <1>12,
     NextMoves DEF Moves

LEMMA AloneStep ==
  ASSUME IInv, [Next]_vars
  PROVE  Alone'
<1> USE DEF IInv, TypeOK, flash, windows, device, history, Begin, Goto, AfterWrite, Finish,
            StepsKept, Alone, Clean, Threads, InFlash, If
<1>1. CASE MainRead
  BY <1>1 DEF MainRead
<1>2. CASE StartTasks
  BY <1>2 DEF StartTasks
<1>3. CASE Hang
  BY <1>3 DEF Hang
<1>4. CASE Unhang
  BY <1>4 DEF Unhang
<1>5. ASSUME NEW t \in Threads, Starts(t) PROVE Alone'
  BY <1>5 DEF Starts, Copy
<1>6. ASSUME NEW t \in Threads, Suspend(t) PROVE Alone'
  BY <1>6 DEF Suspend
<1>7. ASSUME NEW t \in Threads, Erase(t) PROVE Alone'
  BY <1>7 DEF Erase
<1>8. ASSUME NEW t \in Threads, SeekTo(t) PROVE Alone'
  BY <1>8 DEF SeekTo
<1>9. ASSUME NEW t \in Threads, Write(t) PROVE Alone'
  BY <1>9 DEF Write
<1>10. ASSUME NEW t \in Threads, Resume(t) PROVE Alone'
  BY <1>10 DEF Resume, Record, Copy
<1>11. CASE Restarts
  BY <1>11, RestartInv
<1>12. CASE UNCHANGED vars
  BY <1>12 DEF vars
<1>13. QED
  BY <1>1, <1>2, <1>3, <1>4, <1>5, <1>6, <1>7, <1>8, <1>9, <1>10, <1>11, <1>12,
     NextMoves DEF Moves

\* What the others begin to write is numbered from what main has read.
LEMMA UnreadBy ==
  ASSUME ReadKept, Clean' => Clean, NEW t \in Threads, t # "main",
         UNCHANGED <<ram, phase, resets, cause>>,
         step'["main"] = step["main"], rec'["main"] = rec["main"],
         \A u \in Threads \ {t} : op'[u] = op[u] /\ rec'[u] = rec[u],
         Clean /\ op'[t] = "layout" => rec'[t].count = resets + 1
  PROVE  ReadKept'
<1>1. SUFFICES ASSUME Clean'
               PROVE  /\ Up' \/ step'["main"] # "idle" => ram' = Layout(resets', cause')
                      /\ step'["main"] # "idle" => rec'["main"] = Layout(resets', PowerOff)
                      /\ \A u \in Threads : u # "main" /\ op'[u] = "layout" =>
                           rec'[u].count = resets' + 1
  BY DEF ReadKept
<1>2. Clean /\ Up' = Up
  BY <1>1 DEF Up
<1>3. QED
  BY <1>2 DEF ReadKept

LEMMA ReadStep ==
  ASSUME IInv, [Next]_vars
  PROVE  ReadKept'
<1> USE DEF flash, windows, device, history, Begin, Goto, Finish
<1>0. /\ "main" \in Threads /\ rec \in [Threads -> Layouts] /\ ram \in Layouts
      /\ step \in [Threads -> {"idle", "suspend", "erase", "seek", "write", "resume", "reset"}]
      /\ op \in [Threads -> {"none", "layout", "firmware"}]
      /\ \A t \in Threads : step[t] = "idle" => op[t] = "none"
      /\ step["main"] # "idle" => phase \in {"boot", "clear"}
      /\ step["main"] \in {"idle", "erase", "seek", "write"}
  BY Numbers DEF IInv, TypeOK, StepsKept
<1>1. CASE MainRead
  <2>1. /\ phase = "boot" /\ step["main"] = "idle" /\ step' = [step EXCEPT !["main"] = "erase"]
        /\ op' = [op EXCEPT !["main"] = "layout"] /\ phase' = "boot"
        /\ rec' = [rec EXCEPT !["main"] = [ram' EXCEPT !.reason = PowerOff]]
        /\ ram' = (IF layout.flag = "valid" THEN layout ELSE Fresh)
        /\ UNCHANGED <<resets, cause, lost>>
    BY <1>1 DEF MainRead
  <2>2. ASSUME Clean PROVE ram' = Layout(resets, cause)
    <3>1. CASE layout \in {Blank, Damaged} /\ resets = 0 /\ cause = PowerOff
      BY <2>1, <3>1 DEF Fresh, Blank, Damaged, Layout
    <3>2. CASE layout = Layout(resets, cause)
      BY <2>1, <3>2 DEF Layout
    <3>3. QED
      BY <2>1, <2>2, <3>1, <3>2 DEF IInv, LayoutKept
  <2>3. Clean => [ram' EXCEPT !.reason = PowerOff] = Layout(resets, PowerOff)
    BY <2>2 DEF Layout
  <2>4. \A t \in Threads : t # "main" => op[t] = "none"
    BY <1>0, <2>1 DEF IInv, StepsKept, Up
  <2>5. QED
    BY <1>0, <2>1, <2>2, <2>3, <2>4 DEF ReadKept, Clean
<1>2. CASE StartTasks
  <2>1. Clean => [ram EXCEPT !.reason = PowerOff] = Layout(resets, PowerOff)
    BY <1>2 DEF IInv, ReadKept, Up, StartTasks, Layout
  <2>2. QED
    BY <1>0, <1>2, <2>1 DEF StartTasks, IInv, ReadKept, Clean, Up
<1>3. CASE Hang \/ Unhang
  BY <1>3 DEF Hang, Unhang, IInv, ReadKept, Clean, Up
<1>4. ASSUME NEW t \in Threads, Starts(t) PROVE ReadKept'
  <2>1. /\ t # "main" /\ Up /\ step' = [step EXCEPT ![t] = "suspend"]
        /\ UNCHANGED <<ram, phase, resets, cause, lost>>
        /\ \/ /\ op' = [op EXCEPT ![t] = "layout"]
              /\ \E reason \in Reasons : rec' = [rec EXCEPT ![t] = Copy(reason)]
           \/ op'[t] # "layout" /\ rec' = rec /\ \A u \in Threads \ {t} : op'[u] = op[u]
    BY <1>0, <1>4 DEF Starts
  <2>2. \A reason : Clean => Copy(reason).count = resets + 1
    BY <2>1 DEF Copy, Layout, IInv, ReadKept
  <2>3. /\ step'["main"] = step["main"] /\ rec'["main"] = rec["main"]
        /\ \A u \in Threads \ {t} : op'[u] = op[u] /\ rec'[u] = rec[u]
        /\ Clean /\ op'[t] = "layout" => rec'[t].count = resets + 1
    BY <1>0, <2>1, <2>2
  <2>4. (Clean' => Clean) /\ t # "main" /\ UNCHANGED <<ram, phase, resets, cause>>
    BY <2>1 DEF Clean
  <2>5. QED
    BY <2>3, <2>4, UnreadBy DEF IInv
<1>5. ASSUME NEW t \in Threads, Suspend(t) \/ Erase(t) \/ SeekTo(t) PROVE ReadKept'
  <2>1. /\ UNCHANGED <<ram, phase, op, rec, resets, cause>>
        /\ Clean' => Clean
        /\ step'["main"] # "idle" => step["main"] # "idle"
        /\ step["main"] # "idle" => step'["main"] # "idle"
    BY <1>0, <1>5 DEF Suspend, Erase, SeekTo, Clean
  <2>2. QED
    BY <2>1 DEF IInv, ReadKept, Up
<1>6. ASSUME NEW t \in Threads, Write(t) PROVE ReadKept'
  <2>1. /\ UNCHANGED <<ram, resets, cause, lost>>
        /\ \A u \in Threads : u # "main" => op'[u] = op[u] /\ rec'[u] = rec[u]
        /\ Up' => Up \/ step["main"] # "idle"
        /\ step'["main"] # "idle" => step["main"] # "idle" /\ rec'["main"] = rec["main"]
    <3>1. CASE t = "main"
      BY <1>0, <1>6, <3>1 DEF Write, AfterWrite
    <3>2. CASE t # "main"
      BY <1>0, <1>6, <3>2 DEF Write, AfterWrite, Up
    <3>3. QED
      BY <3>1, <3>2
  <2>2. QED
    BY <2>1 DEF IInv, ReadKept, Clean
<1>7. ASSUME NEW t \in Threads, Resume(t) PROVE ReadKept'
  <2>1. /\ UNCHANGED <<ram, phase, resets, cause>>
        /\ Clean' => Clean
        /\ t # "main" /\ step[t] = "resume" /\ Up
    BY <1>0, <1>7 DEF Resume, Clean, IInv, StepsKept
  <2>2. /\ \A u \in Threads \ {t} : op'[u] = op[u] /\ rec'[u] = rec[u] /\ step'[u] = step[u]
        /\ op'[t] = "layout" =>
             (op[t] = "layout" /\ rec'[t] = rec[t]) \/ rec'[t] = Copy(Upgrade)
    BY <1>0, <1>7 DEF Resume, Record
  <2>3. Clean => Copy(Upgrade).count = resets + 1
    BY <2>1 DEF Copy, Layout, IInv, ReadKept
  <2>4. /\ step'["main"] = step["main"] /\ rec'["main"] = rec["main"]
        /\ Clean /\ op'[t] = "layout" => rec'[t].count = resets + 1
    BY <1>0, <2>1, <2>2, <2>3 DEF IInv, ReadKept
  <2>5. QED
    BY <2>1, <2>2, <2>4, UnreadBy DEF IInv
<1>8. CASE Restarts
  BY <1>8, RestartInv
<1>9. CASE UNCHANGED vars
  BY <1>9 DEF vars, IInv, ReadKept, Clean, Up
<1>10. QED
  BY <1>1, <1>2, <1>3, <1>4, <1>5, <1>6, <1>7, <1>8, <1>9, NextMoves DEF Moves

LEMMA LayoutStep ==
  ASSUME IInv, [Next]_vars
  PROVE  LayoutKept'
<1> USE DEF flash, windows, device, history, Begin, Goto, Finish
<1>0. /\ rec \in [Threads -> Layouts]
      /\ step \in [Threads -> {"idle", "suspend", "erase", "seek", "write", "resume", "reset"}]
      /\ op \in [Threads -> {"none", "layout", "firmware"}]
      /\ StepsKept /\ ReadKept /\ LayoutKept /\ FirmwareKept
      /\ \A t \in Threads :
           /\ step[t] = "idle" => op[t] = "none"
           /\ step[t] \in {"erase", "seek", "write"} => op[t] # "none"
           /\ step[t] = "reset" => op[t] = "layout"
           /\ t # "main" /\ step[t] # "idle" => Up
      /\ step["main"] \in {"idle", "erase", "seek", "write"} /\ op["main"] # "firmware"
      /\ step["main"] # "idle" => phase \in {"boot", "clear"}
  BY DEF IInv, TypeOK, StepsKept
<1>1. CASE MainRead
  BY <1>1, <1>0 DEF MainRead, LayoutKept, Clean, Up, InFlash
<1>2. CASE StartTasks
  BY <1>2, <1>0 DEF StartTasks, LayoutKept, Clean, Up, InFlash
<1>3. CASE Hang
  BY <1>3, <1>0 DEF Hang, LayoutKept, Clean, Up, InFlash
<1>4. CASE Unhang
  BY <1>4, <1>0 DEF Unhang, LayoutKept, Clean, Up, InFlash
<1>5. ASSUME NEW t \in Threads, Starts(t) PROVE LayoutKept'
  <2>1. /\ UNCHANGED <<layout, pos, phase, boots, resets, cause, lost>>
        /\ step[t] = "idle" /\ step'[t] = "suspend" /\ t # "main" /\ Up
        /\ \A u \in Threads \ {t} : step'[u] = step[u] /\ op'[u] = op[u] /\ rec'[u] = rec[u]
    BY <1>0, <1>5 DEF Starts
  <2>2. Clean' => Clean
    BY <2>1 DEF Clean
  <2>3. QED
    BY <1>0, <2>1, <2>2, LayoutCarried
<1>6. ASSUME NEW t \in Threads, Suspend(t) PROVE LayoutKept'
  <2>1. /\ UNCHANGED <<layout, pos, phase, boots, resets, cause, lost, op, rec>>
        /\ step[t] = "suspend" /\ step'[t] \in {"resume", "erase"}
        /\ op[t] # "none" => step'[t] = "erase"
        /\ \A u \in Threads \ {t} : step'[u] = step[u]
    BY <1>0, <1>6 DEF Suspend
  <2>2. t # "main" /\ Up /\ (Clean' => Clean)
    BY <1>0, <2>1 DEF Clean
  <2>3. QED
    BY <1>0, <2>1, <2>2, LayoutCarried
<1>7. ASSUME NEW t \in Threads, Erase(t) PROVE LayoutKept'
  <2>1. SUFFICES ASSUME Clean' PROVE LayoutKept'
    BY DEF LayoutKept
  <2>2. /\ Clean /\ \A u \in Threads \ {t} : ~InFlash(u)
        /\ \/ op[t] = "layout" /\ layout' = Blank
           \/ op[t] = "firmware" /\ layout' = layout
    BY <1>7, <2>1, EraseClean
  <2>3. /\ step' = [step EXCEPT ![t] = "seek"] /\ step[t] = "erase"
        /\ UNCHANGED <<phase, boots, pos, op, rec, resets, cause>>
    BY <1>7 DEF Erase
  <2>4. "main" \in Threads /\ (t = "main" \/ (Up /\ step'["main"] = step["main"]))
    BY <1>0, <2>3 DEF Threads
  <2>5. \A u \in Threads \ {t} : step'[u] = step[u] /\ ~(InFlash(u)')
    BY <1>0, <2>2, <2>3 DEF InFlash
  <2>6. step'[t] = "seek" /\ op[t] # "none"
    BY <1>0, <2>2, <2>3
  <2>7. CASE op[t] = "layout"
    BY <1>0, <2>1, <2>2, <2>3, <2>4, <2>5, <2>6, <2>7 DEF LayoutKept, InFlash, Up
  <2>8. CASE op[t] = "firmware"
    BY <1>0, <2>1, <2>2, <2>3, <2>4, <2>5, <2>6, <2>8 DEF LayoutKept, InFlash, Up
  <2>9. QED
    BY <2>2, <2>7, <2>8
<1>8. ASSUME NEW t \in Threads, SeekTo(t) PROVE LayoutKept'
  <2>1. /\ step' = [step EXCEPT ![t] = "write"] /\ step[t] = "seek" /\ pos' = op[t]
        /\ UNCHANGED <<phase, boots, layout, op, rec, resets, cause, lost>>
    BY <1>8 DEF SeekTo
  <2>2. SUFFICES ASSUME Clean, Clean' PROVE LayoutKept'
    BY <2>1 DEF LayoutKept, Clean
  <2>3. op[t] # "none" /\ InFlash(t)
    BY <1>0, <2>1 DEF InFlash
  <2>4. \A u \in Threads \ {t} : ~InFlash(u) /\ step'[u] = step[u]
    BY <1>0, <2>1, <2>2, <2>3, AloneThere
  <2>5. step'[t] = "write" /\ "main" \in Threads
    BY <1>0, <2>1 DEF Threads
  <2>6. QED
    BY <1>0, <2>1, <2>2, <2>3, <2>4, <2>5 DEF LayoutKept, InFlash, Up
<1>9. ASSUME NEW t \in Threads, Write(t) PROVE LayoutKept'
  <2>1. SUFFICES ASSUME Clean, Clean' PROVE LayoutKept'
    BY <1>9 DEF LayoutKept, Clean, Write
  <2>2. /\ \A u \in Threads \ {t} : ~InFlash(u)
        /\ \/ op[t] = "layout" /\ layout' = rec[t]
           \/ op[t] = "firmware" /\ layout' = layout
    BY <1>9, <2>1, WriteClean
  <2>3. CASE t = "main"
    <3>1. /\ step' = [step EXCEPT !["main"] = "idle"] /\ op' = [op EXCEPT !["main"] = "none"]
          /\ phase' \in {"services", "loop"} /\ step["main"] = "write"
          /\ UNCHANGED <<boots, resets, cause>>
      BY <1>9, <2>3 DEF Write, AfterWrite
    <3>2. /\ step'["main"] = "idle" /\ op'["main"] = "none"
          /\ \A u \in Threads \ {t} : step'[u] = step[u] /\ op'[u] = op[u]
      BY <1>0, <2>3, <3>1
    <3>3. layout' = Layout(resets, PowerOff)
      <4>1. rec["main"] = Layout(resets, PowerOff)
        BY <1>0, <2>1, <2>3, <3>1 DEF ReadKept
      <4>2. op["main"] = "layout"
        BY <1>0, <2>3, <3>1
      <4>3. QED
        BY <2>2, <2>3, <4>1, <4>2
    <3>4. \A u \in Threads : op'[u] = "layout" => u # "main" /\ ~InFlash(u) /\ step'[u] = step[u]
      BY <2>2, <2>3, <3>2
    <3>5. QED
      BY <3>1, <3>2, <3>3, <3>4 DEF LayoutKept, InFlash
  <2>4. CASE t # "main"
    <3>1. /\ step' = [step EXCEPT ![t] = "resume"] /\ UNCHANGED <<op, rec, phase>>
          /\ step[t] = "write" /\ UNCHANGED <<boots, resets, cause>>
      BY <1>9, <2>4 DEF Write, AfterWrite
    <3>2. /\ step'[t] = "resume" /\ Up /\ phase' # "boot"
          /\ \A u \in Threads \ {t} : step'[u] = step[u] /\ op'[u] = op[u] /\ rec'[u] = rec[u]
      BY <1>0, <2>4, <3>1 DEF Up
    <3>3. \A u \in Threads \ {t} : ~InFlash(u)'
      BY <2>2, <3>2 DEF InFlash
    <3>4. CASE op[t] = "layout"
      BY <2>2, <3>1, <3>2, <3>3, <3>4 DEF LayoutKept, InFlash
    <3>5. CASE op[t] = "firmware"
      <4>1. \A u \in Threads : op[u] = "layout" => ~InFlash(u)
        BY <2>2, <3>5
      <4>2. LayoutKept /\ layout' = layout
        BY <1>0, <2>2, <3>5
      <4>3. layout' = Layout(resets, PowerOff)
        BY <2>1, <3>2, <4>1, <4>2 DEF LayoutKept
      <4>4. QED
        BY <3>1, <3>2, <3>3, <3>5, <4>3 DEF LayoutKept, InFlash
    <3>6. QED
      BY <2>2, <3>4, <3>5
  <2>5. QED
    BY <2>3, <2>4
<1>10. ASSUME NEW t \in Threads, Resume(t) PROVE LayoutKept'
  <2>1. SUFFICES ASSUME Clean, Clean' PROVE LayoutKept'
    BY <1>10, ResumeParts DEF LayoutKept
  <2>2. /\ UNCHANGED <<layout, pos, phase, boots, resets, cause>>
        /\ step[t] = "resume" /\ t # "main" /\ Up /\ phase # "boot"
        /\ \A u \in Threads \ {t} : op'[u] = op[u] /\ rec'[u] = rec[u] /\ step'[u] = step[u]
    BY <1>10, ResumeParts DEF Up
  <2>9. \A u \in Threads \ {t} : InFlash(u)' <=> InFlash(u)
    BY <1>10, ResumeParts
  <2>3. CASE op[t] = "layout"
    <3>1. op'[t] = "layout" /\ rec'[t] = rec[t] /\ step'[t] = "reset"
      BY <1>0, <1>10, ResumeParts, <2>3
    <3>2. InFlash(t) /\ InFlash(t)'
      BY <2>2, <2>3, <3>1 DEF InFlash
    <3>3. \A u \in Threads : op'[u] = "layout" =>
             /\ step'[u] \in {"seek", "write"} => layout' = Blank
             /\ step'[u] = "write" => pos' = "layout"
             /\ step'[u] \in {"resume", "reset"} => layout' = rec'[u]
      <4>1. \A u \in Threads : op'[u] = "layout" => op[u] = "layout" /\ rec'[u] = rec[u]
        BY <2>2, <2>3, <3>1
      <4>2. \A u \in Threads :
              step'[u] = step[u] \/ (u = t /\ step[t] = "resume" /\ step'[t] = "reset")
        BY <2>2, <3>1
      <4>3. \A u \in Threads : op[u] = "layout" =>
               /\ step[u] \in {"seek", "write"} => layout = Blank
               /\ step[u] = "write" => pos = "layout"
               /\ step[u] \in {"resume", "reset"} => layout = rec[u]
        BY <1>0, <2>1 DEF LayoutKept
      <4>4. QED
        BY <2>2, <4>1, <4>2, <4>3
    <3>4. QED
      BY <2>2, <2>9, <3>1, <3>2, <3>3 DEF LayoutKept
  <2>4. CASE op[t] # "layout"
    <3>1. step' = [step EXCEPT ![t] = "suspend"] \/ step' = [step EXCEPT ![t] = "idle"]
      BY <1>10, ResumeParts, <2>4
    <3>2. step'[t] \in {"idle", "suspend"}
      BY <1>0, <3>1
    <3>3. QED
      BY <1>0, <2>1, <2>2, <2>4, <3>2, LayoutCarried
  <2>5. QED
    BY <2>3, <2>4
<1>11. CASE Restarts
  BY <1>11, RestartInv
<1>12. CASE UNCHANGED vars
  BY <1>12, <1>0 DEF vars, LayoutKept, Clean, Up, InFlash
<1>13. QED
  BY <1>1, <1>2, <1>3, <1>4, <1>5, <1>6, <1>7, <1>8, <1>9, <1>10, <1>11, <1>12,
     NextMoves DEF Moves

LEMMA FirmwareStep ==
  ASSUME IInv, [Next]_vars
  PROVE  FirmwareKept'
<1> USE DEF flash, windows, device, history, Begin, Goto, Finish
<1>0. /\ rec \in [Threads -> Layouts]
      /\ step \in [Threads -> {"idle", "suspend", "erase", "seek", "write", "resume", "reset"}]
      /\ op \in [Threads -> {"none", "layout", "firmware"}]
      /\ StepsKept /\ ReadKept /\ LayoutKept /\ FirmwareKept
      /\ \A t \in Threads :
           /\ step[t] = "idle" => op[t] = "none"
           /\ step[t] \in {"erase", "seek", "write"} => op[t] # "none"
           /\ step[t] = "reset" => op[t] = "layout"
           /\ t # "main" /\ step[t] # "idle" => Up
      /\ step["main"] \in {"idle", "erase", "seek", "write"} /\ op["main"] # "firmware"
      /\ step["main"] # "idle" => phase \in {"boot", "clear"}
  BY DEF IInv, TypeOK, StepsKept
<1>1. CASE MainRead
  BY <1>1, <1>0 DEF MainRead, FirmwareKept, Clean, Up, InFlash
<1>2. CASE StartTasks
  BY <1>2, <1>0 DEF StartTasks, FirmwareKept, Clean, Up, InFlash
<1>3. CASE Hang
  BY <1>3, <1>0 DEF Hang, FirmwareKept, Clean, Up, InFlash
<1>4. CASE Unhang
  BY <1>4, <1>0 DEF Unhang, FirmwareKept, Clean, Up, InFlash
<1>5. ASSUME NEW t \in Threads, Starts(t) PROVE FirmwareKept'
  BY <1>5, <1>0 DEF Starts, Copy, FirmwareKept, Clean, Up, InFlash
<1>6. ASSUME NEW t \in Threads, Suspend(t) PROVE FirmwareKept'
  BY <1>6, <1>0 DEF Suspend, FirmwareKept, Clean, Up, InFlash
<1>7. ASSUME NEW t \in Threads, Erase(t) PROVE FirmwareKept'
  <2>1. SUFFICES ASSUME Clean' PROVE FirmwareKept'
    BY DEF FirmwareKept
  <2>2. /\ Clean /\ \A u \in Threads \ {t} : ~InFlash(u)
        /\ \/ op[t] = "layout" /\ firmware' = firmware
           \/ op[t] = "firmware" /\ firmware' = "blank"
    BY <1>7, <2>1, EraseClean
  <2>3. /\ step[t] = "erase" /\ step'[t] = "seek"
        /\ UNCHANGED <<phase, pos, op>>
        /\ \A u \in Threads \ {t} : step'[u] = step[u]
    BY <1>0, <1>7 DEF Erase
  <2>4. QED
    BY <1>0, <2>1, <2>2, <2>3 DEF FirmwareKept, InFlash
<1>8. ASSUME NEW t \in Threads, SeekTo(t) PROVE FirmwareKept'
  <2>1. /\ step[t] = "seek" /\ step'[t] = "write" /\ pos' = op[t]
        /\ UNCHANGED <<phase, firmware, op, lost>>
        /\ \A u \in Threads \ {t} : step'[u] = step[u]
    BY <1>0, <1>8 DEF SeekTo
  <2>2. SUFFICES ASSUME Clean, Clean' PROVE FirmwareKept'
    BY <2>1 DEF FirmwareKept, Clean
  <2>3. InFlash(t)
    BY <1>0, <2>1 DEF InFlash
  <2>4. \A u \in Threads \ {t} : ~InFlash(u)
    BY <2>2, <2>3, AloneThere
  <2>5. QED
    BY <1>0, <2>1, <2>2, <2>4 DEF FirmwareKept, InFlash
<1>9. ASSUME NEW t \in Threads, Write(t) PROVE FirmwareKept'
  <2>1. SUFFICES ASSUME Clean, Clean' PROVE FirmwareKept'
    BY <1>9 DEF FirmwareKept, Clean, Write
  <2>2. /\ \A u \in Threads \ {t} : ~InFlash(u)
        /\ \/ op[t] = "layout" /\ firmware' = firmware
           \/ op[t] = "firmware" /\ firmware' = "good"
    BY <1>9, <2>1, WriteClean
  <2>3. /\ step[t] = "write" /\ step'[t] \in {"idle", "resume"}
        /\ phase' # "dead" \/ phase' = phase
        /\ \A u \in Threads \ {t} : step'[u] = step[u] /\ op'[u] = op[u]
    BY <1>0, <1>9 DEF Write, AfterWrite
  <2>4. \A u \in Threads : op'[u] = "firmware" => step'[u] \notin {"seek", "write"}
    BY <2>2, <2>3 DEF InFlash
  <2>5. firmware' = "good"
    <3>1. CASE op[t] = "layout"
      BY <1>0, <2>1, <2>2, <3>1 DEF FirmwareKept
    <3>2. QED
      BY <2>2, <3>1
  <2>6. QED
    BY <1>0, <2>1, <2>3, <2>4, <2>5 DEF FirmwareKept
<1>10. ASSUME NEW t \in Threads, Resume(t) PROVE FirmwareKept'
  <2>1. SUFFICES ASSUME Clean, Clean' PROVE FirmwareKept'
    BY <1>10, ResumeParts DEF FirmwareKept
  <2>2. /\ UNCHANGED <<firmware, pos, phase>> /\ step[t] = "resume"
        /\ \A u \in Threads \ {t} : op'[u] = op[u] /\ step'[u] = step[u]
    BY <1>10, ResumeParts
  <2>3. \/ step' = [step EXCEPT ![t] = "reset"] \/ step' = [step EXCEPT ![t] = "suspend"]
        \/ step' = [step EXCEPT ![t] = "idle"]
    BY <1>10, ResumeParts
  <2>4. step'[t] \in {"reset", "suspend", "idle"}
    BY <1>0, <2>3
  <2>5. QED
    BY <1>0, <2>1, <2>2, <2>4 DEF FirmwareKept, InFlash
<1>11. CASE Restarts
  BY <1>11, RestartInv
<1>12. CASE UNCHANGED vars
  BY <1>12, <1>0 DEF vars, FirmwareKept, Clean, Up, InFlash
<1>13. QED
  BY <1>1, <1>2, <1>3, <1>4, <1>5, <1>6, <1>7, <1>8, <1>9, <1>10, <1>11, <1>12,
     NextMoves DEF Moves

LEMMA FedStep ==
  ASSUME IInv, [Next]_vars
  PROVE  FedInWindow'
<1> USE DEF IInv, TypeOK, flash, windows, device, history, Begin, Goto, AfterWrite, Finish,
            StepsKept, FedInWindow, InWindow, If, Mishaps
<1>1. CASE MainRead
  BY <1>1 DEF MainRead
<1>2. CASE StartTasks
  BY <1>2 DEF StartTasks
<1>3. CASE Hang
  BY <1>3 DEF Hang
<1>4. CASE Unhang
  BY <1>4 DEF Unhang
<1>5. ASSUME NEW t \in Threads, Starts(t) PROVE FedInWindow'
  BY <1>5 DEF Starts, Copy
<1>6. ASSUME NEW t \in Threads, Suspend(t) PROVE FedInWindow'
  BY <1>6 DEF Suspend
<1>7. ASSUME NEW t \in Threads, Erase(t) PROVE FedInWindow'
  BY <1>7 DEF Erase
<1>8. ASSUME NEW t \in Threads, SeekTo(t) PROVE FedInWindow'
  BY <1>8 DEF SeekTo
<1>9. ASSUME NEW t \in Threads, Write(t) PROVE FedInWindow'
  BY <1>9 DEF Write
<1>10. ASSUME NEW t \in Threads, Resume(t) PROVE FedInWindow'
  BY <1>10 DEF Resume, Record, Copy
<1>11. CASE Restarts
  BY <1>11, RestartInv
<1>12. CASE UNCHANGED vars
  BY <1>12 DEF vars
<1>13. QED
  BY <1>1, <1>2, <1>3, <1>4, <1>5, <1>6, <1>7, <1>8, <1>9, <1>10, <1>11, <1>12,
     NextMoves DEF Moves

LEMMA FreshType == Fresh \in Layouts /\ Blank \in Layouts /\ Damaged \in Layouts
BY DEF Fresh, Blank, Damaged, Layout, Layouts, Reasons, PowerOff

LEMMA CountsStep ==
  ASSUME IInv, [Next]_vars
  PROVE  CountsKept'
<1> USE DEF flash, windows, device, history, Begin, Goto, Finish
<1>0. /\ boots \in Nat /\ boots >= 1 /\ MaxBoots \in Nat /\ boots <= MaxBoots /\ resets \in Nat
      /\ layout.count \in Nat /\ ram.count \in Nat
      /\ \A t \in Threads : rec[t] \in Layouts /\ rec[t].count \in Nat
      /\ "main" \in Threads
      /\ StepsKept /\ CountsKept /\ TypeOK
  BY Numbers DEF IInv
<1>00. Blank.count = 0 /\ Damaged.count = 0 /\ Fresh.count = 0 /\ Fresh.flag = "valid"
  BY DEF Blank, Damaged, Fresh, Layout
<1>1. CASE MainRead
  <2>1. /\ phase = "boot" /\ UNCHANGED <<layout, phase, boots, resets>>
        /\ ram' = (IF layout.flag = "valid" THEN layout ELSE Fresh)
        /\ rec' = [rec EXCEPT !["main"] = [ram' EXCEPT !.reason = PowerOff]]
    BY <1>1 DEF MainRead
  <2>2. ram'.count \in Nat /\ ram'.count < boots /\ ram'.flag = "valid" /\ ram' \in Layouts
    BY <1>0, <1>00, <2>1, FreshType DEF CountsKept, TypeOK
  <2>3. [ram' EXCEPT !.reason = PowerOff].count = ram'.count
    OBVIOUS
  <2>4. [ram' EXCEPT !.reason = PowerOff].flag = "valid"
    BY <2>2 DEF Layouts
  <2>5. QED
    BY <1>0, <2>1, <2>2, <2>3, <2>4 DEF CountsKept, TypeOK
<1>2. CASE StartTasks
  BY <1>2, <1>0 DEF StartTasks, CountsKept, TypeOK
<1>3. CASE Hang
  BY <1>3, <1>0 DEF Hang, CountsKept, TypeOK
<1>4. CASE Unhang
  BY <1>4, <1>0 DEF Unhang, CountsKept, TypeOK
<1>5. ASSUME NEW t \in Threads, Starts(t) PROVE CountsKept'
  <2>1. UNCHANGED <<layout, ram, phase, boots, resets>> /\ t # "main"
    BY <1>5 DEF Starts
  <2>2. rec' = rec \/ \E reason : rec' = [rec EXCEPT ![t] = Copy(reason)]
    BY <1>5 DEF Starts
  <2>3. \A reason : Copy(reason).count <= boots /\ Copy(reason).flag = "valid"
    BY <1>0 DEF Copy, Layout, CountsKept
  <2>4. QED
    BY <1>0, <2>1, <2>2, <2>3 DEF CountsKept, TypeOK
<1>6. ASSUME NEW t \in Threads, Suspend(t) PROVE CountsKept'
  BY <1>6, <1>0 DEF Suspend, CountsKept, TypeOK
<1>7. ASSUME NEW t \in Threads, Erase(t) PROVE CountsKept'
  <2>1. UNCHANGED <<ram, rec, phase, boots, resets>> /\ layout' \in {layout, Blank}
    BY <1>7 DEF Erase
  <2>2. QED
    BY <1>0, <1>00, <2>1 DEF CountsKept
<1>8. ASSUME NEW t \in Threads, SeekTo(t) PROVE CountsKept'
  BY <1>8, <1>0 DEF SeekTo, CountsKept, TypeOK
<1>9. ASSUME NEW t \in Threads, Write(t) PROVE CountsKept'
  <2>1. UNCHANGED <<ram, boots, resets>> /\ (phase' = "boot" => t # "main" /\ phase = "boot")
        /\ rec' \in {rec, [rec EXCEPT ![t] = Fresh]} /\ (phase' = "over" => phase = "over")
    BY <1>9 DEF Write, AfterWrite
  <2>2. \/ layout' = layout \/ layout' = Damaged
        \/ layout' = Programmed(layout, rec[t])
    BY <1>9 DEF Write
  <2>3. layout'.count \in Nat /\ layout'.count <= boots
    <3>1. Programmed(layout, rec[t]).count <= rec[t].count /\ Programmed(layout, rec[t]) \in Layouts
      BY <1>0, ProgrammedType DEF TypeOK
    <3>2. \A x \in Layouts : x.count \in Nat
      BY DEF Layouts
    <3>3. QED
      BY <1>0, <1>00, <2>2, <3>1, <3>2 DEF CountsKept
  <2>4. phase' # "boot" /\ phase # "over"
    BY <1>0, <1>9, <2>1 DEF StepsKept, Write, Up
  <2>5. \A u \in Threads : rec'[u] = rec[u] \/ rec'[u] = Fresh
    BY <1>0, <2>1 DEF TypeOK
  <2>6. /\ \A u \in Threads : rec'[u].count <= boots /\ rec'[u].flag = "valid"
        /\ rec'["main"].count < boots
    BY <1>0, <1>00, <2>5 DEF CountsKept
  <2>7. QED
    BY <1>0, <2>1, <2>3, <2>4, <2>6 DEF CountsKept
<1>10. ASSUME NEW t \in Threads, Resume(t) PROVE CountsKept'
  <2>1. UNCHANGED <<layout, ram, phase, boots, resets>> /\ t # "main"
    BY <1>10, ResumeParts
  <2>2. rec' \in {rec, [rec EXCEPT ![t] = Copy(Upgrade)], [rec EXCEPT ![t] = Fresh]}
    BY <1>10, ResumeParts
  <2>3. Copy(Upgrade).count <= boots /\ Copy(Upgrade).flag = "valid"
    BY <1>0 DEF Copy, Layout, CountsKept
  <2>4. QED
    BY <1>0, <1>00, <2>1, <2>2, <2>3 DEF CountsKept, TypeOK
<1>11. CASE Restarts
  BY <1>11, RestartInv
<1>12. CASE UNCHANGED vars
  BY <1>12, <1>0 DEF vars, CountsKept, TypeOK
<1>13. QED
  BY <1>1, <1>2, <1>3, <1>4, <1>5, <1>6, <1>7, <1>8, <1>9, <1>10, <1>11, <1>12,
     NextMoves DEF Moves

LEMMA CopyType ==
  ASSUME IInv, boots < MaxBoots, NEW reason \in Reasons
  PROVE  Copy(reason) \in Layouts
<1>1. ram.count + 1 \in 0..MaxBoots
  BY Numbers DEF IInv, CountsKept
<1>2. QED
  BY <1>1 DEF Copy, Layout, Layouts

LEMMA TypeStep ==
  ASSUME IInv, [Next]_vars
  PROVE  TypeOK'
<1> USE DEF flash, windows, device, history, Begin, Goto, Finish
<1>0. TypeOK
  BY DEF IInv
<1>1. CASE MainRead
  <2>1. /\ phase = "boot" /\ step' = [step EXCEPT !["main"] = "erase"]
        /\ op' = [op EXCEPT !["main"] = "layout"] /\ pos' = "past"
        /\ ram' = (IF layout.flag = "valid" THEN layout ELSE Fresh)
        /\ rec' = [rec EXCEPT !["main"] = [ram' EXCEPT !.reason = PowerOff]]
        /\ UNCHANGED <<layout, firmware, phase, then, autoFeed, suspended, boots, images,
                       resets, cause, lost>>
    BY <1>1 DEF MainRead
  <2>2. ram' \in Layouts /\ ram'.flag = "valid"
    BY <1>0, <2>1, FreshType DEF TypeOK, Fresh, Layout
  <2>3. [ram' EXCEPT !.reason = PowerOff] \in Layouts
    BY <2>2 DEF Layouts, Reasons
  <2>4. rec' \in [Threads -> Layouts]
    BY <1>0, <2>1, <2>3 DEF TypeOK
  <2>5. QED
    BY <1>0, <2>1, <2>2, <2>4 DEF TypeOK
<1>2. CASE StartTasks
  <2>1. /\ phase' = "clear" /\ step' = [step EXCEPT !["main"] = "erase"]
        /\ op' = [op EXCEPT !["main"] = "layout"]
        /\ rec' = [rec EXCEPT !["main"] = [ram EXCEPT !.reason = PowerOff]]
        /\ UNCHANGED <<layout, firmware, pos, ram, then, autoFeed, suspended, boots, images,
                       resets, cause, lost>>
    BY <1>2 DEF StartTasks
  <2>2. [ram EXCEPT !.reason = PowerOff] \in Layouts
    BY <1>0 DEF TypeOK, Layouts, Reasons
  <2>3. rec' \in [Threads -> Layouts]
    BY <1>0, <2>1, <2>2 DEF TypeOK
  <2>4. QED
    BY <1>0, <2>1, <2>3 DEF TypeOK
<1>3. CASE Hang
  BY <1>3, <1>0 DEF Hang, TypeOK
<1>4. CASE Unhang
  BY <1>4, <1>0 DEF Unhang, TypeOK
<1>5. ASSUME NEW t \in Threads, Starts(t) PROVE TypeOK'
  <2>1. /\ step' = [step EXCEPT ![t] = "suspend"]
        /\ UNCHANGED <<layout, firmware, pos, ram, phase, autoFeed, suspended, boots,
                       resets, cause, lost>>
        /\ images' \in 0..MaxImages
    BY <1>5 DEF Starts
  <2>2. op' \in [Threads -> {"none", "layout", "firmware"}]
    BY <1>0, <1>5 DEF Starts, TypeOK
  <2>3. rec' \in [Threads -> Layouts]
    <3>1. ASSUME NEW reason \in Reasons, rec' = [rec EXCEPT ![t] = Copy(reason)]
          PROVE  rec' \in [Threads -> Layouts]
      <4>1. Copy(reason) \in Layouts
        BY <1>5, CopyType DEF Starts
      <4>2. QED
        BY <1>0, <3>1, <4>1 DEF TypeOK
    <3>2. QED
      BY <1>0, <3>1, <1>5 DEF Starts, TypeOK
  <2>4. {then, autoFeed, suspended}' \subseteq BOOLEAN
    <3>1. then' \in BOOLEAN
      BY <1>5 DEF Starts
    <3>2. QED
      BY <1>0, <2>1, <3>1 DEF TypeOK
  <2>5. QED
    BY <1>0, <2>1, <2>2, <2>3, <2>4 DEF TypeOK
<1>6. ASSUME NEW t \in Threads, Suspend(t) PROVE TypeOK'
  BY <1>6, <1>0 DEF Suspend, TypeOK
<1>7. ASSUME NEW t \in Threads, Erase(t) PROVE TypeOK'
  <2>1. /\ step' = [step EXCEPT ![t] = "seek"]
        /\ layout' \in {layout, Blank} /\ firmware' \in {firmware, "blank"}
        /\ UNCHANGED <<op, pos, ram, phase, rec, then, autoFeed, suspended, boots, images,
                       resets, cause>>
    BY <1>7 DEF Erase
  <2>0. lost' = lost \union If("crossed", \E u \in Threads \ {t} : InFlash(u))
    BY <1>7 DEF Erase
  <2>2. lost' \subseteq Mishaps
    <3>1. If("crossed", \E u \in Threads \ {t} : InFlash(u)) \subseteq Mishaps
      BY DEF If, Mishaps
    <3>2. QED
      BY <1>0, <2>0, <3>1 DEF TypeOK
  <2>3. layout' \in Layouts
    BY <1>0, <2>1, FreshType DEF TypeOK
  <2>4. /\ step' \in [Threads -> {"idle", "suspend", "erase", "seek", "write", "resume", "reset"}]
        /\ firmware' \in {"good", "blank", "damaged"}
    BY <1>0, <2>1 DEF TypeOK
  <2>5. {then, autoFeed, suspended}' \subseteq BOOLEAN
    BY <1>0, <2>1 DEF TypeOK
  <2>6. QED
    BY <1>0, <2>1, <2>2, <2>3, <2>4, <2>5 DEF TypeOK
<1>8. ASSUME NEW t \in Threads, SeekTo(t) PROVE TypeOK'
  BY <1>8, <1>0 DEF SeekTo, TypeOK, IInv, StepsKept
<1>9. ASSUME NEW t \in Threads, Write(t) PROVE TypeOK'
  <2>1. /\ pos' = "past" /\ firmware' \in {firmware, "good", "damaged"}
        /\ UNCHANGED <<ram, then, autoFeed, suspended, boots, images, resets, cause, lost>>
    BY <1>9 DEF Write
  <2>2. layout' \in Layouts
    <3>1. Programmed(layout, rec[t]) \in Layouts
      BY <1>0, ProgrammedType DEF TypeOK
    <3>2. QED
      BY <1>0, <1>9, <3>1, FreshType DEF Write, TypeOK
  <2>3. /\ op' \in [Threads -> {"none", "layout", "firmware"}]
        /\ step' \in [Threads -> {"idle", "suspend", "erase", "seek", "write", "resume", "reset"}]
        /\ phase' \in {phase, "services", "loop"}
    BY <1>0, <1>9 DEF Write, AfterWrite, TypeOK
  <2>4. rec' \in [Threads -> Layouts]
    BY <1>0, <1>9, FreshType DEF Write, AfterWrite, TypeOK
  <2>5. QED
    BY <1>0, <2>1, <2>2, <2>3, <2>4 DEF TypeOK
<1>10. ASSUME NEW t \in Threads, Resume(t) PROVE TypeOK'
  <2>1. /\ autoFeed' = FALSE /\ suspended' = FALSE /\ lost' \subseteq Mishaps
        /\ UNCHANGED <<layout, firmware, pos, ram, phase, boots, images, resets, cause>>
    BY <1>10, ResumeParts
  <2>2. boots < MaxBoots
    <3>1. step[t] = "resume" /\ t # "main"
      BY <1>10, ResumeParts
    <3>2. boots # MaxBoots
      BY <3>1 DEF IInv, StepsKept
    <3>3. QED
      BY <3>2, Numbers
  <2>3. Copy(Upgrade) \in Layouts
    BY <2>2, CopyType DEF Reasons
  <2>4. rec' \in {rec, [rec EXCEPT ![t] = Copy(Upgrade)], [rec EXCEPT ![t] = Fresh]}
    BY <1>10, ResumeParts
  <2>5. rec' \in [Threads -> Layouts]
    BY <1>0, <2>3, <2>4, FreshType DEF TypeOK
  <2>6. /\ op' \in {op, [op EXCEPT ![t] = "layout"], [op EXCEPT ![t] = "none"]}
        /\ step' \in {[step EXCEPT ![t] = "reset"], [step EXCEPT ![t] = "suspend"],
                      [step EXCEPT ![t] = "idle"]}
    BY <1>10, ResumeParts
  <2>7. /\ op' \in [Threads -> {"none", "layout", "firmware"}]
        /\ step' \in [Threads -> {"idle", "suspend", "erase", "seek", "write", "resume", "reset"}]
    BY <1>0, <2>6 DEF TypeOK
  <2>8. {then, autoFeed, suspended}' \subseteq BOOLEAN
    <3>1. then \in BOOLEAN /\ then' \in {then, FALSE}
      BY <1>0, <1>10, ResumeParts DEF TypeOK
    <3>2. then' \in BOOLEAN /\ autoFeed' \in BOOLEAN /\ suspended' \in BOOLEAN
      BY <2>1, <3>1, Zenon
    <3>3. QED
      BY <3>2
  <2>9. QED
    BY <1>0, <2>1, <2>5, <2>7, <2>8 DEF TypeOK
<1>11. CASE Restarts
  <2>1. /\ phase' \in {"over", "boot", "dead"} /\ ram' = Fresh /\ pos' = "past"
        /\ op' = [t \in Threads |-> "none"] /\ step' = [t \in Threads |-> "idle"]
        /\ rec' = [t \in Threads |-> Fresh] /\ then' = FALSE
        /\ autoFeed' = FALSE /\ suspended' = FALSE /\ lost' \subseteq Mishaps
        /\ UNCHANGED <<layout, firmware, images>>
    BY <1>11 DEF Restarts, Restart, Quiet
  <2>2. boots' \in 1..MaxBoots
    BY <1>0, <1>11 DEF TypeOK, Restarts, Restart
  <2>3. resets' \in 0..MaxBoots
    <3>1. resets < boots /\ resets' \in {resets, resets + 1}
      BY <1>11 DEF Restarts, IInv, CountsKept
    <3>2. QED
      BY <1>0, <3>1 DEF TypeOK
  <2>4. cause' \in Reasons
    BY <1>0, <1>11 DEF TypeOK, Restarts, Layouts, Reasons
  <2>5. Fresh.flag = "valid"
    BY DEF Fresh, Layout
  <2>6. {then, autoFeed, suspended}' \subseteq BOOLEAN
    BY <2>1
  <2>7. ram' \in Layouts /\ rec' \in [Threads -> Layouts]
    BY <2>1, FreshType
  <2>8. QED
    BY <1>0, <2>1, <2>2, <2>3, <2>4, <2>5, <2>6, <2>7 DEF TypeOK
<1>12. CASE UNCHANGED vars
  BY <1>12, <1>0 DEF vars, TypeOK
<1>13. QED
  BY <1>1, <1>2, <1>3, <1>4, <1>5, <1>6, <1>7, <1>8, <1>9, <1>10, <1>11, <1>12,
     NextMoves DEF Moves

LEMMA InitInv == Init => IInv
<1> SUFFICES ASSUME Init PROVE IInv
  OBVIOUS
<1>1. TypeOK
  <2>1. Fresh.flag = "valid" /\ PowerOff \in Reasons
    BY DEF Fresh, Layout, Reasons
  <2>2. then \in BOOLEAN /\ autoFeed \in BOOLEAN /\ suspended \in BOOLEAN
    BY Zenon DEF Init
  <2>3. layout \in Layouts /\ ram \in Layouts /\ rec \in [Threads -> Layouts]
    BY FreshType DEF Init
  <2>4. QED
    BY <2>1, <2>2, <2>3 DEF Init, TypeOK, Quiet
<1> USE DEF Init, Quiet, Fresh, Blank, Damaged, Layout, PowerOff
<1>2. StepsKept
  BY DEF StepsKept, Up, Threads
<1>3. CountsKept
  BY DEF CountsKept, Threads
<1>4. Alone /\ ReadKept /\ FedInWindow /\ FirmwareKept
  BY DEF Alone, ReadKept, FedInWindow, FirmwareKept, InFlash, InWindow, Up, Threads
<1>5. LayoutKept
  BY DEF LayoutKept, Up
<1>6. QED
  BY <1>1, <1>2, <1>3, <1>4, <1>5 DEF IInv

LEMMA InvStep == IInv /\ [Next]_vars => IInv'
BY TypeStep, StepsStep, CountsStep, AloneStep, ReadStep, LayoutStep, FirmwareStep, FedStep
   DEF IInv

LEMMA SpecInv == Spec => []IInv
BY InitInv, InvStep, PTL DEF Spec

-----------------------------------------------------------------------------
(* The theorems                                                            *)

\* Every variable keeps its type: the offset of the descriptor, the layouts in the flash
\* and in memory, and the counts of starts, images and resets (flash_layout.hpp, main.cpp).
THEOREM TypeSafety == Spec => []TypeOK
<1>1. IInv => TypeOK
  BY DEF IInv
<1>2. QED
  BY <1>1, SpecInv, PTL

\* After a start m_flash_layout tells how many resets were asked for and why the last one
\* came, unless writes were crossed or cut (SpiFlash::init, update_reboot_reason_recording).
THEOREM RecordSafety == Spec => []RecordTruthful
<1>1. IInv => RecordTruthful
  BY DEF IInv, ReadKept, RecordTruthful, Clean, Up
<1>2. QED
  BY <1>1, SpecInv, PTL

\* The firmware is whole at every reset unless writes were crossed or cut, and a thread
\* that writes has the watchdog feed itself unless another one resumed the tasks before
\* (deep_task_control, SpiFlash::write_firmware).
THEOREM FlashSafety == Spec => []FlashGuarded
<1>1. IInv => FirmwareTornOnlyBy
  BY DEF IInv, FirmwareKept, FirmwareTornOnlyBy, Clean
<1>2. IInv => FedWhileWriting
  BY DEF IInv, FedInWindow, FedWhileWriting, InWindow, Writing
<1>3. IInv => FlashGuarded
  BY <1>1, <1>2 DEF FlashGuarded
<1>4. QED
  BY <1>3, SpecInv, PTL
-----------------------------------------------------------------------------
(* Induction, and what the thinning leaves                                 *)

LEMMA TrackerInduction ==
  ASSUME NEW S, 0 \in S, \A n \in Nat : n \in S => n + 1 \in S
  PROVE  Nat \subseteq S
<1> DEFINE T == Nat \ S
           R == {pair \in Nat \X Nat : pair[1] < pair[2]}
<1>1. IsWellFoundedOn(R, Nat)
  BY NatLessThanWellFounded DEF OpToRel
<1>2. SUFFICES ASSUME T # {} PROVE FALSE
  OBVIOUS
<1>3. PICK x \in T : \A y \in T : <<y, x>> \notin R
  <2> HIDE DEF T, R
  <2>1. T \subseteq Nat
    BY DEF T
  <2> QED BY <1>1, <1>2, <2>1, WFMin
<1>4. x # 0 /\ x - 1 \in Nat /\ x - 1 \notin S
  OBVIOUS
<1>5. <<x - 1, x>> \in R /\ x - 1 \in T
  BY <1>4
<1> QED BY <1>3, <1>5

\* A function whose values each follow from the one before.
Follows(g, n, b, rule) ==
  g = [k \in 0..n |-> IF k = 0 THEN b ELSE rule[<<k, g[k - 1]>>]]

LEMMA FollowsExists ==
  ASSUME NEW X, NEW b \in X, NEW n \in Nat, NEW rule \in [(1..n) \X X -> X]
  PROVE  \E g \in [0..n -> X] : Follows(g, n, b, rule)
<1> DEFINE S == {m \in Nat : m <= n => \E g \in [0..m -> X] : Follows(g, m, b, rule)}
<1>1. 0 \in S
  <2> DEFINE g == [k \in 0..0 |-> b]
  <2>1. g \in [0..0 -> X] /\ Follows(g, 0, b, rule) BY DEF Follows
  <2> QED BY <2>1
<1>2. ASSUME NEW m \in Nat, m \in S PROVE m + 1 \in S
  <2> SUFFICES ASSUME m + 1 <= n
               PROVE  \E h \in [0..(m + 1) -> X] : Follows(h, m + 1, b, rule)
    OBVIOUS
  <2>1. PICK g \in [0..m -> X] : Follows(g, m, b, rule) BY <1>2
  <2> DEFINE x == rule[<<m + 1, g[m]>>]
             h == [k \in 0..(m + 1) |-> IF k <= m THEN g[k] ELSE x]
  <2>2. g[m] \in X /\ <<m + 1, g[m]>> \in (1..n) \X X BY <2>1
  <2>3. x \in X BY <2>2
  <2> HIDE DEF x
  <2>4. h \in [0..(m + 1) -> X] BY <2>1, <2>3
  <2>5. ASSUME NEW k \in 0..(m + 1)
        PROVE  h[k] = IF k = 0 THEN b ELSE rule[<<k, h[k - 1]>>]
    <3>1. CASE k = 0
      <4>1. g[0] = b BY <2>1 DEF Follows
      <4> QED BY <4>1, <3>1
    <3>2. CASE k \in 1..m
      <4>1. k - 1 \in 0..m /\ k \in 0..m /\ k # 0 BY <3>2
      <4>2. g[k] = rule[<<k, g[k - 1]>>] BY <4>1, <2>1 DEF Follows
      <4>3. h[k] = g[k] /\ h[k - 1] = g[k - 1] BY <4>1
      <4> QED BY <4>1, <4>2, <4>3
    <3>3. CASE k = m + 1
      <4>1. h[k] = x /\ h[k - 1] = g[m] /\ k # 0 BY <3>3
      <4> QED BY <4>1, <3>3 DEF x
    <3> QED BY <3>1, <3>2, <3>3
  <2>6. Follows(h, m + 1, b, rule) BY <2>5 DEF Follows
  <2> QED BY <2>4, <2>6
<1>3. Nat \subseteq S
  <2> HIDE DEF S
  <2> QED BY <1>1, <1>2, TrackerInduction
<1> QED BY <1>3

LEMMA EraseAtType ==
  ASSUME NEW d \in Seq(Places), NEW i
  PROVE  EraseAt(d, i) \in Seq(Places) /\ Len(EraseAt(d, i)) <= Len(d)
<1> DEFINE e == [k \in 1..(Len(d) - 1) |-> IF k < i THEN d[k] ELSE d[k + 1]]
<1>1. \A k \in 1..(Len(d) - 1) : d[k] \in Places /\ d[k + 1] \in Places OBVIOUS
<1>2. e \in [1..(Len(d) - 1) -> Places] BY <1>1
<1>3. CASE Len(d) = 0
  <2>1. 1..(Len(d) - 1) = 1..0 BY <1>3
  <2>2. e \in [1..0 -> Places] BY <1>2, <2>1
  <2> HIDE DEF e
  <2>3. e \in Seq(Places) /\ Len(e) = 0 BY <2>2
  <2> QED BY <2>3, <1>3 DEF EraseAt, e
<1>4. CASE Len(d) # 0
  <2> DEFINE n == Len(d) - 1
  <2>1. n \in Nat /\ n <= Len(d) BY <1>4
  <2>2. e \in [1..n -> Places] BY <1>2
  <2> HIDE DEF e, n
  <2>3. e \in Seq(Places) /\ Len(e) = n BY <2>1, <2>2
  <2>4. e = EraseAt(d, i) BY DEF e, EraseAt
  <2> QED BY <2>1, <2>3, <2>4
<1> QED BY <1>3, <1>4

LEMMA StrikeType ==
  ASSUME NEW d, NEW idxs \in Seq(Nat), NEW i \in 1..Len(idxs), NEW struck \in Seq(Nat)
  PROVE  Strike(d, idxs, i, struck) \in Seq(Nat)
<1> DEFINE P(j) == idxs[j] \notin ToSet(struck) /\ Overlap(d[idxs[i]], d[idxs[j]]) > MaxOverlap
           rule == [p \in (1..(i - 1)) \X Seq(Nat) |->
                      IF P(p[1]) THEN Append(p[2], idxs[p[1]]) ELSE p[2]]
           IsBelow(g) ==
             g = [j \in 0..(i - 1) |->
                    IF j = 0 THEN struck
                    ELSE IF P(j) THEN Append(g[j - 1], idxs[j]) ELSE g[j - 1]]
<1> HIDE DEF P
<1>1. rule \in [(1..(i - 1)) \X Seq(Nat) -> Seq(Nat)]
  <2>1. ASSUME NEW p \in (1..(i - 1)) \X Seq(Nat) PROVE Append(p[2], idxs[p[1]]) \in Seq(Nat)
    <3>1. p[1] \in 1..Len(idxs) /\ p[2] \in Seq(Nat) OBVIOUS
    <3>2. idxs[p[1]] \in Nat BY <3>1
    <3> QED BY <3>1, <3>2
  <2> QED BY <2>1
<1>2. PICK g \in [0..(i - 1) -> Seq(Nat)] : Follows(g, i - 1, struck, rule)
  <2>1. i - 1 \in Nat OBVIOUS
  <2> HIDE DEF rule
  <2> QED BY <2>1, <1>1, FollowsExists
<1>3. IsBelow(g)
  <2>1. ASSUME NEW j \in 0..(i - 1), j # 0
        PROVE  rule[<<j, g[j - 1]>>] =
                 IF P(j) THEN Append(g[j - 1], idxs[j]) ELSE g[j - 1]
    <3>1. j \in 1..(i - 1) /\ j - 1 \in 0..(i - 1) BY <2>1
    <3>2. <<j, g[j - 1]>> \in (1..(i - 1)) \X Seq(Nat) BY <3>1
    <3> QED BY <3>2
  <2> HIDE DEF rule
  <2> QED BY <1>2, <2>1 DEF Follows
<1>4. \E h : IsBelow(h) BY <1>3
<1> DEFINE f == CHOOSE h : IsBelow(h)
<1>5. IsBelow(f)
  <2> HIDE DEF IsBelow
  <2> QED BY <1>4
<1>6. Strike(d, idxs, i, struck) = f[i - 1]
  BY DEF Strike, P
<1> DEFINE S == {m \in Nat : m <= i - 1 => f[m] \in Seq(Nat)}
<1> HIDE DEF f
<1>7. 0 \in S BY <1>5
<1>8. ASSUME NEW m \in Nat, m \in S PROVE m + 1 \in S
  <2> SUFFICES ASSUME m + 1 <= i - 1 PROVE f[m + 1] \in Seq(Nat) OBVIOUS
  <2>1. f[m] \in Seq(Nat) BY <1>8
  <2>2. m + 1 \in 0..(i - 1) /\ m + 1 # 0 /\ (m + 1) - 1 = m OBVIOUS
  <2>3. f[m + 1] = IF P(m + 1) THEN Append(f[m], idxs[m + 1]) ELSE f[m]
    BY <2>2, <1>5
  <2>4. idxs[m + 1] \in Nat BY <2>2
  <2>5. Append(f[m], idxs[m + 1]) \in Seq(Nat) BY <2>1, <2>4
  <2> QED BY <2>1, <2>3, <2>5
<1>9. Nat \subseteq S
  <2> HIDE DEF S
  <2> QED BY <1>7, <1>8, TrackerInduction
<1>10. i - 1 \in Nat OBVIOUS
<1> QED BY <1>6, <1>9, <1>10

LEMMA DelIdxsType ==
  ASSUME NEW d, NEW idxs \in Seq(Nat)
  PROVE  DelIdxs(d, idxs) \in Seq(Nat)
<1> DEFINE n == Len(idxs)
           P(k, s) == k = n \/ idxs[n + 1 - k] \in ToSet(s)
           rule == [p \in (1..n) \X Seq(Nat) |->
                      IF P(p[1], p[2]) THEN p[2] ELSE Strike(d, idxs, n + 1 - p[1], p[2])]
           IsStruck(g) ==
             g = [k \in 0..n |->
                    IF k = 0 THEN <<>>
                    ELSE IF P(k, g[k - 1]) THEN g[k - 1]
                         ELSE Strike(d, idxs, n + 1 - k, g[k - 1])]
<1>0. n \in Nat OBVIOUS
<1>a. <<>> \in Seq(Nat) OBVIOUS
<1> HIDE DEF P
<1>b. ASSUME NEW k \in 1..n, NEW s \in Seq(Nat)
      PROVE  Strike(d, idxs, n + 1 - k, s) \in Seq(Nat)
  <2>1. n + 1 - k \in 1..Len(idxs) BY <1>0
  <2> HIDE DEF n
  <2> QED BY <2>1, StrikeType
<1>1. rule \in [(1..n) \X Seq(Nat) -> Seq(Nat)]
  BY <1>b
<1>2. PICK g \in [0..n -> Seq(Nat)] : Follows(g, n, <<>>, rule)
  <2> HIDE DEF rule, n
  <2> QED BY <1>0, <1>1, <1>a, FollowsExists
<1>3. IsStruck(g)
  <2>1. ASSUME NEW k \in 0..n, k # 0
        PROVE  rule[<<k, g[k - 1]>>] =
                 IF P(k, g[k - 1]) THEN g[k - 1] ELSE Strike(d, idxs, n + 1 - k, g[k - 1])
    <3>1. k \in 1..n /\ k - 1 \in 0..n BY <2>1, <1>0
    <3>2. <<k, g[k - 1]>> \in (1..n) \X Seq(Nat) BY <3>1
    <3> QED BY <3>2
  <2> HIDE DEF rule, n
  <2> QED BY <1>2, <2>1 DEF Follows
<1>4. \E h : IsStruck(h) BY <1>3
<1> DEFINE f == CHOOSE h : IsStruck(h)
<1>5. IsStruck(f)
  <2> HIDE DEF IsStruck
  <2> QED BY <1>4
<1>6. DelIdxs(d, idxs) = f[n]
  BY DEF DelIdxs, P
<1> DEFINE S == {m \in Nat : m <= n => f[m] \in Seq(Nat)}
<1> HIDE DEF f
<1>7. 0 \in S BY <1>0, <1>5, <1>a
<1>8. ASSUME NEW m \in Nat, m \in S PROVE m + 1 \in S
  <2> SUFFICES ASSUME m + 1 <= n PROVE f[m + 1] \in Seq(Nat) OBVIOUS
  <2>1. f[m] \in Seq(Nat) BY <1>8, <1>0
  <2>2. m + 1 \in 1..n /\ m + 1 \in 0..n /\ m + 1 # 0 /\ (m + 1) - 1 = m BY <1>0
  <2>3. f[m + 1] = IF P(m + 1, f[m]) THEN f[m] ELSE Strike(d, idxs, n + 1 - (m + 1), f[m])
    BY <2>2, <1>5
  <2>4. Strike(d, idxs, n + 1 - (m + 1), f[m]) \in Seq(Nat) BY <2>1, <2>2, <1>b
  <2> QED BY <2>1, <2>3, <2>4
<1>9. Nat \subseteq S
  <2> HIDE DEF S
  <2> QED BY <1>7, <1>8, TrackerInduction
<1> QED BY <1>6, <1>9, <1>0

\* What is left after the thinning is a sequence of places, no longer than it was.
LEMMA ThinnedType ==
  ASSUME NEW d \in Seq(Places), NEW idxs \in Seq(Nat)
  PROVE  /\ DataPreprocessing(d, idxs) \in Seq(Places)
         /\ Len(DataPreprocessing(d, idxs)) <= Len(d)
<1> DEFINE del == DelIdxs(d, idxs)
           n == Len(del)
           X == {e \in Seq(Places) : Len(e) <= Len(d)}
           rule == [p \in (1..n) \X X |-> EraseAt(p[2], del[p[1]])]
           IsLeft(g) ==
             g = [k \in 0..n |-> IF k = 0 THEN d ELSE EraseAt(g[k - 1], del[k])]
<1>0. n \in Nat
  <2>1. del \in Seq(Nat) BY DelIdxsType
  <2> HIDE DEF del
  <2> QED BY <2>1
<1> HIDE DEF del, n
<1>a. d \in X OBVIOUS
<1>b. ASSUME NEW e \in X, NEW i PROVE EraseAt(e, i) \in X
  <2>1. e \in Seq(Places) /\ Len(e) <= Len(d) OBVIOUS
  <2>2. EraseAt(e, i) \in Seq(Places) /\ Len(EraseAt(e, i)) <= Len(e) BY <2>1, EraseAtType
  <2>3. Len(e) \in Nat /\ Len(EraseAt(e, i)) \in Nat /\ Len(d) \in Nat BY <2>1, <2>2
  <2>4. Len(EraseAt(e, i)) <= Len(d) BY <2>1, <2>2, <2>3
  <2> QED BY <2>2, <2>4
<1> HIDE DEF X
<1>1. rule \in [(1..n) \X X -> X]
  BY <1>b
<1>2. PICK g \in [0..n -> X] : Follows(g, n, d, rule)
  <2> HIDE DEF rule
  <2> QED BY <1>0, <1>1, <1>a, FollowsExists
<1>3. IsLeft(g)
  <2>1. ASSUME NEW k \in 0..n, k # 0
        PROVE  rule[<<k, g[k - 1]>>] = EraseAt(g[k - 1], del[k])
    <3>1. k \in 1..n /\ k - 1 \in 0..n BY <2>1, <1>0
    <3>2. <<k, g[k - 1]>> \in (1..n) \X X BY <3>1
    <3> QED BY <3>2
  <2> HIDE DEF rule
  <2> QED BY <1>2, <2>1 DEF Follows
<1>4. \E h : IsLeft(h) BY <1>3
<1> DEFINE f == CHOOSE h : IsLeft(h)
<1>5. IsLeft(f)
  <2> HIDE DEF IsLeft
  <2> QED BY <1>4
<1>6. DataPreprocessing(d, idxs) = f[n]
  BY DEF DataPreprocessing, n, del
<1> DEFINE S == {m \in Nat : m <= n => f[m] \in X}
<1> HIDE DEF f
<1>7. 0 \in S BY <1>0, <1>5, <1>a
<1>8. ASSUME NEW m \in Nat, m \in S PROVE m + 1 \in S
  <2> SUFFICES ASSUME m + 1 <= n PROVE f[m + 1] \in X OBVIOUS
  <2>1. f[m] \in X BY <1>8, <1>0
  <2>2. m + 1 \in 0..n /\ m + 1 # 0 /\ (m + 1) - 1 = m BY <1>0
  <2>3. f[m + 1] = EraseAt(f[m], del[m + 1])
    BY <2>2, <1>5
  <2> QED BY <2>1, <2>3, <1>b
<1>9. Nat \subseteq S
  <2> HIDE DEF S
  <2> QED BY <1>7, <1>8, TrackerInduction
<1>10. f[n] \in X BY <1>0, <1>9
<1> QED BY <1>6, <1>10 DEF X

-----------------------------------------------------------------------------
(* The cost of a pairing                                                   *)

Priced(P) == IsFiniteSet(P) /\ \A m \in P : PairCost(m) \in Int

\* One of the pairs and what the others cost.
Summed(g, s) ==
  LET m == CHOOSE m \in s : TRUE IN PairCost(m) + g[s \ {m}]

IsTotal(g, P) == g = [s \in SUBSET P |-> IF s = {} THEN 0 ELSE Summed(g, s)]

LEMMA WithoutOne ==
  ASSUME NEW P, IsFiniteSet(P), NEW s \in SUBSET P, s # {}
  PROVE  LET m == CHOOSE m \in s : TRUE
         IN  /\ m \in s /\ m \in P /\ s \ {m} \in SUBSET P /\ s = (s \ {m}) \union {m}
             /\ IsFiniteSet(s) /\ Cardinality(s) \in Nat /\ Cardinality(s \ {m}) \in Nat
             /\ Cardinality(s) = Cardinality(s \ {m}) + 1
<1> DEFINE m == CHOOSE m \in s : TRUE
<1>1. m \in s OBVIOUS
<1> HIDE DEF m
<1>2. IsFiniteSet(s) BY FS_Subset
<1>3. IsFiniteSet(s \ {m}) BY <1>2, FS_Subset
<1>4. Cardinality(s \ {m}) \in Nat /\ Cardinality(s) \in Nat
  BY <1>2, <1>3, FS_CardinalityType
<1>5. s = (s \ {m}) \union {m} /\ m \notin s \ {m} BY <1>1
<1>6. Cardinality((s \ {m}) \union {m}) = Cardinality(s \ {m}) + 1
  BY <1>3, <1>5, FS_AddElement
<1>7. Cardinality(s) = Cardinality(s \ {m}) + 1 BY <1>5, <1>6
<1> QED BY <1>1, <1>2, <1>4, <1>5, <1>7 DEF m

LEMMA TotalExists ==
  ASSUME NEW P, Priced(P)
  PROVE  \E g : IsTotal(g, P)
<1> DEFINE D(n) == {s \in SUBSET P : Cardinality(s) <= n}
           E(g, n) == g = [s \in D(n) |-> IF s = {} THEN 0 ELSE Summed(g, s)]
           S == {n \in Nat : \E g : E(g, n)}
<1>1. IsFiniteSet(P) BY DEF Priced
<1>2. 0 \in S
  <2> DEFINE g == [s \in D(0) |-> 0]
  <2>1. ASSUME NEW s \in D(0) PROVE s = {}
    <3> SUFFICES ASSUME s # {} PROVE FALSE OBVIOUS
    <3>1. s \in SUBSET P /\ Cardinality(s) <= 0 OBVIOUS
    <3> DEFINE m == CHOOSE m \in s : TRUE
               a == Cardinality(s)
               b == Cardinality(s \ {m})
    <3>2. a = b + 1 /\ b \in Nat BY <1>1, <3>1, WithoutOne
    <3>3. a <= 0 BY <3>1
    <3> HIDE DEF a, b
    <3> QED BY <3>2, <3>3
  <2>2. E(g, 0) BY <2>1
  <2> HIDE DEF g, E
  <2>3. \E h : E(h, 0) BY <2>2
  <2> QED BY <2>3
<1>3. ASSUME NEW n \in Nat, n \in S PROVE n + 1 \in S
  <2>1. PICK g : E(g, n) BY <1>3
  <2> DEFINE h == [s \in D(n + 1) |-> IF s = {} THEN 0 ELSE Summed(g, s)]
  <2>2. ASSUME NEW s \in D(n) PROVE h[s] = g[s]
    <3>1. s \in SUBSET P /\ Cardinality(s) <= n OBVIOUS
    <3>2. Cardinality(s) \in Nat BY <1>1, <3>1, FS_Subset, FS_CardinalityType
    <3> DEFINE a == Cardinality(s)
    <3>3. a <= n /\ a \in Nat BY <3>1, <3>2
    <3> HIDE DEF a
    <3>4. a <= n + 1 BY <3>3
    <3>5. s \in D(n + 1) BY <3>1, <3>4 DEF a
    <3> QED BY <2>1, <3>5
  <2>3. ASSUME NEW s \in D(n + 1), s # {} PROVE Summed(h, s) = Summed(g, s)
    <3>1. s \in SUBSET P /\ Cardinality(s) <= n + 1 OBVIOUS
    <3> DEFINE m == CHOOSE m \in s : TRUE
               a == Cardinality(s)
               b == Cardinality(s \ {m})
    <3>2. a = b + 1 /\ b \in Nat /\ s \ {m} \in SUBSET P BY <1>1, <3>1, <2>3, WithoutOne
    <3>3. a <= n + 1 BY <3>1
    <3> HIDE DEF a, b
    <3>4. b <= n BY <3>2, <3>3
    <3>5. s \ {m} \in D(n) BY <3>2, <3>4 DEF b
    <3>6. h[s \ {m}] = g[s \ {m}] BY <3>5, <2>2
    <3> HIDE DEF h
    <3> QED BY <3>6 DEF Summed
  <2>4. E(h, n + 1)
    <3>1. h = [s \in D(n + 1) |-> IF s = {} THEN 0 ELSE Summed(g, s)] OBVIOUS
    <3> HIDE DEF h
    <3> QED BY <2>3, <3>1
  <2> HIDE DEF h, E
  <2>5. \E f : E(f, n + 1) BY <2>4
  <2> QED BY <2>5
<1>4. Nat \subseteq S
  <2> HIDE DEF S
  <2> QED BY <1>2, <1>3, TrackerInduction
<1>5. Cardinality(P) \in Nat BY <1>1, FS_CardinalityType
<1>6. PICK g : E(g, Cardinality(P)) BY <1>4, <1>5
<1>7. D(Cardinality(P)) = SUBSET P
  <2>1. \A s \in SUBSET P : Cardinality(s) <= Cardinality(P) BY <1>1, FS_Subset
  <2> QED BY <2>1
<1>8. IsTotal(g, P) BY <1>6, <1>7 DEF IsTotal
<1> QED BY <1>8

LEMMA TotalType ==
  ASSUME NEW P, Priced(P), NEW g, IsTotal(g, P)
  PROVE  g[{}] = 0 /\ \A s \in SUBSET P : g[s] \in Int
<1> DEFINE S == {n \in Nat : \A s \in SUBSET P : Cardinality(s) = n => g[s] \in Int}
<1>1. g[{}] = 0 /\ \A s \in SUBSET P : s # {} => g[s] = Summed(g, s) BY DEF IsTotal
<1>2. ASSUME NEW s \in SUBSET P, s # {}
      PROVE  /\ g[s] = PairCost(CHOOSE m \in s : TRUE) + g[s \ {CHOOSE m \in s : TRUE}]
             /\ PairCost(CHOOSE m \in s : TRUE) \in Int
             /\ s \ {CHOOSE m \in s : TRUE} \in SUBSET P
             /\ Cardinality(s \ {CHOOSE m \in s : TRUE}) \in Nat
             /\ Cardinality(s) = Cardinality(s \ {CHOOSE m \in s : TRUE}) + 1
  BY <1>1, <1>2, WithoutOne DEF Priced, Summed
<1>3. 0 \in S
  <2> SUFFICES ASSUME NEW s \in SUBSET P, Cardinality(s) = 0 PROVE g[s] \in Int OBVIOUS
  <2>1. CASE s = {} BY <2>1, <1>1
  <2>2. CASE s # {}
    <3> DEFINE b == Cardinality(s \ {CHOOSE m \in s : TRUE})
    <3>1. b \in Nat /\ Cardinality(s) = b + 1 BY <2>2, <1>2
    <3> HIDE DEF b
    <3>2. 0 = b + 1 BY <3>1
    <3> QED BY <3>1, <3>2
  <2> QED BY <2>1, <2>2
<1>4. ASSUME NEW n \in Nat, n \in S PROVE n + 1 \in S
  <2> SUFFICES ASSUME NEW s \in SUBSET P, Cardinality(s) = n + 1 PROVE g[s] \in Int OBVIOUS
  <2>1. CASE s = {} BY <2>1, <1>1
  <2>2. CASE s # {}
    <3> DEFINE t == s \ {CHOOSE m \in s : TRUE}
               b == Cardinality(t)
               c == PairCost(CHOOSE m \in s : TRUE)
    <3>1. b \in Nat /\ n + 1 = b + 1 /\ t \in SUBSET P /\ c \in Int /\ g[s] = c + g[t]
      BY <2>2, <1>2
    <3> HIDE DEF c
    <3>2. b = n
      <4> HIDE DEF b
      <4> QED BY <3>1
    <3> HIDE DEF t
    <3>3. g[t] \in Int BY <3>1, <3>2, <1>4
    <3> QED BY <3>1, <3>3
  <2> QED BY <2>1, <2>2
<1>5. Nat \subseteq S
  <2> HIDE DEF S
  <2> QED BY <1>3, <1>4, TrackerInduction
<1>6. ASSUME NEW s \in SUBSET P PROVE g[s] \in Int
  <2>1. IsFiniteSet(s) BY FS_Subset DEF Priced
  <2>2. Cardinality(s) \in Nat BY <2>1, FS_CardinalityType
  <2> QED BY <1>5, <2>2
<1> QED BY <1>1, <1>6

LEMMA TotalAdds ==
  ASSUME NEW P, Priced(P), NEW g, IsTotal(g, P)
  PROVE  \A s \in SUBSET P : \A m \in P \ s : g[s \union {m}] = g[s] + PairCost(m)
<1> DEFINE S == {n \in Nat : \A s \in SUBSET P : \A m \in P \ s :
                   Cardinality(s) = n => g[s \union {m}] = g[s] + PairCost(m)}
<1>1. /\ g[{}] = 0 /\ \A s \in SUBSET P : g[s] \in Int
      /\ \A m \in P : PairCost(m) \in Int
      /\ \A s \in SUBSET P : s # {} => g[s] = Summed(g, s)
  BY TotalType DEF IsTotal, Priced
<1>2. ASSUME NEW s \in SUBSET P, s # {}
      PROVE  \E x \in s : /\ g[s] = PairCost(x) + g[s \ {x}]
                          /\ x \in P /\ s \ {x} \in SUBSET P /\ s = (s \ {x}) \union {x}
                          /\ Cardinality(s) \in Nat /\ Cardinality(s \ {x}) \in Nat
                          /\ Cardinality(s) = Cardinality(s \ {x}) + 1
  <2> DEFINE x == CHOOSE m \in s : TRUE
  <2>1. g[s] = PairCost(x) + g[s \ {x}] BY <1>1, <1>2 DEF Summed
  <2>2. /\ x \in s /\ x \in P /\ s \ {x} \in SUBSET P /\ s = (s \ {x}) \union {x}
        /\ Cardinality(s) \in Nat /\ Cardinality(s \ {x}) \in Nat
        /\ Cardinality(s) = Cardinality(s \ {x}) + 1
    BY <1>2, WithoutOne DEF Priced
  <2> HIDE DEF x
  <2> QED BY <2>1, <2>2
<1>3. ASSUME NEW s \in SUBSET P, NEW m \in P \ s, s = {}
      PROVE  g[s \union {m}] = g[s] + PairCost(m)
  <2>1. s \union {m} = {m} /\ {m} \in SUBSET P /\ {m} # {} BY <1>3
  <2>2. PICK x \in {m} : g[{m}] = PairCost(x) + g[{m} \ {x}] BY <2>1, <1>2
  <2>3. x = m /\ {m} \ {x} = {} BY <2>2
  <2>4. g[{m}] = PairCost(m) + g[{}] BY <2>2, <2>3
  <2>5. g[{}] = 0 /\ PairCost(m) \in Int BY <1>1
  <2>6. g[{m}] = g[{}] + PairCost(m) BY <2>4, <2>5
  <2> QED BY <2>1, <2>6, <1>3
<1>4. 0 \in S
  <2> SUFFICES ASSUME NEW s \in SUBSET P, NEW m \in P \ s, Cardinality(s) = 0
               PROVE  g[s \union {m}] = g[s] + PairCost(m)
    OBVIOUS
  <2>1. CASE s = {} BY <2>1, <1>3
  <2>2. CASE s # {}
    <3>1. PICK x \in s : /\ Cardinality(s \ {x}) \in Nat
                         /\ Cardinality(s) = Cardinality(s \ {x}) + 1
      BY <2>2, <1>2
    <3> DEFINE b == Cardinality(s \ {x})
    <3>2. b \in Nat /\ 0 = b + 1 BY <3>1
    <3> HIDE DEF b
    <3> QED BY <3>2
  <2> QED BY <2>1, <2>2
<1>5. ASSUME NEW n \in Nat, n \in S PROVE n + 1 \in S
  <2> SUFFICES ASSUME NEW s \in SUBSET P, NEW m \in P \ s, Cardinality(s) = n + 1
               PROVE  g[s \union {m}] = g[s] + PairCost(m)
    OBVIOUS
  <2>1. CASE s = {} BY <2>1, <1>3
  <2>2. CASE s # {}
    <3> DEFINE t == s \union {m}
    <3>1. t \in SUBSET P /\ t # {} OBVIOUS
    <3>2. PICK x \in t : g[t] = PairCost(x) + g[t \ {x}] BY <3>1, <1>2
    <3>3. CASE x = m
      <4>1. t \ {x} = s BY <3>3
      <4>2. g[t] = PairCost(m) + g[s] BY <3>2, <3>3, <4>1
      <4>3. g[s] \in Int /\ PairCost(m) \in Int BY <1>1
      <4> HIDE DEF t
      <4>4. g[t] = g[s] + PairCost(m) BY <4>2, <4>3
      <4> QED BY <4>4 DEF t
    <3>4. CASE x # m
      <4> DEFINE r == s \ {x}
      <4>1. x \in s /\ r \in SUBSET P /\ m \in P \ r /\ x \in P \ r BY <3>4
      <4>2. t \ {x} = r \union {m} /\ s = r \union {x} BY <3>4, <4>1
      <4>3. Cardinality(r) = n
        <5>1. IsFiniteSet(r) BY FS_Subset DEF Priced
        <5>2. Cardinality(r) \in Nat BY <5>1, FS_CardinalityType
        <5>3. x \notin r OBVIOUS
        <5>4. Cardinality(r \union {x}) = Cardinality(r) + 1 BY <5>1, <5>3, FS_AddElement
        <5> DEFINE b == Cardinality(r)
        <5>5. b \in Nat /\ n + 1 = b + 1 BY <5>2, <5>4, <4>2
        <5> HIDE DEF b
        <5>6. b = n BY <5>5
        <5> QED BY <5>6 DEF b
      <4> HIDE DEF r
      <4>4. g[r \union {m}] = g[r] + PairCost(m) BY <4>1, <4>3, <1>5
      <4>5. g[r \union {x}] = g[r] + PairCost(x) BY <4>1, <4>3, <1>5
      <4>6. g[r] \in Int /\ PairCost(m) \in Int /\ PairCost(x) \in Int BY <4>1, <1>1
      <4>7. g[t] = PairCost(x) + (g[r] + PairCost(m)) BY <3>2, <4>2, <4>4
      <4>8. g[s] = g[r] + PairCost(x) BY <4>2, <4>5
      <4>9. g[t] = g[s] + PairCost(m) BY <4>6, <4>7, <4>8
      <4> QED BY <4>9
    <3> QED BY <3>3, <3>4
  <2> QED BY <2>1, <2>2
<1>6. Nat \subseteq S
  <2> HIDE DEF S
  <2> QED BY <1>4, <1>5, TrackerInduction
<1>7. \A s \in SUBSET P : Cardinality(s) \in Nat
  BY FS_Subset, FS_CardinalityType DEF Priced
<1> QED BY <1>6, <1>7

\* A pair is replaced by another.
LEMMA TotalReplaces ==
  ASSUME NEW P, Priced(P), NEW g, IsTotal(g, P),
         NEW s \in SUBSET P, NEW a \in s, NEW b \in P \ s
  PROVE  g[(s \ {a}) \union {b}] = g[s] - PairCost(a) + PairCost(b)
<1> DEFINE r == s \ {a}
<1>1. r \in SUBSET P /\ a \in P \ r /\ b \in P \ r /\ s = r \union {a} OBVIOUS
<1> HIDE DEF r
<1>2. g[r \union {a}] = g[r] + PairCost(a) /\ g[r \union {b}] = g[r] + PairCost(b)
  BY <1>1, TotalAdds
<1>3. g[r] \in Int /\ PairCost(a) \in Int /\ PairCost(b) \in Int
  BY <1>1, TotalType DEF Priced
<1>4. g[r \union {b}] = g[s] - PairCost(a) + PairCost(b) BY <1>1, <1>2, <1>3
<1> QED BY <1>4 DEF r

-----------------------------------------------------------------------------
(* The pairings                                                            *)

\* No two pairs share a track or a detection.
Matching(p) == \A m, n \in p : m[1] = n[1] \/ m[2] = n[2] => m = n

\* As many as possible are paired.
Full(p, ts, ds) ==
  IF Cardinality(ts) <= Cardinality(ds) THEN Chosen(p) = ts ELSE Taken(p) = ds

LEMMA PairingIs ==
  ASSUME NEW ts, NEW ds, NEW p \in Pairings(ts, ds)
  PROVE  p \in SUBSET (ts \X ds) /\ Matching(p) /\ Full(p, ts, ds)
<1>1. CASE Cardinality(ts) <= Cardinality(ds)
  <2>1. PICK f \in [ts -> ds] : /\ \A a, b \in ts : f[a] = f[b] => a = b
                                /\ p = {<<t, f[t]>> : t \in ts}
    BY <1>1 DEF Pairings
  <2>2. p \in SUBSET (ts \X ds) BY <2>1
  <2>3. Matching(p) BY <2>1 DEF Matching
  <2>4. Chosen(p) = ts
    <3>1. ASSUME NEW t \in ts PROVE t \in Chosen(p)
      <4>1. <<t, f[t]>> \in p /\ <<t, f[t]>>[1] = t BY <2>1
      <4> QED BY <4>1 DEF Chosen
    <3>2. ASSUME NEW m \in p PROVE m[1] \in ts BY <2>2
    <3> QED BY <3>1, <3>2 DEF Chosen
  <2> QED BY <2>2, <2>3, <2>4, <1>1 DEF Full
<1>2. CASE ~(Cardinality(ts) <= Cardinality(ds))
  <2>1. PICK f \in [ds -> ts] : /\ \A a, b \in ds : f[a] = f[b] => a = b
                                /\ p = {<<f[d], d>> : d \in ds}
    BY <1>2 DEF Pairings
  <2>2. p \in SUBSET (ts \X ds) BY <2>1
  <2>3. Matching(p) BY <2>1 DEF Matching
  <2>4. Taken(p) = ds
    <3>1. ASSUME NEW d \in ds PROVE d \in Taken(p)
      <4>1. <<f[d], d>> \in p /\ <<f[d], d>>[2] = d BY <2>1
      <4> QED BY <4>1 DEF Taken
    <3>2. ASSUME NEW m \in p PROVE m[2] \in ds BY <2>2
    <3> QED BY <3>1, <3>2 DEF Taken
  <2> QED BY <2>2, <2>3, <2>4, <1>2 DEF Full
<1> QED BY <1>1, <1>2

LEMMA IsPairing ==
  ASSUME NEW ts, NEW ds, NEW p \in SUBSET (ts \X ds), Matching(p), Full(p, ts, ds)
  PROVE  p \in Pairings(ts, ds)
<1>1. CASE Cardinality(ts) <= Cardinality(ds)
  <2>1. Chosen(p) = ts BY <1>1 DEF Full
  <2> DEFINE f == [t \in ts |-> (CHOOSE m \in p : m[1] = t)[2]]
  <2>2. ASSUME NEW t \in ts PROVE <<t, f[t]>> \in p /\ f[t] \in ds
    <3>1. \E m \in p : m[1] = t BY <2>1 DEF Chosen
    <3> DEFINE m == CHOOSE m \in p : m[1] = t
    <3>2. m \in p /\ m[1] = t BY <3>1
    <3>3. f[t] = m[2] OBVIOUS
    <3> HIDE DEF m, f
    <3>4. m = <<t, f[t]>> BY <3>2, <3>3
    <3> QED BY <3>2, <3>4
  <2>3. f \in [ts -> ds] BY <2>2
  <2> HIDE DEF f
  <2>4. \A a, b \in ts : f[a] = f[b] => a = b
    <3> SUFFICES ASSUME NEW a \in ts, NEW b \in ts, f[a] = f[b] PROVE a = b OBVIOUS
    <3>1. <<a, f[a]>> \in p /\ <<b, f[b]>> \in p BY <2>2
    <3>2. <<a, f[a]>> = <<b, f[b]>> BY <3>1 DEF Matching
    <3> QED BY <3>2
  <2>5. p = {<<t, f[t]>> : t \in ts}
    <3>1. ASSUME NEW m \in p PROVE m \in {<<t, f[t]>> : t \in ts}
      <4>1. m[1] \in ts /\ m = <<m[1], m[2]>> OBVIOUS
      <4>2. <<m[1], f[m[1]]>> \in p BY <4>1, <2>2
      <4>3. m = <<m[1], f[m[1]]>> BY <4>2 DEF Matching
      <4> QED BY <4>1, <4>3
    <3>2. ASSUME NEW t \in ts PROVE <<t, f[t]>> \in p BY <2>2
    <3> QED BY <3>1, <3>2
  <2> QED BY <2>3, <2>4, <2>5, <1>1 DEF Pairings
<1>2. CASE ~(Cardinality(ts) <= Cardinality(ds))
  <2>1. Taken(p) = ds BY <1>2 DEF Full
  <2> DEFINE f == [d \in ds |-> (CHOOSE m \in p : m[2] = d)[1]]
  <2>2. ASSUME NEW d \in ds PROVE <<f[d], d>> \in p /\ f[d] \in ts
    <3>1. \E m \in p : m[2] = d BY <2>1 DEF Taken
    <3> DEFINE m == CHOOSE m \in p : m[2] = d
    <3>2. m \in p /\ m[2] = d BY <3>1
    <3>3. f[d] = m[1] OBVIOUS
    <3> HIDE DEF m, f
    <3>4. m = <<f[d], d>> BY <3>2, <3>3
    <3> QED BY <3>2, <3>4
  <2>3. f \in [ds -> ts] BY <2>2
  <2> HIDE DEF f
  <2>4. \A a, b \in ds : f[a] = f[b] => a = b
    <3> SUFFICES ASSUME NEW a \in ds, NEW b \in ds, f[a] = f[b] PROVE a = b OBVIOUS
    <3>1. <<f[a], a>> \in p /\ <<f[b], b>> \in p BY <2>2
    <3>2. <<f[a], a>> = <<f[b], b>> BY <3>1 DEF Matching
    <3> QED BY <3>2
  <2>5. p = {<<f[d], d>> : d \in ds}
    <3>1. ASSUME NEW m \in p PROVE m \in {<<f[d], d>> : d \in ds}
      <4>1. m[2] \in ds /\ m = <<m[1], m[2]>> OBVIOUS
      <4>2. <<f[m[2]], m[2]>> \in p BY <4>1, <2>2
      <4>3. m = <<f[m[2]], m[2]>> BY <4>2 DEF Matching
      <4> QED BY <4>1, <4>3
    <3>2. ASSUME NEW d \in ds PROVE <<f[d], d>> \in p BY <2>2
    <3> QED BY <3>1, <3>2
  <2> QED BY <2>3, <2>4, <2>5, <1>2 DEF Pairings
<1> QED BY <1>1, <1>2

-----------------------------------------------------------------------------
(* Nobody is left within reach of anybody left                             *)

LEMMA IouCostType ==
  ASSUME NEW a \in Nat, NEW b \in Nat
  PROVE  IouCost(a, b) \in Int /\ IouCost(a, b) <= MaxDistance + 1
<1>1. BoxSize \in Nat /\ BoxSize > 0 /\ MaxDistance \in Nat BY TrackerAssumption
<1>2. Shift(a, b) \in Nat BY DEF Shift
<1>3. Common(a, b) \in Nat /\ Common(a, b) <= BoxSize BY <1>1, <1>2 DEF Common
<1> DEFINE c == Common(a, b)
           q == (100 * c) \div (2 * BoxSize - c)
<1>4. q \in Int
  <2>1. c \in Nat /\ c <= BoxSize BY <1>3
  <2> HIDE DEF c
  <2>2. 2 * BoxSize - c \in Nat /\ 2 * BoxSize - c > 0 BY <1>1, <2>1
  <2> DEFINE e == 2 * BoxSize - c
             h == 100 * c
  <2>3. e \in Nat /\ e > 0 /\ h \in Int BY <2>1, <2>2
  <2> HIDE DEF e, h
  <2>4. h \div e \in Int BY <2>3
  <2> QED BY <2>4 DEF e, h
<1>5. IouCost(a, b) = IF 100 - q > MaxDistance THEN MaxDistance + 1 ELSE 100 - q
  BY DEF IouCost
<1> HIDE DEF q
<1> QED BY <1>1, <1>4, <1>5

\* The costs are integers, those of pairs too far apart all the same.
Capped(P) == IsFiniteSet(P) /\ \A m \in P : PairCost(m) \in Int /\ PairCost(m) <= MaxDistance + 1

\* A pairing of least cost, and what is kept of it.
Cheapest(g, p, ts, ds) ==
  /\ IsTotal(g, ts \X ds) /\ p \in Pairings(ts, ds)
  /\ \A r \in Pairings(ts, ds) : g[p] <= g[r]

LEMMA MatchingsAre ==
  ASSUME NEW ts, NEW ds, Capped(ts \X ds), NEW ms \in MinCostMatchings(ts, ds)
  PROVE  \E g, p : Cheapest(g, p, ts, ds) /\ ms = {m \in p : PairCost(m) <= MaxDistance}
<1> DEFINE f == CHOOSE h : h = [p \in SUBSET (ts \X ds) |->
                                  IF p = {} THEN 0
                                  ELSE LET m == CHOOSE m \in p : TRUE
                                       IN PairCost(m) + h[p \ {m}]]
<1>1. PICK p \in Pairings(ts, ds) :
         /\ \A r \in Pairings(ts, ds) : f[p] <= f[r]
         /\ ms = {m \in p : PairCost(m) <= MaxDistance}
  BY DEF MinCostMatchings
<1>2. \E h : IsTotal(h, ts \X ds)
  <2>1. Priced(ts \X ds) BY DEF Priced, Capped
  <2> QED BY <2>1, TotalExists
<1>3. \E h : h = [p_1 \in SUBSET (ts \X ds) |->
                    IF p_1 = {} THEN 0
                    ELSE LET m == CHOOSE m \in p_1 : TRUE
                         IN PairCost(m) + h[p_1 \ {m}]]
  BY <1>2 DEF IsTotal, Summed
<1>4. IsTotal(f, ts \X ds) BY <1>3 DEF IsTotal, Summed
<1> HIDE DEF f
<1> QED BY <1>1, <1>4 DEF Cheapest

\* A cheaper pairing there is not.
LEMMA NotCheaper ==
  ASSUME NEW ts, NEW ds, NEW g, NEW p, Cheapest(g, p, ts, ds),
         NEW q \in SUBSET (ts \X ds), Matching(q), Full(q, ts, ds)
  PROVE  g[p] <= g[q]
<1>1. q \in Pairings(ts, ds) BY IsPairing
<1> QED BY <1>1 DEF Cheapest

\* One pair replaced.
LEMMA OneReplaced ==
  ASSUME NEW ts, NEW ds, Capped(ts \X ds), NEW g, NEW p, Cheapest(g, p, ts, ds),
         NEW a \in p, NEW x \in (ts \X ds) \ p,
         Matching((p \ {a}) \union {x}), Full((p \ {a}) \union {x}, ts, ds)
  PROVE  PairCost(a) <= PairCost(x)
<1>1. Priced(ts \X ds) BY DEF Priced, Capped
<1>2. p \in SUBSET (ts \X ds) BY PairingIs DEF Cheapest
<1> DEFINE q == (p \ {a}) \union {x}
<1>3. q \in SUBSET (ts \X ds) BY <1>2
<1>4. g[p] <= g[q]
  <2>1. Matching(q) /\ Full(q, ts, ds) OBVIOUS
  <2> HIDE DEF q
  <2> QED BY <1>3, <2>1, NotCheaper
<1>5. IsTotal(g, ts \X ds) BY DEF Cheapest
<1>6. g[q] = g[p] - PairCost(a) + PairCost(x) BY <1>1, <1>2, <1>5, TotalReplaces
<1>7. g[p] \in Int /\ PairCost(a) \in Int /\ PairCost(x) \in Int
  BY <1>1, <1>2, <1>5, TotalType DEF Priced
<1> HIDE DEF q
<1> QED BY <1>4, <1>6, <1>7

\* Two pairs replaced.
LEMMA TwoReplaced ==
  ASSUME NEW ts, NEW ds, Capped(ts \X ds), NEW g, NEW p, Cheapest(g, p, ts, ds),
         NEW a \in p, NEW b \in p, a # b,
         NEW x \in (ts \X ds) \ p, NEW y \in (ts \X ds) \ p, x # y,
         NEW q, q = (((p \ {a}) \union {x}) \ {b}) \union {y},
         Matching(q), Full(q, ts, ds)
  PROVE  PairCost(a) + PairCost(b) <= PairCost(x) + PairCost(y)
<1>1. Priced(ts \X ds) BY DEF Priced, Capped
<1>2. p \in SUBSET (ts \X ds) BY PairingIs DEF Cheapest
<1> DEFINE r == (p \ {a}) \union {x}
<1>3. r \in SUBSET (ts \X ds) /\ b \in r /\ y \in (ts \X ds) \ r /\ q \in SUBSET (ts \X ds)
  BY <1>2
<1>4. q = (r \ {b}) \union {y} OBVIOUS
<1>5. g[p] <= g[q] BY <1>3, NotCheaper
<1>6. IsTotal(g, ts \X ds) BY DEF Cheapest
<1>7. g[r] = g[p] - PairCost(a) + PairCost(x) BY <1>1, <1>2, <1>6, TotalReplaces
<1> HIDE DEF r
<1>8. g[(r \ {b}) \union {y}] = g[r] - PairCost(b) + PairCost(y)
  BY <1>1, <1>3, <1>6, TotalReplaces
<1>9. g[q] = g[r] - PairCost(b) + PairCost(y) BY <1>4, <1>8
<1>10. g[p] \in Int BY <1>1, <1>2, <1>6, TotalType
<1>11. /\ PairCost(a) \in Int /\ PairCost(b) \in Int
       /\ PairCost(x) \in Int /\ PairCost(y) \in Int
  BY <1>1, <1>2 DEF Priced
<1> QED BY <1>5, <1>7, <1>9, <1>10, <1>11

LEMMA NobodyLeft ==
  ASSUME NEW ts, NEW ds, Capped(ts \X ds), NEW g, NEW p, Cheapest(g, p, ts, ds),
         NEW t \in ts, NEW d \in ds,
         PairCost(<<t, d>>) <= MaxDistance,
         \A m \in p : m[1] = t => ~(PairCost(m) <= MaxDistance),
         \A m \in p : m[2] = d => ~(PairCost(m) <= MaxDistance)
  PROVE  FALSE
<1>1. p \in SUBSET (ts \X ds) /\ Matching(p) /\ Full(p, ts, ds) BY PairingIs DEF Cheapest
<1>2. MaxDistance \in Int BY TrackerAssumption
<1> DEFINE x == <<t, d>>
<1>3. x \in (ts \X ds) \ p /\ x[1] = t /\ x[2] = d OBVIOUS
<1>4. PairCost(x) \in Int /\ PairCost(x) <= MaxDistance BY <1>3 DEF Capped
<1> HIDE DEF x
<1>5. ASSUME NEW m \in p PROVE PairCost(m) \in Int /\ PairCost(m) <= MaxDistance + 1
  BY <1>1 DEF Capped
<1>6. ASSUME NEW m \in p, m[1] = t \/ m[2] = d PROVE PairCost(m) = MaxDistance + 1
  <2>1. ~(PairCost(m) <= MaxDistance) BY <1>6
  <2> DEFINE c == PairCost(m)
  <2>2. c \in Int /\ c <= MaxDistance + 1 /\ ~(c <= MaxDistance) BY <1>5, <2>1
  <2> HIDE DEF c
  <2>3. c = MaxDistance + 1 BY <2>2, <1>2
  <2> QED BY <2>3 DEF c
<1>7. ASSUME NEW a \in p, a[1] = t, \A m \in p : m[2] # d PROVE FALSE
  <2> DEFINE q == (p \ {a}) \union {x}
  <2>1. Matching(q)
    <3> SUFFICES ASSUME NEW m \in q, NEW n \in q, m[1] = n[1] \/ m[2] = n[2] PROVE m = n
      BY DEF Matching
    <3>1. ASSUME NEW k \in p \ {a} PROVE k[1] # t /\ k[2] # d BY <1>1, <1>7 DEF Matching
    <3> QED BY <3>1, <1>1, <1>3 DEF Matching
  <2>2. Chosen(q) = Chosen(p)
    <3>1. ASSUME NEW i \in Chosen(p) PROVE i \in Chosen(q)
      <4>1. PICK m \in p : m[1] = i BY DEF Chosen
      <4>2. m = a => x \in q /\ x[1] = i BY <4>1, <1>3, <1>7
      <4>3. m # a => m \in q OBVIOUS
      <4> QED BY <4>1, <4>2, <4>3 DEF Chosen
    <3>2. ASSUME NEW m \in q PROVE m[1] \in Chosen(p)
      <4>1. m = x \/ m \in p OBVIOUS
      <4>2. a[1] \in Chosen(p) BY DEF Chosen
      <4>3. m = x => m[1] \in Chosen(p) BY <4>2, <1>3, <1>7
      <4>4. m \in p => m[1] \in Chosen(p) BY DEF Chosen
      <4> QED BY <4>1, <4>3, <4>4
    <3>3. Chosen(q) \subseteq Chosen(p) BY <3>2 DEF Chosen
    <3> QED BY <3>1, <3>3
  <2>3. Full(q, ts, ds)
    <3>1. d \notin Taken(p) BY <1>7 DEF Taken
    <3> QED BY <3>1, <2>2, <1>1 DEF Full
  <2>4. PairCost(a) <= PairCost(x) BY <1>3, <2>1, <2>3, OneReplaced
  <2>5. PairCost(a) = MaxDistance + 1 BY <1>6, <1>7
  <2> QED BY <2>4, <2>5, <1>2, <1>4
<1>8. ASSUME NEW b \in p, b[2] = d, \A m \in p : m[1] # t PROVE FALSE
  <2> DEFINE q == (p \ {b}) \union {x}
  <2>1. Matching(q)
    <3> SUFFICES ASSUME NEW m \in q, NEW n \in q, m[1] = n[1] \/ m[2] = n[2] PROVE m = n
      BY DEF Matching
    <3>1. ASSUME NEW k \in p \ {b} PROVE k[1] # t /\ k[2] # d BY <1>1, <1>8 DEF Matching
    <3> QED BY <3>1, <1>1, <1>3 DEF Matching
  <2>2. Taken(q) = Taken(p)
    <3>1. ASSUME NEW i \in Taken(p) PROVE i \in Taken(q)
      <4>1. PICK m \in p : m[2] = i BY DEF Taken
      <4>2. m = b => x \in q /\ x[2] = i BY <4>1, <1>3, <1>8
      <4>3. m # b => m \in q OBVIOUS
      <4> QED BY <4>1, <4>2, <4>3 DEF Taken
    <3>2. ASSUME NEW m \in q PROVE m[2] \in Taken(p)
      <4>1. m = x \/ m \in p OBVIOUS
      <4>2. b[2] \in Taken(p) BY DEF Taken
      <4>3. m = x => m[2] \in Taken(p) BY <4>2, <1>3, <1>8
      <4>4. m \in p => m[2] \in Taken(p) BY DEF Taken
      <4> QED BY <4>1, <4>3, <4>4
    <3>3. Taken(q) \subseteq Taken(p) BY <3>2 DEF Taken
    <3> QED BY <3>1, <3>3
  <2>3. Full(q, ts, ds)
    <3>1. t \notin Chosen(p) BY <1>8 DEF Chosen
    <3> QED BY <3>1, <2>2, <1>1 DEF Full
  <2>4. PairCost(b) <= PairCost(x) BY <1>3, <2>1, <2>3, OneReplaced
  <2>5. PairCost(b) = MaxDistance + 1 BY <1>6, <1>8
  <2> QED BY <2>4, <2>5, <1>2, <1>4
<1>9. ASSUME NEW a \in p, a[1] = t, NEW b \in p, b[2] = d PROVE FALSE
  <2> DEFINE y == <<b[1], a[2]>>
  <2>1. /\ a \in ts \X ds /\ b \in ts \X ds
        /\ y \in ts \X ds /\ y[1] = b[1] /\ y[2] = a[2]
    BY <1>1
  <2> HIDE DEF y
  <2>2. a # b /\ a[2] # d /\ b[1] # t
    <3>1. a[2] # d
      <4> SUFFICES ASSUME a[2] = d PROVE FALSE OBVIOUS
      <4>1. a = <<t, d>> BY <2>1, <1>9
      <4> QED BY <4>1, <1>3 DEF x
    <3>2. b[1] # t
      <4> SUFFICES ASSUME b[1] = t PROVE FALSE OBVIOUS
      <4>1. b = <<t, d>> BY <2>1, <1>9
      <4> QED BY <4>1, <1>3 DEF x
    <3> QED BY <3>1, <3>2, <1>9
  <2>3. y \notin p
    <3> SUFFICES ASSUME y \in p PROVE FALSE OBVIOUS
    <3>1. y = b BY <2>1, <1>1 DEF Matching
    <3>2. b[2] = a[2] BY <3>1, <2>1
    <3> QED BY <3>2, <2>2, <1>9
  <2>4. x # y BY <2>1, <2>2, <1>3
  <2> DEFINE q == (((p \ {a}) \union {x}) \ {b}) \union {y}
  <2>5. \A k : k \in q <=> k = x \/ k = y \/ (k \in p /\ k # a /\ k # b)
    BY <2>2, <2>3, <1>3
  <2> HIDE DEF q
  <2>6. ASSUME NEW k \in p, k # a, k # b
        PROVE  k[1] # t /\ k[2] # d /\ k[1] # b[1] /\ k[2] # a[2]
    BY <1>1, <1>9, <2>6 DEF Matching
  <2>7. Matching(q)
    <3> SUFFICES ASSUME NEW m \in q, NEW n \in q, m[1] = n[1] \/ m[2] = n[2] PROVE m = n
      BY DEF Matching
    <3>1. m = x \/ m = y \/ (m \in p /\ m # a /\ m # b) BY <2>5
    <3>2. n = x \/ n = y \/ (n \in p /\ n # a /\ n # b) BY <2>5
    <3>3. CASE m = x
      BY <3>2, <3>3, <2>6, <1>3, <2>1, <2>2
    <3>4. CASE m = y
      BY <3>2, <3>4, <2>6, <1>3, <2>1, <2>2
    <3>5. CASE m \in p /\ m # a /\ m # b
      <4>1. n # x /\ n # y BY <3>5, <2>6, <1>3, <2>1
      <4> QED BY <3>2, <3>5, <4>1, <1>1 DEF Matching
    <3> QED BY <3>1, <3>3, <3>4, <3>5
  <2>8. x \in q /\ y \in q BY <2>5
  <2>9. Chosen(q) = Chosen(p)
    <3>1. ASSUME NEW i \in Chosen(p) PROVE i \in Chosen(q)
      <4>1. PICK m \in p : m[1] = i BY DEF Chosen
      <4>2. m = a => x[1] = i BY <4>1, <1>3, <1>9
      <4>3. m = b => y[1] = i BY <4>1, <2>1
      <4>4. m # a /\ m # b => m \in q BY <2>5
      <4> QED BY <4>1, <4>2, <4>3, <4>4, <2>8 DEF Chosen
    <3>2. ASSUME NEW m \in q PROVE m[1] \in Chosen(p)
      <4>1. a[1] \in Chosen(p) /\ b[1] \in Chosen(p) BY DEF Chosen
      <4>2. m = x => m[1] \in Chosen(p) BY <4>1, <1>3, <1>9
      <4>3. m = y => m[1] \in Chosen(p) BY <4>1, <2>1
      <4>4. m \in p => m[1] \in Chosen(p) BY DEF Chosen
      <4> QED BY <2>5, <4>2, <4>3, <4>4
    <3>3. Chosen(q) \subseteq Chosen(p) BY <3>2 DEF Chosen
    <3> QED BY <3>1, <3>3
  <2>10. Taken(q) = Taken(p)
    <3>1. ASSUME NEW i \in Taken(p) PROVE i \in Taken(q)
      <4>1. PICK m \in p : m[2] = i BY DEF Taken
      <4>2. m = b => x[2] = i BY <4>1, <1>3, <1>9
      <4>3. m = a => y[2] = i BY <4>1, <2>1
      <4>4. m # a /\ m # b => m \in q BY <2>5
      <4> QED BY <4>1, <4>2, <4>3, <4>4, <2>8 DEF Taken
    <3>2. ASSUME NEW m \in q PROVE m[2] \in Taken(p)
      <4>1. a[2] \in Taken(p) /\ b[2] \in Taken(p) BY DEF Taken
      <4>2. m = x => m[2] \in Taken(p) BY <4>1, <1>3, <1>9
      <4>3. m = y => m[2] \in Taken(p) BY <4>1, <2>1
      <4>4. m \in p => m[2] \in Taken(p) BY DEF Taken
      <4> QED BY <2>5, <4>2, <4>3, <4>4
    <3>3. Taken(q) \subseteq Taken(p) BY <3>2 DEF Taken
    <3> QED BY <3>1, <3>3
  <2>11. Full(q, ts, ds) BY <2>9, <2>10, <1>1 DEF Full
  <2>12. PairCost(a) + PairCost(b) <= PairCost(x) + PairCost(y)
    <3>1. x \in (ts \X ds) \ p /\ y \in (ts \X ds) \ p BY <1>3, <2>1, <2>3
    <3>2. q = (((p \ {a}) \union {x}) \ {b}) \union {y} BY DEF q
    <3> QED BY <3>1, <3>2, <2>2, <2>4, <2>7, <2>11, TwoReplaced
  <2>13. PairCost(a) = MaxDistance + 1 /\ PairCost(b) = MaxDistance + 1
    BY <1>6, <1>9
  <2>14. PairCost(y) \in Int /\ PairCost(y) <= MaxDistance + 1 BY <2>1 DEF Capped
  <2> DEFINE u == PairCost(x)
             v == PairCost(y)
  <2>15. /\ (MaxDistance + 1) + (MaxDistance + 1) <= u + v
         /\ u \in Int /\ v \in Int /\ u <= MaxDistance /\ v <= MaxDistance + 1
    BY <2>12, <2>13, <2>14, <1>4
  <2> HIDE DEF u, v
  <2> QED BY <2>15, <1>2
<1>10. CASE \E a \in p : a[1] = t
  <2>1. PICK a \in p : a[1] = t BY <1>10
  <2>2. CASE \E b \in p : b[2] = d BY <2>1, <2>2, <1>9
  <2>3. CASE \A b \in p : b[2] # d BY <2>1, <2>3, <1>7
  <2> QED BY <2>2, <2>3
<1>11. CASE \A a \in p : a[1] # t
  <2>1. t \notin Chosen(p) BY <1>11 DEF Chosen
  <2>2. d \in Taken(p) BY <2>1, <1>1 DEF Full
  <2>3. PICK b \in p : b[2] = d BY <2>2 DEF Taken
  <2> QED BY <2>3, <1>11, <1>8
<1> QED BY <1>10, <1>11

\* An assignment: its pairs are within reach and share nothing; nobody it leaves
\* over is within reach of anybody left over.
LEMMA NoneInReach ==
  ASSUME NEW ts, NEW ds, Capped(ts \X ds), NEW ms \in MinCostMatchings(ts, ds)
  PROVE  /\ ms \in SUBSET (ts \X ds) /\ Matching(ms)
         /\ \A t \in ts \ Chosen(ms) : \A d \in ds \ Taken(ms) :
               ~(PairCost(<<t, d>>) <= MaxDistance)
<1>1. PICK g, p : Cheapest(g, p, ts, ds) /\ ms = {m \in p : PairCost(m) <= MaxDistance}
  BY MatchingsAre
<1>2. p \in SUBSET (ts \X ds) /\ Matching(p) BY <1>1, PairingIs DEF Cheapest
<1>3. ms \in SUBSET (ts \X ds) BY <1>1, <1>2
<1>4. Matching(ms)
  <2>1. ms \subseteq p BY <1>1
  <2> QED BY <2>1, <1>2 DEF Matching
<1>5. ASSUME NEW t \in ts \ Chosen(ms), NEW d \in ds \ Taken(ms),
             PairCost(<<t, d>>) <= MaxDistance
      PROVE  FALSE
  <2>1. ASSUME NEW m \in p, m[1] = t PROVE ~(PairCost(m) <= MaxDistance)
    <3> SUFFICES ASSUME PairCost(m) <= MaxDistance PROVE FALSE OBVIOUS
    <3>1. m \in ms BY <1>1
    <3>2. m[1] \in Chosen(ms) BY <3>1 DEF Chosen
    <3> QED BY <3>2, <2>1
  <2>2. ASSUME NEW m \in p, m[2] = d PROVE ~(PairCost(m) <= MaxDistance)
    <3> SUFFICES ASSUME PairCost(m) <= MaxDistance PROVE FALSE OBVIOUS
    <3>1. m \in ms BY <1>1
    <3>2. m[2] \in Taken(ms) BY <3>1 DEF Taken
    <3> QED BY <3>2, <2>2
  <2>3. t \in ts /\ d \in ds OBVIOUS
  <2> QED BY <1>1, <1>5, <2>1, <2>2, <2>3, NobodyLeft
<1> QED BY <1>3, <1>4, <1>5

-----------------------------------------------------------------------------
(* The invariant                                                           *)

Typed ==
  /\ stage \in {"wait", "predict", "cascade", "rest", "update"}
  /\ frames \in 0..MaxFrames
  /\ dets \in Seq(Places) /\ Len(dets) <= MaxDetections
  /\ nextIdx \in Nat /\ nextIdx >= 1
  /\ DOMAIN tracks \subseteq 1..(nextIdx - 1)
  /\ level \in 0..MaxAge
  /\ matches \subseteq (DOMAIN tracks) \X (DOMAIN dets)
  /\ free \subseteq DOMAIN dets
  /\ stage \in {"wait", "predict"} => matches = {} /\ free = {}
  /\ stage = "wait" => dets = <<>> /\ level = 0
  /\ stage = "cascade" => level >= 1

Track == [location : Places, hits : Nat, age : Nat, since : Nat, confirmed : BOOLEAN]

TracksTyped == \A t \in DOMAIN tracks : tracks[t] \in Track

\* A frame makes at most as many ids as it has detections.
IdsBounded ==
  /\ stage = "wait" => nextIdx <= frames * MaxDetections + 1
  /\ stage # "wait" => frames >= 1 /\ nextIdx <= (frames - 1) * MaxDetections + 1

\* Between frames, n of which it may have lived for.
Rested(r, n) ==
  /\ 1 <= r.hits /\ r.hits <= r.age /\ r.age <= n /\ r.since <= MaxAge
  /\ ~r.confirmed => r.hits < NInit /\ r.since = 0 /\ r.hits = r.age

\* Within a frame: predict has made it older.
Older(r, n) ==
  /\ 1 <= r.hits /\ r.hits < r.age /\ r.age <= n
  /\ 1 <= r.since /\ r.since <= MaxAge + 1
  /\ ~r.confirmed => r.hits < NInit /\ r.since = 1 /\ r.hits = r.age - 1

Ages ==
  /\ stage = "wait" => \A t \in DOMAIN tracks : Rested(tracks[t], frames)
  /\ stage = "predict" => \A t \in DOMAIN tracks : Rested(tracks[t], frames - 1)
  /\ stage \in {"cascade", "rest", "update"} => \A t \in DOMAIN tracks : Older(tracks[t], frames)

\* A confirmed track seen no longer ago than t has the detection.
Served(t, d) ==
  \E m \in matches : /\ m[2] = d /\ tracks[m[1]].confirmed
                     /\ tracks[m[1]].since <= tracks[t].since

\* The levels up to n are done.
ServedTo(n) ==
  \A t \in Confirmed \ Chosen(matches) : \A d \in DOMAIN dets :
    tracks[t].since <= n /\ InReach(tracks[t].location, dets[d]) => Served(t, d)

Levels ==
  /\ stage = "cascade" =>
       /\ \A m \in matches : tracks[m[1]].confirmed /\ tracks[m[1]].since < level
       /\ ServedTo(level - 1)
  /\ stage = "rest" => ServedTo(MaxAge)
  /\ stage \in {"rest", "update"} => \A m \in matches : tracks[m[1]].since <= MaxAge

TrackerInv ==
  /\ Typed /\ TracksTyped /\ IdsBounded /\ Ages
  /\ DetectionsUsedOnce /\ Levels /\ FreshestFirst

LEMMA TrackerInvTypes ==
  ASSUME TrackerInv PROVE TrackerTypeOK
<1>1. /\ Typed /\ TracksTyped /\ IdsBounded /\ Ages BY DEF TrackerInv
<1>2. MaxFrames \in Nat /\ MaxDetections \in Nat /\ MaxAge \in Nat BY TrackerAssumption
<1>3. /\ stage \in {"wait", "predict", "cascade", "rest", "update"}
      /\ frames \in 0..MaxFrames
      /\ dets \in Seq(Places) /\ Len(dets) <= MaxDetections
      /\ nextIdx \in Nat /\ nextIdx >= 1
      /\ DOMAIN tracks \subseteq 1..(nextIdx - 1)
      /\ level \in 0..MaxAge
      /\ matches \subseteq (DOMAIN tracks) \X (DOMAIN dets)
      /\ free \subseteq DOMAIN dets
  BY <1>1 DEF Typed
<1>4. nextIdx \in 1..(MaxFrames * MaxDetections + 1)
  <2>1. \E n \in 0..MaxFrames : nextIdx <= n * MaxDetections + 1
    <3>1. CASE stage = "wait" BY <3>1, <1>1, <1>3 DEF IdsBounded
    <3>2. CASE stage # "wait"
      <4>1. frames >= 1 /\ nextIdx <= (frames - 1) * MaxDetections + 1
        BY <3>2, <1>1 DEF IdsBounded
      <4>2. frames - 1 \in 0..MaxFrames BY <4>1, <1>2, <1>3
      <4> QED BY <4>1, <4>2
    <3> QED BY <3>1, <3>2
  <2>2. PICK n \in 0..MaxFrames : nextIdx <= n * MaxDetections + 1 BY <2>1
  <2>3. n * MaxDetections <= MaxFrames * MaxDetections BY <1>2
  <2> DEFINE u == n * MaxDetections
             v == MaxFrames * MaxDetections
  <2>4. u \in Int /\ v \in Int BY <1>2
  <2> HIDE DEF u, v
  <2>5. nextIdx <= v + 1 BY <1>3, <2>2, <2>3, <2>4 DEF u, v
  <2>6. nextIdx \in 1..(v + 1) BY <1>3, <2>4, <2>5
  <2> QED BY <2>6 DEF v
<1>5. ASSUME NEW t \in DOMAIN tracks
      PROVE  /\ tracks[t] \in Tracks
             /\ At("wait") => tracks[t].since <= MaxAge
  <2>1. tracks[t] \in Track BY <1>1 DEF TracksTyped
  <2> DEFINE r == tracks[t]
  <2>2. /\ r \in Track
        /\ (Rested(r, frames) /\ stage = "wait") \/ (Rested(r, frames - 1) /\ stage = "predict")
           \/ (Older(r, frames) /\ stage \notin {"wait", "predict"})
    BY <1>1, <1>3, <2>1 DEF Ages
  <2> HIDE DEF r
  <2>3. /\ r.hits \in Nat /\ r.age \in Nat /\ r.since \in Nat /\ r.location \in Places
        /\ r = [location |-> r.location, hits |-> r.hits, age |-> r.age,
                since |-> r.since, confirmed |-> r.confirmed]
    BY <2>2 DEF Track
  <2>4. r.confirmed \in BOOLEAN BY <2>2 DEF Track
  <2>5. /\ 1 <= r.hits /\ r.hits <= r.age /\ r.age <= frames /\ r.since <= MaxAge + 1
        /\ stage = "wait" => r.since <= MaxAge
    BY <1>2, <1>3, <2>2, <2>3 DEF Rested, Older
  <2>6. r.hits \in 1..MaxFrames /\ r.age \in 1..MaxFrames /\ r.since \in 0..(MaxAge + 1)
    BY <1>2, <1>3, <2>3, <2>5
  <2>7. r \in Tracks BY <2>3, <2>4, <2>6 DEF Tracks
  <2> QED BY <2>5, <2>7 DEF r, At
<1> QED BY <1>3, <1>4, <1>5 DEF TrackerTypeOK

LEMMA TrackerInvInit ==
  ASSUME TrackerInit PROVE TrackerInv
<1>1. /\ stage = "wait" /\ frames = 0 /\ dets = <<>>
      /\ tracks = <<>> /\ nextIdx = 1
      /\ level = 0 /\ matches = {} /\ free = {}
  BY DEF TrackerInit
<1>2. MaxFrames \in Nat /\ MaxDetections \in Nat /\ MaxAge \in Nat BY TrackerAssumption
<1>3. DOMAIN tracks = {} /\ dets \in Seq(Places) /\ Len(dets) = 0 BY <1>1
<1>4. Typed BY <1>1, <1>2, <1>3 DEF Typed
<1>5. TracksTyped /\ Ages BY <1>1, <1>3 DEF TracksTyped, Ages
<1>6. IdsBounded BY <1>1, <1>2 DEF IdsBounded
<1>7. DetectionsUsedOnce BY <1>1 DEF DetectionsUsedOnce
<1>8. Levels /\ FreshestFirst BY <1>1 DEF Levels, FreshestFirst, At
<1> QED BY <1>4, <1>5, <1>6, <1>7, <1>8 DEF TrackerInv

LEMMA PreprocessInv ==
  ASSUME TrackerInv, Preprocess PROVE TrackerInv'
<1>1. /\ stage = "wait" /\ frames < MaxFrames /\ frames' = frames + 1 /\ stage' = "predict"
      /\ tracks' = tracks /\ nextIdx' = nextIdx /\ level' = level
      /\ matches' = matches /\ free' = free
  BY DEF Preprocess, At
<1>a. PICK d \in BoundedSeq(Places, MaxDetections) :
         \E idxs \in SetToSeqs(DOMAIN d) : dets' = DataPreprocessing(d, idxs)
  BY DEF Preprocess
<1>2. PICK idxs \in SetToSeqs(DOMAIN d) : dets' = DataPreprocessing(d, idxs)
  BY <1>a
<1>3. MaxFrames \in Nat /\ MaxDetections \in Nat /\ MaxAge \in Nat BY TrackerAssumption
<1>4. Typed /\ TracksTyped /\ IdsBounded /\ Ages BY DEF TrackerInv
<1>5. /\ frames \in 0..MaxFrames /\ nextIdx \in Nat /\ nextIdx >= 1
      /\ DOMAIN tracks \subseteq 1..(nextIdx - 1) /\ level \in 0..MaxAge
      /\ matches = {} /\ free = {}
  BY <1>1, <1>4 DEF Typed
<1>6. d \in Seq(Places) /\ Len(d) <= MaxDetections
  <2>1. PICK n \in 0..MaxDetections : d \in [1..n -> Places]
    BY DEF BoundedSeq, SeqOf
  <2>2. d \in Seq(Places) /\ Len(d) = n BY <2>1
  <2> QED BY <2>2
<1>7. idxs \in Seq(Nat)
  <2>1. DOMAIN d = 1..Len(d) /\ Len(d) \in Nat BY <1>6
  <2>2. Cardinality(DOMAIN d) \in Nat
    <3>1. IsFiniteSet(1..Len(d)) BY <2>1, FS_Interval
    <3> QED BY <3>1, <2>1, FS_CardinalityType
  <2> DEFINE n == Cardinality(DOMAIN d)
  <2>3. idxs \in [1..n -> DOMAIN d] BY DEF SetToSeqs
  <2> HIDE DEF n
  <2>4. idxs \in [1..n -> Nat] BY <2>1, <2>3
  <2>5. n \in Nat BY <2>2 DEF n
  <2> QED BY <2>4, <2>5
<1>8. dets' \in Seq(Places) /\ Len(dets') <= MaxDetections
  <2>1. dets' \in Seq(Places) /\ Len(dets') <= Len(d) BY <1>2, <1>6, <1>7, ThinnedType
  <2>2. Len(dets') \in Nat /\ Len(d) \in Nat BY <2>1, <1>6
  <2> QED BY <2>1, <2>2, <1>3, <1>6
<1>9. Typed'
  <2>1. frames' \in 0..MaxFrames BY <1>1, <1>3, <1>5
  <2> QED BY <2>1, <1>1, <1>5, <1>8 DEF Typed
<1>10. TracksTyped' BY <1>1, <1>4 DEF TracksTyped
<1>11. IdsBounded'
  <2>1. nextIdx <= frames * MaxDetections + 1 BY <1>1, <1>4 DEF IdsBounded
  <2>2. frames' - 1 = frames /\ frames' >= 1 BY <1>1, <1>5
  <2> QED BY <2>1, <2>2, <1>1 DEF IdsBounded
<1>12. Ages'
  <2>1. \A t \in DOMAIN tracks : Rested(tracks[t], frames) BY <1>1, <1>4 DEF Ages
  <2>2. frames' - 1 = frames BY <1>1, <1>5
  <2>3. \A t \in DOMAIN tracks' : Rested(tracks'[t], frames' - 1) BY <2>1, <2>2, <1>1
  <2> QED BY <2>3, <1>1 DEF Ages, Rested
<1>13. DetectionsUsedOnce' BY <1>1, <1>5 DEF DetectionsUsedOnce
<1>14. Levels' /\ FreshestFirst' BY <1>1 DEF Levels, FreshestFirst, At
<1> QED BY <1>9, <1>10, <1>11, <1>12, <1>13, <1>14 DEF TrackerInv

LEMMA PredictInv ==
  ASSUME TrackerInv, Predict PROVE TrackerInv'
<1>1. /\ stage = "predict" /\ level' = 1 /\ free' = DOMAIN dets /\ stage' = "cascade"
      /\ frames' = frames /\ dets' = dets /\ nextIdx' = nextIdx /\ matches' = matches
      /\ tracks' = [t \in DOMAIN tracks |->
                      [tracks[t] EXCEPT !.age = @ + 1, !.since = @ + 1]]
  BY DEF Predict, At
<1>2. MaxFrames \in Nat /\ MaxDetections \in Nat /\ MaxAge \in Nat /\ MaxAge >= 1
  BY TrackerAssumption
<1>3. Typed /\ TracksTyped /\ IdsBounded /\ Ages BY DEF TrackerInv
<1>4. /\ frames \in 0..MaxFrames /\ dets \in Seq(Places) /\ Len(dets) <= MaxDetections
      /\ nextIdx \in Nat /\ nextIdx >= 1
      /\ DOMAIN tracks \subseteq 1..(nextIdx - 1) /\ level \in 0..MaxAge
      /\ matches = {} /\ free = {}
  BY <1>1, <1>3 DEF Typed
<1>5. DOMAIN tracks' = DOMAIN tracks BY <1>1
<1>6. Typed'
  <2>1. level' \in 0..MaxAge /\ level' >= 1
    <3>1. 1 \in 0..MaxAge /\ 1 >= 1 BY <1>2
    <3>2. level' = 1 BY <1>1
    <3> QED BY <3>1, <3>2
  <2>2. matches' = {} /\ free' = DOMAIN dets' BY <1>1, <1>4
  <2> QED BY <2>1, <2>2, <1>1, <1>4, <1>5 DEF Typed
<1>7. ASSUME NEW t \in DOMAIN tracks
      PROVE  tracks'[t] \in Track /\ Older(tracks'[t], frames) /\ tracks'[t].since >= 1
  <2> DEFINE r == tracks[t]
             s == tracks'[t]
  <2>1. s = [r EXCEPT !.age = @ + 1, !.since = @ + 1] BY <1>1
  <2>2. r \in Track /\ Rested(r, frames - 1) BY <1>1, <1>3 DEF TracksTyped, Ages
  <2> HIDE DEF r, s
  <2>3. /\ r.hits \in Nat /\ r.age \in Nat /\ r.since \in Nat /\ r.location \in Places
    BY <2>2 DEF Track
  <2>4. r.confirmed \in BOOLEAN BY <2>2 DEF Track
  <2>5. s \in Track
    <3>1. r.age + 1 \in Nat /\ r.since + 1 \in Nat BY <2>3
    <3>2. s = [r EXCEPT !.age = r.age + 1, !.since = r.since + 1] BY <2>1
    <3> QED BY <3>1, <3>2, <2>2 DEF Track
  <2>6. /\ s.hits = r.hits /\ s.age = r.age + 1 /\ s.since = r.since + 1
        /\ s.confirmed = r.confirmed
    BY <2>1, <2>2 DEF Track
  <2>7. /\ 1 <= s.hits /\ s.hits < s.age /\ s.age <= frames
        /\ 1 <= s.since /\ s.since <= MaxAge + 1
        /\ ~s.confirmed => s.hits < NInit /\ s.since = 1 /\ s.hits = s.age - 1
    <3>1. /\ 1 <= r.hits /\ r.hits <= r.age /\ r.age <= frames - 1 /\ r.since <= MaxAge
          /\ ~r.confirmed => r.hits < NInit /\ r.since = 0 /\ r.hits = r.age
      BY <2>2 DEF Rested
    <3> DEFINE rh == r.hits
               ra == r.age
               rs == r.since
    <3>2. /\ rh \in Nat /\ ra \in Nat /\ rs \in Nat /\ frames \in Int
          /\ 1 <= rh /\ rh <= ra /\ ra <= frames - 1 /\ rs <= MaxAge
      BY <3>1, <2>3, <1>4
    <3>3. s.hits = rh /\ s.age = ra + 1 /\ s.since = rs + 1 BY <2>6
    <3>4. ~s.confirmed => rh < NInit /\ rs = 0 /\ rh = ra BY <3>1, <2>6
    <3> HIDE DEF rh, ra, rs
    <3>5. /\ 1 <= rh /\ rh < ra + 1 /\ ra + 1 <= frames
          /\ 1 <= rs + 1 /\ rs + 1 <= MaxAge + 1
      BY <3>2, <1>2
    <3>6. ~s.confirmed => rh < NInit /\ rs + 1 = 1 /\ rh = (ra + 1) - 1
      BY <3>2, <3>4
    <3> QED BY <3>3, <3>5, <3>6
  <2> QED BY <1>1, <2>5, <2>7 DEF s, Older
<1>8. TracksTyped' BY <1>5, <1>7 DEF TracksTyped
<1>9. IdsBounded' BY <1>1, <1>3 DEF IdsBounded
<1>10. Ages' BY <1>1, <1>5, <1>7 DEF Ages
<1>11. DetectionsUsedOnce'
  <2>1. Taken(matches') = {} BY <1>1, <1>4 DEF Taken
  <2>2. \A m, n \in matches' : m[1] = n[1] \/ m[2] = n[2] => m = n BY <1>1, <1>4
  <2>3. free' = DOMAIN dets' BY <1>1
  <2> QED BY <2>1, <2>2, <2>3 DEF DetectionsUsedOnce
<1>12. Levels'
  <2>1. \A t \in DOMAIN tracks' : ~(tracks'[t].since <= level' - 1)
    <3>1. ASSUME NEW t \in DOMAIN tracks' PROVE ~(tracks'[t].since <= level' - 1)
      <4>1. tracks'[t] \in Track /\ tracks'[t].since >= 1 BY <1>5, <1>7
      <4> DEFINE c == tracks'[t].since
      <4>2. c \in Nat /\ c >= 1 BY <4>1 DEF Track
      <4> HIDE DEF c
      <4>3. ~(c <= 1 - 1) BY <4>2
      <4>4. level' = 1 BY <1>1
      <4> QED BY <4>3, <4>4 DEF c
    <3> QED BY <3>1
  <2>2. ServedTo(level - 1)' BY <2>1 DEF ServedTo, Confirmed
  <2> QED BY <2>2, <1>1, <1>4 DEF Levels
<1>13. FreshestFirst' BY <1>1 DEF FreshestFirst, At
<1> QED BY <1>6, <1>8, <1>9, <1>10, <1>11, <1>12, <1>13 DEF TrackerInv

-----------------------------------------------------------------------------
(* A round of the matching                                                 *)

LEMMA CostsCapped ==
  ASSUME Typed, TracksTyped, NEW ts \in SUBSET DOMAIN tracks, NEW ds \in SUBSET DOMAIN dets
  PROVE  Capped(ts \X ds)
<1>1. /\ nextIdx \in Nat /\ DOMAIN tracks \subseteq 1..(nextIdx - 1)
      /\ dets \in Seq(Places)
  BY DEF Typed
<1>2. Places \subseteq Nat BY TrackerAssumption
<1>3. IsFiniteSet(ts)
  <2>1. IsFiniteSet(1..(nextIdx - 1))
    <3>1. 1 \in Int /\ nextIdx - 1 \in Int BY <1>1
    <3> QED BY <3>1, FS_Interval
  <2>2. ts \subseteq 1..(nextIdx - 1) BY <1>1
  <2> QED BY <2>1, <2>2, FS_Subset
<1>4. IsFiniteSet(ds)
  <2>1. DOMAIN dets = 1..Len(dets) /\ Len(dets) \in Int BY <1>1
  <2>2. IsFiniteSet(1..Len(dets)) BY <2>1, FS_Interval
  <2>3. ds \subseteq 1..Len(dets) BY <2>1
  <2> QED BY <2>2, <2>3, FS_Subset
<1>5. IsFiniteSet(ts \X ds) BY <1>3, <1>4, FS_Product
<1>6. ASSUME NEW m \in ts \X ds
      PROVE  PairCost(m) \in Int /\ PairCost(m) <= MaxDistance + 1
  <2>1. m[1] \in DOMAIN tracks /\ m[2] \in DOMAIN dets OBVIOUS
  <2>2. tracks[m[1]].location \in Places BY <2>1 DEF TracksTyped, Track
  <2>3. dets[m[2]] \in Places BY <2>1, <1>1
  <2>4. tracks[m[1]].location \in Nat /\ dets[m[2]] \in Nat BY <2>2, <2>3, <1>2
  <2>5. /\ IouCost(tracks[m[1]].location, dets[m[2]]) \in Int
        /\ IouCost(tracks[m[1]].location, dets[m[2]]) <= MaxDistance + 1
    BY <2>4, IouCostType
  <2> QED BY <2>5 DEF PairCost
<1> QED BY <1>5, <1>6 DEF Capped

LEMMA Assigned ==
  ASSUME Typed, TracksTyped, NEW ts \in SUBSET DOMAIN tracks, NEW ds \in SUBSET DOMAIN dets,
         NEW ms \in MinCostMatchings(ts, ds)
  PROVE  /\ ms \in SUBSET (ts \X ds) /\ Matching(ms)
         /\ \A t \in ts \ Chosen(ms) : \A d \in ds \ Taken(ms) :
               ~InReach(tracks[t].location, dets[d])
<1>1. Capped(ts \X ds) BY CostsCapped
<1>2. /\ ms \in SUBSET (ts \X ds) /\ Matching(ms)
      /\ \A t \in ts \ Chosen(ms) : \A d \in ds \ Taken(ms) :
            ~(PairCost(<<t, d>>) <= MaxDistance)
  BY <1>1, NoneInReach
<1>3. ASSUME NEW t \in ts \ Chosen(ms), NEW d \in ds \ Taken(ms)
      PROVE  ~InReach(tracks[t].location, dets[d])
  <2>1. ~(PairCost(<<t, d>>) <= MaxDistance) BY <1>2
  <2> QED BY <2>1 DEF PairCost, InReach
<1> QED BY <1>2, <1>3

\* Tracks without a detection choose among the free ones.
LEMMA UsedOnceKept ==
  ASSUME DetectionsUsedOnce, Typed, stage \in {"cascade", "rest"},
         NEW ts \in SUBSET DOMAIN tracks, ts \intersect Chosen(matches) = {},
         NEW ms \in SUBSET (ts \X free), Matching(ms),
         matches' = matches \union ms, free' = free \ Taken(ms),
         dets' = dets, tracks' = tracks
  PROVE  /\ DetectionsUsedOnce'
         /\ matches' \subseteq (DOMAIN tracks') \X (DOMAIN dets')
         /\ free' \subseteq DOMAIN dets'
<1>1. /\ \A m, n \in matches : m[1] = n[1] \/ m[2] = n[2] => m = n
      /\ free \intersect Taken(matches) = {}
      /\ free \union Taken(matches) = DOMAIN dets
  BY DEF DetectionsUsedOnce
<1>2. /\ matches \subseteq (DOMAIN tracks) \X (DOMAIN dets) /\ free \subseteq DOMAIN dets
  BY DEF Typed
<1>3. ASSUME NEW m \in matches PROVE m[1] \notin ts /\ m[2] \notin free
  <2>1. m[1] \in Chosen(matches) BY DEF Chosen
  <2>2. m[2] \in Taken(matches) BY DEF Taken
  <2> QED BY <2>1, <2>2, <1>1
<1>4. ASSUME NEW m \in ms PROVE m[1] \in ts /\ m[2] \in free OBVIOUS
<1>5. ASSUME NEW m \in matches', NEW n \in matches', m[1] = n[1] \/ m[2] = n[2]
      PROVE  m = n
  <2>1. CASE m \in matches /\ n \in matches BY <2>1, <1>1, <1>5
  <2>2. CASE m \in ms /\ n \in ms BY <2>2, <1>5 DEF Matching
  <2>3. CASE m \in matches /\ n \in ms BY <2>3, <1>3, <1>4, <1>5
  <2>4. CASE m \in ms /\ n \in matches BY <2>4, <1>3, <1>4, <1>5
  <2> QED BY <2>1, <2>2, <2>3, <2>4
<1>6. Taken(matches') = Taken(matches) \union Taken(ms) BY DEF Taken
<1>7. Taken(ms) \subseteq free BY <1>4 DEF Taken
<1>8. free' \intersect Taken(matches') = {} BY <1>1, <1>6
<1>9. free' \union Taken(matches') = DOMAIN dets' BY <1>1, <1>6, <1>7
<1>10. matches' \subseteq (DOMAIN tracks') \X (DOMAIN dets') BY <1>2
<1>11. free' \subseteq DOMAIN dets' BY <1>2
<1> QED BY <1>5, <1>8, <1>9, <1>10, <1>11 DEF DetectionsUsedOnce

LEMMA CascadeInv ==
  ASSUME TrackerInv, MatchingCascade PROVE TrackerInv'
<1>1. /\ stage = "cascade"
      /\ frames' = frames /\ dets' = dets /\ tracks' = tracks /\ nextIdx' = nextIdx
      /\ (level < MaxAge /\ level' = level + 1 /\ stage' = "cascade")
         \/ (~(level < MaxAge) /\ level' = level /\ stage' = "rest")
  BY DEF MatchingCascade, At
<1> DEFINE ts == {t \in Confirmed : tracks[t].since = level}
<1>2. PICK ms \in MinCostMatchings(ts, free) :
         matches' = matches \union ms /\ free' = free \ Taken(ms)
  BY DEF MatchingCascade
<1>3. Typed /\ TracksTyped /\ IdsBounded /\ Ages /\ DetectionsUsedOnce /\ Levels
  BY DEF TrackerInv
<1>4. /\ frames \in 0..MaxFrames /\ dets \in Seq(Places) /\ Len(dets) <= MaxDetections
      /\ nextIdx \in Nat /\ nextIdx >= 1
      /\ DOMAIN tracks \subseteq 1..(nextIdx - 1)
      /\ level \in 0..MaxAge /\ level >= 1
      /\ matches \subseteq (DOMAIN tracks) \X (DOMAIN dets) /\ free \subseteq DOMAIN dets
  BY <1>1, <1>3 DEF Typed
<1>5. MaxAge \in Nat BY TrackerAssumption
<1>6. ts \in SUBSET DOMAIN tracks BY DEF Confirmed
<1>7. /\ \A m \in matches : tracks[m[1]].confirmed /\ tracks[m[1]].since < level
      /\ ServedTo(level - 1)
  BY <1>1, <1>3 DEF Levels
<1>8. ts \intersect Chosen(matches) = {}
  <2> SUFFICES ASSUME NEW t \in ts, t \in Chosen(matches) PROVE FALSE OBVIOUS
  <2>1. PICK m \in matches : m[1] = t BY DEF Chosen
  <2>2. tracks[t].since < level /\ tracks[t].since = level BY <2>1, <1>7
  <2>3. level < level /\ level \in Int BY <2>2, <1>4
  <2> QED BY <2>3
<1>9. /\ ms \in SUBSET (ts \X free) /\ Matching(ms)
      /\ \A t \in ts \ Chosen(ms) : \A d \in free \ Taken(ms) :
            ~InReach(tracks[t].location, dets[d])
  <2> HIDE DEF ts
  <2> QED BY <1>2, <1>3, <1>4, <1>6, Assigned
<1>10. /\ DetectionsUsedOnce'
       /\ matches' \subseteq (DOMAIN tracks') \X (DOMAIN dets')
       /\ free' \subseteq DOMAIN dets'
  <2> HIDE DEF ts
  <2>1. stage \in {"cascade", "rest"} BY <1>1
  <2> QED BY <2>1, <1>1, <1>2, <1>3, <1>6, <1>8, <1>9, UsedOnceKept
<1>11. ASSUME NEW m \in ms
       PROVE  m[1] \in ts /\ tracks[m[1]].confirmed /\ tracks[m[1]].since = level
  BY <1>9 DEF Confirmed
<1> HIDE DEF ts
<1>12. Typed'
  <2>1. level' \in 0..MaxAge /\ level' >= 1 BY <1>1, <1>4, <1>5
  <2>2. stage' \in {"cascade", "rest"} BY <1>1
  <2> QED BY <2>1, <2>2, <1>1, <1>4, <1>10 DEF Typed
<1>13. TracksTyped' BY <1>1, <1>3 DEF TracksTyped
<1>14. IdsBounded'
  <2>1. frames >= 1 /\ nextIdx <= (frames - 1) * MaxDetections + 1
    BY <1>1, <1>3 DEF IdsBounded
  <2>2. stage' # "wait" BY <1>1
  <2> QED BY <2>1, <2>2, <1>1 DEF IdsBounded
<1>15. Ages'
  <2>1. \A t \in DOMAIN tracks : Older(tracks[t], frames) BY <1>1, <1>3 DEF Ages
  <2>2. stage' \in {"cascade", "rest"} BY <1>1
  <2> QED BY <2>1, <2>2, <1>1 DEF Ages
\* The tracks of this level, and those before it.
<1>16. ASSUME NEW t \in Confirmed, t \notin Chosen(matches'),
              NEW d \in DOMAIN dets, tracks[t].since <= level,
              InReach(tracks[t].location, dets[d])
       PROVE  Served(t, d)'
  <2>1. t \notin Chosen(matches) /\ t \notin Chosen(ms) BY <1>2, <1>16 DEF Chosen
  <2>2. tracks[t].since \in Nat BY <1>3 DEF TracksTyped, Track, Confirmed
  <2>3. SUFFICES \E m \in matches' : /\ m[2] = d /\ tracks[m[1]].confirmed
                                     /\ tracks[m[1]].since <= tracks[t].since
    BY <1>1 DEF Served
  <2>4. CASE tracks[t].since = level
    <3>1. t \in ts BY <2>4 DEF ts
    <3>2. CASE d \in free
      <4>1. d \in Taken(ms) BY <3>1, <3>2, <2>1, <1>9, <1>16
      <4>2. PICK m \in ms : m[2] = d BY <4>1 DEF Taken
      <4>3. tracks[m[1]].confirmed /\ tracks[m[1]].since = level BY <1>11
      <4>4. tracks[m[1]].since <= tracks[t].since BY <4>3, <2>4, <1>4
      <4> QED BY <4>2, <4>3, <4>4, <1>2
    <3>3. CASE d \notin free
      <4>1. d \in Taken(matches) BY <3>3, <1>1, <1>3 DEF DetectionsUsedOnce
      <4>2. PICK m \in matches : m[2] = d BY <4>1 DEF Taken
      <4>3. tracks[m[1]].confirmed /\ tracks[m[1]].since < level BY <1>7
      <4>4. tracks[m[1]].since \in Nat
        <5>1. m[1] \in DOMAIN tracks BY <1>4
        <5> QED BY <5>1, <1>3 DEF TracksTyped, Track
      <4>5. tracks[m[1]].since <= tracks[t].since BY <4>3, <4>4, <2>4, <1>4
      <4> QED BY <4>2, <4>3, <4>5, <1>2
    <3> QED BY <3>2, <3>3
  <2>5. CASE tracks[t].since # level
    <3>1. tracks[t].since <= level - 1 BY <2>2, <2>5, <1>4, <1>16
    <3>2. Served(t, d) BY <3>1, <2>1, <1>7, <1>16 DEF ServedTo
    <3> QED BY <3>2, <1>2 DEF Served
  <2> QED BY <2>4, <2>5
<1>17. Confirmed' = Confirmed BY <1>1 DEF Confirmed
<1>18. ASSUME NEW n, n = level
       PROVE  \A t \in Confirmed' \ Chosen(matches') : \A d \in DOMAIN dets' :
                tracks'[t].since <= n /\ InReach(tracks'[t].location, dets'[d])
                  => Served(t, d)'
  BY <1>1, <1>16, <1>17, <1>18
<1>19. ASSUME NEW m \in matches'
       PROVE  tracks[m[1]].confirmed /\ tracks[m[1]].since <= level
  <2>1. CASE m \in ms
    <3>1. tracks[m[1]].confirmed /\ tracks[m[1]].since = level BY <2>1, <1>11
    <3> QED BY <3>1, <1>4
  <2>2. CASE m \in matches
    <3>1. tracks[m[1]].confirmed /\ tracks[m[1]].since < level BY <2>2, <1>7
    <3>2. tracks[m[1]].since \in Nat
      <4>1. m[1] \in DOMAIN tracks BY <2>2, <1>4
      <4> QED BY <4>1, <1>3 DEF TracksTyped, Track
    <3> QED BY <3>1, <3>2, <1>4
  <2> QED BY <2>1, <2>2, <1>2
<1>20. Levels'
  <2>1. CASE stage' = "cascade"
    <3>1. level' = level + 1 BY <2>1, <1>1
    <3>2. level' - 1 = level BY <3>1, <1>4
    <3>3. ServedTo(level - 1)' BY <3>2, <1>18 DEF ServedTo
    <3>4. ASSUME NEW m \in matches'
          PROVE  tracks'[m[1]].confirmed /\ tracks'[m[1]].since < level'
      <4>1. m[1] \in DOMAIN tracks BY <1>1, <1>10
      <4>2. tracks[m[1]].since \in Nat BY <4>1, <1>3 DEF TracksTyped, Track
      <4>3. tracks[m[1]].confirmed /\ tracks[m[1]].since <= level BY <1>19
      <4> DEFINE c == tracks[m[1]].since
      <4>4. c \in Nat /\ c <= level BY <4>2, <4>3
      <4> HIDE DEF c
      <4>5. c < level + 1 BY <4>4, <1>4
      <4> QED BY <4>3, <4>5, <3>1, <1>1 DEF c
    <3> QED BY <2>1, <3>3, <3>4 DEF Levels
  <2>2. CASE stage' = "rest"
    <3>1. level = MaxAge BY <2>2, <1>1, <1>4, <1>5
    <3>2. ServedTo(MaxAge)' BY <3>1, <1>18 DEF ServedTo
    <3>3. \A m \in matches' : tracks'[m[1]].since <= MaxAge BY <3>1, <1>1, <1>19
    <3> QED BY <2>2, <3>2, <3>3 DEF Levels
  <2> QED BY <2>1, <2>2, <1>1
<1>21. FreshestFirst' BY <1>1 DEF FreshestFirst, At
<1> QED BY <1>10, <1>12, <1>13, <1>14, <1>15, <1>20, <1>21 DEF TrackerInv

LEMMA MatchRestInv ==
  ASSUME TrackerInv, MatchRest PROVE TrackerInv'
<1>1. /\ stage = "rest" /\ stage' = "update" /\ frames' = frames /\ dets' = dets
      /\ tracks' = tracks /\ nextIdx' = nextIdx /\ level' = level
  BY DEF MatchRest, At
<1>2. PICK ms \in MinCostMatchings(Candidates, free) :
         matches' = matches \union ms /\ free' = free \ Taken(ms)
  BY DEF MatchRest
<1>3. Typed /\ TracksTyped /\ IdsBounded /\ Ages /\ DetectionsUsedOnce /\ Levels
  BY DEF TrackerInv
<1>4. /\ frames \in 0..MaxFrames /\ dets \in Seq(Places) /\ Len(dets) <= MaxDetections
      /\ nextIdx \in Nat /\ nextIdx >= 1
      /\ DOMAIN tracks \subseteq 1..(nextIdx - 1) /\ level \in 0..MaxAge
      /\ matches \subseteq (DOMAIN tracks) \X (DOMAIN dets) /\ free \subseteq DOMAIN dets
  BY <1>1, <1>3 DEF Typed
<1>5. MaxAge \in Nat /\ MaxAge >= 1 BY TrackerAssumption
<1>6. /\ Candidates \in SUBSET DOMAIN tracks
      /\ Candidates \intersect Chosen(matches) = {}
  BY DEF Candidates
<1>7. ServedTo(MaxAge) /\ \A m \in matches : tracks[m[1]].since <= MaxAge
  BY <1>1, <1>3 DEF Levels
<1>8. /\ ms \in SUBSET (Candidates \X free) /\ Matching(ms)
      /\ \A t \in Candidates \ Chosen(ms) : \A d \in free \ Taken(ms) :
            ~InReach(tracks[t].location, dets[d])
  BY <1>2, <1>3, <1>4, <1>6, Assigned
<1>9. /\ DetectionsUsedOnce'
      /\ matches' \subseteq (DOMAIN tracks') \X (DOMAIN dets')
      /\ free' \subseteq DOMAIN dets'
  <2>1. stage \in {"cascade", "rest"} BY <1>1
  <2> QED BY <2>1, <1>1, <1>2, <1>3, <1>6, <1>8, UsedOnceKept
<1>10. Typed' BY <1>1, <1>4, <1>9 DEF Typed
<1>11. TracksTyped' BY <1>1, <1>3 DEF TracksTyped
<1>12. IdsBounded' BY <1>1, <1>3 DEF IdsBounded
<1>13. Ages' BY <1>1, <1>3 DEF Ages
<1>14. ASSUME NEW t \in Candidates PROVE tracks[t].since = 1
  <2>1. t \in DOMAIN tracks /\ (~tracks[t].confirmed \/ tracks[t].since = 1)
    BY DEF Candidates
  <2>2. Older(tracks[t], frames) BY <2>1, <1>1, <1>3 DEF Ages
  <2>3. ~tracks[t].confirmed => tracks[t].since = 1 BY <2>2 DEF Older
  <2> QED BY <2>1, <2>3
<1>15. Levels'
  <2>1. ASSUME NEW m \in matches' PROVE tracks'[m[1]].since <= MaxAge
    <3>1. CASE m \in matches BY <3>1, <1>1, <1>7
    <3>2. CASE m \in ms
      <4>1. m[1] \in Candidates BY <3>2, <1>8
      <4>2. tracks[m[1]].since = 1 BY <4>1, <1>14
      <4> QED BY <4>2, <1>1, <1>5
    <3> QED BY <3>1, <3>2, <1>2
  <2> QED BY <2>1, <1>1 DEF Levels
<1>16. ASSUME NEW t \in DOMAIN tracks, t \notin Chosen(matches'), NEW d \in DOMAIN dets,
              InReach(tracks[t].location, dets[d]), tracks[t].since <= MaxAge
       PROVE  \E m \in matches' :
                /\ m[2] = d
                /\ tracks[t].confirmed => /\ tracks[m[1]].confirmed
                                          /\ tracks[m[1]].since <= tracks[t].since
  <2>1. t \notin Chosen(matches) /\ t \notin Chosen(ms) BY <1>2, <1>16 DEF Chosen
  <2>2. CASE tracks[t].confirmed
    <3>1. t \in Confirmed BY <2>2 DEF Confirmed
    <3>2. Served(t, d) BY <3>1, <2>1, <1>7, <1>16 DEF ServedTo
    <3> QED BY <3>2, <1>2 DEF Served
  <2>3. CASE ~tracks[t].confirmed
    <3>1. t \in Candidates BY <2>1, <2>3 DEF Candidates
    <3>2. CASE d \in free
      <4>1. d \in Taken(ms) BY <3>1, <3>2, <2>1, <1>8, <1>16
      <4>2. PICK m \in ms : m[2] = d BY <4>1 DEF Taken
      <4> QED BY <4>2, <2>3, <1>2
    <3>3. CASE d \notin free
      <4>1. d \in Taken(matches) BY <3>3, <1>1, <1>3 DEF DetectionsUsedOnce
      <4>2. PICK m \in matches : m[2] = d BY <4>1 DEF Taken
      <4> QED BY <4>2, <2>3, <1>2
    <3> QED BY <3>2, <3>3
  <2> QED BY <2>2, <2>3
<1>17. FreshestFirst' BY <1>1, <1>16 DEF FreshestFirst
<1> QED BY <1>9, <1>10, <1>11, <1>12, <1>13, <1>15, <1>17 DEF TrackerInv

-----------------------------------------------------------------------------
(* The end of a frame                                                      *)

Kept == {t \in DOMAIN tracks : t \in Chosen(matches) \/ ~Missed(tracks[t])}

\* What update does to each track, and the new ones.
LEMMA UpdateIs ==
  ASSUME TrackerInv, Update
  PROVE  /\ Cardinality(free) \in Nat /\ Cardinality(free) <= MaxDetections
         /\ nextIdx' = nextIdx + Cardinality(free)
         /\ DOMAIN tracks' = Kept \union (nextIdx..(nextIdx + Cardinality(free) - 1))
         /\ \A t \in Kept : t \notin Chosen(matches) => tracks'[t] = tracks[t]
         /\ \A t \in Kept : t \in Chosen(matches) =>
              \E m \in matches : m[1] = t /\ tracks'[t] = Updated(tracks[t], dets[m[2]])
         /\ \A t \in nextIdx..(nextIdx + Cardinality(free) - 1) :
              \E d \in DOMAIN dets : tracks'[t] = NewTrack(dets[d])
<1> DEFINE n == Cardinality(free)
           born == nextIdx..(nextIdx + n - 1)
           pick(t) == CHOOSE m \in matches : m[1] = t
<1>1. PICK order \in SetToSeqs(free) :
         tracks' = [t \in Kept \union born |->
                      IF t \in born
                        THEN NewTrack(dets[order[t - nextIdx + 1]])
                        ELSE IF t \notin Chosen(matches) THEN tracks[t]
                        ELSE Updated(tracks[t], dets[pick(t)[2]])]
  BY DEF Update, Kept
<1>2. nextIdx' = nextIdx + n BY DEF Update
<1>3. /\ dets \in Seq(Places) /\ Len(dets) <= MaxDetections /\ nextIdx \in Nat
      /\ free \subseteq DOMAIN dets /\ DOMAIN tracks \subseteq 1..(nextIdx - 1)
  BY DEF TrackerInv, Typed
<1>4. MaxDetections \in Nat BY TrackerAssumption
<1>5. n \in Nat /\ n <= MaxDetections
  <2>1. DOMAIN dets = 1..Len(dets) /\ Len(dets) \in Nat BY <1>3
  <2>2. IsFiniteSet(1..Len(dets)) /\ Cardinality(1..Len(dets)) = Len(dets)
    <3>2. IsFiniteSet(1..Len(dets)) BY <2>1, FS_Interval
    <3>3. Cardinality(1..Len(dets)) = IF 1 > Len(dets) THEN 0 ELSE Len(dets) - 1 + 1
      BY <2>1, FS_Interval
    <3> QED BY <3>2, <3>3, <2>1
  <2>3. free \subseteq 1..Len(dets) BY <1>3, <2>1
  <2>4. IsFiniteSet(free) /\ Cardinality(free) <= Cardinality(1..Len(dets))
    BY <2>2, <2>3, FS_Subset
  <2>5. n \in Nat BY <2>4, FS_CardinalityType
  <2> HIDE DEF n
  <2>6. n <= Len(dets) BY <2>2, <2>4 DEF n
  <2> QED BY <2>1, <2>5, <2>6, <1>3, <1>4
<1>6. order \in [1..n -> free] BY DEF SetToSeqs
<1> HIDE DEF n, pick
<1>7. DOMAIN tracks' = Kept \union born BY <1>1
<1>8. ASSUME NEW t \in Kept PROVE t \notin born
  <2>1. t \in DOMAIN tracks BY DEF Kept
  <2>2. t \in 1..(nextIdx - 1) BY <2>1, <1>3
  <2> QED BY <2>2, <1>3, <1>5
<1>9. ASSUME NEW t \in Kept, t \notin Chosen(matches) PROVE tracks'[t] = tracks[t]
  <2> HIDE DEF born
  <2> QED BY <1>1, <1>8, <1>9
<1>10. ASSUME NEW t \in Kept, t \in Chosen(matches)
       PROVE  \E m \in matches : m[1] = t /\ tracks'[t] = Updated(tracks[t], dets[m[2]])
  <2> HIDE DEF born
  <2>1. tracks'[t] = Updated(tracks[t], dets[pick(t)[2]]) BY <1>1, <1>8, <1>10
  <2>2. \E m \in matches : m[1] = t BY <1>10 DEF Chosen
  <2>3. pick(t) \in matches /\ pick(t)[1] = t BY <2>2 DEF pick
  <2> QED BY <2>1, <2>3
<1>11. ASSUME NEW t \in born PROVE \E d \in DOMAIN dets : tracks'[t] = NewTrack(dets[d])
  <2>1. t - nextIdx + 1 \in 1..n BY <1>3, <1>5
  <2>2. order[t - nextIdx + 1] \in DOMAIN dets BY <2>1, <1>3, <1>6
  <2>3. t \in Kept \union born OBVIOUS
  <2> HIDE DEF born
  <2>4. tracks'[t] = NewTrack(dets[order[t - nextIdx + 1]]) BY <1>1, <1>11, <2>3
  <2> QED BY <2>2, <2>4
<1> QED BY <1>2, <1>5, <1>7, <1>9, <1>10, <1>11 DEF n

\* A track that is seen.
LEMMA UpdatedIs ==
  ASSUME NEW r \in Track, NEW place \in Places, NEW f \in Nat, Older(r, f)
  PROVE  /\ Updated(r, place) \in Track /\ Updated(r, place).since = 0
         /\ Rested(Updated(r, place), f)
         /\ r.confirmed => Updated(r, place).confirmed
         /\ ~Updated(r, place).confirmed =>
              /\ Updated(r, place).hits = Updated(r, place).age
              /\ Updated(r, place).hits < NInit
         /\ Updated(r, place).confirmed /\ ~r.confirmed =>
              /\ Updated(r, place).hits = Updated(r, place).age
              /\ Updated(r, place).hits = NInit
<1> DEFINE s == Updated(r, place)
<1>1. /\ r.hits \in Nat /\ r.age \in Nat /\ r.since \in Nat BY DEF Track
<1>2. r.confirmed \in BOOLEAN BY DEF Track
<1>3. NInit \in Nat /\ NInit > 1 /\ MaxAge \in Nat BY TrackerAssumption
<1>4. (r.confirmed \/ r.hits + 1 >= NInit) \in BOOLEAN OBVIOUS
<1>5. s \in Track
  <2>1. r.hits + 1 \in Nat /\ 0 \in Nat BY <1>1
  <2> QED BY <2>1, <1>4 DEF Updated, Track
<1>6. /\ s.since = 0 /\ s.hits = r.hits + 1 /\ s.age = r.age
      /\ s.confirmed <=> (r.confirmed \/ r.hits + 1 >= NInit)
  BY DEF Updated, Track
<1> HIDE DEF s
<1>7. /\ 1 <= r.hits /\ r.hits < r.age /\ r.age <= f
      /\ ~r.confirmed => r.hits < NInit /\ r.hits = r.age - 1
  BY DEF Older
<1>8. 1 <= s.hits /\ s.hits <= s.age /\ s.age <= f /\ s.since <= MaxAge
  BY <1>1, <1>3, <1>6, <1>7
<1>9. r.confirmed => s.confirmed BY <1>6
<1>10. ~s.confirmed => s.hits = s.age /\ s.hits < NInit
  BY <1>1, <1>3, <1>6, <1>7
<1>11. s.confirmed /\ ~r.confirmed => s.hits = s.age /\ s.hits = NInit
  BY <1>1, <1>3, <1>6, <1>7
<1>12. Rested(s, f) BY <1>6, <1>8, <1>10 DEF Rested
<1> QED BY <1>5, <1>6, <1>9, <1>10, <1>11, <1>12 DEF s

\* One that is not seen and stays.
LEMMA MissedIs ==
  ASSUME NEW r \in Track, NEW f \in Nat, Older(r, f), ~Missed(r)
  PROVE  r.confirmed /\ r.since <= MaxAge /\ Rested(r, f)
<1>1. /\ r.hits \in Nat /\ r.age \in Nat /\ r.since \in Nat BY DEF Track
<1>2. MaxAge \in Nat BY TrackerAssumption
<1>3. r.confirmed /\ ~(r.since > MaxAge) BY DEF Missed
<1>4. r.since <= MaxAge BY <1>1, <1>2, <1>3
<1>5. 1 <= r.hits /\ r.hits < r.age /\ r.age <= f BY DEF Older
<1>6. r.hits <= r.age BY <1>1, <1>5
<1> QED BY <1>3, <1>4, <1>5, <1>6 DEF Rested

LEMMA UpdateTracks ==
  ASSUME TrackerInv, Update
  PROVE  \A t \in DOMAIN tracks' : tracks'[t] \in Track /\ Rested(tracks'[t], frames)
<1>1. stage = "update" BY DEF Update, At
<1>2. Typed /\ TracksTyped /\ IdsBounded /\ Ages BY DEF TrackerInv
<1>3. /\ frames \in Nat /\ dets \in Seq(Places) /\ frames >= 1
      /\ matches \subseteq (DOMAIN tracks) \X (DOMAIN dets)
  BY <1>1, <1>2, TrackerAssumption DEF Typed, IdsBounded
<1>4. ASSUME NEW t \in Kept
      PROVE  t \in DOMAIN tracks /\ tracks[t] \in Track /\ Older(tracks[t], frames)
  <2>1. t \in DOMAIN tracks BY DEF Kept
  <2> QED BY <2>1, <1>1, <1>2 DEF TracksTyped, Ages
<1>5. ASSUME NEW d \in DOMAIN dets PROVE dets[d] \in Places BY <1>3
<1>6. ASSUME NEW t \in Kept, t \notin Chosen(matches)
      PROVE  tracks'[t] \in Track /\ Rested(tracks'[t], frames)
  <2>1. tracks'[t] = tracks[t] BY <1>6, UpdateIs
  <2>2. ~Missed(tracks[t]) BY <1>6 DEF Kept
  <2>3. Rested(tracks[t], frames) BY <1>3, <1>4, <2>2, MissedIs
  <2> QED BY <2>1, <2>3, <1>4
<1>7. ASSUME NEW t \in Kept, t \in Chosen(matches)
      PROVE  tracks'[t] \in Track /\ Rested(tracks'[t], frames)
  <2>1. PICK m \in matches : m[1] = t /\ tracks'[t] = Updated(tracks[t], dets[m[2]])
    BY <1>7, UpdateIs
  <2>2. m[2] \in DOMAIN dets BY <1>3
  <2>3. dets[m[2]] \in Places BY <2>2, <1>5
  <2>4. /\ Updated(tracks[t], dets[m[2]]) \in Track
        /\ Rested(Updated(tracks[t], dets[m[2]]), frames)
    BY <1>3, <1>4, <2>3, UpdatedIs
  <2> QED BY <2>1, <2>4
<1>8. ASSUME NEW t \in nextIdx..(nextIdx + Cardinality(free) - 1)
      PROVE  tracks'[t] \in Track /\ Rested(tracks'[t], frames)
  <2>1. PICK d \in DOMAIN dets : tracks'[t] = NewTrack(dets[d]) BY UpdateIs
  <2>2. dets[d] \in Places BY <1>5
  <2> DEFINE place == dets[d]
  <2> HIDE DEF place
  <2>3. NInit \in Nat /\ NInit > 1 /\ MaxAge \in Nat BY TrackerAssumption
  <2>4. place \in Places BY <2>2 DEF place
  <2>5. NewTrack(place) \in Track BY <2>4 DEF NewTrack, Track
  <2>6. Rested(NewTrack(place), frames) BY <2>3, <1>3 DEF NewTrack, Rested
  <2> QED BY <2>1, <2>5, <2>6 DEF place
<1>9. DOMAIN tracks' = Kept \union (nextIdx..(nextIdx + Cardinality(free) - 1)) BY UpdateIs
<1> QED BY <1>6, <1>7, <1>8, <1>9

LEMMA UpdateInv ==
  ASSUME TrackerInv, Update PROVE TrackerInv'
<1>1. /\ stage = "update" /\ stage' = "wait" /\ frames' = frames
      /\ dets' = <<>> /\ level' = 0 /\ matches' = {} /\ free' = {}
  BY DEF Update, At
<1>2. Typed /\ TracksTyped /\ IdsBounded /\ Ages BY DEF TrackerInv
<1>3. /\ frames \in 0..MaxFrames /\ nextIdx \in Nat /\ nextIdx >= 1
      /\ DOMAIN tracks \subseteq 1..(nextIdx - 1)
  BY <1>2 DEF Typed
<1>4. MaxFrames \in Nat /\ MaxDetections \in Nat /\ MaxAge \in Nat BY TrackerAssumption
<1> DEFINE n == Cardinality(free)
<1>5. /\ n \in Nat /\ n <= MaxDetections /\ nextIdx' = nextIdx + n
      /\ DOMAIN tracks' = Kept \union (nextIdx..(nextIdx + n - 1))
  BY UpdateIs
<1> HIDE DEF n
<1>6. DOMAIN tracks' \subseteq 1..(nextIdx' - 1)
  <2>1. ASSUME NEW t \in Kept PROVE t \in 1..(nextIdx' - 1)
    <3>1. t \in 1..(nextIdx - 1) BY <1>3 DEF Kept
    <3> QED BY <3>1, <1>3, <1>5
  <2>2. ASSUME NEW t \in nextIdx..(nextIdx + n - 1) PROVE t \in 1..(nextIdx' - 1)
    BY <1>3, <1>5
  <2> QED BY <2>1, <2>2, <1>5
<1>7. Typed'
  <2>1. nextIdx' \in Nat /\ nextIdx' >= 1 BY <1>3, <1>5
  <2>2. dets' \in Seq(Places) /\ Len(dets') <= MaxDetections BY <1>1, <1>4
  <2>3. matches' \subseteq (DOMAIN tracks') \X (DOMAIN dets') /\ free' \subseteq DOMAIN dets'
    BY <1>1
  <2>4. level' \in 0..MaxAge BY <1>1, <1>4
  <2> QED BY <2>1, <2>2, <2>3, <2>4, <1>1, <1>3, <1>6 DEF Typed
<1>8. TracksTyped' BY UpdateTracks DEF TracksTyped
<1>9. IdsBounded'
  <2>1. frames >= 1 /\ nextIdx <= (frames - 1) * MaxDetections + 1
    BY <1>1, <1>2 DEF IdsBounded
  <2> DEFINE u == (frames - 1) * MaxDetections
  <2>2. u \in Int /\ frames * MaxDetections = u + MaxDetections BY <1>3, <1>4
  <2>3. nextIdx <= u + 1 BY <2>1
  <2> HIDE DEF u
  <2>4. nextIdx + n <= u + MaxDetections + 1 BY <2>2, <2>3, <1>3, <1>4, <1>5
  <2>5. nextIdx' <= frames' * MaxDetections + 1 BY <2>2, <2>4, <1>1, <1>5
  <2> QED BY <2>5, <1>1 DEF IdsBounded
<1>10. Ages'
  <2>1. \A t \in DOMAIN tracks' : Rested(tracks'[t], frames') BY <1>1, UpdateTracks
  <2> QED BY <2>1, <1>1 DEF Ages, Rested
<1>11. DetectionsUsedOnce' BY <1>1 DEF DetectionsUsedOnce
<1>12. Levels' /\ FreshestFirst' BY <1>1 DEF Levels, FreshestFirst, At
<1> QED BY <1>7, <1>8, <1>9, <1>10, <1>11, <1>12 DEF TrackerInv

LEMMA TrackerInvStep ==
  ASSUME TrackerInv, [TrackerNext]_trackerVars PROVE TrackerInv'
<1>1. CASE UNCHANGED trackerVars
  <2>1. /\ stage' = stage /\ frames' = frames /\ dets' = dets /\ tracks' = tracks
        /\ nextIdx' = nextIdx /\ level' = level /\ matches' = matches /\ free' = free
    BY <1>1 DEF trackerVars
  <2>2. Typed' /\ TracksTyped' /\ IdsBounded' /\ Ages'
    BY <2>1 DEF TrackerInv, Typed, TracksTyped, IdsBounded, Ages
  <2>3. DetectionsUsedOnce' BY <2>1 DEF TrackerInv, DetectionsUsedOnce
  <2>4. FreshestFirst' BY <2>1 DEF TrackerInv, FreshestFirst, At
  <2>5. Levels' BY <2>1 DEF TrackerInv, Levels, ServedTo, Served, Confirmed
  <2> QED BY <2>2, <2>3, <2>4, <2>5 DEF TrackerInv
<1>2. CASE Preprocess BY <1>2, PreprocessInv
<1>3. CASE Predict BY <1>3, PredictInv
<1>4. CASE MatchingCascade BY <1>4, CascadeInv
<1>5. CASE MatchRest BY <1>5, MatchRestInv
<1>6. CASE Update BY <1>6, UpdateInv
<1> QED BY <1>1, <1>2, <1>3, <1>4, <1>5, <1>6 DEF TrackerNext

LEMMA TrackerSpecInv == TrackerSpec => []TrackerInv
<1>1. TrackerInit => TrackerInv BY TrackerInvInit
<1>2. TrackerInv /\ [TrackerNext]_trackerVars => TrackerInv' BY TrackerInvStep
<1> QED BY <1>1, <1>2, PTL DEF TrackerSpec

\* The variables of the tracker keep their types; the ids it hands out are as many
\* as the detections it was shown, and between frames no track is older than MaxAge.
\* (run_tracker.)
THEOREM TrackerTypes == TrackerSpec => []TrackerTypeOK
<1>1. TrackerInv => TrackerTypeOK BY TrackerInvTypes
<1> QED BY <1>1, TrackerSpecInv, PTL

\* Every detection goes to one track or makes one; a confirmed track goes without one
\* in its reach only if a confirmed one seen no longer ago got it; and one in reach of a
\* track left unmatched, unless that is in the last frame of its life, makes no new one.
\* (matching_cascade, min_cost_matching and _match.)
THEOREM TrackerFairness == TrackerSpec => []DealtFairly
<1>1. TrackerInv => DealtFairly BY DEF TrackerInv, DealtFairly
<1> QED BY <1>1, TrackerSpecInv, PTL

-----------------------------------------------------------------------------
(* A track's life                                                          *)

\* What a frame does to a track.
Lived(t) ==
  LET old == tracks[t] IN
  IF t \in DOMAIN tracks'
    THEN LET new == tracks'[t] IN
         /\ old.confirmed => new.confirmed
         /\ new.since = 0 => old.since <= MaxAge
         /\ ~new.confirmed => new.hits = new.age /\ new.hits < NInit
         /\ new.confirmed /\ ~old.confirmed =>
               new.hits = new.age /\ new.hits = NInit
    ELSE old.since > (IF old.confirmed THEN MaxAge ELSE 0)
         /\ (~old.confirmed => old.since = 1)

LEMMA UpdateLife ==
  ASSUME TrackerInv, Update, NEW t \in DOMAIN tracks
  PROVE  Lived(t)
<1>1. stage = "update" BY DEF Update, At
<1>2. Typed /\ TracksTyped /\ IdsBounded /\ Ages /\ Levels BY DEF TrackerInv
<1>3. /\ frames \in Nat /\ dets \in Seq(Places) /\ nextIdx \in Nat
      /\ matches \subseteq (DOMAIN tracks) \X (DOMAIN dets)
      /\ DOMAIN tracks \subseteq 1..(nextIdx - 1)
  BY <1>2, TrackerAssumption DEF Typed
<1>4. tracks[t] \in Track /\ Older(tracks[t], frames) BY <1>1, <1>2 DEF TracksTyped, Ages
<1>5. t \in DOMAIN tracks' <=> t \in Kept
  <2> DEFINE n == Cardinality(free)
  <2>1. n \in Nat /\ DOMAIN tracks' = Kept \union (nextIdx..(nextIdx + n - 1)) BY UpdateIs
  <2> HIDE DEF n
  <2>2. t \in 1..(nextIdx - 1) BY <1>3
  <2>3. t \notin nextIdx..(nextIdx + n - 1) BY <2>1, <2>2, <1>3
  <2> QED BY <2>1, <2>3
<1>6. CASE t \in Kept /\ t \in Chosen(matches)
  <2>1. PICK m \in matches : m[1] = t /\ tracks'[t] = Updated(tracks[t], dets[m[2]])
    BY <1>6, UpdateIs
  <2>2. dets[m[2]] \in Places BY <1>3
  <2>3. tracks[t].since <= MaxAge BY <2>1, <1>1, <1>2 DEF Levels
  <2> DEFINE new == Updated(tracks[t], dets[m[2]])
  <2>4. /\ tracks[t].confirmed => new.confirmed
        /\ ~new.confirmed => new.hits = new.age /\ new.hits < NInit
        /\ new.confirmed /\ ~tracks[t].confirmed => new.hits = new.age /\ new.hits = NInit
    BY <1>3, <1>4, <2>2, UpdatedIs
  <2> HIDE DEF new
  <2>5. tracks'[t] = new BY <2>1 DEF new
  <2> QED BY <2>3, <2>4, <2>5, <1>5, <1>6 DEF Lived
<1>7. CASE t \in Kept /\ t \notin Chosen(matches)
  <2>1. tracks'[t] = tracks[t] BY <1>7, UpdateIs
  <2>2. ~Missed(tracks[t]) BY <1>7 DEF Kept
  <2>3. tracks[t].confirmed /\ tracks[t].since <= MaxAge BY <1>3, <1>4, <2>2, MissedIs
  <2> QED BY <2>1, <2>3, <1>5, <1>7 DEF Lived
<1>8. CASE t \notin Kept
  <2>1. Missed(tracks[t]) BY <1>8 DEF Kept
  <2>2. t \notin DOMAIN tracks' BY <1>5, <1>8
  <2>3. CASE tracks[t].confirmed
    <3>1. tracks[t].since > MaxAge BY <2>1, <2>3 DEF Missed
    <3> QED BY <3>1, <2>2, <2>3 DEF Lived
  <2>4. CASE ~tracks[t].confirmed
    <3>1. tracks[t].since = 1 BY <2>4, <1>4 DEF Older
    <3>2. tracks[t].since > 0 BY <3>1
    <3> QED BY <3>1, <3>2, <2>2, <2>4 DEF Lived
  <2> QED BY <2>3, <2>4
<1> QED BY <1>6, <1>7, <1>8

LEMMA LivedStep ==
  ASSUME TrackerInv, TrackerNext
  PROVE  \A t \in DOMAIN tracks : At("update") => Lived(t)
<1>1. CASE Update BY <1>1, UpdateLife
<1>2. CASE ~Update
  <2>1. ~At("update")
    BY <1>2 DEF TrackerNext, Preprocess, Predict, MatchingCascade, MatchRest, At
  <2> QED BY <2>1
<1> QED BY <1>1, <1>2

LEMMA IdsStep ==
  ASSUME TrackerInv, TrackerNext
  PROVE  \A t \in DOMAIN tracks' \ DOMAIN tracks : t >= nextIdx
<1>1. CASE Update
  <2> DEFINE n == Cardinality(free)
  <2>1. n \in Nat /\ DOMAIN tracks' = Kept \union (nextIdx..(nextIdx + n - 1))
    BY <1>1, UpdateIs
  <2> HIDE DEF n
  <2>2. Kept \subseteq DOMAIN tracks BY DEF Kept
  <2>3. nextIdx \in Nat BY DEF TrackerInv, Typed
  <2>4. \A t \in nextIdx..(nextIdx + n - 1) : t >= nextIdx BY <2>1, <2>3
  <2> QED BY <2>1, <2>2, <2>4
<1>2. CASE Predict
  <2>1. DOMAIN tracks' = DOMAIN tracks BY <1>2 DEF Predict
  <2> QED BY <2>1
<1>3. CASE Preprocess \/ MatchingCascade \/ MatchRest
  <2>1. tracks' = tracks BY <1>3 DEF Preprocess, MatchingCascade, MatchRest
  <2> QED BY <2>1
<1> QED BY <1>1, <1>2, <1>3 DEF TrackerNext

\* On trial a track is seen in every frame, and missed once it ends; confirmed it
\* stays confirmed, and ends when it is missed for more than MaxAge frames; its id
\* is never used again.
\* (Track::update, mark_missed and _initiate_track.)
THEOREM TrackerLife == TrackerSpec => LifeCycle
<1>1. TrackerInv /\ [TrackerNext]_trackerVars =>
        [\A t \in DOMAIN tracks : At("update") => Lived(t)]_trackerVars
  BY LivedStep
<1>2. TrackerInv /\ [TrackerNext]_trackerVars =>
        [\A t \in DOMAIN tracks' \ DOMAIN tracks : t >= nextIdx]_trackerVars
  BY IdsStep
<1>3. TrackerSpec => [][\A t \in DOMAIN tracks : At("update") => Lived(t)]_trackerVars
  BY <1>1, TrackerSpecInv, PTL DEF TrackerSpec
<1>4. TrackerSpec => [][\A t \in DOMAIN tracks' \ DOMAIN tracks : t >= nextIdx]_trackerVars
  BY <1>2, TrackerSpecInv, PTL DEF TrackerSpec
<1> QED BY <1>3, <1>4, PTL DEF LifeCycle, Lived
===============================================================================
