--------------------------------- MODULE ClassC ---------------------------------
(***************************************************************************)
(* A device of class C: the goroutine of Run, which sends and listens in   *)
(* RX1 (classes/classC.go, device.go), the goroutine RX2 that a switch to  *)
(* class C starts (classC.go RX2), and the goroutine that is to execute    *)
(* what RX2 heard (device/classC.go DownlinkReceivedRX2ClassC), over one   *)
(* mailbox, the window flag Open and its condition, and InfoClassC with    *)
(* its mutex and two conditions.                                           *)
(*                                                                         *)
(* A device that joins again is of class A meanwhile and then starts new   *)
(* goroutines; nothing ends the old ones.  Each object TypeC, its RX2 and  *)
(* its executor share a number.  One gateway is in reach.                  *)
(*                                                                         *)
(* As in ReceiveWindows, Run is in its Pull by the time the timer of the   *)
(* window expires: a wakeup that comes between the test of the mailbox and *)
(* Wait, and so ends no window, is that module's matter.                   *)
(***************************************************************************)
EXTENDS Integers, FiniteSets

CONSTANTS
  MaxObj,     \* bound: how often the device switches to class C
  FreqPairs,  \* the frequencies the two windows may have
  Msg, NoMsg, \* the downlinks sent to the device, each once; the empty slot
  MaxStarts   \* bound: how often the device is turned on

ASSUME ClassCAssumption ==
  NoMsg \notin Msg /\ MaxObj \in Nat \ {0} /\ MaxStarts \in Nat \ {0}

Obj == 1 .. MaxObj

VARIABLES
  on, starts,       \* Device.State is Running; history: how often it was set
  linked,           \* the forwarder has links of the device
  objs, cur,        \* history: the objects made; Device.Class: one of class C,
                    \* or 0 for class A
  joined,           \* Status.Joined
  stage,            \* where Run is
  next,             \* where it goes when SendData has returned
  pending,          \* it is in the loop of FPendingProcedure
  freqs,            \* the frequencies of RX[0] and RX[1]; bound: they stay
  timer,            \* a timer of a window of RX1 is pending
  resp,             \* what OpenWindow returned
  reg,              \* Forwarder.GwtoDev: the frequencies the device is registered on
  isOpen, slot,     \* the mailbox
  open,             \* TypeC.Open, by object
  rx2,              \* where RX2 is, by object
  exec,             \* where DownlinkReceivedRX2ClassC is, by object
  locked,           \* InfoClassC.Mutex is held by an executor
  stopper, waking,  \* who holds Device.Mutex in a CanExecute that found the device
                    \* stopped, and which of the two conditions it wakes next
  sent, taken       \* history: downlinks sent, and those that left the mailbox

powerVars   == <<on, starts, linked>>
classVars   == <<objs, cur, joined, freqs>>
runVars     == <<next, pending>>
mainVars    == <<classVars, stage, runVars, timer, resp>>
mailboxVars == <<reg, isOpen, slot>>
stopVars    == <<stopper, waking>>
rx2Vars     == <<open, rx2, exec, locked, stopVars>>
historyVars == <<sent, taken>>
vars == <<powerVars, mainVars, mailboxVars, rx2Vars, historyVars>>

rx1Freq == freqs[1]
rx2Freq == freqs[2]

Nobody == -1
Run    == 0   \* an executor stops the device under its number

Windows == {"pull", "pulling", "take", "unregister"}

TypeOK ==
  /\ {on, linked, joined, pending, timer, isOpen, locked} \subseteq BOOLEAN
  /\ starts \in 0 .. MaxStarts
  /\ objs \in 0 .. MaxObj /\ cur \in 0 .. objs
  /\ stage \in Windows \cup {"off", "idle", "left", "send", "sent", "windows", "reopen",
                            "after", "setAck", "commands", "end", "getAck"}
  /\ next \in {"windows", "setAck"}
  /\ freqs \in FreqPairs
  /\ reg \subseteq {rx1Freq, rx2Freq}
  /\ {resp, slot} \subseteq Msg \cup {NoMsg}
  /\ sent \subseteq Msg /\ taken \subseteq sent
  /\ open \in [Obj -> {"Close", "Open", "Exit"}]
  /\ rx2 \in [Obj -> {"none", "register", "check1", "close", "sleep", "asleep", "wait",
                      "waiting", "check2", "pull", "pulling", "take", "insert",
                      "asleepClass", "woken", "leave"}]
  /\ exec \in [Obj -> {"none", "loop", "waitDevice", "asleep", "woken", "execute", "locked",
                       "stuck"}]
  /\ stopper \in {Nobody, Run} \cup Obj /\ waking \in {"device", "class"}

Init ==
  /\ on = FALSE /\ starts = 0 /\ linked = FALSE
  /\ objs = 0 /\ cur = 0 /\ joined = FALSE /\ stage = "off"
  /\ freqs \in FreqPairs
  /\ next = "windows" /\ pending = FALSE
  /\ timer = FALSE /\ resp = NoMsg
  /\ reg = {} /\ isOpen = FALSE /\ slot = NoMsg
  /\ open = [o \in Obj |-> "Close"]
  /\ rx2 = [o \in Obj |-> "none"] /\ exec = [o \in Obj |-> "none"]
  /\ locked = FALSE /\ stopper = Nobody /\ waking = "device"
  /\ sent = {} /\ taken = {}

----------------------------------------------------------------------------
(* Shared parts. *)

\* Goroutines of a set of stages move on together.
Wake(table, from, to) == [o \in Obj |-> IF table[o] = from THEN to ELSE table[o]]

\* Notify.Broadcast of the mailbox: Run and every RX2 in a Wait.
Notified(table) == Wake(Wake(table, "waiting", "check2"), "pulling", "take")
Broadcast ==
  /\ rx2' = Notified(rx2)
  /\ stage' = IF stage = "pulling" THEN "take" ELSE stage

\* Register and UnRegister walk the links there are.
Register(f) ==
  IF linked THEN reg' = reg \cup {f} /\ isOpen' = TRUE ELSE UNCHANGED <<reg, isOpen>>

UnRegister(f) ==
  IF linked /\ f \in reg THEN reg' = reg \ {f} /\ isOpen' = FALSE
  ELSE UNCHANGED <<reg, isOpen>>

\* Mutant of Takes: the slot is not reset.
MutantTakesKeeps == taken' = taken \cup ({slot} \cap Msg) /\ UNCHANGED slot

\* The tail of Pull.
Takes == taken' = taken \cup ({slot} \cap Msg) /\ slot' = NoMsg

\* Mutant of OpenWindow: Broadcast is forgotten.
MutantOpenWindowMute ==
  IF cur = 0 THEN UNCHANGED <<open, rx2>>
  ELSE open' = [open EXCEPT ![cur] = "Open"] /\ UNCHANGED rx2

\* OpenWindow and CloseWindow of the current class; class A has neither.
OpenWindow ==
  IF cur = 0 THEN UNCHANGED <<open, rx2>>
  ELSE /\ open' = [open EXCEPT ![cur] = "Open"]
       /\ rx2' = [rx2 EXCEPT ![cur] = IF @ = "asleep" THEN "register" ELSE @]

CloseWindow ==
  open' = IF cur = 0 THEN open ELSE [open EXCEPT ![cur] = "Close"]

\* Device.Mutex is free and the device runs: CanExecute says yes.
Running == on /\ stopper = Nobody

\* It says no to who, and of a device of class C closes RX2 before it wakes the
\* goroutines, with Device.Mutex in its hands.
Stops(who) ==
  /\ ~on /\ stopper = Nobody
  /\ IF cur = 0 THEN UNCHANGED <<open, rx2, stopVars>>
     ELSE /\ open' = [open EXCEPT ![cur] = "Exit"]
          /\ rx2' = [rx2 EXCEPT ![cur] = IF @ = "asleep" THEN "register" ELSE @]
          /\ stopper' = who /\ waking' = "device"

\* Mutant of WakesUp: Device.Mutex is not given back.
MutantWakesUpKeeps ==
  /\ stopper # Nobody /\ ~locked
  /\ exec' = Wake(exec, "asleep", "woken")
  /\ rx2' = Wake(rx2, "asleepClass", "woken")
  /\ UNCHANGED <<stopVars, powerVars, mainVars, mailboxVars, open, locked, historyVars>>

\* WakeUpDevice, then WakeUpClass: each takes the mutex of InfoClassC, and waits
\* for ever for one an executor holds.
WakesUp ==
  /\ stopper # Nobody /\ ~locked
  /\ IF waking = "device"
     THEN /\ exec' = Wake(exec, "asleep", "woken")
          /\ waking' = "class"
          /\ UNCHANGED <<rx2, stopper>>
     ELSE /\ rx2' = Wake(rx2, "asleepClass", "woken")
          /\ stopper' = Nobody
          /\ UNCHANGED <<exec, waking>>
  /\ UNCHANGED <<powerVars, mainVars, mailboxVars, open, locked, historyVars>>

----------------------------------------------------------------------------
(* The goroutine of Run. *)

Goto(s) == stage' = s

\* A tick.  A device that is not joined switches to class A and joins, sooner or
\* later; the windows of the join are those of module ReceiveWindows.  Bound: it
\* does not join again when all objects have been made.
OtaaActivation ==
  /\ stage = "idle" /\ Running /\ ~joined /\ objs < MaxObj
  /\ cur' = 0 /\ joined' = TRUE
  /\ UNCHANGED <<powerVars, objs, stage, runVars, freqs, timer, resp, mailboxVars, rx2Vars,
                 historyVars>>

\* Bound: an uplink is one frame.
Execute == Goto("send")

\* SwitchClass(ClassC) starts the two goroutines.
SwitchClass ==
  /\ stage = "idle" /\ Running /\ joined /\ cur = 0
  /\ objs' = objs + 1 /\ cur' = objs'
  /\ rx2' = [rx2 EXCEPT ![cur'] = "register"]
  /\ exec' = [exec EXCEPT ![cur'] = "loop"]
  /\ Execute
  /\ UNCHANGED <<powerVars, joined, freqs, runVars, timer, resp, mailboxVars, open, locked,
                 stopVars, historyVars>>

KeepClass ==
  /\ stage = "idle" /\ Running /\ joined /\ cur # 0
  /\ Execute
  /\ UNCHANGED <<powerVars, classVars, runVars, timer, resp, mailboxVars, rx2Vars,
                 historyVars>>

\* A tick of a stopped device, before it takes the Exit message.
TickStopped ==
  /\ stage = "idle" /\ cur # 0
  /\ Stops(Run)
  /\ UNCHANGED <<powerVars, mainVars, mailboxVars, exec, locked, historyVars>>

\* SendData: RX2 is closed, the frame sent, RX2 opened again.
SendData ==
  /\ stage = "send"
  /\ CloseWindow
  /\ Goto("sent")
  /\ UNCHANGED <<powerVars, classVars, runVars, timer, resp, mailboxVars, rx2, exec, locked,
                 stopVars, historyVars>>

SendDataEnds ==
  /\ stage = "sent"
  /\ OpenWindow
  /\ next' = "windows"
  /\ Goto(next)
  /\ UNCHANGED <<powerVars, classVars, pending, timer, resp, mailboxVars, exec, locked,
                 stopVars, historyVars>>

\* Mutant of ReceiveWindows: it forgets to start the timer.
MutantNoTimer ==
  /\ stage = "windows" /\ ~timer
  /\ CloseWindow
  /\ Register(rx1Freq)
  /\ Goto("pull")
  /\ UNCHANGED <<powerVars, classVars, runVars, timer, resp, slot, rx2, exec, locked,
                 stopVars, historyVars>>

\* RX2 is closed, RX1 registered; the delay elapses and the timer's goroutine
\* starts.  Bound: that of an earlier window has ended.
ReceiveWindows ==
  /\ stage = "windows" /\ ~timer
  /\ CloseWindow
  /\ Register(rx1Freq)
  /\ timer' = TRUE
  /\ Goto("pull")
  /\ UNCHANGED <<powerVars, classVars, runVars, resp, slot, rx2, exec, locked, stopVars,
                 historyVars>>

PullBlocks ==
  /\ stage = "pull" /\ slot = NoMsg
  /\ Goto("pulling")
  /\ UNCHANGED <<powerVars, classVars, runVars, timer, resp, mailboxVars, rx2Vars,
                 historyVars>>

PullTakes ==
  /\ stage = "take" \/ (stage = "pull" /\ slot # NoMsg)
  /\ resp' = slot
  /\ Takes
  /\ Goto("unregister")
  /\ UNCHANGED <<powerVars, classVars, runVars, timer, reg, isOpen, rx2Vars, sent>>

UnRegisterRX1 ==
  /\ stage = "unregister"
  /\ UnRegister(rx1Freq)
  /\ Goto("reopen")
  /\ UNCHANGED <<powerVars, classVars, runVars, timer, resp, slot, rx2Vars, historyVars>>

ReceiveWindowsEnds ==
  /\ stage = "reopen"
  /\ OpenWindow
  /\ Goto("after")
  /\ UNCHANGED <<powerVars, classVars, runVars, timer, resp, mailboxVars, exec, locked,
                 stopVars, historyVars>>

\* Run goes on from its windows or its commands.
runOthers == <<powerVars, classVars, timer, mailboxVars, rx2Vars, historyVars>>

\* In FPendingProcedure CanExecute is asked first.
GoesOn == stage = "after" /\ (pending => Running)

PendingStops ==
  /\ stage = "after" /\ pending
  /\ Stops(Run)
  /\ resp' = NoMsg /\ pending' = FALSE
  /\ Goto("end")
  /\ UNCHANGED <<powerVars, classVars, next, timer, mailboxVars, exec, locked, historyVars>>

AfterSilence ==
  /\ GoesOn /\ resp = NoMsg
  /\ pending' = FALSE
  /\ Goto("end")
  /\ UNCHANGED <<runOthers, next, resp>>

\* A downlink in error, which ends Execute unless it came with more data
\* pending, or a join accept.
AfterOtherDownlink ==
  /\ GoesOn /\ resp # NoMsg
  /\ resp' = NoMsg /\ pending' = FALSE
  /\ stage' \in {"end"} \cup (IF pending THEN {} ELSE {"idle"})
  /\ UNCHANGED <<runOthers, next>>

\* A data downlink, which Run may have to acknowledge.
AfterDownlink ==
  /\ GoesOn /\ resp # NoMsg
  /\ resp' = NoMsg
  /\ \/ Goto("setAck") /\ UNCHANGED next
     \/ Goto("send") /\ next' = "setAck"
  /\ UNCHANGED <<runOthers, pending>>

SetACK ==
  /\ stage = "setAck" /\ ~locked
  /\ Goto("commands")
  /\ UNCHANGED <<runOthers, runVars, resp>>

\* The commands are executed.  There are no more data, or the device repeats.
NoMoreData ==
  /\ stage = "commands"
  /\ pending' = FALSE
  /\ Goto("end")
  /\ UNCHANGED <<runOthers, next, resp>>

\* FPendingProcedure, at its head or in its loop.  An empty frame asks for the
\* data, unless an acknowledgement did.
FPendingProcedure ==
  /\ stage = "commands" /\ (pending \/ Running)
  /\ pending' = TRUE
  /\ stage' \in {"send", "windows"}
  /\ UNCHANGED <<runOthers, next, resp>>

FPendingStops ==
  /\ stage = "commands" /\ ~pending
  /\ Stops(Run)
  /\ Goto("end")
  /\ UNCHANGED <<powerVars, classVars, runVars, timer, resp, mailboxVars, exec, locked,
                 historyVars>>

\* The ADR back-off may unjoin the device, and so may the last repetition of a
\* confirmed frame, before which GetACK takes the mutex.
AfterAll ==
  /\ stage = "end" \/ (stage = "getAck" /\ ~locked)
  /\ joined' \in {joined, FALSE}
  /\ stage' \in {"idle"} \cup (IF stage = "end" THEN {"getAck"} ELSE {})
  /\ UNCHANGED <<powerVars, objs, cur, freqs, runVars, timer, resp, mailboxVars, rx2Vars,
                 historyVars>>

ReceiveExit ==
  /\ stage = "idle" /\ ~on
  /\ Goto("left")
  /\ UNCHANGED <<powerVars, classVars, runVars, timer, resp, mailboxVars, rx2Vars,
                 historyVars>>

----------------------------------------------------------------------------
(* The goroutine RX2 of an object. *)

rx2Others == <<powerVars, mainVars, open, exec, locked, stopVars, sent>>

To(o, s) == rx2' = [rx2 EXCEPT ![o] = s]

RX2Registers(o) ==
  /\ rx2[o] = "register"
  /\ Register(rx2Freq)
  /\ To(o, "check1")
  /\ UNCHANGED <<rx2Others, slot, taken>>

\* isOpenWindow, before and after the wait.
RX2Checks(o) ==
  /\ rx2[o] \in {"check1", "check2"}
  /\ To(o, CASE open[o] = "Exit"  -> "leave"
             [] open[o] = "Close" -> "close"
             [] OTHER -> IF rx2[o] = "check1" THEN "wait" ELSE "pull")
  /\ UNCHANGED <<rx2Others, mailboxVars, taken>>

RX2UnRegisters(o) ==
  /\ rx2[o] \in {"close", "leave"}
  /\ UnRegister(rx2Freq)
  /\ To(o, IF rx2[o] = "close" THEN "sleep" ELSE "none")
  /\ UNCHANGED <<rx2Others, slot, taken>>

\* The three waits, the last after InsertDownlink, and Pull of an empty mailbox.
\* That the window may have been opened since RX2 looked is not tested again.
RX2Waits(o) ==
  /\ \/ rx2[o] = "sleep" /\ To(o, "asleep")
     \/ rx2[o] = "wait"  /\ To(o, "waiting")
     \/ rx2[o] = "pull"  /\ slot = NoMsg /\ To(o, "pulling")
     \/ rx2[o] = "insert" /\ ~locked /\ To(o, "asleepClass")
  /\ UNCHANGED <<rx2Others, mailboxVars, taken>>

\* What GetDownlink refuses is dropped.
RX2Pulls(o) ==
  /\ rx2[o] = "take" \/ (rx2[o] = "pull" /\ slot # NoMsg)
  /\ Takes
  /\ \/ To(o, "check1")
     \/ slot \in Msg /\ To(o, "insert")
  /\ UNCHANGED <<rx2Others, reg, isOpen>>

\* WaitClass returns.
RX2Wakes(o) ==
  /\ rx2[o] = "woken" /\ ~locked
  /\ To(o, "check1")
  /\ UNCHANGED <<rx2Others, mailboxVars, taken>>

RX2Step(o) ==
  \/ RX2Registers(o) \/ RX2Checks(o) \/ RX2UnRegisters(o)
  \/ RX2Waits(o) \/ RX2Pulls(o) \/ RX2Wakes(o)

----------------------------------------------------------------------------
(* The executor, DownlinkReceivedRX2ClassC. *)

execOthers == <<powerVars, mainVars, mailboxVars, historyVars>>

ExecTo(o, s) == exec' = [exec EXCEPT ![o] = s]

\* The head of the loop, which looks at whatever class the device has now.
ExecLoops(o) ==
  /\ exec[o] = "loop" /\ (cur = 0 \/ Running)
  /\ ExecTo(o, IF cur = 0 THEN "none" ELSE "waitDevice")
  /\ UNCHANGED <<execOthers, open, rx2, locked, stopVars>>

ExecWaits(o) ==
  /\ exec[o] = "waitDevice" /\ ~locked
  /\ ExecTo(o, "asleep")
  /\ UNCHANGED <<execOthers, open, rx2, locked, stopVars>>

\* At the head of the loop or after the wait, in a stopped device.  What Stops
\* leaves to be woken is done under the number of the executor, which then ends.
ExecLeaves(o) ==
  /\ (exec[o] = "loop" /\ cur # 0) \/ (exec[o] = "woken" /\ ~locked)
  /\ Stops(o)
  /\ ExecTo(o, "none")
  /\ UNCHANGED <<execOthers, locked>>

\* The wait is over and the device runs, again.
ExecGoesOn(o) ==
  /\ exec[o] = "woken" /\ ~locked /\ Running
  /\ ExecTo(o, "execute")
  /\ UNCHANGED <<execOthers, open, rx2, locked, stopVars>>

ExecLocks(o) ==
  /\ exec[o] = "execute" /\ ~locked
  /\ locked' = TRUE
  /\ ExecTo(o, "locked")
  /\ UNCHANGED <<execOthers, open, rx2, stopVars>>

\* The commands and the ADR procedure, which are left out but for CanExecute,
\* and WakeUpClass: it locks the mutex its caller holds, and so does WakeUpDevice.
ExecSticks(o) ==
  /\ exec[o] = "locked"
  /\ Stops(o) \/ UNCHANGED <<open, rx2, stopVars>>
  /\ ExecTo(o, "stuck")
  /\ UNCHANGED <<execOthers, locked>>

ExecStep(o) ==
  \/ ExecLoops(o) \/ ExecWaits(o) \/ ExecLeaves(o)
  \/ ExecGoesOn(o) \/ ExecLocks(o) \/ ExecSticks(o)

----------------------------------------------------------------------------
(* Timers, the network server, the operator. *)

TimerFires ==
  /\ timer /\ stage # "pull"
  /\ timer' = FALSE
  /\ Broadcast
  /\ UNCHANGED <<powerVars, classVars, runVars, resp, mailboxVars, open, exec, locked,
                 stopVars, historyVars>>

\* Downlinks are alike but for their names.
NextMsg == CHOOSE m \in Msg \ sent : TRUE

\* A downlink on a frequency the device is registered on; others change nothing.
Downlink ==
  /\ isOpen /\ reg # {} /\ Msg \ sent # {}
  /\ slot' = NextMsg /\ sent' = sent \cup {NextMsg}
  /\ Broadcast
  /\ UNCHANGED <<powerVars, classVars, runVars, timer, resp, reg, isOpen, open, exec, locked,
                 stopVars, taken>>

\* Setup makes the conditions of the mailbox and of InfoClassC anew: whoever
\* waits on an old one, or on that of an object without a device, is lost.
TurnOn ==
  /\ stage = "off" /\ ~on /\ starts < MaxStarts
  /\ on' = TRUE /\ starts' = starts + 1 /\ linked' = TRUE
  /\ cur' = 0 /\ joined' = FALSE
  /\ rx2' = [o \in Obj |-> IF rx2[o] \in {"waiting", "pulling", "asleep", "asleepClass"}
                           THEN "none" ELSE rx2[o]]
  /\ exec' = [o \in Obj |-> IF exec[o] = "asleep" THEN "none" ELSE exec[o]]
  /\ Goto("idle")
  /\ UNCHANGED <<objs, freqs, runVars, timer, resp, mailboxVars, open, locked, stopVars,
                 historyVars>>

\* It needs Device.Mutex.
TurnOff ==
  /\ Running
  /\ on' = FALSE
  /\ UNCHANGED <<starts, linked, mainVars, mailboxVars, rx2Vars, historyVars>>

DeleteDevice ==
  /\ stage = "left"
  /\ linked' = FALSE
  /\ Goto("off")
  /\ UNCHANGED <<on, starts, classVars, runVars, timer, resp, mailboxVars, rx2Vars,
                 historyVars>>

----------------------------------------------------------------------------

\* Run waits in CanExecute until it has woken the goroutines.
MainStep ==
  /\ stopper # Run
  /\ \/ OtaaActivation \/ SwitchClass \/ KeepClass
     \/ SendData \/ SendDataEnds
     \/ ReceiveWindows \/ PullBlocks \/ PullTakes \/ UnRegisterRX1 \/ ReceiveWindowsEnds
     \/ PendingStops \/ AfterSilence \/ AfterOtherDownlink \/ AfterDownlink
     \/ SetACK \/ NoMoreData \/ FPendingProcedure \/ FPendingStops
     \/ AfterAll
     \/ ReceiveExit

OperatorStep == TurnOn \/ TurnOff \/ DeleteDevice

Next ==
  \/ MainStep \/ TickStopped \/ WakesUp
  \/ \E o \in Obj : RX2Step(o) \/ ExecStep(o)
  \/ TimerFires
  \/ Downlink
  \/ OperatorStep

Spec == Init /\ [][Next]_vars

\* Goroutines run, timers expire and tickers tick; nobody owes the device a
\* downlink or a switch.
Fairness ==
  /\ WF_vars(MainStep)
  /\ \A o \in Obj : WF_vars(RX2Step(o)) /\ WF_vars(ExecStep(o))
  /\ WF_vars(WakesUp)
  /\ WF_vars(TimerFires)

FairSpec == Spec /\ Fairness

----------------------------------------------------------------------------
(* Properties. *)

\* Of two goroutines that pull from one mailbox each downlink goes to one only,
\* and the mailbox never offers again what left it (Pull takes and resets under
\* one mutex, whichever goroutine a Broadcast woke first).
OneTaker == slot \notin taken

\* RX1 always closes, whatever RX2 pulls, registers and unregisters meanwhile.
Rx1Closes == stage \in Windows ~> stage \notin Windows

\* A wakeup lost between isOpenWindow and Wait costs RX2 no more than the time
\* to the next window: it does not sleep on while its device runs and is joined,
\* unless an executor has stopped it.
Rx2WakesAgain ==
  \A o \in Obj :
    rx2[o] = "asleep" /\ cur = o ~> rx2[o] # "asleep" \/ cur # o \/ ~joined \/ ~on \/ locked

\* Run of a device that was turned off comes back to its select, where the Exit
\* message is, from windows, more data or a CanExecute that wakes the others with
\* Device.Mutex in its hands, unless an executor has locked itself out.
StopReturns == ~on ~> (stage \in {"idle", "left", "off"} /\ stopper # Run) \/ locked

\* "Implements class A,C" (README.md:27): what RX2 has heard is executed sooner
\* or later, while its device runs, stays joined and of class C.
Rx2DownlinkExecuted ==
  \A o \in Obj :
    rx2[o] = "insert" /\ cur = o ~> exec[o] = "execute" \/ cur # o \/ ~joined \/ ~on

================================================================================
