----------------------------- MODULE ClassC_proofs -----------------------------
(***************************************************************************)
(* Theorems about ClassC, for any number of objects, restarts, downlinks   *)
(* and pairs of frequencies.                                               *)
(***************************************************************************)
EXTENDS ClassC, TLAPS

----------------------------------------------------------------------------
(* OneTaker: what is in the slot was sent and has not left it. *)

\* OneTaker with what makes it inductive: the histories account for the slot.
SlotInv ==
  /\ OneTaker
  /\ slot \in sent \cup {NoMsg}
  /\ taken \subseteq sent /\ sent \subseteq Msg

\* A step leaves slot and histories alone, or takes, or fills the slot anew.
LEMMA SlotSteps ==
  ASSUME [Next]_vars
  PROVE  \/ UNCHANGED <<slot, sent, taken>>
         \/ Takes /\ UNCHANGED sent
         \/ \E m \in Msg \ sent : slot' = m /\ sent' = sent \cup {m} /\ UNCHANGED taken
<1>1. CASE MainStep
  BY <1>1 DEF MainStep,
    OtaaActivation, SwitchClass, KeepClass, Execute, SendData, SendDataEnds,
    ReceiveWindows, PullBlocks, PullTakes, UnRegisterRX1, ReceiveWindowsEnds, PendingStops,
    AfterSilence, AfterOtherDownlink, AfterDownlink, SetACK, NoMoreData, FPendingProcedure,
    FPendingStops, AfterAll, ReceiveExit,
    runOthers, mailboxVars, rx2Vars, historyVars
<1>2. CASE TickStopped \/ WakesUp
  BY <1>2 DEF TickStopped, WakesUp, mailboxVars, historyVars
<1>3. ASSUME NEW o \in Obj, RX2Step(o) \/ ExecStep(o)
      PROVE  UNCHANGED <<slot, sent, taken>> \/ (Takes /\ UNCHANGED sent)
  BY <1>3 DEF RX2Step, RX2Registers, RX2Checks, RX2UnRegisters, RX2Waits, RX2Pulls,
    RX2Wakes, rx2Others, ExecStep, ExecLoops, ExecWaits, ExecLeaves, ExecGoesOn,
    ExecLocks, ExecSticks, execOthers, mailboxVars, historyVars
<1>4. CASE TimerFires
  BY <1>4 DEF TimerFires, mailboxVars, historyVars
<1>5. CASE Downlink
  <2>1. Msg \ sent # {} => NextMsg \in Msg \ sent
    BY Zenon DEF NextMsg
  <2> QED
    BY <1>5, <2>1 DEF Downlink
<1>6. CASE OperatorStep
  BY <1>6 DEF OperatorStep, TurnOn, TurnOff, DeleteDevice, mailboxVars, historyVars
<1>7. CASE UNCHANGED vars
  BY <1>7 DEF vars, mailboxVars, historyVars
<1> QED
  BY <1>1, <1>2, <1>3, <1>4, <1>5, <1>6, <1>7 DEF Next

\* Of Run and RX2, which pull from one mailbox, only one is given a downlink,
\* whichever of them a Broadcast wakes first.
THEOREM EachTakenOnce == Spec => []OneTaker
<1>1. Init => SlotInv
  BY ClassCAssumption DEF Init, SlotInv, OneTaker
<1>2. SlotInv /\ [Next]_vars => SlotInv'
  <2> SUFFICES ASSUME SlotInv, [Next]_vars PROVE SlotInv'
    OBVIOUS
  <2>1. CASE UNCHANGED <<slot, sent, taken>>
    BY <2>1 DEF SlotInv, OneTaker
  <2>2. CASE Takes /\ UNCHANGED sent
    BY <2>2, ClassCAssumption DEF SlotInv, OneTaker, Takes
  <2>3. ASSUME NEW m \in Msg \ sent, slot' = m /\ sent' = sent \cup {m} /\ UNCHANGED taken
        PROVE  SlotInv'
    BY <2>3 DEF SlotInv, OneTaker
  <2> QED
    BY <2>1, <2>2, <2>3, SlotSteps
<1>3. SlotInv => OneTaker
  BY DEF SlotInv
<1> QED
  BY <1>1, <1>2, <1>3, PTL DEF Spec

----------------------------------------------------------------------------
(* Why Rx2DownlinkExecuted fails: only the stop of a device wakes its       *)
(* executors, and only a start lets one that was woken go on.               *)

ExecStages ==
  {"none", "loop", "waitDevice", "asleep", "woken", "execute", "locked", "stuck"}

Executing == {"execute", "locked", "stuck"}

\* Before the second start no executor gets far: before the first there is
\* none, and in the first run none is woken while the device runs.
ExecInv ==
  /\ starts \in Nat
  /\ exec \in [Obj -> ExecStages]
  /\ starts = 0 => /\ ~on /\ stage = "off" /\ cur = 0 /\ stopper = Nobody
                   /\ \A o \in Obj : exec[o] = "none"
  /\ starts = 1 /\ on => stopper = Nobody /\ \A o \in Obj : exec[o] # "woken"
  /\ starts < 2 => ~locked /\ \A o \in Obj : exec[o] \notin Executing

\* What Run does, it does in a device that was started; it starts executors, and
\* takes Device.Mutex for long only of a stopped one.
LEMMA ExecMainStep ==
  ASSUME ExecInv, MainStep \/ TickStopped
  PROVE  ExecInv'
<1>1. starts # 0
  BY DEF ExecInv, TickStopped, Stops, MainStep, GoesOn,
    OtaaActivation, SwitchClass, KeepClass, Execute, SendData, SendDataEnds,
    ReceiveWindows, PullBlocks, PullTakes, UnRegisterRX1, ReceiveWindowsEnds, PendingStops,
    AfterSilence, AfterOtherDownlink, AfterDownlink, SetACK, NoMoreData, FPendingProcedure,
    FPendingStops, AfterAll, ReceiveExit
<1>2. UNCHANGED <<on, starts, locked>>
  BY DEF TickStopped, MainStep,
    OtaaActivation, SwitchClass, KeepClass, Execute, SendData, SendDataEnds,
    ReceiveWindows, PullBlocks, PullTakes, UnRegisterRX1, ReceiveWindowsEnds, PendingStops,
    AfterSilence, AfterOtherDownlink, AfterDownlink, SetACK, NoMoreData, FPendingProcedure,
    FPendingStops, AfterAll, ReceiveExit,
    runOthers, powerVars, rx2Vars
<1>3. /\ exec' = exec \/ exec' = [exec EXCEPT ![cur'] = "loop"]
      /\ stopper' = stopper \/ ~on
  BY DEF TickStopped, Stops, MainStep,
    OtaaActivation, SwitchClass, KeepClass, Execute, SendData, SendDataEnds,
    ReceiveWindows, PullBlocks, PullTakes, UnRegisterRX1, ReceiveWindowsEnds, PendingStops,
    AfterSilence, AfterOtherDownlink, AfterDownlink, SetACK, NoMoreData, FPendingProcedure,
    FPendingStops, AfterAll, ReceiveExit,
    runOthers, rx2Vars, stopVars
<1> QED
  BY <1>1, <1>2, <1>3 DEF ExecInv, ExecStages, Executing

\* Whoever wakes the executors does it in a stopped device, or in one that was
\* started again.
LEMMA ExecWakeStep ==
  ASSUME ExecInv, WakesUp
  PROVE  ExecInv'
<1>1. UNCHANGED <<on, starts, locked, stage, cur>>
  BY DEF WakesUp, powerVars, mainVars, classVars
<1>2. ~on \/ starts > 1
  BY DEF ExecInv, WakesUp
<1>3. exec' = exec \/ exec' = Wake(exec, "asleep", "woken")
  BY DEF WakesUp
<1>4. starts # 0
  BY DEF ExecInv, WakesUp
<1> QED
  BY <1>1, <1>2, <1>3, <1>4 DEF ExecInv, ExecStages, Executing, Wake

\* An executor: it goes on to execute only when it was woken and finds the
\* device running.
LEMMA ExecOwnStep ==
  ASSUME ExecInv, NEW o \in Obj, ExecStep(o)
  PROVE  ExecInv'
<1> USE DEF ExecInv, ExecStages, Executing, ExecTo
<1>1. UNCHANGED <<on, starts, stage, cur>>
  BY DEF ExecStep, ExecLoops, ExecWaits, ExecLeaves, ExecGoesOn, ExecLocks, ExecSticks,
    execOthers, powerVars, mainVars, classVars
<1>2. starts # 0
  BY DEF ExecStep, ExecLoops, ExecWaits, ExecLeaves, ExecGoesOn, ExecLocks, ExecSticks
<1>3. CASE ExecLoops(o) \/ ExecWaits(o)
  BY <1>1, <1>2, <1>3 DEF ExecLoops, ExecWaits, stopVars
<1>4. CASE ExecLeaves(o)
  BY <1>1, <1>2, <1>4 DEF ExecLeaves, Stops, stopVars
<1>5. CASE ExecGoesOn(o)
  BY <1>1, <1>2, <1>5 DEF ExecGoesOn, Running, stopVars
<1>6. CASE ExecLocks(o)
  BY <1>1, <1>2, <1>6 DEF ExecLocks, stopVars
<1>7. CASE ExecSticks(o)
  BY <1>1, <1>2, <1>7 DEF ExecSticks, Stops, stopVars
<1> QED
  BY <1>3, <1>4, <1>5, <1>6, <1>7 DEF ExecStep

\* Setup forgets executors that sleep and wakes none.
LEMMA ExecOtherStep ==
  ASSUME ExecInv,
         \/ \E o \in Obj : RX2Step(o)
         \/ TimerFires \/ Downlink \/ OperatorStep \/ UNCHANGED vars
  PROVE  ExecInv'
<1> USE DEF ExecInv, ExecStages, Executing
<1>1. ASSUME NEW o \in Obj, RX2Step(o)
      PROVE  ExecInv'
  BY <1>1 DEF RX2Step, RX2Registers, RX2Checks, RX2UnRegisters, RX2Waits, RX2Pulls,
    RX2Wakes, rx2Others, powerVars, mainVars, classVars, stopVars
<1>2. CASE TimerFires \/ Downlink
  BY <1>2 DEF TimerFires, Downlink, Broadcast, powerVars, classVars, stopVars
<1>3. CASE TurnOn
  BY <1>3 DEF TurnOn, Goto, stopVars
<1>4. CASE TurnOff \/ DeleteDevice
  BY <1>4 DEF TurnOff, DeleteDevice, Goto, mainVars, classVars, rx2Vars, stopVars
<1>5. CASE UNCHANGED vars
  BY <1>5 DEF vars, powerVars, mainVars, classVars, rx2Vars, stopVars
<1> QED
  BY <1>1, <1>2, <1>3, <1>4, <1>5 DEF OperatorStep

\* No executor executes what RX2 heard, nor locks its mutex twice.
NothingExecuted == ~locked /\ \A o \in Obj : exec[o] \notin Executing

\* Nobody tells an executor that RX2 has heard something (classC.go:186 wakes no
\* one), so that in its first run a device of class C executes nothing RX2 hears;
\* only after a stop, which wakes the executors, and a start may it.
THEOREM ExecutionNeedsRestart == Spec => [](starts < 2 => NothingExecuted)
<1>1. Init => ExecInv
  BY DEF Init, ExecInv, ExecStages, Executing
<1>2. ExecInv /\ [Next]_vars => ExecInv'
  <2> SUFFICES ASSUME ExecInv, [Next]_vars PROVE ExecInv'
    OBVIOUS
  <2>1. CASE MainStep \/ TickStopped
    BY <2>1, ExecMainStep
  <2>2. CASE WakesUp
    BY <2>2, ExecWakeStep
  <2>3. ASSUME NEW o \in Obj, ExecStep(o)
        PROVE  ExecInv'
    BY <2>3, ExecOwnStep
  <2>4. CASE \/ \E o \in Obj : RX2Step(o)
             \/ TimerFires \/ Downlink \/ OperatorStep \/ UNCHANGED vars
    BY <2>4, ExecOtherStep
  <2> QED
    BY <2>1, <2>2, <2>3, <2>4 DEF Next
<1>3. ExecInv => (starts < 2 => NothingExecuted)
  BY DEF ExecInv, NothingExecuted
<1> QED
  BY <1>1, <1>2, <1>3, PTL DEF Spec

================================================================================
