-------------------------- MODULE ReceiveWindows_proofs --------------------------
(* Theorems about ReceiveWindows, for any devices, gateways, downlinks,       *)
(* frequencies and places.                                                    *)
EXTENDS ReceiveWindows, TLAPS

LEMMA MailboxInitTyped == MailboxInit => MailboxTypeOK
BY DEF MailboxInit, MailboxTypeOK, WaiterState

\* Type correctness of one step: every action of the devices, their timers, the
\* operator and the gateways leaves each variable in its type.
LEMMA TypeStep == TypeOK /\ [Next]_vars => TypeOK'
<1> SUFFICES ASSUME TypeOK, [Next]_vars PROVE TypeOK'
  OBVIOUS
<1> USE DEF TypeOK, MailboxTypeOK, ForwarderTypeOK, WaiterState, Stage
<1>1. ASSUME NEW d \in Dev, SendData(d) PROVE TypeOK'
  BY <1>1 DEF SendData, Goto, mailboxVars, tableVars, powerVars, historyVars
<1>2. ASSUME NEW d \in Dev, RegisterWindow(d) PROVE TypeOK'
  BY <1>2 DEF RegisterWindow, Register, SetOpen, Goto, powerVars
<1>3. ASSUME NEW d \in Dev, OpenWindow(d) PROVE TypeOK'
  BY <1>3, WindowAssumption
     DEF OpenWindow, Goto, mailboxVars, tableVars, powerVars, historyVars
<1>4. ASSUME NEW d \in Dev, Return(d) PROVE TypeOK'
  <2>1. MailboxTypeOK'
    BY <1>4 DEF Return, PullTakes
  <2>2. resp' \in [Dev -> Msg \cup {NoMsg}] /\ received' \in [Dev -> SUBSET Msg]
    BY <1>4 DEF Return
  <2>3. pc' \in [Dev -> Stage]
    BY <1>4 DEF Return, Goto
  <2>4. QED
    BY <1>4, <2>1, <2>2, <2>3 DEF Return, tableVars, powerVars
<1>5. ASSUME NEW d \in Dev, PullEmpty(d) PROVE TypeOK'
  BY <1>5 DEF PullEmpty, PullBlocks, Goto, tableVars, powerVars, historyVars
<1>6. ASSUME NEW d \in Dev, UnRegisterWindow(d) PROVE TypeOK'
  BY <1>6 DEF UnRegisterWindow, UnRegister, SetOpen, Goto, powerVars
<1>7. ASSUME NEW d \in Dev, ReceiveExit(d) PROVE TypeOK'
  BY <1>7 DEF ReceiveExit, Goto, mailboxVars, tableVars, powerVars, historyVars
<1>8. ASSUME NEW d \in Dev, TimerStep(d) PROVE TypeOK'
  <2>1. MailboxTypeOK'
    BY <1>8 DEF TimerStep, TimerFires, StaleTimerFires, Signal, Broadcast
  <2>2. timer' \in [Dev -> BOOLEAN]
    BY <1>8 DEF TimerStep, TimerFires, StaleTimerFires
  <2>3. stale' \in [Dev -> 0 .. MaxStale]
    BY <1>8, WindowAssumption DEF TimerStep, TimerFires, StaleTimerFires
  <2>4. QED
    BY <1>8, <2>1, <2>2, <2>3
       DEF TimerStep, TimerFires, StaleTimerFires, tableVars, powerVars, historyVars
<1>9. ASSUME NEW d \in Dev, OperatorStep(d) PROVE TypeOK'
  <2>1. CASE TurnOffDevice(d)
    BY <2>1 DEF TurnOffDevice, mailboxVars, tableVars, deviceVars, historyVars
  <2>2. ASSUME NEW p \in Place, AddDevice(d, p), LosesLinks(d, GatewaysAround(p))
        PROVE  MailboxTypeOK' /\ ForwarderTypeOK' /\ orphan' \in [Dev -> SUBSET (Freq \X Gw)]
    BY <2>2 DEF AddDevice, GatewaysAround, LosesLinks, mailboxVars
  <2>3. CASE TurnOnDevice(d)
    <3>1. MailboxTypeOK' /\ ForwarderTypeOK' /\ orphan' \in [Dev -> SUBSET (Freq \X Gw)]
      BY <2>2, <2>3 DEF TurnOnDevice
    <3>2. pc' \in [Dev -> Stage] /\ on' \in [Dev -> BOOLEAN]
      BY <2>3 DEF TurnOnDevice, Goto
    <3>3. QED
      BY <2>3, <3>1, <3>2 DEF TurnOnDevice
  <2>4. CASE ForgetDevice(d)
    <3>1. MailboxTypeOK' /\ ForwarderTypeOK' /\ orphan' \in [Dev -> SUBSET (Freq \X Gw)]
      BY <2>4 DEF ForgetDevice, DeleteDevice, LosesLinks, mailboxVars
    <3>2. QED
      BY <2>4, <3>1 DEF ForgetDevice, Goto, powerVars
  <2>5. CASE ChangeLocation(d)
    <3>1. MailboxTypeOK' /\ ForwarderTypeOK' /\ orphan' \in [Dev -> SUBSET (Freq \X Gw)]
      BY <2>2, <2>5 DEF ChangeLocation
    <3>2. QED
      BY <2>5, <3>1 DEF ChangeLocation, deviceVars, powerVars
  <2>6. QED
    BY <1>9, <2>1, <2>3, <2>4, <2>5 DEF OperatorStep
<1>10. ASSUME NEW g \in Gw, SendDownlink(g) PROVE TypeOK'
  BY <1>10 DEF SendDownlink, Downlink, Push, Broadcast, tableVars, deviceVars, powerVars
<1>11. ASSUME NEW g \in Gw, TurnOnGateway(g) \/ TurnOffGateway(g) PROVE TypeOK'
  <2>1. CASE TurnOnGateway(g)
    <3>1. PICK p \in Place : AddGateway(g, p)
      BY <2>1 DEF TurnOnGateway
    <3>2. MailboxTypeOK' /\ ForwarderTypeOK'
      BY <3>1 DEF AddGateway, mailboxVars
    <3>3. QED
      BY <2>1, <3>2 DEF TurnOnGateway, deviceVars, historyVars
  <2>2. CASE TurnOffGateway(g)
    <3>1. MailboxTypeOK' /\ ForwarderTypeOK'
      BY <2>2 DEF TurnOffGateway, DeleteGateway, mailboxVars
    <3>2. QED
      BY <2>2, <3>1 DEF TurnOffGateway, deviceVars, historyVars
  <2>3. QED
    BY <1>11, <2>1, <2>2
<1>12. CASE UNCHANGED vars
  BY <1>12 DEF vars, mailboxVars, tableVars, deviceVars, powerVars, historyVars
<1>13. QED
  BY <1>1, <1>2, <1>3, <1>4, <1>5, <1>6, <1>7, <1>8, <1>9, <1>10, <1>11, <1>12
     DEF Next, DeviceStep, PullFull, PullWakes, GatewayStep

\* Every reachable state is well typed.
THEOREM TypeCorrect == Spec => []TypeOK
<1>1. Init => TypeOK
  BY MailboxInitTyped, WindowAssumption DEF Init, ForwarderInit, TypeOK, ForwarderTypeOK, Stage
<1>2. QED
  BY <1>1, TypeStep, PTL DEF Spec

--------------------------------------------------------------------------------
(* The registrations. *)

LEMMA RegistrationInit == Init => RegistrationInv
BY DEF Init, MailboxInit, ForwarderInit, RegistrationInv, InWindow

LEMMA RegistrationStep ==
  TypeOK /\ TypeOK' /\ RegistrationInv /\ [Next]_vars => RegistrationInv'
<1> SUFFICES ASSUME TypeOK, TypeOK', RegistrationInv, [Next]_vars PROVE RegistrationInv'
  OBVIOUS
<1> USE DEF TypeOK, MailboxTypeOK, ForwarderTypeOK, RegistrationInv, InWindow
<1>1. ASSUME NEW d \in Dev, RegisterWindow(d) PROVE RegistrationInv'
  <2>1. PICK f \in Freq : /\ freq' = [freq EXCEPT ![d] = f]
                          /\ Register(f, d)
                          /\ orphan' = [orphan EXCEPT ![d] = @ \ ({f} \X devToGw[d])]
    BY <1>1 DEF RegisterWindow
  <2>2. pc[d] = "register" /\ pc' = [pc EXCEPT ![d] = "delay"]
    BY <1>1 DEF RegisterWindow, Goto
  <2>3. /\ gwToDev' = [gwToDev EXCEPT ![d] = @ \cup ({f} \X devToGw[d])]
        /\ isOpen'  = [isOpen EXCEPT ![d] = isOpen[d] \/ devToGw[d] # {}]
        /\ devToGw' = devToGw
    BY <2>1 DEF Register, SetOpen
  <2>4. ~InWindow(d) /\ InWindow(d)' /\ freq'[d] = f
    BY <2>1, <2>2
  <2>5. gwToDev[d] \subseteq orphan[d] /\ orphan[d] \subseteq gwToDev[d]
    BY <2>2
  <2>6. gwToDev'[d] \ orphan'[d] \subseteq {freq'[d]} \X devToGw'[d]
    <3>1. /\ gwToDev'[d] = gwToDev[d] \cup ({f} \X devToGw[d])
          /\ orphan'[d] = orphan[d] \ ({f} \X devToGw[d])
      BY <2>1, <2>3
    <3>2. QED
      BY <3>1, <2>3, <2>4, <2>5
  <2>7. orphan'[d] \subseteq gwToDev'[d]
    BY <2>1, <2>3, <2>5
  <2>8. isOpen'[d] => gwToDev'[d] # {}
    <3>1. CASE devToGw[d] = {}
      BY <2>3, <3>1
    <3>2. ASSUME NEW g \in devToGw[d] PROVE gwToDev'[d] # {}
      <4>1. <<f, g>> \in gwToDev'[d]
        BY <2>3
      <4>2. QED
        BY <4>1
    <3>3. QED
      BY <3>1, <3>2
  <2>9. \A e \in Dev \ {d} : /\ gwToDev'[e] = gwToDev[e] /\ orphan'[e] = orphan[e]
                             /\ isOpen'[e] = isOpen[e] /\ freq'[e] = freq[e]
                             /\ pc'[e] = pc[e] /\ devToGw'[e] = devToGw[e]
    BY <2>1, <2>2, <2>3
  <2>10. QED
    BY <2>4, <2>6, <2>7, <2>8, <2>9
<1>2. ASSUME NEW d \in Dev, UnRegisterWindow(d) PROVE RegistrationInv'
  <2>1. pc[d] = "tail" /\ pc'[d] \notin {"delay", "opened", "pull", "tail"}
    BY <1>2 DEF UnRegisterWindow, Goto
  <2>2. \A e \in Dev \ {d} : pc'[e] = pc[e]
    BY <1>2 DEF UnRegisterWindow, Goto
  <2> DEFINE walked == {freq[d]} \X devToGw[d]
             found  == walked \cap gwToDev[d]
  <2>3. /\ gwToDev' = [gwToDev EXCEPT ![d] = @ \ found]
        /\ isOpen'  = [isOpen EXCEPT ![d] = isOpen[d] /\ found = {}]
        /\ orphan'  = [orphan EXCEPT ![d] = @ \ walked]
        /\ devToGw' = devToGw /\ freq' = freq
    BY <1>2 DEF UnRegisterWindow, UnRegister, SetOpen
  <2>4. gwToDev[d] \ orphan[d] \subseteq walked
    BY <2>1
  <2>5. /\ gwToDev'[d] = gwToDev[d] \ walked
        /\ orphan'[d] = orphan[d] \ walked
        /\ isOpen'[d] <=> isOpen[d] /\ walked \cap gwToDev[d] = {}
    <3>1. gwToDev'[d] = gwToDev[d] \ found
      BY <2>3
    <3>2. orphan'[d] = orphan[d] \ walked
      BY <2>3
    <3>3. isOpen'[d] <=> isOpen[d] /\ found = {}
      BY <2>3
    <3>4. gwToDev[d] \ found = gwToDev[d] \ walked
      OBVIOUS
    <3> QED
      BY <3>1, <3>2, <3>3, <3>4
  <2> HIDE DEF walked
  <2>6. /\ gwToDev'[d] \ orphan'[d] = {}
        /\ orphan'[d] \subseteq gwToDev'[d]
        /\ isOpen'[d] => gwToDev'[d] # {}
    BY <2>4, <2>5
  <2>7. \A e \in Dev \ {d} : /\ gwToDev'[e] = gwToDev[e] /\ orphan'[e] = orphan[e]
                             /\ isOpen'[e] = isOpen[e]
    BY <2>3
  <2>8. QED
    BY <2>1, <2>2, <2>3, <2>6, <2>7
<1>3. ASSUME NEW d \in Dev, SendData(d) \/ ReceiveExit(d) \/ OpenWindow(d) \/ PullEmpty(d)
      PROVE  RegistrationInv'
  <2>1. /\ pc' = [pc EXCEPT ![d] = pc'[d]]
        /\ InWindow(d) <=> pc'[d] \in {"delay", "opened", "pull", "tail"}
    <3>1. CASE SendData(d)
      BY <3>1 DEF SendData, Goto
    <3>2. CASE ReceiveExit(d)
      BY <3>2 DEF ReceiveExit, Goto
    <3>3. CASE OpenWindow(d)
      BY <3>3 DEF OpenWindow, Goto
    <3>4. CASE PullEmpty(d)
      BY <3>4 DEF PullEmpty, Goto
    <3> QED
      BY <1>3, <3>1, <3>2, <3>3, <3>4
  <2>2. UNCHANGED <<devToGw, gwToDev, freq, isOpen, orphan>>
    BY <1>3 DEF SendData, ReceiveExit, OpenWindow, PullEmpty, PullBlocks, mailboxVars,
       tableVars, historyVars
  <2>3. \A e \in Dev : e # d => pc'[e] = pc[e]
    BY <2>1
  <2> HIDE DEF TypeOK, MailboxTypeOK, ForwarderTypeOK
  <2> QED
    BY <2>1, <2>2, <2>3
<1>4. ASSUME NEW d \in Dev, PullFull(d) \/ PullWakes(d) PROVE RegistrationInv'
  <2>1. pc[d] \in {"opened", "pull"} /\ Return(d)
    BY <1>4 DEF PullFull, PullWakes
  <2>2. pc' = [pc EXCEPT ![d] = "tail"] /\ UNCHANGED <<tableVars, freq, isOpen, orphan>>
    BY <2>1 DEF Return, PullTakes, Goto
  <2>3. \A e \in Dev : pc'[e] = IF e = d THEN "tail" ELSE pc[e]
    BY <2>2
  <2>4. UNCHANGED <<devToGw, gwToDev, freq, isOpen, orphan>>
    BY <2>2 DEF tableVars
  <2> HIDE DEF TypeOK, MailboxTypeOK, ForwarderTypeOK
  <2> QED
    BY <2>1, <2>3, <2>4
<1>5. ASSUME NEW d \in Dev, TimerStep(d) PROVE RegistrationInv'
  BY <1>5 DEF TimerStep, TimerFires, StaleTimerFires, Signal, tableVars, historyVars
<1>6. ASSUME NEW d \in Dev, NEW L, LosesLinks(d, L), devToGw' = [devToGw EXCEPT ![d] = L],
             UNCHANGED <<gwToDev, freq, isOpen>>,
             \A e \in Dev : InWindow(e) <=> InWindow(e)'
      PROVE  RegistrationInv'
  BY <1>6 DEF LosesLinks
<1>7. ASSUME NEW d \in Dev, OperatorStep(d) PROVE RegistrationInv'
  <2>1. CASE TurnOnDevice(d)
    <3>1. PICK p \in Place : AddDevice(d, p) /\ LosesLinks(d, GatewaysAround(p))
      BY <2>1 DEF TurnOnDevice
    <3>2. \A e \in Dev : InWindow(e) <=> InWindow(e)'
      BY <2>1 DEF TurnOnDevice, Goto
    <3>3. QED
      BY <2>1, <3>1, <3>2, <1>6 DEF TurnOnDevice, AddDevice, mailboxVars
  <2>2. CASE TurnOffDevice(d)
    BY <2>2 DEF TurnOffDevice, mailboxVars, tableVars, deviceVars, historyVars
  <2>3. CASE ForgetDevice(d)
    <3>1. \A e \in Dev : InWindow(e) <=> InWindow(e)'
      BY <2>3 DEF ForgetDevice, Goto
    <3>2. QED
      BY <2>3, <3>1, <1>6 DEF ForgetDevice, DeleteDevice, mailboxVars
  <2>4. CASE ChangeLocation(d)
    <3>1. PICK p \in Place : AddDevice(d, p) /\ LosesLinks(d, GatewaysAround(p))
      BY <2>4 DEF ChangeLocation
    <3>2. QED
      BY <2>4, <3>1, <1>6 DEF ChangeLocation, AddDevice, mailboxVars, deviceVars
  <2>5. QED
    BY <1>7, <2>1, <2>2, <2>3, <2>4 DEF OperatorStep
<1>8. ASSUME NEW g \in Gw, SendDownlink(g) PROVE RegistrationInv'
  BY <1>8 DEF SendDownlink, Downlink, Push, tableVars, deviceVars
<1>9. ASSUME NEW g \in Gw, TurnOnGateway(g) PROVE RegistrationInv'
  BY <1>9 DEF TurnOnGateway, AddGateway, mailboxVars, deviceVars, historyVars
<1>10. ASSUME NEW g \in Gw, TurnOffGateway(g) PROVE RegistrationInv'
  <2>1. devToGw' = devToGw
    BY <1>10, ForwarderAssumption DEF TurnOffGateway, DeleteGateway
  <2>2. QED
    BY <1>10, <2>1 DEF TurnOffGateway, DeleteGateway, mailboxVars, deviceVars, historyVars
<1>11. CASE UNCHANGED vars
  BY <1>11 DEF vars, mailboxVars, tableVars, deviceVars, historyVars
<1>12. QED
  BY <1>1, <1>2, <1>3, <1>4, <1>5, <1>7, <1>8, <1>9, <1>10, <1>11
     DEF Next, DeviceStep, GatewayStep

\* The registration invariant, over every run.
THEOREM RegistrationsAccounted == Spec => []RegistrationInv
BY RegistrationInit, RegistrationStep, TypeCorrect, PTL DEF Spec

\* A device whose links were not removed under a window is deaf between its
\* windows: no registration in GwtoDev, the mailbox shut.
THEOREM WindowsAreScoped == Spec => []WindowScoped
<1>1. TypeOK /\ RegistrationInv => WindowScoped
  BY DEF TypeOK, ForwarderTypeOK, RegistrationInv, WindowScoped
<1>2. QED
  BY <1>1, RegistrationsAccounted, TypeCorrect, PTL

--------------------------------------------------------------------------------
(* The mailbox. *)

LEMMA SleepStep == TypeOK /\ NoSleepOnFull /\ [Next]_vars => NoSleepOnFull'
<1> SUFFICES ASSUME TypeOK, NoSleepOnFull, [Next]_vars PROVE NoSleepOnFull'
  OBVIOUS
<1> USE DEF TypeOK, MailboxTypeOK, NoSleepOnFull
<1>1. ASSUME NEW d \in Dev, DeviceStep(d) PROVE NoSleepOnFull'
  <2>1. CASE SendData(d) \/ RegisterWindow(d) \/ OpenWindow(d) \/ UnRegisterWindow(d)
               \/ ReceiveExit(d)
    <3>1. UNCHANGED <<waiter, downlink>> /\ pc[d] # "pull"
      BY <2>1 DEF SendData, RegisterWindow, Register, OpenWindow, UnRegisterWindow,
         UnRegister, SetOpen, ReceiveExit, mailboxVars
    <3>2. \A e \in Dev \ {d} : pc'[e] = pc[e]
      BY <2>1 DEF SendData, RegisterWindow, OpenWindow, UnRegisterWindow, ReceiveExit, Goto
    <3>3. QED
      BY <3>1, <3>2
  <2>2. CASE PullEmpty(d)
    BY <2>2 DEF PullEmpty, PullBlocks, Goto
  <2>3. CASE PullFull(d) \/ PullWakes(d)
    BY <2>3 DEF PullFull, PullWakes, Return, PullTakes, Goto
  <2>4. QED
    BY <1>1, <2>1, <2>2, <2>3 DEF DeviceStep
<1>2. ASSUME NEW d \in Dev, TimerStep(d) PROVE NoSleepOnFull'
  BY <1>2 DEF TimerStep, TimerFires, StaleTimerFires, Signal, Broadcast
<1>3. ASSUME NEW d \in Dev, OperatorStep(d) PROVE NoSleepOnFull'
  <2>1. UNCHANGED <<waiter, downlink>>
    BY <1>3 DEF OperatorStep, TurnOnDevice, TurnOffDevice, ForgetDevice, ChangeLocation,
       AddDevice, DeleteDevice, mailboxVars
  <2>2. \A e \in Dev : pc[e] = "pull" => pc'[e] = "pull"
    BY <1>3 DEF OperatorStep, TurnOnDevice, TurnOffDevice, ForgetDevice, ChangeLocation,
       deviceVars, Goto
  <2>3. QED
    BY <2>1, <2>2
<1>4. ASSUME NEW g \in Gw, GatewayStep(g) PROVE NoSleepOnFull'
  BY <1>4 DEF GatewayStep, SendDownlink, Downlink, Push, Broadcast, TurnOnGateway,
     TurnOffGateway, AddGateway, DeleteGateway, mailboxVars, deviceVars
<1>5. CASE UNCHANGED vars
  BY <1>5 DEF vars, mailboxVars, deviceVars
<1>6. QED
  BY <1>1, <1>2, <1>3, <1>4, <1>5 DEF Next

\* No device ever sleeps on a mailbox that holds a downlink.
THEOREM NoLostWakeup == Spec => []NoSleepOnFull
<1>1. Init => NoSleepOnFull
  BY DEF Init, MailboxInit, NoSleepOnFull
<1>2. QED
  BY <1>1, SleepStep, TypeCorrect, PTL DEF Spec

\* The three ways a step may touch the mailbox contents.
LEMMA SlotSteps ==
  ASSUME TypeOK, [Next]_vars
  PROVE  \/ UNCHANGED <<sent, downlink, received>>
         \/ \E m \in Msg, D \in SUBSET Dev :
              /\ m \notin sent
              /\ sent' = sent \cup {m}
              /\ downlink' = [d \in Dev |-> IF d \in D THEN m ELSE downlink[d]]
              /\ UNCHANGED received
         \/ \E d \in Dev :
              /\ downlink' = [downlink EXCEPT ![d] = NoMsg]
              /\ received' = [received EXCEPT ![d] = @ \cup ({downlink[d]} \ {NoMsg})]
              /\ UNCHANGED sent
<1>1. CASE \E d \in Dev : DeviceStep(d) /\ ~PullFull(d) /\ ~PullWakes(d)
  BY <1>1 DEF DeviceStep, SendData, RegisterWindow, Register, OpenWindow, PullEmpty,
     PullBlocks, UnRegisterWindow, UnRegister, SetOpen, ReceiveExit, mailboxVars, historyVars
<1>2. CASE \E d \in Dev : PullFull(d) \/ PullWakes(d)
  BY <1>2 DEF PullFull, PullWakes, Return, PullTakes
<1>3. CASE \E d \in Dev : TimerStep(d)
  BY <1>3 DEF TimerStep, TimerFires, StaleTimerFires, Signal, historyVars
<1>4. CASE \E d \in Dev : OperatorStep(d)
  BY <1>4 DEF OperatorStep, TurnOnDevice, TurnOffDevice, ForgetDevice, ChangeLocation,
     AddDevice, DeleteDevice, mailboxVars, historyVars
<1>5. CASE \E g \in Gw : SendDownlink(g)
  <2>1. PICK g \in Gw, m \in Msg \ sent, f \in Freq : Downlink(m, f, g) /\ sent' = sent \cup {m}
    BY <1>5 DEF SendDownlink
  <2> DEFINE accepting == {d \in Listeners(f, g) : isOpen[d]}
  <2>2. /\ accepting \in SUBSET Dev
        /\ downlink' = [d \in Dev |-> IF d \in accepting THEN m ELSE downlink[d]]
    BY <2>1 DEF Downlink, Push, Listeners
  <2>3. UNCHANGED received
    BY <1>5 DEF SendDownlink
  <2> HIDE DEF accepting
  <2>4. QED
    BY <2>1, <2>2, <2>3
<1>6. CASE \E g \in Gw : TurnOnGateway(g) \/ TurnOffGateway(g)
  BY <1>6 DEF TurnOnGateway, TurnOffGateway, AddGateway, DeleteGateway, mailboxVars, historyVars
<1>7. CASE UNCHANGED vars
  BY <1>7 DEF vars, mailboxVars, historyVars
<1>8. QED
  BY <1>1, <1>2, <1>3, <1>4, <1>5, <1>6, <1>7 DEF Next, GatewayStep

LEMMA FreshStep == TypeOK /\ HeldIsFresh /\ [Next]_vars => HeldIsFresh'
BY SlotSteps, NoMsgAssumption DEF HeldIsFresh, TypeOK, MailboxTypeOK

\* What a mailbox holds has never been returned to its device before.
THEOREM HeldDownlinksAreFresh == Spec => []HeldIsFresh
<1>1. Init => HeldIsFresh
  BY DEF Init, MailboxInit, HeldIsFresh
<1>2. QED
  BY <1>1, FreshStep, TypeCorrect, PTL DEF Spec

\* The windows, the mailboxes and the forwarder implement at-most-once delivery
\* through a slot of one place: a gateway's downlink is Send, a Pull that finds
\* one is Take, everything else is a stutter.
THEOREM WindowsImplementDelivery == Spec => ImplementsDelivery
<1>1. Init => Delivery!Init
  BY DEF Init, MailboxInit, Delivery!Init
<1>2. ASSUME TypeOK, HeldIsFresh, [Next]_vars PROVE [Delivery!Next]_(Delivery!deliveryVars)
  <2> USE DEF TypeOK, MailboxTypeOK
  <2>1. CASE UNCHANGED <<sent, downlink, received>>
    BY <2>1 DEF Delivery!deliveryVars
  <2>2. ASSUME NEW m \in Msg, NEW D \in SUBSET Dev, m \notin sent, sent' = sent \cup {m},
               downlink' = [d \in Dev |-> IF d \in D THEN m ELSE downlink[d]],
               UNCHANGED received
        PROVE  Delivery!Next
    BY <2>2 DEF Delivery!Next, Delivery!Send
  <2>3. ASSUME NEW d \in Dev, UNCHANGED sent,
               downlink' = [downlink EXCEPT ![d] = NoMsg],
               received' = [received EXCEPT ![d] = @ \cup ({downlink[d]} \ {NoMsg})]
        PROVE  [Delivery!Next]_(Delivery!deliveryVars)
    <3>1. CASE downlink[d] = NoMsg
      <4>1. downlink' = downlink /\ received' = received
        BY <1>2, <2>3, <3>1
      <4>2. QED
        BY <2>3, <4>1 DEF Delivery!deliveryVars
    <3>2. CASE downlink[d] # NoMsg
      <4>1. downlink[d] \notin received[d]
        BY <1>2, <3>2 DEF HeldIsFresh
      <4>2. received' = [received EXCEPT ![d] = @ \cup {downlink[d]}]
        BY <2>3, <3>2
      <4>3. QED
        BY <2>3, <3>2, <4>1, <4>2 DEF Delivery!Next, Delivery!Take
    <3>3. QED
      BY <3>1, <3>2
  <2>4. QED
    BY <1>2, <2>1, <2>2, <2>3, SlotSteps
<1>3. QED
  BY <1>1, <1>2, TypeCorrect, HeldDownlinksAreFresh, PTL
     DEF Spec, ImplementsDelivery, Delivery!Spec
--------------------------------------------------------------------------------
(* Wakeups. *)

\* SleeperHasTimer with what makes it inductive: the timer OpenWindow started
\* is pending when Pull is entered.
TimerInv ==
  /\ SleeperHasTimer
  /\ \A d \in Dev : pc[d] = "opened" => timer[d]

LEMMA TimerInvStep ==
  ASSUME ~EarlyTimer, TypeOK, NoSleepOnFull, TimerInv, [Next]_vars
  PROVE  TimerInv'
<1> USE DEF TypeOK, MailboxTypeOK, NoSleepOnFull, TimerInv, SleeperHasTimer
<1>1. ASSUME NEW d \in Dev, DeviceStep(d) PROVE TimerInv'
  <2>1. CASE SendData(d) \/ RegisterWindow(d) \/ UnRegisterWindow(d) \/ ReceiveExit(d)
    <3>1. /\ UNCHANGED <<waiter, timer>> /\ pc'[d] # "opened"
          /\ \A e \in Dev \ {d} : pc'[e] = pc[e]
      BY <2>1 DEF SendData, RegisterWindow, Register, UnRegisterWindow, UnRegister, SetOpen,
         ReceiveExit, Goto, mailboxVars
    <3>2. QED
      BY <3>1
  <2>2. CASE OpenWindow(d)
    BY <2>2 DEF OpenWindow, Goto, mailboxVars
  <2>3. CASE PullEmpty(d)
    BY <2>3 DEF PullEmpty, PullBlocks, Goto
  <2>4. CASE PullFull(d) \/ PullWakes(d)
    BY <2>4 DEF PullFull, PullWakes, Return, PullTakes, Goto
  <2>5. QED
    BY <1>1, <2>1, <2>2, <2>3, <2>4 DEF DeviceStep
<1>2. ASSUME NEW d \in Dev, TimerStep(d) PROVE TimerInv'
  BY <1>2 DEF TimerStep, TimerFires, StaleTimerFires, Signal, Broadcast
<1>3. ASSUME NEW d \in Dev, OperatorStep(d) PROVE TimerInv'
  <2>1. UNCHANGED <<waiter, timer>>
    BY <1>3 DEF OperatorStep, TurnOnDevice, TurnOffDevice, ForgetDevice, ChangeLocation,
       AddDevice, DeleteDevice, mailboxVars, deviceVars
  <2>2. \A e \in Dev : pc'[e] = "opened" => pc[e] = "opened"
    BY <1>3 DEF OperatorStep, TurnOnDevice, TurnOffDevice, ForgetDevice, ChangeLocation,
       deviceVars, Goto
  <2>3. QED
    BY <2>1, <2>2
<1>4. ASSUME NEW g \in Gw, GatewayStep(g) PROVE TimerInv'
  BY <1>4 DEF GatewayStep, SendDownlink, Downlink, Push, Broadcast, TurnOnGateway,
     TurnOffGateway, AddGateway, DeleteGateway, mailboxVars, deviceVars
<1>5. CASE UNCHANGED vars
  BY <1>5 DEF vars, mailboxVars, deviceVars
<1>6. QED
  BY <1>1, <1>2, <1>3, <1>4, <1>5 DEF Next

\* A window that stays open longer than the step into Wait is closed by its own
\* timer: no timer of an earlier window uses up the wakeup of a sleeping device.
THEOREM SleepersWake == ~EarlyTimer => (Spec => []SleeperHasTimer)
<1> SUFFICES ASSUME ~EarlyTimer PROVE Spec => []SleeperHasTimer
  OBVIOUS
<1>1. Init => TimerInv
  BY DEF Init, MailboxInit, TimerInv, SleeperHasTimer
<1>2. TypeOK /\ NoSleepOnFull /\ TimerInv /\ [Next]_vars => TimerInv'
  BY TimerInvStep
<1>3. TimerInv => SleeperHasTimer
  BY DEF TimerInv
<1>4. QED
  BY <1>1, <1>2, <1>3, TypeCorrect, NoLostWakeup, PTL DEF Spec

--------------------------------------------------------------------------------
(* The links. *)

LEMMA LinksStep == TypeOK /\ LinksCoverRange /\ [Next]_vars => LinksCoverRange'
<1> SUFFICES ASSUME TypeOK, LinksCoverRange, [Next]_vars PROVE LinksCoverRange'
  OBVIOUS
<1> USE DEF TypeOK, ForwarderTypeOK, LinksCoverRange, Known, GatewaysAround
<1>1. CASE UNCHANGED <<devices, gateways, devToGw>>
  BY <1>1
<1>2. ASSUME NEW d \in Dev, NEW p \in Place, AddDevice(d, p) PROVE LinksCoverRange'
  BY <1>2 DEF AddDevice
<1>3. ASSUME NEW d \in Dev, DeleteDevice(d) PROVE LinksCoverRange'
  BY <1>3 DEF DeleteDevice
<1>4. ASSUME NEW g \in Gw, NEW p \in Place, AddGateway(g, p) PROVE LinksCoverRange'
  BY <1>4 DEF AddGateway, InRange
<1>5. CASE DeleteGateway(ZeroMAC)
  <2>1. gateways' = gateways /\ devToGw' = devToGw /\ devices' = devices
    BY <1>5, ForwarderAssumption DEF DeleteGateway
  <2>2. QED
    BY <2>1
<1>6. ASSUME NEW d \in Dev, DeviceStep(d) \/ TimerStep(d) \/ OperatorStep(d)
      PROVE  LinksCoverRange'
  BY <1>1, <1>2, <1>3, <1>6 DEF DeviceStep, SendData, RegisterWindow, Register, OpenWindow,
     PullFull, PullEmpty, PullWakes, Return, UnRegisterWindow, UnRegister, ReceiveExit,
     TimerStep, TimerFires, StaleTimerFires, OperatorStep, TurnOnDevice, TurnOffDevice,
     ForgetDevice, ChangeLocation, tableVars
<1>7. ASSUME NEW g \in Gw, GatewayStep(g) PROVE LinksCoverRange'
  BY <1>1, <1>4, <1>5, <1>7 DEF GatewayStep, SendDownlink, Downlink, TurnOnGateway,
     TurnOffGateway, tableVars
<1>8. QED
  BY <1>1, <1>6, <1>7 DEF Next, vars, tableVars

\* Whatever is added, moved and removed in whatever order, a device the
\* forwarder knows is linked with every gateway in its range.  Nothing is said of
\* gateways out of range, which a device may stay linked with.
THEOREM RangeIsCovered == Spec => []LinksCoverRange
<1>1. Init => LinksCoverRange
  BY DEF Init, ForwarderInit, LinksCoverRange, Known
<1>2. QED
  BY <1>1, LinksStep, TypeCorrect, PTL DEF Spec

\* A mailbox accepts a downlink in a window of its device, on the frequency and
\* over a link of that window, unless a relocation has orphaned a registration.
THEOREM AcceptedOnlyInWindow == Spec => AcceptedInWindow
<1>1. ASSUME TypeOK, RegistrationInv,
             NEW d \in Dev, NEW f \in Freq, NEW g \in Gw, NEW m \in Msg,
             Downlink(m, f, g), downlink'[d] = m, downlink[d] # m, orphan[d] = {}
      PROVE  InWindow(d) /\ f = freq[d] /\ g \in devToGw[d]
  <2>1. <<f, g>> \in gwToDev[d]
    BY <1>1 DEF Downlink, Push, Listeners
  <2>2. <<f, g>> \in IF InWindow(d) THEN {freq[d]} \X devToGw[d] ELSE {}
    BY <1>1, <2>1 DEF RegistrationInv
  <2>3. QED
    BY <2>2
<1>2. TypeOK /\ RegistrationInv =>
        [\A d \in Dev, f \in Freq, g \in Gw, m \in Msg :
           Downlink(m, f, g) /\ downlink'[d] = m /\ downlink[d] # m /\ orphan[d] = {}
             => InWindow(d) /\ f = freq[d] /\ g \in devToGw[d]]_vars
  BY <1>1
<1>3. QED
  BY <1>2, TypeCorrect, RegistrationsAccounted, PTL DEF AcceptedInWindow

==================================================================================
