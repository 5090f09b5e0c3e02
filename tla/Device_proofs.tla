----------------------------- MODULE Device_proofs -----------------------------
(* Theorems about Device, for any configuration of the device and any bounds. *)
EXTENDS Device, SequenceTheorems, TLAPS

\* Between two calls of Execute, and within one.
AtHome == \/ pc \in {"idle", "create"}
          \/ pc \in {"otaa", "joinWindows"} /\ caller \in {"start", "idle"}

InExecute == \/ pc \in {"windows", "pendingStart", "pending", "pendingWindows",
                        "pendingAdr", "adr", "repeat"}
             \/ pc \in {"otaa", "joinWindows"} /\ caller \in {"adr", "pendingAdr"}

Sendable == {"Normal", "Retransmission"}

\* The modes at the stages that lead to CreateUplink.  A device that was turned
\* off may have any, but no longer gets there.
ModeInv ==
  /\ pc \in {"create", "windows"} => mode \in Sendable
  /\ pc \in {"adr", "repeat"} => mode \in Sendable \/ state = "Stopped"
  /\ pc \in {"idle", "otaa"} /\ joined => mode \in Sendable \/ state = "Stopped"
  /\ pc = "joinWindows" => ~joined

\* How often the last uplink was sent, against the counter that limits it.
TriesInv ==
  /\ pc = "windows" => tries > 0
  /\ lastMType = Confirmed =>
       /\ tries <= NbRepConfirmed + 1
       /\ InExecute => tries <= cntC + 1
       /\ AtHome /\ mode = "Retransmission" => tries <= cntC
  /\ lastMType = Unconfirmed =>
       /\ \E n \in NbReps \cup {1} : tries <= n
       /\ InExecute => tries <= cntU
       /\ AtHome /\ mode = "Retransmission" => tries < cntU
  /\ cntU > 0
  /\ \E n \in NbReps \cup {1} : cntU <= n

\* An accepted acknowledgement is still in Execute's hands when it decides
\* about the repetition.
AckInv ==
  lastMType = Confirmed =>
    /\ pc = "windows" => ~acked
    /\ InExecute /\ acked => Answered
    /\ AtHome /\ mode = "Retransmission" => ~acked

DeviceInv == TypeOK /\ ModeInv /\ TriesInv /\ AckInv /\ NoReplay /\ AbpNeverUnjoined

--------------------------------------------------------------------------------

\* ADRACKCnt keeps to the width of its type.
LEMMA CountUpTyped ==
  ASSUME NEW cnt \in AdrCounts, NEW n \in Nat
  PROVE  CountUp(cnt, n) \in AdrCounts
<1>1. (cnt + n + CntHalf) % (2 * CntHalf) \in 0 .. 2 * CntHalf - 1
  BY AdrAssumption DEF AdrCounts
<1>2. QED
  BY <1>1, AdrAssumption DEF CountUp, AdrCounts

\* DecrementDataRate comes to a rate of the region, from none as well.
LEMMA DecrementTyped ==
  ASSUME NEW rate \in DeviceRates
  PROVE  DecrementDataRate(rate) \in DataRates
<1>1. (MinDR - 1) % 256 = IF MinDR = 0 THEN 255 ELSE MinDR - 1
  BY AdrAssumption
<1>2. QED
  BY <1>1, AdrAssumption DEF DecrementDataRate, DataRates, DeviceRates, NoRate

\* FCntDown counts up to the modulus and starts again at 0.
LEMMA CountDownValue ==
  ASSUME NEW x \in 0 .. MAXFCNTGAP - 1
  PROVE  (x + 1) % MAXFCNTGAP = IF x + 1 = MAXFCNTGAP THEN 0 ELSE x + 1
BY DeviceAssumption

--------------------------------------------------------------------------------
(* Type correctness. *)

\* A device that was never run is typed.
LEMMA TypeInit == Init => TypeOK
<1> SUFFICES ASSUME Init PROVE TypeOK
  OBVIOUS
<1>1. /\ state \in {"Stopped", "Running"} /\ pc \in Stage
      /\ caller \in {"start", "idle", "adr", "pendingAdr"} /\ mode \in Mode
  BY DEF Init, Stage, Mode
<1>2. queue \in Seq({Confirmed, Unconfirmed}) /\ Len(queue) <= MaxQueue
  BY DeviceAssumption DEF Init
<1>3. cntC \in 0 .. NbRepConfirmed /\ cntU \in Nat /\ adrCnt \in AdrCounts /\ dr \in DeviceRates
  BY DeviceAssumption, AdrAssumption DEF Init, AdrCounts, DeviceRates
<1>4. sameKeys \in BOOLEAN
  BY DeviceAssumption DEF Init
<1>5. /\ fcntDown \in 0 .. MAXFCNTGAP - 1 /\ srvDown \in 0 .. MaxDown
      /\ inFlight \subseteq 0 .. MaxDown - 1 /\ heard \in -1 .. MaxDown - 1
  BY DeviceAssumption DEF Init
<1>6. QED
  BY <1>1, <1>2, <1>3, <1>4, <1>5 DEF Init, TypeOK

\* What ProcessDownlink may do to the counters, the server and the network.
LEMMA CountersTyped ==
  ASSUME TypeOK,
         \/ AcceptsData
         \/ CountsOther
         \/ HearsNothing
  PROVE  /\ fcntDown' \in 0 .. MAXFCNTGAP - 1 /\ adrCnt' \in AdrCounts
         /\ srvDown' \in 0 .. MaxDown
         /\ inFlight' \subseteq 0 .. MaxDown - 1 /\ lateJoin' \in BOOLEAN
         /\ heard' \in -1 .. MaxDown - 1
<1> USE DeviceAssumption, AdrAssumption, CountDownValue DEF TypeOK, AdrCounts
<1>1. ASSUME NEW c \in (0 .. MaxDown - 1) \cup {-1}, CountDown(c)
      PROVE  fcntDown' \in 0 .. MAXFCNTGAP - 1 /\ heard' \in -1 .. MaxDown - 1
  BY <1>1 DEF CountDown
<1>2. CASE AcceptsData
  BY <1>1, <1>2 DEF AcceptsData
<1>3. CASE CountsOther
  BY <1>1, <1>3 DEF CountsOther
<1>4. CASE HearsNothing
  BY <1>4 DEF HearsNothing, serverVars
<1>5. QED
  BY <1>2, <1>3, <1>4

\* What new keys do to the server's side.
LEMMA KeysTyped ==
  ASSUME TypeOK, NEW same \in BOOLEAN, NewKeys(same)
  PROVE  /\ srvDown' \in 0 .. MaxDown
         /\ inFlight' \subseteq 0 .. MaxDown - 1 /\ heard' \in -1 .. MaxDown - 1
         /\ sameKeys' \in BOOLEAN
BY DeviceAssumption DEF TypeOK, NewKeys

\* Every step keeps the types; a rejected downlink takes back a transmission
\* that was counted.
LEMMA TypeStep ==
  ASSUME TypeOK, pc = "windows" => tries > 0, [Next]_vars
  PROVE  TypeOK'
<1> USE DEF controlVars, statusVars, repVars, localVars, serverVars, historyVars
<1>1. CASE HandlerStep
  <2>1. CASE TurnON
    <3>1. mode' \in Mode /\ pc' \in Stage /\ cntU' \in Nat /\ nbRepU' \in NbReps \cup {0, 1}
      BY <2>1 DEF TurnON, Stage, Mode
    <3>2. joined' \in BOOLEAN /\ dr' \in DeviceRates /\ adrCnt' \in AdrCounts
      BY <2>1, DeviceAssumption, AdrAssumption DEF TurnON, AdrCounts, DeviceRates
    <3>3. QED
      BY <2>1, <3>1, <3>2 DEF TurnON, TypeOK
  <2>2. CASE TurnOFF
    BY <2>2 DEF TurnOFF, TypeOK
  <2>3. ASSUME NEW t \in {Confirmed, Unconfirmed}, NewUplink(t) PROVE TypeOK'
    <3>1. queue' \in Seq({Confirmed, Unconfirmed}) /\ Len(queue') <= MaxQueue
      BY <2>3, DeviceAssumption DEF NewUplink, TypeOK
    <3>2. QED
      BY <2>3, <3>1 DEF NewUplink, TypeOK
  <2>4. ASSUME NEW t \in {Confirmed, Unconfirmed}, ChangePayload(t) PROVE TypeOK'
    BY <2>4 DEF ChangePayload, TypeOK
  <2>5. QED
    BY <1>1, <2>1, <2>2, <2>3, <2>4 DEF HandlerStep
<1>2. CASE ServerStep
  <2>1. CASE ServerSends
    BY <2>1, DeviceAssumption DEF ServerSends, TypeOK
  <2>2. CASE NetworkDrops
    <3>1. inFlight' \subseteq inFlight /\ lateJoin' \in BOOLEAN
      BY <2>2 DEF NetworkDrops, TypeOK
    <3>2. QED
      BY <2>2, <3>1 DEF NetworkDrops, TypeOK
  <2>3. QED
    BY <1>2, <2>1, <2>2 DEF ServerStep
<1>3. CASE ReceiveExit
  BY <1>3 DEF ReceiveExit, TypeOK, Stage
<1>4. CASE RunStep
  <2>1. CASE Tick
    BY <2>1 DEF Tick, TypeOK, Stage
  <2>2. ASSUME ReturnFromOtaa
        PROVE  /\ pc' \in Stage /\ doSwitch' \in BOOLEAN /\ caller' = "start"
               /\ (adrCnt' = adrCnt \/ adrCnt' = 0)
    BY <2>2 DEF ReturnFromOtaa, TypeOK, Stage
  <2>3. 0 \in AdrCounts
    BY AdrAssumption DEF AdrCounts
  <2>4. CASE OtaaLoop
    <3>1. /\ pc' \in Stage /\ doSwitch' \in BOOLEAN /\ adrCnt' \in AdrCounts /\ mode' \in Mode
          /\ caller' \in {"start", "idle", "adr", "pendingAdr"}
      BY <2>2, <2>3, <2>4 DEF OtaaLoop, TypeOK, Stage, Mode
    <3>2. QED
      BY <2>4, <3>1 DEF OtaaLoop, TypeOK
  <2>5. CASE JoinAccepted
    <3>1. /\ srvDown' \in 0 .. MaxDown
          /\ inFlight' \subseteq 0 .. MaxDown - 1 /\ lateJoin' \in BOOLEAN
          /\ heard' \in -1 .. MaxDown - 1 /\ sameKeys' \in BOOLEAN
          /\ joined' \in BOOLEAN /\ fcntDown' = fcntDown
      <4>1. CASE AcceptsLateJoin
        BY <4>1, KeysTyped DEF AcceptsLateJoin, TypeOK
      <4>2. CASE ~AcceptsLateJoin
        <5>1. /\ NewKeys(TRUE) /\ joined' = TRUE
              /\ fcntDown' = fcntDown /\ lateJoin' = lateJoin
          BY <2>5, <4>2 DEF JoinAccepted, HearsJoinAccept
        <5>2. lateJoin \in BOOLEAN
          BY DEF TypeOK
        <5>3. QED
          BY <5>1, <5>2, KeysTyped
      <4>3. QED
        BY <4>1, <4>2
    <3>2. /\ pc' \in Stage /\ doSwitch' \in BOOLEAN /\ adrCnt' \in AdrCounts /\ mode' \in Mode
          /\ caller' = "start"
      BY <2>2, <2>3, <2>5 DEF JoinAccepted, TypeOK, Mode
    <3>3. QED
      BY <2>5, <3>1, <3>2 DEF JoinAccepted, TypeOK
  <2>6. CASE JoinFails
    <3>1. /\ fcntDown' \in 0 .. MAXFCNTGAP - 1 /\ adrCnt' \in AdrCounts
          /\ srvDown' \in 0 .. MaxDown
          /\ inFlight' \subseteq 0 .. MaxDown - 1 /\ lateJoin' \in BOOLEAN
          /\ heard' \in -1 .. MaxDown - 1 /\ sameKeys' \in BOOLEAN
      BY <2>6, KeysTyped, CountersTyped DEF JoinFails, TypeOK
    <3>2. QED
      BY <2>6, <3>1 DEF JoinFails, TypeOK, Stage
  <2>7. CASE Retransmit
    BY <2>7 DEF Retransmit, SwitchChannel, TypeOK, Stage, DeviceRates
  <2>8. CASE CreateUplink
    <3>1. adrCnt' \in AdrCounts
      BY <2>8, CountUpTyped, DeviceAssumption DEF CreateUplink, TypeOK
    <3>2. /\ queue' \in Seq({Confirmed, Unconfirmed}) /\ Len(queue') <= MaxQueue
          /\ lastMType' \in {Confirmed, Unconfirmed, NoMType}
      <4>1. CASE queue # <<>>
        BY <2>8, <4>1, HeadTailProperties, DeviceAssumption DEF CreateUplink, TypeOK
      <4>2. CASE queue = <<>>
        BY <2>8, <4>2 DEF CreateUplink, TypeOK
      <4>3. QED
        BY <4>1, <4>2
    <3>3. dr' \in DeviceRates /\ pc' \in Stage
      BY <2>8 DEF CreateUplink, SwitchChannel, TypeOK, Stage, DeviceRates
    <3>4. tries' \in Nat /\ acked' \in BOOLEAN
      BY <2>8 DEF CreateUplink
    <3>5. UNCHANGED <<state, caller, mode, joined, sameKeys, mtype, cntC, cntU, nbRepU, doSwitch,
                      fcntDown, localVars, serverVars>>
      BY <2>8 DEF CreateUplink
    <3>6. QED
      BY <3>1, <3>2, <3>3, <3>4, <3>5 DEF TypeOK
  <2>9. CASE WindowsReturn
    <3>1. CASE WindowsEmpty
      BY <3>1 DEF WindowsEmpty, HearsNothing, TypeOK, Stage
    <3>2. CASE WindowsReject
      BY <3>2 DEF WindowsReject, RejectsData, KeepsChannel, TypeOK, Stage
    <3>3. CASE WindowsAccept
      <4>1. down' \in Downlink \cup {NoDown} /\ acked' \in BOOLEAN
        BY <3>3 DEF WindowsAccept, TypeOK, Downlink
      <4>2. dr' \in DeviceRates /\ nbRepU' \in NbReps \cup {0, 1} /\ doSwitch' \in BOOLEAN
        BY <3>3 DEF WindowsAccept, ExecuteMACCommand, KeepsChannel, TypeOK, DeviceRates
      <4>3. QED
        BY <3>3, <4>1, <4>2, CountersTyped DEF WindowsAccept, AfterDownlink, TypeOK, Stage
    <3>4. CASE WindowsJoinAccept
      <4>1. NewKeys(FALSE) /\ joined' = TRUE /\ fcntDown' = fcntDown /\ lateJoin' = lateJoin
        BY <3>4 DEF WindowsJoinAccept, AcceptsLateJoin
      <4>2. pc' \in Stage /\ doSwitch' \in BOOLEAN /\ down' \in Downlink
        BY <3>4 DEF WindowsJoinAccept, KeepsChannel, AfterDownlink, TypeOK, Stage, JoinDown,
          Downlink
      <4>3. /\ srvDown' \in 0 .. MaxDown /\ sameKeys' \in BOOLEAN
            /\ inFlight' \subseteq 0 .. MaxDown - 1 /\ heard' \in -1 .. MaxDown - 1
        BY <4>1, KeysTyped
      <4>4. QED
        BY <3>4, <4>1, <4>2, <4>3 DEF WindowsJoinAccept, TypeOK
    <3>5. CASE WindowsOther
      BY <3>5, CountersTyped DEF WindowsOther, KeepsChannel, TypeOK, Stage
    <3>6. CASE PendingStops
      <4>1. "adr" \in Stage
        BY DEF Stage
      <4>2. QED
        <5>1. pc' = "adr" /\ fdown' = NoDown /\ started' \in BOOLEAN
          BY <3>6 DEF PendingStops, ReturnFromPending
        <5>2. UNCHANGED <<state, caller, statusVars, repVars, adrCnt, fcntDown, down,
                          serverVars, historyVars>>
          BY <3>6 DEF PendingStops
        <5> QED
          BY <4>1, <5>1, <5>2 DEF TypeOK
    <3>7. CASE PendingBringsNone
      <4>1. HearsNothing \/ CountsOther
        BY <3>7 DEF PendingBringsNone, RejectsData, HearsNothing
      <4>2. QED
        BY <3>7, <4>1, CountersTyped DEF PendingBringsNone, TypeOK, Stage
    <3>8. CASE PendingAccept
      BY <3>8, CountersTyped DEF PendingAccept, ExecuteMACCommand, TypeOK, Stage, DeviceRates
    <3>9. CASE PendingJoinAccept
      <4>1. NewKeys(FALSE) /\ joined' = TRUE /\ fcntDown' = fcntDown /\ lateJoin' = lateJoin
        BY <3>9 DEF PendingJoinAccept, AcceptsLateJoin
      <4>2. pc' \in Stage /\ fdown' \in Downlink
        BY <3>9 DEF PendingJoinAccept, Stage, JoinDown, Downlink
      <4>3. /\ srvDown' \in 0 .. MaxDown /\ sameKeys' \in BOOLEAN
            /\ inFlight' \subseteq 0 .. MaxDown - 1 /\ heard' \in -1 .. MaxDown - 1
        BY <4>1, KeysTyped
      <4>4. QED
        BY <3>9, <4>1, <4>2, <4>3 DEF PendingJoinAccept, TypeOK
    <3>10. QED
      BY <2>5, <2>6, <2>9, <3>1, <3>2, <3>3, <3>4, <3>5, <3>6, <3>7, <3>8, <3>9
         DEF WindowsReturn
  <2>10. CASE PendingStart
    <3>1. pc' \in Stage /\ fdown' \in Downlink \cup {NoDown} /\ started' \in BOOLEAN
      BY <2>10 DEF PendingStart, TypeOK, Stage
    <3>2. QED
      BY <2>10, <3>1 DEF PendingStart, TypeOK
  <2>11. CASE PendingNext
    <3>1. adrCnt' \in AdrCounts
      BY <2>11, CountUpTyped DEF PendingNext, TypeOK
    <3>2. QED
      BY <2>11, <3>1 DEF PendingNext, TypeOK, Stage, Mode
  <2>12. CASE PendingDone
    <3>1. pc' \in Stage /\ mode' \in Mode
      BY <2>12 DEF PendingDone, ReturnFromPending, Stage, Mode
    <3>2. fdown' \in Downlink \cup {NoDown} /\ started' \in BOOLEAN
      BY <2>12 DEF PendingDone, ReturnFromPending
    <3>3. UNCHANGED <<state, caller, joined, sameKeys, mtype, lastMType, queue, repVars,
                      adrCnt, fcntDown, down, serverVars, historyVars>>
      BY <2>12 DEF PendingDone
    <3>4. QED
      BY <3>1, <3>2, <3>3 DEF TypeOK
  <2>13. ASSUME NEW next \in {"pending", "repeat"}, pc \in {"adr", "pendingAdr"}, AdrStep(next)
         PROVE  TypeOK'
    <3>1. dr' \in DeviceRates
      BY <2>13, DecrementTyped
         DEF AdrStep, ADRProcedure, NoneError, FlagReqSet, CodeUnjoined, TypeOK, DeviceRates
    <3>2. pc' \in Stage /\ caller' \in {"start", "idle", "adr", "pendingAdr"} /\ joined' \in BOOLEAN
      BY <2>13 DEF AdrStep, UnJoined, TypeOK, Stage
    <3>3. QED
      BY <2>13, <3>1, <3>2 DEF AdrStep, TypeOK
  <2>14. CASE PendingAdr \/ ExecuteAdr
    BY <2>13, <2>14 DEF PendingAdr, ExecuteAdr
  <2>15. CASE RepeatAcked
    BY <2>15, DeviceAssumption DEF RepeatAcked, ReturnFromExecute, TypeOK, Stage, Mode
  <2>16. CASE RepeatUnacked
    BY <2>16, DecrementTyped, DeviceAssumption
       DEF RepeatUnacked, Repeats, ReturnFromExecute, TypeOK, Stage, Mode, DeviceRates
  <2>17. CASE RepeatExhausted
    BY <2>17, DeviceAssumption
       DEF RepeatExhausted, UnJoined, ReturnFromExecute, TypeOK, Stage, Mode
  <2>18. CASE RepeatUnconfirmed
    BY <2>18 DEF RepeatUnconfirmed, ReturnFromExecute, TypeOK, Stage, Mode
  <2>19. QED
    BY <1>4, <2>1, <2>4, <2>7, <2>8, <2>9, <2>10, <2>11, <2>12, <2>14, <2>15, <2>16, <2>17,
       <2>18 DEF RunStep
<1>5. CASE UNCHANGED vars
  BY <1>5 DEF vars, TypeOK
<1>6. QED
  BY <1>1, <1>2, <1>3, <1>4, <1>5 DEF Next
--------------------------------------------------------------------------------
\* The actions, one by one.
LEMMA NextCases ==
  ASSUME [Next]_vars
  PROVE  \/ TurnON \/ TurnOFF \/ Tick \/ ReceiveExit \/ OtaaLoop \/ JoinAccepted
         \/ JoinFails \/ Retransmit \/ CreateUplink \/ WindowsEmpty \/ WindowsReject
         \/ WindowsAccept \/ WindowsJoinAccept \/ WindowsOther \/ PendingStart
         \/ PendingNext \/ PendingDone \/ PendingStops \/ PendingBringsNone
         \/ PendingAccept \/ PendingJoinAccept \/ PendingAdr \/ ExecuteAdr
         \/ RepeatAcked \/ RepeatUnacked \/ RepeatExhausted \/ RepeatUnconfirmed
         \/ ServerSends \/ NetworkDrops
         \/ \E t \in {Confirmed, Unconfirmed} : NewUplink(t) \/ ChangePayload(t)
         \/ UNCHANGED vars
BY DEF Next, RunStep, WindowsReturn, HandlerStep, ServerStep

--------------------------------------------------------------------------------
(* The modes of an uplink. *)

\* Whatever happens between two uplinks, Execute is entered in a mode it can
\* make a payload in, unless the device was turned off.
LEMMA ModeStep ==
  ASSUME TypeOK, ModeInv, [Next]_vars
  PROVE  ModeInv'
<1> USE DEF ModeInv, Sendable, controlVars, statusVars
<1>1. CASE UNCHANGED <<state, pc, mode, joined>>
  BY <1>1
<1>2. CASE TurnON
  BY <1>2 DEF TurnON
<1>3. CASE TurnOFF
  BY <1>3 DEF TurnOFF
<1>4. CASE Tick
  BY <1>4 DEF Tick
<1>5. CASE ReceiveExit
  BY <1>5 DEF ReceiveExit
<1>6. CASE OtaaLoop
  BY <1>6 DEF OtaaLoop, ReturnFromOtaa, TypeOK
<1>7. CASE JoinAccepted
  BY <1>7 DEF JoinAccepted, ReturnFromOtaa, TypeOK
<1>8. CASE JoinFails
  BY <1>8 DEF JoinFails
<1>9. CASE Retransmit
  BY <1>9 DEF Retransmit
<1>10. CASE CreateUplink
  BY <1>10 DEF CreateUplink
<1>11. CASE WindowsEmpty
  BY <1>11 DEF WindowsEmpty
<1>12. CASE WindowsReject
  BY <1>12 DEF WindowsReject
<1>13. CASE WindowsAccept
  BY <1>13 DEF WindowsAccept, AfterDownlink
<1>14. CASE WindowsJoinAccept
  BY <1>14 DEF WindowsJoinAccept, AfterDownlink
<1>15. CASE WindowsOther
  BY <1>15 DEF WindowsOther
<1>16. CASE PendingStart
  BY <1>16 DEF PendingStart
<1>17. CASE PendingNext
  BY <1>17 DEF PendingNext
<1>18. CASE PendingDone
  BY <1>18 DEF PendingDone, ReturnFromPending
<1>19. CASE PendingStops
  BY <1>19 DEF PendingStops, ReturnFromPending
<1>20. CASE PendingBringsNone
  BY <1>20 DEF PendingBringsNone
<1>21. CASE PendingAccept
  BY <1>21 DEF PendingAccept
<1>22. CASE PendingJoinAccept
  BY <1>22 DEF PendingJoinAccept
<1>23. CASE PendingAdr
  BY <1>23 DEF PendingAdr, AdrStep, UnJoined
<1>24. CASE ExecuteAdr
  BY <1>24 DEF ExecuteAdr, AdrStep, UnJoined
<1>25. CASE RepeatAcked
  BY <1>25 DEF RepeatAcked, ReturnFromExecute
<1>26. CASE RepeatUnacked
  BY <1>26 DEF RepeatUnacked, ReturnFromExecute
<1>27. CASE RepeatExhausted
  BY <1>27 DEF RepeatExhausted, ReturnFromExecute, UnJoined
<1>28. CASE RepeatUnconfirmed
  BY <1>28 DEF RepeatUnconfirmed, ReturnFromExecute
<1>29. CASE ServerSends
  BY <1>29 DEF ServerSends
<1>30. CASE NetworkDrops
  BY <1>30 DEF NetworkDrops
<1>31. CASE \E t \in {Confirmed, Unconfirmed} : NewUplink(t) \/ ChangePayload(t)
  BY <1>31, <1>1 DEF NewUplink, ChangePayload
<1>32. CASE UNCHANGED vars
  BY <1>32, <1>1 DEF vars
<1>33. QED
  BY NextCases, <1>2, <1>3, <1>4, <1>5, <1>6, <1>7, <1>8, <1>9, <1>10, <1>11, <1>12, <1>13,
     <1>14, <1>15, <1>16, <1>17, <1>18, <1>19, <1>20, <1>21, <1>22, <1>23, <1>24, <1>25, <1>26,
     <1>27, <1>28, <1>29, <1>30, <1>31, <1>32

--------------------------------------------------------------------------------
(* A device without OTAA stays joined. *)

\* Neither UnJoined nor a join accept takes the session of an ABP device.
LEMMA JoinedStep ==
  ASSUME TypeOK, AbpNeverUnjoined, [Next]_vars
  PROVE  AbpNeverUnjoined'
<1> USE DEF AbpNeverUnjoined, controlVars, statusVars
<1>1. CASE UNCHANGED <<pc, joined>>
  BY <1>1
<1>2. CASE TurnON
  BY <1>2 DEF TurnON
<1>3. CASE TurnOFF
  BY <1>3 DEF TurnOFF
<1>4. CASE Tick
  BY <1>4 DEF Tick
<1>5. CASE ReceiveExit
  BY <1>5 DEF ReceiveExit
<1>6. CASE OtaaLoop
  BY <1>6 DEF OtaaLoop
<1>7. CASE JoinAccepted
  BY <1>7 DEF JoinAccepted, HearsJoinAccept, AcceptsLateJoin
<1>8. CASE JoinFails
  BY <1>8 DEF JoinFails
<1>9. CASE Retransmit
  BY <1>9 DEF Retransmit
<1>10. CASE CreateUplink
  BY <1>10 DEF CreateUplink
<1>11. CASE WindowsEmpty
  BY <1>11 DEF WindowsEmpty
<1>12. CASE WindowsReject
  BY <1>12 DEF WindowsReject
<1>13. CASE WindowsAccept
  BY <1>13 DEF WindowsAccept
<1>14. CASE WindowsJoinAccept
  BY <1>14 DEF WindowsJoinAccept, AcceptsLateJoin
<1>15. CASE WindowsOther
  BY <1>15 DEF WindowsOther
<1>16. CASE PendingStart
  BY <1>16 DEF PendingStart
<1>17. CASE PendingNext
  BY <1>17 DEF PendingNext
<1>18. CASE PendingDone
  BY <1>18 DEF PendingDone
<1>19. CASE PendingStops
  BY <1>19 DEF PendingStops
<1>20. CASE PendingBringsNone
  BY <1>20 DEF PendingBringsNone
<1>21. CASE PendingAccept
  BY <1>21 DEF PendingAccept
<1>22. CASE PendingJoinAccept
  BY <1>22 DEF PendingJoinAccept, AcceptsLateJoin
<1>23. CASE PendingAdr
  BY <1>23 DEF PendingAdr, AdrStep, UnJoined
<1>24. CASE ExecuteAdr
  BY <1>24 DEF ExecuteAdr, AdrStep, UnJoined
<1>25. CASE RepeatAcked
  BY <1>25 DEF RepeatAcked
<1>26. CASE RepeatUnacked
  BY <1>26 DEF RepeatUnacked
<1>27. CASE RepeatExhausted
  BY <1>27 DEF RepeatExhausted, UnJoined
<1>28. CASE RepeatUnconfirmed
  BY <1>28 DEF RepeatUnconfirmed
<1>29. CASE ServerSends
  BY <1>29 DEF ServerSends
<1>30. CASE NetworkDrops
  BY <1>30 DEF NetworkDrops
<1>31. CASE \E t \in {Confirmed, Unconfirmed} : NewUplink(t) \/ ChangePayload(t)
  BY <1>31, <1>1 DEF NewUplink, ChangePayload
<1>32. CASE UNCHANGED vars
  BY <1>32, <1>1 DEF vars
<1>33. QED
  BY NextCases, <1>2, <1>3, <1>4, <1>5, <1>6, <1>7, <1>8, <1>9, <1>10, <1>11, <1>12, <1>13,
     <1>14, <1>15, <1>16, <1>17, <1>18, <1>19, <1>20, <1>21, <1>22, <1>23, <1>24, <1>25, <1>26,
     <1>27, <1>28, <1>29, <1>30, <1>31, <1>32

--------------------------------------------------------------------------------
(* How often an uplink is sent. *)

\* The repetition counters keep step with the transmissions.
LEMMA TriesStep ==
  ASSUME TypeOK, TriesInv, [Next]_vars
  PROVE  TriesInv'
<1> USE DEF TriesInv, AtHome, InExecute, Confirmed, Unconfirmed, NoMType,
            controlVars, statusVars, repVars, historyVars
<1>1. CASE UNCHANGED <<pc, caller, mode, lastMType, cntC, cntU, tries>>
  BY <1>1
<1>2. CASE TurnON
  BY <1>2, DeviceAssumption DEF TurnON, TypeOK
<1>3. CASE TurnOFF
  BY <1>3 DEF TurnOFF
<1>4. CASE Tick
  BY <1>4 DEF Tick
<1>5. CASE ReceiveExit
  BY <1>5 DEF ReceiveExit
<1>6. CASE OtaaLoop
  BY <1>6 DEF OtaaLoop, ReturnFromOtaa, TypeOK
<1>7. CASE JoinAccepted
  BY <1>7 DEF JoinAccepted, ReturnFromOtaa, TypeOK
<1>8. CASE JoinFails
  BY <1>8 DEF JoinFails
<1>9. CASE Retransmit
  BY <1>9, DeviceAssumption DEF Retransmit, TypeOK
<1>10. CASE CreateUplink
  BY <1>10, DeviceAssumption DEF CreateUplink, TypeOK
<1>11. CASE WindowsEmpty
  BY <1>11 DEF WindowsEmpty
<1>12. CASE WindowsReject
  BY <1>12, DeviceAssumption DEF WindowsReject, TypeOK
<1>13. CASE WindowsAccept
  BY <1>13 DEF WindowsAccept, AfterDownlink
<1>14. CASE WindowsJoinAccept
  BY <1>14 DEF WindowsJoinAccept, AfterDownlink
<1>15. CASE WindowsOther
  BY <1>15 DEF WindowsOther
<1>16. CASE PendingStart
  BY <1>16 DEF PendingStart
<1>17. CASE PendingNext
  BY <1>17 DEF PendingNext
<1>18. CASE PendingDone
  BY <1>18 DEF PendingDone, ReturnFromPending
<1>19. CASE PendingStops
  BY <1>19 DEF PendingStops, ReturnFromPending
<1>20. CASE PendingBringsNone
  BY <1>20 DEF PendingBringsNone
<1>21. CASE PendingAccept
  BY <1>21 DEF PendingAccept
<1>22. CASE PendingJoinAccept
  BY <1>22 DEF PendingJoinAccept
<1>23. CASE PendingAdr
  BY <1>23 DEF PendingAdr, AdrStep
<1>24. CASE ExecuteAdr
  BY <1>24 DEF ExecuteAdr, AdrStep
<1>25. CASE RepeatAcked
  BY <1>25, DeviceAssumption DEF RepeatAcked, ReturnFromExecute, TypeOK
<1>26. CASE RepeatUnacked
  BY <1>26, DeviceAssumption DEF RepeatUnacked, ReturnFromExecute, Repeats, TypeOK
<1>27. CASE RepeatExhausted
  BY <1>27, DeviceAssumption DEF RepeatExhausted, ReturnFromExecute, TypeOK
<1>28. CASE RepeatUnconfirmed
  BY <1>28, DeviceAssumption DEF RepeatUnconfirmed, ReturnFromExecute, TypeOK
<1>29. CASE ServerSends
  BY <1>29 DEF ServerSends
<1>30. CASE NetworkDrops
  BY <1>30 DEF NetworkDrops
<1>31. CASE \E t \in {Confirmed, Unconfirmed} : NewUplink(t) \/ ChangePayload(t)
  BY <1>31, <1>1 DEF NewUplink, ChangePayload
<1>32. CASE UNCHANGED vars
  BY <1>32, <1>1 DEF vars
<1>33. QED
  BY NextCases, <1>2, <1>3, <1>4, <1>5, <1>6, <1>7, <1>8, <1>9, <1>10, <1>11, <1>12, <1>13,
     <1>14, <1>15, <1>16, <1>17, <1>18, <1>19, <1>20, <1>21, <1>22, <1>23, <1>24, <1>25, <1>26,
     <1>27, <1>28, <1>29, <1>30, <1>31, <1>32

--------------------------------------------------------------------------------
(* An acknowledged uplink is not repeated. *)

\* A downlink is not the nil one.
LEMMA DownlinkIsSome ==
  ASSUME NEW d \in Downlink
  PROVE  d # NoDown
BY DEF Downlink, NoDown

\* Until Execute decides about the repetition, nothing it calls forgets the
\* acknowledgement.
LEMMA AckStep ==
  ASSUME TypeOK, AckInv, [Next]_vars
  PROVE  AckInv'
<1> USE DEF AckInv, AtHome, InExecute, Answered, Confirmed, Unconfirmed, NoMType,
            controlVars, statusVars, localVars, historyVars
<1>1. CASE UNCHANGED <<pc, caller, mode, lastMType, down, acked>>
  BY <1>1
<1>2. CASE TurnON
  BY <1>2 DEF TurnON
<1>3. CASE TurnOFF
  BY <1>3 DEF TurnOFF
<1>4. CASE Tick
  BY <1>4 DEF Tick
<1>5. CASE ReceiveExit
  BY <1>5 DEF ReceiveExit
<1>6. CASE OtaaLoop
  BY <1>6 DEF OtaaLoop, ReturnFromOtaa, TypeOK
<1>7. CASE JoinAccepted
  BY <1>7 DEF JoinAccepted, ReturnFromOtaa, TypeOK
<1>8. CASE JoinFails
  BY <1>8 DEF JoinFails
<1>9. CASE Retransmit
  BY <1>9 DEF Retransmit
<1>10. CASE CreateUplink
  BY <1>10 DEF CreateUplink
<1>11. CASE WindowsEmpty
  BY <1>11 DEF WindowsEmpty
<1>12. CASE WindowsReject
  BY <1>12 DEF WindowsReject
<1>13. CASE WindowsAccept
  BY <1>13, DownlinkIsSome DEF WindowsAccept, AfterDownlink, TypeOK
<1>14. CASE WindowsJoinAccept
  BY <1>14 DEF WindowsJoinAccept, AfterDownlink
<1>15. CASE WindowsOther
  BY <1>15 DEF WindowsOther
<1>16. CASE PendingStart
  BY <1>16 DEF PendingStart
<1>17. CASE PendingNext
  BY <1>17 DEF PendingNext
<1>18. CASE PendingDone
  BY <1>18 DEF PendingDone, ReturnFromPending
<1>19. CASE PendingStops
  BY <1>19 DEF PendingStops, ReturnFromPending
<1>20. CASE PendingBringsNone
  BY <1>20 DEF PendingBringsNone
<1>21. CASE PendingAccept
  BY <1>21 DEF PendingAccept
<1>22. CASE PendingJoinAccept
  BY <1>22 DEF PendingJoinAccept
<1>23. CASE PendingAdr
  BY <1>23 DEF PendingAdr, AdrStep
<1>24. CASE ExecuteAdr
  BY <1>24 DEF ExecuteAdr, AdrStep
<1>25. CASE RepeatAcked
  BY <1>25 DEF RepeatAcked, ReturnFromExecute
<1>26. CASE RepeatUnacked
  BY <1>26 DEF RepeatUnacked, ReturnFromExecute
<1>27. CASE RepeatExhausted
  BY <1>27 DEF RepeatExhausted, ReturnFromExecute
<1>28. CASE RepeatUnconfirmed
  BY <1>28 DEF RepeatUnconfirmed, ReturnFromExecute
<1>29. CASE ServerSends
  BY <1>29 DEF ServerSends
<1>30. CASE NetworkDrops
  BY <1>30 DEF NetworkDrops
<1>31. CASE \E t \in {Confirmed, Unconfirmed} : NewUplink(t) \/ ChangePayload(t)
  BY <1>31, <1>1 DEF NewUplink, ChangePayload
<1>32. CASE UNCHANGED vars
  BY <1>32, <1>1 DEF vars
<1>33. QED
  BY NextCases, <1>2, <1>3, <1>4, <1>5, <1>6, <1>7, <1>8, <1>9, <1>10, <1>11, <1>12, <1>13,
     <1>14, <1>15, <1>16, <1>17, <1>18, <1>19, <1>20, <1>21, <1>22, <1>23, <1>24, <1>25, <1>26,
     <1>27, <1>28, <1>29, <1>30, <1>31, <1>32

--------------------------------------------------------------------------------
(* The counters of the downlinks accepted. *)

\* What counts FCntDown leaves the accepted counters below it.
LEMMA CountedFurther ==
  ASSUME TypeOK, NoReplay, AcceptsData \/ CountsOther
  PROVE  NoReplay'
<1> USE DeviceAssumption DEF TypeOK, NoReplay
<1>1. ASSUME NEW c \in (0 .. MaxDown - 1) \cup {-1}, CountDown(c),
             c # -1 => Accepts(c)
      PROVE  NoReplay'
  BY <1>1, CountDownValue DEF CountDown, Accepts
<1>2. QED
  BY <1>1 DEF AcceptsData, CountsOther

\* New keys make every counter new.
LEMMA KeysForget ==
  ASSUME TypeOK, NEW same \in BOOLEAN, NewKeys(same), UNCHANGED fcntDown
  PROVE  NoReplay'
BY DeviceAssumption DEF TypeOK, NewKeys, NoReplay

\* Every step leaves the accepted counters below the one expected.
LEMMA ReplayStep ==
  ASSUME TypeOK, NoReplay, [Next]_vars
  PROVE  NoReplay'
<1> USE DEF NoReplay, serverVars
<1>1. CASE UNCHANGED <<fcntDown, heard>>
  BY <1>1
<1>2. CASE TurnON
  BY <1>2 DEF TurnON
<1>3. CASE TurnOFF
  BY <1>3 DEF TurnOFF
<1>4. CASE Tick
  BY <1>4 DEF Tick
<1>5. CASE ReceiveExit
  BY <1>5 DEF ReceiveExit
<1>6. CASE OtaaLoop
  BY <1>6 DEF OtaaLoop
<1>7. CASE JoinAccepted
  BY <1>7, KeysForget DEF JoinAccepted, HearsJoinAccept, AcceptsLateJoin
<1>8. CASE JoinFails
  BY <1>8, CountedFurther, KeysForget DEF JoinFails, HearsNothing
<1>9. CASE Retransmit
  BY <1>9 DEF Retransmit
<1>10. CASE CreateUplink
  BY <1>10 DEF CreateUplink
<1>11. CASE WindowsEmpty
  BY <1>11 DEF WindowsEmpty, HearsNothing
<1>12. CASE WindowsReject
  BY <1>12 DEF WindowsReject, RejectsData
<1>13. CASE WindowsAccept
  BY <1>13, CountedFurther DEF WindowsAccept
<1>14. CASE WindowsJoinAccept
  BY <1>14, KeysForget DEF WindowsJoinAccept, AcceptsLateJoin
<1>15. CASE WindowsOther
  BY <1>15, CountedFurther DEF WindowsOther
<1>16. CASE PendingStart
  BY <1>16 DEF PendingStart
<1>17. CASE PendingNext
  BY <1>17 DEF PendingNext
<1>18. CASE PendingDone
  BY <1>18 DEF PendingDone
<1>19. CASE PendingStops
  BY <1>19 DEF PendingStops
<1>20. CASE PendingBringsNone
  BY <1>20, CountedFurther DEF PendingBringsNone, HearsNothing, RejectsData
<1>21. CASE PendingAccept
  BY <1>21, CountedFurther DEF PendingAccept
<1>22. CASE PendingJoinAccept
  BY <1>22, KeysForget DEF PendingJoinAccept, AcceptsLateJoin
<1>23. CASE PendingAdr
  BY <1>23 DEF PendingAdr, AdrStep
<1>24. CASE ExecuteAdr
  BY <1>24 DEF ExecuteAdr, AdrStep
<1>25. CASE RepeatAcked
  BY <1>25 DEF RepeatAcked
<1>26. CASE RepeatUnacked
  BY <1>26 DEF RepeatUnacked
<1>27. CASE RepeatExhausted
  BY <1>27 DEF RepeatExhausted
<1>28. CASE RepeatUnconfirmed
  BY <1>28 DEF RepeatUnconfirmed
<1>29. CASE ServerSends
  BY <1>29 DEF ServerSends
<1>30. CASE NetworkDrops
  BY <1>30 DEF NetworkDrops
<1>31. CASE \E t \in {Confirmed, Unconfirmed} : NewUplink(t) \/ ChangePayload(t)
  BY <1>31, <1>1 DEF NewUplink, ChangePayload
<1>32. CASE UNCHANGED vars
  BY <1>32, <1>1 DEF vars
<1>33. QED
  BY NextCases, <1>2, <1>3, <1>4, <1>5, <1>6, <1>7, <1>8, <1>9, <1>10, <1>11, <1>12, <1>13,
     <1>14, <1>15, <1>16, <1>17, <1>18, <1>19, <1>20, <1>21, <1>22, <1>23, <1>24, <1>25, <1>26,
     <1>27, <1>28, <1>29, <1>30, <1>31, <1>32
--------------------------------------------------------------------------------
(* The theorems. *)

\* A device that was never run satisfies the invariant.
LEMMA DeviceInit == Init => DeviceInv
<1> SUFFICES ASSUME Init PROVE DeviceInv
  OBVIOUS
<1>1. ModeInv /\ AckInv /\ AbpNeverUnjoined
  BY DEF Init, ModeInv, AckInv, AbpNeverUnjoined, AtHome, InExecute, NoMType, Confirmed
<1>2. TriesInv
  BY DEF Init, TriesInv, AtHome, InExecute, NoMType, Confirmed, Unconfirmed
<1>3. NoReplay
  BY DEF Init, NoReplay
<1>4. QED
  BY <1>1, <1>2, <1>3, TypeInit DEF DeviceInv

\* The invariant is inductive.
LEMMA DeviceStep == DeviceInv /\ [Next]_vars => DeviceInv'
<1> SUFFICES ASSUME DeviceInv, [Next]_vars PROVE DeviceInv'
  OBVIOUS
<1>1. TypeOK /\ (pc = "windows" => tries > 0)
  BY DEF DeviceInv, TriesInv
<1>2. QED
  BY <1>1, TypeStep, ModeStep, TriesStep, AckStep, ReplayStep, JoinedStep DEF DeviceInv

\* DeviceInv holds in every reachable state.
THEOREM DeviceInvariant == Spec => []DeviceInv
BY DeviceInit, DeviceStep, PTL DEF Spec

\* Every variable keeps to its type: in particular the counters of Execute to
\* their limits, ADRACKCnt to the range of an int8, and the data rate to the
\* rates of the region and the one value outside them, 255, that a LinkADRReq
\* acknowledged in error leaves (DecrementDataRate computes in uint8 too).
THEOREM DeviceTypeCorrect == Spec => []TypeOK
<1>1. DeviceInv => TypeOK
  BY DEF DeviceInv
<1>2. QED
  BY <1>1, DeviceInvariant, PTL

\* CreateUplink never goes on with a nil payload.
THEOREM PayloadsExist == Spec => []UplinkModes
<1>1. DeviceInv => UplinkModes
  BY DEF DeviceInv, ModeInv, Sendable, UplinkModes
<1>2. QED
  BY <1>1, DeviceInvariant, PTL

\* However downlinks, restarts and joins interleave with Execute, an uplink has
\* at most one transmission more than its repetitions among those whose windows
\* end in silence or in an accepted downlink.  Of those that bring a downlink in
\* error Execute counts none, and this bounds none.
THEOREM RepetitionsStayBounded == Spec => []RepetitionsBounded
<1>1. DeviceInv => RepetitionsBounded
  BY DEF DeviceInv, TriesInv, RepetitionsBounded
<1>2. QED
  BY <1>1, DeviceInvariant, PTL

\* An uplink whose acknowledgement Execute accepted is not sent again.
THEOREM AckedIsNotRepeated == Spec => []AckStopsRepetition
<1>1. DeviceInv => AckStopsRepetition
  BY DEF DeviceInv, AckInv, AtHome, AckStopsRepetition
<1>2. QED
  BY <1>1, DeviceInvariant, PTL

\* An ABP device that runs is joined.
THEOREM AbpStaysJoined == Spec => []AbpNeverUnjoined
<1>1. DeviceInv => AbpNeverUnjoined
  BY DEF DeviceInv
<1>2. QED
  BY <1>1, DeviceInvariant, PTL

\* No downlink is accepted twice in a session before FCntDown wraps.
THEOREM NothingAcceptedTwice == Spec => []NoReplay
<1>1. DeviceInv => NoReplay
  BY DEF DeviceInv
<1>2. QED
  BY <1>1, DeviceInvariant, PTL
================================================================================
