--------------------------- MODULE AdrBackoff_proofs ---------------------------
(* Theorems about AdrBackoff, for any data rates of a region, any way to cut   *)
(* uplinks and any length of silence.                                          *)
EXTENDS AdrBackoff, TLAPS

\* The counter is the silence, modulo the width of an int8.
CntInv == cnt = ((silent + 128) % 256) - 128

BackoffInv == TypeOK /\ CntInv /\ RequestAfterSilence

\* An int8 of at least a limit within its range stands for at least as many
\* frames.
LEMMA CountedIsSilent ==
  ASSUME NEW s \in Nat, NEW c \in Int, c = ((s + 128) % 256) - 128
  PROVE  c \in -128 .. 127 /\ c <= s
OBVIOUS

\* DecrementDataRate comes to a rate of the region, from none as well.
LEMMA DecrementTyped ==
  ASSUME NEW rate \in DeviceRates
  PROVE  DecrementDataRate(rate) \in DataRates
<1>1. (MinDR - 1) % 256 = IF MinDR = 0 THEN 255 ELSE MinDR - 1
  BY AdrAssumption
<1>2. QED
  BY <1>1, AdrAssumption DEF DecrementDataRate, DataRates, DeviceRates, NoRate

\* The only multiple of 32 above 64 in an int8 is 96.
LEMMA OneBackOffCount ==
  ASSUME NEW c \in AdrCounts, BacksOff(c)
  PROVE  c = 96
BY Int8Counter DEF AdrCounts, BacksOff

\* The rate ADRProcedure answers is the old one or, above the lowest, the next.
LEMMA RateAnswered ==
  ASSUME Outcome.code = NoneError
  PROVE  Outcome.dr = dr \/ (Outcome.dr = DecrementDataRate(dr) /\ dr > MinDR)
BY DEF Outcome, ADRProcedure, NoneError, FlagReqSet, CodeUnjoined

\* Where ADRProcedure takes something away, the counter stands at 96.
LEMMA BacksOffAt96 ==
  ASSUME TypeOK, LowersRate \/ GiveUp
  PROVE  cnt = 96
<1>1. BacksOff(cnt)
  <2>1. CASE LowersRate
    BY <2>1, AdrAssumption
       DEF LowersRate, SetDataRate, Outcome, ADRProcedure, NoneError, FlagReqSet, CodeUnjoined,
           TypeOK, DataRates, DeviceRates, NoRate
  <2>2. CASE GiveUp
    BY <2>2 DEF GiveUp, Outcome, ADRProcedure, NoneError, FlagReqSet, CodeUnjoined
  <2>3. QED
    BY <2>1, <2>2
<1>2. QED
  BY <1>1, OneBackOffCount DEF TypeOK

\* CountUp in an int8.
LEMMA CountUpValue ==
  ASSUME NEW c \in Int, NEW n \in Nat
  PROVE  CountUp(c, n) = ((c + n + 128) % 256) - 128
<1>1. 2 * CntHalf = 256 /\ CntHalf = 128
  BY Int8Counter
<1>2. QED
  BY <1>1 DEF CountUp

\* Counting goes on where it was.
LEMMA CountsSilence ==
  ASSUME NEW s \in Nat, NEW n \in Nat
  PROVE  ((((s + 128) % 256) - 128) + n + 128) % 256 = (s + n + 128) % 256
OBVIOUS

\* The invariant holds after Setup.
LEMMA BackoffInit == Init => BackoffInv
<1> SUFFICES ASSUME Init PROVE BackoffInv
  OBVIOUS
<1>1. (0 + 128) % 256 = 128
  OBVIOUS
<1>2. cnt \in AdrCounts /\ silent \in 0 .. MaxSilence
  BY Int8Counter, BackoffAssumption DEF Init, AdrCounts
<1>3. TypeOK
  BY <1>2 DEF Init, TypeOK, DeviceRates
<1>4. CntInv
  BY <1>1 DEF Init, CntInv
<1>5. RequestAfterSilence
  BY DEF Init, RequestAfterSilence
<1>6. QED
  BY <1>3, <1>4, <1>5 DEF BackoffInv

\* Reset leaves the invariant to the data rate and the configuration.
LEMMA ResetInv ==
  ASSUME Reset, dr' \in DeviceRates, supported' \in BOOLEAN, otaa' \in BOOLEAN
  PROVE  BackoffInv'
<1>1. (0 + 128) % 256 = 128
  OBVIOUS
<1>2. 0 \in AdrCounts /\ 0 \in 0 .. MaxSilence
  BY Int8Counter, BackoffAssumption DEF AdrCounts
<1>3. TypeOK'
  BY <1>2 DEF Reset, TypeOK
<1>4. CntInv'
  <2>1. cnt' = 0 /\ silent' = 0
    BY DEF Reset
  <2>2. silent' + 128 = 0 + 128
    BY <2>1
  <2>3. cnt' = ((silent' + 128) % 256) - 128
    BY <1>1, <2>1, <2>2
  <2>4. QED
    BY <2>3 DEF CntInv
<1>5. RequestAfterSilence'
  BY DEF Reset, RequestAfterSilence
<1>6. QED
  BY <1>3, <1>4, <1>5 DEF BackoffInv

\* The invariant is inductive.
LEMMA BackoffStep == BackoffInv /\ [Next]_vars => BackoffInv'
<1> SUFFICES ASSUME BackoffInv, [Next]_vars PROVE BackoffInv'
  OBVIOUS
<1> USE Int8Counter, BackoffAssumption
    DEF BackoffInv, TypeOK, CntInv, RequestAfterSilence, configVars, AdrCounts
<1>1. ASSUME NEW n \in Fragments, SendFrames(n) PROVE BackoffInv'
  <2>1. n \in Nat /\ silent \in Nat /\ cnt \in Int
    OBVIOUS
  <2>2. cnt' = ((silent + n + 128) % 256) - 128
    BY <1>1, <2>1, CountUpValue, CountsSilence DEF SendFrames
  <2>3. silent' = silent + n /\ silent' \in 0 .. MaxSilence
    BY <1>1, <2>1 DEF SendFrames
  <2>4. cnt' \in AdrCounts
    BY <2>1, <2>2
  <2>5. UNCHANGED <<supported, otaa, dr, req>>
    BY <1>1 DEF SendFrames
  <2>6. QED
    BY <2>1, <2>2, <2>3, <2>4, <2>5
<1>2. CASE HearDownlink
  BY <1>2, ResetInv DEF HearDownlink
<1>3. CASE AskForDownlink
  <2>1. cnt \in {64, 96}
    BY <1>3 DEF AskForDownlink, Outcome, ADRProcedure, AsksForDownlink, BacksOff, NoneError,
                FlagReqSet, CodeUnjoined
  <2>2. silent >= 64
    BY <2>1, CountedIsSilent
  <2>3. QED
    BY <1>3, <2>2 DEF AskForDownlink
<1>4. CASE SetDataRate
  <2>1. Outcome.dr \in DeviceRates
    BY <1>4, DecrementTyped, RateAnswered DEF SetDataRate, DeviceRates
  <2>2. QED
    BY <1>4, <2>1 DEF SetDataRate
<1>5. CASE GiveUp
  <2>1. CASE otaa
    BY <1>5, <2>1, ResetInv DEF GiveUp
  <2>2. CASE ~otaa
    BY <1>5, <2>2 DEF GiveUp
  <2>3. QED
    BY <2>1, <2>2
<1>6. CASE RepeatConfirmed
  BY <1>6, DecrementTyped DEF RepeatConfirmed, DeviceRates
<1>7. CASE UNCHANGED vars
  BY <1>7 DEF vars
<1>8. QED
  BY <1>1, <1>2, <1>3, <1>4, <1>5, <1>6, <1>7 DEF Next

\* The counter is always the silence modulo 256, so what the properties say of
\* the one holds of the other.
THEOREM BackoffInvariant == Spec => []BackoffInv
BY BackoffInit, BackoffStep, PTL DEF Spec

\* ADRACKReq is set only after ADRACKLIMIT frames without an answer.
THEOREM RequestsAreDue == Spec => []RequestAfterSilence
<1>1. BackoffInv => RequestAfterSilence
  BY DEF BackoffInv
<1>2. QED
  BY <1>1, BackoffInvariant, PTL

\* A data rate or a session is taken only after ADRACKLIMIT + ADRACKDELAY
\* frames without an answer.
THEOREM BackOffIsDue == Spec => SilenceBeforeBackOff
<1>1. BackoffInv /\ [Next]_vars => [LowersRate \/ GiveUp => silent >= ADRACKLIMIT + ADRACKDELAY]_vars
  <2> SUFFICES ASSUME BackoffInv, LowersRate \/ GiveUp
               PROVE  silent >= ADRACKLIMIT + ADRACKDELAY
    OBVIOUS
  <2>1. cnt = 96
    BY BacksOffAt96 DEF BackoffInv
  <2>2. QED
    BY <2>1, CountedIsSilent, Int8Counter DEF BackoffInv, TypeOK, CntInv
<1>2. QED
  BY <1>1, BackoffInvariant, PTL DEF Spec, SilenceBeforeBackOff

\* With ADR, the procedure never lowers the data rate.
THEOREM AdrSparesRate == Spec => AdrNeverLowersRate
<1>1. BackoffInv /\ [Next]_vars => [LowersRate => ~supported]_vars
  <2> SUFFICES ASSUME BackoffInv, LowersRate, supported
               PROVE  FALSE
    OBVIOUS
  <2>1. cnt = 96 /\ dr > MinDR
    <3>1. cnt = 96 /\ dr \in DeviceRates /\ dr' < dr
      BY BacksOffAt96 DEF BackoffInv, TypeOK, LowersRate
    <3>2. dr' = Outcome.dr /\ Outcome.code = NoneError
      BY DEF LowersRate, SetDataRate
    <3>3. dr > MinDR
      BY <3>1, <3>2, RateAnswered, AdrAssumption DEF DataRates, DeviceRates, NoRate
    <3>4. QED
      BY <3>1, <3>3
  <2>2. Outcome.code = FlagReqSet
    BY <2>1, Int8Counter DEF Outcome, ADRProcedure, AsksForDownlink
  <2>3. QED
    BY <2>2 DEF LowersRate, SetDataRate, NoneError, FlagReqSet
<1>2. QED
  BY <1>1, BackoffInvariant, PTL DEF Spec, AdrNeverLowersRate

================================================================================
