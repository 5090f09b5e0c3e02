---------------------------------- MODULE Adr ----------------------------------
(***************************************************************************)
(* The ADR back-off of a device (features/adr/adr.go) and the data rates   *)
(* of its region it works with, as operators.  The counter is an int8 in   *)
(* the code; its limit, its period and its width are parameters here.      *)
(***************************************************************************)
EXTENDS Integers

CONSTANTS
  ADRACKLIMIT,  \* 64: uplinks without a downlink before the device asks for one
  ADRACKDELAY,  \* 32: the period of the back-off after that
  CntHalf,      \* 128: the counter wraps at CntHalf to -CntHalf
  MinDR, MaxDR  \* the region's data rates

ASSUME AdrAssumption ==
  /\ ADRACKLIMIT \in Nat /\ ADRACKDELAY \in Nat \ {0} /\ CntHalf \in Nat \ {0}
  /\ MinDR \in 0 .. 254 /\ MaxDR \in MinDR .. 254

DataRates == MinDR .. MaxDR
NoRate == 255   \* uint8(-1), what a LinkADRReq may leave; no region has it
DeviceRates == DataRates \cup {NoRate}
AdrCounts == (-CntHalf) .. (CntHalf - 1)

\* Mutant of CountUp: the counter does not wrap.
MutantCountUpWide(cnt, n) == cnt + n

\* ADRACKCnt after n more frames.
CountUp(cnt, n) == ((cnt + n + CntHalf) % (2 * CntHalf)) - CntHalf

\* GetMinDataRate() - 1 is computed in uint8: with a minimum of 0 it is 255,
\* the loop never runs and every rate falls to the minimum at once.  A rate the
\* region does not have falls there too.
DecrementDataRate(dr) ==
  IF dr \in DataRates /\ dr - 1 > (MinDR - 1) % 256 THEN dr - 1 ELSE MinDR

\* The codes ADRProcedure answers with.
NoneError  == "CodeNoneError"
FlagReqSet == "CodeADRFlagReqSet"
CodeUnjoined == "CodeUnjoined"

AsksForDownlink(cnt, dr, supported) ==
  cnt \in {ADRACKLIMIT, ADRACKLIMIT + ADRACKDELAY} /\ dr > MinDR /\ supported

\* Mutant of BacksOff: the back-off starts one period early.
MutantBacksOffAtLimit(cnt) == cnt % ADRACKDELAY = 0 /\ cnt >= ADRACKLIMIT

BacksOff(cnt) == cnt % ADRACKDELAY = 0 /\ cnt > ADRACKLIMIT

\* The code and the data rate ADRProcedure answers.
ADRProcedure(cnt, dr, supported) ==
  IF AsksForDownlink(cnt, dr, supported) THEN [code |-> FlagReqSet, dr |-> 0]
  ELSE IF ~BacksOff(cnt) THEN [code |-> NoneError, dr |-> dr]
  ELSE IF dr > MinDR THEN [code |-> NoneError, dr |-> DecrementDataRate(dr)]
  ELSE [code |-> CodeUnjoined, dr |-> dr]
================================================================================
