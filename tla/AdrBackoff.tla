------------------------------- MODULE AdrBackoff -------------------------------
(***************************************************************************)
(* The ADR back-off with the constants and the counter width of the code,  *)
(* under everything a device does to it: new frames, repetitions, which    *)
(* call ADRProcedure again without counting a frame, and downlinks.  When  *)
(* the calls come is the matter of module Device; here they come in any    *)
(* order.                                                                  *)
(***************************************************************************)
EXTENDS Adr

CONSTANTS
  Fragments,   \* the numbers of frames an uplink may be cut into
  MaxSilence   \* bound: frames without an answer

ASSUME Int8Counter == ADRACKLIMIT = 64 /\ ADRACKDELAY = 32 /\ CntHalf = 128

ASSUME BackoffAssumption == Fragments \subseteq Nat /\ MaxSilence \in Nat

VARIABLES
  supported,  \* Configuration.SupportedADR
  otaa,       \* Configuration.SupportedOtaa
  dr,         \* Status.DataRate
  cnt,        \* ADR.ADRACKCnt
  req,        \* ADR.ADRACKReq
  silent      \* history: frames sent since the last Reset

vars == <<supported, otaa, dr, cnt, req, silent>>
configVars == <<supported, otaa>>

TypeOK ==
  /\ supported \in BOOLEAN /\ otaa \in BOOLEAN
  /\ dr \in DeviceRates
  /\ cnt \in AdrCounts
  /\ req \in BOOLEAN
  /\ silent \in 0 .. MaxSilence

\* Device.Setup.
Init ==
  /\ supported \in BOOLEAN /\ otaa \in BOOLEAN
  /\ dr \in DataRates
  /\ cnt = 0 /\ req = FALSE /\ silent = 0

\* Mutant of Reset: the flag ADRACKReq stays.
MutantResetKeepsReq == cnt' = 0 /\ silent' = 0 /\ UNCHANGED req

Reset == cnt' = 0 /\ silent' = 0 /\ req' = FALSE

\* GetFrame, n times: one uplink, cut into n frames.
SendFrames(n) ==
  /\ silent + n <= MaxSilence
  /\ cnt' = CountUp(cnt, n)
  /\ silent' = silent + n
  /\ UNCHANGED <<configVars, dr, req>>

\* ProcessDownlink of a data frame; a LinkADRReq may come with it.
HearDownlink ==
  /\ Reset
  /\ dr' \in DeviceRates
  /\ UNCHANGED configVars

\* The repetition of a confirmed uplink lowers the data rate.
RepeatConfirmed ==
  /\ dr' = DecrementDataRate(dr)
  /\ UNCHANGED <<configVars, cnt, req, silent>>

Outcome == ADRProcedure(cnt, dr, supported)

\* ADRProcedure sets the flag: an answer is asked for.
AskForDownlink ==
  /\ Outcome.code = FlagReqSet
  /\ req' = TRUE
  /\ UNCHANGED <<configVars, dr, cnt, silent>>

\* ADRProcedure answers with a data rate, the old one or a lower one.
SetDataRate ==
  /\ Outcome.code = NoneError
  /\ dr' = Outcome.dr
  /\ UNCHANGED <<configVars, cnt, req, silent>>

\* ADRProcedure gives the session up: an OTAA device joins again, any other
\* goes on as it is.
GiveUp ==
  /\ Outcome.code = CodeUnjoined
  /\ IF otaa THEN Reset ELSE UNCHANGED <<cnt, req, silent>>
  /\ UNCHANGED <<configVars, dr>>

Next ==
  \/ \E n \in Fragments : SendFrames(n)
  \/ HearDownlink
  \/ AskForDownlink
  \/ SetDataRate
  \/ GiveUp
  \/ RepeatConfirmed

Spec == Init /\ [][Next]_vars

--------------------------------------------------------------------------------
(* Properties. *)

\* The device asks for an answer only if ADRACKLIMIT frames went without one,
\* although the counter steps over values, wraps, and starts again with every
\* downlink and every join.
RequestAfterSilence == req => silent >= ADRACKLIMIT

LowersRate == SetDataRate /\ dr' < dr

\* ADRProcedure takes a data rate or a session away only after a period of
\* back-off beyond ADRACKLIMIT, however the frames are cut.
SilenceBeforeBackOff ==
  [][LowersRate \/ GiveUp => silent >= ADRACKLIMIT + ADRACKDELAY]_vars

\* With ADR, ADRProcedure never lowers the data rate: the one count that calls
\* for it in an int8, 96, is also one at which it asks for an answer and
\* returns, and a period later the counter has wrapped.
AdrNeverLowersRate == [][LowersRate => ~supported]_vars

================================================================================
