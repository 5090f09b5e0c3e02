-------------------------------- MODULE MCFrames --------------------------------
\* Instances of Frames, with the limits scaled down and with those of the code.
EXTENDS Frames

MCRequests ==
  { <<>>, <<"DevStatusReq">>, <<"RXParamSetupReq", "RXTimingSetupReq">>,
    <<"DLChannelReq", "LinkADRReq", "DeviceTimeAns", "NewChannelReq", "TXParamSetupReq">> }

\* Only the console fills the queue of answers.
NoRequests == { <<>> }
OneSize == { [free |-> 2, fopts |-> 2] }

\* Every two of class, SupportedFragment and AlignCurrentTime in every combination.
Device(c, f, a) == [class |-> c, fragment |-> f, align |-> a]
MCConfigurations ==
  { Device("A", TRUE, FALSE), Device("A", FALSE, TRUE),
    Device("C", TRUE, TRUE), Device("C", FALSE, FALSE) }
OneConfiguration == { Device("A", TRUE, FALSE) }

\* The last is that of AS923 and AU915 at their lowest rates.
MCSizes == { [free |-> 2, fopts |-> 1], [free |-> 0, fopts |-> 0] }
================================================================================
