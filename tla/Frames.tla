--------------------------------- MODULE Frames ---------------------------------
(***************************************************************************)
(* From payloads and MAC commands to frames (uplinks.go, frames/uplink,    *)
(* macCommands, the dispatcher of executeMAC.go): the buffer of uplinks,   *)
(* cutting into fragments, the answers that wait in FOpts, those repeated  *)
(* until a downlink comes, and the web server's handlers, which append to  *)
(* both queues while the device's goroutine takes from them.               *)
(***************************************************************************)
EXTENDS Integers, Sequences, FiniteSets, SequencesExt

CONSTANTS
  MaxCommands,   \* 15: the limit newMACComands and loadFOpts work with
  MaxBytes,      \* 15: the bytes of MAC commands a frame can carry
  Requests,      \* the sequences of commands a downlink may bring
  Lengths,       \* the lengths of payloads
  Configurations,  \* of devices: the class, SupportedFragment, AlignCurrentTime
  Sizes,         \* what GetPayloadSize may answer: the room in a frame without
                 \* answers (free) and with answers (fopts)
  MaxUplinks, MaxAnswers  \* bounds: uplinks and answers of a run

ASSUME SizesAssumption ==
  /\ MaxCommands \in Nat \ {0} /\ MaxBytes \in Nat
  /\ Sizes \subseteq [free : Nat, fopts : Nat] /\ Lengths \subseteq Nat
  /\ Configurations \subseteq [class : {"A", "C"}, fragment : BOOLEAN, align : BOOLEAN]

\* Where the answer to a command goes, and its bytes.  DutyCycleReq is
\* answered with the payload of DevStatusAns.
Answer ==
  [ LinkADRReq       |-> [to |-> "FOpts", size |-> 2],
    DutyCycleReq     |-> [to |-> "FOpts", size |-> 3],
    DevStatusReq     |-> [to |-> "FOpts", size |-> 3],
    NewChannelReq    |-> [to |-> "FOpts", size |-> 2],
    TXParamSetupReq  |-> [to |-> "FOpts", size |-> 1],
    BeaconFreqReq    |-> [to |-> "FOpts", size |-> 2],
    PingSlotChannelReq |-> [to |-> "FOpts", size |-> 2],
    LinkCheckReq     |-> [to |-> "FOpts", size |-> 1],
    RXParamSetupReq  |-> [to |-> "rxParamSetupAns", size |-> 2],
    DLChannelReq     |-> [to |-> "dlChannelAns", size |-> 2],
    RXTimingSetupReq |-> [to |-> "rxTimingSetupAns", size |-> 1],
    LinkCheckAns     |-> [to |-> "none", size |-> 0],
    DeviceTimeAns    |-> [to |-> "none", size |-> 0] ]

ASSUME RequestsAssumption == Requests \subseteq Seq(DOMAIN Answer)

Kept == {"rxParamSetupAns", "dlChannelAns", "rxTimingSetupAns"}

VARIABLES
  class,     \* "A" or "C"
  fragment,  \* Configuration.SupportedFragment
  align,     \* Status.AlignCurrentTime
  FOpts,     \* DataUplink.FOpts: answers, numbered
  ack,       \* DataUplink.AckMacCommand: the answers kept, by kind
  queue,     \* Status.BufferUplinks
  stage,     \* where Execute is
  payload,   \* the payload CreateUplink is cutting
  periodic,  \* Status.Payload: its length, and its bytes that are now time
  spoilt,    \* which bytes of the payload being cut are now time
  parts,     \* what is left of DataPayload
  last,      \* Status.LastUplinks: the parts of the payload they carry, and which
             \* bytes of them are time
  handler,   \* the web handler: idle, or what it has read
  uplinks, answers,     \* how many were made
  sentUp, sentAns,  \* history: the last uplink and the last answer that left
  disorder,         \* history: which of them left twice or out of order
  stale, full,      \* history: a handler undid a removal; a frame was at the limit
  failed, crashed  \* history: a frame was dropped; the process panicked

historyVars == <<sentUp, sentAns, disorder, stale, full>>
alignVars == <<align, periodic, spoilt>>
vars == <<class, fragment, FOpts, ack, queue, stage, payload, parts, last, handler,
          uplinks, answers, historyVars, failed, crashed, alignVars>>

Idle == [op |-> "idle"]
Periodic == 0   \* the number of the payload sent when nothing is queued
TimeBytes == 4  \* what alignWithCurrentTime appends
Unspoilt(len) == [len |-> len, spoilt |-> {}]

TypeOK ==
  /\ class \in {"A", "C"} /\ fragment \in BOOLEAN /\ align \in BOOLEAN
  /\ spoilt \subseteq 1 .. payload.len /\ periodic.spoilt \subseteq 1 .. periodic.len
  /\ \A i \in DOMAIN FOpts : FOpts[i].n \in 1 .. answers
  /\ Len(FOpts) <= MaxCommands
  /\ DOMAIN ack = Kept
  /\ \A i \in DOMAIN queue : queue[i].n \in 1 .. uplinks
  /\ stage \in {"ready", "frames", "windows", "pending"}
  /\ disorder \subseteq {"uplinks", "answers"}
  /\ uplinks \in 0 .. MaxUplinks /\ answers \in 0 .. MaxAnswers
  /\ {stale, full, failed, crashed} \subseteq BOOLEAN

Init ==
  /\ \E c \in Configurations :
       class = c.class /\ fragment = c.fragment /\ align = c.align
  /\ periodic \in {Unspoilt(l) : l \in Lengths} /\ spoilt = {}
  /\ FOpts = <<>> /\ ack = [k \in Kept |-> <<>>] /\ queue = <<>>
  /\ stage = "ready" /\ payload = [n |-> Periodic, len |-> 0]
  /\ parts = <<>> /\ last = <<>> /\ handler = Idle
  /\ uplinks = 0 /\ answers = 0 /\ sentUp = 0 /\ sentAns = 0 /\ disorder = {}
  /\ stale = FALSE /\ full = FALSE /\ failed = FALSE /\ crashed = FALSE

----------------------------------------------------------------------------
(* Cutting a payload.  A part is the range of bytes it holds.              *)

\* Mutant of Fragmentation: the loop ends before what is left over.
MutantFragmentationShort(size, len) ==
  IF size = 0 THEN <<>>
  ELSE [i \in 1 .. len \div size |-> [from |-> (i - 1) * size + 1, to |-> i * size]]

\* The last part is empty if size divides the length; with no room at all
\* there is no part.
Fragmentation(size, len) ==
  IF size = 0 THEN <<>>
  ELSE [ i \in 1 .. len \div size + 1 |->
           [ from |-> (i - 1) * size + 1,
             to   |-> IF i <= len \div size THEN i * size ELSE len ] ]

Truncate(size, len) == <<[from |-> 1, to |-> IF len > size THEN size ELSE len]>>

\* CreateUplink up to the frames: the payload is taken from the buffer, or
\* is the periodic one, which the console may have replaced meanwhile, and cut.
CreateUplink ==
  /\ ~crashed /\ stage = "ready"
  /\ IF queue # <<>>
     THEN /\ payload' = Head(queue) /\ queue' = Tail(queue)
          /\ spoilt' = {} /\ UNCHANGED periodic
     ELSE /\ periodic' \in {periodic} \cup {Unspoilt(l) : l \in Lengths}
          /\ payload' = [n |-> Periodic, len |-> periodic'.len]
          /\ spoilt' = periodic'.spoilt /\ UNCHANGED queue
  /\ \E s \in Sizes :
       LET size == IF FOpts # <<>> THEN s.fopts ELSE s.free
       IN parts' = IF fragment THEN Fragmentation(size, payload'.len)
                   ELSE Truncate(size, payload'.len)
  /\ last' = <<>> /\ failed' = FALSE
  /\ stage' = "frames"
  /\ UNCHANGED <<class, fragment, align, FOpts, ack, handler, uplinks, answers,
                 historyVars, crashed>>

----------------------------------------------------------------------------
(* Frames. *)

\* AckMacCommand.GetAll.
GetAll == ack["rxParamSetupAns"] \o ack["dlChannelAns"] \o ack["rxTimingSetupAns"]

\* loadFOpts: what of the answers that wait goes into the frame.  With more than
\* MaxCommands kept and one waiting it would slice below 0.
Fits   == Len(FOpts) + Len(GetAll) < MaxCommands
Room   == MaxCommands - Len(GetAll)
Loaded == IF Fits THEN FOpts ELSE SubSeq(FOpts, 1, Room)
LoadPanics == FOpts # <<>> /\ Room < 0

Bytes(cmds) == FoldLeft(LAMBDA sum, c : sum + Answer[c.cmd].size, 0, cmds)

\* MarshalBinary refuses more than MaxBytes of commands.
Encodes == Bytes(GetAll \o Loaded) <= MaxBytes

Numbers(cmds) == [i \in DOMAIN cmds |-> cmds[i].n]

\* What leaves after number n, and whether that is in order.
After(n, s) == IF s = <<>> THEN n ELSE s[Len(s)]
Increasing(s) == \A i \in 1 .. Len(s) - 1 : s[i] < s[i + 1]
Noted(kind, n, s) == disorder \cup (IF Increasing(<<n>> \o s) THEN {} ELSE {kind})

\* Mutant of Unloaded: what was loaded stays.
MutantUnloadNothing == FOpts

\* What loadFOpts leaves.  At the limit that is everything: the slice is taken
\* with the length the frame's commands have by then, which is MaxCommands.
Unloaded == IF Fits THEN <<>> ELSE FOpts

\* GetFrame: the answers are unloaded whether or not the frame encodes.  What
\* is queued next is added.
GetFrame(added) ==
  /\ ~LoadPanics
  /\ FOpts' = Unloaded \o added
  /\ LET leave == IF Encodes THEN Numbers(Loaded) ELSE <<>>
     IN /\ sentAns' = After(sentAns, leave)
        /\ disorder' = Noted("answers", sentAns, leave)
  /\ full' = (full \/ (FOpts # <<>> /\ ~Fits))
  /\ UNCHANGED <<sentUp, stale>>

\* The bytes of the payload a part holds, and those that are time once the time
\* has been written behind it.
Held(part) == part.from .. part.to
Overwritten(part) ==
  spoilt \cup ((part.to + 1 .. part.to + TimeBytes) \cap (1 .. payload.len))

\* The time is appended to a part, which is a slice of the payload's bytes: it
\* lands on the bytes that follow, those of the next part, where the array reaches
\* that far.  It does if the payload does, and may if more has been allocated.
AlignWithCurrentTime(part) ==
  /\ spoilt' \in IF part.to + TimeBytes <= payload.len
                THEN {Overwritten(part)} ELSE {spoilt, Overwritten(part)}
  /\ periodic' = IF payload.n = Periodic THEN [periodic EXCEPT !.spoilt = spoilt']
                 ELSE periodic

\* A frame of CreateUplink; one in error is left out.  With AlignCurrentTime it
\* carries its part and the time after it.
CreateFrame ==
  /\ ~crashed /\ stage = "frames" /\ parts # <<>>
  /\ GetFrame(<<>>)
  /\ IF align THEN AlignWithCurrentTime(Head(parts)) ELSE UNCHANGED <<periodic, spoilt>>
  /\ IF Encodes
     THEN /\ last' = Append(last, [part |-> Head(parts), time |-> spoilt \cap Held(Head(parts))])
          /\ UNCHANGED failed
     ELSE failed' = TRUE /\ UNCHANGED last
  /\ parts' = Tail(parts)
  /\ UNCHANGED <<class, fragment, align, ack, queue, stage, payload, handler, uplinks,
                 answers, crashed>>

\* An empty frame asks for the data pending; in error, no bytes are sent.
SendEmptyFrame ==
  /\ ~crashed /\ stage = "pending"
  /\ GetFrame(<<>>)
  /\ stage' = "windows"
  /\ UNCHANGED <<class, fragment, ack, queue, payload, parts, last, handler, uplinks,
                 answers, failed, crashed, alignVars>>

\* Any frame, an acknowledgement too.
GetFramePanics ==
  /\ ~crashed
  /\ stage \in {"windows", "pending"} \/ (stage = "frames" /\ parts # <<>>)
  /\ LoadPanics
  /\ crashed' = TRUE
  /\ UNCHANGED <<class, fragment, FOpts, ack, queue, stage, payload, parts, last, handler,
                 uplinks, answers, historyVars, failed, alignVars>>

\* The frames there are are sent and the windows open.
SendFrames ==
  /\ ~crashed /\ stage = "frames" /\ parts = <<>>
  /\ LET leave == IF payload.n # Periodic /\ last # <<>> THEN <<payload.n>> ELSE <<>>
     IN /\ sentUp' = After(sentUp, leave)
        /\ disorder' = Noted("uplinks", sentUp, leave)
  /\ stage' = "windows"
  /\ UNCHANGED <<class, fragment, FOpts, ack, queue, payload, parts, last, handler, uplinks,
                 answers, sentAns, stale, full, failed, crashed, alignVars>>

----------------------------------------------------------------------------
(* Downlinks. *)

\* ProcessDownlink of a frame that is accepted: which answers need no
\* repetition any more.  A device of class C keeps two kinds for good.
CleanAcks ==
  IF class = "A" THEN [k \in Kept |-> <<>>] ELSE [ack EXCEPT !["dlChannelAns"] = <<>>]

\* The elements of s that are in T, in their order.
Chosen(s, T) ==
  LET places == {i \in DOMAIN s : s[i] \in T}
  IN [ k \in 1 .. Cardinality(places) |->
         s[CHOOSE i \in places : Cardinality({j \in places : j <= i}) = k] ]

AnsweredIn(to)      == {c \in DOMAIN Answer : Answer[c].to = to}
AnswersTo(cmds, to) == Chosen(cmds, AnsweredIn(to))

\* newMACComands, one answer after the other, those to LinkADRReq last; what a
\* queue of n has no room for is dropped.
Queued(cmds, n) ==
  LET all == Chosen(cmds, AnsweredIn("FOpts") \ {"LinkADRReq"})
             \o Chosen(cmds, {"LinkADRReq"})
      room == MaxCommands - n
  IN SubSeq(all, 1, IF Len(all) < room THEN Len(all) ELSE room)

Numbered(cmds) == [i \in DOMAIN cmds |-> [cmd |-> cmds[i], n |-> answers + i]]

\* ProcessDownlink and ExecuteMACCommand.  A confirmed downlink is acknowledged
\* first; with more data pending, the windows open again, after an empty frame
\* if there was no acknowledgement.  Bound: not between a handler's read of
\* FOpts and its write.
HearDownlink ==
  /\ ~crashed /\ stage = "windows" /\ handler.op # "command"
  /\ \E cmds \in Requests, confirmed \in BOOLEAN :
       LET q == Queued(cmds, Len(IF confirmed THEN Unloaded ELSE FOpts))
       IN /\ answers + Len(q) <= MaxAnswers
          /\ IF confirmed
             THEN GetFrame(Numbered(q)) /\ stage' \in {"ready", "windows"}
             ELSE /\ FOpts' = FOpts \o Numbered(q) /\ stage' \in {"ready", "pending"}
                  /\ UNCHANGED historyVars
          /\ answers' = answers + Len(q)
          /\ ack' = [ k \in Kept |-> CleanAcks[k] \o
                        [ i \in DOMAIN AnswersTo(cmds, k) |->
                            [cmd |-> AnswersTo(cmds, k)[i], n |-> 0] ] ]
          /\ \A k \in Kept : Len(ack'[k]) <= MaxCommands
  /\ UNCHANGED <<class, fragment, queue, payload, parts, last, handler, uplinks, failed,
                 crashed, alignVars>>

\* A window without a downlink, or with one in error.  A repetition sends
\* LastUplinks again and changes nothing here.
HearNothing ==
  /\ ~crashed /\ stage = "windows"
  /\ stage' = "ready"
  /\ UNCHANGED <<class, fragment, FOpts, ack, queue, payload, parts, last, handler, uplinks,
                 answers, historyVars, failed, crashed, alignVars>>

----------------------------------------------------------------------------
(* The web handlers.  Each reads the queue, appends to what it read and    *)
(* writes it back; nothing keeps the device from taking in between.        *)

handlerVars == <<class, fragment, ack, stage, payload, parts, last, sentUp, sentAns,
                 disorder, full, failed, crashed, alignVars>>

BeginNewUplink(len) ==
  /\ ~crashed /\ handler = Idle /\ uplinks < MaxUplinks
  /\ uplinks' = uplinks + 1
  /\ handler' = [op |-> "uplink", read |-> queue, new |-> [n |-> uplinks + 1, len |-> len]]
  /\ UNCHANGED <<handlerVars, FOpts, queue, answers, stale>>

EndNewUplink ==
  /\ ~crashed /\ handler.op = "uplink"
  /\ queue' = Append(handler.read, handler.new)
  /\ stale' = (stale \/ handler.read # queue)
  /\ handler' = Idle
  /\ UNCHANGED <<handlerVars, FOpts, uplinks, answers>>

BeginSendMACCommand ==
  /\ ~crashed /\ handler = Idle /\ answers < MaxAnswers /\ Len(FOpts) < MaxCommands
  /\ answers' = answers + 1
  /\ handler' = [ op |-> "command", read |-> FOpts,
                  new |-> [cmd |-> "LinkCheckReq", n |-> answers + 1] ]
  /\ UNCHANGED <<handlerVars, FOpts, queue, uplinks, stale>>

EndSendMACCommand ==
  /\ ~crashed /\ handler.op = "command"
  /\ FOpts' = Append(handler.read, handler.new)
  /\ stale' = (stale \/ handler.read # FOpts)
  /\ handler' = Idle
  /\ UNCHANGED <<handlerVars, queue, uplinks, answers>>

DeviceStep ==
  \/ CreateUplink \/ CreateFrame \/ SendFrames \/ SendEmptyFrame \/ GetFramePanics
  \/ HearDownlink \/ HearNothing

HandlerStep ==
  \/ \E len \in Lengths : BeginNewUplink(len)
  \/ EndNewUplink
  \/ BeginSendMACCommand \/ EndSendMACCommand

Next == DeviceStep \/ HandlerStep

Spec == Init /\ [][Next]_vars

----------------------------------------------------------------------------
(* Properties. *)

\* Queued uplinks leave in the order in which they were made and none leaves
\* twice, as long as no handler wrote back what the device had taken meanwhile;
\* so do answers, through uplinks, acknowledgements and empty frames, as long as
\* no frame had to leave answers behind.
SentOnceInOrder ==
  ~stale => "uplinks" \notin disorder /\ (full \/ "answers" \notin disorder)

\* What loadFOpts has put into a frame it takes from the queue ("//reset"), at
\* the limit too: no answer is sent twice.
AnswersSentOnce == ~stale => "answers" \notin disorder

\* The parts that the frames of an uplink are made of, put together, are its
\* payload, or the beginning of it that fits when it is truncated, unless a frame
\* was dropped or there is no room at all.  Without AlignCurrentTime the frames
\* carry just these bytes; with it, four bytes of time follow each part and have
\* taken the place of what the parts after it began with.
Reassembles ==
  stage = "windows" /\ ~failed /\ last # <<>> =>
    /\ last[1].part.from = 1
    /\ \A i \in 1 .. Len(last) - 1 : last[i + 1].part.from = last[i].part.to + 1
    /\ LET end == last[Len(last)].part.to
       IN end <= payload.len /\ (fragment => end = payload.len)
    /\ ~align => \A i \in DOMAIN last : last[i].time = {}

================================================================================
