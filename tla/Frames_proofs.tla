------------------------------ MODULE Frames_proofs ------------------------------
(***************************************************************************)
(* Theorems about Frames, for any limits, sizes, lengths of payloads and   *)
(* requests, and for any number of uplinks and answers.                    *)
(***************************************************************************)
EXTENDS Frames, FiniteSetTheorems, SequenceTheorems, WellFoundedInduction, TLAPS

----------------------------------------------------------------------------
(* Choosing from a sequence.                                               *)

LEMMA Least ==
  ASSUME NEW T \in SUBSET Nat, T # {}
  PROVE  \E x \in T : \A y \in T : x <= y
<1> DEFINE R == {ss \in Nat \X Nat : ss[1] < ss[2]}
<1>1. IsWellFoundedOn(R, Nat)
  <2>1. R = OpToRel(<, Nat)
    BY Zenon DEF OpToRel
  <2> QED
    BY <2>1, NatLessThanWellFounded, Zenon
<1>2. \A x, y \in Nat : <<y, x>> \in R <=> y < x
  OBVIOUS
<1> HIDE DEF R
<1>3. PICK x \in T : \A y \in T : ~(<<y, x>> \in R)
  BY <1>1, WFMin
<1>4. \A y \in T : ~(y < x) /\ y \in Nat /\ x \in Nat
  BY <1>2, <1>3
<1> QED
  BY <1>3, <1>4

\* Some element of a finite set of numbers is its k-th.
LEMMA KthExists ==
  ASSUME NEW N \in Nat, NEW I \in SUBSET (1 .. N), NEW k \in 1 .. Cardinality(I)
  PROVE  \E i \in I : Cardinality({j \in I : j <= i}) = k
<1> DEFINE UpTo(m) == {j \in I : j <= m}
           T == {m \in Nat : Cardinality(UpTo(m)) >= k}
<1>0. \A i \in I : i \in Nat /\ 1 <= i /\ i <= N
  OBVIOUS
<1>1. IsFiniteSet(I)
  <2>1. IsFiniteSet(1 .. N)
    BY FS_Interval
  <2> QED
    BY <2>1, FS_Subset
<1>2. \A m : IsFiniteSet(UpTo(m)) /\ Cardinality(UpTo(m)) \in Nat
  <2> SUFFICES ASSUME NEW m PROVE IsFiniteSet(UpTo(m)) /\ Cardinality(UpTo(m)) \in Nat
    OBVIOUS
  <2>1. UpTo(m) \subseteq I
    OBVIOUS
  <2> HIDE DEF UpTo
  <2>2. IsFiniteSet(UpTo(m))
    BY <1>1, <2>1, FS_Subset
  <2> QED
    BY <2>2, FS_CardinalityType
<1>3. Cardinality(I) \in Nat
  BY <1>1, FS_CardinalityType
<1>4. N \in T
  <2>1. UpTo(N) = I
    BY <1>0
  <2> HIDE DEF UpTo
  <2> QED
    BY <1>3, <2>1
<1>5. PICK m \in T : \A y \in T : m <= y
  <2>1. T \in SUBSET Nat /\ T # {}
    BY <1>4
  <2> HIDE DEF T
  <2> QED
    BY <2>1, Least
<1>6. m \in Nat /\ Cardinality(UpTo(m)) >= k
  BY <1>5
<1>7. m # 0
  <2>1. \A j \in I : ~(j <= 0)
    BY <1>0
  <2>2. UpTo(0) = {}
    BY <2>1, Zenon
  <2>3. Cardinality({}) = 0
    BY FS_EmptySet
  <2> HIDE DEF UpTo
  <2> QED
    BY <1>3, <1>6, <2>2, <2>3
<1>8. Cardinality(UpTo(m - 1)) < k
  <2>1. m - 1 \in Nat /\ ~(m <= m - 1)
    BY <1>6, <1>7
  <2>2. m - 1 \notin T
    BY <1>5, <2>1
  <2> HIDE DEF UpTo
  <2> QED
    BY <1>2, <1>3, <2>1, <2>2
<1>9. \A j \in I : j <= m <=> j <= m - 1 \/ j = m
  BY <1>0, <1>6
<1>10. m \in I
  <2>1. SUFFICES ASSUME m \notin I PROVE FALSE
    OBVIOUS
  <2>2. UpTo(m) = UpTo(m - 1)
    BY <1>9, <2>1, Zenon
  <2> HIDE DEF UpTo
  <2> QED
    BY <1>2, <1>3, <1>6, <1>8, <2>2
<1>11. UpTo(m) = UpTo(m - 1) \cup {m} /\ m \notin UpTo(m - 1)
  <2>1. ~(m <= m - 1)
    BY <1>6
  <2> QED
    BY <1>9, <1>10, <2>1, Zenon
<1>12. Cardinality(UpTo(m)) = Cardinality(UpTo(m - 1)) + 1
  <2> HIDE DEF UpTo
  <2> QED
    BY <1>2, <1>11, FS_AddElement
<1>13. Cardinality(UpTo(m)) = k
  <2> HIDE DEF UpTo
  <2> QED
    BY <1>2, <1>3, <1>6, <1>8, <1>12
<1> QED
  BY <1>10, <1>13

\* What is chosen from a sequence is a sequence, and all of it may be chosen.
LEMMA ChosenIsSeq ==
  ASSUME NEW S, NEW s \in Seq(S), NEW T
  PROVE  Chosen(s, T) \in Seq(S \cap T)
<1> DEFINE places == {i \in DOMAIN s : s[i] \in T}
           at(k) == CHOOSE i \in places : Cardinality({j \in places : j <= i}) = k
<1>1. Len(s) \in Nat /\ DOMAIN s = 1 .. Len(s)
  OBVIOUS
<1>2. places \in SUBSET (1 .. Len(s))
  BY <1>1
<1>3. Cardinality(places) \in Nat
  <2>1. IsFiniteSet(1 .. Len(s))
    BY <1>1, FS_Interval
  <2> HIDE DEF places
  <2> QED
    BY <1>2, <2>1, FS_Subset, FS_CardinalityType
<1>4. \A i \in places : s[i] \in S \cap T
  BY <1>2
<1>5. \A k \in 1 .. Cardinality(places) : at(k) \in places
  <2> TAKE k \in 1 .. Cardinality(places)
  <2> HIDE DEF places
  <2>1. \E i \in places : Cardinality({j \in places : j <= i}) = k
    BY <1>1, <1>2, KthExists
  <2> QED
    BY <2>1
<1>6. Chosen(s, T) = [k \in 1 .. Cardinality(places) |-> s[at(k)]]
  BY Zenon DEF Chosen
<1> HIDE DEF places, at
<1> QED
  BY <1>3, <1>4, <1>5, <1>6

----------------------------------------------------------------------------
(* Types.                                                                  *)

UplinkType == [n : Nat, len : Nat]
AnswerType == [cmd : DOMAIN Answer, n : Nat]
PartType   == [from : Int, to : Int]
FrameType  == [part : PartType, time : SUBSET Int]

HandlerType ==
  {Idle} \cup [op : {"uplink"}, read : Seq(UplinkType), new : UplinkType]
         \cup [op : {"command"}, read : Seq(AnswerType), new : AnswerType]

Types ==
  /\ fragment \in BOOLEAN /\ align \in BOOLEAN
  /\ periodic \in [len : Nat, spoilt : SUBSET Int] /\ spoilt \in SUBSET Int
  /\ FOpts \in Seq(AnswerType) /\ ack \in [Kept -> Seq(AnswerType)]
  /\ queue \in Seq(UplinkType) /\ payload \in UplinkType
  /\ parts \in Seq(PartType) /\ last \in Seq(FrameType)
  /\ handler \in HandlerType
  /\ uplinks \in Nat /\ answers \in Nat /\ sentUp \in Nat /\ sentAns \in Nat
  /\ stale \in BOOLEAN /\ full \in BOOLEAN /\ failed \in BOOLEAN

LEMMA Handlers ==
  ASSUME Types
  PROVE  /\ handler.op = "uplink" =>
              handler.read \in Seq(UplinkType) /\ handler.new \in UplinkType
         /\ handler.op = "command" =>
              handler.read \in Seq(AnswerType) /\ handler.new \in AnswerType
         /\ Idle.op = "idle"
<1> DEFINE H1 == [op : {"uplink"}, read : Seq(UplinkType), new : UplinkType]
           H2 == [op : {"command"}, read : Seq(AnswerType), new : AnswerType]
<1>1. Idle.op = "idle"
  BY DEF Idle
<1>2. \A h \in H1 : h.op = "uplink" /\ h.read \in Seq(UplinkType) /\ h.new \in UplinkType
  OBVIOUS
<1>3. \A h \in H2 : h.op = "command" /\ h.read \in Seq(AnswerType) /\ h.new \in AnswerType
  OBVIOUS
<1>4. handler = Idle \/ handler \in H1 \/ handler \in H2
  BY DEF Types, HandlerType
<1> HIDE DEF H1, H2
<1> QED
  BY <1>1, <1>2, <1>3, <1>4

\* What loadFOpts takes and leaves.
LEMMA LoadedIs ==
  ASSUME Types
  PROVE  /\ GetAll \in Seq(AnswerType)
         /\ Loaded \in Seq(AnswerType) /\ Unloaded \in Seq(AnswerType)
         /\ Fits => Loaded = FOpts /\ Unloaded = <<>>
         /\ FOpts = <<>> => Loaded = <<>> /\ Unloaded = <<>>
<1>1. GetAll \in Seq(AnswerType)
  <2>1. \A k \in Kept : ack[k] \in Seq(AnswerType)
    BY DEF Types
  <2> QED
    BY <2>1 DEF GetAll, Kept
<1>2. Len(GetAll) \in Nat /\ Len(FOpts) \in Nat /\ MaxCommands \in Nat
  BY <1>1, SizesAssumption DEF Types
<1>3. CASE Fits
  BY <1>1, <1>3 DEF Loaded, Unloaded, Types
<1>4. CASE ~Fits
  <2>1. Room \in Int /\ Room <= Len(FOpts)
    BY <1>2, <1>4 DEF Fits, Room
  <2>2. \A i \in 1 .. Room : FOpts[i] \in AnswerType
    BY <1>2, <2>1 DEF Types
  <2>3. /\ SubSeq(FOpts, 1, Room) \in Seq(AnswerType)
        /\ FOpts = <<>> => SubSeq(FOpts, 1, Room) = <<>>
    <3>1. SubSeq(FOpts, 1, Room) \in Seq(AnswerType)
      BY <2>1, <2>2, SubSeqProperties
    <3>2. FOpts = <<>> => Room < 1
      BY <1>2, <2>1
    <3> QED
      BY <2>1, <3>1, <3>2, SubSeqEmpty
  <2>4. Loaded = SubSeq(FOpts, 1, Room) /\ Unloaded = FOpts
    BY <1>4 DEF Loaded, Unloaded
  <2> QED
    BY <1>1, <1>4, <2>3, <2>4 DEF Types
<1> QED
  BY <1>3, <1>4

\* What newMACComands queues is a sequence of answers, numbered.
LEMMA QueuedIs ==
  ASSUME NEW cmds \in Requests, NEW n \in Nat, answers \in Nat
  PROVE  /\ Queued(cmds, n) \in Seq(DOMAIN Answer)
         /\ Numbered(Queued(cmds, n)) \in Seq(AnswerType)
         /\ Len(Numbered(Queued(cmds, n))) = Len(Queued(cmds, n))
         /\ Len(Queued(cmds, n)) \in Nat
         /\ \A i \in 1 .. Len(Queued(cmds, n)) :
              Numbered(Queued(cmds, n))[i].n = answers + i
<1> DEFINE others == Chosen(cmds, AnsweredIn("FOpts") \ {"LinkADRReq"})
           linkADR == Chosen(cmds, {"LinkADRReq"})
           all == others \o linkADR
           room == MaxCommands - n
           m == IF Len(all) < room THEN Len(all) ELSE room
<1>1. cmds \in Seq(DOMAIN Answer)
  BY RequestsAssumption
<1>2. others \in Seq(DOMAIN Answer) /\ linkADR \in Seq(DOMAIN Answer)
  <2>1. /\ others \in Seq(DOMAIN Answer \cap (AnsweredIn("FOpts") \ {"LinkADRReq"}))
        /\ linkADR \in Seq(DOMAIN Answer \cap {"LinkADRReq"})
    BY <1>1, ChosenIsSeq
  <2> QED
    BY <2>1, SeqMonotonic
<1>3. Queued(cmds, n) = SubSeq(all, 1, m)
  BY DEF Queued
<1> HIDE DEF others, linkADR
<1>4. all \in Seq(DOMAIN Answer) /\ Len(all) \in Nat /\ room \in Int
  BY <1>2, SizesAssumption
<1> HIDE DEF all, room
<1>5. m \in Int /\ m <= Len(all)
  BY <1>4
<1> HIDE DEF m
<1>6. \A i \in 1 .. m : all[i] \in DOMAIN Answer
  BY <1>4, <1>5
<1>7. Queued(cmds, n) \in Seq(DOMAIN Answer)
  BY <1>3, <1>5, <1>6, SubSeqProperties
<1> DEFINE q == Queued(cmds, n)
<1>8. /\ Len(q) \in Nat /\ DOMAIN q = 1 .. Len(q)
      /\ \A i \in 1 .. Len(q) : q[i] \in DOMAIN Answer
  BY <1>7
<1>9. Numbered(q) = [i \in 1 .. Len(q) |-> [cmd |-> q[i], n |-> answers + i]]
  BY <1>8 DEF Numbered
<1> HIDE DEF q
<1>10. \A i \in 1 .. Len(q) : [cmd |-> q[i], n |-> answers + i] \in AnswerType
  BY <1>8 DEF AnswerType
<1>11. /\ Numbered(q) \in Seq(AnswerType) /\ Len(Numbered(q)) = Len(q)
       /\ \A i \in 1 .. Len(q) : Numbered(q)[i].n = answers + i
  BY <1>8, <1>9, <1>10
<1> QED
  BY <1>7, <1>8, <1>11 DEF q

\* The answers that leave, and the number of the last.
LEMMA NumbersIs ==
  ASSUME NEW cmds \in Seq(AnswerType)
  PROVE  /\ Numbers(cmds) \in Seq(Nat) /\ Len(Numbers(cmds)) = Len(cmds)
         /\ \A i \in 1 .. Len(cmds) : Numbers(cmds)[i] = cmds[i].n
<1>1. /\ Len(cmds) \in Nat /\ DOMAIN cmds = 1 .. Len(cmds)
      /\ \A i \in 1 .. Len(cmds) : cmds[i] \in AnswerType
  OBVIOUS
<1>2. \A i \in 1 .. Len(cmds) : cmds[i].n \in Nat
  BY <1>1 DEF AnswerType
<1> QED
  BY <1>1, <1>2 DEF Numbers

LEMMA AfterIs ==
  ASSUME NEW n \in Nat, NEW s \in Seq(Nat)
  PROVE  After(n, s) \in Nat
BY DEF After

LEMMA GetFrameTypes ==
  ASSUME Types, NEW added \in Seq(AnswerType), GetFrame(added)
  PROVE  /\ FOpts' \in Seq(AnswerType) /\ sentAns' \in Nat /\ full' \in BOOLEAN
         /\ UNCHANGED <<sentUp, stale>>
<1> DEFINE leave == IF Encodes THEN Numbers(Loaded) ELSE <<>>
<1>1. FOpts' = Unloaded \o added /\ sentAns' = After(sentAns, leave)
  BY Zenon DEF GetFrame
<1>2. FOpts' \in Seq(AnswerType)
  BY <1>1, LoadedIs
<1>3. leave \in Seq(Nat)
  BY LoadedIs, NumbersIs
<1> HIDE DEF leave
<1>4. sentAns' \in Nat
  BY <1>1, <1>3, AfterIs DEF Types
<1>5. full' \in BOOLEAN /\ UNCHANGED <<sentUp, stale>>
  BY DEF GetFrame, Types
<1> QED
  BY <1>2, <1>4, <1>5

\* The ways of cutting a payload give a chain of parts.
Chained(s, len) ==
  Len(s) > 0 =>
    /\ s[1].from = 1
    /\ \A i \in 1 .. Len(s) - 1 : s[i + 1].from = s[i].to + 1
    /\ s[Len(s)].to <= len /\ (fragment => s[Len(s)].to = len)

LEMMA FragmentationIs ==
  ASSUME NEW size \in Nat, NEW len \in Nat
  PROVE  /\ Fragmentation(size, len) \in Seq(PartType)
         /\ Chained(Fragmentation(size, len), len)
<1>1. CASE size = 0
  BY <1>1 DEF Fragmentation, Chained
<1>2. CASE size # 0
  <2> DEFINE k == len \div size
             Part(i) == [from |-> (i - 1) * size + 1, to |-> IF i <= k THEN i * size ELSE len]
             f == [i \in 1 .. k + 1 |-> Part(i)]
  <2>1. Fragmentation(size, len) = f
    BY <1>2 DEF Fragmentation
  <2>2. k \in Nat
    BY <1>2
  <2> HIDE DEF k
  <2>3. \A i \in 1 .. k + 1 : Part(i) \in PartType
    BY <2>2 DEF PartType
  <2>4. f \in Seq(PartType) /\ Len(f) = k + 1 /\ \A i \in 1 .. k + 1 : f[i] = Part(i)
    <3> HIDE DEF Part
    <3>1. k + 1 \in Nat
      BY <2>2
    <3> QED
      BY <2>3, <3>1
  <2> HIDE DEF f
  <2>5. f[1].from = 1
    <3>1. f[1] = Part(1)
      BY <2>2, <2>4
    <3>2. Part(1).from = 0 * size + 1
      OBVIOUS
    <3> QED
      BY <3>1, <3>2
  <2>6. \A i \in 1 .. k : f[i + 1].from = f[i].to + 1
    <3> TAKE i \in 1 .. k
    <3>1. f[i] = Part(i) /\ f[i + 1] = Part(i + 1)
      <4> HIDE DEF Part
      <4>1. i \in 1 .. k + 1 /\ i + 1 \in 1 .. k + 1
        BY <2>2
      <4> QED
        BY <2>4, <4>1
    <3>2. Part(i).to = i * size
      OBVIOUS
    <3>3. Part(i + 1).from = (i + 1 - 1) * size + 1 /\ i + 1 - 1 = i
      OBVIOUS
    <3> QED
      BY <3>1, <3>2, <3>3
  <2>7. f[k + 1].to = len
    <3>1. f[k + 1] = Part(k + 1)
      BY <2>2, <2>4
    <3>2. ~(k + 1 <= k)
      BY <2>2
    <3> QED
      BY <3>1, <3>2
  <2>8. Chained(f, len)
    <3> HIDE DEF Part
    <3>1. Len(f) - 1 = k /\ Len(f) = k + 1 /\ len <= len
      BY <2>2, <2>4
    <3> QED
      BY <2>5, <2>6, <2>7, <3>1, Zenon DEF Chained
  <2> QED
    BY <2>1, <2>4, <2>8
<1> QED
  BY <1>1, <1>2

LEMMA TruncateIs ==
  ASSUME NEW size \in Nat, NEW len \in Nat, ~fragment
  PROVE  Truncate(size, len) \in Seq(PartType) /\ Chained(Truncate(size, len), len)
<1> DEFINE part == [from |-> 1, to |-> IF len > size THEN size ELSE len]
<1>1. part \in PartType /\ part.from = 1 /\ part.to <= len
  BY DEF PartType
<1>2. Truncate(size, len) = <<part>>
  BY DEF Truncate
<1> HIDE DEF part
<1> QED
  BY <1>1, <1>2 DEF Chained

\* What CreateUplink makes.
LEMMA CreateUplinkIs ==
  ASSUME Types, CreateUplink
  PROVE  /\ stage = "ready" /\ stage' = "frames" /\ last' = <<>> /\ failed' = FALSE
         /\ IF queue # <<>>
            THEN payload' = Head(queue) /\ queue' = Tail(queue)
            ELSE payload'.n = Periodic /\ UNCHANGED queue
         /\ payload' \in UplinkType /\ queue' \in Seq(UplinkType)
         /\ parts' \in Seq(PartType) /\ Chained(parts', payload'.len)
         /\ periodic' \in [len : Nat, spoilt : SUBSET Int] /\ spoilt' \in SUBSET Int
         /\ ~align /\ periodic.spoilt = {} => periodic'.spoilt = {} /\ spoilt' = {}
         /\ UNCHANGED <<fragment, align, FOpts, ack, handler, uplinks, answers, historyVars>>
<1>1. /\ stage = "ready" /\ stage' = "frames" /\ last' = <<>> /\ failed' = FALSE
      /\ UNCHANGED <<fragment, align, FOpts, ack, handler, uplinks, answers, historyVars>>
  BY DEF CreateUplink
<1>0. /\ periodic' \in [len : Nat, spoilt : SUBSET Int] /\ spoilt' \in SUBSET Int
      /\ periodic.spoilt = {} => periodic'.spoilt = {} /\ spoilt' = {}
  <2>1. \A l \in Lengths :
          /\ Unspoilt(l) \in [len : Nat, spoilt : SUBSET Int] /\ Unspoilt(l).spoilt = {}
    BY SizesAssumption DEF Unspoilt
  <2>2. CASE queue # <<>>
    BY <2>2 DEF CreateUplink, Types
  <2>3. CASE queue = <<>>
    <3>1. periodic' \in {periodic} \cup {Unspoilt(l) : l \in Lengths} /\ spoilt' = periodic'.spoilt
      BY <2>3 DEF CreateUplink
    <3>2. periodic \in [len : Nat, spoilt : SUBSET Int]
      BY DEF Types
    <3> QED
      BY <2>1, <3>1, <3>2
  <2> QED
    BY <2>2, <2>3
<1>2. /\ IF queue # <<>>
         THEN payload' = Head(queue) /\ queue' = Tail(queue)
         ELSE payload'.n = Periodic /\ UNCHANGED queue
      /\ payload' \in UplinkType /\ queue' \in Seq(UplinkType)
  <2>1. CASE queue # <<>>
    <3>1. payload' = Head(queue) /\ queue' = Tail(queue)
      BY <2>1 DEF CreateUplink
    <3> QED
      BY <2>1, <3>1, HeadTailProperties DEF Types
  <2>2. CASE queue = <<>>
    <3>1. UNCHANGED queue /\ payload' = [n |-> Periodic, len |-> periodic'.len]
      BY <2>2 DEF CreateUplink
    <3>2. periodic'.len \in Nat
      BY <1>0
    <3> QED
      BY <2>2, <3>1, <3>2 DEF Types, UplinkType, Periodic
  <2> QED
    BY <2>1, <2>2
<1>3. payload'.len \in Nat
  BY <1>2 DEF UplinkType
<1>4. PICK size \in Nat : parts' = IF fragment THEN Fragmentation(size, payload'.len)
                                   ELSE Truncate(size, payload'.len)
  <2>1. \A sz \in Sizes : sz.free \in Nat /\ sz.fopts \in Nat
    BY SizesAssumption
  <2> QED
    BY <2>1 DEF CreateUplink
<1>5. parts' \in Seq(PartType) /\ Chained(parts', payload'.len)
  BY <1>3, <1>4, FragmentationIs, TruncateIs
<1> QED
  BY <1>0, <1>1, <1>2, <1>5

\* With or without the time, a frame leaves the arrays of bytes what they are; only
\* AlignCurrentTime puts time into them.
LEMMA CreateFrameBytes ==
  ASSUME Types, CreateFrame
  PROVE  /\ periodic' \in [len : Nat, spoilt : SUBSET Int] /\ spoilt' \in SUBSET Int
         /\ ~align => UNCHANGED <<periodic, spoilt>>
<1>1. CASE align
  <2>1. AlignWithCurrentTime(Head(parts)) /\ parts # <<>>
    BY <1>1 DEF CreateFrame
  <2>2. Head(parts) \in PartType /\ payload.len \in Nat
    BY <2>1 DEF Types, UplinkType
  <2>3. Overwritten(Head(parts)) \in SUBSET Int
    <3>1. (Head(parts).to + 1 .. Head(parts).to + TimeBytes) \in SUBSET Int
      BY <2>2 DEF PartType, TimeBytes
    <3> QED
      BY <3>1 DEF Overwritten, Types
  <2>4. spoilt' \in {spoilt, Overwritten(Head(parts))}
    BY <2>1 DEF AlignWithCurrentTime
  <2>5. spoilt' \in SUBSET Int
    BY <2>3, <2>4 DEF Types
  <2>6. periodic' = IF payload.n = Periodic THEN [periodic EXCEPT !.spoilt = spoilt'] ELSE periodic
    BY <2>1 DEF AlignWithCurrentTime
  <2>7. periodic' \in [len : Nat, spoilt : SUBSET Int]
    BY <2>5, <2>6 DEF Types
  <2> QED
    BY <1>1, <2>5, <2>7
<1>2. CASE ~align
  BY <1>2 DEF CreateFrame, Types
<1> QED
  BY <1>1, <1>2

----------------------------------------------------------------------------
(* Steps keep the types.                                                   *)

LEMMA TypesStep ==
  ASSUME Types, [Next]_vars
  PROVE  Types'
<1>1. CASE CreateUplink
  <2>1. /\ last' = <<>> /\ failed' = FALSE
        /\ payload' \in UplinkType /\ queue' \in Seq(UplinkType) /\ parts' \in Seq(PartType)
        /\ periodic' \in [len : Nat, spoilt : SUBSET Int] /\ spoilt' \in SUBSET Int
        /\ UNCHANGED <<fragment, align, FOpts, ack, handler, uplinks, answers>>
        /\ UNCHANGED <<sentUp, sentAns, stale, full>>
    BY <1>1, CreateUplinkIs DEF historyVars
  <2>2. last' \in Seq(FrameType)
    BY <2>1
  <2> QED
    BY <2>1, <2>2 DEF Types
<1>2. CASE CreateFrame
  <2>1. parts # <<>> /\ parts' = Tail(parts) /\ GetFrame(<<>>)
    BY <1>2 DEF CreateFrame
  <2>2. UNCHANGED <<fragment, align, ack, queue, payload, handler, uplinks, answers>>
    BY <1>2 DEF CreateFrame
  <2>6. periodic' \in [len : Nat, spoilt : SUBSET Int] /\ spoilt' \in SUBSET Int
    BY <1>2, CreateFrameBytes
  <2>3. parts' \in Seq(PartType) /\ Head(parts) \in PartType
    BY <2>1, HeadTailProperties DEF Types
  <2>4. last' \in Seq(FrameType) /\ failed' \in BOOLEAN
    <3>1. CASE Encodes
      <4>1. /\ last' = Append(last, [part |-> Head(parts), time |-> spoilt \cap Held(Head(parts))])
            /\ failed' = failed
        BY <1>2, <3>1 DEF CreateFrame
      <4>3. [part |-> Head(parts), time |-> spoilt \cap Held(Head(parts))] \in FrameType
        BY <2>3 DEF FrameType, Types
      <4> QED
        BY <4>1, <4>3 DEF Types
    <3>2. CASE ~Encodes
      BY <1>2, <3>2 DEF CreateFrame, Types
    <3> QED
      BY <3>1, <3>2
  <2>5. <<>> \in Seq(AnswerType)
    OBVIOUS
  <2> QED
    BY <2>1, <2>2, <2>3, <2>4, <2>5, <2>6, GetFrameTypes DEF Types
<1>3. CASE SendFrames
  <2>1. sentUp' \in Nat
    <3> DEFINE leave == IF payload.n # Periodic /\ last # <<>> THEN <<payload.n>> ELSE <<>>
    <3>1. leave \in Seq(Nat)
      BY DEF Types, UplinkType
    <3>2. sentUp' = After(sentUp, leave)
      BY <1>3, Zenon DEF SendFrames
    <3> HIDE DEF leave
    <3> QED
      BY <3>1, <3>2, AfterIs DEF Types
  <2> QED
    BY <1>3, <2>1 DEF SendFrames, Types, alignVars
<1>4. CASE SendEmptyFrame
  <2>1. GetFrame(<<>>) /\ <<>> \in Seq(AnswerType)
    BY <1>4 DEF SendEmptyFrame
  <2> QED
    BY <1>4, <2>1, GetFrameTypes DEF SendEmptyFrame, Types, alignVars
<1>5. CASE GetFramePanics
  BY <1>5 DEF GetFramePanics, Types, historyVars, alignVars
<1>6. CASE HearDownlink
  <2>1. PICK cmds \in Requests, confirmed \in BOOLEAN :
          LET q == Queued(cmds, Len(IF confirmed THEN Unloaded ELSE FOpts))
          IN /\ IF confirmed
                THEN GetFrame(Numbered(q))
                ELSE FOpts' = FOpts \o Numbered(q) /\ UNCHANGED historyVars
             /\ answers' = answers + Len(q)
             /\ ack' = [ k \in Kept |-> CleanAcks[k] \o
                           [ i \in DOMAIN AnswersTo(cmds, k) |->
                               [cmd |-> AnswersTo(cmds, k)[i], n |-> 0] ] ]
    BY <1>6, Zenon DEF HearDownlink
  <2> DEFINE n == Len(IF confirmed THEN Unloaded ELSE FOpts)
             q == Queued(cmds, n)
  <2>2. n \in Nat
    BY LoadedIs DEF Types
  <2> HIDE DEF n
  <2>3. Numbered(q) \in Seq(AnswerType) /\ Len(q) \in Nat
    BY <2>2, QueuedIs DEF Types
  <2>4. /\ IF confirmed
           THEN GetFrame(Numbered(q))
           ELSE FOpts' = FOpts \o Numbered(q) /\ UNCHANGED historyVars
        /\ answers' = answers + Len(q)
    BY <2>1 DEF n
  <2> HIDE DEF q
  <2>5. /\ FOpts' \in Seq(AnswerType) /\ sentUp' \in Nat /\ sentAns' \in Nat
        /\ stale' \in BOOLEAN /\ full' \in BOOLEAN
    <3>1. CASE confirmed
      BY <2>3, <2>4, <3>1, GetFrameTypes DEF Types
    <3>2. CASE ~confirmed
      <4>1. FOpts' = FOpts \o Numbered(q) /\ UNCHANGED <<sentUp, sentAns, stale, full>>
        BY <2>4, <3>2 DEF historyVars
      <4> QED
        BY <2>3, <4>1 DEF Types
    <3> QED
      BY <3>1, <3>2
  <2>6. ack' \in [Kept -> Seq(AnswerType)]
    <3> DEFINE new(k) == [ i \in DOMAIN AnswersTo(cmds, k) |->
                             [cmd |-> AnswersTo(cmds, k)[i], n |-> 0] ]
    <3>1. \A k \in Kept : CleanAcks[k] \in Seq(AnswerType)
      BY DEF CleanAcks, Types
    <3>2. ASSUME NEW k \in Kept
          PROVE  new(k) \in Seq(AnswerType)
      <4>1. AnswersTo(cmds, k) \in Seq(DOMAIN Answer \cap AnsweredIn(k))
        BY RequestsAssumption, ChosenIsSeq DEF AnswersTo
      <4>2. /\ Len(AnswersTo(cmds, k)) \in Nat
            /\ DOMAIN AnswersTo(cmds, k) = 1 .. Len(AnswersTo(cmds, k))
            /\ \A i \in 1 .. Len(AnswersTo(cmds, k)) : AnswersTo(cmds, k)[i] \in DOMAIN Answer
        BY <4>1
      <4>3. \A i \in 1 .. Len(AnswersTo(cmds, k)) :
              [cmd |-> AnswersTo(cmds, k)[i], n |-> 0] \in AnswerType
        BY <4>2 DEF AnswerType
      <4> QED
        BY <4>2, <4>3
    <3>3. ack' = [k \in Kept |-> CleanAcks[k] \o new(k)]
      BY <2>1
    <3> HIDE DEF new
    <3>4. \A k \in Kept : CleanAcks[k] \o new(k) \in Seq(AnswerType)
      BY <3>1, <3>2
    <3> QED
      BY <3>3, <3>4
  <2> QED
    BY <1>6, <2>3, <2>4, <2>5, <2>6 DEF HearDownlink, Types, alignVars
<1>7. CASE HearNothing
  BY <1>7 DEF HearNothing, Types, historyVars, alignVars
<1>8. ASSUME NEW len \in Lengths, BeginNewUplink(len)
      PROVE  Types'
  <2>1. [n |-> uplinks + 1, len |-> len] \in UplinkType
    BY SizesAssumption DEF Types, UplinkType
  <2>2. handler' \in HandlerType
    BY <1>8, <2>1 DEF BeginNewUplink, Types, HandlerType
  <2> QED
    BY <1>8, <2>2 DEF BeginNewUplink, handlerVars, Types, alignVars
<1>9. CASE EndNewUplink
  <2>1. queue' \in Seq(UplinkType)
    BY <1>9, Handlers DEF EndNewUplink
  <2>2. handler' \in HandlerType /\ stale' \in BOOLEAN
    BY <1>9 DEF EndNewUplink, HandlerType, Types
  <2> QED
    BY <1>9, <2>1, <2>2 DEF EndNewUplink, handlerVars, Types, alignVars
<1>10. CASE BeginSendMACCommand
  <2>1. "LinkCheckReq" \in DOMAIN Answer
    BY DEF Answer
  <2>2. [cmd |-> "LinkCheckReq", n |-> answers + 1] \in AnswerType
    BY <2>1 DEF Types, AnswerType
  <2>3. handler' \in HandlerType
    BY <1>10, <2>2 DEF BeginSendMACCommand, Types, HandlerType
  <2> QED
    BY <1>10, <2>3 DEF BeginSendMACCommand, handlerVars, Types, alignVars
<1>11. CASE EndSendMACCommand
  <2>1. FOpts' \in Seq(AnswerType)
    BY <1>11, Handlers DEF EndSendMACCommand
  <2>2. handler' \in HandlerType /\ stale' \in BOOLEAN
    BY <1>11 DEF EndSendMACCommand, HandlerType, Types
  <2> QED
    BY <1>11, <2>1, <2>2 DEF EndSendMACCommand, handlerVars, Types, alignVars
<1>12. CASE UNCHANGED vars
  BY <1>12 DEF vars, historyVars, Types, alignVars
<1> QED
  BY <1>1, <1>2, <1>3, <1>4, <1>5, <1>6, <1>7, <1>8, <1>9, <1>10, <1>11, <1>12
  DEF Next, DeviceStep, HandlerStep

----------------------------------------------------------------------------
(* The parts of a payload: those that have left and those that wait.       *)

Piece(i) == IF i <= Len(last) THEN last[i].part ELSE parts[i - Len(last)]
Pieces   == Len(last) + Len(parts)

\* Together they are the payload, or its beginning, as long as no frame was
\* dropped; past CreateUplink none waits.
PiecesInv ==
  /\ ~failed /\ Pieces > 0 =>
       /\ Piece(1).from = 1
       /\ \A i \in 1 .. Pieces - 1 : Piece(i + 1).from = Piece(i).to + 1
       /\ Piece(Pieces).to <= payload.len
       /\ fragment => Piece(Pieces).to = payload.len
  /\ stage # "frames" => parts = <<>>

\* A frame takes its part from those that wait, and the sequence stays.
LEMMA PiecesStay ==
  ASSUME Types, CreateFrame, Encodes
  PROVE  Pieces' = Pieces /\ Pieces \in Nat /\ \A i \in 1 .. Pieces : Piece(i)' = Piece(i)
<1> DEFINE frame == [part |-> Head(parts), time |-> spoilt \cap Held(Head(parts))]
<1>1. /\ parts # <<>> /\ parts' = Tail(parts) /\ last' = Append(last, frame)
      /\ parts \in Seq(PartType) /\ last \in Seq(FrameType)
  BY DEF CreateFrame, Types
<1>2. frame.part = parts[1]
  BY <1>1
<1> HIDE DEF frame
<1>3. /\ Len(parts) \in Nat /\ Len(parts) > 0 /\ Len(parts') = Len(parts) - 1
      /\ \A i \in 1 .. Len(parts) - 1 : parts'[i] = parts[i + 1]
  BY <1>1
<1>4. /\ Len(last) \in Nat /\ Len(last') = Len(last) + 1
      /\ \A i \in 1 .. Len(last) : last'[i] = last[i]
      /\ last'[Len(last) + 1] = frame
  BY <1>1
<1>5. Pieces' = Pieces /\ Pieces \in Nat
  BY <1>3, <1>4 DEF Pieces
<1>6. ASSUME NEW i \in 1 .. Pieces
      PROVE  Piece(i)' = Piece(i)
  <2>1. i \in Nat /\ 1 <= i /\ i <= Len(last) + Len(parts)
    BY <1>5 DEF Pieces
  <2>2. CASE i <= Len(last)
    BY <1>4, <2>1, <2>2 DEF Piece
  <2>3. CASE i = Len(last) + 1
    <3>1. Piece(i)' = last'[i].part
      BY <1>4, <2>3 DEF Piece
    <3>2. Piece(i) = parts[1]
      BY <1>4, <2>3 DEF Piece
    <3> QED
      BY <1>2, <1>4, <2>3, <3>1, <3>2
  <2>4. CASE i > Len(last) + 1
    <3> DEFINE j == i - (Len(last) + 1)
    <3>1. j \in 1 .. Len(parts) - 1 /\ j + 1 = i - Len(last)
      BY <1>3, <1>4, <2>1, <2>4
    <3>2. Piece(i)' = parts'[j]
      BY <1>4, <2>1, <2>4 DEF Piece
    <3>3. Piece(i) = parts[j + 1]
      BY <1>4, <2>1, <2>4, <3>1 DEF Piece
    <3> HIDE DEF j
    <3> QED
      BY <1>3, <3>1, <3>2, <3>3
  <2> QED
    BY <1>4, <2>1, <2>2, <2>3, <2>4
<1> QED
  BY <1>5, <1>6

LEMMA PiecesStep ==
  ASSUME Types, PiecesInv, [Next]_vars
  PROVE  PiecesInv'
<1>1. CASE CreateUplink
  <2>1. /\ stage' = "frames" /\ last' = <<>> /\ fragment' = fragment
        /\ parts' \in Seq(PartType) /\ Chained(parts', payload'.len)
    BY <1>1, CreateUplinkIs
  <2>2. Len(last') = 0 /\ Len(parts') \in Nat
    BY <2>1
  <2>3. Pieces' = Len(parts')
    BY <2>2 DEF Pieces
  <2>4. \A i \in 1 .. Len(parts') : Piece(i)' = parts'[i]
    BY <2>2 DEF Piece
  <2>5. Len(parts') > 0 =>
          /\ 1 \in 1 .. Len(parts') /\ Len(parts') \in 1 .. Len(parts')
          /\ \A i \in 1 .. Len(parts') - 1 : i \in 1 .. Len(parts') /\ i + 1 \in 1 .. Len(parts')
    BY <2>2
  <2> QED
    BY <2>1, <2>3, <2>4, <2>5, Zenon DEF PiecesInv, Chained
<1>2. CASE CreateFrame
  <2>1. UNCHANGED <<fragment, payload, stage>> /\ stage = "frames"
    BY <1>2 DEF CreateFrame
  <2>2. CASE Encodes
    <3>1. Pieces' = Pieces /\ Pieces \in Nat /\ \A i \in 1 .. Pieces : Piece(i)' = Piece(i)
      BY <1>2, <2>2, PiecesStay
    <3>2. failed' = failed
      BY <1>2, <2>2 DEF CreateFrame
    <3>3. Pieces > 0 =>
            /\ 1 \in 1 .. Pieces /\ Pieces \in 1 .. Pieces
            /\ \A i \in 1 .. Pieces - 1 : i \in 1 .. Pieces /\ i + 1 \in 1 .. Pieces
      BY <3>1
    <3> QED
      BY <2>1, <3>1, <3>2, <3>3, Zenon DEF PiecesInv
  <2>3. CASE ~Encodes
    <3>1. failed' = TRUE
      BY <1>2, <2>3 DEF CreateFrame
    <3> QED
      BY <2>1, <3>1 DEF PiecesInv
  <2> QED
    BY <2>2, <2>3
<1>3. CASE UNCHANGED <<fragment, last, parts, payload, failed>> /\ stage' = stage
  BY <1>3 DEF PiecesInv, Piece, Pieces
<1>4. CASE UNCHANGED <<fragment, last, parts, payload, failed>> /\ parts = <<>>
  BY <1>4 DEF PiecesInv, Piece, Pieces
<1>5. CASE SendFrames
  BY <1>4, <1>5 DEF SendFrames
<1>6. CASE SendEmptyFrame
  BY <1>4, <1>6 DEF SendEmptyFrame, PiecesInv
<1>7. CASE GetFramePanics
  BY <1>3, <1>7 DEF GetFramePanics
<1>8. CASE HearDownlink
  <2>1. stage = "windows" /\ UNCHANGED <<fragment, last, parts, payload, failed>>
    BY <1>8 DEF HearDownlink
  <2> QED
    BY <1>4, <2>1 DEF PiecesInv
<1>9. CASE HearNothing
  BY <1>4, <1>9 DEF HearNothing, PiecesInv
<1>10. CASE HandlerStep
  BY <1>3, <1>10
  DEF HandlerStep, BeginNewUplink, EndNewUplink, BeginSendMACCommand, EndSendMACCommand,
      handlerVars
<1>11. CASE UNCHANGED vars
  BY <1>3, <1>11 DEF vars
<1> QED
  BY <1>1, <1>2, <1>5, <1>6, <1>7, <1>8, <1>9, <1>10, <1>11 DEF Next, DeviceStep

\* Without AlignCurrentTime no byte of a payload, a periodic one either, is time.
OwnBytes ==
  ~align => /\ spoilt = {} /\ periodic.spoilt = {}
            /\ \A i \in DOMAIN last : last[i].time = {}

LEMMA OwnBytesStep ==
  ASSUME Types, OwnBytes, [Next]_vars
  PROVE  OwnBytes'
<1>1. CASE CreateUplink
  <2>1. align' = align /\ last' = <<>>
        /\ (~align /\ periodic.spoilt = {} => periodic'.spoilt = {} /\ spoilt' = {})
    BY <1>1, CreateUplinkIs
  <2> QED
    BY <2>1 DEF OwnBytes
<1>2. CASE CreateFrame
  <2>1. align' = align
    BY <1>2 DEF CreateFrame
  <2> SUFFICES ASSUME ~align
               PROVE  /\ spoilt' = {} /\ periodic'.spoilt = {}
                      /\ \A i \in DOMAIN last' : last'[i].time = {}
    BY <2>1 DEF OwnBytes
  <2>2. UNCHANGED <<periodic, spoilt>> /\ spoilt = {} /\ periodic.spoilt = {}
    BY <1>2, CreateFrameBytes DEF OwnBytes
  <2>3. last \in Seq(FrameType) /\ \A i \in 1 .. Len(last) : last[i].time = {}
    BY DEF OwnBytes, Types
  <2>4. CASE Encodes
    <3> DEFINE frame == [part |-> Head(parts), time |-> spoilt \cap Held(Head(parts))]
    <3>1. last' = Append(last, frame)
      BY <1>2, <2>4 DEF CreateFrame
    <3>2. frame.time = {}
      BY <2>2
    <3> HIDE DEF frame
    <3>3. \A i \in 1 .. Len(last) + 1 : last'[i].time = {}
      BY <2>3, <3>1, <3>2
    <3> QED
      BY <2>2, <2>3, <3>1, <3>3
  <2>5. CASE ~Encodes
    BY <1>2, <2>2, <2>3, <2>5 DEF CreateFrame
  <2> QED
    BY <2>4, <2>5
<1>3. CASE UNCHANGED <<alignVars, last>>
  BY <1>3 DEF OwnBytes, alignVars
<1>4. CASE SendFrames \/ SendEmptyFrame \/ GetFramePanics \/ HearDownlink \/ HearNothing
  BY <1>3, <1>4 DEF SendFrames, SendEmptyFrame, GetFramePanics, HearDownlink, HearNothing
<1>5. CASE HandlerStep
  BY <1>3, <1>5
  DEF HandlerStep, BeginNewUplink, EndNewUplink, BeginSendMACCommand, EndSendMACCommand,
      handlerVars
<1>6. CASE UNCHANGED vars
  BY <1>3, <1>6 DEF vars
<1> QED
  BY <1>1, <1>2, <1>4, <1>5, <1>6 DEF Next, DeviceStep

----------------------------------------------------------------------------
(* The order in which numbers wait and leave.                              *)

\* The numbers of s rise from above n up to m.
Rising(s, n, m) ==
  \A i \in 1 .. Len(s) :
    n < s[i].n /\ s[i].n <= m /\ \A j \in 1 .. i - 1 : s[j].n < s[i].n

LEMMA RisingAppend ==
  ASSUME NEW S, NEW s \in Seq(S), NEW e \in S, \A x \in S : x.n \in Nat,
         NEW n \in Nat, NEW m \in Int, Rising(s, n, m), n <= m, m < e.n
  PROVE  Rising(Append(s, e), n, e.n)
<1> DEFINE t == Append(s, e)
<1>1. /\ Len(s) \in Nat /\ Len(t) = Len(s) + 1 /\ t[Len(s) + 1] = e
      /\ \A i \in 1 .. Len(s) : t[i] = s[i] /\ s[i] \in S
  OBVIOUS
<1> HIDE DEF t
<1>2. e.n \in Nat /\ \A i \in 1 .. Len(s) : s[i].n \in Nat /\ n < s[i].n /\ s[i].n <= m
  BY <1>1 DEF Rising
<1>3. ASSUME NEW i \in 1 .. Len(t)
      PROVE  n < t[i].n /\ t[i].n <= e.n /\ \A j \in 1 .. i - 1 : t[j].n < t[i].n
  <2>1. CASE i = Len(s) + 1
    <3>1. t[i].n = e.n
      BY <1>1, <2>1
    <3>2. ASSUME NEW j \in 1 .. i - 1
          PROVE  t[j].n < e.n
      <4>1. j \in 1 .. Len(s)
        BY <1>1, <2>1
      <4>2. t[j].n = s[j].n
        BY <1>1, <4>1
      <4> QED
        BY <1>2, <4>1, <4>2
    <3> QED
      BY <1>2, <3>1, <3>2
  <2>2. CASE i # Len(s) + 1
    <3>1. i \in 1 .. Len(s)
      BY <1>1, <2>2
    <3>2. t[i].n = s[i].n /\ n < t[i].n /\ t[i].n <= e.n
      BY <1>1, <1>2, <3>1
    <3>3. ASSUME NEW j \in 1 .. i - 1
          PROVE  t[j].n < t[i].n
      <4>1. j \in 1 .. Len(s)
        BY <1>1, <3>1
      <4>2. s[j].n < s[i].n
        BY <3>1 DEF Rising
      <4> QED
        BY <1>1, <3>2, <4>1, <4>2
    <3> QED
      BY <3>2, <3>3
  <2> QED
    BY <2>1, <2>2
<1> QED
  BY <1>3 DEF Rising, t

LEMMA RisingTail ==
  ASSUME NEW S, NEW s \in Seq(S), s # <<>>, \A x \in S : x.n \in Nat,
         NEW n \in Nat, NEW m \in Int, Rising(s, n, m)
  PROVE  /\ n < Head(s).n /\ Head(s).n <= m
         /\ Rising(Tail(s), Head(s).n, m) /\ Rising(Tail(s), n, m)
<1> DEFINE t == Tail(s)
<1>1. /\ Len(s) \in Nat /\ Len(s) > 0 /\ Len(t) = Len(s) - 1 /\ Head(s) = s[1]
      /\ \A i \in 1 .. Len(t) : t[i] = s[i + 1]
      /\ \A i \in 1 .. Len(s) : s[i] \in S
  OBVIOUS
<1> HIDE DEF t
<1>2. n < s[1].n /\ s[1].n <= m
  BY <1>1 DEF Rising
<1>3. ASSUME NEW i \in 1 .. Len(t)
      PROVE  /\ n < t[i].n /\ s[1].n < t[i].n /\ t[i].n <= m
             /\ \A j \in 1 .. i - 1 : t[j].n < t[i].n
  <2>1. i + 1 \in 1 .. Len(s) /\ 1 \in 1 .. i + 1 - 1
    BY <1>1
  <2>2. n < s[i + 1].n /\ s[i + 1].n <= m /\ \A j \in 1 .. i + 1 - 1 : s[j].n < s[i + 1].n
    BY <2>1 DEF Rising
  <2>3. t[i] = s[i + 1]
    BY <1>1
  <2>4. ASSUME NEW j \in 1 .. i - 1
        PROVE  t[j].n < t[i].n
    <3>1. j \in 1 .. Len(t) /\ j + 1 \in 1 .. i + 1 - 1
      BY <1>1
    <3> QED
      BY <1>1, <2>2, <2>3, <3>1
  <2> QED
    BY <2>1, <2>2, <2>3, <2>4
<1> QED
  BY <1>1, <1>2, <1>3 DEF Rising, t

LEMMA RisingWeak ==
  ASSUME NEW S, NEW s \in Seq(S), \A x \in S : x.n \in Nat,
         NEW n, NEW m \in Int, NEW k \in Int, Rising(s, n, m), m <= k
  PROVE  Rising(s, n, k)
<1>1. \A i \in 1 .. Len(s) : s[i].n \in Nat
  OBVIOUS
<1> QED
  BY <1>1 DEF Rising

\* What follows s in number, and rises, may follow it in the queue.
LEMMA RisingConcat ==
  ASSUME NEW S, NEW s \in Seq(S), NEW t \in Seq(S), \A x \in S : x.n \in Nat,
         NEW n \in Nat, NEW m \in Nat, n <= m, Rising(s, n, m),
         \A i \in 1 .. Len(t) : t[i].n = m + i
  PROVE  Rising(s \o t, n, m + Len(t))
<1> DEFINE u == s \o t
<1>1. /\ Len(s) \in Nat /\ Len(t) \in Nat /\ Len(u) = Len(s) + Len(t)
      /\ \A i \in 1 .. Len(s) : u[i] = s[i] /\ s[i] \in S
      /\ \A i \in Len(s) + 1 .. Len(u) : u[i] = t[i - Len(s)]
  OBVIOUS
<1> HIDE DEF u
<1>2. ASSUME NEW i \in 1 .. Len(s)
      PROVE  /\ u[i].n = s[i].n /\ u[i].n \in Nat /\ n < u[i].n /\ u[i].n <= m
  BY <1>1 DEF Rising
<1>3. ASSUME NEW i \in 1 .. Len(u), i > Len(s)
      PROVE  u[i].n = m + (i - Len(s))
  <2>1. i - Len(s) \in 1 .. Len(t) /\ i \in Len(s) + 1 .. Len(u)
    BY <1>1, <1>3
  <2>2. u[i] = t[i - Len(s)]
    BY <1>1, <2>1, Zenon
  <2>3. t[i - Len(s)].n = m + (i - Len(s))
    BY <2>1, Zenon
  <2> QED
    BY <2>2, <2>3, Zenon
<1>4. ASSUME NEW i \in 1 .. Len(u)
      PROVE  n < u[i].n /\ u[i].n <= m + Len(t) /\ \A j \in 1 .. i - 1 : u[j].n < u[i].n
  <2>1. CASE i <= Len(s)
    <3>1. ASSUME NEW j \in 1 .. i - 1
          PROVE  u[j].n < u[i].n
      <4>1. i \in 1 .. Len(s) /\ j \in 1 .. Len(s)
        BY <1>1, <2>1
      <4>2. s[j].n < s[i].n
        BY <4>1 DEF Rising
      <4> QED
        BY <1>2, <4>1, <4>2
    <3> QED
      BY <1>1, <1>2, <2>1, <3>1
  <2>2. CASE i > Len(s)
    <3>1. u[i].n = m + (i - Len(s))
      BY <1>3, <2>2
    <3>2. ASSUME NEW j \in 1 .. i - 1
          PROVE  u[j].n < u[i].n
      <4>1. CASE j <= Len(s)
        <5>1. u[j].n <= m /\ u[j].n \in Nat
          BY <1>2, <4>1
        <5> QED
          BY <1>1, <2>2, <3>1, <5>1
      <4>2. CASE j > Len(s)
        <5>1. u[j].n = m + (j - Len(s))
          BY <1>1, <1>3, <4>2
        <5> QED
          BY <1>1, <3>1, <5>1
      <4> QED
        BY <1>1, <4>1, <4>2
    <3> QED
      BY <1>1, <2>2, <3>1, <3>2
  <2> QED
    BY <1>1, <2>1, <2>2
<1> QED
  BY <1>4 DEF Rising, u

\* What rises from above n leaves after n in order.
LEMMA LeavesInOrder ==
  ASSUME NEW cmds \in Seq(AnswerType), NEW n \in Nat, NEW m \in Nat, n <= m,
         Rising(cmds, n, m)
  PROVE  /\ Increasing(<<n>> \o Numbers(cmds))
         /\ After(n, Numbers(cmds)) \in Nat /\ After(n, Numbers(cmds)) <= m
<1> DEFINE s == Numbers(cmds)
<1>1. /\ s \in Seq(Nat) /\ Len(s) = Len(cmds) /\ Len(s) \in Nat
      /\ \A i \in 1 .. Len(s) : s[i] = cmds[i].n
  BY NumbersIs
<1>2. \A i \in 1 .. Len(s) : n < s[i] /\ s[i] <= m /\ \A j \in 1 .. i - 1 : s[j] < s[i]
  <2> TAKE i \in 1 .. Len(s)
  <2>1. \A j \in 1 .. i - 1 : j \in 1 .. Len(s)
    BY <1>1
  <2> QED
    BY <1>1, <2>1 DEF Rising
<1> HIDE DEF s
<1>3. After(n, s) \in Nat /\ After(n, s) <= m
  <2>1. CASE s = <<>>
    BY <2>1 DEF After
  <2>2. CASE s # <<>>
    <3>1. Len(s) \in 1 .. Len(s)
      BY <1>1, <2>2
    <3> QED
      BY <1>1, <1>2, <2>2, <3>1 DEF After
  <2> QED
    BY <2>1, <2>2
<1>4. Increasing(<<n>> \o s)
  <2> DEFINE u == <<n>> \o s
  <2>1. /\ Len(u) = Len(s) + 1 /\ u[1] = n
        /\ \A i \in 1 .. Len(s) : u[i + 1] = s[i]
    BY <1>1
  <2> HIDE DEF u
  <2>2. ASSUME NEW i \in 1 .. Len(u) - 1
        PROVE  u[i] < u[i + 1]
    <3>1. i \in 1 .. Len(s)
      BY <1>1, <2>1
    <3>2. CASE i = 1
      BY <1>2, <2>1, <3>1, <3>2
    <3>3. CASE i > 1
      <4>1. i - 1 \in 1 .. i - 1 /\ i - 1 \in 1 .. Len(s) /\ (i - 1) + 1 = i
        BY <3>1, <3>3
      <4>2. u[i] = s[i - 1]
        BY <2>1, <4>1
      <4>3. u[i + 1] = s[i] /\ s[i - 1] < s[i]
        BY <1>2, <2>1, <3>1, <4>1
      <4> QED
        BY <4>2, <4>3
    <3> QED
      BY <3>1, <3>2, <3>3
  <2> QED
    BY <2>2 DEF Increasing, u
<1> QED
  BY <1>3, <1>4 DEF s

----------------------------------------------------------------------------
(* Uplinks.                                                                *)

\* The last uplink that may be queued or have left: a handler holds the next.
LastUp == IF handler.op = "uplink" THEN uplinks - 1 ELSE uplinks

\* Until a handler puts back what was taken: what is queued rises from above
\* what has left, with what is being cut in between.
UplinksInv ==
  ~stale =>
    /\ sentUp <= LastUp /\ Rising(queue, sentUp, LastUp)
    /\ stage = "frames" /\ payload.n # Periodic =>
         /\ sentUp < payload.n /\ payload.n <= LastUp
         /\ Rising(queue, payload.n, LastUp)
    /\ handler.op = "uplink" => handler.new.n = uplinks
    /\ "uplinks" \notin disorder

LEMMA Ordered ==
  ASSUME Types
  PROVE  /\ LastUp \in Int /\ LastUp <= uplinks /\ payload.n \in Nat
         /\ \A x \in UplinkType : x.n \in Nat
         /\ \A x \in AnswerType : x.n \in Nat
BY DEF Types, LastUp, UplinkType, AnswerType

LEMMA TwoInOrder ==
  ASSUME NEW n \in Nat, NEW m \in Nat, n < m
  PROVE  Increasing(<<n>> \o <<m>>)
<1> DEFINE u == <<n>> \o <<m>>
<1>1. Len(u) = 2 /\ u[1] = n /\ u[2] = m
  OBVIOUS
<1> HIDE DEF u
<1>2. \A i \in 1 .. Len(u) - 1 : u[i] < u[i + 1]
  BY <1>1
<1> QED
  BY <1>2 DEF Increasing, u

\* GetFrame notes answers, not uplinks.
LEMMA GetFrameNotes ==
  ASSUME NEW added, GetFrame(added)
  PROVE  "uplinks" \in disorder' <=> "uplinks" \in disorder
BY DEF GetFrame, Noted

\* What leaves UplinksInv as it was.
LEMMA UplinksStay ==
  ASSUME UplinksInv, UNCHANGED <<queue, payload, handler, uplinks, sentUp>>,
         stale => stale',
         "uplinks" \in disorder' => "uplinks" \in disorder,
         stage' = "frames" => stage = "frames"
  PROVE  UplinksInv'
<1>1. LastUp' = LastUp
  BY DEF LastUp
<1>2. /\ Rising(queue, sentUp, LastUp)' <=> Rising(queue, sentUp, LastUp)
      /\ Rising(queue, payload.n, LastUp)' <=> Rising(queue, payload.n, LastUp)
  BY <1>1 DEF Rising
<1> QED
  BY <1>1, <1>2, Zenon DEF UplinksInv

LEMMA UplinksStep ==
  ASSUME Types, UplinksInv, [Next]_vars
  PROVE  UplinksInv'
<1>1. CASE CreateUplink
  <2>1. UNCHANGED <<handler, uplinks, sentUp, disorder, stale>> /\ LastUp' = LastUp
    BY <1>1, CreateUplinkIs DEF historyVars, LastUp
  <2>2. CASE stale
    BY <2>1, <2>2 DEF UplinksInv
  <2>3. CASE ~stale
    <3>1. /\ sentUp <= LastUp /\ Rising(queue, sentUp, LastUp)
          /\ handler.op = "uplink" => handler.new.n = uplinks
          /\ "uplinks" \notin disorder
      BY <2>3 DEF UplinksInv
    <3>2. CASE queue # <<>>
      <4>1. payload' = Head(queue) /\ queue' = Tail(queue)
        BY <1>1, <3>2, CreateUplinkIs
      <4>2. /\ sentUp < payload'.n /\ payload'.n <= LastUp
            /\ Rising(queue', payload'.n, LastUp) /\ Rising(queue', sentUp, LastUp)
        BY <3>1, <3>2, <4>1, Ordered, RisingTail DEF Types
      <4> QED
        BY <2>1, <3>1, <4>2 DEF UplinksInv
    <3>3. CASE queue = <<>>
      <4>1. payload'.n = Periodic /\ queue' = queue
        BY <1>1, <3>3, CreateUplinkIs
      <4> QED
        BY <2>1, <3>1, <4>1 DEF UplinksInv
    <3> QED
      BY <3>2, <3>3
  <2> QED
    BY <2>2, <2>3
<1>2. CASE CreateFrame
  <2>1. /\ UNCHANGED <<queue, payload, handler, uplinks, stage>>
        /\ GetFrame(<<>>)
    BY <1>2 DEF CreateFrame
  <2>2. UNCHANGED <<sentUp, stale>>
    BY <2>1 DEF GetFrame
  <2> QED
    BY <2>1, <2>2, GetFrameNotes, UplinksStay
<1>3. CASE SendFrames
  <2> DEFINE leave == IF payload.n # Periodic /\ last # <<>> THEN <<payload.n>> ELSE <<>>
  <2>1. /\ stage = "frames" /\ stage' = "windows"
        /\ sentUp' = After(sentUp, leave) /\ disorder' = Noted("uplinks", sentUp, leave)
        /\ UNCHANGED <<queue, payload, handler, uplinks, stale>>
    BY <1>3, Zenon DEF SendFrames
  <2>2. CASE stale
    BY <2>1, <2>2 DEF UplinksInv
  <2>3. CASE ~stale
    <3>1. /\ sentUp <= LastUp /\ Rising(queue, sentUp, LastUp)
          /\ payload.n # Periodic =>
               /\ sentUp < payload.n /\ payload.n <= LastUp
               /\ Rising(queue, payload.n, LastUp)
          /\ handler.op = "uplink" => handler.new.n = uplinks
          /\ "uplinks" \notin disorder
      BY <2>1, <2>3 DEF UplinksInv
    <3>2. LastUp' = LastUp
      BY <2>1 DEF LastUp
    <3>3. CASE leave = <<>>
      <4>1. sentUp' = sentUp
        BY <2>1, <3>3 DEF After
      <4>2. Increasing(<<sentUp>> \o leave)
        BY <3>3 DEF Increasing, Types
      <4>3. disorder' = disorder
        BY <2>1, <4>2 DEF Noted
      <4> QED
        BY <2>1, <3>1, <3>2, <4>1, <4>3 DEF UplinksInv
    <3>4. CASE leave # <<>>
      <4>1. leave = <<payload.n>> /\ payload.n # Periodic
        BY <3>4
      <4>2. sentUp' = payload.n
        BY <2>1, <4>1 DEF After
      <4>3. Increasing(<<sentUp>> \o leave)
        BY <3>1, <4>1, Ordered, TwoInOrder DEF Types
      <4>4. disorder' = disorder
        BY <2>1, <4>3 DEF Noted
      <4> QED
        BY <2>1, <3>1, <3>2, <4>1, <4>2, <4>4 DEF UplinksInv
    <3> QED
      BY <3>3, <3>4
  <2> QED
    BY <2>2, <2>3
<1>4. CASE SendEmptyFrame
  <2>1. /\ UNCHANGED <<queue, payload, handler, uplinks>> /\ stage' = "windows"
        /\ GetFrame(<<>>)
    BY <1>4 DEF SendEmptyFrame
  <2>2. UNCHANGED <<sentUp, stale>>
    BY <2>1 DEF GetFrame
  <2> QED
    BY <2>1, <2>2, GetFrameNotes, UplinksStay
<1>5. CASE GetFramePanics
  BY <1>5, UplinksStay DEF GetFramePanics, historyVars
<1>6. CASE HearDownlink
  <2>1. /\ UNCHANGED <<queue, payload, handler, uplinks>> /\ stage' # "frames"
        /\ (\E added : GetFrame(added)) \/ UNCHANGED historyVars
    BY <1>6 DEF HearDownlink
  <2>2. CASE UNCHANGED historyVars
    BY <2>1, <2>2, UplinksStay DEF historyVars
  <2>3. CASE \E added : GetFrame(added)
    <3>1. PICK added : GetFrame(added)
      BY <2>3
    <3>2. UNCHANGED <<sentUp, stale>>
      BY <3>1 DEF GetFrame
    <3> QED
      BY <2>1, <3>1, <3>2, GetFrameNotes, UplinksStay
  <2> QED
    BY <2>1, <2>2, <2>3
<1>7. CASE HearNothing
  BY <1>7, UplinksStay DEF HearNothing, historyVars
<1>8. ASSUME NEW len \in Lengths, BeginNewUplink(len)
      PROVE  UplinksInv'
  <2>1. /\ uplinks' = uplinks + 1 /\ handler'.op = "uplink" /\ handler'.new.n = uplinks + 1
        /\ handler = Idle
        /\ UNCHANGED <<queue, payload, stage, sentUp, disorder, stale>>
    BY <1>8 DEF BeginNewUplink, handlerVars
  <2>2. LastUp' = uplinks /\ LastUp = uplinks
    BY <2>1, Handlers DEF LastUp, Types
  <2> QED
    BY <2>1, <2>2 DEF UplinksInv
<1>9. CASE EndNewUplink
  <2>1. /\ handler.op = "uplink" /\ handler' = Idle
        /\ queue' = Append(handler.read, handler.new)
        /\ stale' = (stale \/ handler.read # queue)
        /\ UNCHANGED <<uplinks, payload, stage, sentUp, disorder>>
    BY <1>9 DEF EndNewUplink, handlerVars
  <2>2. CASE stale'
    BY <2>2 DEF UplinksInv
  <2>3. CASE ~stale'
    <3>1. ~stale /\ handler.read = queue
      BY <2>1, <2>3
    <3>2. LastUp = uplinks - 1 /\ LastUp' = uplinks /\ handler'.op # "uplink"
      BY <2>1, Handlers DEF LastUp
    <3>3. handler.new \in UplinkType /\ handler.new.n = uplinks /\ LastUp < handler.new.n
      BY <2>1, <3>1, <3>2, Handlers DEF UplinksInv, Types
    <3>4. queue' = Append(queue, handler.new)
      BY <2>1, <3>1
    <3>5. /\ sentUp <= LastUp /\ Rising(queue, sentUp, LastUp)
          /\ stage = "frames" /\ payload.n # Periodic =>
               /\ sentUp < payload.n /\ payload.n <= LastUp
               /\ Rising(queue, payload.n, LastUp)
          /\ "uplinks" \notin disorder
      BY <3>1 DEF UplinksInv
    <3>6. sentUp <= uplinks /\ Rising(queue', sentUp, uplinks)
      <4>1. Rising(Append(queue, handler.new), sentUp, handler.new.n)
        BY <3>3, <3>5, Ordered, RisingAppend DEF Types
      <4> QED
        BY <3>2, <3>3, <3>4, <3>5, <4>1 DEF Types
    <3>7. ASSUME stage = "frames", payload.n # Periodic
          PROVE  payload.n <= uplinks /\ Rising(queue', payload.n, uplinks)
      <4>1. payload.n <= LastUp /\ Rising(queue, payload.n, LastUp)
        BY <3>5, <3>7
      <4>2. Rising(Append(queue, handler.new), payload.n, handler.new.n)
        BY <3>3, <4>1, Ordered, RisingAppend DEF Types
      <4> QED
        BY <3>2, <3>3, <3>4, <4>1, <4>2, Ordered DEF Types
    <3> QED
      BY <2>1, <3>2, <3>5, <3>6, <3>7 DEF UplinksInv
  <2> QED
    BY <2>2, <2>3
<1>10. ASSUME UNCHANGED <<queue, payload, stage, uplinks, sentUp, disorder>>,
              stale => stale', LastUp' = LastUp, handler'.op # "uplink"
       PROVE  UplinksInv'
  BY <1>10 DEF UplinksInv
<1>11. CASE BeginSendMACCommand
  <2>1. handler = Idle /\ handler'.op = "command" /\ UNCHANGED uplinks
    BY <1>11 DEF BeginSendMACCommand
  <2>2. LastUp' = LastUp
    BY <2>1, Handlers DEF LastUp
  <2> QED
    BY <1>10, <1>11, <2>1, <2>2 DEF BeginSendMACCommand, handlerVars
<1>12. CASE EndSendMACCommand
  <2>1. handler.op = "command" /\ handler' = Idle /\ UNCHANGED uplinks
    BY <1>12 DEF EndSendMACCommand
  <2>2. LastUp' = LastUp /\ handler'.op # "uplink"
    BY <2>1, Handlers DEF LastUp
  <2> QED
    BY <1>10, <1>12, <2>1, <2>2 DEF EndSendMACCommand, handlerVars
<1>13. CASE UNCHANGED vars
  BY <1>13, UplinksStay DEF vars, historyVars
<1> QED
  BY <1>1, <1>2, <1>3, <1>4, <1>5, <1>6, <1>7, <1>8, <1>9, <1>11, <1>12, <1>13
  DEF Next, DeviceStep, HandlerStep

----------------------------------------------------------------------------
(* Answers.                                                                *)

LastAns == IF handler.op = "command" THEN answers - 1 ELSE answers

\* The same of the answers, until a frame leaves some behind.
AnswersInv ==
  ~stale /\ ~full =>
    /\ sentAns <= LastAns /\ Rising(FOpts, sentAns, LastAns)
    /\ handler.op = "command" => handler.new.n = answers
    /\ "answers" \notin disorder

LEMMA AnswersBound ==
  ASSUME Types
  PROVE  LastAns \in Int /\ LastAns <= answers
BY DEF Types, LastAns

\* A frame short of the limit takes all that waits, in order.
LEMMA GetFrameOrder ==
  ASSUME Types, AnswersInv, ~stale, NEW added \in Seq(AnswerType), GetFrame(added), ~full'
  PROVE  /\ ~full /\ FOpts' = added
         /\ sentAns' \in Nat /\ sentAns' <= LastAns
         /\ "answers" \notin disorder'
<1> DEFINE leave == IF Encodes THEN Numbers(Loaded) ELSE <<>>
<1>1. /\ FOpts' = Unloaded \o added
      /\ sentAns' = After(sentAns, leave)
      /\ disorder' = Noted("answers", sentAns, leave)
      /\ full' = (full \/ (FOpts # <<>> /\ ~Fits))
  BY Zenon DEF GetFrame
<1>2. ~full /\ (FOpts = <<>> \/ Fits)
  BY <1>1 DEF Types
<1>3. Loaded = FOpts /\ Unloaded = <<>>
  BY <1>2, LoadedIs
<1>4. FOpts' = added
  BY <1>1, <1>3
<1>5. sentAns <= LastAns /\ Rising(FOpts, sentAns, LastAns) /\ "answers" \notin disorder
  BY <1>2 DEF AnswersInv
<1>6. sentAns \in Nat /\ LastAns \in Nat
  BY <1>5, AnswersBound DEF Types
<1>7. /\ Increasing(<<sentAns>> \o leave)
      /\ After(sentAns, leave) \in Nat /\ After(sentAns, leave) <= LastAns
  <2>1. CASE Encodes
    BY <1>3, <1>5, <1>6, <2>1, LeavesInOrder DEF Types
  <2>2. CASE ~Encodes
    <3>1. leave = <<>>
      BY <2>2
    <3>2. Increasing(<<sentAns>> \o <<>>)
      BY <1>6 DEF Increasing
    <3>3. After(sentAns, <<>>) = sentAns
      BY DEF After
    <3> QED
      BY <1>5, <1>6, <3>1, <3>2, <3>3
  <2> QED
    BY <2>1, <2>2
<1>8. disorder' = disorder
  BY <1>1, <1>7 DEF Noted
<1> QED
  BY <1>1, <1>2, <1>4, <1>5, <1>7, <1>8

\* A frame to which nothing is added.
LEMMA EmptyFrameKeeps ==
  ASSUME Types, AnswersInv, GetFrame(<<>>), UNCHANGED <<handler, answers>>
  PROVE  AnswersInv'
<1>1. UNCHANGED <<stale>> /\ LastAns' = LastAns /\ <<>> \in Seq(AnswerType)
  BY DEF GetFrame, LastAns
<1>2. CASE stale \/ full'
  BY <1>1, <1>2 DEF AnswersInv
<1>3. CASE ~stale /\ ~full'
  <2>1. /\ ~full /\ FOpts' = <<>> /\ sentAns' <= LastAns
        /\ "answers" \notin disorder'
    BY <1>1, <1>3, GetFrameOrder
  <2>2. handler.op = "command" => handler.new.n = answers
    BY <1>3, <2>1 DEF AnswersInv
  <2>3. Rising(FOpts', sentAns', LastAns)
    BY <2>1 DEF Rising
  <2> QED
    BY <1>1, <2>1, <2>2, <2>3 DEF AnswersInv
<1> QED
  BY <1>2, <1>3

\* What leaves AnswersInv as it was.
LEMMA AnswersStay ==
  ASSUME AnswersInv, UNCHANGED <<FOpts, answers, sentAns, full>>,
         stale => stale',
         "answers" \in disorder' => "answers" \in disorder,
         UNCHANGED handler \/ (handler.op # "command" /\ handler'.op # "command")
  PROVE  AnswersInv'
<1>1. LastAns' = LastAns
  BY DEF LastAns
<1>2. Rising(FOpts, sentAns, LastAns)' <=> Rising(FOpts, sentAns, LastAns)
  BY <1>1 DEF Rising
<1>3. handler'.op = "command" => handler' = handler
  OBVIOUS
<1> QED
  BY <1>1, <1>2, <1>3, Zenon DEF AnswersInv

LEMMA AnswersStep ==
  ASSUME Types, AnswersInv, [Next]_vars
  PROVE  AnswersInv'
<1>1. CASE CreateUplink
  BY <1>1, CreateUplinkIs, AnswersStay DEF historyVars
<1>2. CASE CreateFrame
  BY <1>2, EmptyFrameKeeps DEF CreateFrame
<1>3. CASE SendFrames
  <2>1. /\ UNCHANGED <<FOpts, answers, sentAns, full, stale, handler>>
        /\ \E leave : disorder' = Noted("uplinks", sentUp, leave)
    BY <1>3 DEF SendFrames
  <2>2. "answers" \in disorder' => "answers" \in disorder
    BY <2>1 DEF Noted
  <2> QED
    BY <2>1, <2>2, AnswersStay
<1>4. CASE SendEmptyFrame
  BY <1>4, EmptyFrameKeeps DEF SendEmptyFrame
<1>5. CASE GetFramePanics
  BY <1>5, AnswersStay DEF GetFramePanics, historyVars
<1>6. CASE HearDownlink
  <2>1. PICK cmds \in Requests, confirmed \in BOOLEAN :
          LET q == Queued(cmds, Len(IF confirmed THEN Unloaded ELSE FOpts))
          IN /\ IF confirmed
                THEN GetFrame(Numbered(q))
                ELSE FOpts' = FOpts \o Numbered(q) /\ UNCHANGED historyVars
             /\ answers' = answers + Len(q)
    BY <1>6, Zenon DEF HearDownlink
  <2> DEFINE n == Len(IF confirmed THEN Unloaded ELSE FOpts)
             q == Queued(cmds, n)
  <2>2. n \in Nat
    BY LoadedIs DEF Types
  <2>3. /\ confirmed => GetFrame(Numbered(q))
        /\ ~confirmed => FOpts' = FOpts \o Numbered(q) /\ UNCHANGED historyVars
        /\ answers' = answers + Len(q)
    BY <2>1, Zenon
  <2> HIDE DEF n
  <2>4. /\ Numbered(q) \in Seq(AnswerType) /\ Len(Numbered(q)) = Len(q) /\ Len(q) \in Nat
        /\ \A i \in 1 .. Len(q) : Numbered(q)[i].n = answers + i
    BY <2>2, QueuedIs DEF Types
  <2> DEFINE new == Numbered(q)
  <2>5. /\ confirmed => GetFrame(new)
        /\ ~confirmed => FOpts' = FOpts \o new /\ UNCHANGED historyVars
        /\ answers' = answers + Len(new)
        /\ new \in Seq(AnswerType) /\ Len(new) \in Nat
        /\ \A i \in 1 .. Len(new) : new[i].n = answers + i
    BY <2>3, <2>4
  <2> HIDE DEF q, new
  <2>6. /\ handler.op # "command" /\ handler' = handler
        /\ LastAns = answers /\ LastAns' = answers + Len(new)
    BY <1>6, <2>5 DEF HearDownlink, LastAns
  <2>7. UNCHANGED stale
    BY <2>5 DEF GetFrame, historyVars
  <2>8. CASE stale \/ full'
    BY <2>7, <2>8 DEF AnswersInv
  <2>9. CASE ~stale /\ ~full'
    <3>1. CASE confirmed
      <4>1. /\ ~full /\ FOpts' = new /\ sentAns' \in Nat /\ sentAns' <= answers
            /\ "answers" \notin disorder'
        BY <2>5, <2>6, <2>9, <3>1, GetFrameOrder
      <4>2. Rising(<<>>, sentAns', answers)
        BY DEF Rising
      <4>3. <<>> \in Seq(AnswerType) /\ <<>> \o new = new
        BY <2>5
      <4>4. Rising(<<>> \o new, sentAns', answers + Len(new))
        BY <2>5, <4>1, <4>2, <4>3, Ordered, RisingConcat DEF Types
      <4>5. sentAns' <= answers + Len(new)
        BY <2>5, <4>1 DEF Types
      <4> QED
        BY <2>6, <4>1, <4>3, <4>4, <4>5, Zenon DEF AnswersInv
    <3>2. CASE ~confirmed
      <4>1. FOpts' = FOpts \o new /\ UNCHANGED <<sentAns, disorder, full>>
        BY <2>5, <3>2 DEF historyVars
      <4>2. /\ sentAns <= answers /\ Rising(FOpts, sentAns, answers)
            /\ "answers" \notin disorder
        BY <2>6, <2>9, <4>1 DEF AnswersInv
      <4>3. Rising(FOpts \o new, sentAns, answers + Len(new))
        BY <2>5, <4>2, Ordered, RisingConcat DEF Types
      <4>4. sentAns <= answers + Len(new)
        BY <2>5, <4>2 DEF Types
      <4> QED
        BY <2>6, <4>1, <4>2, <4>3, <4>4, Zenon DEF AnswersInv
    <3> QED
      BY <3>1, <3>2
  <2> QED
    BY <2>8, <2>9
<1>7. CASE HearNothing
  BY <1>7, AnswersStay DEF HearNothing, historyVars
<1>8. ASSUME NEW len \in Lengths, BeginNewUplink(len)
      PROVE  AnswersInv'
  <2>1. handler = Idle /\ handler'.op = "uplink"
    BY <1>8 DEF BeginNewUplink
  <2>2. handler.op # "command" /\ handler'.op # "command"
    BY <2>1, Handlers
  <2> QED
    BY <1>8, <2>2, AnswersStay DEF BeginNewUplink, handlerVars
<1>9. CASE EndNewUplink
  <2>1. handler.op = "uplink" /\ handler' = Idle /\ (stale => stale')
    BY <1>9 DEF EndNewUplink
  <2>2. handler.op # "command" /\ handler'.op # "command"
    BY <2>1, Handlers
  <2> QED
    BY <1>9, <2>1, <2>2, AnswersStay DEF EndNewUplink, handlerVars
<1>10. CASE BeginSendMACCommand
  <2>1. /\ answers' = answers + 1 /\ handler = Idle
        /\ handler'.op = "command" /\ handler'.new.n = answers + 1
        /\ UNCHANGED <<FOpts, sentAns, disorder, stale, full>>
    BY <1>10 DEF BeginSendMACCommand, handlerVars
  <2>2. LastAns' = answers /\ LastAns = answers
    BY <2>1, Handlers DEF LastAns, Types
  <2> QED
    BY <2>1, <2>2 DEF AnswersInv
<1>11. CASE EndSendMACCommand
  <2>1. /\ handler.op = "command" /\ handler' = Idle
        /\ FOpts' = Append(handler.read, handler.new)
        /\ stale' = (stale \/ handler.read # FOpts)
        /\ UNCHANGED <<answers, sentAns, disorder, full>>
    BY <1>11 DEF EndSendMACCommand, handlerVars
  <2>2. CASE stale' \/ full
    BY <2>1, <2>2 DEF AnswersInv
  <2>3. CASE ~stale' /\ ~full
    <3>1. ~stale /\ FOpts' = Append(FOpts, handler.new)
      BY <2>1, <2>3
    <3>2. LastAns = answers - 1 /\ LastAns' = answers /\ handler'.op # "command"
      BY <2>1, Handlers DEF LastAns
    <3>3. handler.new \in AnswerType /\ handler.new.n = answers /\ LastAns < handler.new.n
      BY <2>1, <2>3, <3>1, <3>2, Handlers DEF AnswersInv, Types
    <3>4. /\ sentAns <= LastAns /\ Rising(FOpts, sentAns, LastAns)
          /\ "answers" \notin disorder
      BY <2>3, <3>1 DEF AnswersInv
    <3>5. Rising(Append(FOpts, handler.new), sentAns, handler.new.n)
      BY <3>3, <3>4, Ordered, AnswersBound, RisingAppend DEF Types
    <3>6. sentAns <= answers
      BY <3>2, <3>4 DEF Types
    <3>7. Rising(FOpts', sentAns', LastAns')
      BY <2>1, <3>1, <3>2, <3>3, <3>5
    <3> QED
      BY <2>1, <3>2, <3>4, <3>6, <3>7 DEF AnswersInv
  <2> QED
    BY <2>1, <2>2, <2>3 DEF Types
<1>12. CASE UNCHANGED vars
  BY <1>12, AnswersStay DEF vars, historyVars
<1> QED
  BY <1>1, <1>2, <1>3, <1>4, <1>5, <1>6, <1>7, <1>8, <1>9, <1>10, <1>11, <1>12
  DEF Next, DeviceStep, HandlerStep

----------------------------------------------------------------------------
(* The invariant and the theorems.                                         *)

IInv == Types /\ PiecesInv /\ OwnBytes /\ UplinksInv /\ AnswersInv

LEMMA Start == Init => IInv
<1> SUFFICES ASSUME Init PROVE IInv
  OBVIOUS
<1>1. Types
  <2>1. payload \in UplinkType /\ handler \in HandlerType
    BY DEF Init, HandlerType, UplinkType, Periodic
  <2>2. /\ FOpts \in Seq(AnswerType) /\ ack \in [Kept -> Seq(AnswerType)]
        /\ queue \in Seq(UplinkType) /\ parts \in Seq(PartType) /\ last \in Seq(FrameType)
    BY DEF Init
  <2>3. fragment \in BOOLEAN /\ align \in BOOLEAN
    BY SizesAssumption DEF Init
  <2>4. periodic \in [len : Nat, spoilt : SUBSET Int] /\ spoilt \in SUBSET Int
    BY SizesAssumption DEF Init, Unspoilt
  <2> QED
    BY <2>1, <2>2, <2>3, <2>4 DEF Init, Types
<1>2. PiecesInv
  BY DEF Init, PiecesInv, Pieces
<1>5. OwnBytes
  BY DEF Init, OwnBytes, Unspoilt
<1>3. UplinksInv
  BY DEF Init, UplinksInv, LastUp, Rising, Idle
<1>4. AnswersInv
  BY DEF Init, AnswersInv, LastAns, Rising, Idle
<1> QED
  BY <1>1, <1>2, <1>3, <1>4, <1>5 DEF IInv

LEMMA Holds == Spec => []IInv
<1>1. Init => IInv
  BY Start
<1>2. IInv /\ [Next]_vars => IInv'
  BY TypesStep, PiecesStep, OwnBytesStep, UplinksStep, AnswersStep DEF IInv
<1> QED
  BY <1>1, <1>2, PTL DEF Spec

\* Unless a handler has put back what the device took (NewUplink, SendMACCommand
\* against the device's goroutine), queued uplinks leave each once in the order in
\* which they were made, and so do answers unless a frame was at the limit.
THEOREM LeaveOnceInOrder == Spec => []SentOnceInOrder
<1>1. IInv => SentOnceInOrder
  BY DEF IInv, Types, UplinksInv, AnswersInv, SentOnceInOrder
<1> QED
  BY <1>1, Holds, PTL

\* The parts of an uplink's frames (CreateUplink, Fragmentation, Truncate) are its
\* payload, or its beginning, without gap or overlap, whatever the lengths and the
\* room in a frame; without AlignCurrentTime the frames carry just that.
THEOREM FramesReassemble == Spec => []Reassembles
<1>1. IInv => Reassembles
  <2> SUFFICES ASSUME IInv, stage = "windows", ~failed, last # <<>>
               PROVE  /\ last[1].part.from = 1
                      /\ \A i \in 1 .. Len(last) - 1 :
                           last[i + 1].part.from = last[i].part.to + 1
                      /\ last[Len(last)].part.to <= payload.len
                      /\ fragment => last[Len(last)].part.to = payload.len
    BY DEF Reassembles, IInv, OwnBytes
  <2>1. parts = <<>> /\ Len(last) \in Nat /\ Len(last) > 0
    BY DEF IInv, PiecesInv, Types
  <2>2. Pieces = Len(last) /\ \A i \in 1 .. Len(last) : Piece(i) = last[i].part
    BY <2>1 DEF Pieces, Piece
  <2>3. /\ Piece(1).from = 1
        /\ \A i \in 1 .. Len(last) - 1 : Piece(i + 1).from = Piece(i).to + 1
        /\ Piece(Len(last)).to <= payload.len
        /\ fragment => Piece(Len(last)).to = payload.len
    BY <2>1, <2>2 DEF IInv, PiecesInv
  <2>4. /\ 1 \in 1 .. Len(last) /\ Len(last) \in 1 .. Len(last)
        /\ \A i \in 1 .. Len(last) - 1 : i \in 1 .. Len(last) /\ i + 1 \in 1 .. Len(last)
    BY <2>1
  <2> QED
    BY <2>2, <2>3, <2>4, Zenon
<1> QED
  BY <1>1, Holds, PTL

================================================================================
