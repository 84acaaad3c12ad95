------------------------ MODULE MCSessionInputProofs ------------------------
(***************************************************************************)
(* What is proved of the parts on the input side of a session: the zero-   *)
(* copy file source, the decoder, the desktop player and the preview       *)
(* window. Each theorem holds of the part by itself and of the composition *)
(* of MCSessionInput.                                                      *)
(***************************************************************************)
EXTENDS MCSessionInput, FiniteSetTheorems, SequenceTheorems, WellFoundedInduction, TLAPS

------------------------------------------------------------------------------
(***************************************************************************)
(* ZeroCopySource: two decode threads, a pairing thread and the session    *)
(* pass the slots of two rings round.                                      *)
(***************************************************************************)

\* The two cameras.
Cams == Source!Cameras

\* A thread that has no slot.
NoSlot == Source!None

\* Who has a slot at which point of its loop, and how long the channels are.
SourceShape ==
    /\ \A c \in Cams :
           /\ Len(decodedChan[c]) <= 1
           /\ decoder[c] \in {"skipping", "polling", "taking"} => writeSlot[c] = NoSlot
           /\ decoder[c] \in {"copying", "sending"} => writeSlot[c] # NoSlot
    /\ Len(frameChan) <= 1
    /\ pairer = "left" => pairLeft = NoSlot
    /\ pairer \in {"left", "right"} => pairRight = NoSlot
    /\ pairer = "sending" => pairLeft # NoSlot /\ pairRight # NoSlot
    /\ session \in {"receiving", "exhausted"} => held = Source!NoPair
    /\ session \in {"holding", "detecting"} => held.left # NoSlot /\ held.right # NoSlot
    /\ shutdown => session \in {"dropping", "dropped"}
    /\ session = "exhausted" => frameChan = <<>> /\ pairer = "exited"
    /\ mode = "Buffered" => gpuReads = <<>>

\* What every step needs to know of the state.
SourceTyped == Source!TypeOK /\ SourceShape

\* The same for one camera.
CamTyped(c) ==
    /\ lengths[c] \in Nat /\ decoded[c] \in Nat
    /\ slotFree[c] \in Seq({0, 1}) /\ Len(slotFree[c]) \in Nat
    /\ decodedChan[c] \in Seq({0, 1}) /\ Len(decodedChan[c]) \in {0, 1}
    /\ decodedChan[c] # <<>> => Len(decodedChan[c]) = 1 /\ decodedChan[c][1] \in {0, 1}
    /\ frameChan # <<>> => frameChan[1][c] \in {0, 1}
    /\ writeSlot[c] \in {0, 1, -1} /\ held[c] \in {0, 1, -1}

\* The typed state, one camera at a time.
LEMMA SourceTypes ==
  ASSUME SourceTyped
  PROVE  /\ \A c \in Cams : CamTyped(c)
         /\ syncOffset \in Int /\ received \in Nat
         /\ Len(frameChan) \in {0, 1} /\ (frameChan # <<>> => Len(frameChan) = 1)
<1>1. ASSUME NEW S, NEW q \in Seq(S), Len(q) <= 1
      PROVE  Len(q) \in {0, 1} /\ (q # <<>> => Len(q) = 1 /\ q[1] \in S)
  <2>1. Len(q) \in Nat
    OBVIOUS
  <2>2. q # <<>> => Len(q) # 0
    BY EmptySeq
  <2>3. Len(q) = 1 => q[1] \in S
    OBVIOUS
  <2> QED
    BY <1>1, <2>1, <2>2, <2>3
<1>2. /\ Len(frameChan) \in {0, 1}
      /\ frameChan # <<>> => Len(frameChan) = 1
                               /\ frameChan[1] \in [left : Source!Slots, right : Source!Slots]
  <2>1. frameChan \in Seq([left : Source!Slots, right : Source!Slots]) /\ Len(frameChan) <= 1
    BY DEF SourceTyped, SourceShape, Source!TypeOK
  <2> QED
    BY <1>1, <2>1
<1>3. syncOffset \in Int /\ received \in Nat
  BY SourceAssumption DEF Source!ZeroCopySourceAssumption, SourceTyped, Source!TypeOK
<1>4. ASSUME NEW c \in Cams PROVE CamTyped(c)
  <2>0. c \in {"left", "right"}
    BY DEF Cams, Source!Cameras
  <2>1. lengths[c] \in Nat /\ decoded[c] \in Nat
    BY <2>0, SourceAssumption
    DEF Source!ZeroCopySourceAssumption, SourceTyped, Source!TypeOK, Source!Cameras
  <2>2. slotFree[c] \in Seq({0, 1}) /\ decodedChan[c] \in Seq({0, 1})
    BY <2>0 DEF SourceTyped, Source!TypeOK, Source!Cameras, Source!Slots
  <2>3. Len(slotFree[c]) \in Nat
    BY <2>2
  <2>4. /\ Len(decodedChan[c]) \in {0, 1}
        /\ decodedChan[c] # <<>> => Len(decodedChan[c]) = 1 /\ decodedChan[c][1] \in {0, 1}
    <3>1. Len(decodedChan[c]) <= 1
      BY DEF SourceTyped, SourceShape
    <3> QED
      BY <1>1, <2>2, <3>1
  <2>5. frameChan # <<>> => frameChan[1][c] \in {0, 1}
    BY <1>2, <2>0 DEF Source!Slots
  <2>6. writeSlot[c] \in {0, 1, -1} /\ held[c] \in {0, 1, -1}
    BY <2>0 DEF SourceTyped, Source!TypeOK, Source!Slots, Source!SlotOrNone, Source!None,
       Source!Cameras
  <2> QED
    BY <2>1, <2>2, <2>3, <2>4, <2>5, <2>6 DEF CamTyped
<1> QED
  BY <1>2, <1>3, <1>4

\* The frames a camera discards are counted.
LEMMA SourceSkipTyped ==
  ASSUME SourceTyped, NEW c \in Cams
  PROVE  Source!Skip(c) \in Nat
BY SourceTypes DEF Source!Skip, Cams, Source!Cameras

\* The source opens in a typed state.
LEMMA SourceStartsTyped == ASSUME Source!Init PROVE SourceTyped
<1>1. Len(<<0, 1>>) = 2 /\ <<0, 1>> \in Seq(Source!Slots)
  BY DEF Source!Slots
<1>2. \A S : <<>> \in Seq(S) /\ Len(<<>>) = 0
  OBVIOUS
<1>3. Source!TypeOK
  BY <1>1, <1>2 DEF Source!Init, Source!TypeOK, Source!SlotOrNone, Source!None, Source!NoPair
<1>4. SourceShape
  BY <1>2 DEF Source!Init, SourceShape, NoSlot, Cams, Source!Cameras, Source!None
<1> QED
  BY <1>3, <1>4 DEF SourceTyped

\* What an action of the decode thread of camera c does to the type and shape.
LEMMA DecoderTyped ==
  ASSUME SourceTyped, NEW c \in Cams, Source!Decoder(c)
  PROVE  SourceTyped'
<1>0. CamTyped(c) /\ c \in Source!Cameras
  BY SourceTypes DEF Cams
<1>1. UNCHANGED <<Source!inputVars, Source!pairerVars, frameChan, Source!sessionVars,
                  Source!gpuVars>>
  BY DEF Source!Decoder
<1>8. Source!Skip(c) \in Nat /\ decoded[c] + 1 \in Nat
  BY <1>0, SourceSkipTyped DEF CamTyped, Cams
<1>9. slotFree[c] # <<>> => /\ Head(slotFree[c]) \in {0, 1}
                            /\ Tail(slotFree[c]) \in Seq({0, 1})
  BY <1>0, HeadTailProperties DEF CamTyped
<1>10. decoder[c] \in {"copying", "sending"} => writeSlot[c] \in {0, 1}
  BY <1>0 DEF CamTyped, SourceTyped, SourceShape, Cams, NoSlot, Source!None
<1>11. decoder[c] = "sending" => <<writeSlot[c]>> \in Seq({0, 1}) /\ Len(<<writeSlot[c]>>) = 1
  BY <1>10
<1>12. decoder' \in [Source!Cameras ->
                        {"skipping", "polling", "taking", "copying", "sending", "exited"}]
  <2> DEFINE Places == {"skipping", "polling", "taking", "copying", "sending", "exited"}
  <2>1. decoder \in [Source!Cameras -> Places]
    BY DEF SourceTyped, Source!TypeOK
  <2>2. PICK x \in Places : decoder' = [decoder EXCEPT ![c] = x]
    BY DEF Source!Decoder, Source!SkipFrames, Source!CheckShutdown, Source!TakeSlot,
       Source!CopyFrame, Source!DecoderFails, Source!SendSlot, Source!Goto
  <2> HIDE DEF Places
  <2>3. decoder' \in [Source!Cameras -> Places]
    BY <2>1, <2>2
  <2> QED
    BY <2>3 DEF Places
<1>2. CASE Source!SkipFrames(c)
  <2>5. decoded' \in [Source!Cameras -> Nat]
    BY <1>0, <1>2, <1>8 DEF CamTyped, SourceTyped, Source!TypeOK, Source!SkipFrames, Source!Goto,
       Source!Slots, Source!SlotOrNone, Source!None
  <2>1. Source!TypeOK'
    BY <1>0, <1>1, <1>2, <1>12, <2>5 DEF SourceTyped, Source!TypeOK,
       Source!SkipFrames, Source!inputVars, Source!pairerVars, Source!sessionVars, Source!gpuVars
  <2>2. SourceShape'
    BY <1>0, <1>1, <1>2, <1>8 DEF CamTyped, SourceTyped, Source!TypeOK, SourceShape,
       Source!SkipFrames, Source!Goto,
       Source!inputVars, Source!pairerVars, Source!sessionVars, Source!gpuVars,
       Cams, NoSlot, Source!None
  <2> QED
    BY <2>1, <2>2 DEF SourceTyped
<1>3. CASE Source!CheckShutdown(c)
  <2>1. Source!TypeOK'
    BY <1>0, <1>1, <1>3 DEF CamTyped, SourceTyped, Source!TypeOK, Source!CheckShutdown, Source!Goto,
       Source!inputVars, Source!pairerVars, Source!sessionVars, Source!gpuVars,
       Source!Slots, Source!SlotOrNone, Source!None
  <2>2. SourceShape'
    BY <1>0, <1>1, <1>3 DEF CamTyped, SourceTyped, Source!TypeOK, SourceShape,
       Source!CheckShutdown, Source!Goto,
       Source!inputVars, Source!pairerVars, Source!sessionVars, Source!gpuVars,
       Cams, NoSlot, Source!None
  <2> QED
    BY <2>1, <2>2 DEF SourceTyped
<1>4. CASE Source!TakeSlot(c)
  <2>5. writeSlot' \in [Source!Cameras -> Source!SlotOrNone]
    BY <1>0, <1>4, <1>9 DEF CamTyped, SourceTyped, Source!TypeOK, Source!TakeSlot, Source!Goto,
       Source!Slots, Source!SlotOrNone, Source!None
  <2>6. slotFree' \in [Source!Cameras -> Seq(Source!Slots)]
    <3>1. slotFree \in [Source!Cameras -> Seq(Source!Slots)]
      BY DEF SourceTyped, Source!TypeOK
    <3>2. \/ slotFree' = slotFree
          \/ slotFree[c] # <<>> /\ slotFree' = [slotFree EXCEPT ![c] = Tail(slotFree[c])]
      BY <1>4 DEF Source!TakeSlot
    <3>3. slotFree[c] # <<>> => Tail(slotFree[c]) \in Seq(Source!Slots)
      BY <1>9 DEF Source!Slots
    <3> QED
      BY <3>1, <3>2, <3>3
  <2>1. Source!TypeOK'
    BY <1>0, <1>1, <1>4, <1>12, <2>5, <2>6 DEF SourceTyped, Source!TypeOK,
       Source!TakeSlot, Source!inputVars, Source!pairerVars, Source!sessionVars, Source!gpuVars
  <2>2. SourceShape'
    BY <1>0, <1>1, <1>4, <1>9 DEF CamTyped, SourceTyped, Source!TypeOK, SourceShape,
       Source!TakeSlot, Source!Goto,
       Source!inputVars, Source!pairerVars, Source!sessionVars, Source!gpuVars,
       Cams, NoSlot, Source!None
  <2> QED
    BY <2>1, <2>2 DEF SourceTyped
<1>5. CASE Source!CopyFrame(c)
  <2>3. sourceTexture' \in [Source!Cameras -> [Source!Slots -> Nat \cup {Source!None}]]
    <3>1. sourceTexture \in [Source!Cameras -> [Source!Slots -> Nat \cup {Source!None}]]
          /\ decoded[c] \in Nat
      BY <1>0 DEF SourceTyped, Source!TypeOK, CamTyped
    <3>2. \/ sourceTexture' = sourceTexture
          \/ sourceTexture' = [sourceTexture EXCEPT ![c] =
                                    [sourceTexture[c] EXCEPT ![writeSlot[c]] = decoded[c]]]
      BY <1>5 DEF Source!CopyFrame
    <3> QED
      BY <1>0, <3>1, <3>2
  <2>5. decoded' \in [Source!Cameras -> Nat]
    <3>1. decoded \in [Source!Cameras -> Nat] /\ decoded[c] + 1 \in Nat
      BY <1>0 DEF CamTyped, SourceTyped, Source!TypeOK
    <3>2. decoded' = decoded \/ decoded' = [decoded EXCEPT ![c] = decoded[c] + 1]
      BY <1>5 DEF Source!CopyFrame
    <3> QED
      BY <3>1, <3>2
  <2>1. Source!TypeOK'
    BY <1>0, <1>1, <1>5, <2>3, <1>12, <2>5 DEF SourceTyped, Source!TypeOK,
       Source!CopyFrame, Source!inputVars, Source!pairerVars, Source!sessionVars, Source!gpuVars
  <2>2. SourceShape'
    BY <1>0, <1>1, <1>5 DEF CamTyped, SourceTyped, Source!TypeOK, SourceShape, Source!CopyFrame,
       Source!Goto,
       Source!inputVars, Source!pairerVars, Source!sessionVars, Source!gpuVars,
       Cams, NoSlot, Source!None
  <2> QED
    BY <2>1, <2>2 DEF SourceTyped
<1>6. CASE Source!DecoderFails(c)
  <2>1. Source!TypeOK'
    BY <1>0, <1>1, <1>6 DEF CamTyped, SourceTyped, Source!TypeOK, Source!DecoderFails, Source!Goto,
       Source!inputVars, Source!pairerVars, Source!sessionVars, Source!gpuVars,
       Source!Slots, Source!SlotOrNone, Source!None
  <2>2. SourceShape'
    BY <1>0, <1>1, <1>6 DEF CamTyped, SourceTyped, Source!TypeOK, SourceShape,
       Source!DecoderFails, Source!Goto,
       Source!inputVars, Source!pairerVars, Source!sessionVars, Source!gpuVars,
       Cams, NoSlot, Source!None
  <2> QED
    BY <2>1, <2>2 DEF SourceTyped
<1>7. CASE Source!SendSlot(c)
  <2>5. writeSlot' \in [Source!Cameras -> Source!SlotOrNone]
    BY <1>0, <1>7, <1>11 DEF CamTyped, SourceTyped, Source!TypeOK, Source!SendSlot, Source!Goto,
       Source!Slots, Source!SlotOrNone, Source!None
  <2>6. decodedChan' \in [Source!Cameras -> Seq(Source!Slots)]
    BY <1>0, <1>7, <1>11 DEF CamTyped, SourceTyped, Source!TypeOK, Source!SendSlot, Source!Goto,
       Source!Slots, Source!SlotOrNone, Source!None
  <2>1. Source!TypeOK'
    BY <1>0, <1>1, <1>7, <1>12, <2>5, <2>6 DEF SourceTyped, Source!TypeOK,
       Source!SendSlot, Source!inputVars, Source!pairerVars, Source!sessionVars, Source!gpuVars
  <2>7. ASSUME NEW d \in Cams
        PROVE  /\ Len(decodedChan'[d]) <= 1
               /\ decoder'[d] \in {"skipping", "polling", "taking"} => writeSlot'[d] = NoSlot
               /\ decoder'[d] \in {"copying", "sending"} => writeSlot'[d] # NoSlot
    <3>1. CASE d = c
      <4>1. decodedChan'[c] = decodedChan[c] \/ decodedChan'[c] = <<writeSlot[c]>>
        BY <1>0, <1>7 DEF Source!SendSlot, SourceTyped, Source!TypeOK
      <4>2. Len(decodedChan'[c]) <= 1
        <5>1. CASE decodedChan'[c] = decodedChan[c]
          BY <5>1 DEF SourceTyped, SourceShape
        <5>2. CASE decodedChan'[c] = <<writeSlot[c]>>
          BY <5>2
        <5> QED
          BY <4>1, <5>1, <5>2
      <4> QED
        BY <1>0, <1>7, <3>1, <4>2
        DEF Source!SendSlot, Source!Goto, SourceTyped, SourceShape, Source!TypeOK, NoSlot, Cams
    <3>2. CASE d # c
      <4>1. decodedChan'[d] = decodedChan[d] /\ decoder'[d] = decoder[d]
            /\ writeSlot'[d] = writeSlot[d]
        BY <1>0, <1>7, <3>2 DEF Source!SendSlot, Source!Goto, SourceTyped, Source!TypeOK, Cams
      <4> QED
        BY <4>1 DEF SourceTyped, SourceShape
    <3> QED
      BY <3>1, <3>2
  <2>2. SourceShape'
    BY <1>1, <1>7, <2>7 DEF SourceTyped, SourceShape, Source!inputVars, Source!pairerVars,
       Source!sessionVars, Source!gpuVars, NoSlot, Source!None
  <2> QED
    BY <2>1, <2>2 DEF SourceTyped
<1> QED
  BY <1>2, <1>3, <1>4, <1>5, <1>6, <1>7 DEF Source!Decoder

\* The pairing thread keeps the types, and the session's fields that it shares.
LEMMA PairerTyped ==
  ASSUME SourceTyped, Source!Pairer
  PROVE  SourceTyped'
<1>0. CamTyped("left") /\ CamTyped("right")
  BY SourceTypes DEF Cams, Source!Cameras
<1>1. UNCHANGED <<Source!inputVars, slotFree, Source!decoderVars, Source!sessionVars,
                  Source!gpuVars>>
  BY DEF Source!Pairer
<1>2. ASSUME NEW c \in Cams, decodedChan[c] # <<>>
      PROVE  /\ Head(decodedChan[c]) \in {0, 1} /\ Tail(decodedChan[c]) = <<>>
             /\ Tail(decodedChan[c]) \in Seq({0, 1}) /\ Len(Tail(decodedChan[c])) = 0
  <2>1. CamTyped(c)
    BY SourceTypes
  <2>2. /\ Head(decodedChan[c]) \in {0, 1}
        /\ Tail(decodedChan[c]) \in Seq({0, 1}) /\ Len(Tail(decodedChan[c])) = 0
    BY <1>2, <2>1, HeadTailProperties DEF CamTyped
  <2> QED
    BY <2>2, EmptySeq
<1>3. ASSUME NEW c \in Cams, decodedChan[c] # <<>>, Source!Take(c)
      PROVE  /\ decodedChan' \in [Source!Cameras -> Seq(Source!Slots)]
             /\ \A d \in Cams : Len(decodedChan'[d]) <= 1
  <2>1. decodedChan' = [decodedChan EXCEPT ![c] = Tail(decodedChan[c])]
    BY <1>3 DEF Source!Take
  <2> QED
    BY <1>2, <1>3, <2>1 DEF SourceTyped, SourceShape, Source!TypeOK, Source!Slots, Cams
<1>4. CASE Source!PairLeft
  <2>1. CASE decodedChan["left"] # <<>> /\ pairLeft' = Head(decodedChan["left"]) /\ Source!Take("left")
    BY <1>0, <1>1, <1>2, <1>3, <1>4, <2>1
    DEF Source!PairLeft, SourceTyped, SourceShape, Source!TypeOK, Cams, Source!Cameras,
        Source!Slots, Source!SlotOrNone, Source!None, NoSlot, Source!inputVars,
        Source!decoderVars, Source!pairerVars, Source!sessionVars, Source!gpuVars
  <2>2. CASE UNCHANGED <<pairLeft, decodedChan>>
    BY <1>0, <1>1, <1>4, <2>2
    DEF Source!PairLeft, SourceTyped, SourceShape, Source!TypeOK, NoSlot, Source!inputVars,
    Source!decoderVars, Source!pairerVars, Source!sessionVars, Source!gpuVars
  <2> QED
    BY <1>4, <2>1, <2>2 DEF Source!PairLeft
<1>5. CASE Source!PairRight
  <2>1. CASE /\ decodedChan["right"] # <<>> /\ pairRight' = Head(decodedChan["right"])
             /\ Source!Take("right") /\ pairer' = IF pairLeft = Source!None THEN "exited" ELSE "sending"
    BY <1>0, <1>1, <1>2, <1>3, <1>5, <2>1
    DEF Source!PairRight, SourceTyped, SourceShape, Source!TypeOK, Cams, Source!Cameras,
        Source!Slots, Source!SlotOrNone, Source!None, NoSlot, Source!inputVars,
        Source!decoderVars, Source!pairerVars, Source!sessionVars, Source!gpuVars
  <2>2. CASE pairer' = "exited" /\ UNCHANGED <<pairRight, decodedChan>>
    BY <1>0, <1>1, <1>5, <2>2
    DEF Source!PairRight, SourceTyped, SourceShape, Source!TypeOK, NoSlot, Source!inputVars,
    Source!decoderVars, Source!pairerVars, Source!sessionVars, Source!gpuVars
  <2> QED
    BY <1>5, <2>1, <2>2 DEF Source!PairRight
<1>6. CASE Source!SendPair
  <2>1. CASE pairer' = "exited" /\ Source!ReceiverDropped /\ UNCHANGED <<pairLeft, pairRight, frameChan>>
    BY <1>0, <1>1, <1>6, <2>1
    DEF Source!SendPair, SourceTyped, SourceShape, Source!TypeOK, NoSlot, Source!inputVars,
    Source!decoderVars, Source!pairerVars, Source!sessionVars, Source!gpuVars
  <2>2. CASE /\ frameChan' = <<[left |-> pairLeft, right |-> pairRight]>>
             /\ ~Source!ReceiverDropped /\ frameChan = <<>>
             /\ pairLeft' = Source!None /\ pairRight' = Source!None /\ pairer' = "left"
    <3>1. [left |-> pairLeft, right |-> pairRight] \in [left : Source!Slots, right : Source!Slots]
      BY <1>6 DEF Source!SendPair, SourceTyped, SourceShape, Source!TypeOK, NoSlot,
         Source!SlotOrNone
    <3>2. frameChan' \in Seq([left : Source!Slots, right : Source!Slots]) /\ Len(frameChan') = 1
      BY <2>2, <3>1
    <3> QED
      BY <1>0, <1>1, <1>6, <2>2, <3>2
      DEF Source!SendPair, SourceTyped, SourceShape, Source!TypeOK, NoSlot, Source!SlotOrNone,
      Source!inputVars, Source!decoderVars, Source!pairerVars, Source!sessionVars,
      Source!gpuVars
  <2> QED
    BY <1>6, <2>1, <2>2 DEF Source!SendPair
<1> QED
  BY <1>4, <1>5, <1>6 DEF Source!Pairer

\* So do the session and the GPU.
LEMMA SessionTyped ==
  ASSUME SourceTyped, Source!Session \/ Source!GpuDraws
  PROVE  SourceTyped'
<1>0. CamTyped("left") /\ CamTyped("right")
  BY SourceTypes DEF Cams, Source!Cameras
<1>1. UNCHANGED <<Source!inputVars, Source!decoderVars, decodedChan, Source!pairerVars>>
  BY DEF Source!Session, Source!GpuDraws
<1>2. \A S : <<>> \in Seq(S) /\ Len(<<>>) = 0
  OBVIOUS
<1>3. ASSUME Source!ReleaseSlots, held.left # NoSlot, held.right # NoSlot
      PROVE  slotFree' \in [Source!Cameras -> Seq(Source!Slots)]
  <2>1. \A c \in Cams : held[c] \in Source!Slots
    BY <1>3 DEF SourceTyped, Source!TypeOK, Source!SlotOrNone, NoSlot, Cams, Source!Cameras
  <2>2. \A c \in Cams : Append(slotFree[c], held[c]) \in Seq(Source!Slots)
    BY <2>1, AppendProperties DEF SourceTyped, Source!TypeOK, Cams
  <2> QED
    BY <1>3, <2>2 DEF Source!ReleaseSlots, Cams
<1>4. Source!NoPair \in [left : Source!SlotOrNone, right : Source!SlotOrNone]
  BY DEF Source!NoPair, Source!SlotOrNone
<1>5. ASSUME session \in {"holding", "detecting"}
      PROVE  held.left # NoSlot /\ held.right # NoSlot
  BY <1>5 DEF SourceTyped, SourceShape
<1>6. CASE Source!NextFrame
  <2>1. CASE /\ frameChan # <<>> /\ held' = Head(frameChan) /\ frameChan' = <<>>
             /\ received' = received + 1 /\ session' = "holding"
    <3>1. held' \in [left : Source!Slots, right : Source!Slots]
      BY <2>1, HeadTailProperties DEF SourceTyped, Source!TypeOK
    <3>2. held' \in [left : Source!SlotOrNone, right : Source!SlotOrNone]
          /\ held'.left # NoSlot /\ held'.right # NoSlot
      BY <3>1 DEF Source!SlotOrNone, Source!Slots, NoSlot, Source!None
    <3> QED
      BY <1>0, <1>1, <1>2, <1>6, <2>1, <3>2
      DEF Source!NextFrame, SourceTyped, SourceShape, Source!TypeOK, Source!inputVars,
      Source!decoderVars, Source!pairerVars, Source!sessionVars, Source!gpuVars
  <2>2. CASE /\ frameChan = <<>> /\ pairer = "exited" /\ session' = "exhausted"
             /\ UNCHANGED <<held, frameChan, received>>
    BY <1>0, <1>1, <1>6, <2>2
    DEF Source!NextFrame, SourceTyped, SourceShape, Source!TypeOK, Source!inputVars,
    Source!decoderVars, Source!pairerVars, Source!sessionVars, Source!gpuVars
  <2> QED
    BY <1>6, <2>1, <2>2 DEF Source!NextFrame
<1>7. CASE Source!RenderImmediate
  BY <1>0, <1>1, <1>2, <1>4, <1>7, <1>3, <1>5
  DEF Source!RenderImmediate, SourceTyped, SourceShape, Source!TypeOK, Source!inputVars,
  Source!decoderVars, Source!pairerVars, Source!sessionVars, Source!gpuVars
<1>8. CASE Source!CopyToPool
  BY <1>0, <1>1, <1>2, <1>4, <1>8
  DEF Source!CopyToPool, SourceTyped, SourceShape, Source!TypeOK, Source!inputVars,
  Source!decoderVars, Source!pairerVars, Source!sessionVars, Source!gpuVars
<1>9. CASE Source!ReleaseAfterDetect
  BY <1>0, <1>1, <1>2, <1>4, <1>9, <1>3, <1>5
  DEF Source!ReleaseAfterDetect, SourceTyped, SourceShape, Source!TypeOK, Source!inputVars,
  Source!decoderVars, Source!pairerVars, Source!sessionVars, Source!gpuVars
<1>10. CASE Source!SkipPair
  BY <1>0, <1>1, <1>2, <1>4, <1>10, <1>3, <1>5
  DEF Source!SkipPair, SourceTyped, SourceShape, Source!TypeOK, Source!inputVars,
  Source!decoderVars, Source!pairerVars, Source!sessionVars, Source!gpuVars
<1>11. CASE Source!Drop
  BY <1>0, <1>1, <1>2, <1>4, <1>11
  DEF Source!Drop, SourceTyped, SourceShape, Source!TypeOK, Source!inputVars,
  Source!decoderVars, Source!pairerVars, Source!sessionVars, Source!gpuVars
<1>12. CASE Source!Join
  BY <1>0, <1>1, <1>2, <1>4, <1>12
  DEF Source!Join, SourceTyped, SourceShape, Source!TypeOK, Source!inputVars,
  Source!decoderVars, Source!pairerVars, Source!sessionVars, Source!gpuVars
<1>13. CASE Source!GpuDraws
  BY <1>0, <1>1, <1>2, <1>4, <1>13
  DEF Source!GpuDraws, SourceTyped, SourceShape, Source!TypeOK, Source!inputVars,
  Source!decoderVars, Source!pairerVars, Source!sessionVars, Source!gpuVars
<1> QED
  BY <1>6, <1>7, <1>8, <1>9, <1>10, <1>11, <1>12, <1>13 DEF Source!Session, Source!Run

\* The stages of camera c share no slot, and its free channel has none twice.
Apart(c) ==
    /\ \A p, q \in Source!Stages : p # q => Source!At(c, p) \cap Source!At(c, q) = {}
    /\ \A i, j \in 1 .. Len(slotFree[c]) : i # j => slotFree[c][i] # slotFree[c][j]

\* A slot that goes nowhere new stays in one place.
LEMMA Stays ==
  ASSUME NEW c \in Cams, Apart(c), UNCHANGED slotFree[c],
         \A p \in Source!Stages : Source!At(c, p)' \subseteq Source!At(c, p)
  PROVE  Apart(c)'
<1>1. ASSUME NEW p \in Source!Stages, NEW q \in Source!Stages, p # q
      PROVE  Source!At(c, p)' \cap Source!At(c, q)' = {}
  <2>1. Source!At(c, p) \cap Source!At(c, q) = {}
    BY <1>1 DEF Apart
  <2> QED
    BY <2>1
<1> QED
  BY <1>1 DEF Apart, Source!Stages

\* A slot that goes from one place to another is then in that one only.
LEMMA Moves ==
  ASSUME NEW c \in Cams, Apart(c), NEW from \in Source!Stages, NEW to \in Source!Stages,
         NEW x \in Source!At(c, from),
         Source!At(c, from)' \subseteq Source!At(c, from) \ {x},
         Source!At(c, to)' \subseteq Source!At(c, to) \cup {x},
         \A p \in Source!Stages \ {from, to} : Source!At(c, p)' \subseteq Source!At(c, p)
  PROVE  \A p, q \in Source!Stages : p # q => Source!At(c, p)' \cap Source!At(c, q)' = {}
<1> SUFFICES ASSUME NEW p \in Source!Stages, NEW q \in Source!Stages, p # q,
                    NEW y \in Source!At(c, p)', y \in Source!At(c, q)'
             PROVE  FALSE
  OBVIOUS
<1>1. ASSUME NEW r \in Source!Stages, y \in Source!At(c, r)'
      PROVE  (y \in Source!At(c, r) /\ (y = x => r # from)) \/ (y = x /\ r = to)
  BY <1>1
<1>2. ASSUME NEW r \in Source!Stages, y \in Source!At(c, r), y = x
      PROVE  r = from
  BY <1>2 DEF Apart
<1>3. Source!At(c, p) \cap Source!At(c, q) = {}
  BY DEF Apart
<1> QED
  BY <1>1, <1>2, <1>3

\* A step that leaves all of a camera's places alone keeps its slots apart.
LEMMA Elsewhere ==
  ASSUME NEW c \in Cams, Apart(c),
         UNCHANGED <<slotFree[c], writeSlot[c], decodedChan[c], Source!PairSlot(c), frameChan,
                     held[c]>>
  PROVE  Apart(c)'
BY Stays DEF Source!At, Source!Stages

\* A queue of one, and an empty one, as sets.
LEMMA OneQueued ==
  ASSUME NEW S, NEW q \in Seq(S)
  PROVE  /\ Len(q) = 1 => {q[i] : i \in 1 .. Len(q)} = {q[1]}
         /\ q = <<>> => {q[i] : i \in 1 .. Len(q)} = {}
OBVIOUS

\* A decode thread takes a free slot, writes it and sends it on: never a slot that is elsewhere.
LEMMA DecoderApart ==
  ASSUME SourceTyped, \A d \in Cams : Apart(d), NEW c \in Cams, Source!Decoder(c)
  PROVE  \A d \in Cams : Apart(d)'
<1>0. CamTyped(c) /\ c \in Source!Cameras
  BY SourceTypes DEF Cams
<1>1. UNCHANGED <<pairLeft, pairRight, frameChan, held>>
  BY DEF Source!Decoder, Source!pairerVars, Source!sessionVars
<1>2. ASSUME NEW d \in Cams, d # c PROVE Apart(d)'
  <2>1. /\ slotFree' = slotFree \/ slotFree' = [slotFree EXCEPT ![c] = Tail(@)]
        /\ \/ writeSlot' = writeSlot
           \/ writeSlot' = [writeSlot EXCEPT ![c] = Head(slotFree[c])]
           \/ writeSlot' = [writeSlot EXCEPT ![c] = Source!None]
        /\ \/ decodedChan' = decodedChan
           \/ decodedChan' = [decodedChan EXCEPT ![c] = <<writeSlot[c]>>]
    BY DEF Source!Decoder, Source!SkipFrames, Source!CheckShutdown, Source!TakeSlot,
       Source!CopyFrame, Source!DecoderFails, Source!SendSlot
  <2>2. UNCHANGED slotFree[d] /\ UNCHANGED writeSlot[d] /\ UNCHANGED decodedChan[d]
    BY <1>0, <1>2, <2>1 DEF SourceTyped, Source!TypeOK, Cams
  <2> QED
    BY <1>1, <2>2, Elsewhere DEF Source!PairSlot
<1>3. CASE UNCHANGED <<slotFree, writeSlot, decodedChan>>
  BY <1>1, <1>3, Elsewhere DEF Source!PairSlot
<1>4. CASE Source!TakeSlot(c) /\ slotFree[c] # <<>>
  <2> DEFINE x == Head(slotFree[c])
  <2>1. /\ slotFree'[c] = Tail(slotFree[c]) /\ writeSlot'[c] = x
        /\ UNCHANGED decodedChan /\ writeSlot[c] = NoSlot
    BY <1>0, <1>4 DEF Source!TakeSlot, SourceTyped, SourceShape, Source!TypeOK, Cams
  <2>2. /\ x = slotFree[c][1] /\ Len(slotFree[c]) > 0 /\ Len(slotFree[c]) \in Nat
        /\ Len(slotFree'[c]) = Len(slotFree[c]) - 1
        /\ \A i \in 1 .. Len(slotFree'[c]) : slotFree'[c][i] = slotFree[c][i + 1]
    BY <1>0, <1>4, <2>1, HeadTailProperties DEF CamTyped
  <2>3. \A i \in 1 .. Len(slotFree'[c]) : i + 1 \in 1 .. Len(slotFree[c]) /\ i + 1 # 1
    BY <2>2
  <2>4. \A i, j \in 1 .. Len(slotFree'[c]) : i # j => slotFree'[c][i] # slotFree'[c][j]
    BY <2>2, <2>3 DEF Apart
  <2>5. \A i \in 1 .. Len(slotFree'[c]) : slotFree'[c][i] # x
    BY <2>2, <2>3 DEF Apart
  <2> HIDE DEF x
  <2>6. x \in Source!At(c, "free")
    BY <2>2 DEF Source!At
  <2>7. Source!At(c, "free")' \subseteq Source!At(c, "free") \ {x}
    BY <2>2, <2>3, <2>5 DEF Source!At
  <2>8. Source!At(c, "writing")' \subseteq Source!At(c, "writing") \cup {x}
    BY <2>1 DEF Source!At
  <2>9. \A p \in Source!Stages \ {"free", "writing"} : Source!At(c, p)' \subseteq Source!At(c, p)
    BY <1>1, <2>1 DEF Source!At, Source!Stages, Source!PairSlot
  <2>10. "free" \in Source!Stages /\ "writing" \in Source!Stages
    BY DEF Source!Stages
  <2>11. \A p, q \in Source!Stages : p # q => Source!At(c, p)' \cap Source!At(c, q)' = {}
    BY <2>6, <2>7, <2>8, <2>9, <2>10, Moves
  <2> QED
    BY <1>2, <2>4, <2>11 DEF Apart, Source!Stages
<1>5. CASE Source!SendSlot(c) /\ decodedChan[c] = <<>>
           /\ decodedChan' = [decodedChan EXCEPT ![c] = <<writeSlot[c]>>]
           /\ writeSlot' = [writeSlot EXCEPT ![c] = Source!None]
  <2>1. /\ decodedChan'[c] = <<writeSlot[c]>> /\ writeSlot'[c] = NoSlot
        /\ UNCHANGED slotFree /\ writeSlot[c] # NoSlot /\ writeSlot[c] \in {0, 1}
    BY <1>0, <1>5 DEF Source!SendSlot, SourceTyped, SourceShape, Source!TypeOK, Cams, NoSlot,
       CamTyped, Source!None
  <2>2. Len(decodedChan'[c]) = 1 /\ decodedChan'[c][1] = writeSlot[c]
        /\ decodedChan'[c] \in Seq({0, 1})
    BY <2>1
  <2>6. writeSlot[c] \in Source!At(c, "writing")
    BY <2>1 DEF Source!At, NoSlot
  <2>7. Source!At(c, "writing")' \subseteq Source!At(c, "writing") \ {writeSlot[c]}
    BY <2>1 DEF Source!At, NoSlot
  <2>8. Source!At(c, "queued")' \subseteq Source!At(c, "queued") \cup {writeSlot[c]}
    BY <2>2, OneQueued DEF Source!At
  <2>9. \A p \in Source!Stages \ {"writing", "queued"} : Source!At(c, p)' \subseteq Source!At(c, p)
    BY <1>1, <2>1 DEF Source!At, Source!Stages, Source!PairSlot
  <2>10. "queued" \in Source!Stages /\ "writing" \in Source!Stages
    BY DEF Source!Stages
  <2>11. \A p, q \in Source!Stages : p # q => Source!At(c, p)' \cap Source!At(c, q)' = {}
    BY <2>6, <2>7, <2>8, <2>9, <2>10, Moves
  <2> QED
    BY <1>2, <2>1, <2>11 DEF Apart, Source!Stages
<1> QED
  BY <1>2, <1>3, <1>4, <1>5 DEF Source!Decoder, Source!SkipFrames, Source!CheckShutdown,
     Source!TakeSlot, Source!CopyFrame, Source!DecoderFails, Source!SendSlot

\* The slot the pairing thread receives leaves the channel.
LEMMA TakenApart ==
  ASSUME SourceTyped, NEW c \in Cams, Apart(c), decodedChan[c] # <<>>,
         Source!PairSlot(c)' = Head(decodedChan[c]), decodedChan'[c] = Tail(decodedChan[c]),
         UNCHANGED <<slotFree, writeSlot, frameChan, held>>
  PROVE  Apart(c)'
<1> DEFINE x == Head(decodedChan[c])
<1>1. /\ Len(decodedChan[c]) = 1 /\ x = decodedChan[c][1] /\ decodedChan'[c] = <<>>
      /\ decodedChan[c] \in Seq({0, 1})
  <2>1. decodedChan[c] \in Seq({0, 1}) /\ Len(decodedChan[c]) = 1
    BY SourceTypes DEF CamTyped
  <2>2. Len(decodedChan'[c]) = 0 /\ decodedChan'[c] \in Seq({0, 1}) /\ x = decodedChan[c][1]
    BY <2>1, HeadTailProperties
  <2> QED
    BY <2>1, <2>2, EmptySeq
<1>2. Source!PairSlot(c)' = x
  OBVIOUS
<1> HIDE DEF x
<1>3. Source!At(c, "queued") = {x} /\ Source!At(c, "queued")' = {}
  BY <1>1, OneQueued DEF Source!At
<1>4. Source!At(c, "paired")' \subseteq {x}
  BY <1>2 DEF Source!At
<1>5. \A p \in Source!Stages \ {"queued", "paired"} : Source!At(c, p)' \subseteq Source!At(c, p)
  BY DEF Source!At, Source!Stages
<1>6. "queued" \in Source!Stages /\ "paired" \in Source!Stages
  BY DEF Source!Stages
<1>7. \A p, q \in Source!Stages : p # q => Source!At(c, p)' \cap Source!At(c, q)' = {}
  BY <1>3, <1>4, <1>5, <1>6, Moves
<1> QED
  BY <1>7 DEF Apart, Source!Stages

\* Receiving, pairing, sending and giving up: the pairing thread keeps the slots apart.
LEMMA PairerApart ==
  ASSUME SourceTyped, \A d \in Cams : Apart(d), Source!Pairer
  PROVE  \A d \in Cams : Apart(d)'
<1>1. UNCHANGED <<slotFree, writeSlot, held>>
  BY DEF Source!Pairer, Source!decoderVars, Source!sessionVars
<1>2. Cams = {"left", "right"} /\ decodedChan \in [Cams -> Seq(Source!Slots)]
  BY DEF Cams, Source!Cameras, SourceTyped, Source!TypeOK
<1>3. CASE UNCHANGED <<decodedChan, pairLeft, pairRight, frameChan>>
  BY <1>1, <1>3, Elsewhere DEF Source!PairSlot
<1>4. CASE Source!PairLeft /\ decodedChan["left"] # <<>> /\ pairLeft' = Head(decodedChan["left"])
           /\ Source!Take("left")
  <2>1. UNCHANGED <<pairRight, frameChan>> /\ decodedChan'["right"] = decodedChan["right"]
        /\ decodedChan'["left"] = Tail(decodedChan["left"])
    BY <1>2, <1>4 DEF Source!PairLeft, Source!Take
  <2>2. Apart("left")'
    BY <1>1, <1>2, <1>4, <2>1, TakenApart DEF Source!PairSlot
  <2>3. Apart("right")'
    BY <1>1, <1>2, <2>1, Elsewhere DEF Source!PairSlot
  <2> QED
    BY <1>2, <2>2, <2>3
<1>5. CASE Source!PairRight /\ decodedChan["right"] # <<>>
           /\ pairRight' = Head(decodedChan["right"]) /\ Source!Take("right")
  <2>1. UNCHANGED <<pairLeft, frameChan>> /\ decodedChan'["left"] = decodedChan["left"]
        /\ decodedChan'["right"] = Tail(decodedChan["right"])
    BY <1>2, <1>5 DEF Source!PairRight, Source!Take
  <2>2. Apart("right")'
    BY <1>1, <1>2, <1>5, <2>1, TakenApart DEF Source!PairSlot
  <2>3. Apart("left")'
    BY <1>1, <1>2, <2>1, Elsewhere DEF Source!PairSlot
  <2> QED
    BY <1>2, <2>2, <2>3
<1>6. CASE Source!SendPair /\ frameChan = <<>> /\ UNCHANGED decodedChan
           /\ frameChan' = <<[left |-> pairLeft, right |-> pairRight]>>
           /\ pairLeft' = Source!None /\ pairRight' = Source!None
  <2> SUFFICES ASSUME NEW c \in Cams PROVE Apart(c)'
    OBVIOUS
  <2>1. /\ Source!PairSlot(c) # Source!None /\ Source!PairSlot(c)' = Source!None
        /\ Len(frameChan') = 1 /\ frameChan'[1][c] = Source!PairSlot(c)
    BY <1>2, <1>6 DEF Source!PairSlot, Source!SendPair, SourceTyped, SourceShape, NoSlot
  <2>2. Source!PairSlot(c) \in Source!At(c, "paired")
    BY <2>1 DEF Source!At
  <2>3. Source!At(c, "paired")' = {}
    BY <2>1 DEF Source!At
  <2>4. Source!At(c, "sent")' \subseteq {Source!PairSlot(c)}
    BY <2>1 DEF Source!At
  <2>5. \A p \in Source!Stages \ {"paired", "sent"} : Source!At(c, p)' \subseteq Source!At(c, p)
    BY <1>1, <1>6 DEF Source!At, Source!Stages
  <2>6. "sent" \in Source!Stages /\ "paired" \in Source!Stages
    BY DEF Source!Stages
  <2>7. \A p, q \in Source!Stages : p # q => Source!At(c, p)' \cap Source!At(c, q)' = {}
    BY <2>2, <2>3, <2>4, <2>5, <2>6, Moves
  <2> QED
    BY <1>1, <2>7 DEF Apart, Source!Stages
<1> QED
  <2>1. \/ UNCHANGED <<decodedChan, pairLeft, pairRight, frameChan>>
        \/ Source!PairLeft /\ decodedChan["left"] # <<>> /\ pairLeft' = Head(decodedChan["left"])
            /\ Source!Take("left")
        \/ Source!PairRight /\ decodedChan["right"] # <<>>
            /\ pairRight' = Head(decodedChan["right"]) /\ Source!Take("right")
        \/ Source!SendPair /\ frameChan = <<>> /\ UNCHANGED decodedChan
           /\ frameChan' = <<[left |-> pairLeft, right |-> pairRight]>>
           /\ pairLeft' = Source!None /\ pairRight' = Source!None
    BY DEF Source!Pairer, Source!PairLeft, Source!PairRight, Source!SendPair
  <2> QED
    BY <1>3, <1>4, <1>5, <1>6, <2>1

\* Receiving, releasing and dropping: the session and the GPU keep the slots apart.
LEMMA SessionApart ==
  ASSUME SourceTyped, \A d \in Cams : Apart(d), Source!Session \/ Source!GpuDraws
  PROVE  \A d \in Cams : Apart(d)'
<1> SUFFICES ASSUME NEW c \in Cams PROVE Apart(c)'
  OBVIOUS
<1>1. UNCHANGED <<writeSlot, decodedChan, pairLeft, pairRight>>
  BY DEF Source!Session, Source!GpuDraws, Source!decoderVars, Source!pairerVars
<1>2. CamTyped(c) /\ c \in {"left", "right"} /\ Source!PairSlot(c)' = Source!PairSlot(c)
      /\ Source!NoPair[c] = NoSlot
  BY <1>1, SourceTypes DEF Cams, Source!Cameras, Source!PairSlot, Source!NoPair, NoSlot
<1>3. CASE UNCHANGED <<slotFree, held, frameChan>>
  BY <1>1, <1>2, <1>3, Elsewhere
<1>4. CASE frameChan' = <<>> /\ UNCHANGED <<slotFree, held>>
  <2>1. \A p \in Source!Stages : Source!At(c, p)' \subseteq Source!At(c, p)
    BY <1>1, <1>2, <1>4 DEF Source!At, Source!Stages
  <2> QED
    BY <1>4, <2>1, Stays
<1>5. CASE /\ frameChan # <<>> /\ held' = Head(frameChan) /\ frameChan' = <<>>
           /\ session = "receiving" /\ UNCHANGED slotFree
  <2>1. Len(frameChan) = 1 /\ held'[c] = frameChan[1][c] /\ held[c] = NoSlot
    BY <1>2, <1>5, SourceTypes, HeadTailProperties DEF SourceTyped, SourceShape
  <2>2. frameChan[1][c] \in Source!At(c, "sent")
    BY <2>1 DEF Source!At
  <2>3. Source!At(c, "sent")' = {}
    BY <1>5 DEF Source!At
  <2>4. Source!At(c, "held")' \subseteq {frameChan[1][c]}
    BY <2>1 DEF Source!At
  <2>5. \A p \in Source!Stages \ {"held", "sent"} : Source!At(c, p)' \subseteq Source!At(c, p)
    BY <1>1, <1>2, <1>5 DEF Source!At, Source!Stages
  <2>6. "sent" \in Source!Stages /\ "held" \in Source!Stages
    BY DEF Source!Stages
  <2>7. \A p, q \in Source!Stages : p # q => Source!At(c, p)' \cap Source!At(c, q)' = {}
    BY <2>2, <2>3, <2>4, <2>5, <2>6, Moves
  <2> QED
    BY <1>5, <2>7 DEF Apart, Source!Stages
<1>6. CASE /\ Source!ReleaseSlots /\ held' = Source!NoPair /\ UNCHANGED frameChan
           /\ session \in {"holding", "detecting"}
  <2>1. /\ held[c] \in {0, 1} /\ held[c] # NoSlot /\ held'[c] = NoSlot
        /\ slotFree'[c] = Append(slotFree[c], held[c])
    BY <1>2, <1>6 DEF SourceTyped, SourceShape, CamTyped, Source!ReleaseSlots, Cams,
       Source!Cameras, NoSlot, Source!None
  <2>2. /\ Len(slotFree'[c]) = Len(slotFree[c]) + 1 /\ Len(slotFree[c]) \in Nat
        /\ \A i \in 1 .. Len(slotFree[c]) : slotFree'[c][i] = slotFree[c][i]
        /\ slotFree'[c][Len(slotFree[c]) + 1] = held[c]
    BY <1>2, <2>1, AppendProperties DEF CamTyped
  <2>3. \A i \in 1 .. Len(slotFree'[c]) :
            i \in 1 .. Len(slotFree[c]) \/ i = Len(slotFree[c]) + 1
    BY <2>2
  <2>4. held[c] \in Source!At(c, "held") /\ Source!At(c, "held")' = {}
    BY <2>1 DEF Source!At, NoSlot
  <2>5. Source!At(c, "free")' \subseteq Source!At(c, "free") \cup {held[c]}
    <3> SUFFICES ASSUME NEW i \in 1 .. Len(slotFree'[c])
                 PROVE  slotFree'[c][i] \in Source!At(c, "free") \cup {held[c]}
      BY DEF Source!At
    <3> QED
      BY <2>2, <2>3 DEF Source!At
  <2>6. "held" \in Source!Stages /\ "free" \in Source!Stages
    BY DEF Source!Stages
  <2>7. held[c] \notin Source!At(c, "free")
    BY <2>4, <2>6 DEF Apart
  <2>8. \A i \in 1 .. Len(slotFree[c]) : slotFree[c][i] # held[c]
    BY <2>7 DEF Source!At
  <2>9. \A i, j \in 1 .. Len(slotFree'[c]) : i # j => slotFree'[c][i] # slotFree'[c][j]
    <3> SUFFICES ASSUME NEW i \in 1 .. Len(slotFree'[c]), NEW j \in 1 .. Len(slotFree'[c]),
                        i # j
                 PROVE  slotFree'[c][i] # slotFree'[c][j]
      OBVIOUS
    <3>1. CASE i \in 1 .. Len(slotFree[c]) /\ j \in 1 .. Len(slotFree[c])
      <4>1. slotFree'[c][i] = slotFree[c][i] /\ slotFree'[c][j] = slotFree[c][j]
        BY <2>2, <3>1
      <4> QED
        BY <3>1, <4>1 DEF Apart
    <3>2. CASE i \in 1 .. Len(slotFree[c]) /\ j = Len(slotFree[c]) + 1
      BY <2>2, <2>3, <2>8, <3>2
    <3>3. CASE i = Len(slotFree[c]) + 1 /\ j \in 1 .. Len(slotFree[c])
      BY <2>2, <2>3, <2>8, <3>3
    <3> QED
      BY <2>2, <3>1, <3>2, <3>3
  <2>10. \A p \in Source!Stages \ {"held", "free"} : Source!At(c, p)' \subseteq Source!At(c, p)
    BY <1>1, <1>2, <1>6 DEF Source!At, Source!Stages
  <2>11. \A p, q \in Source!Stages : p # q => Source!At(c, p)' \cap Source!At(c, q)' = {}
    BY <2>4, <2>5, <2>6, <2>10, Moves
  <2> QED
    BY <2>9, <2>11 DEF Apart, Source!Stages
<1> QED
  <2>1. \/ UNCHANGED <<slotFree, held, frameChan>>
        \/ frameChan' = <<>> /\ UNCHANGED <<slotFree, held>>
        \/ /\ frameChan # <<>> /\ held' = Head(frameChan) /\ frameChan' = <<>>
           /\ session = "receiving" /\ UNCHANGED slotFree
        \/ /\ Source!ReleaseSlots /\ held' = Source!NoPair /\ UNCHANGED frameChan
           /\ session \in {"holding", "detecting"}
    BY DEF Source!Session, Source!Run, Source!NextFrame, Source!RenderImmediate, Source!CopyToPool,
       Source!ReleaseAfterDetect, Source!SkipPair, Source!Drop, Source!Join, Source!GpuDraws,
       Source!sessionVars
  <2> QED
    BY <1>3, <1>4, <1>5, <1>6, <2>1

\* The session is not being dropped: the threads it is fed by still count.
Kept == session \notin {"dropping", "dropped"}

\* Pairs the pairing thread has sent; pictures of camera c it has taken; pictures
\* of camera c it has been sent.
PairsMade == received + Len(frameChan)

\* Frames of camera c that the pairing thread received.
Taken(c) == PairsMade + (IF Source!PairSlot(c) # NoSlot THEN 1 ELSE 0)

\* Frames of camera c that were sent to the pairing thread.
Fed(c) == Taken(c) + Len(decodedChan[c])

\* The pictures of camera c that are on their way.
OnTheWay(c) ==
    /\ held[c] # NoSlot => sourceTexture[c][held[c]] = Source!Skip(c) + received - 1
    /\ frameChan # <<>> => sourceTexture[c][frameChan[1][c]] = Source!Skip(c) + received
    /\ Source!PairSlot(c) # NoSlot =>
           sourceTexture[c][Source!PairSlot(c)] = Source!Skip(c) + PairsMade
    /\ decodedChan[c] # <<>> =>
           sourceTexture[c][decodedChan[c][1]] = Source!Skip(c) + Taken(c)

\* What the decode thread of camera c has decoded.
DecodedSoFar(c) ==
    /\ decoder[c] = "skipping" => decoded[c] = 0 /\ Fed(c) = 0
    /\ decoder[c] \in {"polling", "taking", "copying"} =>
           decoded[c] = Source!Skip(c) + Fed(c) /\ decoded[c] <= lengths[c]
    /\ decoder[c] = "sending" =>
           /\ decoded[c] = Source!Skip(c) + Fed(c) + 1 /\ decoded[c] <= lengths[c]
           /\ sourceTexture[c][writeSlot[c]] = decoded[c] - 1

\* Every slot shows the picture its place in the line calls for.
PicturesInOrder == \A c \in Cams : OnTheWay(c) /\ DecodedSoFar(c)

\* Pairs made, frames taken and frames fed, as numbers in this order.
LEMMA CountTyped ==
  ASSUME SourceTyped, NEW c \in Cams
  PROVE  /\ PairsMade \in Nat /\ Taken(c) \in Nat /\ Fed(c) \in Nat /\ Source!Skip(c) \in Nat
         /\ PairsMade <= Taken(c) /\ Taken(c) <= Fed(c)
<1>1. CamTyped(c) /\ received \in Nat /\ Len(frameChan) \in Nat /\ Source!Skip(c) \in Nat
  BY SourceTypes, SourceSkipTyped
<1>2. PairsMade \in Nat
  BY <1>1 DEF PairsMade
<1>3. Taken(c) \in Nat /\ PairsMade <= Taken(c)
  BY <1>2 DEF Taken
<1>4. Len(decodedChan[c]) \in Nat
  BY <1>1 DEF CamTyped
<1> QED
  BY <1>1, <1>2, <1>3, <1>4 DEF Fed

\* Only the decode thread writes to the textures, and only to its own slot.
LEMMA Steady ==
  ASSUME SourceTyped, NEW c \in Cams, Apart(c), Source!Next,
         NEW p \in Source!Stages \ {"writing"}, NEW x \in Source!At(c, p)
  PROVE  sourceTexture'[c][x] = sourceTexture[c][x]
<1>1. "writing" \in Source!Stages
  BY DEF Source!Stages
<1>2. writeSlot[c] # NoSlot => x # writeSlot[c]
  <2>1. Source!At(c, p) \cap Source!At(c, "writing") = {}
    BY <1>1 DEF Apart
  <2> QED
    BY <2>1 DEF Source!At, NoSlot
<1>3. sourceTexture \in [Source!Cameras -> [Source!Slots -> Nat \cup {Source!None}]]
  BY DEF SourceTyped, Source!TypeOK
<1>4. \/ UNCHANGED sourceTexture
      \/ \E d \in Cams :
             /\ decoder[d] = "copying"
             /\ sourceTexture' = [sourceTexture EXCEPT ![d] =
                                      [sourceTexture[d] EXCEPT ![writeSlot[d]] = decoded[d]]]
  BY DEF Source!Next, Source!Decoder, Source!Pairer, Source!Session, Source!GpuDraws,
     Source!decoderVars, Source!SkipFrames, Source!CheckShutdown, Source!TakeSlot,
     Source!CopyFrame, Source!DecoderFails, Source!SendSlot, Cams
<1>5. ASSUME NEW d \in Cams, decoder[d] = "copying",
             sourceTexture' = [sourceTexture EXCEPT ![d] =
                                      [sourceTexture[d] EXCEPT ![writeSlot[d]] = decoded[d]]]
      PROVE  sourceTexture'[c][x] = sourceTexture[c][x]
  <2>1. writeSlot[d] # NoSlot
    BY <1>5 DEF SourceTyped, SourceShape
  <2>2. CASE d # c
    BY <1>3, <1>5, <2>2 DEF Cams
  <2>3. CASE d = c
    <3>1. sourceTexture'[c] = [sourceTexture[c] EXCEPT ![writeSlot[c]] = decoded[c]]
      BY <1>3, <1>5, <2>3 DEF Cams
    <3> QED
      BY <1>2, <1>3, <2>1, <2>3, <3>1 DEF Cams
  <2> QED
    BY <2>2, <2>3
<1> QED
  BY <1>4, <1>5

\* What is on its way keeps its picture.
LEMMA SteadyOnTheWay ==
  ASSUME SourceTyped, NEW c \in Cams, Apart(c), Source!Next
  PROVE  /\ held[c] # NoSlot => sourceTexture'[c][held[c]] = sourceTexture[c][held[c]]
         /\ frameChan # <<>> =>
                sourceTexture'[c][frameChan[1][c]] = sourceTexture[c][frameChan[1][c]]
         /\ Source!PairSlot(c) # NoSlot =>
                sourceTexture'[c][Source!PairSlot(c)] = sourceTexture[c][Source!PairSlot(c)]
         /\ decodedChan[c] # <<>> =>
                sourceTexture'[c][decodedChan[c][1]] = sourceTexture[c][decodedChan[c][1]]
<1>1. held[c] # NoSlot => held[c] \in Source!At(c, "held")
  BY DEF Source!At, NoSlot
<1>2. frameChan # <<>> => frameChan[1][c] \in Source!At(c, "sent")
  BY SourceTypes DEF Source!At
<1>3. Source!PairSlot(c) # NoSlot => Source!PairSlot(c) \in Source!At(c, "paired")
  BY DEF Source!At, NoSlot
<1>4. decodedChan[c] # <<>> => decodedChan[c][1] \in Source!At(c, "queued")
  BY SourceTypes DEF Source!At, CamTyped
<1>5. {"held", "sent", "paired", "queued"} \subseteq Source!Stages \ {"writing"}
  BY DEF Source!Stages
<1> QED
  BY <1>1, <1>2, <1>3, <1>4, <1>5, Steady

\* A decode thread's steps keep the pictures on their way in the order they were decoded.
LEMMA DecoderInOrder ==
  ASSUME SourceTyped, SourceTyped', NEW c \in Cams, Apart(c), NEW d \in Cams, Source!Decoder(d),
         OnTheWay(c), DecodedSoFar(c), Source!Next, Kept
  PROVE  OnTheWay(c)' /\ DecodedSoFar(c)'
<1>1. UNCHANGED <<lengths, syncOffset, pairLeft, pairRight, frameChan, held, received, pairer>>
      /\ Source!Skip(c)' = Source!Skip(c) /\ Source!PairSlot(c)' = Source!PairSlot(c)
  BY DEF Source!Decoder, Source!inputVars, Source!pairerVars, Source!sessionVars, Source!Skip,
     Source!PairSlot
<1>2. PairsMade' = PairsMade /\ Taken(c)' = Taken(c)
  BY <1>1 DEF PairsMade, Taken
<1>3. CamTyped(c) /\ c \in Source!Cameras /\ d \in Source!Cameras
  BY SourceTypes DEF Cams
<1>4. PairsMade \in Nat /\ Taken(c) \in Nat /\ Fed(c) \in Nat /\ Source!Skip(c) \in Nat
  BY CountTyped
<1>5. ASSUME UNCHANGED <<decodedChan[c]>>
      PROVE  OnTheWay(c)' /\ Fed(c)' = Fed(c)
  BY <1>1, <1>2, <1>5, SteadyOnTheWay DEF OnTheWay, Fed
<1>6. CASE d # c
  <2>1. /\ UNCHANGED decoded \/ \E v : decoded' = [decoded EXCEPT ![d] = v]
        /\ UNCHANGED writeSlot \/ \E v : writeSlot' = [writeSlot EXCEPT ![d] = v]
        /\ UNCHANGED decodedChan \/ \E v : decodedChan' = [decodedChan EXCEPT ![d] = v]
        /\ \/ UNCHANGED sourceTexture
           \/ \E v : sourceTexture' = [sourceTexture EXCEPT ![d] = v]
        /\ UNCHANGED decoder \/ \E v : decoder' = [decoder EXCEPT ![d] = v]
    BY DEF Source!Decoder, Source!SkipFrames, Source!CheckShutdown, Source!TakeSlot,
       Source!CopyFrame, Source!DecoderFails, Source!SendSlot, Source!Goto
  <2>2. /\ UNCHANGED decoder[c] /\ UNCHANGED decoded[c] /\ UNCHANGED writeSlot[c]
        /\ UNCHANGED decodedChan[c] /\ UNCHANGED sourceTexture[c]
    <3>1. /\ DOMAIN decoder = Source!Cameras /\ DOMAIN decoded = Source!Cameras
          /\ DOMAIN writeSlot = Source!Cameras /\ DOMAIN decodedChan = Source!Cameras
          /\ DOMAIN sourceTexture = Source!Cameras
      BY DEF SourceTyped, Source!TypeOK
    <3>2. UNCHANGED decoder[c] /\ UNCHANGED decoded[c]
      BY <1>3, <1>6, <2>1, <3>1
    <3>3. UNCHANGED writeSlot[c] /\ UNCHANGED decodedChan[c]
      BY <1>3, <1>6, <2>1, <3>1
    <3>4. UNCHANGED sourceTexture[c]
      BY <1>3, <1>6, <2>1, <3>1
    <3> QED
      BY <3>2, <3>3, <3>4
  <2> QED
    BY <1>1, <1>2, <1>5, <2>2 DEF DecodedSoFar
<1>7. CASE Source!SkipFrames(c)
  <2>1. decodedChan' = decodedChan /\ Fed(c) = 0
    BY <1>7 DEF Source!SkipFrames, DecodedSoFar
  <2>2. \/ decoder'[c] = "exited"
        \/ decoder'[c] = "polling" /\ decoded'[c] = Source!Skip(c) /\ Source!Skip(c) <= lengths[c]
    BY <1>3, <1>7 DEF Source!SkipFrames, Source!Goto, SourceTyped, Source!TypeOK
  <2> QED
    BY <1>1, <1>4, <1>5, <2>1, <2>2 DEF DecodedSoFar
<1>8. CASE Source!CheckShutdown(c) \/ Source!TakeSlot(c) \/ Source!DecoderFails(c)
  <2>1. decodedChan' = decodedChan /\ decoded' = decoded
    BY <1>8 DEF Source!CheckShutdown, Source!TakeSlot, Source!DecoderFails
  <2>2. \/ decoder'[c] = "exited"
        \/ decoder'[c] \in {"polling", "taking", "copying"} /\ decoder[c] \in {"polling", "taking"}
    BY <1>3, <1>8 DEF Source!CheckShutdown, Source!TakeSlot, Source!DecoderFails, Source!Goto,
       SourceTyped, Source!TypeOK
  <2> QED
    BY <1>1, <1>5, <2>1, <2>2 DEF DecodedSoFar
<1>9. CASE Source!CopyFrame(c)
  <2>1. UNCHANGED <<decodedChan, writeSlot>> /\ decoder[c] = "copying"
    BY <1>9 DEF Source!CopyFrame
  <2>2. \/ decoder'[c] = "exited"
        \/ /\ decoder'[c] = "sending" /\ decoded'[c] = decoded[c] + 1 /\ decoded[c] < lengths[c]
           /\ sourceTexture'[c][writeSlot[c]] = decoded[c]
    <3>1. writeSlot[c] \in Source!Slots
      BY <1>3, <2>1 DEF SourceTyped, SourceShape, CamTyped, NoSlot, Source!None, Source!Slots
    <3>2. /\ decoder \in [Source!Cameras -> {"skipping", "polling", "taking", "copying",
                                             "sending", "exited"}]
          /\ decoded \in [Source!Cameras -> Nat]
          /\ sourceTexture \in [Source!Cameras -> [Source!Slots -> Nat \cup {Source!None}]]
      BY DEF SourceTyped, Source!TypeOK
    <3>3. CASE decoded[c] < lengths[c]
      <4>1. /\ sourceTexture' = [sourceTexture EXCEPT ![c][writeSlot[c]] = decoded[c]]
            /\ decoded' = [decoded EXCEPT ![c] = @ + 1]
            /\ decoder' = [decoder EXCEPT ![c] = "sending"]
        BY <1>9, <3>3 DEF Source!CopyFrame, Source!Goto
      <4> QED
        BY <1>3, <3>1, <3>2, <3>3, <4>1
    <3>4. CASE ~(decoded[c] < lengths[c])
      BY <1>3, <1>9, <3>2, <3>4 DEF Source!CopyFrame, Source!Goto
    <3> QED
      BY <3>3, <3>4
  <2>3. decoded[c] = Source!Skip(c) + Fed(c) /\ Fed(c)' = Fed(c) /\ OnTheWay(c)'
    BY <1>5, <2>1 DEF DecodedSoFar
  <2>4. decoded[c] \in Nat /\ lengths[c] \in Nat
    BY <1>3 DEF CamTyped
  <2>5. writeSlot'[c] = writeSlot[c] /\ lengths'[c] = lengths[c] /\ Source!Skip(c)' = Source!Skip(c)
    BY <1>1, <2>1
  <2>6. CASE decoder'[c] = "exited"
    BY <2>3, <2>6 DEF DecodedSoFar
  <2>7. CASE /\ decoder'[c] = "sending" /\ decoded'[c] = decoded[c] + 1 /\ decoded[c] < lengths[c]
             /\ sourceTexture'[c][writeSlot[c]] = decoded[c]
    <3>1. decoded'[c] = Source!Skip(c) + Fed(c) + 1 /\ decoded'[c] <= lengths[c]
          /\ decoded'[c] - 1 = decoded[c]
      BY <1>4, <2>3, <2>4, <2>7
    <3> QED
      BY <2>3, <2>5, <2>7, <3>1 DEF DecodedSoFar
  <2> QED
    BY <2>2, <2>6, <2>7
<1>10. CASE Source!SendSlot(c)
  <2>1. CASE decoder'[c] = "exited" /\ UNCHANGED decodedChan
    BY <1>5, <2>1 DEF DecodedSoFar
  <2>2. CASE decodedChan[c] = <<>> /\ decodedChan'[c] = <<writeSlot[c]>> /\ decoder'[c] = "polling"
    <3>1. /\ Len(decodedChan'[c]) = 1 /\ decodedChan'[c][1] = writeSlot[c] /\ Len(decodedChan[c]) = 0
      BY <2>2
    <3>2. decoded' = decoded /\ decoder[c] = "sending" /\ sourceTexture' = sourceTexture
      BY <1>10 DEF Source!SendSlot
    <3>3. Fed(c)' = Fed(c) + 1 /\ Fed(c) = Taken(c)
      BY <1>2, <1>4, <3>1 DEF Fed
    <3>4. OnTheWay(c)'
      BY <1>1, <1>2, <1>3, <1>4, <3>1, <3>2, <3>3 DEF OnTheWay, DecodedSoFar, CamTyped
    <3> QED
      BY <1>1, <1>4, <2>2, <3>2, <3>3, <3>4 DEF DecodedSoFar
  <2> QED
    BY <1>3, <1>10, <2>1, <2>2 DEF Source!SendSlot, Source!Goto, SourceTyped, Source!TypeOK
<1> QED
  BY <1>6, <1>7, <1>8, <1>9, <1>10 DEF Source!Decoder

\* Pairing takes the oldest picture of each camera, so it keeps the order and the counts.
LEMMA PairerInOrder ==
  ASSUME SourceTyped, NEW c \in Cams, Apart(c), Source!Pairer, OnTheWay(c), DecodedSoFar(c),
         Source!Next, Kept
  PROVE  OnTheWay(c)' /\ DecodedSoFar(c)' /\ Fed(c)' = Fed(c)
<1>1. /\ UNCHANGED <<lengths, syncOffset, held, received, decoder, decoded, writeSlot,
                      sourceTexture>>
      /\ Source!Skip(c)' = Source!Skip(c)
  BY DEF Source!Pairer, Source!inputVars, Source!decoderVars, Source!sessionVars, Source!Skip
<1>2. CamTyped(c) /\ c \in {"left", "right"} /\ Len(frameChan) \in {0, 1} /\ received \in Nat
      /\ decodedChan \in [{"left", "right"} -> Seq(Source!Slots)]
  BY SourceTypes DEF Cams, Source!Cameras, SourceTyped, Source!TypeOK
<1>3. PairsMade \in Nat /\ Taken(c) \in Nat /\ Fed(c) \in Nat /\ Source!Skip(c) \in Nat
  BY CountTyped
<1>4. CASE UNCHANGED <<frameChan, Source!PairSlot(c), decodedChan[c]>>
  BY <1>1, <1>4 DEF OnTheWay, DecodedSoFar, Fed, Taken, PairsMade
<1>5. CASE /\ decodedChan[c] # <<>> /\ Source!PairSlot(c) = NoSlot
           /\ Source!PairSlot(c)' = Head(decodedChan[c])
           /\ decodedChan'[c] = Tail(decodedChan[c]) /\ UNCHANGED frameChan
  <2>1. Len(decodedChan[c]) = 1 /\ Source!PairSlot(c)' = decodedChan[c][1]
        /\ decodedChan[c][1] \in {0, 1}
    BY <1>2, <1>5, HeadTailProperties DEF CamTyped
  <2>2. Len(decodedChan'[c]) = 0 /\ decodedChan'[c] \in Seq({0, 1})
    BY <1>2, <1>5, <2>1, HeadTailProperties DEF CamTyped
  <2>3. decodedChan'[c] = <<>>
    BY <2>2, EmptySeq
  <2>4. PairsMade' = PairsMade /\ Taken(c) = PairsMade
    BY <1>1, <1>3, <1>5 DEF PairsMade, Taken
  <2>5. Taken(c)' = Taken(c) + 1
    BY <1>1, <1>3, <2>1, <2>4 DEF Taken, NoSlot, Source!None
  <2>6. Fed(c)' = Fed(c)
    BY <1>3, <2>1, <2>2, <2>5 DEF Fed
  <2> QED
    BY <1>1, <1>5, <2>1, <2>3, <2>4, <2>6 DEF OnTheWay, DecodedSoFar
<1>6. CASE /\ frameChan = <<>> /\ Source!PairSlot(c) # NoSlot /\ Source!PairSlot(c)' = NoSlot
           /\ Len(frameChan') = 1 /\ frameChan'[1][c] = Source!PairSlot(c)
           /\ UNCHANGED decodedChan
  <2>1. Len(frameChan) = 0
    BY <1>6
  <2>2. PairsMade = received /\ PairsMade' = PairsMade + 1
    BY <1>1, <1>2, <1>6, <2>1 DEF PairsMade
  <2>3. Taken(c)' = Taken(c)
    BY <1>3, <1>6, <2>2 DEF Taken
  <2> QED
    BY <1>1, <1>6, <2>2, <2>3 DEF OnTheWay, DecodedSoFar, Fed
<1>7. CASE Source!PairLeft
  <2>1. CASE UNCHANGED <<pairLeft, decodedChan>>
    BY <1>4, <1>7, <2>1 DEF Source!PairLeft, Source!PairSlot
  <2>2. CASE decodedChan["left"] # <<>> /\ pairLeft' = Head(decodedChan["left"]) /\ Source!Take("left")
    <3>1. decodedChan'["left"] = Tail(decodedChan["left"])
          /\ decodedChan'["right"] = decodedChan["right"]
      BY <1>2, <2>2 DEF Source!Take
    <3> QED
      BY <1>2, <1>4, <1>5, <1>7, <2>2, <3>1
      DEF Source!PairLeft, Source!PairSlot, SourceTyped, SourceShape
  <2> QED
    BY <1>7, <2>1, <2>2 DEF Source!PairLeft
<1>8. CASE Source!PairRight
  <2>1. CASE UNCHANGED <<pairRight, decodedChan>>
    BY <1>4, <1>8, <2>1 DEF Source!PairRight, Source!PairSlot
  <2>2. CASE decodedChan["right"] # <<>> /\ pairRight' = Head(decodedChan["right"])
             /\ Source!Take("right")
    <3>1. decodedChan'["right"] = Tail(decodedChan["right"])
          /\ decodedChan'["left"] = decodedChan["left"]
      BY <1>2, <2>2 DEF Source!Take
    <3> QED
      BY <1>2, <1>4, <1>5, <1>8, <2>2, <3>1
      DEF Source!PairRight, Source!PairSlot, SourceTyped, SourceShape
  <2> QED
    BY <1>8, <2>1, <2>2 DEF Source!PairRight
<1>9. CASE Source!SendPair
  <2>1. /\ frameChan = <<>> /\ frameChan' = <<[left |-> pairLeft, right |-> pairRight]>>
        /\ pairLeft' = Source!None /\ pairRight' = Source!None
        /\ UNCHANGED decodedChan
    BY <1>9 DEF Source!SendPair, Source!ReceiverDropped, Kept
  <2>2. pairLeft # NoSlot /\ pairRight # NoSlot
    BY <1>9 DEF Source!SendPair, SourceTyped, SourceShape
  <2>3. Len(frameChan') = 1 /\ frameChan'[1][c] = Source!PairSlot(c)
    BY <1>2, <2>1 DEF Source!PairSlot
  <2> QED
    BY <1>6, <2>1, <2>2, <2>3 DEF Source!PairSlot, NoSlot
<1> QED
  BY <1>7, <1>8, <1>9 DEF Source!Pairer

\* What the session holds is the pair that was sent first.
LEMMA SessionInOrder ==
  ASSUME SourceTyped, NEW c \in Cams, Apart(c), Source!Session \/ Source!GpuDraws,
         OnTheWay(c), DecodedSoFar(c), Source!Next, Kept, Kept'
  PROVE  OnTheWay(c)' /\ DecodedSoFar(c)' /\ Fed(c)' = Fed(c) /\ PairsMade' = PairsMade
<1>1. /\ UNCHANGED <<lengths, syncOffset, decoder, decoded, writeSlot, sourceTexture,
                      decodedChan, pairLeft, pairRight>>
      /\ Source!Skip(c)' = Source!Skip(c) /\ Source!PairSlot(c)' = Source!PairSlot(c)
  BY DEF Source!Session, Source!GpuDraws, Source!inputVars, Source!decoderVars,
     Source!pairerVars, Source!Skip, Source!PairSlot
<1>2. CamTyped(c) /\ c \in {"left", "right"} /\ Len(frameChan) \in {0, 1} /\ received \in Nat
      /\ Source!Skip(c) \in Nat
  BY SourceTypes, SourceSkipTyped DEF Cams, Source!Cameras
<1>3. CASE UNCHANGED <<frameChan, received>> /\ (held' = held \/ held' = Source!NoPair)
  <2>1. PairsMade' = PairsMade /\ Taken(c)' = Taken(c) /\ Fed(c)' = Fed(c)
    BY <1>1, <1>3 DEF Fed, Taken, PairsMade
  <2>2. held'[c] = held[c] \/ held'[c] = NoSlot
    BY <1>2, <1>3 DEF Source!NoPair, NoSlot
  <2> QED
    BY <1>1, <1>3, <2>1, <2>2 DEF OnTheWay, DecodedSoFar
<1>4. CASE /\ frameChan # <<>> /\ held' = Head(frameChan) /\ frameChan' = <<>>
           /\ received' = received + 1
  <2>1. Len(frameChan) = 1 /\ held'[c] = frameChan[1][c] /\ Len(frameChan') = 0
    BY <1>4, SourceTypes, HeadTailProperties
  <2>2. PairsMade' = PairsMade
    BY <1>2, <1>4, <2>1 DEF PairsMade
  <2>3. Taken(c)' = Taken(c) /\ Fed(c)' = Fed(c)
    BY <1>1, <2>2 DEF Fed, Taken
  <2>4. Source!Skip(c) + received = Source!Skip(c) + received' - 1
    BY <1>2, <1>4
  <2> QED
    BY <1>1, <1>4, <2>1, <2>2, <2>3, <2>4 DEF OnTheWay, DecodedSoFar
<1> QED
  <2>1. \/ UNCHANGED <<frameChan, received>> /\ (held' = held \/ held' = Source!NoPair)
        \/ /\ frameChan # <<>> /\ held' = Head(frameChan) /\ frameChan' = <<>>
           /\ received' = received + 1
    BY DEF Source!Session, Source!Run, Source!NextFrame, Source!RenderImmediate, Source!CopyToPool,
       Source!ReleaseAfterDetect, Source!SkipPair, Source!Drop, Source!Join, Source!GpuDraws,
       Source!sessionVars, Kept
  <2> QED
    BY <1>3, <1>4, <2>1

\* Frames of camera c that are not discarded for the offset.
Available(c) == IF Source!Skip(c) <= lengths[c] THEN lengths[c] - Source!Skip(c) ELSE 0

\* A thread that ended without an error has passed on all it had.
EndIsEarned ==
    /\ \A c \in Cams : decoder[c] = "exited" /\ ~failed[c] /\ pairer # "exited" =>
           Fed(c) = Available(c)
    /\ pairer = "right" /\ pairLeft = NoSlot => Source!Gone("left")
    /\ pairer = "exited" /\ (\A c \in Cams : ~failed[c]) =>
           /\ \A c \in Cams : PairsMade <= Available(c)
           /\ \E c \in Cams : PairsMade = Available(c)

\* A camera's pairs are counted.
LEMMA AvailableTyped ==
  ASSUME SourceTyped, NEW c \in Cams
  PROVE  Available(c) \in Nat
BY SourceTypes, SourceSkipTyped DEF Available, CamTyped

\* Frames past the end of the video are not fed: without an error no camera feeds more than it has.
LEMMA FedIsAvailable ==
  ASSUME SourceTyped, NEW c \in Cams, DecodedSoFar(c), EndIsEarned, ~failed[c], pairer # "exited"
  PROVE  Fed(c) <= Available(c)
<1>1. /\ Fed(c) \in Nat /\ Source!Skip(c) \in Nat /\ lengths[c] \in Nat /\ decoded[c] \in Nat
      /\ Available(c) \in Nat
      /\ decoder[c] \in {"skipping", "polling", "taking", "copying", "sending", "exited"}
  BY CountTyped, AvailableTyped, SourceTypes DEF CamTyped, SourceTyped, Source!TypeOK, Cams
<1> QED
  BY <1>1 DEF DecodedSoFar, EndIsEarned, Available

\* A decode thread closes its channel at the end of its video or on an error.
LEMMA DecoderEarns ==
  ASSUME SourceTyped, \A c \in Cams : OnTheWay(c) /\ DecodedSoFar(c), EndIsEarned, Kept,
         NEW d \in Cams, Source!Decoder(d)
  PROVE  EndIsEarned'
<1>1. /\ UNCHANGED <<lengths, syncOffset, pairer, pairLeft, pairRight, frameChan, received,
                      session, shutdown>>
      /\ \A c \in Cams : /\ Source!Skip(c)' = Source!Skip(c)
                          /\ Source!PairSlot(c)' = Source!PairSlot(c)
  BY DEF Source!Decoder, Source!inputVars, Source!pairerVars, Source!sessionVars, Source!Skip,
     Source!PairSlot
<1>2. PairsMade' = PairsMade /\ \A c \in Cams : Taken(c)' = Taken(c) /\ Available(c)' = Available(c)
  BY <1>1 DEF PairsMade, Taken, Available
<1>3. d \in Source!Cameras /\ CamTyped(d) /\ Fed(d) \in Nat /\ Source!Skip(d) \in Nat
  BY SourceTypes, CountTyped DEF Cams
<1>4. ~shutdown
  BY DEF SourceTyped, SourceShape, Kept
<1>5. decoder[d] # "exited"
  BY DEF Source!Decoder, Source!SkipFrames, Source!CheckShutdown, Source!TakeSlot,
     Source!CopyFrame, Source!DecoderFails, Source!SendSlot
<1>6. ASSUME NEW c \in Cams, c # d
      PROVE  /\ UNCHANGED decoder[c] /\ UNCHANGED failed[c] /\ UNCHANGED decodedChan[c]
             /\ Fed(c)' = Fed(c)
  <2>1. /\ UNCHANGED decodedChan \/ \E v : decodedChan' = [decodedChan EXCEPT ![d] = v]
        /\ UNCHANGED failed \/ \E v : failed' = [failed EXCEPT ![d] = v]
        /\ UNCHANGED decoder \/ \E v : decoder' = [decoder EXCEPT ![d] = v]
    BY DEF Source!Decoder, Source!SkipFrames, Source!CheckShutdown, Source!TakeSlot,
       Source!CopyFrame, Source!DecoderFails, Source!SendSlot, Source!Goto
  <2>2. /\ UNCHANGED decoder[c] /\ UNCHANGED failed[c] /\ UNCHANGED decodedChan[c]
    BY <1>3, <1>6, <2>1 DEF SourceTyped, Source!TypeOK, Cams
  <2> QED
    BY <1>2, <2>2 DEF Fed
<1>7. failed[d] => failed'[d]
  BY <1>3 DEF Source!Decoder, Source!SkipFrames, Source!CheckShutdown, Source!TakeSlot,
     Source!CopyFrame, Source!DecoderFails, Source!SendSlot, SourceTyped, Source!TypeOK
<1>8. ASSUME decoder'[d] = "exited", ~failed'[d], pairer # "exited"
      PROVE  Fed(d)' = Available(d)
  <2>1. ~Source!DecoderFails(d)
    BY <1>3, <1>8 DEF Source!DecoderFails, SourceTyped, Source!TypeOK
  <2>2. ~Source!CheckShutdown(d) /\ ~Source!TakeSlot(d)
    BY <1>3, <1>4, <1>8 DEF Source!CheckShutdown, Source!TakeSlot, Source!Goto, SourceTyped,
       Source!TypeOK
  <2>3. ~Source!SendSlot(d)
    BY <1>3, <1>8 DEF Source!SendSlot, Source!Goto, SourceTyped, Source!TypeOK
  <2>4. CASE Source!SkipFrames(d)
    <3>1. decodedChan' = decodedChan /\ ~(Source!Skip(d) <= lengths[d]) /\ Fed(d) = 0
      BY <1>3, <1>8, <2>4 DEF Source!SkipFrames, Source!Goto, SourceTyped, Source!TypeOK,
         DecodedSoFar
    <3> QED
      BY <1>2, <3>1 DEF Fed, Available
  <2>5. CASE Source!CopyFrame(d)
    <3>1. decodedChan' = decodedChan /\ ~(decoded[d] < lengths[d]) /\ decoder[d] = "copying"
      BY <1>3, <1>8, <2>5 DEF Source!CopyFrame, Source!Goto, SourceTyped, Source!TypeOK
    <3>2. Fed(d)' = Fed(d)
      BY <1>2, <3>1 DEF Fed
    <3> QED
      BY <1>3, <3>1, <3>2 DEF DecodedSoFar, Available, CamTyped
  <2> QED
    BY <2>1, <2>2, <2>3, <2>4, <2>5 DEF Source!Decoder
<1>9. \A c \in Cams : decoder'[c] = "exited" /\ ~failed'[c] /\ pairer' # "exited" =>
          Fed(c)' = Available(c)'
  <2> SUFFICES ASSUME NEW c \in Cams, decoder'[c] = "exited", ~failed'[c], pairer' # "exited"
               PROVE  Fed(c)' = Available(c)
    BY <1>2
  <2>1. CASE c = d
    BY <1>1, <1>8, <2>1
  <2>2. CASE c # d
    BY <1>1, <1>6, <2>2 DEF EndIsEarned
  <2> QED
    BY <2>1, <2>2
<1>10. pairer' = "right" /\ pairLeft' = NoSlot => Source!Gone("left")'
  <2>1. Source!Gone("left") => d # "left"
    BY <1>5 DEF Source!Gone
  <2> QED
    BY <1>1, <1>6, <2>1 DEF EndIsEarned, Source!Gone, Cams, Source!Cameras
<1>11. (\A c \in Cams : ~failed'[c]) => \A c \in Cams : ~failed[c]
  BY <1>6, <1>7
<1> QED
  BY <1>1, <1>2, <1>9, <1>10, <1>11 DEF EndIsEarned, NoSlot, Source!None

\* The pairing thread gives up when a camera has no frame left for a pair.
LEMMA PairerEarns ==
  ASSUME SourceTyped, \A c \in Cams : DecodedSoFar(c), EndIsEarned, Kept, Source!Pairer,
         \A c \in Cams : Fed(c)' = Fed(c)
  PROVE  EndIsEarned'
<1>1. /\ UNCHANGED <<lengths, syncOffset, decoder, failed, received, session>>
      /\ \A c \in Cams : Available(c)' = Available(c)
  BY DEF Source!Pairer, Source!inputVars, Source!decoderVars, Source!sessionVars, Source!Skip,
     Available
<1>2. pairer # "exited" /\ "left" \in Cams /\ "right" \in Cams /\ Cams = {"left", "right"}
  BY DEF Source!Pairer, Source!PairLeft, Source!PairRight, Source!SendPair, Cams, Source!Cameras
<1>3. \A c \in Cams : /\ Fed(c) \in Nat /\ PairsMade \in Nat /\ Available(c) \in Nat
                        /\ PairsMade <= Taken(c) /\ Taken(c) <= Fed(c) /\ Taken(c) \in Nat
  BY CountTyped, AvailableTyped
<1>4. pairer' = "right" /\ pairLeft' = NoSlot => Source!Gone("left")'
  <2>1. CASE Source!PairLeft
    <3>1. decodedChan["left"] # <<>> => Head(decodedChan["left"]) # NoSlot
      BY <1>2, SourceTypes, HeadTailProperties DEF CamTyped, NoSlot, Source!None
    <3> QED
      BY <1>1, <2>1, <3>1 DEF Source!PairLeft, Source!Gone, NoSlot
  <2>2. CASE Source!PairRight \/ Source!SendPair
    BY <2>2 DEF Source!PairRight, Source!SendPair
  <2> QED
    BY <2>1, <2>2 DEF Source!Pairer
<1>5. ASSUME pairer' = "exited", \A c \in Cams : ~failed[c]
      PROVE  /\ PairsMade' = PairsMade
             /\ \A c \in Cams : PairsMade <= Available(c)
             /\ \E c \in Cams : PairsMade = Available(c)
  <2>1. Source!PairRight
    BY <1>5 DEF Source!Pairer, Source!PairLeft, Source!SendPair, Source!ReceiverDropped, Kept
  <2>2. PairsMade' = PairsMade
    BY <1>1, <2>1 DEF Source!PairRight, PairsMade
  <2>3. \A c \in Cams : PairsMade <= Available(c)
    <3> SUFFICES ASSUME NEW c \in Cams PROVE PairsMade <= Available(c)
      OBVIOUS
    <3>1. Fed(c) <= Available(c)
      BY <1>2, <1>5, FedIsAvailable
    <3> QED
      BY <1>3, <3>1
  <2>4. ASSUME NEW c \in Cams, Source!Gone(c), Source!PairSlot(c) = NoSlot
        PROVE  PairsMade = Available(c)
    <3>1. Fed(c) = Available(c)
      BY <1>2, <1>5, <2>4 DEF EndIsEarned, Source!Gone
    <3>2. Len(decodedChan[c]) = 0
      BY <2>4 DEF Source!Gone
    <3>3. Fed(c) = PairsMade
      BY <1>3, <2>4, <3>2 DEF Fed, Taken
    <3> QED
      BY <3>1, <3>3
  <2>5. pairRight = NoSlot /\ pairer = "right"
    BY <2>1 DEF Source!PairRight, SourceTyped, SourceShape
  <2>6. Source!Gone("right") \/ pairLeft = NoSlot
    BY <1>5, <2>1 DEF Source!PairRight, NoSlot
  <2>7. Source!Gone("right") \/ (Source!Gone("left") /\ pairLeft = NoSlot)
    BY <2>5, <2>6 DEF EndIsEarned
  <2>8. \E c \in Cams : PairsMade = Available(c)
    BY <1>2, <2>4, <2>5, <2>7 DEF Source!PairSlot
  <2> QED
    BY <2>2, <2>3, <2>8
<1> QED
  BY <1>1, <1>2, <1>4, <1>5 DEF EndIsEarned, NoSlot, Source!None

\* The session gives nothing up by itself.
LEMMA SessionEarns ==
  ASSUME SourceTyped, EndIsEarned, Source!Session \/ Source!GpuDraws, PairsMade' = PairsMade,
         \A c \in Cams : Fed(c)' = Fed(c)
  PROVE  EndIsEarned'
<1>1. /\ UNCHANGED <<lengths, syncOffset, decoder, failed, decodedChan, pairer, pairLeft>>
      /\ \A c \in Cams : Available(c)' = Available(c)
      /\ Source!Gone("left")' = Source!Gone("left")
  BY DEF Source!Session, Source!GpuDraws, Source!inputVars, Source!decoderVars,
     Source!pairerVars, Source!Skip, Available, Source!Gone
<1> QED
  BY <1>1 DEF EndIsEarned, NoSlot, Source!None

\* The pair the session holds is the one its number names on both cameras.
LEMMA HeldIsInSync ==
  ASSUME SourceTyped, PicturesInOrder, session \in {"holding", "detecting"}
  PROVE  Source!ShowsPair(received - 1, [c \in Cams |-> sourceTexture[c][held[c]]])
<1>1. "left" \in Cams /\ "right" \in Cams /\ held.left # NoSlot /\ held.right # NoSlot
  BY DEF Cams, Source!Cameras, SourceTyped, SourceShape
<1>2. /\ sourceTexture["left"][held["left"]] = Source!Skip("left") + received - 1
      /\ sourceTexture["right"][held["right"]] = Source!Skip("right") + received - 1
  BY <1>1 DEF PicturesInOrder, OnTheWay
<1>3. syncOffset \in Int /\ received \in Nat
  BY SourceTypes
<1>4. /\ Source!Skip("left") = IF syncOffset < 0 THEN -syncOffset ELSE 0
      /\ Source!Skip("right") = IF syncOffset > 0 THEN syncOffset ELSE 0
  BY <1>3 DEF Source!Skip
<1> DEFINE pictures == [c \in Cams |-> sourceTexture[c][held[c]]]
<1>5. /\ pictures.left = Source!Skip("left") + received - 1
      /\ pictures.right = Source!Skip("right") + received - 1
  BY <1>1, <1>2
<1> HIDE DEF pictures
<1>6. Source!ShowsPair(received - 1, pictures)
  BY <1>3, <1>4, <1>5 DEF Source!ShowsPair
<1> QED
  BY <1>6 DEF pictures

\* In the buffered loop what was copied is the copied pair.
CopiesInSync == mode = "Buffered" => Source!DrawnFromOwnPair

\* A copy made from a pair stays that pair's until the next copy.
LEMMA CopiesStay ==
  ASSUME SourceTyped, CopiesInSync, Kept => PicturesInOrder, Source!Next
  PROVE  CopiesInSync'
<1>1. UNCHANGED <<mode, syncOffset>>
  BY DEF Source!Next, Source!Decoder, Source!Pairer, Source!Session, Source!GpuDraws,
     Source!inputVars
<1>2. CASE UNCHANGED drawn
  BY <1>1, <1>2 DEF CopiesInSync, Source!DrawnFromOwnPair, Source!ShowsPair, Source!None
<1>3. CASE mode = "Buffered" /\ Source!CopyToPool
  <2>1. Source!ShowsPair(received - 1, [c \in Cams |-> sourceTexture[c][held[c]]])
    BY <1>3, HeldIsInSync DEF Source!CopyToPool, Kept
  <2>2. /\ drawn'.pair = received - 1 /\ drawn'.left = sourceTexture["left"][held.left]
        /\ drawn'.right = sourceTexture["right"][held.right]
    BY <1>3 DEF Source!CopyToPool
  <2>3. /\ [c \in Cams |-> sourceTexture[c][held[c]]].left = sourceTexture["left"][held.left]
        /\ [c \in Cams |-> sourceTexture[c][held[c]]].right = sourceTexture["right"][held.right]
    BY DEF Cams, Source!Cameras
  <2> HIDE DEF Cams
  <2>4. Source!ShowsPair(drawn'.pair, drawn')
    BY <2>1, <2>2, <2>3 DEF Source!ShowsPair
  <2> QED
    BY <1>1, <2>4 DEF CopiesInSync, Source!DrawnFromOwnPair, Source!ShowsPair
<1>4. mode = "Buffered" => ~Source!GpuDraws
  BY DEF SourceTyped, SourceShape, Source!GpuDraws
<1>5. UNCHANGED drawn \/ Source!CopyToPool \/ Source!GpuDraws
  BY DEF Source!Next, Source!Decoder, Source!Pairer, Source!Session, Source!gpuVars, Source!Run,
     Source!NextFrame, Source!RenderImmediate, Source!ReleaseAfterDetect, Source!SkipPair,
     Source!Drop, Source!Join
<1> QED
  BY <1>1, <1>2, <1>3, <1>4, <1>5 DEF CopiesInSync

\* How many pictures of the left camera have a picture of the right one.
LEMMA CommonPictures ==
  ASSUME NEW l \in Nat, NEW r \in Nat, NEW k \in Int,
         NEW n \in Nat,
         n <= (IF k < 0 THEN IF -k <= l THEN l + k ELSE 0 ELSE l),
         n <= (IF k > 0 THEN IF k <= r THEN r - k ELSE 0 ELSE r),
         \/ n = IF k < 0 THEN IF -k <= l THEN l + k ELSE 0 ELSE l
         \/ n = IF k > 0 THEN IF k <= r THEN r - k ELSE 0 ELSE r
  PROVE  Cardinality({i \in 0 .. l - 1 : i + k \in 0 .. r - 1}) = n
<1> DEFINE a == IF k < 0 THEN -k ELSE 0
           b == a + n - 1
<1>1. {i \in 0 .. l - 1 : i + k \in 0 .. r - 1} = a .. b
  OBVIOUS
<1>2. a \in Int /\ b \in Int /\ b - a + 1 = n /\ (a > b => n = 0)
  OBVIOUS
<1> HIDE DEF a, b
<1>3. Cardinality(a .. b) = IF a > b THEN 0 ELSE b - a + 1
  BY <1>2, FS_Interval
<1> QED
  BY <1>1, <1>2, <1>3

\* The inductive invariant: slots apart, pictures in order, and the end earned.
SourceInv ==
    /\ SourceTyped
    /\ \A c \in Cams : Apart(c)
    /\ CopiesInSync
    /\ Kept => PicturesInOrder /\ EndIsEarned

\* The invariant holds when the source opens.
LEMMA SourceStarts == Source!Init => SourceInv
<1> SUFFICES ASSUME Source!Init PROVE SourceInv
  OBVIOUS
<1>1. SourceTyped
  BY SourceStartsTyped
<1>2. ASSUME NEW c \in Cams
      PROVE  /\ slotFree[c] = <<0, 1>> /\ decodedChan[c] = <<>> /\ frameChan = <<>>
             /\ writeSlot[c] = NoSlot /\ held[c] = NoSlot /\ Source!PairSlot(c) = NoSlot
             /\ decoder[c] = "skipping" /\ decoded[c] = 0
  BY DEF Source!Init, Cams, Source!Cameras, NoSlot, Source!NoPair, Source!PairSlot
<1>3. ASSUME NEW c \in Cams PROVE Apart(c)
  <2>1. \A i, j \in 1 .. Len(slotFree[c]) : i # j => slotFree[c][i] # slotFree[c][j]
    BY <1>2
  <2>2. Len(decodedChan[c]) = 0 /\ Len(frameChan) = 0
    BY <1>2
  <2>3. \A p \in Source!Stages \ {"free"} : Source!At(c, p) = {}
    BY <1>2, <2>2 DEF Source!At, Source!Stages, NoSlot
  <2> QED
    BY <2>1, <2>3 DEF Apart
<1>4. CopiesInSync
  BY DEF Source!Init, CopiesInSync, Source!DrawnFromOwnPair
<1>5. ASSUME NEW c \in Cams PROVE Fed(c) = 0 /\ OnTheWay(c)
  <2>1. received = 0 /\ Len(frameChan) = 0 /\ Len(decodedChan[c]) = 0
    BY <1>2 DEF Source!Init
  <2> QED
    BY <1>2, <2>1 DEF Fed, Taken, PairsMade, OnTheWay
<1>6. PicturesInOrder
  BY <1>2, <1>5 DEF PicturesInOrder, DecodedSoFar
<1>7. EndIsEarned
  BY <1>2 DEF Source!Init, EndIsEarned
<1> QED
  BY <1>1, <1>3, <1>4, <1>6, <1>7 DEF SourceInv

\* Every step of the four threads and the GPU keeps the invariant.
LEMMA SourceStep == ASSUME SourceInv, [Source!Next]_zeroCopyVars PROVE SourceInv'
<1>1. CASE Source!Next
  <2>0. SourceTyped /\ \A c \in Cams : Apart(c)
    BY DEF SourceInv
  <2>1. SourceTyped'
    BY <1>1, DecoderTyped, PairerTyped, SessionTyped DEF Source!Next, SourceInv, Cams
  <2>2. \A c \in Cams : Apart(c)'
    BY <1>1, DecoderApart, PairerApart, SessionApart DEF Source!Next, SourceInv, Cams
  <2>3. CopiesInSync'
    BY <1>1, CopiesStay DEF SourceInv
  <2>4. ASSUME Kept' PROVE (PicturesInOrder /\ EndIsEarned)'
    <3>1. Kept
      BY <1>1, <2>4 DEF Kept, Source!Next, Source!Decoder, Source!Pairer, Source!Session,
         Source!GpuDraws, Source!sessionVars, Source!Run, Source!NextFrame,
         Source!RenderImmediate, Source!CopyToPool, Source!ReleaseAfterDetect, Source!SkipPair,
         Source!Drop, Source!Join
    <3>2. PicturesInOrder /\ EndIsEarned /\ \A c \in Cams : OnTheWay(c) /\ DecodedSoFar(c)
      BY <3>1 DEF SourceInv, PicturesInOrder
    <3>3. CASE \E d \in Cams : Source!Decoder(d)
      <4>1. PICK d \in Cams : Source!Decoder(d)
        BY <3>3
      <4>2. \A c \in Cams : OnTheWay(c)' /\ DecodedSoFar(c)'
        BY <1>1, <2>0, <2>1, <3>1, <3>2, <4>1, DecoderInOrder
      <4>3. EndIsEarned'
        BY <2>0, <3>1, <3>2, <4>1, DecoderEarns
      <4> QED
        BY <4>2, <4>3 DEF PicturesInOrder, Cams, Source!Cameras
    <3>4. CASE Source!Pairer
      <4>1. \A c \in Cams : OnTheWay(c)' /\ DecodedSoFar(c)' /\ Fed(c)' = Fed(c)
        BY <1>1, <2>0, <3>1, <3>2, <3>4, PairerInOrder
      <4>2. EndIsEarned'
        BY <2>0, <3>1, <3>2, <3>4, <4>1, PairerEarns
      <4> QED
        BY <4>1, <4>2 DEF PicturesInOrder, Cams, Source!Cameras
    <3>5. CASE Source!Session \/ Source!GpuDraws
      <4>1. \A c \in Cams : /\ OnTheWay(c)' /\ DecodedSoFar(c)' /\ Fed(c)' = Fed(c)
                             /\ PairsMade' = PairsMade
        BY <1>1, <2>0, <2>4, <3>1, <3>2, <3>5, SessionInOrder
      <4>2. EndIsEarned'
        <5>1. "left" \in Cams
          BY DEF Cams, Source!Cameras
        <5> QED
          BY <2>0, <3>2, <3>5, <4>1, <5>1, SessionEarns
      <4> QED
        BY <4>1, <4>2 DEF PicturesInOrder, Cams, Source!Cameras
    <3> QED
      BY <1>1, <3>3, <3>4, <3>5 DEF Source!Next, Cams
  <2> QED
    BY <2>1, <2>2, <2>3, <2>4 DEF SourceInv, Cams, Source!Cameras
<1>2. CASE UNCHANGED zeroCopyVars
  <2>1. SourceTyped'
    BY <1>2 DEF zeroCopyVars, SourceInv, SourceTyped, Source!TypeOK, SourceShape
  <2>2. (\A c \in Cams : Apart(c))'
    <3>1. \A c \in Cams : UNCHANGED <<slotFree[c], writeSlot[c], decodedChan[c],
                                     Source!PairSlot(c), frameChan, held[c]>>
      BY <1>2 DEF zeroCopyVars, Source!PairSlot
    <3>2. \A c \in Cams : Apart(c)'
      BY <3>1, Elsewhere DEF SourceInv
    <3> QED
      BY <3>2 DEF Cams, Source!Cameras
  <2>3. CopiesInSync' /\ Kept' = Kept
    BY <1>2 DEF zeroCopyVars, SourceInv, CopiesInSync, Source!DrawnFromOwnPair, Source!ShowsPair,
       Kept
  <2>4. \A c \in Cams : /\ Fed(c)' = Fed(c) /\ Taken(c)' = Taken(c) /\ PairsMade' = PairsMade
                         /\ Source!Skip(c)' = Source!Skip(c)
                         /\ Source!PairSlot(c)' = Source!PairSlot(c)
    BY <1>2 DEF zeroCopyVars, Fed, Taken, PairsMade, Source!Skip, Source!PairSlot
  <2>5. PicturesInOrder => PicturesInOrder'
    BY <1>2, <2>4 DEF zeroCopyVars, PicturesInOrder, OnTheWay, DecodedSoFar
  <2>6. EndIsEarned => EndIsEarned'
    <3>1. /\ UNCHANGED <<lengths, decoder, failed, pairer, pairLeft, decodedChan>>
          /\ PairsMade' = PairsMade
      BY <1>2 DEF zeroCopyVars, PairsMade
    <3> QED
      BY <2>4, <3>1 DEF EndIsEarned, Available, Source!Gone
  <2> QED
    BY <2>1, <2>2, <2>3, <2>5, <2>6 DEF SourceInv
<1> QED
  BY <1>1, <1>2

\* The invariant gives the properties the run checks.
LEMMA SourceKeeps ==
  ASSUME SourceInv
  PROVE  /\ Source!TypeOK /\ Source!SlotHeldOnce /\ Source!HeldPairInSync
         /\ Source!CopiedFromOwnPair /\ Source!AllPairsDelivered
<1>1. Source!TypeOK /\ SourceTyped
  BY DEF SourceInv, SourceTyped
<1>2. Source!SlotHeldOnce
  BY DEF SourceInv, SourceTyped, SourceShape, Apart, Source!SlotHeldOnce, Cams
<1>3. Source!HeldPairInSync
  <2>1. ASSUME session \in {"holding", "detecting"}
        PROVE  Source!ShowsPair(received - 1, [c \in Cams |-> sourceTexture[c][held[c]]])
    BY <1>1, <2>1, HeldIsInSync DEF SourceInv, Kept
  <2> QED
    BY <2>1 DEF Source!HeldPairInSync, Cams
<1>4. Source!CopiedFromOwnPair
  BY DEF SourceInv, CopiesInSync, Source!CopiedFromOwnPair
<1>5. ASSUME session = "exhausted", \A c \in Cams : ~failed[c]
      PROVE  received = Cardinality({i \in 0 .. lengths["left"] - 1 :
                                        i + syncOffset \in 0 .. lengths["right"] - 1})
  <2>1. pairer = "exited" /\ frameChan = <<>> /\ EndIsEarned
    BY <1>1, <1>5 DEF SourceInv, SourceTyped, SourceShape, Kept
  <2>2. /\ "left" \in Cams /\ "right" \in Cams /\ Cams = {"left", "right"}
        /\ lengths["left"] \in Nat /\ lengths["right"] \in Nat
        /\ syncOffset \in Int /\ received \in Nat
    BY <1>1, SourceTypes DEF Cams, Source!Cameras, CamTyped
  <2>3. PairsMade = received
    <3>1. Len(frameChan) = 0
      BY <2>1
    <3> QED
      BY <2>2, <3>1 DEF PairsMade
  <2>4. /\ received <= Available("left") /\ received <= Available("right")
        /\ received = Available("left") \/ received = Available("right")
    BY <1>5, <2>1, <2>2, <2>3 DEF EndIsEarned
  <2>5. /\ Available("left") = IF syncOffset < 0
                               THEN IF -syncOffset <= lengths["left"]
                                    THEN lengths["left"] + syncOffset ELSE 0
                               ELSE lengths["left"]
        /\ Available("right") = IF syncOffset > 0
                                THEN IF syncOffset <= lengths["right"]
                                     THEN lengths["right"] - syncOffset ELSE 0
                                ELSE lengths["right"]
    BY <2>2 DEF Available, Source!Skip
  <2> DEFINE l == lengths["left"]
             r == lengths["right"]
             a == IF syncOffset < 0 THEN IF -syncOffset <= l THEN l + syncOffset ELSE 0 ELSE l
             b == IF syncOffset > 0 THEN IF syncOffset <= r THEN r - syncOffset ELSE 0 ELSE r
  <2>6. received <= a /\ received <= b /\ (received = a \/ received = b)
    BY <2>4, <2>5
  <2>7. l \in Nat /\ r \in Nat
    BY <2>2
  <2> HIDE DEF l, r
  <2>8. Cardinality({i \in 0 .. l - 1 : i + syncOffset \in 0 .. r - 1}) = received
    BY <2>2, <2>6, <2>7, CommonPictures
  <2> QED
    BY <2>8 DEF l, r
<1>6. Source!AllPairsDelivered
  <2>1. \A S : Source!Cardinality(S) = Cardinality(S)
    BY DEF Source!Cardinality, Cardinality
  <2> QED
    BY <1>5, <2>1 DEF Source!AllPairsDelivered, Cams
<1> QED
  BY <1>1, <1>2, <1>3, <1>4, <1>6


\* The source's invariant holds in every state of the source and of the system the run checks:
\* the slots are apart, the pictures on their way are consecutive, and the end is earned.
THEOREM SourceAlways ==
  /\ Source!Spec => []SourceInv
  /\ MCSpec => []SourceInv
<1>1. SourceInv /\ [Source!Next]_Source!vars => SourceInv'
  BY SourceStep DEF Source!vars, zeroCopyVars, Source!inputVars, Source!decoderVars,
     Source!pairerVars, Source!sessionVars, Source!gpuVars
<1>2. SourceInv /\ [MCNext]_mcVars => SourceInv'
  BY SourceStep DEF MCNext, mcVars
<1>3. MCInit => SourceInv
  BY SourceStarts DEF MCInit
<1> QED
  BY <1>1, <1>2, <1>3, SourceStarts, PTL DEF MCSpec, Source!Spec

\* A slot of a camera's ring is in one place at a time (free, being written, queued, in
\* a pair, sent, or held by the session), so that no frame is decoded over one that is
\* still read and no release finds its channel full: for every video length and sync
\* offset, and however the threads interleave.
THEOREM SlotsHeldOnce ==
  /\ Source!Spec => []Source!SlotHeldOnce
  /\ MCSpec => []SlotHeldOnce
<1>1. SourceInv => Source!SlotHeldOnce /\ SlotHeldOnce
  BY SourceKeeps DEF SlotHeldOnce
<1> QED
  BY <1>1, SourceAlways, PTL

\* The pair the session holds shows one instant on both cameras and stays as it is, and in
\* the buffered loop so does what was copied from it, for every sync offset.
THEOREM PairsAreInSync ==
  /\ Source!Spec => [](Source!HeldPairInSync /\ Source!CopiedFromOwnPair)
  /\ MCSpec => []PairsInSync
<1>1. SourceInv => Source!HeldPairInSync /\ Source!CopiedFromOwnPair /\ PairsInSync
  BY SourceKeeps DEF PairsInSync
<1> QED
  BY <1>1, SourceAlways, PTL

\* When no decode failed the end of the stream comes after all the pairs the two videos
\* have in common at this offset, and not one fewer.
THEOREM EveryPairDelivered ==
  /\ Source!Spec => []Source!AllPairsDelivered
  /\ MCSpec => []AllPairsDelivered
<1>1. SourceInv => Source!AllPairsDelivered /\ AllPairsDelivered
  BY SourceKeeps DEF AllPairsDelivered
<1> QED
  BY <1>1, SourceAlways, PTL

------------------------------------------------------------------------------
(***************************************************************************)
(* VideoDecoder: frames, then the frames the codec held back, then the     *)
(* end.                                                                    *)
(***************************************************************************)

\* What was returned is what the codec gave out since decoding started, and
\* only the drained codec ends.
DecodingInv ==
    /\ Decoding!TypeOK
    /\ origin \in 0 .. next
    /\ returned = IF next = origin THEN -1 ELSE next - 1
    /\ eofSent => read = length
    /\ ended => eofSent /\ next = length

\* The decoder's counters are numbers within the video.
LEMMA DecodingNumbers ==
  ASSUME Decoding!TypeOK
  PROVE  /\ length \in Nat /\ delay \in Nat /\ read \in 0 .. length /\ next \in 0 .. read
         /\ MaxSeeks \in Nat /\ KeyInterval \in Nat \ {0}
BY DecodingAssumption DEF Decoding!TypeOK, Decoding!VideoDecoderAssumption

\* The decoder opens in a state of the invariant.
LEMMA DecodingStarts == ASSUME Decoding!Init PROVE DecodingInv
<1>1. /\ length \in StreamLengths /\ delay \in Delays /\ read = 0 /\ next = 0 /\ eofSent = FALSE
      /\ returned = -1 /\ seeks = 0 /\ origin = 0 /\ ended = FALSE
  BY DEF Decoding!Init, Decoding!None
<1>2. length \in Nat /\ MaxSeeks \in Nat
  BY <1>1, DecodingAssumption DEF Decoding!VideoDecoderAssumption
<1>3. /\ read \in 0 .. length /\ next \in 0 .. read /\ seeks \in 0 .. MaxSeeks /\ origin \in 0 .. next
      /\ returned \in Nat \cup {-1} /\ origin \in Nat
  BY <1>1, <1>2
<1> QED
  BY <1>1, <1>3 DEF DecodingInv, Decoding!TypeOK, Decoding!None

\* next_frame keeps it: a frame, a flushed frame or the end.
LEMMA NextFrameKeeps ==
  ASSUME DecodingInv, Decoding!NextFrame
  PROVE  DecodingInv'
<1>1. Decoding!TypeOK /\ length' = length /\ delay' = delay /\ seeks' = seeks /\ origin' = origin
  BY DEF DecodingInv, Decoding!NextFrame
<1>2. /\ length \in Nat /\ delay \in Nat /\ read \in 0 .. length /\ next \in 0 .. read
      /\ origin \in 0 .. next
  BY DecodingNumbers DEF DecodingInv
<1>3. CASE Decoding!Decode
  <2>1. /\ ~eofSent /\ next + delay < length /\ read' = next + delay + 1 /\ returned' = next
        /\ next' = next + 1 /\ ended' = FALSE /\ eofSent' = eofSent
    BY <1>3 DEF Decoding!Decode, Decoding!Return
  <2>2. /\ read' \in 0 .. length /\ next' \in 0 .. read' /\ returned' \in Nat \cup {-1}
        /\ origin \in 0 .. next' /\ returned' = IF next' = origin THEN -1 ELSE next' - 1
    BY <1>2, <2>1, DecodingNumbers DEF DecodingInv
  <2>3. eofSent' = FALSE
    BY <1>1, <2>1 DEF Decoding!TypeOK
  <2> QED
    BY <1>1, <2>1, <2>2, <2>3 DEF DecodingInv, Decoding!TypeOK, Decoding!None
<1>4. CASE Decoding!EndOfStream \/ Decoding!AfterEof
  <2>1. /\ read' = length /\ eofSent'
        /\ \/ next < length /\ returned' = next /\ next' = next + 1 /\ ended' = FALSE
           \/ next = length /\ returned' = returned /\ next' = next /\ ended' = TRUE
    BY <1>2, <1>4 DEF Decoding!EndOfStream, Decoding!AfterEof, Decoding!Return,
       Decoding!ReturnNone, Decoding!Held, DecodingInv
  <2>2. eofSent' \in BOOLEAN
    BY <1>1, <1>4 DEF Decoding!EndOfStream, Decoding!AfterEof, Decoding!TypeOK
  <2>3. /\ read' \in 0 .. length /\ next' \in 0 .. read' /\ returned' \in Nat \cup {-1}
        /\ origin \in 0 .. next' /\ returned' = IF next' = origin THEN -1 ELSE next' - 1
    BY <1>1, <1>2, <2>1 DEF DecodingInv, Decoding!TypeOK, Decoding!None
  <2>4. ended' \in BOOLEAN /\ (ended' => next' = length)
    BY <2>1
  <2> QED
    BY <1>1, <2>1, <2>2, <2>3, <2>4 DEF DecodingInv, Decoding!TypeOK, Decoding!None
<1> QED
  BY <1>3, <1>4 DEF Decoding!NextFrame

\* So does a seek, which flushes the codec and forgets the end.
LEMMA DecoderSeekKeeps ==
  ASSUME DecodingInv, Decoding!SeekToSecs
  PROVE  DecodingInv'
<1>1. PICK k \in 0 .. length :
          /\ k < length \/ k = 0
          /\ read' = k /\ next' = k /\ origin' = k
  BY DEF Decoding!SeekToSecs
<1>2. /\ seeks < MaxSeeks /\ seeks' = seeks + 1 /\ eofSent' = FALSE /\ returned' = -1
      /\ ended' = FALSE /\ length' = length /\ delay' = delay
  BY DEF Decoding!SeekToSecs, Decoding!None
<1>3. Decoding!TypeOK /\ length \in Nat /\ MaxSeeks \in Nat
  BY DecodingNumbers DEF DecodingInv
<1>4. /\ read' \in 0 .. length' /\ next' \in 0 .. read' /\ seeks' \in 0 .. MaxSeeks
      /\ origin' \in 0 .. next' /\ origin' \in Nat /\ returned' \in Nat \cup {-1}
  BY <1>1, <1>2, <1>3 DEF Decoding!TypeOK
<1> QED
  BY <1>1, <1>2, <1>3, <1>4 DEF DecodingInv, Decoding!TypeOK, Decoding!None

\* Every call of the decoder keeps the invariant.
LEMMA DecodingStep == ASSUME DecodingInv, [Decoding!Next]_decodingVars PROVE DecodingInv'
<1>1. CASE UNCHANGED decodingVars
  BY <1>1 DEF decodingVars, DecodingInv, Decoding!TypeOK
<1> QED
  BY <1>1, NextFrameKeeps, DecoderSeekKeeps DEF Decoding!Next

\* The decoder's invariant holds after every sequence of calls: next_frame returned all from
\* the origin of the last seek on, and the end only after the codec was emptied.
THEOREM DecodingAlways ==
  /\ Decoding!Spec => []DecodingInv
  /\ MCSpec => []DecodingInv
<1>1. DecodingInv /\ [Decoding!Next]_Decoding!vars => DecodingInv'
  BY DecodingStep DEF Decoding!vars, decodingVars
<1>2. DecodingInv /\ [MCNext]_mcVars => DecodingInv'
  BY DecodingStep DEF MCNext, mcVars
<1>3. MCInit => DecodingInv
  BY DecodingStarts DEF MCInit
<1> QED
  BY <1>1, <1>2, <1>3, DecodingStarts, PTL DEF MCSpec, Decoding!Spec

\* Ok(None) means the end: every frame from where decoding started to the end of the stream
\* was returned, for every length, codec delay and key frame interval.
THEOREM NoneMeansTheEnd ==
  /\ Decoding!Spec => []Decoding!NoneMeansFinished
  /\ MCSpec => []NoneMeansFinished
<1>1. DecodingInv => Decoding!TypeOK /\ Decoding!NoneMeansFinished
  <2> SUFFICES ASSUME DecodingInv PROVE Decoding!TypeOK /\ Decoding!NoneMeansFinished
    OBVIOUS
  <2>1. Decoding!TypeOK /\ length \in Nat
    BY DecodingNumbers DEF DecodingInv
  <2> QED
    BY <2>1 DEF DecodingInv, Decoding!NoneMeansFinished
<1>2. DecodingInv => NoneMeansFinished
  BY <1>1 DEF NoneMeansFinished
<1> QED
  BY <1>1, <1>2, DecodingAlways, PTL

------------------------------------------------------------------------------
(***************************************************************************)
(* CliPreview: the preview window and its recordings.                      *)
(***************************************************************************)

\* The frame counter stays within one of the pairs the files have.
PreviewCounts ==
    /\ position \in 0 .. TotalPairs + 1
    /\ pendingSeek \in 0 .. TotalPairs \cup {-1}

\* The types of the flags.
PreviewFlags ==
    /\ loop \in {"events", "end", "asleep", "gone"} /\ flow \in {"Wait", "Poll"}
    /\ playing \in BOOLEAN /\ presented \in BOOLEAN /\ needsRedraw \in BOOLEAN
    /\ requested \in BOOLEAN /\ smoothing \in BOOLEAN /\ keyHeld \in BOOLEAN
    /\ ctrlC \in BOOLEAN /\ surfaceFailed \in BOOLEAN

\* The ring holds frames of the recording only.
RingOfRecording ==
    /\ ring \in 0 .. 2 /\ recording \in BOOLEAN /\ readbackFailed \in BOOLEAN
    /\ Preview!RecordingsApart

\* The inductive invariant.
PreviewInv == PreviewCounts /\ PreviewFlags /\ RingOfRecording

\* The preview's counters are numbers within the files' pairs.
LEMMA PreviewNumbers ==
  ASSUME PreviewCounts
  PROVE  /\ Pairs \in Nat /\ TotalPairs \in Nat /\ Pairs <= TotalPairs
         /\ SkipCount \in Nat \ {0} /\ SeekStep \in Nat \ {0}
         /\ position \in Nat /\ position <= TotalPairs + 1
         /\ pendingSeek \in Int /\ pendingSeek >= -1 /\ pendingSeek <= TotalPairs
BY PreviewAssumption DEF PreviewCounts, Preview!CliPreviewAssumption

\* Min of two numbers.
LEMMA PreviewMin ==
  ASSUME NEW a \in Int, NEW b \in Int
  PROVE  Preview!Min({a, b}) = IF a <= b THEN a ELSE b
<1> DEFINE m == IF a <= b THEN a ELSE b
<1>1. m \in {a, b} /\ \A y \in {a, b} : m <= y
  OBVIOUS
<1>2. \A x \in {a, b} : (\A y \in {a, b} : x <= y) => x = m
  OBVIOUS
<1> HIDE DEF m
<1>3. Preview!Min({a, b}) = m
  BY <1>1, <1>2 DEF Preview!Min
<1> QED
  BY <1>3 DEF m

\* Max of two numbers.
LEMMA PreviewMax ==
  ASSUME NEW a \in Int, NEW b \in Int
  PROVE  Preview!Max({a, b}) = IF a <= b THEN b ELSE a
<1> DEFINE m == IF a <= b THEN b ELSE a
<1>1. m \in {a, b} /\ \A y \in {a, b} : m >= y
  OBVIOUS
<1>2. \A x \in {a, b} : (\A y \in {a, b} : x >= y) => x = m
  OBVIOUS
<1> HIDE DEF m
<1>3. Preview!Max({a, b}) = m
  BY <1>1, <1>2 DEF Preview!Max
<1> QED
  BY <1>3 DEF m

\* The window opens in a state of the invariant.
LEMMA PreviewStarts == ASSUME Preview!Init PROVE PreviewInv
<1>1. position = 1 /\ pendingSeek = -1 /\ ring = 0
  BY DEF Preview!Init, Preview!None
<1>2. TotalPairs \in Nat
  BY PreviewAssumption DEF Preview!CliPreviewAssumption
<1>3. PreviewCounts
  BY <1>1, <1>2 DEF PreviewCounts
<1>4. PreviewFlags
  BY DEF PreviewFlags, Preview!Init
<1>5. RingOfRecording
  <2>1. ring \in 0 .. 2
    BY <1>1
  <2>2. recording = FALSE /\ readbackFailed = FALSE
    BY DEF Preview!Init
  <2> QED
    BY <1>1, <2>1, <2>2 DEF RingOfRecording, Preview!RecordingsApart
<1> QED
  BY <1>3, <1>4, <1>5 DEF PreviewInv

\* What an action does to a recording: nothing, a start, a frame or a stop.
LEMMA RecordingActions ==
  ASSUME Preview!Next
  PROVE  \/ ring' = ring /\ recording' = recording /\ readbackFailed' = readbackFailed
         \/ ring' = ring /\ recording' = TRUE /\ readbackFailed' = readbackFailed
         \/ recording /\ Preview!Record
         \/ Preview!StopRecording
<1>1. CASE Preview!User
  BY <1>1 DEF Preview!User, Preview!Adjust, Preview!Drag, Preview!Space, Preview!StepKey,
     Preview!SkipKey, Preview!SeekKey, Preview!RecordKey, Preview!Quit, Preview!Interrupt,
     Preview!Exit, Preview!StopIfRecording, Preview!recordVars
<1>2. CASE Preview!KeyUp
  BY <1>2 DEF Preview!KeyUp, Preview!recordVars
<1>3. CASE Preview!Redraw
  BY <1>3 DEF Preview!Redraw, Preview!recordVars
<1>4. CASE Preview!AboutToWait
  BY <1>4 DEF Preview!AboutToWait, Preview!Exit, Preview!StopIfRecording, Preview!recordVars
<1> QED
  BY <1>1, <1>2, <1>3, <1>4 DEF Preview!Next

\* A recording's frames are read back by it, and a failed readback ends it.
LEMMA RecordingsKeep == ASSUME RingOfRecording, Preview!Next PROVE RingOfRecording'
<1>0. ring \in 0 .. 2 /\ recording \in BOOLEAN /\ readbackFailed \in BOOLEAN
  BY DEF RingOfRecording
<1>1. CASE Preview!StopRecording
  <2>1. /\ recording' = FALSE
        /\ \/ ring' = 0 /\ readbackFailed' = readbackFailed
           \/ ring' \in 1 .. ring /\ readbackFailed' = TRUE
    BY <1>1 DEF Preview!StopRecording
  <2>2. ring' \in 0 .. 2
    BY <1>0, <2>1
  <2> QED
    BY <1>0, <2>1, <2>2 DEF RingOfRecording, Preview!RecordingsApart
<1>2. CASE recording /\ Preview!Record
  <2>1. CASE ring' = Preview!Min({ring + 1, 2}) /\ UNCHANGED <<recording, readbackFailed>>
    <3>1. ring' \in 0 .. 2
      BY <1>0, <2>1, PreviewMin
    <3> QED
      BY <1>0, <1>2, <2>1, <3>1 DEF RingOfRecording, Preview!RecordingsApart
  <2>2. CASE recording' = FALSE /\ readbackFailed' = TRUE /\ ring' \in 0 .. ring
    <3>1. ring' \in 0 .. 2
      BY <1>0, <2>2
    <3> QED
      BY <2>2, <3>1 DEF RingOfRecording, Preview!RecordingsApart
  <2> QED
    BY <1>1, <1>2, <2>1, <2>2 DEF Preview!Record
<1>3. CASE /\ ring' = ring /\ readbackFailed' = readbackFailed
           /\ recording' = recording \/ recording' = TRUE
  BY <1>0, <1>3 DEF RingOfRecording, Preview!RecordingsApart
<1> QED
  BY <1>1, <1>2, <1>3, RecordingActions

\* Events, timers and redraws keep the flags' types.
LEMMA FlagsKeep == ASSUME PreviewFlags, Preview!Next PROVE PreviewFlags'
<1> USE DEF PreviewFlags, Preview!pictureVars, Preview!drawVars
<1>1. CASE Preview!Adjust
  BY <1>1 DEF Preview!Adjust, Preview!Press, Preview!Handled
<1>2. CASE Preview!Drag
  BY <1>2 DEF Preview!Drag, Preview!Handled
<1>3. CASE Preview!Space
  BY <1>3 DEF Preview!Space, Preview!Press, Preview!Handled
<1>4. CASE Preview!StepKey
  BY <1>4 DEF Preview!StepKey, Preview!Press, Preview!Handled, Preview!Steps
<1>5. CASE Preview!SkipKey
  BY <1>5 DEF Preview!SkipKey, Preview!Press, Preview!Handled, Preview!Steps
<1>6. CASE Preview!SeekKey
  BY <1>6 DEF Preview!SeekKey, Preview!Press, Preview!Handled
<1>7. CASE Preview!RecordKey
  BY <1>7 DEF Preview!RecordKey, Preview!Press, Preview!Handled
<1>8. CASE Preview!Exit
  BY <1>8 DEF Preview!Exit
<1>9. CASE Preview!Interrupt
  BY <1>9 DEF Preview!Interrupt
<1>10. CASE Preview!KeyUp
  BY <1>10 DEF Preview!KeyUp, Preview!Handled
<1>11. CASE Preview!Redraw
  BY <1>11 DEF Preview!Redraw
<1>12. CASE Preview!AboutToWait /\ ~Preview!Exit
  BY <1>12 DEF Preview!AboutToWait, Preview!Advance
<1> QED
  BY <1>1, <1>2, <1>3, <1>4, <1>5, <1>6, <1>7, <1>8, <1>9, <1>10, <1>11, <1>12
  DEF Preview!Next, Preview!User, Preview!Quit

\* Steps, skips and seeks keep the position within the files.
LEMMA CountsKeep == ASSUME PreviewCounts, PreviewFlags, Preview!Next PROVE PreviewCounts'
<1>0. /\ Pairs \in Nat /\ TotalPairs \in Nat /\ Pairs <= TotalPairs
      /\ SkipCount \in Nat \ {0} /\ SeekStep \in Nat \ {0}
      /\ position \in Nat /\ position <= TotalPairs + 1
      /\ pendingSeek \in Int /\ pendingSeek >= -1 /\ pendingSeek <= TotalPairs
  BY PreviewNumbers
<1>1. CASE position' = position /\ pendingSeek' = pendingSeek
  BY <1>1 DEF PreviewCounts
<1>2. CASE pendingSeek' = pendingSeek /\ (Preview!Steps(1) \/ Preview!Steps(SkipCount))
  <2>1. PICK n \in Nat : Preview!Steps(n)
    BY <1>0, <1>2
  <2>2. position' = position \/ position' = Preview!Min({position + n, Pairs})
    BY <2>1 DEF Preview!Steps
  <2>3. position + n \in Int
    BY <1>0
  <2>4. position' \in 0 .. TotalPairs + 1
    BY <1>0, <2>2, <2>3, PreviewMin
  <2> QED
    BY <1>2, <2>4 DEF PreviewCounts
<1>3. CASE Preview!SeekKey
  <2> DEFINE base == IF pendingSeek = -1 THEN position ELSE pendingSeek
  <2>1. /\ position' = position
        /\ pendingSeek' \in {0, Preview!Max({0, base - SeekStep}),
                             Preview!Min({base + SeekStep, TotalPairs})}
    BY <1>3 DEF Preview!SeekKey, Preview!SeekBase, Preview!None, Preview!pictureVars
  <2>2. base \in Nat /\ base <= TotalPairs + 1
    BY <1>0
  <2> HIDE DEF base
  <2>3. /\ base - SeekStep \in Int /\ base + SeekStep \in Int
        /\ base - SeekStep <= TotalPairs /\ base + SeekStep >= 0
    BY <1>0, <2>2
  <2>4. /\ Preview!Max({0, base - SeekStep}) \in 0 .. TotalPairs
        /\ Preview!Min({base + SeekStep, TotalPairs}) \in 0 .. TotalPairs
    BY <1>0, <2>3, PreviewMin, PreviewMax
  <2>5. pendingSeek' \in 0 .. TotalPairs
    BY <1>0, <2>1, <2>4
  <2> QED
    BY <2>1, <2>5 DEF PreviewCounts
<1>4. CASE Preview!Advance
  <2>1. pendingSeek' = -1 /\ position' \in {Preview!Position, Preview!Position + 1}
        /\ (position' = Preview!Position + 1 => position' <= Pairs \/ position' = Preview!Position)
    <3>1. Preview!Position \in Int
      BY <1>0 DEF Preview!Position, Preview!Found, Preview!Seeking, Preview!None
    <3> QED
      BY <1>0, <1>4, <3>1 DEF Preview!Advance, Preview!None
  <2>2. Preview!Position \in 0 .. TotalPairs + 1
    BY <1>0 DEF Preview!Position, Preview!Found, Preview!Seeking, Preview!None
  <2>3. position' \in 0 .. TotalPairs + 1
    BY <1>0, <2>1, <2>2
  <2> QED
    BY <2>1, <2>3 DEF PreviewCounts
<1> QED
  BY <1>1, <1>2, <1>3, <1>4 DEF Preview!Next, Preview!User, Preview!Adjust, Preview!Drag,
     Preview!Space, Preview!StepKey, Preview!SkipKey, Preview!RecordKey, Preview!Quit,
     Preview!Interrupt, Preview!Exit, Preview!KeyUp, Preview!Redraw, Preview!AboutToWait,
     Preview!pictureVars

\* Every event of the window keeps the invariant.
LEMMA PreviewStep == ASSUME PreviewInv, [Preview!Next]_previewVars PROVE PreviewInv'
<1>1. CASE UNCHANGED previewVars
  BY <1>1 DEF previewVars, PreviewInv, PreviewCounts, PreviewFlags, RingOfRecording,
     Preview!RecordingsApart
<1> QED
  BY <1>1, RecordingsKeep, FlagsKeep, CountsKeep DEF PreviewInv

\* The preview's invariant holds after every sequence of events: the frames in the readback
\* ring are those of the recording under way.
THEOREM PreviewAlways ==
  /\ Preview!Spec => []PreviewInv
  /\ MCSpec => []PreviewInv
<1>1. PreviewInv /\ [Preview!Next]_Preview!previewVars => PreviewInv'
  BY PreviewStep DEF Preview!previewVars, previewVars, Preview!pictureVars, Preview!drawVars,
     Preview!recordVars
<1>2. PreviewInv /\ [MCNext]_mcVars => PreviewInv'
  BY PreviewStep DEF MCNext, mcVars
<1>3. MCInit => PreviewInv
  BY PreviewStarts DEF MCInit
<1> QED
  BY <1>1, <1>2, <1>3, PreviewStarts, PTL DEF MCSpec, Preview!Spec

\* Recordings do not mix, whichever way one stops: the readback ring is empty between them,
\* but after a failed readback, for every number of pairs and events in any order.
THEOREM RecordingsStayApart ==
  /\ Preview!Spec => []Preview!RecordingsApart
  /\ MCSpec => []RecordingsApart
<1>1. PreviewInv => Preview!RecordingsApart /\ RecordingsApart
  <2> SUFFICES ASSUME PreviewInv PROVE Preview!TypeOK /\ Preview!RecordingsApart
    BY DEF RecordingsApart
  <2>1. position \in Nat
    BY PreviewNumbers DEF PreviewInv
  <2> QED
    BY <2>1 DEF PreviewInv, PreviewCounts, PreviewFlags, RingOfRecording, Preview!TypeOK,
       Preview!None
<1> QED
  BY <1>1, PreviewAlways, PTL

------------------------------------------------------------------------------
(***************************************************************************)
(* FilePlayback: the desktop player on its decode threads.                 *)
(***************************************************************************)

\* A non-empty set of numbers has a least one: this is how the proofs below do
\* induction, on the least counterexample.
LEMMA LeastOf ==
  ASSUME NEW I \in SUBSET Nat, I # {}
  PROVE  \E m \in I : \A k \in I : m <= k
<1> DEFINE Less == OpToRel(<, Nat)
<1>1. \E x \in I : \A y \in I : ~ (<<y, x>> \in Less)
  <2>1. IsWellFoundedOn(Less, Nat)
    BY NatLessThanWellFounded
  <2> HIDE DEF Less
  <2> QED
    BY <2>1, WFMin
<1>2. ASSUME NEW x \in I, NEW y \in I, y < x PROVE <<y, x>> \in Less
  <2>1. x \in Nat /\ y \in Nat
    OBVIOUS
  <2>2. Less = {ss \in Nat \X Nat : ss[1] < ss[2]}
    BY DEF OpToRel
  <2> HIDE DEF Less
  <2> QED
    BY <1>2, <2>1, <2>2
<1> HIDE DEF Less
<1>3. PICK x \in I : \A y \in I : ~ (<<y, x>> \in Less)
  BY <1>1
<1>4. ASSUME NEW y \in I PROVE x <= y
  <2>1. x \in Nat /\ y \in Nat /\ ~(y < x)
    BY <1>2, <1>3
  <2> QED
    BY <2>1
<1> QED
  BY <1>3, <1>4

\* Min of numbers is the least of them.
LEMMA MinIsLeast ==
  ASSUME NEW I \in SUBSET Nat, I # {}
  PROVE  Playback!Min(I) \in I /\ \A k \in I : Playback!Min(I) <= k
<1>1. \E m \in I : \A k \in I : m <= k
  BY LeastOf
<1> QED
  BY <1>1 DEF Playback!Min

\* Min of two numbers.
LEMMA PlaybackMin ==
  ASSUME NEW a \in Int, NEW b \in Int
  PROVE  Playback!Min({a, b}) = IF a <= b THEN a ELSE b
<1> DEFINE m == IF a <= b THEN a ELSE b
<1>1. m \in {a, b} /\ \A y \in {a, b} : m <= y
  OBVIOUS
<1>2. \A x \in {a, b} : (\A y \in {a, b} : x <= y) => x = m
  OBVIOUS
<1> HIDE DEF m
<1>3. Playback!Min({a, b}) = m
  BY <1>1, <1>2 DEF Playback!Min
<1> QED
  BY <1>3 DEF m

\* Max of two numbers.
LEMMA PlaybackMax ==
  ASSUME NEW a \in Int, NEW b \in Int
  PROVE  Playback!Max({a, b}) = IF a <= b THEN b ELSE a
<1> DEFINE m == IF a <= b THEN b ELSE a
<1>1. m \in {a, b} /\ \A y \in {a, b} : m >= y
  OBVIOUS
<1>2. \A x \in {a, b} : (\A y \in {a, b} : x >= y) => x = m
  OBVIOUS
<1> HIDE DEF m
<1>3. Playback!Max({a, b}) = m
  BY <1>1, <1>2 DEF Playback!Max
<1> QED
  BY <1>3 DEF m

\* The sync offset holds back one camera.
LEMMA SkipNumbers ==
  ASSUME NEW o \in Int
  PROVE  /\ Playback!SkipOf("left", o) = IF o < 0 THEN -o ELSE 0
         /\ Playback!SkipOf("right", o) = IF o > 0 THEN o ELSE 0
<1>1. /\ Playback!SkipOf("left", o) = Playback!Max({0, -o})
      /\ Playback!SkipOf("right", o) = Playback!Max({0, o})
  BY DEF Playback!SkipOf
<1> QED
  BY <1>1, PlaybackMax

------------------------------------------------------------------------------
\* Powers can be built up to any exponent, and so for all of them.
LEMMA PowersExist ==
  \E f : f = [e \in Nat |-> IF e = 0 THEN 1 ELSE 2 * f[e - 1]]
<1> DEFINE Powers(f, m) == f = [e \in 0 .. m |-> IF e = 0 THEN 1 ELSE 2 * f[e - 1]]
           Bad == {m \in Nat : ~ \E f : Powers(f, m)}
<1>1. ASSUME Bad # {} PROVE FALSE
  <2>1. Bad \in SUBSET Nat
    OBVIOUS
  <2>2. PICK m \in Bad : \A k \in Bad : m <= k
    <3> HIDE DEF Bad
    <3> QED
      BY <1>1, <2>1, LeastOf
  <2>3. m \in Nat /\ ~ \E f : Powers(f, m)
    BY <2>2
  <2>4. CASE m = 0
    <3> DEFINE g == [e \in 0 .. 0 |-> 1]
    <3>1. g = [e \in 0 .. m |-> IF e = 0 THEN 1 ELSE 2 * g[e - 1]]
      BY <2>4
    <3> QED
      BY <2>3, <3>1
  <2>5. CASE m # 0
    <3>1. m - 1 \in Nat /\ ~(m <= m - 1)
      BY <2>3, <2>5
    <3>2. m - 1 \notin Bad
      <4> HIDE DEF Bad
      <4> QED
        BY <2>2, <3>1
    <3>3. PICK f : Powers(f, m - 1)
      BY <3>1, <3>2
    <3> DEFINE g == [e \in 0 .. m |-> IF e = m THEN 2 * f[m - 1] ELSE f[e]]
    <3>4. ASSUME NEW e \in 0 .. m
          PROVE  g[e] = IF e = 0 THEN 1 ELSE 2 * g[e - 1]
      <4>1. CASE e = m
        BY <2>3, <2>5, <4>1
      <4>2. CASE e # m
        BY <2>3, <2>5, <3>3, <4>2
      <4> QED
        BY <4>1, <4>2
    <3>5. Powers(g, m)
      BY <3>4
    <3> QED
      BY <2>3, <3>5
  <2> QED
    BY <2>4, <2>5
<1>2. \A m \in Nat : \E f : Powers(f, m)
  BY <1>1
<1> DEFINE up(m) == CHOOSE f : Powers(f, m)
<1>3. \A m \in Nat : Powers(up(m), m)
  BY <1>2
<1> HIDE DEF up
<1>4. ASSUME NEW m \in Nat, m # 0 PROVE up(m)[m - 1] = up(m - 1)[m - 1]
  <2> DEFINE Differ == {e \in Nat : e <= m - 1 /\ up(m)[e] # up(m - 1)[e]}
  <2>1. m - 1 \in Nat
    BY <1>4
  <2>2. ASSUME Differ # {} PROVE FALSE
    <3>1. Differ \in SUBSET Nat
      OBVIOUS
    <3>2. PICK d \in Differ : \A k \in Differ : d <= k
      <4> HIDE DEF Differ
      <4> QED
        BY <2>2, <3>1, LeastOf
    <3>3. d \in Nat /\ d <= m - 1 /\ up(m)[d] # up(m - 1)[d]
      BY <3>2
    <3>4. d \in 0 .. m /\ d \in 0 .. m - 1
      BY <2>1, <3>3
    <3>5. /\ up(m)[d] = IF d = 0 THEN 1 ELSE 2 * up(m)[d - 1]
          /\ up(m - 1)[d] = IF d = 0 THEN 1 ELSE 2 * up(m - 1)[d - 1]
      BY <1>3, <2>1, <3>4
    <3>6. d # 0
      BY <3>3, <3>5
    <3>7. d - 1 \in Nat /\ d - 1 <= m - 1 /\ ~(d <= d - 1)
      BY <2>1, <3>3, <3>6
    <3>8. d - 1 \notin Differ
      <4> HIDE DEF Differ
      <4> QED
        BY <3>2, <3>7
    <3>9. up(m)[d - 1] = up(m - 1)[d - 1]
      BY <3>7, <3>8
    <3> QED
      BY <3>3, <3>5, <3>6, <3>9
  <2>3. m - 1 <= m - 1
    BY <2>1
  <2> QED
    BY <2>1, <2>2, <2>3
<1> DEFINE g == [e \in Nat |-> up(e)[e]]
<1>5. ASSUME NEW e \in Nat PROVE g[e] = IF e = 0 THEN 1 ELSE 2 * g[e - 1]
  <2>1. up(e)[e] = IF e = 0 THEN 1 ELSE 2 * up(e)[e - 1]
    <3>1. e \in 0 .. e
      OBVIOUS
    <3> QED
      BY <1>3, <3>1
  <2>2. CASE e # 0
    <3>1. e - 1 \in Nat
      BY <2>2
    <3> QED
      BY <1>4, <2>1, <2>2, <3>1
  <2> QED
    BY <2>1, <2>2
<1>6. g = [e \in Nat |-> IF e = 0 THEN 1 ELSE 2 * g[e - 1]]
  BY <1>5
<1> QED
  BY <1>6

\* They are more than their exponent.
LEMMA PowersGrow ==
  \A e \in Nat : Playback!TwoTo[e] \in Nat \ {0} /\ Playback!TwoTo[e] > e
<1> DEFINE two == Playback!TwoTo
           Good(f) == f = [e \in Nat |-> IF e = 0 THEN 1 ELSE 2 * f[e - 1]]
           Bad == {e \in Nat : ~(two[e] \in Nat \ {0} /\ two[e] > e)}
<1>1. two = CHOOSE f : Good(f)
  BY DEF Playback!TwoTo
<1>2. \E f : Good(f)
  BY PowersExist
<1> HIDE DEF two
<1>3. Good(two)
  BY <1>1, <1>2
<1>4. ASSUME Bad # {} PROVE FALSE
  <2>1. Bad \in SUBSET Nat
    OBVIOUS
  <2>2. PICK m \in Bad : \A k \in Bad : m <= k
    <3> HIDE DEF Bad
    <3> QED
      BY <1>4, <2>1, LeastOf
  <2>3. m \in Nat /\ two[m] = IF m = 0 THEN 1 ELSE 2 * two[m - 1]
    BY <1>3, <2>2
  <2>4. m # 0
    BY <2>2, <2>3
  <2>5. m - 1 \in Nat /\ ~(m <= m - 1)
    BY <2>3, <2>4
  <2>6. m - 1 \notin Bad
    <3> HIDE DEF Bad
    <3> QED
      BY <2>2, <2>5
  <2>7. two[m - 1] \in Nat \ {0} /\ two[m - 1] > m - 1
    BY <2>5, <2>6
  <2>8. 2 * two[m - 1] \in Nat \ {0} /\ 2 * two[m - 1] > m
    BY <2>3, <2>7
  <2> QED
    BY <2>2, <2>3, <2>4, <2>8
<1> QED
  BY <1>4 DEF two

\* What the key's fraction comes to is the number of a frame.
LEMMA ThroughTyped ==
  ASSUME NEW f \in Nat, NEW t \in Nat \ {0}
  PROVE  Playback!ThroughF32(f, t) \in Nat
<1> DEFINE I == {e \in 0 .. t : f * Playback!TwoTo[e] >= t}
           s == 23 + Playback!Min(I)
           m == (f * Playback!TwoTo[s + 1] + t) \div (2 * t)
<1>1. CASE f = 0
  BY <1>1 DEF Playback!ThroughF32
<1>2. CASE f # 0
  <2>1. t \in I
    <3>1. t \in 0 .. t /\ Playback!TwoTo[t] \in Nat /\ Playback!TwoTo[t] > t
      BY PowersGrow
    <3>2. \A p \in Nat : p > t => f * p >= t
      BY <1>2
    <3> QED
      BY <3>1, <3>2
  <2>2. I \in SUBSET Nat
    OBVIOUS
  <2>3. Playback!Min(I) \in Nat
    <3> HIDE DEF I
    <3> QED
      BY <2>1, <2>2, MinIsLeast
  <2> HIDE DEF I
  <2>4. s \in Nat /\ s + 1 \in Nat
    BY <2>3
  <2> HIDE DEF s
  <2>5. Playback!TwoTo[s] \in Nat \ {0} /\ Playback!TwoTo[s + 1] \in Nat
    BY <2>4, PowersGrow
  <2>6. f * Playback!TwoTo[s + 1] \in Nat
    BY <2>5
  <2>7. (f * Playback!TwoTo[s + 1] + t) \in Nat /\ 2 * t \in Nat \ {0}
    BY <2>6
  <2>8. \A n \in Nat, d \in Nat \ {0} : n \div d \in Nat
    OBVIOUS
  <2>9. m \in Nat
    BY <2>7, <2>8
  <2> HIDE DEF m
  <2>10. m * t \in Nat
    BY <2>9
  <2>11. (m * t) \div Playback!TwoTo[s] \in Nat
    BY <2>5, <2>8, <2>10
  <2> QED
    BY <1>2, <2>11 DEF Playback!ThroughF32, m, s, I
<1> QED
  BY <1>1, <1>2

------------------------------------------------------------------------------
(* Where a decode thread starts *)

\* The parameters' types.
LEMMA PlaybackNumbers ==
  /\ FileLengths \subseteq Nat /\ Offsets \subseteq Int /\ TimeBases \subseteq Nat \ {0}
  /\ Fps \in Nat \ {0} /\ MaxForward \in Nat /\ ChannelCap \in Nat \ {0}
  /\ MaxSeeks \in Nat
BY PlaybackAssumption DEF Playback!FilePlaybackAssumption

\* A file's time base, by itself.
LEMMA BaseNumbers ==
  ASSUME NEW t \in TimeBases
  PROVE  t \in Nat \ {0} /\ t >= Fps /\ Fps \in Nat \ {0} /\ 2 * Fps <= 1000000
BY PlaybackAssumption DEF Playback!FilePlaybackAssumption

\* A division is settled by the multiple it lies at.
LEMMA Quotient ==
  \A d \in Nat \ {0}, n \in Nat, x \in Nat :
      n >= d * x /\ n < d * x + d => n \div d = x
OBVIOUS

\* A dividend larger by the divisor has a larger quotient.
LEMMA QuotientGrows ==
  \A d \in Nat \ {0}, n \in Nat, m \in Nat : m >= n + d => m \div d > n \div d
OBVIOUS

\* A common factor of dividend and divisor cancels.
LEMMA QuotientCancels ==
  ASSUME NEW n \in Nat, NEW d \in Nat \ {0}, NEW q \in Nat \ {0}
  PROVE  (n * q) \div (d * q) = n \div d
<1> DEFINE x == n \div d
<1>1. x \in Nat /\ n >= d * x /\ n < d * x + d
  OBVIOUS
<1> HIDE DEF x
<1>2. \A a, b \in Nat : a >= b => a * q >= b * q
  OBVIOUS
<1>3. \A a, b \in Nat : a < b => a * q < b * q
  OBVIOUS
<1>4. d * x \in Nat /\ d * x + d \in Nat
  BY <1>1
<1>5. n * q >= (d * x) * q /\ n * q < (d * x + d) * q
  BY <1>1, <1>2, <1>3, <1>4
<1>6. (d * x) * q = (d * q) * x /\ (d * x + d) * q = (d * q) * x + d * q
  BY <1>1
<1>7. n * q \in Nat /\ d * q \in Nat \ {0}
  OBVIOUS
<1>8. (n * q) \div (d * q) = x
  BY <1>1, <1>5, <1>6, <1>7, Quotient
<1> QED
  BY <1>8 DEF x

\* A frame's timestamp, rounded to the time base and cut to microseconds, is the
\* microsecond the seek computes for it.
LEMMA ExactTimes ==
  ASSUME NEW c \in Playback!Eyes, timeBase[c] \in TimeBases, Playback!Exact(c), NEW k \in Nat
  PROVE  Playback!FrameTime(c, k) = Playback!TargetTime(k)
<1> DEFINE t == timeBase[c]
<1>0. Fps \in Nat \ {0} /\ t \in Nat \ {0} /\ t % Fps = 0
  <2>1. t % Fps = 0
    BY DEF Playback!Exact
  <2>2. Fps \in Nat \ {0} /\ t \in Nat \ {0}
    BY BaseNumbers
  <2> QED
    BY <2>1, <2>2
<1> HIDE DEF t
<1>1. PICK q \in Nat : t = q * Fps
  <2> DEFINE r == t \div Fps
  <2>1. r \in Nat /\ t = r * Fps
    BY <1>0
  <2> QED
    BY <2>1
<1>2. q \in Nat \ {0}
  BY <1>0, <1>1
<1>3. (2 * k * t + Fps) \div (2 * Fps) = k * q
  <2> DEFINE n == 2 * k * t + Fps
             y == k * q
  <2>0. y \in Nat
    BY <1>2
  <2>1. 2 * k * t = (2 * Fps) * y
    BY <1>0, <1>1, <1>2
  <2>2. n = (2 * Fps) * y + Fps /\ n \in Nat /\ (2 * Fps) * y \in Nat
    BY <1>0, <2>0, <2>1
  <2>3. 2 * Fps \in Nat \ {0} /\ Fps < 2 * Fps
    BY <1>0
  <2> HIDE DEF n, y
  <2>4. n >= (2 * Fps) * y /\ n < (2 * Fps) * y + 2 * Fps
    BY <1>0, <2>2, <2>3
  <2>5. n \div (2 * Fps) = y
    BY <2>0, <2>2, <2>3, <2>4, Quotient
  <2> QED
    BY <2>5 DEF n, y
<1>4. Playback!FrameTime(c, k) = ((k * q) * 1000000) \div t
  BY <1>3 DEF Playback!FrameTime, t
<1>5. (k * q) * 1000000 = (k * 1000000) * q /\ t = Fps * q
  BY <1>0, <1>1, <1>2
<1>6. k * 1000000 \in Nat
  OBVIOUS
<1>7. ((k * 1000000) * q) \div (Fps * q) = (k * 1000000) \div Fps
  BY <1>0, <1>2, <1>6, QuotientCancels
<1> QED
  BY <1>4, <1>5, <1>7 DEF Playback!TargetTime

\* A later frame has a later target time.
LEMMA TargetsGrow ==
  ASSUME NEW k \in Nat, NEW f \in Nat, k < f
  PROVE  Playback!TargetTime(k) < Playback!TargetTime(f)
<1>0. Fps \in Nat \ {0} /\ Fps <= 1000000
  BY PlaybackAssumption DEF Playback!FilePlaybackAssumption
<1> DEFINE n == k * 1000000
           m == f * 1000000
<1>1. n \in Nat /\ m \in Nat /\ m >= n + 1000000
  OBVIOUS
<1> HIDE DEF n, m
<1>2. m >= n + Fps
  BY <1>0, <1>1
<1>3. m \div Fps > n \div Fps
  BY <1>0, <1>1, <1>2, QuotientGrows
<1>4. m \div Fps \in Int /\ n \div Fps \in Int
  BY <1>0, <1>1
<1> QED
  BY <1>3, <1>4 DEF Playback!TargetTime, n, m

\* A decode thread starts at a frame of its file, or at the end.
LEMMA StartTyped ==
  ASSUME NEW c \in Playback!Eyes, fileLength[c] \in Nat, NEW f \in Nat
  PROVE  Playback!StartFrame(c, f) \in 0 .. fileLength[c]
<1> DEFINE I == {k \in 0 .. fileLength[c] : k = fileLength[c]
                    \/ Playback!FrameTime(c, k) >= Playback!TargetTime(f)}
<1>1. I \in SUBSET Nat /\ fileLength[c] \in I /\ I \subseteq 0 .. fileLength[c]
  OBVIOUS
<1> HIDE DEF I
<1>2. Playback!Min(I) \in I
  BY <1>1, MinIsLeast
<1> QED
  BY <1>1, <1>2 DEF Playback!StartFrame, I

\* What a division leaves is less than the divisor.
LEMMA QuotientBounds ==
  \A d \in Nat \ {0}, n \in Nat :
      n \div d \in Nat /\ d * (n \div d) <= n /\ n < d * (n \div d) + d
OBVIOUS

\* Products grow with their factors.
LEMMA ProductGrows ==
  \A x \in Nat, y \in Nat, z \in Nat : x <= y => x * z <= y * z
OBVIOUS

\* A frame before the target has a timestamp before the target's, however it is rounded.
LEMMA EarlyFrames ==
  ASSUME NEW c \in Playback!Eyes, timeBase[c] \in TimeBases,
         NEW k \in Nat, NEW f \in Nat, k < f
  PROVE  Playback!FrameTime(c, k) < Playback!TargetTime(f)
<1> DEFINE t == timeBase[c]
           M == 1000000
           T == (2 * k * t + Fps) \div (2 * Fps)
           A == (T * M) \div t
           B == (f * M) \div Fps
<1>1. Fps \in Nat \ {0} /\ t \in Nat \ {0} /\ t >= Fps /\ 2 * Fps <= M /\ M \in Nat
  BY BaseNumbers
<1>2. Playback!FrameTime(c, k) = A /\ Playback!TargetTime(f) = B
  BY DEF Playback!FrameTime, Playback!TargetTime
<1> HIDE DEF t, M
<1>3. T \in Nat /\ (2 * Fps) * T <= 2 * k * t + Fps
  <2>1. 2 * k * t + Fps \in Nat /\ 2 * Fps \in Nat \ {0}
    BY <1>1
  <2> QED
    BY <2>1, QuotientBounds
<1> HIDE DEF T
<1>4. A \in Nat /\ t * A <= T * M
  <2>1. T * M \in Nat
    BY <1>1, <1>3
  <2> QED
    BY <1>1, <2>1, QuotientBounds
<1>5. B \in Nat /\ f * M < Fps * B + Fps
  <2>1. f * M \in Nat
    BY <1>1
  <2> QED
    BY <1>1, <2>1, QuotientBounds
<1> HIDE DEF A, B
<1>6. ASSUME A >= B PROVE FALSE
  <2> DEFINE BtF == B * t * Fps
             ktM == k * t * M
             tM == t * M
             FM == Fps * M
             tF == t * Fps
  <2>1. BtF \in Nat /\ ktM \in Nat /\ tM \in Nat /\ FM \in Nat /\ tF \in Nat
    BY <1>1, <1>5
  <2>2. 2 * BtF <= 2 * ktM + FM
    <3>1. B * t <= T * M
      <4>1. B * t <= A * t
        BY <1>1, <1>4, <1>5, <1>6, ProductGrows
      <4>2. A * t = t * A /\ B * t \in Nat /\ A * t \in Nat /\ T * M \in Nat
        BY <1>1, <1>3, <1>4, <1>5
      <4> QED
        BY <1>4, <4>1, <4>2
    <3>2. (B * t) * (2 * Fps) <= (T * M) * (2 * Fps)
      <4>1. B * t \in Nat /\ T * M \in Nat /\ 2 * Fps \in Nat
        BY <1>1, <1>3, <1>5
      <4> QED
        BY <3>1, <4>1, ProductGrows
    <3>3. ((2 * Fps) * T) * M <= (2 * k * t + Fps) * M
      <4>1. (2 * Fps) * T \in Nat /\ 2 * k * t + Fps \in Nat
        BY <1>1, <1>3
      <4> QED
        BY <1>1, <1>3, <4>1, ProductGrows
    <3>4. (B * t) * (2 * Fps) = 2 * BtF
      BY <1>1, <1>5
    <3>5. (T * M) * (2 * Fps) = ((2 * Fps) * T) * M
      BY <1>1, <1>3
    <3>6. (2 * k * t + Fps) * M = 2 * ktM + FM
      BY <1>1
    <3> DEFINE x == (B * t) * (2 * Fps)
               y == (T * M) * (2 * Fps)
               z == (2 * k * t + Fps) * M
    <3>7. x \in Nat /\ y \in Nat /\ z \in Nat /\ x <= y /\ y <= z
      <4>1. x \in Nat /\ y \in Nat /\ z \in Nat
        BY <1>1, <1>3, <1>5
      <4>2. x <= y
        BY <3>2
      <4>3. y <= z
        BY <3>3, <3>5
      <4> QED
        BY <4>1, <4>2, <4>3
    <3>8. x = 2 * BtF /\ z = 2 * ktM + FM
      BY <3>4, <3>6
    <3> HIDE DEF x, y, z, BtF, ktM, FM
    <3> QED
      BY <2>1, <3>7, <3>8
  <2>3. ktM + tM + t <= BtF + tF
    <3>1. ((k + 1) * M) * t <= (f * M) * t
      <4>1. k + 1 \in Nat /\ k + 1 <= f
        OBVIOUS
      <4>2. (k + 1) * M <= f * M
        BY <1>1, <4>1, ProductGrows
      <4>3. (k + 1) * M \in Nat /\ f * M \in Nat
        BY <1>1
      <4> QED
        BY <1>1, <4>2, <4>3, ProductGrows
    <3>2. (f * M + 1) * t <= (Fps * B + Fps) * t
      <4>1. f * M \in Nat /\ Fps * B \in Nat
        BY <1>1, <1>5
      <4>2. f * M + 1 \in Nat /\ Fps * B + Fps \in Nat /\ f * M + 1 <= Fps * B + Fps
        BY <1>1, <1>5, <4>1
      <4> QED
        BY <1>1, <4>2, ProductGrows
    <3>3. ((k + 1) * M) * t = ktM + tM
      BY <1>1
    <3>4. (f * M + 1) * t = (f * M) * t + t
      BY <1>1
    <3>5. (Fps * B + Fps) * t = BtF + tF
      BY <1>1, <1>5
    <3> DEFINE x == (f * M) * t
    <3>6. x \in Nat
      BY <1>1
    <3>7. ktM + tM <= x /\ x + t <= BtF + tF
      BY <3>1, <3>2, <3>3, <3>4, <3>5
    <3> HIDE DEF x, BtF, ktM, tM, tF
    <3> QED
      BY <1>1, <2>1, <3>6, <3>7
  <2>4. FM <= tM
    BY <1>1, ProductGrows
  <2>5. 2 * tF <= tM
    <3>1. (2 * Fps) * t <= M * t
      <4>1. 2 * Fps \in Nat
        BY <1>1
      <4> QED
        BY <1>1, <4>1, ProductGrows
    <3>2. (2 * Fps) * t = 2 * tF /\ M * t = tM
      BY <1>1
    <3> QED
      BY <3>1, <3>2
  <2> HIDE DEF BtF, ktM, tM, FM, tF
  <2> QED
    BY <1>1, <2>1, <2>2, <2>3, <2>4, <2>5
<1> QED
  BY <1>2, <1>4, <1>5, <1>6

\* The frame after the target has a timestamp that is not before the target's.
LEMMA NextReaches ==
  ASSUME NEW c \in Playback!Eyes, timeBase[c] \in TimeBases, NEW f \in Nat
  PROVE  Playback!FrameTime(c, f + 1) >= Playback!TargetTime(f)
<1> DEFINE t == timeBase[c]
           M == 1000000
           T == (2 * (f + 1) * t + Fps) \div (2 * Fps)
           A == (T * M) \div t
           B == (f * M) \div Fps
<1>1. Fps \in Nat \ {0} /\ t \in Nat \ {0} /\ t >= Fps /\ M \in Nat
  BY BaseNumbers
<1>2. Playback!FrameTime(c, f + 1) = A /\ Playback!TargetTime(f) = B
  BY DEF Playback!FrameTime, Playback!TargetTime
<1> HIDE DEF t, M
<1>3. T \in Nat /\ 2 * (f + 1) * t + Fps < (2 * Fps) * T + 2 * Fps
  <2>1. 2 * (f + 1) * t + Fps \in Nat /\ 2 * Fps \in Nat \ {0}
    BY <1>1
  <2> QED
    BY <2>1, QuotientBounds
<1> HIDE DEF T
<1>4. A \in Nat /\ T * M < t * A + t
  <2>1. T * M \in Nat
    BY <1>1, <1>3
  <2> QED
    BY <1>1, <2>1, QuotientBounds
<1>5. B \in Nat /\ Fps * B <= f * M
  <2>1. f * M \in Nat
    BY <1>1
  <2> QED
    BY <1>1, <2>1, QuotientBounds
<1> HIDE DEF A, B
<1>6. f * t <= Fps * T
  <2> DEFINE ft == f * t
             FT == Fps * T
  <2>1. ft \in Nat /\ FT \in Nat
    BY <1>1, <1>3
  <2>2. 2 * (f + 1) * t = 2 * ft + 2 * t /\ (2 * Fps) * T = 2 * FT
    BY <1>1, <1>3
  <2> HIDE DEF ft, FT
  <2>3. ft <= FT
    BY <1>1, <1>3, <2>1, <2>2
  <2> QED
    BY <2>3 DEF ft, FT
<1>7. ASSUME A < B PROVE FALSE
  <2>1. T * M < B * t
    <3>1. A + 1 \in Nat /\ A + 1 <= B
      BY <1>4, <1>5, <1>7
    <3>2. (A + 1) * t <= B * t
      BY <1>1, <1>5, <3>1, ProductGrows
    <3>3. (A + 1) * t = t * A + t
      BY <1>1, <1>4
    <3>4. T * M \in Nat /\ B * t \in Nat /\ t * A + t \in Nat
      BY <1>1, <1>3, <1>4, <1>5
    <3> QED
      BY <1>4, <3>2, <3>3, <3>4
  <2>2. (T * M + 1) * Fps <= (B * t) * Fps
    <3>1. T * M + 1 \in Nat /\ B * t \in Nat /\ T * M + 1 <= B * t
      <4>1. T * M \in Nat /\ B * t \in Nat
        BY <1>1, <1>3, <1>5
      <4> QED
        BY <2>1, <4>1
    <3> QED
      BY <1>1, <3>1, ProductGrows
  <2>3. (Fps * B) * t <= (f * M) * t
    <3>1. Fps * B \in Nat /\ f * M \in Nat
      BY <1>1, <1>5
    <3> QED
      BY <1>1, <1>5, <3>1, ProductGrows
  <2>4. (f * t) * M <= (Fps * T) * M
    <3>1. f * t \in Nat /\ Fps * T \in Nat
      BY <1>1, <1>3
    <3> QED
      BY <1>1, <1>6, <3>1, ProductGrows
  <2> DEFINE u == (T * M) * Fps
             v == (B * t) * Fps
             w == (f * M) * t
  <2>5. u \in Nat /\ v \in Nat /\ w \in Nat
    BY <1>1, <1>3, <1>5
  <2>6. (T * M + 1) * Fps = u + Fps /\ (Fps * T) * M = u
    BY <1>1, <1>3
  <2>7. (Fps * B) * t = v /\ (f * t) * M = w
    BY <1>1, <1>5
  <2>8. u + Fps <= v
    BY <2>2, <2>6
  <2>9. v <= w /\ w <= u
    BY <2>3, <2>4, <2>6, <2>7
  <2> HIDE DEF u, v, w
  <2> QED
    BY <1>1, <2>5, <2>8, <2>9
<1> QED
  BY <1>2, <1>4, <1>5, <1>7

\* The times are counted in microseconds.
LEMMA TimesTyped ==
  ASSUME NEW c \in Playback!Eyes, timeBase[c] \in TimeBases, NEW k \in Nat
  PROVE  Playback!FrameTime(c, k) \in Nat /\ Playback!TargetTime(k) \in Nat
<1> DEFINE t == timeBase[c]
           T == (2 * k * t + Fps) \div (2 * Fps)
<1>1. Fps \in Nat \ {0} /\ t \in Nat \ {0}
  BY BaseNumbers
<1> HIDE DEF t
<1>2. T \in Nat
  <2>1. 2 * k * t + Fps \in Nat /\ 2 * Fps \in Nat \ {0}
    BY <1>1
  <2> QED
    BY <2>1, QuotientBounds
<1>3. Playback!FrameTime(c, k) = (T * 1000000) \div t
  BY DEF Playback!FrameTime, t
<1> HIDE DEF T
<1>4. T * 1000000 \in Nat /\ k * 1000000 \in Nat
  BY <1>2
<1>5. (T * 1000000) \div t \in Nat /\ (k * 1000000) \div Fps \in Nat
  BY <1>1, <1>4, QuotientBounds
<1> QED
  BY <1>3, <1>5 DEF Playback!TargetTime

\* It starts at the frame that was asked for, or where timestamps are rounded at the
\* next one.
LEMMA StartNear ==
  ASSUME NEW c \in Playback!Eyes, timeBase[c] \in TimeBases,
         fileLength[c] \in Nat, NEW f \in Nat, f <= fileLength[c]
  PROVE  Playback!StartFrame(c, f) - f \in Playback!Lateness(c)
<1> DEFINE I == {k \in 0 .. fileLength[c] : k = fileLength[c]
                    \/ Playback!FrameTime(c, k) >= Playback!TargetTime(f)}
           m == Playback!Min(I)
<1>1. \A k \in I : f <= k
  <2> SUFFICES ASSUME NEW k \in I, k < f PROVE FALSE
    OBVIOUS
  <2>1. k \in Nat /\ k # fileLength[c]
    OBVIOUS
  <2>2. Playback!FrameTime(c, k) >= Playback!TargetTime(f)
    BY <2>1
  <2>3. Playback!FrameTime(c, k) < Playback!TargetTime(f)
    BY <2>1, EarlyFrames
  <2>4. Playback!FrameTime(c, k) \in Nat /\ Playback!TargetTime(f) \in Nat
    BY <2>1, TimesTyped
  <2> QED
    BY <2>2, <2>3, <2>4
<1>2. f = fileLength[c] \/ Playback!Exact(c) => f \in I
  <2>1. f \in 0 .. fileLength[c]
    OBVIOUS
  <2>2. ASSUME Playback!Exact(c)
        PROVE  Playback!FrameTime(c, f) >= Playback!TargetTime(f)
    BY <2>2, ExactTimes, TimesTyped
  <2> QED
    BY <2>1, <2>2
<1>3. f # fileLength[c] => f + 1 \in I
  <2>1. ASSUME f # fileLength[c] PROVE f + 1 \in 0 .. fileLength[c]
    BY <2>1
  <2> QED
    BY <2>1, NextReaches
<1>4. m \in I /\ (\A k \in I : m <= k)
  <2>1. I \in SUBSET Nat /\ I # {}
    BY <1>2, <1>3
  <2> HIDE DEF I
  <2> QED
    BY <2>1, MinIsLeast
<1>5. I \subseteq Nat
  OBVIOUS
<1>6. m \in Nat /\ f <= m
  BY <1>1, <1>4, <1>5
<1> HIDE DEF m, I
<1>7. /\ Playback!Exact(c) => m <= f
      /\ m <= f \/ m <= f + 1
  BY <1>2, <1>3, <1>4
<1>8. m - f \in Playback!Lateness(c)
  <2>1. CASE Playback!Exact(c)
    BY <1>6, <1>7, <2>1 DEF Playback!Lateness
  <2>2. CASE ~Playback!Exact(c)
    BY <1>6, <1>7, <2>2 DEF Playback!Lateness
  <2> QED
    BY <2>1, <2>2
<1> QED
  BY <1>8 DEF Playback!StartFrame, m, I

------------------------------------------------------------------------------
(* What holds of the player in every state *)

\* The files and the offset.
PlaybackFiles ==
    /\ fileLength \in [Playback!Eyes -> Nat]
    /\ timeBase \in [Playback!Eyes -> TimeBases]
    /\ offset \in Offsets

\* The threads' counters and the channels.
PlaybackPipe ==
    /\ decodeNext \in [Playback!Eyes -> Nat]
    /\ \A c \in Playback!Eyes : decodeNext[c] <= fileLength[c]
    /\ decodeChan \in [Playback!Eyes -> Seq(Nat)]
    /\ \A c \in Playback!Eyes : Len(decodeChan[c]) <= ChannelCap
    /\ toSkip \in [Playback!Eyes -> Nat]
    /\ pairChan \in Seq([Playback!Eyes -> Nat]) /\ Len(pairChan) <= ChannelCap
    /\ currentFrame \in Nat

\* The player's flags and its call.
PlaybackFlags ==
    /\ decodeUp \in [Playback!Eyes -> BOOLEAN]
    /\ pairingUp \in BOOLEAN /\ exhausted \in BOOLEAN
    /\ playState \in {"Paused", "Playing", "Finished"}
    /\ call \in {"none", "step", "drain"} /\ drainTo \in Nat /\ frameIndex \in Nat
    /\ seekCount \in 0 .. MaxSeeks

\* The frames before the pairs that are on their way.
Behind(c) == decodeNext[c] - Len(decodeChan[c])

\* How far camera c is ahead of the frames that the player counts. Only the start of
\* fresh threads can change it.
Drift(c) ==
    (Behind(c) + toSkip[c]) - currentFrame - Len(pairChan) - Playback!SkipOf(c, offset)

DriftKept == \A c \in Playback!Eyes : Drift(c)' = Drift(c)

\* A camera's channel holds the frames up to the one its thread sends next, no
\* camera is further ahead than a seek may leave it, and the pairs on their way
\* are those from current_frame on.
InPlace ==
    /\ \A c \in Playback!Eyes : \A k \in 1 .. Len(decodeChan[c]) :
           decodeChan[c][k] = Behind(c) + k - 1
    /\ \A c \in Playback!Eyes : Drift(c) \in Playback!Lateness(c)
    /\ \A k \in 1 .. Len(pairChan) : \A c \in Playback!Eyes :
           pairChan[k][c] = currentFrame + k - 1 + Playback!SkipOf(c, offset) + Drift(c)

\* The index is the count of pairs taken, but at the end of the stream.
OnScreen ==
    /\ exhausted => Playback!Disconnected
    /\ call = "step" => frameIndex = currentFrame \/ Playback!Disconnected
    /\ call = "none" => frameIndex = currentFrame \/ exhausted
    /\ call = "none" /\ ~exhausted =>
           \A c \in Playback!Eyes :
               picture[c] = currentFrame - 1 + Playback!SkipOf(c, offset) + Drift(c)

\* The inductive invariant: typed, all in place, and the screen showing what the
\* index names or, where a seek came late, the frame after it.
PlaybackInv ==
    /\ PlaybackFiles /\ PlaybackPipe /\ PlaybackFlags
    /\ InPlace /\ OnScreen

\* The frames discarded for an offset are counted.
LEMMA OffsetSkipTyped ==
  ASSUME NEW o \in Int, NEW c \in Playback!Eyes
  PROVE  Playback!SkipOf(c, o) \in Nat
BY SkipNumbers DEF Playback!Eyes

\* The distances are numbers.
LEMMA DriftTyped ==
  ASSUME PlaybackFiles, PlaybackPipe, NEW c \in Playback!Eyes
  PROVE  /\ Playback!SkipOf(c, offset) \in Nat /\ Behind(c) \in Int
         /\ toSkip[c] \in Nat /\ Len(pairChan) \in Nat /\ Drift(c) \in Int
<1>1. offset \in Int
  BY PlaybackNumbers DEF PlaybackFiles
<1>2. Playback!SkipOf(c, offset) \in Nat
  BY <1>1, OffsetSkipTyped
<1>3. Behind(c) \in Int
  <2>1. decodeNext[c] \in Nat /\ decodeChan[c] \in Seq(Nat)
    BY DEF PlaybackPipe
  <2> QED
    BY <2>1 DEF Behind
<1>4. toSkip[c] \in Nat /\ Len(pairChan) \in Nat /\ currentFrame \in Nat
  BY DEF PlaybackPipe
<1> QED
  BY <1>2, <1>3, <1>4 DEF Drift

\* Where no camera moves against the player, none is too far ahead.
LEMMA LatenessKept ==
  ASSUME InPlace, DriftKept, timeBase' = timeBase, NEW c \in Playback!Eyes
  PROVE  Drift(c)' \in Playback!Lateness(c)'
BY DEF InPlace, DriftKept, Playback!Lateness, Playback!Exact

\* What a step that touches no thread and no channel leaves in place.
LEMMA PlaceKept ==
  ASSUME InPlace,
         UNCHANGED <<timeBase, offset, decodeNext, decodeChan, toSkip, pairChan, currentFrame>>
  PROVE  InPlace' /\ DriftKept
BY DEF InPlace, DriftKept, Drift, Behind, Playback!SkipOf, Playback!Lateness, Playback!Exact

\* total_frames is a number that both files have.
LEMMA TotalTyped ==
  ASSUME PlaybackFiles
  PROVE  /\ Playback!TotalFrames \in Nat
         /\ \A c \in Playback!Eyes : Playback!TotalFrames <= fileLength[c]
<1> DEFINE I == {fileLength[c] : c \in Playback!Eyes}
<1>1. I \in SUBSET Nat /\ fileLength["left"] \in I
  BY DEF PlaybackFiles, Playback!Eyes
<1>2. \A c \in Playback!Eyes : fileLength[c] \in I
  OBVIOUS
<1> HIDE DEF I
<1>3. Playback!Min(I) \in I /\ \A k \in I : Playback!Min(I) <= k
  BY <1>1, MinIsLeast
<1> QED
  BY <1>1, <1>2, <1>3 DEF Playback!TotalFrames, I

\* The player opens in a state of the invariant.
LEMMA PlaybackStarts == ASSUME Playback!Init PROVE PlaybackInv
<1>1. PlaybackFiles
  BY PlaybackNumbers DEF Playback!Init, PlaybackFiles
<1>2. offset \in Int
  BY <1>1, PlaybackNumbers DEF PlaybackFiles
<1>3. PlaybackPipe
  <2>1. toSkip \in [Playback!Eyes -> Nat]
    BY <1>2, OffsetSkipTyped DEF Playback!Init
  <2>2. decodeNext \in [Playback!Eyes -> Nat]
        /\ \A c \in Playback!Eyes : decodeNext[c] <= fileLength[c]
    BY <1>1 DEF Playback!Init, PlaybackFiles
  <2>3. decodeChan \in [Playback!Eyes -> Seq(Nat)]
        /\ \A c \in Playback!Eyes : Len(decodeChan[c]) <= ChannelCap
    BY PlaybackNumbers DEF Playback!Init
  <2>4. pairChan \in Seq([Playback!Eyes -> Nat]) /\ Len(pairChan) <= ChannelCap
        /\ currentFrame \in Nat
    BY PlaybackNumbers DEF Playback!Init
  <2> QED
    BY <2>1, <2>2, <2>3, <2>4 DEF PlaybackPipe
<1>4. PlaybackFlags
  <2>1. 0 \in Nat /\ 0 \in 0 .. MaxSeeks
    BY PlaybackNumbers
  <2>2. decodeUp \in [Playback!Eyes -> BOOLEAN]
    BY DEF Playback!Init
  <2> QED
    BY <2>1, <2>2 DEF Playback!Init, PlaybackFlags
<1>5. InPlace
  <2>1. \A c \in Playback!Eyes : Playback!SkipOf(c, offset) \in Nat
    BY <1>2, OffsetSkipTyped
  <2>2. /\ \A c \in Playback!Eyes : Len(decodeChan[c]) = 0 /\ decodeNext[c] = 0
               /\ toSkip[c] = Playback!SkipOf(c, offset)
        /\ Len(pairChan) = 0 /\ currentFrame = 0
    BY DEF Playback!Init
  <2>3. \A c \in Playback!Eyes : Drift(c) = 0
    BY <2>1, <2>2 DEF Drift, Behind
  <2> QED
    BY <2>2, <2>3 DEF InPlace, Playback!Lateness
<1>6. OnScreen
  BY DEF Playback!Init, OnScreen
<1> QED
  BY <1>1, <1>3, <1>4, <1>5, <1>6 DEF PlaybackInv

------------------------------------------------------------------------------
(* What the actions do to the pipeline *)

\* A decode thread sends the next frame: everything stays in place.
LEMMA Decodes ==
  ASSUME PlaybackFiles, PlaybackPipe, NEW e \in Playback!Eyes, Playback!Decode(e)
  PROVE  PlaybackPipe' /\ (InPlace => InPlace' /\ DriftKept)
<1> DEFINE n == decodeNext[e]
           q == decodeChan[e]
<1>0. n \in Nat /\ q \in Seq(Nat) /\ Len(q) \in Nat /\ fileLength[e] \in Nat
  BY DEF PlaybackFiles, PlaybackPipe
<1>1. /\ n < fileLength[e] /\ Len(q) < ChannelCap
      /\ decodeChan' = [decodeChan EXCEPT ![e] = Append(q, n)]
      /\ decodeNext' = [decodeNext EXCEPT ![e] = n + 1]
      /\ UNCHANGED <<fileLength, timeBase, offset, toSkip, pairChan, currentFrame>>
  BY DEF Playback!Decode, Playback!fileVars, Playback!playerVars
<1>2. /\ decodeChan'[e] = Append(q, n) /\ decodeNext'[e] = n + 1
      /\ \A c \in Playback!Eyes \ {e} : decodeChan'[c] = decodeChan[c]
                                        /\ decodeNext'[c] = decodeNext[c]
  BY <1>1 DEF PlaybackPipe
<1>3. /\ Append(q, n) \in Seq(Nat) /\ Len(Append(q, n)) = Len(q) + 1
      /\ Append(q, n)[Len(q) + 1] = n
      /\ \A k \in 1 .. Len(q) : Append(q, n)[k] = q[k]
  BY <1>0
<1> HIDE DEF n, q
<1>4. PlaybackPipe'
  <2>1. decodeChan' \in [Playback!Eyes -> Seq(Nat)] /\ decodeNext' \in [Playback!Eyes -> Nat]
    BY <1>0, <1>1, <1>3 DEF PlaybackPipe
  <2>2. ASSUME NEW c \in Playback!Eyes
        PROVE  decodeNext'[c] <= fileLength'[c] /\ Len(decodeChan'[c]) <= ChannelCap
    <3>1. CASE c = e
      BY <1>0, <1>1, <1>2, <1>3, <3>1, PlaybackNumbers
    <3>2. CASE c # e
      BY <1>1, <1>2, <3>2 DEF PlaybackPipe
    <3> QED
      BY <3>1, <3>2
  <2> QED
    BY <1>1, <2>1, <2>2 DEF PlaybackPipe
<1>5. ASSUME InPlace PROVE InPlace' /\ DriftKept
  <2>0. Behind(e)' = Behind(e) /\ Behind(e) = n - Len(q) /\ Behind(e) \in Int
    <3>1. Behind(e) = n - Len(q) /\ Behind(e)' = decodeNext'[e] - Len(decodeChan'[e])
      BY DEF Behind, n, q
    <3>2. decodeNext'[e] = n + 1 /\ Len(decodeChan'[e]) = Len(q) + 1
      BY <1>2, <1>3
    <3> QED
      BY <1>0, <3>1, <3>2
  <2>1. ASSUME NEW c \in Playback!Eyes PROVE Behind(c)' = Behind(c)
    <3>1. CASE c # e
      BY <1>2, <3>1 DEF Behind
    <3> QED
      BY <2>0, <3>1
  <2>2. ASSUME NEW c \in Playback!Eyes, NEW k \in 1 .. Len(decodeChan'[c])
        PROVE  decodeChan'[c][k] = Behind(c)' + k - 1
    <3>1. CASE c # e
      <4>1. decodeChan'[c] = decodeChan[c]
        BY <1>2, <3>1
      <4> QED
        BY <1>5, <2>1, <2>2, <4>1 DEF InPlace
    <3>2. CASE c = e /\ k = Len(q) + 1
      BY <1>0, <1>2, <1>3, <2>0, <3>2
    <3>3. CASE c = e /\ k # Len(q) + 1
      <4>0. decodeChan'[c] = Append(q, n) /\ k \in 1 .. Len(q) + 1
        BY <1>2, <1>3, <2>2, <3>3
      <4>1. k \in 1 .. Len(q) /\ decodeChan'[c][k] = q[k]
        BY <1>0, <1>3, <3>3, <4>0
      <4>2. q[k] = Behind(e) + k - 1
        BY <1>5, <4>1 DEF InPlace, q
      <4> QED
        BY <2>0, <3>3, <4>1, <4>2
    <3> QED
      BY <3>1, <3>2, <3>3
  <2>3. UNCHANGED <<toSkip, currentFrame, pairChan, offset>>
    BY <1>1
  <2>4. DriftKept
    BY <2>1, <2>3 DEF DriftKept, Drift, Playback!SkipOf
  <2>5. \A k \in 1 .. Len(pairChan') : \A c \in Playback!Eyes :
            pairChan'[k][c] = currentFrame' + k - 1 + Playback!SkipOf(c, offset') + Drift(c)'
    BY <1>5, <2>3, <2>4 DEF InPlace, DriftKept
  <2>6. \A c \in Playback!Eyes : Drift(c)' \in Playback!Lateness(c)'
    BY <1>1, <1>5, <2>4, LatenessKept
  <2> QED
    BY <2>2, <2>4, <2>5, <2>6 DEF InPlace, Playback!SkipOf
<1> QED
  BY <1>4, <1>5

\* What a receive leaves in a channel.
LEMMA RestOf ==
  ASSUME NEW q \in Seq(Nat), q # <<>>
  PROVE  /\ Tail(q) \in Seq(Nat) /\ Head(q) = q[1] /\ Len(q) \in Nat /\ Len(q) >= 1
         /\ Head(q) \in Nat
         /\ Len(Tail(q)) = Len(q) - 1
         /\ \A k \in 1 .. Len(q) - 1 : Tail(q)[k] = q[k + 1] /\ k + 1 \in 1 .. Len(q)
BY SMT

\* The pairing thread discards a frame of the camera that is ahead.
LEMMA Skips ==
  ASSUME PlaybackFiles, PlaybackPipe, NEW e \in Playback!Eyes, Playback!SkipOne(e)
  PROVE  PlaybackPipe' /\ (InPlace => InPlace' /\ DriftKept)
<1> DEFINE q == decodeChan[e]
<1>0. q \in Seq(Nat) /\ q # <<>> /\ toSkip[e] \in Nat /\ toSkip[e] > 0
      /\ decodeNext[e] \in Nat
  BY DEF PlaybackPipe, Playback!SkipOne, Playback!Available
<1>1. /\ decodeChan' = [decodeChan EXCEPT ![e] = Tail(q)]
      /\ toSkip' = [toSkip EXCEPT ![e] = toSkip[e] - 1]
      /\ UNCHANGED <<fileLength, timeBase, offset, decodeNext, pairChan, currentFrame>>
  BY DEF Playback!SkipOne, Playback!fileVars, Playback!playerVars
<1>2. /\ decodeChan'[e] = Tail(q) /\ toSkip'[e] = toSkip[e] - 1
      /\ \A c \in Playback!Eyes \ {e} : decodeChan'[c] = decodeChan[c]
                                        /\ toSkip'[c] = toSkip[c]
  BY <1>1 DEF PlaybackPipe
<1>3. /\ Tail(q) \in Seq(Nat) /\ Len(q) \in Nat /\ Len(Tail(q)) = Len(q) - 1
      /\ \A k \in 1 .. Len(q) - 1 : Tail(q)[k] = q[k + 1] /\ k + 1 \in 1 .. Len(q)
  BY <1>0, RestOf
<1>4. PlaybackPipe'
  <2>1. decodeChan' \in [Playback!Eyes -> Seq(Nat)] /\ toSkip' \in [Playback!Eyes -> Nat]
    <3>1. toSkip[e] - 1 \in Nat
      BY <1>0
    <3> QED
      BY <1>1, <1>3, <3>1 DEF PlaybackPipe
  <2>2. ASSUME NEW c \in Playback!Eyes PROVE Len(decodeChan'[c]) <= ChannelCap
    <3>0. Len(decodeChan[c]) <= ChannelCap
      BY DEF PlaybackPipe
    <3>1. CASE c = e
      <4>1. Len(decodeChan'[c]) = Len(q) - 1 /\ Len(q) <= ChannelCap
        BY <1>2, <1>3, <3>0, <3>1
      <4>2. Len(q) \in Nat /\ ChannelCap \in Nat
        BY <1>3, PlaybackNumbers
      <4>3. \A x, y, z \in Nat : x <= y /\ z = x - 1 => z <= y
        OBVIOUS
      <4> QED
        BY <1>3, <4>1, <4>2, <4>3
    <3> QED
      BY <1>2, <3>0, <3>1
  <2> QED
    BY <1>1, <2>1, <2>2 DEF PlaybackPipe
<1>5. ASSUME InPlace PROVE InPlace' /\ DriftKept
  <2>1. ASSUME NEW c \in Playback!Eyes
        PROVE  Behind(c)' + toSkip'[c] = Behind(c) + toSkip[c]
               /\ Behind(c)' = IF c = e THEN Behind(c) + 1 ELSE Behind(c)
    <3>1. CASE c = e
      <4>1. Behind(c) = decodeNext[e] - Len(q) /\ Behind(c)' = decodeNext[e] - Len(Tail(q))
        BY <1>1, <1>2, <3>1 DEF Behind
      <4> HIDE DEF q
      <4> QED
        BY <1>0, <1>2, <1>3, <3>1, <4>1
    <3>2. CASE c # e
      BY <1>1, <1>2, <3>2 DEF Behind
    <3> QED
      BY <3>1, <3>2
  <2>2. ASSUME NEW c \in Playback!Eyes, NEW k \in 1 .. Len(decodeChan'[c])
        PROVE  decodeChan'[c][k] = Behind(c)' + k - 1
    <3>1. CASE c # e
      <4>1. decodeChan'[c] = decodeChan[c]
        BY <1>2, <3>1
      <4> QED
        BY <1>5, <2>1, <2>2, <3>1, <4>1 DEF InPlace
    <3>2. CASE c = e
      <4>1. k \in 1 .. Len(q) - 1 /\ decodeChan'[c][k] = q[k + 1] /\ k + 1 \in 1 .. Len(q)
        BY <1>2, <1>3, <2>2, <3>2
      <4>2. q[k + 1] = Behind(e) + (k + 1) - 1 /\ Behind(e) \in Int
        BY <1>5, <4>1 DEF InPlace, Behind, PlaybackPipe
      <4> QED
        BY <2>1, <3>2, <4>1, <4>2
    <3> QED
      BY <3>1, <3>2
  <2>3. UNCHANGED <<currentFrame, pairChan, offset>>
    BY <1>1
  <2>4. DriftKept
    BY <2>1, <2>3 DEF DriftKept, Drift, Playback!SkipOf
  <2>5. \A k \in 1 .. Len(pairChan') : \A c \in Playback!Eyes :
            pairChan'[k][c] = currentFrame' + k - 1 + Playback!SkipOf(c, offset') + Drift(c)'
    BY <1>5, <2>3, <2>4 DEF InPlace, DriftKept
  <2>6. \A c \in Playback!Eyes : Drift(c)' \in Playback!Lateness(c)'
    BY <1>1, <1>5, <2>4, LatenessKept
  <2> QED
    BY <2>2, <2>4, <2>5, <2>6 DEF InPlace, Playback!SkipOf
<1> QED
  BY <1>4, <1>5

\* The pairing thread sends the oldest frame of each camera as the next pair.
LEMMA PairsUp ==
  ASSUME PlaybackFiles, PlaybackPipe, Playback!PairFrames
  PROVE  PlaybackPipe' /\ (InPlace => InPlace' /\ DriftKept)
<1> DEFINE Pair == [Playback!Eyes -> Nat]
           heads == [c \in Playback!Eyes |-> Head(decodeChan[c])]
<1>0. /\ pairChan' = Append(pairChan, heads)
      /\ decodeChan' = [c \in Playback!Eyes |-> Tail(decodeChan[c])]
      /\ Len(pairChan) < ChannelCap
      /\ UNCHANGED <<fileLength, timeBase, offset, decodeNext, toSkip, currentFrame>>
  BY DEF Playback!PairFrames, Playback!fileVars, Playback!playerVars
<1>1. ASSUME NEW c \in Playback!Eyes
      PROVE  /\ toSkip[c] = 0
             /\ decodeChan[c] \in Seq(Nat) /\ decodeChan[c] # <<>>
             /\ decodeNext[c] \in Nat
  BY DEF Playback!PairFrames, Playback!Skipping, Playback!Available, PlaybackPipe
<1>2. ASSUME NEW c \in Playback!Eyes
      PROVE  /\ Tail(decodeChan[c]) \in Seq(Nat)
             /\ Head(decodeChan[c]) \in Nat /\ Head(decodeChan[c]) = decodeChan[c][1]
             /\ Len(decodeChan[c]) \in Nat /\ Len(decodeChan[c]) >= 1
             /\ Len(Tail(decodeChan[c])) = Len(decodeChan[c]) - 1
             /\ \A k \in 1 .. Len(decodeChan[c]) - 1 :
                    /\ Tail(decodeChan[c])[k] = decodeChan[c][k + 1]
                    /\ k + 1 \in 1 .. Len(decodeChan[c])
  BY <1>1, RestOf
<1>3. heads \in Pair /\ \A c \in Playback!Eyes : heads[c] = Head(decodeChan[c])
  BY <1>2
<1> HIDE DEF heads, Pair
<1>4. pairChan \in Seq(Pair) /\ Len(pairChan) \in Nat /\ currentFrame \in Nat
  BY DEF PlaybackPipe, Pair
<1>5. /\ Append(pairChan, heads) \in Seq(Pair)
      /\ Len(Append(pairChan, heads)) = Len(pairChan) + 1
      /\ Append(pairChan, heads)[Len(pairChan) + 1] = heads
      /\ \A k \in 1 .. Len(pairChan) : Append(pairChan, heads)[k] = pairChan[k]
  BY <1>3, <1>4
<1>6. PlaybackPipe'
  <2>1. decodeChan' \in [Playback!Eyes -> Seq(Nat)]
    BY <1>0, <1>2
  <2>2. ASSUME NEW c \in Playback!Eyes PROVE Len(decodeChan'[c]) <= ChannelCap
    <3>1. Len(decodeChan[c]) <= ChannelCap /\ ChannelCap \in Nat
      BY PlaybackNumbers DEF PlaybackPipe
    <3>2. Len(decodeChan'[c]) = Len(decodeChan[c]) - 1
      BY <1>0, <1>2
    <3>3. \A x, y, z \in Nat : x <= y /\ z = x - 1 => z <= y
      OBVIOUS
    <3>4. Len(decodeChan'[c]) \in Nat
      BY <2>1
    <3> QED
      BY <1>2, <3>1, <3>2, <3>3, <3>4
  <2>3. pairChan' \in Seq(Pair) /\ Len(pairChan') <= ChannelCap
    BY <1>0, <1>4, <1>5, PlaybackNumbers
  <2> QED
    BY <1>0, <2>1, <2>2, <2>3 DEF PlaybackPipe, Pair
<1>7. ASSUME InPlace PROVE InPlace' /\ DriftKept
  <2>0. offset \in Int
    BY PlaybackNumbers DEF PlaybackFiles
  <2>1. ASSUME NEW c \in Playback!Eyes
        PROVE  Behind(c) \in Int /\ Behind(c)' = Behind(c) + 1
    <3>1. /\ Behind(c) = decodeNext[c] - Len(decodeChan[c])
          /\ Behind(c)' = decodeNext[c] - Len(Tail(decodeChan[c]))
      BY <1>0 DEF Behind
    <3> QED
      BY <1>1, <1>2, <3>1
  <2>2. ASSUME NEW c \in Playback!Eyes, NEW k \in 1 .. Len(decodeChan'[c])
        PROVE  decodeChan'[c][k] = Behind(c)' + k - 1
    <3>0. decodeChan'[c] = Tail(decodeChan[c])
      BY <1>0
    <3>1. /\ k \in 1 .. Len(decodeChan[c]) - 1 /\ decodeChan'[c][k] = decodeChan[c][k + 1]
          /\ k + 1 \in 1 .. Len(decodeChan[c])
      BY <1>2, <2>2, <3>0
    <3>2. decodeChan[c][k + 1] = Behind(c) + (k + 1) - 1
      BY <1>7, <3>1 DEF InPlace
    <3> QED
      BY <2>1, <3>1, <3>2
  <2>3. ASSUME NEW c \in Playback!Eyes
        PROVE  /\ Behind(c) = currentFrame + Len(pairChan) + Playback!SkipOf(c, offset) + Drift(c)
               /\ Playback!SkipOf(c, offset) \in Nat /\ Drift(c) \in Int
    <3>1. /\ Playback!SkipOf(c, offset) \in Nat /\ Drift(c) \in Int /\ toSkip[c] = 0
      BY <1>1, DriftTyped
    <3>2. Drift(c) = (Behind(c) + 0) - currentFrame - Len(pairChan) - Playback!SkipOf(c, offset)
      BY <3>1 DEF Drift
    <3> QED
      BY <1>4, <2>1, <3>1, <3>2
  <2>4. DriftKept
    <3> SUFFICES ASSUME NEW c \in Playback!Eyes PROVE Drift(c)' = Drift(c)
      BY DEF DriftKept
    <3> DEFINE b == Behind(c)
               n == Len(pairChan)
               skipped == Playback!SkipOf(c, offset)
    <3>1. skipped \in Nat /\ b \in Int /\ n \in Nat /\ currentFrame \in Nat
      BY <1>4, <2>1, <2>3
    <3>2. Drift(c) = (b + 0) - currentFrame - n - skipped
      BY <1>1 DEF Drift
    <3>3. Drift(c)' = ((b + 1) + 0) - currentFrame - (n + 1) - skipped
      BY <1>0, <1>1, <1>5, <2>1 DEF Drift, Playback!SkipOf
    <3> HIDE DEF b, n, skipped
    <3> QED
      BY <3>1, <3>2, <3>3
  <2>5. ASSUME NEW k \in 1 .. Len(pairChan'), NEW c \in Playback!Eyes
        PROVE  pairChan'[k][c]
                   = currentFrame' + k - 1 + Playback!SkipOf(c, offset') + Drift(c)'
    <3>0. k \in 1 .. Len(pairChan) + 1 /\ Drift(c)' = Drift(c)
      BY <1>0, <1>5, <2>4, <2>5 DEF DriftKept
    <3>1. CASE k = Len(pairChan) + 1
      <4>1. pairChan'[k][c] = decodeChan[c][1]
        BY <1>0, <1>2, <1>3, <1>5, <3>1
      <4>2. 1 \in 1 .. Len(decodeChan[c])
        BY <1>2
      <4>3. decodeChan[c][1] = Behind(c) + 1 - 1
        BY <1>7, <4>2 DEF InPlace
      <4>4. pairChan'[k][c] = Behind(c)
        BY <2>1, <4>1, <4>3
      <4>5. /\ currentFrame' = currentFrame /\ offset' = offset /\ k = Len(pairChan) + 1
            /\ Playback!SkipOf(c, offset) \in Nat /\ Drift(c) \in Int
        BY <1>0, <2>3, <3>1
      <4>6. currentFrame + (Len(pairChan) + 1) - 1 + Playback!SkipOf(c, offset) + Drift(c)
                = currentFrame + Len(pairChan) + Playback!SkipOf(c, offset) + Drift(c)
        BY <1>4
      <4> QED
        BY <2>3, <3>0, <4>4, <4>5, <4>6
    <3>2. CASE k # Len(pairChan) + 1
      <4>1. k \in 1 .. Len(pairChan)
        BY <1>4, <3>0, <3>2
      <4>2. pairChan'[k] = pairChan[k]
        BY <1>0, <1>5, <4>1
      <4> QED
        BY <1>0, <1>7, <3>0, <4>1, <4>2 DEF InPlace
    <3> QED
      BY <3>1, <3>2
  <2>6. \A c \in Playback!Eyes : Drift(c)' \in Playback!Lateness(c)'
    BY <1>0, <1>7, <2>4, LatenessKept
  <2> QED
    BY <2>2, <2>4, <2>5, <2>6 DEF InPlace, Playback!SkipOf
<1> QED
  BY <1>6, <1>7

\* The player takes a pair.
LEMMA Takes ==
  ASSUME PlaybackFiles, PlaybackPipe, pairChan # <<>>, Playback!TakePair,
         UNCHANGED <<fileLength, timeBase, offset, decodeNext, decodeChan, toSkip>>
  PROVE  /\ PlaybackPipe' /\ (InPlace => InPlace' /\ DriftKept)
         /\ currentFrame' = currentFrame + 1
         /\ InPlace => \A c \in Playback!Eyes :
                Head(pairChan)[c] = currentFrame + Playback!SkipOf(c, offset) + Drift(c)
<1> DEFINE Pair == [Playback!Eyes -> Nat]
<1>0. pairChan \in Seq(Pair) /\ currentFrame \in Nat
  BY DEF PlaybackPipe
<1> HIDE DEF Pair
<1>1. /\ Tail(pairChan) \in Seq(Pair) /\ Head(pairChan) = pairChan[1]
      /\ Len(pairChan) \in Nat /\ Len(pairChan) >= 1
      /\ Len(Tail(pairChan)) = Len(pairChan) - 1
      /\ \A k \in 1 .. Len(pairChan) - 1 :
             Tail(pairChan)[k] = pairChan[k + 1] /\ k + 1 \in 1 .. Len(pairChan)
  BY <1>0
<1>2. pairChan' = Tail(pairChan) /\ currentFrame' = currentFrame + 1
  BY DEF Playback!TakePair
<1>3. PlaybackPipe'
  <2>1. Len(pairChan) <= ChannelCap /\ ChannelCap \in Nat
    BY PlaybackNumbers DEF PlaybackPipe
  <2>2. Len(pairChan') <= ChannelCap
    BY <1>1, <1>2, <2>1
  <2>3. pairChan' \in Seq([Playback!Eyes -> Nat]) /\ currentFrame' \in Nat
    BY <1>0, <1>1, <1>2 DEF Pair
  <2> QED
    BY <2>2, <2>3 DEF PlaybackPipe
<1>4. offset \in Int
  BY PlaybackNumbers DEF PlaybackFiles
<1>5. ASSUME InPlace PROVE InPlace' /\ DriftKept
  <2>1. \A c \in Playback!Eyes : Behind(c)' = Behind(c)
    BY DEF Behind
  <2>2. ASSUME NEW c \in Playback!Eyes, NEW k \in 1 .. Len(decodeChan'[c])
        PROVE  decodeChan'[c][k] = Behind(c)' + k - 1
    BY <1>5, <2>1 DEF InPlace
  <2>3. DriftKept
    <3> SUFFICES ASSUME NEW c \in Playback!Eyes PROVE Drift(c)' = Drift(c)
      BY DEF DriftKept
    <3> DEFINE ahead == Behind(c) + toSkip[c]
               skipped == Playback!SkipOf(c, offset)
    <3>1. skipped \in Nat /\ ahead \in Int
      BY DriftTyped
    <3>2. Drift(c) = ahead - currentFrame - Len(pairChan) - skipped
      BY DEF Drift
    <3>3. Drift(c)' = ahead - (currentFrame + 1) - (Len(pairChan) - 1) - skipped
      BY <1>1, <1>2, <2>1 DEF Drift, Playback!SkipOf
    <3> HIDE DEF ahead, skipped
    <3> QED
      BY <1>0, <1>1, <3>1, <3>2, <3>3
  <2>4. ASSUME NEW k \in 1 .. Len(pairChan'), NEW c \in Playback!Eyes
        PROVE  pairChan'[k][c]
                   = currentFrame' + k - 1 + Playback!SkipOf(c, offset') + Drift(c)'
    <3>1. /\ k \in 1 .. Len(pairChan) - 1 /\ pairChan'[k] = pairChan[k + 1]
          /\ k + 1 \in 1 .. Len(pairChan)
      BY <1>1, <1>2, <2>4
    <3>2. pairChan[k + 1][c]
              = currentFrame + (k + 1) - 1 + Playback!SkipOf(c, offset) + Drift(c)
      BY <1>5, <3>1 DEF InPlace
    <3>3. /\ Playback!SkipOf(c, offset) \in Nat /\ Drift(c) \in Int
          /\ Drift(c)' = Drift(c) /\ offset' = offset
      BY <2>3, DriftTyped DEF DriftKept
    <3> QED
      BY <1>0, <1>2, <3>1, <3>2, <3>3
  <2>5. \A c \in Playback!Eyes : Drift(c)' \in Playback!Lateness(c)'
    BY <1>5, <2>3, LatenessKept
  <2> QED
    BY <2>2, <2>3, <2>4, <2>5 DEF InPlace, Playback!SkipOf
<1>6. ASSUME InPlace, NEW c \in Playback!Eyes
      PROVE  Head(pairChan)[c] = currentFrame + Playback!SkipOf(c, offset) + Drift(c)
  <2>1. 1 \in 1 .. Len(pairChan)
    BY <1>1
  <2>2. pairChan[1][c] = currentFrame + 1 - 1 + Playback!SkipOf(c, offset) + Drift(c)
    BY <1>6, <2>1 DEF InPlace
  <2>3. Playback!SkipOf(c, offset) \in Nat /\ Drift(c) \in Int
    BY DriftTyped
  <2> QED
    BY <1>0, <1>1, <2>2, <2>3
<1> QED
  BY <1>2, <1>3, <1>5, <1>6

\* Fresh threads start where the player now counts from.
LEMMA Spawns ==
  ASSUME PlaybackFiles, NEW f \in Nat, NEW o \in Offsets, Playback!Spawn(f, o),
         currentFrame' = f, UNCHANGED <<fileLength, timeBase>>,
         \A c \in Playback!Eyes : f <= fileLength[c]
  PROVE  PlaybackFiles' /\ PlaybackPipe' /\ InPlace'
<1>0. /\ decodeNext' = [c \in Playback!Eyes |-> Playback!StartFrame(c, f)]
      /\ decodeChan' = [c \in Playback!Eyes |-> <<>>]
      /\ toSkip' = [c \in Playback!Eyes |-> Playback!SkipOf(c, o)]
      /\ pairChan' = <<>> /\ offset' = o
  BY DEF Playback!Spawn
<1>1. o \in Int /\ \A c \in Playback!Eyes : Playback!SkipOf(c, o) \in Nat
  BY OffsetSkipTyped, PlaybackNumbers
<1>2. PlaybackFiles'
  BY <1>0 DEF PlaybackFiles
<1>3. PlaybackPipe'
  <2>1. \A c \in Playback!Eyes : fileLength[c] \in Nat
            /\ Playback!StartFrame(c, f) \in 0 .. fileLength[c]
    BY StartTyped DEF PlaybackFiles
  <2>2. decodeNext' \in [Playback!Eyes -> Nat]
        /\ \A c \in Playback!Eyes : decodeNext'[c] <= fileLength'[c]
    BY <1>0, <2>1
  <2>3. toSkip' \in [Playback!Eyes -> Nat]
    BY <1>0, <1>1
  <2>4. decodeChan' \in [Playback!Eyes -> Seq(Nat)]
        /\ \A c \in Playback!Eyes : Len(decodeChan'[c]) <= ChannelCap
    BY <1>0, PlaybackNumbers
  <2>5. pairChan' \in Seq([Playback!Eyes -> Nat]) /\ Len(pairChan') <= ChannelCap
        /\ currentFrame' \in Nat
    BY <1>0, PlaybackNumbers
  <2> QED
    BY <2>2, <2>3, <2>4, <2>5 DEF PlaybackPipe
<1>4. InPlace'
  <2>1. \A c \in Playback!Eyes : /\ Playback!StartFrame(c, f) \in Int
                                  /\ Playback!StartFrame(c, f) - f \in Playback!Lateness(c)
    <3>1. ASSUME NEW c \in Playback!Eyes
          PROVE  timeBase[c] \in TimeBases /\ fileLength[c] \in Nat
      BY DEF PlaybackFiles
    <3> QED
      BY <3>1, StartNear, StartTyped
  <2>2. \A c \in Playback!Eyes :
            /\ decodeNext'[c] = Playback!StartFrame(c, f) /\ Len(decodeChan'[c]) = 0
            /\ toSkip'[c] = Playback!SkipOf(c, o)
    BY <1>0
  <2>3. Len(pairChan') = 0
    BY <1>0
  <2>4. \A c \in Playback!Eyes : Behind(c)' = Playback!StartFrame(c, f)
    BY <2>1, <2>2 DEF Behind
  <2>5. ASSUME NEW c \in Playback!Eyes PROVE Drift(c)' = Playback!StartFrame(c, f) - f
    <3>1. Drift(c)' = (Playback!StartFrame(c, f) + Playback!SkipOf(c, o)) - f - 0
                         - Playback!SkipOf(c, o)
      BY <1>0, <2>2, <2>3, <2>4 DEF Drift, Playback!SkipOf
    <3> QED
      BY <1>1, <2>1, <3>1
  <2>6. \A c \in Playback!Eyes : Drift(c)' \in Playback!Lateness(c)'
    BY <2>1, <2>5 DEF Playback!Lateness, Playback!Exact
  <2>7. (\A c \in Playback!Eyes : 1 .. Len(decodeChan'[c]) = {}) /\ 1 .. Len(pairChan') = {}
    BY <2>2, <2>3
  <2> QED
    BY <2>6, <2>7 DEF InPlace
<1> QED
  BY <1>2, <1>3, <1>4

------------------------------------------------------------------------------
(* What the actions do to the screen *)

\* The decode threads and the pairing thread leave the player alone, and an ended
\* pipeline stays ended.
LEMMA PipelineKeeps ==
  ASSUME PlaybackInv,
         Playback!Pipeline \/ \E c \in Playback!Eyes : Playback!DecodeFails(c)
  PROVE  PlaybackInv'
<1> DEFINE OthersKept ==
             /\ PlaybackPipe' /\ (InPlace => InPlace' /\ DriftKept)
             /\ UNCHANGED <<fileLength, timeBase, offset, currentFrame, exhausted,
                            playState, picture, frameIndex, call, drainTo, seekCount>>
             /\ decodeUp' \in [Playback!Eyes -> BOOLEAN] /\ pairingUp' \in BOOLEAN
             /\ Playback!Disconnected => Playback!Disconnected'
<1>0. PlaybackFiles /\ PlaybackPipe /\ PlaybackFlags /\ InPlace
  BY DEF PlaybackInv
<1>1. OthersKept
  <2>1. ASSUME NEW c \in Playback!Eyes, Playback!Decode(c) PROVE OthersKept
    <3>1. PlaybackPipe' /\ (InPlace => InPlace' /\ DriftKept)
      BY <1>0, <2>1, Decodes
    <3> QED
      BY <1>0, <2>1, <3>1 DEF Playback!Decode, Playback!fileVars, Playback!playerVars,
         Playback!Disconnected, PlaybackFlags
  <2>2. ASSUME NEW c \in Playback!Eyes, Playback!SkipOne(c) PROVE OthersKept
    <3>1. PlaybackPipe' /\ (InPlace => InPlace' /\ DriftKept)
      BY <1>0, <2>2, Skips
    <3> QED
      BY <1>0, <2>2, <3>1 DEF Playback!SkipOne, Playback!fileVars, Playback!playerVars,
         Playback!Disconnected, PlaybackFlags
  <2>3. CASE Playback!PairFrames
    <3>1. PlaybackPipe' /\ (InPlace => InPlace' /\ DriftKept)
      BY <1>0, <2>3, PairsUp
    <3> QED
      BY <1>0, <2>3, <3>1 DEF Playback!PairFrames, Playback!fileVars, Playback!playerVars,
         Playback!Disconnected, PlaybackFlags
  <2>4. ASSUME \/ Playback!PairingEnds
               \/ \E c \in Playback!Eyes : Playback!DecodeEnds(c) \/ Playback!DecodeFails(c)
        PROVE  OthersKept
    <3> DEFINE ThreadGone ==
                 /\ UNCHANGED <<fileLength, timeBase, offset, decodeNext, decodeChan,
                                toSkip, pairChan, currentFrame, exhausted, playState,
                                picture, frameIndex, call, drainTo, seekCount>>
                 /\ \/ pairingUp' = FALSE /\ decodeUp' = decodeUp
                    \/ /\ pairingUp' = pairingUp
                       /\ \E c \in Playback!Eyes : decodeUp' = [decodeUp EXCEPT ![c] = FALSE]
    <3>0. ThreadGone
      <4>1. CASE Playback!PairingEnds
        BY <4>1 DEF Playback!PairingEnds, Playback!fileVars, Playback!playerVars
      <4>2. ASSUME NEW c \in Playback!Eyes,
                   Playback!DecodeEnds(c) \/ Playback!DecodeFails(c)
            PROVE  ThreadGone
        BY <4>2 DEF Playback!DecodeEnds, Playback!DecodeFails, Playback!fileVars,
           Playback!playerVars
      <4> QED
        BY <2>4, <4>1, <4>2
    <3>1. /\ decodeUp' \in [Playback!Eyes -> BOOLEAN]
          /\ pairingUp' = FALSE \/ pairingUp' = pairingUp
      BY <1>0, <3>0 DEF PlaybackFlags
    <3>2. PlaybackPipe' /\ (InPlace => InPlace' /\ DriftKept)
      BY <1>0, <3>0, PlaceKept DEF PlaybackPipe
    <3>3. pairingUp' \in BOOLEAN
      BY <1>0, <3>1 DEF PlaybackFlags
    <3>4. Playback!Disconnected => Playback!Disconnected'
      BY <3>0, <3>1 DEF Playback!Disconnected
    <3> QED
      BY <3>0, <3>1, <3>2, <3>3, <3>4
  <2> QED
    BY <2>1, <2>2, <2>3, <2>4 DEF Playback!Pipeline
<1>2. PlaybackFiles' /\ PlaybackFlags'
  BY <1>0, <1>1 DEF PlaybackFiles, PlaybackFlags
<1>3. OnScreen => OnScreen'
  BY <1>0, <1>1 DEF OnScreen, Playback!SkipOf, DriftKept
<1> QED
  BY <1>0, <1>1, <1>2, <1>3 DEF PlaybackInv

\* A seek into the files, by draining or by fresh threads.
LEMMA SeeksTo ==
  ASSUME PlaybackInv, call = "none", NEW f \in 0 .. Playback!TotalFrames - 1,
         Playback!SeekTo(f), seekCount' \in 0 .. MaxSeeks,
         playState' \in {"Paused", "Playing", "Finished"}, picture' = picture
  PROVE  PlaybackInv'
<1>0. /\ PlaybackFiles /\ PlaybackPipe /\ PlaybackFlags
      /\ InPlace /\ OnScreen
  BY DEF PlaybackInv
<1>1. f \in Nat /\ \A c \in Playback!Eyes : f <= fileLength[c]
  <2>1. /\ Playback!TotalFrames \in Nat
        /\ \A c \in Playback!Eyes :
               fileLength[c] \in Nat /\ Playback!TotalFrames <= fileLength[c]
    BY <1>0, TotalTyped DEF PlaybackFiles
  <2> QED
    BY <2>1
<1>2. CASE /\ drainTo' = f /\ call' = "drain"
           /\ UNCHANGED <<fileLength, timeBase, offset, decodeNext, decodeUp, decodeChan,
                          toSkip, pairingUp, pairChan, currentFrame, exhausted, frameIndex>>
  <2>1. PlaybackFiles' /\ PlaybackPipe' /\ PlaybackFlags'
    BY <1>0, <1>1, <1>2 DEF PlaybackFiles, PlaybackPipe, PlaybackFlags
  <2>2. InPlace'
    BY <1>0, <1>2, PlaceKept
  <2>3. OnScreen'
    BY <1>0, <1>2 DEF OnScreen, Playback!Disconnected
  <2> QED
    BY <1>0, <2>1, <2>2, <2>3 DEF PlaybackInv
<1>3. CASE /\ Playback!Spawn(f, offset) /\ currentFrame' = f /\ frameIndex' = f
           /\ call' = "step" /\ UNCHANGED <<fileLength, timeBase, drainTo>>
  <2>1. PlaybackFiles' /\ PlaybackPipe' /\ InPlace'
    <3>1. offset \in Offsets
      BY <1>0 DEF PlaybackFiles
    <3> QED
      BY <1>0, <1>1, <1>3, <3>1, Spawns
  <2>2. exhausted' = FALSE /\ pairingUp' = TRUE /\ decodeUp' \in [Playback!Eyes -> BOOLEAN]
    BY <1>3 DEF Playback!Spawn
  <2>3. PlaybackFlags'
    BY <1>0, <1>1, <1>3, <2>2 DEF PlaybackFlags
  <2>4. OnScreen'
    BY <1>3, <2>2 DEF OnScreen
  <2> QED
    BY <2>1, <2>3, <2>4 DEF PlaybackInv
<1> QED
  BY <1>2, <1>3 DEF Playback!SeekTo, Playback!fileVars, Playback!pipeVars

\* Seeks and the step-backward key go to frames of the files.
LEMMA PlaybackSeekKeeps ==
  ASSUME PlaybackInv, Playback!Seek \/ Playback!StepBackward
  PROVE  PlaybackInv'
<1>0. PlaybackFiles /\ PlaybackFlags
  BY DEF PlaybackInv
<1>1. Playback!TotalFrames \in Nat
  BY <1>0, TotalTyped
<1>2. /\ call = "none" /\ Playback!TotalFrames > 0 /\ picture' = picture
      /\ playState' = playState \/ playState' = Playback!Paused
      /\ seekCount < MaxSeeks /\ seekCount' = seekCount + 1
  BY DEF Playback!Seek, Playback!StepBackward, Playback!Idle, Playback!Counted
<1>3. seekCount' \in 0 .. MaxSeeks
  BY <1>0, <1>2, PlaybackNumbers DEF PlaybackFlags
<1>4. playState' \in {"Paused", "Playing", "Finished"}
  BY <1>0, <1>2 DEF PlaybackFlags, Playback!Paused
<1>5. \E f \in 0 .. Playback!TotalFrames - 1 : Playback!SeekTo(f)
  <2>1. CASE Playback!Seek
    BY <2>1 DEF Playback!Seek
  <2>2. CASE Playback!StepBackward
    <3> DEFINE back == Playback!Max({0, frameIndex - 2})
               total == Playback!TotalFrames
               target == Playback!ThroughF32(back, total)
               f == Playback!Min({target, total - 1})
    <3>1. frameIndex \in Nat
      BY <1>0 DEF PlaybackFlags
    <3>2. back \in Nat
      <4>1. frameIndex - 2 \in Int
        BY <3>1
      <4> QED
        BY <4>1, PlaybackMax
    <3>3. total \in Nat \ {0}
      BY <1>1, <1>2
    <3> HIDE DEF back, total
    <3>4. target \in Nat
      BY <3>2, <3>3, ThroughTyped
    <3> HIDE DEF target
    <3>5. f \in 0 .. total - 1
      <4>1. total - 1 \in Nat
        BY <3>3
      <4> QED
        BY <3>3, <3>4, <4>1, PlaybackMin
    <3>6. Playback!SeekTo(f)
      BY <2>2 DEF Playback!StepBackward, f, target, back, total
    <3> HIDE DEF f
    <3> QED
      BY <3>5, <3>6 DEF total
  <2> QED
    BY <2>1, <2>2
<1> QED
  BY <1>2, <1>3, <1>4, <1>5, SeeksTo

\* A reopened source starts at its first pair.
LEMMA ReopenKeeps ==
  ASSUME PlaybackInv, Playback!SetSyncOffset
  PROVE  PlaybackInv'
<1>0. PlaybackFiles /\ PlaybackFlags
  BY DEF PlaybackInv
<1>1. PICK o \in Offsets : Playback!Spawn(0, o)
  BY DEF Playback!SetSyncOffset
<1>2. /\ currentFrame' = 0 /\ playState' = "Paused" /\ frameIndex' = 0 /\ call' = "step"
      /\ UNCHANGED <<fileLength, timeBase, drainTo>>
      /\ seekCount < MaxSeeks /\ seekCount' = seekCount + 1
  BY DEF Playback!SetSyncOffset, Playback!Counted, Playback!fileVars
<1>3. PlaybackFiles' /\ PlaybackPipe' /\ InPlace'
  <2>1. 0 \in Nat /\ \A c \in Playback!Eyes : 0 <= fileLength[c]
    BY <1>0 DEF PlaybackFiles
  <2> QED
    BY <1>0, <1>1, <1>2, <2>1, Spawns
<1>4. exhausted' = FALSE /\ pairingUp' = TRUE /\ decodeUp' \in [Playback!Eyes -> BOOLEAN]
  BY <1>1 DEF Playback!Spawn
<1>5. seekCount' \in 0 .. MaxSeeks /\ 0 \in Nat
  BY <1>0, <1>2, PlaybackNumbers DEF PlaybackFlags
<1>6. PlaybackFlags'
  BY <1>0, <1>2, <1>4, <1>5 DEF PlaybackFlags
<1>7. OnScreen'
  BY <1>2, <1>4 DEF OnScreen
<1> QED
  BY <1>3, <1>6, <1>7 DEF PlaybackInv

\* A pair is shown, or the end is reached, and the player is idle.
LEMMA ShowsOrEnds ==
  ASSUME PlaybackInv, call \in {"step", "none"}, call' = "none",
         UNCHANGED <<fileLength, timeBase, offset, decodeNext, decodeUp, decodeChan, toSkip,
                     pairingUp, drainTo, seekCount>>,
         \/ pairChan # <<>> /\ Playback!Show /\ UNCHANGED <<exhausted, playState>>
         \/ /\ Playback!Disconnected /\ Playback!Reached
            /\ UNCHANGED <<pairChan, currentFrame, picture, frameIndex>>
  PROVE  PlaybackInv'
<1>0. /\ PlaybackFiles /\ PlaybackPipe /\ PlaybackFlags
      /\ InPlace /\ OnScreen
  BY DEF PlaybackInv
<1>1. CASE /\ pairChan # <<>> /\ Playback!Show /\ UNCHANGED <<exhausted, playState>>
  <2>0. /\ Playback!TakePair /\ picture' = Head(pairChan) /\ frameIndex' = frameIndex + 1
    BY <1>1 DEF Playback!Show
  <2>1. /\ PlaybackPipe' /\ (InPlace => InPlace' /\ DriftKept)
        /\ currentFrame' = currentFrame + 1
        /\ InPlace => \A c \in Playback!Eyes :
               Head(pairChan)[c] = currentFrame + Playback!SkipOf(c, offset) + Drift(c)
    BY <1>0, <1>1, <2>0, Takes
  <2>2. PlaybackFiles' /\ PlaybackFlags'
    <3>1. frameIndex' \in Nat
      BY <1>0, <2>0 DEF PlaybackFlags
    <3> QED
      BY <1>0, <1>1, <3>1 DEF PlaybackFiles, PlaybackFlags
  <2>3. OnScreen'
    <3>1. exhausted = FALSE /\ exhausted' = FALSE /\ frameIndex = currentFrame
      BY <1>0, <1>1 DEF OnScreen, Playback!Disconnected, PlaybackFlags
    <3>2. frameIndex' = currentFrame'
      BY <2>0, <2>1, <3>1
    <3>3. ASSUME NEW c \in Playback!Eyes
          PROVE  picture'[c]
                     = currentFrame' - 1 + Playback!SkipOf(c, offset') + Drift(c)'
      <4>1. currentFrame \in Nat /\ Playback!SkipOf(c, offset) \in Nat /\ Drift(c) \in Int
        BY <1>0, DriftTyped DEF PlaybackPipe
      <4>2. picture'[c] = currentFrame + Playback!SkipOf(c, offset) + Drift(c)
        BY <1>0, <2>0, <2>1
      <4>3. offset' = offset /\ Drift(c)' = Drift(c)
        BY <1>0, <2>1 DEF DriftKept
      <4> QED
        BY <2>1, <4>1, <4>2, <4>3
    <3> QED
      BY <3>1, <3>2, <3>3 DEF OnScreen, Playback!SkipOf
  <2> QED
    BY <1>0, <2>1, <2>2, <2>3 DEF PlaybackInv
<1>2. CASE /\ Playback!Disconnected /\ Playback!Reached
           /\ UNCHANGED <<pairChan, currentFrame, picture, frameIndex>>
  <2>1. exhausted' = TRUE /\ playState' = "Finished"
    BY <1>2 DEF Playback!Reached
  <2>2. PlaybackFiles' /\ PlaybackPipe' /\ PlaybackFlags'
    BY <1>0, <1>2, <2>1 DEF PlaybackFiles, PlaybackPipe, PlaybackFlags
  <2>3. InPlace'
    BY <1>0, <1>2, PlaceKept
  <2>4. OnScreen'
    BY <1>2, <2>1 DEF OnScreen, Playback!Disconnected
  <2> QED
    BY <1>0, <2>2, <2>3, <2>4 DEF PlaybackInv
<1> QED
  BY <1>1, <1>2

\* A drain counts the pairs it discards, and it stops at its target or at the end.
LEMMA DrainKeeps ==
  ASSUME PlaybackInv, Playback!DrainOne \/ Playback!DrainReturns
  PROVE  PlaybackInv'
<1>0. /\ PlaybackFiles /\ PlaybackPipe /\ PlaybackFlags
      /\ InPlace /\ OnScreen
  BY DEF PlaybackInv
<1>1. CASE Playback!DrainOne
  <2>0. /\ call = "drain" /\ pairChan # <<>> /\ Playback!TakePair
        /\ UNCHANGED <<fileLength, timeBase, offset, decodeNext, decodeUp, decodeChan,
                       toSkip, pairingUp, exhausted, playState, picture, frameIndex, call,
                       drainTo, seekCount>>
    BY <1>1 DEF Playback!DrainOne, Playback!fileVars, Playback!pipeVars
  <2>1. PlaybackPipe' /\ (InPlace => InPlace' /\ DriftKept)
    BY <1>0, <2>0, Takes
  <2>2. PlaybackFiles' /\ PlaybackFlags'
    BY <1>0, <2>0 DEF PlaybackFiles, PlaybackFlags
  <2>3. OnScreen'
    BY <1>0, <2>0 DEF OnScreen, Playback!Disconnected
  <2> QED
    BY <1>0, <2>1, <2>2, <2>3 DEF PlaybackInv
<1>2. CASE Playback!DrainReturns
  <2>0. /\ currentFrame = drainTo \/ Playback!Disconnected
        /\ frameIndex' = drainTo /\ call' = "step"
        /\ UNCHANGED <<fileLength, timeBase, offset, decodeNext, decodeUp, decodeChan,
                       toSkip, pairingUp, pairChan, currentFrame, exhausted, playState,
                       picture, drainTo, seekCount>>
    BY <1>2 DEF Playback!DrainReturns, Playback!fileVars, Playback!pipeVars
  <2>1. PlaybackFiles' /\ PlaybackPipe' /\ PlaybackFlags'
    BY <1>0, <2>0 DEF PlaybackFiles, PlaybackPipe, PlaybackFlags
  <2>2. InPlace'
    BY <1>0, <2>0, PlaceKept
  <2>3. OnScreen'
    BY <1>0, <2>0 DEF OnScreen, Playback!Disconnected
  <2> QED
    BY <1>0, <2>1, <2>2, <2>3 DEF PlaybackInv
<1> QED
  BY <1>1, <1>2

\* The keys that change neither threads nor channels.
LEMMA KeysKeep ==
  ASSUME PlaybackInv, Playback!StepForward \/ Playback!Toggle
  PROVE  PlaybackInv'
<1>0. /\ PlaybackFiles /\ PlaybackPipe /\ PlaybackFlags
      /\ InPlace /\ OnScreen
  BY DEF PlaybackInv
<1>1. /\ call = "none" /\ call' \in {"none", "step"}
      /\ playState' \in {"Paused", "Playing", "Finished"}
      /\ UNCHANGED <<fileLength, timeBase, offset, decodeNext, decodeUp, decodeChan,
                     toSkip, pairingUp, pairChan, currentFrame, exhausted, picture,
                     frameIndex, drainTo, seekCount>>
  BY <1>0 DEF Playback!StepForward, Playback!Toggle, Playback!Idle, Playback!Paused,
     Playback!fileVars, Playback!pipeVars, PlaybackFlags
<1>2. PlaybackFiles' /\ PlaybackPipe' /\ PlaybackFlags'
  BY <1>0, <1>1 DEF PlaybackFiles, PlaybackPipe, PlaybackFlags
<1>3. InPlace' /\ DriftKept
  BY <1>0, <1>1, PlaceKept
<1>4. OnScreen'
  BY <1>0, <1>1, <1>3 DEF OnScreen, Playback!Disconnected, Playback!SkipOf, DriftKept
<1> QED
  BY <1>0, <1>2, <1>3, <1>4 DEF PlaybackInv

\* Every step of the threads, the player and the user keeps the invariant.
LEMMA PlaybackStep ==
  ASSUME PlaybackInv, [Playback!Next]_playbackVars
  PROVE  PlaybackInv'
<1>1. CASE UNCHANGED playbackVars
  <2>1. UNCHANGED <<fileLength, timeBase, offset, decodeNext, decodeUp, decodeChan,
                    toSkip, pairingUp, pairChan, currentFrame, exhausted, playState,
                    picture, frameIndex, call, drainTo, seekCount>>
    BY <1>1 DEF playbackVars
  <2>2. PlaybackFiles' /\ PlaybackPipe' /\ PlaybackFlags'
    BY <2>1 DEF PlaybackInv, PlaybackFiles, PlaybackPipe, PlaybackFlags
  <2>3. InPlace' /\ DriftKept
    BY <2>1, PlaceKept DEF PlaybackInv
  <2>4. OnScreen'
    BY <2>1, <2>3 DEF PlaybackInv, OnScreen, Playback!Disconnected, Playback!SkipOf, DriftKept
  <2> QED
    BY <2>2, <2>3, <2>4 DEF PlaybackInv
<1>2. CASE Playback!Pipeline \/ \E c \in Playback!Eyes : Playback!DecodeFails(c)
  BY <1>2, PipelineKeeps
<1>3. CASE Playback!StepReturns
  BY <1>3, ShowsOrEnds DEF Playback!StepReturns, Playback!fileVars, Playback!pipeVars
<1>4. CASE Playback!Tick
  BY <1>4, ShowsOrEnds DEF Playback!Tick, Playback!Idle, Playback!fileVars,
     Playback!pipeVars
<1>5. CASE Playback!DrainOne \/ Playback!DrainReturns
  BY <1>5, DrainKeeps
<1>6. CASE Playback!StepForward \/ Playback!Toggle
  BY <1>6, KeysKeep
<1>7. CASE Playback!Seek \/ Playback!StepBackward
  BY <1>7, PlaybackSeekKeeps
<1>8. CASE Playback!SetSyncOffset
  BY <1>8, ReopenKeeps
<1> QED
  BY <1>1, <1>2, <1>3, <1>4, <1>5, <1>6, <1>7, <1>8
  DEF Playback!Next, Playback!Returning, Playback!User

\* The player's invariant holds in every state: both decode threads and their channels are
\* where the position, the offset and the frames still to be skipped put them.
THEOREM PlaybackAlways ==
  /\ Playback!Spec => []PlaybackInv
  /\ MCSpec => []PlaybackInv
<1>1. PlaybackInv /\ [Playback!Next]_Playback!playbackVars => PlaybackInv'
  BY PlaybackStep DEF Playback!playbackVars, playbackVars, Playback!fileVars,
     Playback!pipeVars, Playback!playerVars
<1>2. PlaybackInv /\ [MCNext]_mcVars => PlaybackInv'
  BY PlaybackStep DEF MCNext, mcVars
<1>3. MCInit => PlaybackInv
  BY PlaybackStarts DEF MCInit
<1> QED
  BY <1>1, <1>2, <1>3, PlaybackStarts, PTL DEF MCSpec, Playback!Spec

\* After any sequence of plays, steps, seeks and reopens each camera shows the frame the
\* index names, and where its timestamps are rounded that frame or the next: for every file
\* length, time base, sync offset and channel capacity.
THEOREM PictureIsTheIndexed ==
  /\ Playback!Spec => []Playback!ShownIsIndexed
  /\ MCSpec => []ShownIsIndexed
<1>1. PlaybackInv => Playback!TypeOK
  <2> SUFFICES ASSUME PlaybackInv PROVE Playback!TypeOK
    OBVIOUS
  <2>1. PlaybackFiles /\ PlaybackPipe /\ PlaybackFlags
    BY DEF PlaybackInv
  <2>2. ASSUME NEW c \in Playback!Eyes
        PROVE  /\ decodeNext[c] \in 0 .. fileLength[c] /\ toSkip[c] \in Nat
               /\ Len(decodeChan[c]) <= ChannelCap
    BY <2>1 DEF PlaybackFiles, PlaybackPipe
  <2> QED
    BY <2>1, <2>2 DEF PlaybackFiles, PlaybackPipe, PlaybackFlags, Playback!TypeOK
<1>2. PlaybackInv => Playback!ShownIsIndexed
  <2> SUFFICES ASSUME PlaybackInv, call = "none", ~exhausted, NEW c \in Playback!Eyes
               PROVE  picture[c] - (frameIndex - 1 + Playback!SkipOf(c, offset))
                          \in Playback!Lateness(c)
    BY DEF Playback!ShownIsIndexed
  <2>1. /\ frameIndex = currentFrame /\ currentFrame \in Nat
        /\ picture[c] = currentFrame - 1 + Playback!SkipOf(c, offset) + Drift(c)
        /\ Drift(c) \in Playback!Lateness(c)
    BY DEF PlaybackInv, PlaybackPipe, InPlace, OnScreen
  <2>2. Playback!SkipOf(c, offset) \in Nat /\ Drift(c) \in Int
    BY DriftTyped DEF PlaybackInv
  <2>3. picture[c] - (frameIndex - 1 + Playback!SkipOf(c, offset)) = Drift(c)
    BY <2>1, <2>2
  <2> QED
    BY <2>1, <2>3
<1>3. PlaybackInv => Playback!ShownIsIndexed /\ ShownIsIndexed
  BY <1>1, <1>2 DEF ShownIsIndexed
<1> QED
  BY <1>3, PlaybackAlways, PTL

==============================================================================
