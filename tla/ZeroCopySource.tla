--------------------------- MODULE ZeroCopySource ---------------------------
(***************************************************************************)
(* The Linux zero-copy source. One thread per camera decodes into the two  *)
(* textures (slots) of that camera, a pairing thread joins the slots of    *)
(* the two cameras, and the session takes the pairs, renders or copies     *)
(* them and gives the slots back. All four talk over bounded channels.     *)
(*                                                                         *)
(* The pixels of a slot are the number of the frame decoded into it. The   *)
(* hardware decoder yields lengths[c] frames of camera c.                  *)
(***************************************************************************)
EXTENDS Integers, FiniteSets, Sequences, TLC

CONSTANTS
    Modes,          \* of "Immediate" and "Buffered": the session's run loops
    Lengths,        \* frames a camera's file may have
    SyncOffsets     \* sync_offset: > 0 skips right frames, < 0 left frames

ZeroCopySourceAssumption ==
    /\ Modes \subseteq {"Immediate", "Buffered"}
    /\ Lengths \subseteq Nat
    /\ SyncOffsets \subseteq Int

VARIABLES
    mode, lengths, syncOffset,
    slotFree,       \* per camera: the slot-free channel, capacity 2
    decoder,        \* per camera: where the decode thread stands
    writeSlot,      \* per camera: the slot the decode thread holds
    decoded,        \* per camera: frames decoded, skipped ones included
    failed,         \* per camera: the decode thread stopped on an error
    texture,        \* per camera: slot -> the frame in it
    decodedChan,    \* per camera: decode thread to pairing thread, capacity 1
    pairer,         \* where the pairing thread stands
    pairLeft,       \* the left slot the pairing thread holds
    pairRight,      \* the right slot it holds
    frameChan,      \* the pairs on their way to the session, capacity 1
    session,        \* where the session stands with the source
    held,           \* the pair the session holds
    received,       \* pairs the session has taken
    gpuReads,       \* renders submitted and not finished by the GPU
    drawn,          \* what the last finished render was drawn from
    shutdown        \* the shutdown flag

inputVars == <<mode, lengths, syncOffset>>
decoderVars == <<decoder, writeSlot, decoded, failed, texture>>
pairerVars == <<pairer, pairLeft, pairRight>>
sessionVars == <<session, held, received, shutdown>>
gpuVars == <<gpuReads, drawn>>
vars == <<inputVars, slotFree, decoderVars, decodedChan, pairerVars, frameChan,
          sessionVars, gpuVars>>

------------------------------------------------------------------------------
None == -1
Cameras == {"left", "right"}
Slots == {0, 1}
NoPair == [left |-> None, right |-> None]

\* Mutant of Skip: the two cameras swapped.
SkipSwapped(c) ==
    CASE c = "left"  /\ syncOffset > 0 -> syncOffset
      [] c = "right" /\ syncOffset < 0 -> -syncOffset
      [] OTHER -> 0

\* Frames camera c discards first.
Skip(c) ==
    CASE c = "right" /\ syncOffset > 0 -> syncOffset
      [] c = "left"  /\ syncOffset < 0 -> -syncOffset
      [] OTHER -> 0

Init ==
    /\ mode \in Modes
    /\ lengths \in [Cameras -> Lengths]
    /\ syncOffset \in SyncOffsets
    /\ slotFree = [c \in Cameras |-> <<0, 1>>]
    /\ decoder = [c \in Cameras |-> "skipping"]
    /\ writeSlot = [c \in Cameras |-> None]
    /\ decoded = [c \in Cameras |-> 0]
    /\ failed = [c \in Cameras |-> FALSE]
    /\ texture = [c \in Cameras |-> [s \in Slots |-> None]]
    /\ decodedChan = [c \in Cameras |-> <<>>]
    /\ pairer = "left"
    /\ pairLeft = None
    /\ pairRight = None
    /\ frameChan = <<>>
    /\ session = "receiving"
    /\ held = NoPair
    /\ received = 0
    /\ gpuReads = <<>>
    /\ drawn = [pair |-> None, left |-> None, right |-> None]
    /\ shutdown = FALSE

------------------------------------------------------------------------------
(* The decode thread of camera c *)

Goto(c, pc) == decoder' = [decoder EXCEPT ![c] = pc]

\* Opens the file and discards Skip(c) frames; a shorter file ends it here.
SkipFrames(c) ==
    /\ decoder[c] = "skipping"
    /\ IF Skip(c) <= lengths[c]
       THEN decoded' = [decoded EXCEPT ![c] = Skip(c)] /\ Goto(c, "polling")
       ELSE UNCHANGED decoded /\ Goto(c, "exited")
    /\ UNCHANGED <<writeSlot, failed, texture, slotFree, decodedChan>>

\* Mutant of CheckShutdown: the thread waits for a slot without the flag.
CheckShutdownNever(c) ==
    /\ decoder[c] = "polling"
    /\ Goto(c, "taking")
    /\ UNCHANGED <<writeSlot, decoded, failed, texture, slotFree, decodedChan>>

CheckShutdown(c) ==
    /\ decoder[c] = "polling"
    /\ Goto(c, IF shutdown THEN "exited" ELSE "taking")
    /\ UNCHANGED <<writeSlot, decoded, failed, texture, slotFree, decodedChan>>

\* recv_timeout: a free slot, or 100 ms pass without one.
TakeSlot(c) ==
    /\ decoder[c] = "taking"
    /\ IF slotFree[c] = <<>>
       THEN Goto(c, "polling") /\ UNCHANGED <<writeSlot, slotFree>>
       ELSE /\ Goto(c, "copying")
            /\ writeSlot' = [writeSlot EXCEPT ![c] = Head(slotFree[c])]
            /\ slotFree' = [slotFree EXCEPT ![c] = Tail(@)]
    /\ UNCHANGED <<decoded, failed, texture, decodedChan>>

\* next_frame_gpu and the copy to the slot. At the end of the file the
\* thread returns, and the slot goes with it.
CopyFrame(c) ==
    /\ decoder[c] = "copying"
    /\ IF decoded[c] < lengths[c]
       THEN /\ texture' = [texture EXCEPT ![c][writeSlot[c]] = decoded[c]]
            /\ decoded' = [decoded EXCEPT ![c] = @ + 1]
            /\ Goto(c, "sending")
       ELSE Goto(c, "exited") /\ UNCHANGED <<texture, decoded>>
    /\ UNCHANGED <<writeSlot, failed, slotFree, decodedChan>>

\* The file cannot be opened or decoded, or a CUDA call fails: the thread
\* logs the error and returns.
DecoderFails(c) ==
    /\ decoder[c] \in {"skipping", "copying"}
    /\ failed' = [failed EXCEPT ![c] = TRUE]
    /\ Goto(c, "exited")
    /\ UNCHANGED <<writeSlot, decoded, texture, slotFree, decodedChan>>

SendSlot(c) ==
    /\ decoder[c] = "sending"
    /\ \/ /\ pairer = "exited"
          /\ Goto(c, "exited")
          /\ UNCHANGED <<decodedChan, writeSlot>>
       \/ /\ pairer # "exited" /\ decodedChan[c] = <<>>
          /\ decodedChan' = [decodedChan EXCEPT ![c] = <<writeSlot[c]>>]
          /\ writeSlot' = [writeSlot EXCEPT ![c] = None]
          /\ Goto(c, "polling")
    /\ UNCHANGED <<decoded, failed, texture, slotFree>>

Decoder(c) ==
    /\ \/ SkipFrames(c) \/ CheckShutdown(c) \/ TakeSlot(c) \/ CopyFrame(c)
       \/ DecoderFails(c) \/ SendSlot(c)
    /\ UNCHANGED <<inputVars, pairerVars, frameChan, sessionVars, gpuVars>>

------------------------------------------------------------------------------
(* The pairing thread *)

Gone(c) == decoder[c] = "exited" /\ decodedChan[c] = <<>>

Take(c) == decodedChan' = [decodedChan EXCEPT ![c] = Tail(@)]

\* Both receives of the while let are evaluated, even when the left one fails.
PairLeft ==
    /\ pairer = "left"
    /\ \/ /\ decodedChan["left"] # <<>>
          /\ pairLeft' = Head(decodedChan["left"])
          /\ Take("left")
       \/ Gone("left") /\ UNCHANGED <<pairLeft, decodedChan>>
    /\ pairer' = "right"
    /\ UNCHANGED <<pairRight, frameChan>>

PairRight ==
    /\ pairer = "right"
    /\ \/ /\ decodedChan["right"] # <<>>
          /\ pairRight' = Head(decodedChan["right"])
          /\ Take("right")
          /\ pairer' = IF pairLeft = None THEN "exited" ELSE "sending"
       \/ Gone("right") /\ pairer' = "exited" /\ UNCHANGED <<pairRight, decodedChan>>
    /\ UNCHANGED <<pairLeft, frameChan>>

ReceiverDropped == session \in {"dropping", "dropped"}

SendPair ==
    /\ pairer = "sending"
    /\ \/ /\ ReceiverDropped
          /\ pairer' = "exited"
          /\ UNCHANGED <<pairLeft, pairRight, frameChan>>
       \/ /\ ~ReceiverDropped /\ frameChan = <<>>
          /\ frameChan' = <<[left |-> pairLeft, right |-> pairRight]>>
          /\ pairLeft' = None /\ pairRight' = None
          /\ pairer' = "left"
    /\ UNCHANGED decodedChan

Pairer ==
    /\ PairLeft \/ PairRight \/ SendPair
    /\ UNCHANGED <<inputVars, slotFree, decoderVars, sessionVars, gpuVars>>

------------------------------------------------------------------------------
(* The session *)

\* Mutant of NextFrame: try_recv, an empty channel taken for the end.
NextFrameTry ==
    /\ session = "receiving"
    /\ \/ /\ frameChan # <<>>
          /\ held' = Head(frameChan)
          /\ frameChan' = <<>>
          /\ received' = received + 1
          /\ session' = "holding"
       \/ /\ frameChan = <<>>
          /\ session' = "exhausted"
          /\ UNCHANGED <<held, frameChan, received>>
    /\ UNCHANGED <<slotFree, gpuVars, shutdown>>

\* next_frame: a pair, or None once the pairing thread has hung up.
NextFrame ==
    /\ session = "receiving"
    /\ \/ /\ frameChan # <<>>
          /\ held' = Head(frameChan)
          /\ frameChan' = <<>>
          /\ received' = received + 1
          /\ session' = "holding"
       \/ /\ frameChan = <<>> /\ pairer = "exited"
          /\ session' = "exhausted"
          /\ UNCHANGED <<held, frameChan, received>>
    /\ UNCHANGED <<slotFree, gpuVars, shutdown>>

ReleaseSlots ==
    slotFree' = [c \in Cameras |-> Append(slotFree[c], held[c])]

\* render_gpu_resident: submit the render, then release the slots. The GPU
\* may have them still to read: the readback of the same call only waits
\* for the render two submits ago.
RenderImmediate ==
    /\ mode = "Immediate" /\ session = "holding"
    /\ Len(gpuReads) < 2
    /\ gpuReads' = Append(gpuReads, [pair |-> received - 1] @@ held)
    /\ ReleaseSlots
    /\ held' = NoPair
    /\ session' = "receiving"
    /\ UNCHANGED <<drawn, received, shutdown, frameChan>>

\* Mutant of CopyToPool: the slots released with the copy, before detection.
CopyToPoolReleasing ==
    /\ mode = "Buffered" /\ session = "holding"
    /\ drawn' = [pair |-> received - 1, left |-> texture["left"][held.left],
                 right |-> texture["right"][held.right]]
    /\ session' = "detecting"
    /\ ReleaseSlots
    /\ UNCHANGED <<gpuReads, held, received, shutdown, frameChan>>

\* copy_to_vram_pool: the GPU copies the pair and the session waits for it.
CopyToPool ==
    /\ mode = "Buffered" /\ session = "holding"
    /\ drawn' = [pair |-> received - 1, left |-> texture["left"][held.left],
                 right |-> texture["right"][held.right]]
    /\ session' = "detecting"
    /\ UNCHANGED <<gpuReads, held, received, shutdown, slotFree, frameChan>>

\* release_gpu_decode_slot, after detection has read the decode slots.
ReleaseAfterDetect ==
    /\ session = "detecting"
    /\ ReleaseSlots
    /\ held' = NoPair
    /\ session' = "receiving"
    /\ UNCHANGED <<gpuVars, received, shutdown, frameChan>>

\* skip_frames (start_time), before the run: slots go straight back.
SkipPair ==
    /\ session = "holding" /\ gpuReads = <<>> /\ drawn.pair = None
    /\ ReleaseSlots
    /\ held' = NoPair
    /\ session' = "receiving"
    /\ UNCHANGED <<gpuVars, received, shutdown, frameChan>>

\* SmartFileSource::drop, at any point: the flag is set, frame_rx is dropped.
Drop ==
    /\ session \notin {"dropping", "dropped"}
    /\ session' = "dropping"
    /\ shutdown' = TRUE
    /\ frameChan' = <<>>
    /\ UNCHANGED <<held, received, slotFree, gpuVars>>

Join ==
    /\ session = "dropping"
    /\ pairer = "exited" /\ \A c \in Cameras : decoder[c] = "exited"
    /\ session' = "dropped"
    /\ UNCHANGED <<held, received, slotFree, gpuVars, shutdown, frameChan>>

Run == NextFrame \/ RenderImmediate \/ CopyToPool \/ ReleaseAfterDetect \/ SkipPair \/ Join

Session ==
    /\ Run \/ Drop
    /\ UNCHANGED <<inputVars, decoderVars, decodedChan, pairerVars>>

\* The GPU draws the oldest render, from what is in its textures by now.
GpuDraws ==
    /\ gpuReads # <<>>
    /\ LET r == Head(gpuReads) IN
           drawn' = [pair |-> r.pair, left |-> texture["left"][r.left],
                     right |-> texture["right"][r.right]]
    /\ gpuReads' = Tail(gpuReads)
    /\ UNCHANGED <<inputVars, slotFree, decoderVars, decodedChan, pairerVars,
                   frameChan, sessionVars>>

------------------------------------------------------------------------------
Next == Pairer \/ Session \/ GpuDraws \/ \E c \in Cameras : Decoder(c)

Spec == Init /\ [][Next]_vars

\* Every thread is scheduled and the GPU makes progress; nothing obliges the
\* caller to drop the source.
FairSpec ==
    /\ Spec
    /\ \A c \in Cameras : WF_vars(Decoder(c))
    /\ WF_vars(Pairer)
    /\ WF_vars(Run /\ Session)
    /\ WF_vars(GpuDraws)

------------------------------------------------------------------------------
(* Properties *)

SlotOrNone == Slots \cup {None}

TypeOK ==
    /\ mode \in Modes
    /\ lengths \in [Cameras -> Lengths]
    /\ syncOffset \in SyncOffsets
    /\ slotFree \in [Cameras -> Seq(Slots)]
    /\ decoder \in [Cameras -> {"skipping", "polling", "taking", "copying",
                                "sending", "exited"}]
    /\ writeSlot \in [Cameras -> SlotOrNone]
    /\ decoded \in [Cameras -> Nat]
    /\ failed \in [Cameras -> BOOLEAN]
    /\ texture \in [Cameras -> [Slots -> Nat \cup {None}]]
    /\ decodedChan \in [Cameras -> Seq(Slots)]
    /\ pairer \in {"left", "right", "sending", "exited"}
    /\ pairLeft \in SlotOrNone /\ pairRight \in SlotOrNone
    /\ frameChan \in Seq([left : Slots, right : Slots])
    /\ session \in {"receiving", "holding", "detecting", "exhausted",
                    "dropping", "dropped"}
    /\ held \in [left : SlotOrNone, right : SlotOrNone]
    /\ received \in Nat
    /\ shutdown \in BOOLEAN

Stages == {"free", "writing", "queued", "paired", "sent", "held"}

\* The slot of camera c the pairing thread holds.
PairSlot(c) == IF c = "left" THEN pairLeft ELSE pairRight

\* The slots of camera c at a stage of their way round.
At(c, stage) ==
    CASE stage = "free"    -> {slotFree[c][i] : i \in 1 .. Len(slotFree[c])}
      [] stage = "writing" -> {writeSlot[c]} \ {None}
      [] stage = "queued"  -> {decodedChan[c][i] : i \in 1 .. Len(decodedChan[c])}
      [] stage = "paired"  -> {PairSlot(c)} \ {None}
      [] stage = "sent"    -> {frameChan[i][c] : i \in 1 .. Len(frameChan)}
      [] stage = "held"    -> {held[c]} \ {None}

\* A slot is in one place at a time: never free while it is being written,
\* queued or used. So no release ever finds its channel of two full, and
\* neither the session nor a decode thread blocks on it.
SlotHeldOnce ==
    \A c \in Cameras :
        /\ \A p, q \in Stages : p # q => At(c, p) \cap At(c, q) = {}
        /\ \A i, j \in 1 .. Len(slotFree[c]) : i # j => slotFree[c][i] # slotFree[c][j]
        /\ Len(decodedChan[c]) <= 1 /\ Len(frameChan) <= 1

\* What pair number n must show: sync_offset between the cameras, and no
\* instant that both cameras have left out before it.
ShowsPair(n, pictures) ==
    /\ pictures.right - pictures.left = syncOffset
    /\ n = (IF syncOffset < 0 THEN pictures.right ELSE pictures.left)

\* The pair the session is working on shows the same instant on both cameras
\* and stays as it is while the session has it.
HeldPairInSync ==
    session \in {"holding", "detecting"} =>
        ShowsPair(received - 1, [c \in Cameras |-> texture[c][held[c]]])

\* With no decode error, the end comes after all the pairs there are.
AllPairsDelivered ==
    session = "exhausted" /\ (\A c \in Cameras : ~failed[c]) =>
        received = Cardinality({i \in 0 .. lengths["left"] - 1 :
                                   i + syncOffset \in 0 .. lengths["right"] - 1})

\* The stream ends for a session that goes on consuming: the threads never
\* wait for one another in a circle, whichever camera ends or fails first.
StreamEnds == <>(session \in {"exhausted", "dropped"})

\* The drop never waits for a thread that waits for the dropped channel, or
\* for a slot nobody will free.
DropReturns == session = "dropping" ~> session = "dropped"

\* No thread waits for ever, neither at the end of the stream nor on a drop.
NeverStuck == StreamEnds /\ DropReturns

\* What the session renders from (or copies) is the pair it took: what
\* holding a decode slot until its last reader is done is for.
DrawnFromOwnPair == drawn.pair # None => ShowsPair(drawn.pair, drawn)

\* In the buffered loop that holds: the copy is waited for.
CopiedFromOwnPair == mode = "Buffered" => DrawnFromOwnPair
=============================================================================
