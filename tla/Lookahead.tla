------------------------------ MODULE Lookahead ------------------------------
(***************************************************************************)
(* StitchSession::run_buffered: the frame loop used when a lookahead of N  *)
(* frames is requested. One thread decodes and detects frames into a       *)
(* FrameBuffer, runs the panner PostSmoothHalf frames ahead of the         *)
(* renderer through a pose queue, smooths each pose over its neighbours    *)
(* and renders. GPU frames live meanwhile in a fixed pool of textures:     *)
(* Linux and macOS acquire and release slots of a VramPool, Windows        *)
(* stages frame k into slot k modulo the pool size, with no occupancy      *)
(* check at all.                                                           *)
(*                                                                         *)
(* A frame is its number in the source; a pose is the number of the frame  *)
(* it was decided for; the pixels in a slot are the number of the frame    *)
(* last copied into it. A panner is attached and the source is GPU         *)
(* resident (a CPU frame carries its pixels and takes no slot).            *)
(***************************************************************************)
EXTENDS Integers, Sequences

CONSTANTS
    N,              \* lookahead_frames
    Backends,       \* of "VramPool" and "D3d11Staging": who may hand out slots
    SourceLengths,  \* how many frames the source may have
    FrameLimits     \* the frame_limit values a caller may pass

ASSUME LookaheadAssumption ==
    /\ N \in Nat \ {0}
    /\ Backends \subseteq {"VramPool", "D3d11Staging"}
    /\ SourceLengths \subseteq Nat
    /\ FrameLimits \subseteq Nat

VARIABLES
    phase,          \* which loop of run_buffered is running, or how it ended
    step,           \* where one warm-up or steady iteration stands
    warmups,        \* completed warm-up iterations
    eof,            \* the loop's end-of-source flag
    backend,        \* who hands out slots: the platform's frame store
    sourceLength,   \* frames the source has
    frameLimit,     \* frame_limit
    interrupted,    \* the caller's AtomicBool
    produceCount,   \* produce_count
    buffer,         \* FrameBuffer: <<frame, slot>> records, oldest first
    poseQueue,      \* frames the panner has decided, not rendered yet
    pastPoses,      \* raw poses of the frames rendered last
    pannerFrameIdx, \* panner_frame_idx
    frameCount,     \* session.frame_count: frames rendered
    previousPose,   \* previous_panner_pose: the frame it is a pose of
    free,           \* VramPool.free
    texture,        \* slot -> the frame whose pixels it holds
    decision,       \* the PanContext and window of the last pan decision
    shown           \* what the last rendered frame was rendered from

sourceVars == <<backend, sourceLength, frameLimit>>
panVars    == <<poseQueue, pannerFrameIdx, decision>>
renderVars == <<pastPoses, frameCount, shown>>
slotVars   == <<free, texture>>
vars == <<phase, step, warmups, eof, sourceVars, interrupted, produceCount,
          buffer, panVars, renderVars, previousPose, slotVars>>

------------------------------------------------------------------------------
None == -1        \* no frame, or the pose the session starts with

PostSmoothHalf == IF N \div 2 > 1 THEN N \div 2 ELSE 1

\* Mutant of BufferCapacity: no room for the frame the panner decides.
BufferCapacityOfWindow == N

BufferCapacity == N + 1

\* Mutant of PoolSize: sized like the buffer, without the pose queue.
PoolSizeOfBuffer == N + 1

PoolSize == N + PostSmoothHalf + 4

Slots == 0 .. PoolSize - 1

BufferedFrame == [frame : Nat, slot : Slots]

Frames(s) == {s[i].frame : i \in DOMAIN s}

Full == Len(buffer) >= BufferCapacity

Exhausted == produceCount >= sourceLength

\* Mutant of Stopped: the end of the source stops the loop as well.
StoppedAtEof == frameCount >= frameLimit \/ interrupted \/ eof

Stopped == frameCount >= frameLimit \/ interrupted

Ended == phase \in {"done", "failed"}

------------------------------------------------------------------------------
Init ==
    /\ phase = "prefill"
    /\ step = "produce"
    /\ warmups = 0
    /\ eof = FALSE
    /\ backend \in Backends
    /\ sourceLength \in SourceLengths
    /\ frameLimit \in FrameLimits
    /\ interrupted = FALSE
    /\ produceCount = 0
    /\ buffer = <<>>
    /\ poseQueue = <<>>
    /\ pastPoses = <<>>
    /\ pannerFrameIdx = 0
    /\ frameCount = 0
    /\ previousPose = None
    /\ free = [i \in 1 .. PoolSize |-> i - 1]
    /\ texture = [s \in Slots |-> None]
    /\ decision = [frame |-> None, future |-> {}, previous |-> None]
    /\ shown = [frame |-> None, index |-> None, pixels |-> None,
                ahead |-> {}, past |-> {}]

\* Mutant of AcquiredSlot: round robin over as many slots as the buffer has.
AcquiredSlotRoundRobin == produceCount % BufferCapacity

\* The slot copy_to_vram_pool picks for the frame being produced.
AcquiredSlot ==
    IF backend = "VramPool" THEN Head(free) ELSE produceCount % PoolSize

PoolExhausted == backend = "VramPool" /\ free = <<>>

\* produce_one when next_frame returns a frame: copy it to a slot, detect
\* (reading the decode slot), push it.
ProduceOne ==
    /\ ~Exhausted
    /\ ~PoolExhausted
    /\ buffer' = Append(buffer, [frame |-> produceCount, slot |-> AcquiredSlot])
    /\ texture' = [texture EXCEPT ![AcquiredSlot] = produceCount]
    /\ free' = IF backend = "VramPool" THEN Tail(free) ELSE free
    /\ produceCount' = produceCount + 1

\* produce_one's two errors: next_frame fails, or the pool has no slot.
\* run_buffered returns the error and its local queues are dropped.
ProduceFails ==
    /\ phase' = "failed"
    /\ UNCHANGED <<step, warmups, eof, produceCount, buffer, slotVars>>

Release(slot) ==
    free' = IF backend = "VramPool" THEN Append(free, slot) ELSE free

------------------------------------------------------------------------------
\* Pre-fill: N frames, fewer if the source ends or the caller interrupts.
Prefill ==
    /\ phase = "prefill"
    /\ IF produceCount = N \/ interrupted \/ Exhausted
       THEN /\ phase' = "warmup"
            /\ eof' = (Len(buffer) < N)
            /\ UNCHANGED <<step, warmups, produceCount, buffer, slotVars>>
       ELSE \/ ProduceOne /\ UNCHANGED <<phase, step, warmups, eof>>
            \/ ProduceFails
    /\ UNCHANGED <<sourceVars, interrupted, panVars, renderVars, previousPose>>

\* The produce part of a warm-up or steady iteration.
TopUp ==
    \/ /\ eof \/ Full \/ Exhausted
       /\ eof' = (eof \/ ~Full)
       /\ step' = "pan"
       /\ UNCHANGED <<phase, warmups, produceCount, buffer, slotVars>>
    \/ /\ ~eof /\ ~Full
       /\ ProduceOne
       /\ step' = "pan"
       /\ UNCHANGED <<phase, warmups, eof>>
    \/ /\ ~eof /\ ~Full
       /\ ProduceFails

WarmupProduce ==
    /\ phase = "warmup" /\ step = "produce"
    /\ IF warmups = PostSmoothHalf \/ buffer = <<>>
       THEN /\ phase' = "steady"
            /\ UNCHANGED <<step, warmups, eof, produceCount, buffer, slotVars>>
       ELSE TopUp
    /\ UNCHANGED <<sourceVars, interrupted, panVars, renderVars, previousPose>>

SteadyProduce ==
    /\ phase = "steady" /\ step = "produce"
    /\ IF Stopped
       THEN /\ phase' = "drain"
            /\ UNCHANGED <<step, warmups, eof, produceCount, buffer, slotVars>>
       ELSE TopUp
    /\ UNCHANGED <<sourceVars, interrupted, panVars, renderVars, previousPose>>

\* run_panner_once: the panner decides the oldest buffered frame, seeing the
\* world states of every frame still behind it in the buffer.
RunPannerOnce ==
    IF buffer = <<>>
    THEN UNCHANGED <<buffer, panVars, previousPose>>
    ELSE /\ buffer' = Tail(buffer)
         /\ decision' = [frame |-> pannerFrameIdx,
                         future |-> Frames(Tail(buffer)),
                         previous |-> previousPose]
         /\ previousPose' = pannerFrameIdx
         /\ pannerFrameIdx' = pannerFrameIdx + 1
         /\ poseQueue' = Append(poseQueue, Head(buffer))

Pan ==
    /\ phase \in {"warmup", "steady"} /\ step = "pan"
    /\ RunPannerOnce
    /\ IF phase = "warmup"
       THEN step' = "produce" /\ warmups' = warmups + 1
       ELSE step' = "render" /\ UNCHANGED warmups
    /\ UNCHANGED <<phase, eof, sourceVars, interrupted, produceCount,
                   renderVars, slotVars>>

\* centered_smooth and render_buffered_frame for the front of the pose queue.
RenderFront ==
    LET front == Head(poseQueue)
        rest  == Tail(poseQueue)
        ahead == SubSeq(rest, 1, IF Len(rest) < PostSmoothHalf
                                 THEN Len(rest) ELSE PostSmoothHalf)
        past  == Append(pastPoses, front.frame)
    IN  /\ poseQueue' = rest
        /\ pastPoses' = IF Len(past) > PostSmoothHalf THEN Tail(past) ELSE past
        /\ shown' = [frame  |-> front.frame, index |-> frameCount,
                     pixels |-> texture[front.slot],
                     ahead  |-> Frames(ahead),
                     past   |-> {pastPoses[i] : i \in DOMAIN pastPoses}]
        /\ previousPose' = front.frame
        /\ frameCount' = frameCount + 1
        /\ Release(front.slot)
        /\ UNCHANGED <<pannerFrameIdx, decision, texture>>

\* process_frame_any fails (the encoder died, a GPU error): run_buffered
\* returns at once, before the slot is released.
RenderFails ==
    /\ phase' = "failed"
    /\ UNCHANGED <<panVars, renderVars, previousPose, slotVars>>

\* Mutants of CanRender: one frame late, and without the end of the source.
CanRenderLate == Len(poseQueue) > PostSmoothHalf + 1 \/ (eof /\ poseQueue # <<>>)

CanRenderFull == Len(poseQueue) > PostSmoothHalf

CanRender == Len(poseQueue) > PostSmoothHalf \/ (eof /\ poseQueue # <<>>)

SteadyRender ==
    /\ phase = "steady" /\ step = "render"
    /\ step' = "produce"
    /\ IF CanRender
       THEN \/ RenderFront /\ UNCHANGED phase
            \/ RenderFails
       ELSE /\ phase' = IF eof /\ buffer = <<>> /\ poseQueue = <<>>
                        THEN "drain" ELSE phase
            /\ UNCHANGED <<panVars, renderVars, previousPose, slotVars>>
    /\ UNCHANGED <<warmups, eof, sourceVars, interrupted, produceCount, buffer>>

\* The drain loop pops before it looks at the limit and the interrupt flag.
Drain ==
    /\ phase = "drain"
    /\ IF poseQueue # <<>> /\ ~Stopped
       THEN RenderFront /\ UNCHANGED phase
       ELSE /\ phase' = "done"
            /\ poseQueue' = IF poseQueue = <<>> THEN <<>> ELSE Tail(poseQueue)
            /\ UNCHANGED <<pannerFrameIdx, decision, renderVars, previousPose,
                           slotVars>>
    /\ UNCHANGED <<step, warmups, eof, sourceVars, interrupted, produceCount,
                   buffer>>

\* The caller's thread (Ctrl-C, the GUI's cancel button) raises the flag.
Interrupt ==
    /\ ~interrupted /\ ~Ended
    /\ interrupted' = TRUE
    /\ UNCHANGED <<phase, step, warmups, eof, sourceVars, produceCount, buffer,
                   panVars, renderVars, previousPose, slotVars>>

Loop == Prefill \/ WarmupProduce \/ SteadyProduce \/ Pan \/ SteadyRender \/ Drain

Next == Loop \/ Interrupt

Spec == Init /\ [][Next]_vars

\* The loop runs on a thread of its own that nothing holds up for ever.
FairSpec == Spec /\ WF_vars(Loop)

------------------------------------------------------------------------------
(* Properties *)

Live == produceCount - frameCount

Min2(a, b) == IF a < b THEN a ELSE b

Observation == [frame : Int, future : SUBSET Nat, previous : Int]

\* The shape of run_buffered's locals and of the session fields it uses.
TypeOK ==
    /\ phase \in {"prefill", "warmup", "steady", "drain", "done", "failed"}
    /\ step \in {"produce", "pan", "render"}
    /\ warmups \in Nat
    /\ eof \in BOOLEAN
    /\ backend \in Backends
    /\ sourceLength \in SourceLengths
    /\ frameLimit \in FrameLimits
    /\ interrupted \in BOOLEAN
    /\ produceCount \in Nat
    /\ buffer \in Seq(BufferedFrame)
    /\ poseQueue \in Seq(BufferedFrame)
    /\ pastPoses \in Seq(Nat)
    /\ pannerFrameIdx \in Nat
    /\ frameCount \in Nat
    /\ previousPose \in Int
    /\ free \in Seq(Slots)
    /\ texture \in [Slots -> Int]
    /\ decision \in Observation

\* The VramPool, sized N + PostSmoothHalf + 4, has a slot for every frame the
\* loop produces: copy_to_vram_pool never reports "VRAM pool exhausted".
PoolNeverExhausted == ~Ended => ~PoolExhausted

\* A frame is rendered from its own pixels: between the produce that filled
\* its slot and its render, no later frame is copied over it. On Windows only
\* the sizing margin keeps this true.
RendersOwnPixels == shown.pixels = shown.frame

\* The panner always decides with the whole window the user asked for: the N
\* frames that follow, fewer only because the source ends.
FullPanWindow ==
    decision.frame # None /\ ~interrupted =>
        decision.future =
            decision.frame + 1 .. Min2(decision.frame + N, sourceLength - 1)

\* The rendered pose is the mean over the raw poses of the PostSmoothHalf
\* frames on each side, cut off only by the two ends of the stream: the
\* phase that renders a frame makes no difference to its pose.
SymmetricSmoothing ==
    shown.frame # None /\ ~interrupted =>
        /\ shown.ahead = shown.frame + 1 ..
                             Min2(shown.frame + PostSmoothHalf, sourceLength - 1)
        /\ shown.past = {i \in 0 .. shown.frame - 1 :
                             i >= shown.frame - PostSmoothHalf}

\* No frame is shortchanged by the phase that handles it: pan window and
\* smoothing window are both whole.
WholeWindows == FullPanWindow /\ SymmetricSmoothing

\* A run nobody interrupts renders every frame of the source, up to the
\* limit: nothing decoded, detected or decided is left behind at the end.
CompleteRun ==
    phase = "done" /\ ~interrupted =>
        frameCount = Min2(sourceLength, frameLimit)

\* The run ends, with a result or an error, for every source that ends.
Termination == <>Ended

\* What PanContext::previous_position is documented to be: the pose the
\* session reported on the previous frame.
PreviousPositionOfPreviousFrame ==
    decision.frame # None => decision.previous = decision.frame - 1

\* run_buffered is a frame pipe that holds N + PostSmoothHalf + 1 frames, the
\* peak occupancy the slot pools are sized from.
Pipe == INSTANCE FramePipe WITH
    Capacity <- N + PostSmoothHalf + 1,
    entered  <- produceCount,
    out      <- shown.frame,
    state    <- IF ~Ended THEN "open"
                ELSE IF phase = "done" /\ Live = 0 THEN "drained"
                ELSE "abandoned"

\* Frames are rendered in source order, each once, none skipped, and the
\* number each is reported under is its own.
IsFramePipe == Pipe!Spec

==============================================================================
