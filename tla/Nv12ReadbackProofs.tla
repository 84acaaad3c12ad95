------------------------- MODULE Nv12ReadbackProofs -------------------------
(***************************************************************************)
(* The readback ring of three staging buffers is a frame pipe, for any     *)
(* number of frames and any mix of converts and flushes.                   *)
(***************************************************************************)
EXTENDS Nv12Readback, TLAPS

\* Frames submitted and not returned: the staging buffers still owe them.
Owed == returned + 1 .. submitted - 1

\* The inductive invariant. Buffer f % 3 holds frame f for every frame that
\* is owed, pending_count counts them (one more while a convert is between
\* its submit and its readback), and current_slot is where the next frame,
\* or the frame just submitted, goes.
RingInv ==
    /\ TypeOK
    /\ \A f \in Owed : staging[f % 3] = f
    /\ call = "none" => /\ returned = submitted - 1 - pendingCount
                   /\ currentSlot = submitted % 3
    /\ call = "convert" => /\ pendingCount = 2
                   /\ returned = submitted - 4
                   /\ submitted >= 3
                   /\ currentSlot = (submitted - 1) % 3
    /\ state = "flushed" => pendingCount = 0 /\ call = "none"
    /\ returned < gpuDone

\* A failed readback leaves no call under way with the bookkeeping undone, so the
\* invariant only speaks of rings that have not failed.
Inv ==
    /\ TypeOK
    /\ returned < gpuDone
    /\ call = "convert" => state = "open"
    /\ state # "failed" => RingInv

LEMMA InitInv == Init => Inv
  BY DEF Init, Inv, RingInv, TypeOK, Owed, Slots, None

\* The slot a convert reads back is the one that holds the oldest owed frame.
LEMMA ReadSlotHoldsOldest ==
  ASSUME RingInv, call = "convert"
  PROVE  staging[ReadSlot] = returned + 1
<1>1. returned + 1 \in Owed /\ (returned + 1) % 3 = ReadSlot
  BY DEF RingInv, TypeOK, Owed, ReadSlot, Slots, None
<1> QED
  BY <1>1 DEF RingInv

\* So is the slot a flush reads.
LEMMA OldestSlotHoldsOldest ==
  ASSUME RingInv, call = "none", pendingCount > 0
  PROVE  staging[OldestSlot] = returned + 1
<1>1. returned + 1 \in Owed /\ (returned + 1) % 3 = OldestSlot
  BY DEF RingInv, TypeOK, Owed, OldestSlot, Slots, None
<1> QED
  BY <1>1 DEF RingInv

LEMMA StepInv == Inv /\ [Next]_vars => Inv'
<1> SUFFICES ASSUME Inv, [Next]_vars PROVE Inv'
  OBVIOUS
<1> USE DEF Inv, RingInv, TypeOK, Owed, Slots, None
<1>1. CASE Submit
  <2>1. state # "failed" /\ state' = "open" /\ submitted' = submitted + 1
        /\ returned' = returned /\ gpuDone' = gpuDone
    BY <1>1 DEF Submit
  <2>2. TypeOK'
    BY <1>1, <2>1 DEF Submit, Advance, gpuVars
  <2>3. \A f \in Owed' : staging'[f % 3] = f
    <3> SUFFICES ASSUME NEW f \in Owed' PROVE staging'[f % 3] = f
      OBVIOUS
    <3>1. staging' = [staging EXCEPT ![submitted % 3] = submitted]
      BY <1>1 DEF Submit
    <3>2. CASE f = submitted
      BY <3>1, <3>2, <2>1
    <3>3. CASE f # submitted
      <4>1. f \in Owed /\ f \in Int /\ f < submitted /\ submitted - f < 3
        BY <3>3, <2>1, <1>1 DEF Submit
      <4>2. f % 3 # submitted % 3
        BY <4>1
      <4> QED
        BY <4>1, <4>2, <3>1, <1>1 DEF Submit
    <3> QED
      BY <3>2, <3>3
  <2>4. CASE pendingCount >= 2
    <3>1. call' = "convert" /\ pendingCount' = pendingCount
          /\ currentSlot' = currentSlot
      BY <1>1, <2>4 DEF Submit
    <3> QED
      BY <1>1, <2>1, <2>2, <2>3, <2>4, <3>1 DEF Submit
  <2>5. CASE ~(pendingCount >= 2)
    <3>1. call' = call /\ pendingCount' = pendingCount + 1
          /\ currentSlot' = (currentSlot + 1) % 3
      BY <1>1, <2>5 DEF Submit, Advance
    <3> QED
      BY <1>1, <2>1, <2>2, <2>3, <2>5, <3>1 DEF Submit
  <2> QED
    BY <2>4, <2>5
<1>2. CASE Readback
  <2>1. staging[ReadSlot] = returned + 1 /\ RingInv
    BY <1>2, ReadSlotHoldsOldest DEF Readback
  <2>2. returned' = returned + 1 /\ submitted' = submitted
        /\ staging' = staging /\ state' = "open" /\ call' = "none"
        /\ pendingCount' = 2 /\ currentSlot' = (currentSlot + 1) % 3
        /\ gpuDone' = IF returned + 1 < gpuDone THEN gpuDone ELSE submitted
    BY <1>2, <2>1 DEF Readback, ReadStaging, Advance
  <2> QED
    BY <2>1, <2>2, <1>2 DEF Readback
<1>3. CASE Flush
  <2>1. CASE pendingCount = 0
    BY <1>3, <2>1 DEF Flush, gpuVars
  <2>2. CASE pendingCount # 0
    <3>1. staging[OldestSlot] = returned + 1 /\ RingInv
      BY <1>3, <2>2, OldestSlotHoldsOldest DEF Flush
    <3>2. returned' = returned + 1 /\ submitted' = submitted
          /\ staging' = staging /\ state' = "open" /\ call' = call
          /\ pendingCount' = pendingCount - 1 /\ currentSlot' = currentSlot
          /\ gpuDone' = IF returned + 1 < gpuDone THEN gpuDone ELSE submitted
      BY <1>3, <2>2, <3>1 DEF Flush, ReadStaging
    <3> QED
      BY <3>1, <3>2, <1>3 DEF Flush
  <2> QED
    BY <2>1, <2>2
<1>4. CASE ReadbackFails
  BY <1>4 DEF ReadbackFails, gpuVars
<1>5. CASE GpuFinishes
  BY <1>5 DEF GpuFinishes
<1>6. CASE UNCHANGED vars
  BY <1>6 DEF vars, gpuVars
<1> QED
  BY <1>1, <1>2, <1>3, <1>4, <1>5, <1>6 DEF Next

THEOREM RingInvariant == Spec => []Inv
  BY InitInv, StepInv, PTL DEF Spec

\* The readback never hands out a buffer the GPU is still writing.
THEOREM FinishedFrames == Spec => []ReturnsFinishedFrames
<1>1. Inv => ReturnsFinishedFrames
  BY DEF Inv, ReturnsFinishedFrames
<1> QED
  BY <1>1, RingInvariant, PTL

THEOREM TypeCorrect == Spec => []TypeOK
<1>1. Inv => TypeOK
  BY DEF Inv
<1> QED
  BY <1>1, RingInvariant, PTL

\* Each step of the ring is a step of the frame pipe, or leaves it alone.
LEMMA StepRefines == Inv /\ [Next]_vars => [Pipe!Next]_Pipe!vars
<1> SUFFICES ASSUME Inv, [Next]_vars PROVE [Pipe!Next]_Pipe!vars
  OBVIOUS
<1> USE DEF Inv, TypeOK, None, Pipe!Next, Pipe!vars, Pipe!Inside
<1>1. CASE Submit
  <2>1. Pipe!Enter
    BY <1>1 DEF Submit, RingInv, Pipe!Enter
  <2> QED
    BY <2>1
<1>2. CASE Readback
  <2>1. state = "open"
    BY <1>2 DEF Readback, RingInv
  <2>2. staging[ReadSlot] = returned + 1
    BY <1>2, <2>1, ReadSlotHoldsOldest DEF Readback
  <2>3. Pipe!Leave
    BY <1>2, <2>1, <2>2 DEF Readback, ReadStaging, RingInv, Pipe!Leave
  <2> QED
    BY <2>3
<1>3. CASE Flush
  <2>1. CASE pendingCount = 0
    <3>1. Pipe!Drain
      BY <1>3, <2>1 DEF Flush, RingInv, gpuVars, Pipe!Drain
    <3> QED
      BY <3>1
  <2>2. CASE pendingCount # 0
    <3>1. staging[OldestSlot] = returned + 1
      BY <1>3, <2>2, OldestSlotHoldsOldest DEF Flush
    <3>2. Pipe!Leave
      BY <1>3, <2>2, <3>1 DEF Flush, ReadStaging, RingInv, Pipe!Leave
    <3> QED
      BY <3>2
  <2> QED
    BY <2>1, <2>2
<1>4. CASE ReadbackFails
  <2>1. Pipe!Abandon
    BY <1>4 DEF ReadbackFails, gpuVars, Pipe!Abandon
  <2> QED
    BY <2>1
<1>5. CASE GpuFinishes
  BY <1>5 DEF GpuFinishes
<1>6. CASE UNCHANGED vars
  BY <1>6 DEF vars, gpuVars
<1> QED
  BY <1>1, <1>2, <1>3, <1>4, <1>5, <1>6 DEF Next

\* Frames come back from the ring in order, once each, none skipped, never
\* more than three inside, and a flush that ends leaves none behind.
THEOREM Refinement == Spec => IsFramePipe
<1>1. Init => Pipe!Init
  BY DEF Init, None, Pipe!Init
<1> QED
  BY <1>1, StepRefines, RingInvariant, PTL DEF Spec, IsFramePipe, Pipe!Spec
=============================================================================
