---------------------------- MODULE Nv12Readback ----------------------------
(***************************************************************************)
(* Nv12Converter: the GPU converts frame after frame into a ring of three  *)
(* staging buffers while the CPU reads the one written two frames ago.     *)
(* RgbaReadback runs the same ring for RGBA output.                        *)
(*                                                                         *)
(* The contents of a staging buffer are the number of the frame last       *)
(* submitted to it. The GPU works in submission order and lags behind.     *)
(***************************************************************************)
EXTENDS Integers

CONSTANT MaxFrames      \* bound: frames submitted

VARIABLES
    submitted,      \* frames submitted to the GPU
    gpuDone,        \* frames the GPU has finished
    staging,        \* nv12_staging_buffers
    currentSlot,    \* current_slot
    pendingCount,   \* pending_count
    call,           \* "convert" between the submit and readback of a call
    returned,       \* the last frame returned to the caller, None before
    state           \* "open"; "flushed" or "failed" once the caller is done

gpuVars == <<submitted, gpuDone, staging>>
vars == <<gpuVars, currentSlot, pendingCount, call, returned, state>>

------------------------------------------------------------------------------
None == -1

Slots == 0 .. 2

Init ==
    /\ submitted = 0
    /\ gpuDone = 0
    /\ staging = [s \in Slots |-> None]
    /\ currentSlot = 0
    /\ pendingCount = 0
    /\ call = "none"
    /\ returned = None
    /\ state = "open"

\* The GPU finishes the next frame, and its copy to the staging buffer.
GpuFinishes ==
    /\ gpuDone < submitted
    /\ gpuDone' = gpuDone + 1
    /\ UNCHANGED <<submitted, staging, currentSlot, pendingCount, call,
                   returned, state>>

\* pending_count and current_slot after a frame went through.
Advance ==
    /\ pendingCount' = IF pendingCount + 1 < 2 THEN pendingCount + 1 ELSE 2
    /\ currentSlot' = (currentSlot + 1) % 3

\* convert_and_readback up to the submit. The first two calls have nothing
\* to read back and end here.
Submit ==
    /\ state = "open" /\ call = "none"
    /\ submitted < MaxFrames
    /\ staging' = [staging EXCEPT ![currentSlot] = submitted]
    /\ submitted' = submitted + 1
    /\ IF pendingCount >= 2
       THEN call' = "convert" /\ UNCHANGED <<pendingCount, currentSlot>>
       ELSE Advance /\ UNCHANGED call
    /\ UNCHANGED <<gpuDone, returned, state>>

\* Mutant of ReadStaging: trusts that a frame two submits old is finished.
ReadStagingUnpolled(slot) ==
    /\ returned' = staging[slot]
    /\ UNCHANGED gpuVars

\* The map completes on the first poll, or the CPU waits for all GPU work.
ReadStaging(slot) ==
    /\ returned' = staging[slot]
    /\ gpuDone' = IF staging[slot] < gpuDone THEN gpuDone ELSE submitted
    /\ UNCHANGED <<submitted, staging>>

\* Mutant of ReadSlot: current_slot taken as already advanced.
ReadSlotAfterAdvance == (currentSlot + 2) % 3

ReadSlot == (currentSlot + 1) % 3

\* convert_and_readback from the readback on.
Readback ==
    /\ call = "convert"
    /\ ReadStaging(ReadSlot)
    /\ Advance
    /\ call' = "none"
    /\ UNCHANGED state

OldestSlot == (currentSlot + 3 - pendingCount) % 3

\* flush_pending, called until it returns None.
Flush ==
    /\ state = "open" /\ call = "none"
    /\ IF pendingCount = 0
       THEN state' = "flushed" /\ UNCHANGED <<gpuVars, pendingCount, returned>>
       ELSE /\ ReadStaging(OldestSlot)
            /\ pendingCount' = pendingCount - 1
            /\ UNCHANGED state
    /\ UNCHANGED <<currentSlot, call>>

\* A map or a device poll fails: every caller gives up on the first error.
ReadbackFails ==
    /\ state = "open" /\ pendingCount > 0
    /\ state' = "failed"
    /\ call' = "none"
    /\ UNCHANGED <<gpuVars, currentSlot, pendingCount, returned>>

Next == Submit \/ Readback \/ Flush \/ ReadbackFails \/ GpuFinishes

Spec == Init /\ [][Next]_vars

------------------------------------------------------------------------------
(* Properties *)

TypeOK ==
    /\ submitted \in Nat
    /\ gpuDone \in 0 .. submitted
    /\ staging \in [Slots -> Nat \cup {None}]
    /\ currentSlot \in Slots
    /\ pendingCount \in 0 .. 2
    /\ call \in {"none", "convert"}
    /\ returned \in Nat \cup {None}
    /\ state \in {"open", "flushed", "failed"}

\* However converts and flushes follow one another, and whenever the GPU gets
\* its work done, the caller never gets pixels the GPU has not finished.
ReturnsFinishedFrames == returned < gpuDone

\* The ring is a frame pipe of three frames.
Pipe == INSTANCE FramePipe WITH
    Capacity <- 3,
    entered  <- submitted,
    out      <- returned,
    state    <- IF state = "open" THEN "open"
                ELSE IF state = "flushed" THEN "drained"
                ELSE "abandoned"

\* Every frame comes back, in order and once, though the calls that return it
\* are two frames late and a different call (flush_pending) returns the last
\* ones; and flush_pending says None only when nothing is left.
IsFramePipe == Pipe!Spec
==============================================================================
