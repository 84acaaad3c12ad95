---------------------------- MODULE SessionOutput ----------------------------
(***************************************************************************)
(* The output side of StitchSession: submit_render_output sends a frame    *)
(* through the NV12 readback ring and hands the frame that comes out, two  *)
(* renders late, to one encode thread after the other; finish flushes the  *)
(* ring and shuts the threads down in the same order.                      *)
(*                                                                         *)
(* The ring is module Nv12Readback. An encode thread is what AsyncEncode   *)
(* promises of it: it takes frames in order until it dies, and its finish  *)
(* succeeds only with all of them written.                                 *)
(***************************************************************************)
EXTENDS Integers, Sequences

CONSTANTS
    Outputs,        \* encoders: the primary is 1, the extras follow
    MaxFrames       \* bound: frames rendered

SessionOutputAssumption == Outputs \in Nat \ {0} /\ MaxFrames \in Nat

VARIABLES
    submitted, gpuDone, staging, currentSlot, pendingCount, call, returned,
    state,          \* the ring
    session,        \* where the caller stands with the session
    handing,        \* the encoder the returned frame goes to next, 0 if none
    frameCount,     \* frame_count
    sent,           \* encoder -> the <<frame, pts>> its submit accepted
    alive,          \* encoder -> its thread has not failed
    written         \* encoder -> "open", "final" or "lost": the output file

ringVars == <<submitted, gpuDone, staging, currentSlot, pendingCount, call,
              returned, state>>
encoderVars == <<sent, alive, written>>
vars == <<ringVars, session, handing, frameCount, encoderVars>>

Ring == INSTANCE Nv12Readback

Encoders == 1 .. Outputs

Init ==
    /\ Ring!Init
    /\ session = "running"
    /\ handing = 0
    /\ frameCount = 0
    /\ sent = [e \in Encoders |-> <<>>]
    /\ alive = [e \in Encoders |-> TRUE]
    /\ written = [e \in Encoders |-> "open"]

------------------------------------------------------------------------------
\* submit_render_output: convert. The first two calls return no data and only
\* count the frame.
Render ==
    /\ session = "running" /\ handing = 0
    /\ Ring!Submit
    /\ frameCount' = IF call' = "none" THEN frameCount + 1 ELSE frameCount
    /\ UNCHANGED <<session, handing, encoderVars>>

Readback ==
    /\ Ring!Readback
    /\ handing' = 1
    /\ UNCHANGED <<session, frameCount, encoderVars>>

\* The ring reports an error, in submit_render_output or in finish.
ReadbackFails ==
    /\ handing = 0
    /\ call = "convert" \/ session = "finishing"
    /\ Ring!ReadbackFails
    /\ session' = "error"
    /\ UNCHANGED <<handing, frameCount, encoderVars>>

Accept(e) ==
    /\ alive[e]
    /\ sent' = [sent EXCEPT ![e] =
                    Append(@, [frame |-> returned, pts |-> frameCount])]
    /\ IF e < Outputs
       THEN handing' = e + 1 /\ UNCHANGED frameCount
       ELSE handing' = 0 /\ frameCount' = frameCount + 1
    /\ UNCHANGED session

\* Mutant of Refuse: a dead encoder is passed over.
RefusePassing(e) ==
    /\ ~alive[e]
    /\ handing' = IF e < Outputs THEN e + 1 ELSE 0
    /\ UNCHANGED <<session, frameCount, sent>>

\* The error of the first dead encoder ends the call: the encoders after it
\* do not get this frame, and frame_count does not count it.
Refuse(e) ==
    /\ ~alive[e]
    /\ session' = "error"
    /\ handing' = 0
    /\ UNCHANGED <<frameCount, sent>>

\* encoder.submit(data, frame_count), for the primary and then each extra.
Hand ==
    /\ handing # 0
    /\ Accept(handing) \/ Refuse(handing)
    /\ UNCHANGED <<ringVars, alive, written>>

\* run returns and the caller calls finish.
BeginFinish ==
    /\ session = "running" /\ handing = 0 /\ call = "none"
    /\ session' = "finishing"
    /\ UNCHANGED <<ringVars, handing, frameCount, encoderVars>>

\* Mutant of FlushPending: one frame is flushed, whatever is pending.
FlushPendingOnce ==
    /\ session = "finishing" /\ handing = 0
    /\ Ring!Flush
    /\ session' = "closing"
    /\ UNCHANGED <<handing, frameCount, encoderVars>>

\* One flush_pending of finish: a frame to hand over, or None.
FlushPending ==
    /\ session = "finishing" /\ handing = 0
    /\ Ring!Flush
    /\ IF state' = "flushed"
       THEN session' = "closing" /\ UNCHANGED handing
       ELSE handing' = 1 /\ UNCHANGED session
    /\ UNCHANGED <<frameCount, encoderVars>>

NextOpen == CHOOSE e \in Encoders :
                written[e] = "open" /\ \A d \in 1 .. e - 1 : written[d] # "open"

\* encoder.finish joins the thread, which has written all it was sent if it
\* is still alive. The first error skips the finish of the encoders after it.
FinishEncoder ==
    /\ session = "closing"
    /\ written' = [written EXCEPT ![NextOpen] =
                       IF alive[NextOpen] THEN "final" ELSE "lost"]
    /\ session' = IF ~alive[NextOpen] THEN "error"
                  ELSE IF \A e \in Encoders : written'[e] = "final" THEN "ok"
                  ELSE "closing"
    /\ UNCHANGED <<ringVars, handing, frameCount, sent, alive>>

\* After an error the session is dropped: each encode thread still open
\* writes what it was sent, and its result is discarded.
DropSession ==
    /\ session = "error"
    /\ session' = "dropped"
    /\ written' = [e \in Encoders |->
                       IF written[e] # "open" THEN written[e]
                       ELSE IF alive[e] THEN "final" ELSE "lost"]
    /\ UNCHANGED <<ringVars, handing, frameCount, sent, alive>>

------------------------------------------------------------------------------
EncoderDies ==
    /\ \E e \in Encoders :
           /\ alive[e] /\ written[e] = "open"
           /\ alive' = [alive EXCEPT ![e] = FALSE]
    /\ UNCHANGED <<ringVars, session, handing, frameCount, sent, written>>

GpuFinishes ==
    /\ Ring!GpuFinishes
    /\ UNCHANGED <<session, handing, frameCount, encoderVars>>

Finishing == FlushPending \/ Hand \/ FinishEncoder \/ DropSession

Next ==
    \/ Render \/ Readback \/ ReadbackFails \/ BeginFinish \/ Finishing
    \/ EncoderDies \/ GpuFinishes

Spec == Init /\ [][Next]_vars

------------------------------------------------------------------------------
(* Properties *)

TypeOK ==
    /\ Ring!TypeOK
    /\ session \in {"running", "finishing", "closing", "ok", "error", "dropped"}
    /\ handing \in 0 .. Outputs
    /\ frameCount \in Nat
    /\ sent \in [Encoders -> Seq([frame : Nat, pts : Nat])]
    /\ alive \in [Encoders -> BOOLEAN]
    /\ written \in [Encoders -> {"open", "final", "lost"}]

\* The outputs agree: each holds the first frames rendered, none skipped, and
\* no output is more than one frame behind one that comes before it, whichever
\* of them dies when.
OutputsAgree ==
    /\ \A e \in Encoders : \A k \in DOMAIN sent[e] : sent[e][k].frame = k - 1
    /\ \A d, e \in Encoders :
           d < e => Len(sent[d]) - Len(sent[e]) \in {0, 1}

\* finish returning Ok means every frame rendered is in every output.
OkMeansWhole ==
    session = "ok" =>
        \A e \in Encoders : written[e] = "final" /\ Len(sent[e]) = submitted

\* The timestamps advance by one a frame, also from the last frame encoded
\* during the run to the first one flushed by finish.
EvenPts ==
    \A e \in Encoders : \A k \in 2 .. Len(sent[e]) :
        sent[e][k].pts = sent[e][k - 1].pts + 1

\* Whenever the GPU gets its work done, during the run and while finish
\* flushes, no encoder is handed pixels the GPU has not finished.
ReturnsFinishedFrames == Ring!ReturnsFinishedFrames

\* As this session drives it, the ring is a frame pipe of three frames.
IsFramePipe == Ring!IsFramePipe
=============================================================================
