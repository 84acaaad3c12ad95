------------------------------ MODULE CliPreview ------------------------------
(***************************************************************************)
(* The command line's preview window: keys, redraws and about_to_wait of   *)
(* one winit event loop, over the same source as the desktop's player.     *)
(*                                                                         *)
(* One turn of the loop handles the events that wait, then the redraw that *)
(* was requested, then about_to_wait; with ControlFlow::Wait the loop      *)
(* sleeps until the next event or requested redraw. The source is what     *)
(* module FilePlayback shows of it: a call returns, with the pair of its   *)
(* number or at the end. The mouse, the wheel and the other keys change    *)
(* the pose or the calibration.                                            *)
(***************************************************************************)
EXTENDS Integers, FiniteSetsExt

CONSTANTS
    Pairs,          \* pairs the source delivers
    TotalPairs,     \* total_frames, which counts pairs the offset leaves out
    SkipCount,      \* FRAME_SKIP_COUNT
    SeekStep        \* frames in SEEK_STEP_SECS

CliPreviewAssumption ==
    /\ Pairs \in Nat /\ TotalPairs \in Nat /\ Pairs <= TotalPairs
    /\ SkipCount \in Nat \ {0} /\ SeekStep \in Nat \ {0}

VARIABLES
    loop,           \* in its "events", at the "end" of a turn, "asleep" or "gone"
    flow,           \* ControlFlow
    frameCount,     \* frame_count: the pair after the one in current_left/right
    playing,        \* playing
    presented,      \* the current pair has been on screen
    needsRedraw,    \* needs_redraw
    requested,      \* request_redraw was called
    smoothing,      \* the pose has not reached its target
    pendingSeek,    \* pending_seek, or None
    held,           \* a key is down
    interrupted,    \* the flag of the Ctrl-C handler
    surfaceFailed,  \* a redraw was lost to the surface or the renderer
    recording,      \* recording.is_some()
    ring,           \* frames in the readback ring
    readbackFailed  \* a readback failed

pictureVars == <<frameCount, playing, presented>>
drawVars == <<needsRedraw, requested, smoothing>>
recordVars == <<recording, ring, readbackFailed>>
previewVars == <<loop, flow, pictureVars, drawVars, pendingSeek, held, interrupted,
                 surfaceFailed, recordVars>>

------------------------------------------------------------------------------
None == -1

\* run_preview with the first pair, and resumed; the window system asks for the
\* first picture.
Init ==
    /\ loop = "events" /\ flow = "Wait"
    /\ frameCount = 1 /\ playing = FALSE /\ presented = FALSE
    /\ needsRedraw = TRUE /\ requested = TRUE /\ smoothing = FALSE
    /\ pendingSeek = None
    /\ held = FALSE /\ interrupted = FALSE /\ surfaceFailed = FALSE
    /\ recording = FALSE /\ ring = 0 /\ readbackFailed = FALSE

\* n times step_frame: the last pair there is. Playing ends at the end.
Steps(n) ==
    IF frameCount < Pairs
    THEN /\ frameCount' = Min({frameCount + n, Pairs})
         /\ presented' = FALSE /\ needsRedraw' = TRUE
    ELSE UNCHANGED <<frameCount, presented, needsRedraw>>

------------------------------------------------------------------------------
(* Recording *)

\* Mutant of StopRecording: flushes once.
StopRecordingOnce ==
    /\ recording' = FALSE
    /\ ring' = IF ring = 0 THEN 0 ELSE ring - 1
    /\ UNCHANGED readbackFailed

\* stop_recording: what is in the ring is flushed into the file, unless a
\* flush fails.
StopRecording ==
    /\ recording' = FALSE
    /\ \/ ring' = 0 /\ UNCHANGED readbackFailed
       \/ ring > 0 /\ ring' \in 1 .. ring /\ readbackFailed' = TRUE

StopIfRecording == IF recording THEN StopRecording ELSE UNCHANGED recordVars

\* A frame enters the ring; from the third on one comes out for the encoder,
\* which refuses it, or the readback fails: each of the two stops the recording.
Record ==
    \/ ring' = Min({ring + 1, 2}) /\ UNCHANGED <<recording, readbackFailed>>
    \/ ring = 2 /\ StopRecording
    \/ /\ recording' = FALSE /\ readbackFailed' = TRUE
       /\ ring' \in 0 .. ring

------------------------------------------------------------------------------
(* window_event *)

Event == loop \in {"events", "asleep"}

\* The end of the handler: a redraw is requested if one is needed.
Handled ==
    /\ loop' = "events"
    /\ requested' = (requested \/ needsRedraw')
    /\ UNCHANGED <<interrupted, surfaceFailed>>

\* A key went down; its release will be an event, too.
Press == Event /\ held' = TRUE

KeyUp ==
    /\ Event /\ held
    /\ held' = FALSE
    /\ UNCHANGED <<flow, pictureVars, needsRedraw, smoothing, pendingSeek, recordVars>>
    /\ Handled

\* Arrows, zoom and calibration keys.
Adjust ==
    /\ Press
    /\ needsRedraw' = TRUE /\ smoothing' \in {TRUE, smoothing}
    /\ UNCHANGED <<flow, pictureVars, pendingSeek, recordVars>>
    /\ Handled

\* The left button released after a drag: the loop polled while it lasted.
Drag ==
    /\ Event
    /\ smoothing' = TRUE
    /\ flow' = IF playing THEN flow ELSE "Wait"
    /\ UNCHANGED <<pictureVars, needsRedraw, pendingSeek, held, recordVars>>
    /\ Handled

Space ==
    /\ Press
    /\ playing' = ~playing
    /\ flow' = IF playing THEN "Wait" ELSE "Poll"
    /\ UNCHANGED <<frameCount, presented, needsRedraw, smoothing, pendingSeek, recordVars>>
    /\ Handled

\* N: one step. The control flow stays.
StepKey ==
    /\ Press
    /\ Steps(1)
    /\ playing' = FALSE
    /\ UNCHANGED <<flow, smoothing, pendingSeek, recordVars>>
    /\ Handled

\* P: playing goes on.
SkipKey ==
    /\ Press
    /\ Steps(SkipCount)
    /\ playing' = (playing /\ frameCount + SkipCount <= Pairs)
    /\ UNCHANGED <<flow, smoothing, pendingSeek, recordVars>>
    /\ Handled

SeekBase == IF pendingSeek = None THEN frameCount ELSE pendingSeek

\* The brackets and Home: presses add up until about_to_wait.
SeekKey ==
    /\ Press
    /\ pendingSeek' \in {0, Max({0, SeekBase - SeekStep}),
                         Min({SeekBase + SeekStep, TotalPairs})}
    /\ UNCHANGED <<flow, pictureVars, needsRedraw, smoothing, recordVars>>
    /\ Handled

\* R; an encoder that cannot be opened leaves things as they are.
RecordKey ==
    /\ Press
    /\ IF recording THEN StopRecording
       ELSE recording' = TRUE /\ UNCHANGED <<ring, readbackFailed>>
    /\ UNCHANGED <<flow, pictureVars, needsRedraw, smoothing, pendingSeek>>
    /\ Handled

\* The file is finalized and the source dropped; the loop exits.
Exit ==
    /\ StopIfRecording
    /\ loop' = "gone"
    /\ UNCHANGED <<flow, pictureVars, drawVars, pendingSeek, held, interrupted,
                   surfaceFailed>>

\* Q, Escape and the close button.
Quit == Event /\ Exit

\* RedrawRequested: nothing to do, a frame presented, or a surface that fails,
\* which forgets that a redraw was needed.
Redraw ==
    /\ loop = "events" /\ requested
    /\ loop' = "end"
    /\ requested' = FALSE /\ needsRedraw' = FALSE
    /\ smoothing' \in {FALSE, smoothing}
    /\ IF needsRedraw \/ smoothing \/ playing
       THEN \/ /\ presented' = TRUE
               /\ IF recording THEN Record ELSE UNCHANGED recordVars
               /\ UNCHANGED surfaceFailed
            \/ surfaceFailed' = TRUE /\ UNCHANGED <<presented, recordVars>>
       ELSE UNCHANGED <<presented, surfaceFailed, recordVars>>
    /\ UNCHANGED <<flow, frameCount, playing, pendingSeek, held, interrupted>>

------------------------------------------------------------------------------
(* about_to_wait *)

Seeking == pendingSeek # None

\* seek_to finds a pair at its target.
Found == Seeking /\ pendingSeek < Pairs

\* frame_count after the seek that the key presses added up to.
Position == IF ~Seeking THEN frameCount
            ELSE IF Found THEN pendingSeek + 1 ELSE pendingSeek

\* The seek, then advance_frame when playing: the next pair, if there is one by
\* now; the end of the source is not told from a slow decoder.
Advance ==
    /\ playing' = (playing /\ (Seeking => Found))
    /\ \/ /\ playing' /\ Position < Pairs
          /\ frameCount' = Position + 1
          /\ presented' = FALSE /\ needsRedraw' = TRUE
       \/ /\ frameCount' = Position
          /\ presented' = (presented /\ ~Found)
          /\ needsRedraw' = (needsRedraw \/ Seeking)
    /\ pendingSeek' = None

\* Mutant of Interrupted: looked at only while playing.
InterruptedPlaying == interrupted /\ playing

Interrupted == interrupted

\* A playing preview and a moving pose ask for a redraw; any other loop sleeps
\* if it may.
AboutToWait ==
    /\ loop = "end" \/ (loop = "events" /\ ~requested)
    /\ IF Interrupted THEN Exit
       ELSE /\ Advance
            /\ requested' = (playing' \/ smoothing)
            /\ loop' = IF requested' \/ flow = "Poll" THEN "events" ELSE "asleep"
            /\ UNCHANGED <<flow, smoothing, held, interrupted, surfaceFailed, recordVars>>

\* Ctrl-C, on a thread of its own: the loop is not woken.
Interrupt ==
    /\ ~interrupted /\ loop # "gone"
    /\ interrupted' = TRUE
    /\ UNCHANGED <<loop, flow, pictureVars, drawVars, pendingSeek, held, surfaceFailed,
                   recordVars>>

User ==
    \/ Adjust \/ Drag \/ Space \/ StepKey \/ SkipKey \/ SeekKey \/ RecordKey \/ Quit
    \/ Interrupt

Next == User \/ KeyUp \/ Redraw \/ AboutToWait

Spec == Init /\ [][Next]_previewVars

\* The loop runs, and a key that went down comes up; nothing else obliges the
\* user.
FairSpec ==
    /\ Spec
    /\ WF_previewVars(Redraw \/ AboutToWait) /\ WF_previewVars(KeyUp)

------------------------------------------------------------------------------
(* Properties *)

TypeOK ==
    /\ loop \in {"events", "end", "asleep", "gone"} /\ flow \in {"Wait", "Poll"}
    /\ frameCount \in Nat /\ pendingSeek \in 0 .. TotalPairs \cup {None}
    /\ ring \in 0 .. 2
    /\ {playing, presented, needsRedraw, requested, smoothing, held, interrupted,
        surfaceFailed, recording, readbackFailed} \subseteq BOOLEAN

\* Recordings do not mix, whichever way one stops (key, quit, Ctrl-C, refusal
\* of its encoder): the readback ring is empty between them, so the frames of
\* a recording are all in its file and no other is.
RecordingsApart == ~recording /\ ~readbackFailed => ring = 0

\* Ctrl-C finalizes the recording and closes the window of a loop that polls,
\* even if N or a seek stopped the playing.
InterruptHeard == interrupted /\ flow = "Poll" ~> loop = "gone"

\* A picture that was stepped, played or sought to is on screen in the end.
SeekIsShown == ~presented ~> presented \/ surfaceFailed \/ loop = "gone"
==============================================================================
