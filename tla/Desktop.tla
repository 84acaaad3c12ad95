------------------------------- MODULE Desktop -------------------------------
(***************************************************************************)
(* The desktop application: one UI thread with the user's callbacks and a  *)
(* timer, a calibration thread, an export thread and a recording thread.   *)
(* The workers answer over channels that the timer polls; by then the user *)
(* may have changed what they were started for.                            *)
(*                                                                         *)
(* An input is the sequence of its segments. A calibration is the pair of  *)
(* first segments it was computed for, or Picked.                          *)
(***************************************************************************)
EXTENDS Naturals, Sequences, SequencesExt

CONSTANTS
    Segments,       \* per camera: the video files the user may pick
    Unreadable,     \* those that cannot be opened
    Nothing,        \* model value: no file, preview or job
    Picked,         \* model value: a calibration picked from a file
    MaxChain,       \* bound, per camera: segments in an input
    MaxRecordings   \* bound: recordings started

Sides == {"left", "right"}

AllSegments == UNION {Segments[e] : e \in Sides}

Answers == {Nothing, "ok", "failed"}

Calibrations == [Sides -> AllSegments] \cup {Picked}

\* The jobs of the calibration thread, and the previews.
Jobs == [first : [Sides -> AllSegments], answer : Answers]

Bridges ==
    [source : [Sides -> Seq(AllSegments)], cal : Calibrations, ring : Seq(Nat)]

DesktopAssumption ==
    /\ DOMAIN Segments = Sides
    /\ MaxChain \in [Sides -> Nat \ {0}] /\ MaxRecordings \in Nat
    /\ Nothing \notin Jobs \cup Bridges \cup Calibrations \cup {"ok", "failed", "running", "returned"}

VARIABLES
    input,          \* left_input, right_input: <<>> when none is selected
    calPath,        \* what calibration_path holds
    calibration,    \* calibration
    bridge,         \* the preview: what it plays, and its readback ring
    filesLoaded,    \* files-loaded, which enables the controls
    reopening,      \* a reordered input waits for reopen_source
    calibrating,    \* calibrating, which disables the calibration button
    calJob,         \* cal_rx and the thread behind it
    exportJob,      \* export_rx, export_thread
    recording,      \* the number of the recording under way, or 0
    recordings,     \* recordings started
    handed          \* the frame the encoder got last: in whose file, from whose time

fileState == <<input, calPath, calibration, filesLoaded, reopening>>
jobState == <<calibrating, calJob, exportJob>>
recordState == <<recording, recordings, handed>>
desktopVars == <<fileState, bridge, jobState, recordState>>

------------------------------------------------------------------------------
NoInput == <<>>
Exporting == exportJob # Nothing
HasBoth(i) == \A e \in Sides : i[e] # NoInput
Opens(i) == \A e \in Sides : ToSet(i[e]) \cap Unreadable = {}

NewBridge(i, cal) == [source |-> i, cal |-> cal, ring |-> <<>>]

Init ==
    /\ input = [e \in Sides |-> NoInput]
    /\ calPath = Nothing
    /\ calibration = Nothing
    /\ bridge = Nothing
    /\ filesLoaded = FALSE
    /\ reopening = FALSE
    /\ calibrating = FALSE
    /\ calJob = Nothing
    /\ exportJob = Nothing
    /\ recording = 0
    /\ recordings = 0
    /\ handed = [file |-> 0, from |-> 0]

------------------------------------------------------------------------------
(* Files *)

StopRecording == recording' = 0

\* try_init_and_update after the files are i and the calibration path is c;
\* old is the bridge that was kept.
TryInit(i, c, old) ==
    IF ~HasBoth(i) \/ c = Nothing
    THEN bridge' = old /\ UNCHANGED calibration
    ELSE IF Opens(i)
         THEN bridge' = NewBridge(i, c) /\ calibration' = c
         ELSE bridge' = old /\ UNCHANGED calibration

\* files-loaded after unloading (when unload) and try_init_and_update.
LoadedAfter(i, c, unload) ==
    filesLoaded' = IF HasBoth(i) /\ c # Nothing THEN Opens(i) ELSE filesLoaded /\ ~unload

\* A video slot gets a new input; a preview of another one is unloaded first.
ChangeInput(e, new, changed) ==
    LET unload == changed /\ bridge # Nothing IN
    /\ input' = [input EXCEPT ![e] = new]
    /\ TryInit(input', calPath, IF unload THEN Nothing ELSE bridge)
    /\ LoadedAfter(input', calPath, unload)
    /\ IF unload THEN StopRecording ELSE UNCHANGED recording
    /\ UNCHANGED <<calPath, reopening, jobState, recordings, handed>>

\* on_pick_left_video, on_pick_right_video: appended to what is selected.
PickVideo(e) ==
    /\ Len(input[e]) < MaxChain[e]
    /\ \E s \in Segments[e] : ChangeInput(e, Append(input[e], s), input[e] = NoInput)

\* on_load_recent_left, on_load_recent_right: replaces what is selected.
LoadRecent(e) ==
    \E s \in Segments[e] :
        ChangeInput(e, <<s>>, input[e] = NoInput \/ Head(input[e]) # s)

\* on_pick_calibration, on_load_recent_calibration.
PickCalibration ==
    LET unload == calPath # Picked /\ bridge # Nothing IN
    /\ calPath' = Picked
    /\ TryInit(input, Picked, IF unload THEN Nothing ELSE bridge)
    /\ LoadedAfter(input, Picked, unload)
    /\ IF unload THEN StopRecording ELSE UNCHANGED recording
    /\ UNCHANGED <<input, reopening, jobState, recordings, handed>>

\* unload_pipeline when there is a bridge. The calibration stays.
Unload ==
    /\ bridge' = Nothing
    /\ IF bridge # Nothing THEN StopRecording ELSE UNCHANGED recording

\* Mutant of RemoveSegments: the preview goes on with the removed segment.
RemoveSegmentsQuietly(e, new) ==
    /\ input' = [input EXCEPT ![e] = new]
    /\ UNCHANGED <<calPath, calibration, filesLoaded, bridge, reopening, jobState,
                   recordState>>

\* A slot loses segments: the preview is unloaded, nothing is reloaded.
RemoveSegments(e, new) ==
    /\ input' = [input EXCEPT ![e] = new]
    /\ Unload
    /\ filesLoaded' = FALSE
    /\ UNCHANGED <<calPath, calibration, reopening, jobState, recordings, handed>>

\* on_clear_left, on_clear_right.
ClearVideo(e) == input[e] # NoInput /\ RemoveSegments(e, NoInput)

\* on_remove_left_segment, on_remove_right_segment.
RemoveSegment(e) ==
    \E k \in DOMAIN input[e] : RemoveSegments(e, RemoveAt(input[e], k))

ClearCalibration ==
    /\ calPath' = Nothing /\ calibration' = Nothing
    /\ Unload
    /\ filesLoaded' = FALSE
    /\ UNCHANGED <<input, reopening, jobState, recordings, handed>>

\* on_reorder_left_segment, on_reorder_right_segment: a segment is moved; the
\* source is opened again 40 ms later.
Reorder(e) ==
    /\ \E i, j \in DOMAIN input[e] :
           /\ i # j
           /\ input' = [input EXCEPT ![e] = InsertAt(RemoveAt(@, i), j, @[i])]
    /\ reopening' = TRUE
    /\ UNCHANGED <<calPath, calibration, filesLoaded, bridge, jobState, recordState>>

\* reopen_source: the bridge and its readback ring stay.
ReopenSource ==
    /\ reopening
    /\ reopening' = FALSE
    /\ bridge' = IF bridge # Nothing /\ HasBoth(input) /\ Opens(input)
                 THEN [bridge EXCEPT !.source = input] ELSE bridge
    /\ UNCHANGED <<input, calPath, calibration, filesLoaded, jobState, recordState>>

Files ==
    \/ PickCalibration \/ ClearCalibration
    \/ \E e \in Sides : \/ PickVideo(e) \/ LoadRecent(e) \/ ClearVideo(e)
                        \/ RemoveSegment(e) \/ Reorder(e)

------------------------------------------------------------------------------
(* Calibration *)

\* on_auto_calibrate; the button is disabled while calibrating.
AutoCalibrate ==
    /\ ~calibrating /\ HasBoth(input)
    /\ calibrating' = TRUE
    /\ calJob' = [first |-> [e \in Sides |-> Head(input[e])], answer |-> Nothing]
    /\ UNCHANGED <<fileState, bridge, exportJob, recordState>>

CalibrationReturns ==
    /\ calJob # Nothing /\ calJob.answer = Nothing
    /\ \E a \in {"ok", "failed"} : calJob' = [calJob EXCEPT !.answer = a]
    /\ UNCHANGED <<fileState, bridge, calibrating, exportJob, recordState>>

\* init_with_calibration.
InitWith(cal) ==
    IF HasBoth(input) /\ Opens(input)
    THEN bridge' = NewBridge(input, cal) /\ calibration' = cal
    ELSE UNCHANGED <<bridge, calibration>>

\* handle_calibration_result: the preview is built from the files selected
\* now, and the calibration saved beside the left one, which may fail; after
\* a failed calibration the preview is unloaded.
CalibrationResult ==
    /\ calJob # Nothing /\ calJob.answer # Nothing
    /\ calJob' = Nothing
    /\ calibrating' = FALSE
    /\ \/ /\ calJob.answer = "ok"
          /\ InitWith(calJob.first)
          /\ IF HasBoth(input) /\ Opens(input)
             THEN filesLoaded' = TRUE /\ calPath' \in {calPath, calJob.first}
             ELSE UNCHANGED <<filesLoaded, calPath>>
          /\ UNCHANGED recording
       \/ /\ calJob.answer = "failed"
          /\ bridge' = Nothing /\ StopRecording
          /\ filesLoaded' = FALSE
          /\ UNCHANGED <<calPath, calibration>>
    /\ UNCHANGED <<input, reopening, exportJob, recordings, handed>>

------------------------------------------------------------------------------
(* Export *)

\* on_start_export: the preview's pipeline is released for the run. The files and
\* the calibration are copied into the job.
StartExport ==
    /\ ~Exporting
    /\ HasBoth(input) /\ calibration # Nothing
    /\ exportJob' = "running"
    /\ bridge' = Nothing
    /\ UNCHANGED <<fileState, calibrating, calJob, recordState>>

\* run_export returns: done, failed or cancelled.
ExportReturns ==
    /\ exportJob = "running"
    /\ exportJob' = "returned"
    /\ UNCHANGED <<fileState, bridge, calibrating, calJob, recordState>>

\* Mutant of ExportOutcome: the thread's handle is dropped with the preview.
ExportOutcomeOfLoaded ==
    /\ exportJob = "returned"
    /\ filesLoaded
    /\ exportJob' = Nothing
    /\ InitWith(calibration)
    /\ UNCHANGED <<input, calPath, filesLoaded, reopening, calibrating, calJob, recordState>>

\* The timer takes the outcome and rebuilds the preview, on any outcome.
ExportOutcome ==
    /\ exportJob = "returned"
    /\ exportJob' = Nothing
    /\ IF calibration # Nothing THEN InitWith(calibration) ELSE UNCHANGED <<bridge, calibration>>
    /\ UNCHANGED <<input, calPath, filesLoaded, reopening, calibrating, calJob, recordState>>

------------------------------------------------------------------------------
(* Recording *)

\* start_recording; the button needs loaded files and no export.
StartRecording ==
    /\ recording = 0 /\ filesLoaded /\ ~Exporting /\ bridge # Nothing
    /\ recordings < MaxRecordings
    /\ recordings' = recordings + 1
    /\ recording' = recordings'
    /\ UNCHANGED <<fileState, bridge, jobState, handed>>

\* render_current while recording: the frame goes into the readback ring, and
\* the one of two renders ago comes out for the encoder, which takes it unless
\* its queue is full.
RenderRecording ==
    /\ recording > 0 /\ bridge # Nothing /\ ~Exporting
    /\ IF Len(bridge.ring) < 2
       THEN /\ bridge' = [bridge EXCEPT !.ring = Append(@, recording)]
            /\ UNCHANGED handed
       ELSE /\ bridge' = [bridge EXCEPT !.ring = Append(Tail(@), recording)]
            /\ handed' \in {handed, [file |-> recording, from |-> Head(bridge.ring)]}
    /\ UNCHANGED <<fileState, jobState, recording, recordings>>

\* on_toggle_recording, stopping: stop_recording joins the thread. The ring
\* keeps its two frames.
ToggleOff ==
    /\ recording > 0 /\ filesLoaded /\ ~Exporting
    /\ StopRecording
    /\ UNCHANGED <<fileState, bridge, jobState, recordings, handed>>

------------------------------------------------------------------------------
Timer == ReopenSource \/ CalibrationResult \/ ExportOutcome
Workers == CalibrationReturns \/ ExportReturns

Next ==
    \/ Files \/ AutoCalibrate \/ StartExport \/ StartRecording \/ ToggleOff
    \/ RenderRecording \/ Timer \/ Workers

Spec == Init /\ [][Next]_desktopVars

\* The threads return and the timer ticks; nothing obliges the user.
FairSpec ==
    /\ Spec
    /\ WF_desktopVars(CalibrationReturns) /\ WF_desktopVars(ExportReturns)
    /\ WF_desktopVars(CalibrationResult) /\ WF_desktopVars(ExportOutcome)

------------------------------------------------------------------------------
(* Properties *)

Previews ==
    [source : [Sides -> Seq(UNION {Segments[e] : e \in Sides})], ring : Seq(1 .. recordings)]

TypeOK ==
    /\ \A e \in Sides : input[e] \in Seq(Segments[e]) /\ Len(input[e]) <= MaxChain[e]
    /\ bridge # Nothing => [source |-> bridge.source, ring |-> bridge.ring] \in Previews
    /\ {filesLoaded, reopening, calibrating} \subseteq BOOLEAN
    /\ calJob # Nothing => calJob.answer \in {Nothing, "ok", "failed"}
    /\ exportJob \in {Nothing, "running", "returned"}
    /\ recordings \in 0 .. MaxRecordings /\ recording \in 0 .. recordings
    /\ handed.file \in 0 .. recordings /\ handed.from \in 0 .. recordings

\* While the controls are enabled the preview shows the selected files, so an
\* export, which reads the selection, makes the video the user has been
\* looking at. Excepted are the 40 ms before a reordered input is reopened, and
\* a calibration that could not be saved: with no path, an appended segment
\* leaves the preview as it is.
PreviewShowsSelection ==
    filesLoaded /\ bridge # Nothing /\ ~reopening /\ calPath # Nothing => bridge.source = input

\* Neither worker leaves the window in "calibrating" or "exporting" for ever.
JobsEnd ==
    /\ []<>(~calibrating)
    /\ []<>(~Exporting)

\* A recording consists of frames rendered while it ran.
RecordsOwnFrames == handed.from = handed.file
=============================================================================
