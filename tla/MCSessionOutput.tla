---------------------------- MODULE MCSessionOutput ----------------------------
(***************************************************************************)
(* Where stitched frames go, for TLC: the encode thread (extended), the    *)
(* session's ring and encoders, the GPU replay recording, the FFmpeg       *)
(* encoder of a stitch job, the OBS source, StitchCore, the event trace    *)
(* and the desktop's window with its jobs and recordings (instances). They *)
(* share no state as they are modelled, so each behaviour explores one of  *)
(* them, its turn, and leaves the others at one initial state.             *)
(***************************************************************************)
EXTENDS AsyncEncode

CONSTANTS
    Outputs,                                            \* of SessionOutput
    Starts, SyncOffsets, Limits, Candidates, CodecDelay,    \* of FileExport
    Sizes, Formats, MaxChanges,                         \* of ObsSource
    Durations, MaxTime,                                 \* of StitchCore
    Capacities, Gates, MaxEvents,                       \* of EventTrace
    Segments, Unreadable, Nothing, Picked, MaxChain, MaxRecordings  \* of Desktop

VARIABLES
    turn,
    submitted, gpuDone, staging, currentSlot, pendingCount, call, returned,
    state, session, handing, frameCount, sent, alive, written,
    packer, packed, atlases, atlasSlot, atlasPending, recorder, file, broken,
    export, phase, dropping, candidate, exported, codec, eofSent, video, stream,
    streamed, audio, sound, quiet,
    settings, src, upstream, obs, events, active, gpu, disk, out, changes,
    coreSubmitted, now, coreStaging, coreSlot, corePending, coreCount,
    coreReturned, failed, maxDuration, replay, pushed,
    capacity, everyN, emitted, recorded, dropped, chan, sink, thread, panicked,
    event, lines, inFile, ragged, torn, writeFailures,
    input, calPath, calibration, bridge, filesLoaded, reopening, calibrating,
    calJob, exportJob, recording, recordings, handed

(* A segment of the audio camera's recording: n frames, audio packets whose *)
(* first one is stamped s.                                                  *)
Segment(n, s) == [frames |-> n, audio |-> TRUE, readable |-> TRUE, first |-> s]

Silent(segment) == [segment EXCEPT !.audio = FALSE]

Damaged(segment) == [segment EXCEPT !.readable = FALSE]

Chains ==
    {<<Segment(2, 0), Segment(2, -1), Segment(1, 1)>>,
     <<Segment(2, 0), Silent(Segment(1, 0)), Segment(1, 1)>>,
     <<Segment(2, 0), Damaged(Segment(1, 0))>>,
     <<Silent(Segment(2, 0))>>}

MCSyncOffsets == {-1, 1}

MCSegments == [left |-> {"a", "bad"}, right |-> {"c"}]

MCMaxChain == [left |-> 2, right |-> 1]

Output == INSTANCE SessionOutput

Replay == INSTANCE GpuReplay WITH
    staging <- atlases, currentSlot <- atlasSlot, pendingCount <- atlasPending

Export == INSTANCE FileExport WITH job <- export, frameCount <- exported

Obs == INSTANCE ObsSource

Core == INSTANCE StitchCore WITH
    submitted <- coreSubmitted, staging <- coreStaging, currentSlot <- coreSlot,
    pendingCount <- corePending, frameCount <- coreCount, returned <- coreReturned

Trace == INSTANCE EventTrace

Window == INSTANCE Desktop

ASSUME OutputAssumption == Output!SessionOutputAssumption
ASSUME ReplayAssumption == Replay!GpuReplayAssumption
ASSUME ExportAssumption == Export!FileExportAssumption
ASSUME ObsAssumption == Obs!ObsSourceAssumption
ASSUME CoreAssumption == Core!StitchCoreAssumption
ASSUME TraceAssumption == Trace!EventTraceAssumption
ASSUME WindowAssumption == Window!DesktopAssumption

outputVars == <<submitted, gpuDone, staging, currentSlot, pendingCount, call,
                returned, state, session, handing, frameCount, sent, alive,
                written>>

replayVars == <<packer, packed, atlases, atlasSlot, atlasPending, recorder,
                file, broken>>

exportVars == <<export, phase, dropping, candidate, exported, codec, eofSent,
                video, stream, streamed, audio, sound, quiet>>

obsVars == <<settings, src, upstream, obs, events, active, gpu, disk, out,
             changes>>

coreVars == <<coreSubmitted, now, coreStaging, coreSlot, corePending, coreCount,
              coreReturned, failed, maxDuration, replay, pushed>>

traceVars == <<capacity, everyN, emitted, recorded, dropped, chan, sink, thread,
               panicked, event, lines, inFile, ragged, torn, writeFailures>>

windowVars == <<input, calPath, calibration, bridge, filesLoaded, reopening,
                calibrating, calJob, exportJob, recording, recordings, handed>>

mcVars == <<turn, vars, outputVars, replayVars, exportVars, obsVars, coreVars,
            traceVars, windowVars>>

MCInit ==
    /\ turn \in {"encode", "output", "replay", "export", "obs", "core", "trace", "window"}
    /\ Init /\ Output!Init /\ Replay!Init
    /\ Export!Init
    /\ turn # "export" =>
           export = [start |-> 0, sync |-> 1, camera |-> "left", limit |-> 2,
                     chain |-> <<Silent(Segment(2, 0))>>]
    /\ Obs!Init
    /\ settings.format = "i420"
    /\ upstream["left"] = upstream["right"]
    /\ turn # "obs" =>
           /\ settings = [config |-> "none", inp |-> 1, format |-> "i420",
                          replay |-> FALSE, follow |-> TRUE]
           /\ upstream["left"] = 0
    /\ Core!Init
    /\ turn # "core" => maxDuration = Core!None
    /\ Trace!Init
    /\ turn # "trace" => capacity = 0 /\ everyN = 1
    /\ Window!Init

MCNext ==
    \/ /\ turn = "encode" /\ Next
       /\ UNCHANGED <<turn, outputVars, replayVars, exportVars, obsVars, coreVars,
                      traceVars, windowVars>>
    \/ /\ turn = "output" /\ Output!Next
       /\ UNCHANGED <<turn, vars, replayVars, exportVars, obsVars, coreVars,
                      traceVars, windowVars>>
    \/ /\ turn = "replay" /\ Replay!Next
       /\ UNCHANGED <<turn, vars, outputVars, exportVars, obsVars, coreVars,
                      traceVars, windowVars>>
    \/ /\ turn = "export" /\ Export!Next
       /\ UNCHANGED <<turn, vars, outputVars, replayVars, obsVars, coreVars,
                      traceVars, windowVars>>
    \/ /\ turn = "obs" /\ Obs!Next
       /\ UNCHANGED <<turn, vars, outputVars, replayVars, exportVars, coreVars,
                      traceVars, windowVars>>
    \/ /\ turn = "core" /\ Core!Next
       /\ UNCHANGED <<turn, vars, outputVars, replayVars, exportVars, obsVars,
                      traceVars, windowVars>>
    \/ /\ turn = "trace" /\ Trace!Next
       /\ UNCHANGED <<turn, vars, outputVars, replayVars, exportVars, obsVars,
                      coreVars, windowVars>>
    \/ /\ turn = "window" /\ Window!Next
       /\ UNCHANGED <<turn, vars, outputVars, replayVars, exportVars, obsVars,
                      coreVars, traceVars>>

\* The fairness of AsyncEncode, ObsSource, EventTrace and Desktop, each on its
\* turn; the others state none.
MCSpec ==
    /\ MCInit /\ [][MCNext]_mcVars
    /\ WF_vars(turn = "encode" /\ Worker)
    /\ WF_vars(turn = "encode" /\ (TrySend \/ Send \/ Join))
    /\ WF_obsVars(turn = "obs" /\ Obs!Tick(TRUE, TRUE))
    /\ WF_obsVars(turn = "obs" /\ Obs!FrontendEvent)
    /\ WF_traceVars(turn = "trace" /\ Trace!Writer)
    /\ WF_traceVars(turn = "trace" /\ Trace!Join)
    /\ WF_windowVars(turn = "window" /\ Window!CalibrationReturns)
    /\ WF_windowVars(turn = "window" /\ Window!ExportReturns)
    /\ WF_windowVars(turn = "window" /\ Window!CalibrationResult)
    /\ WF_windowVars(turn = "window" /\ Window!ExportOutcome)

------------------------------------------------------------------------------
\* SessionOutput: the outputs hold the same first frames, evenly stamped. The
\* first invariant of an instance also checks the types of its state.
OutputsAgree == Output!TypeOK /\ Output!OutputsAgree /\ Output!EvenPts

\* SessionOutput: Ok means every frame rendered is in every output.
OkMeansWhole == Output!OkMeansWhole

\* SessionOutput: no encoder is handed pixels the GPU has not finished.
ReturnsFinishedFrames == Output!ReturnsFinishedFrames

\* The readback rings, with their callers: the session's ring is a frame pipe,
\* and StitchCore loses only the frames whose own submit failed.
FramesReturn == Output!IsFramePipe /\ Core!ReturnsInOrder

\* GpuReplay: the replay file is in order, and without a gap if no readback
\* failed and the packer stayed.
FileContiguous ==
    Replay!TypeOK /\ Replay!FileInOrder /\ Replay!FileContiguous

\* FileExport: the sound of a frame is the sound of what the frame shows.
AudioInStep == Export!TypeOK /\ Export!AudioInStep

\* FileExport: Ok from finish means that the file is whole.
FinishedIsWhole == Export!FinishedIsWhole

\* FileExport: the selected time of the recording lands at output time zero,
\* wherever in the recording the job starts.
AudioAligned == Export!AudioAligned

\* ObsSource: the flag beside the core says whether it has a recorder.
AttachmentTracked == Obs!TypeOK /\ Obs!AttachmentTracked

\* ObsSource: the recorder comes and goes with OBS's Record and Stream, and a
\* source with a core and cameras that agree goes on stitching.
ObsGoesOn == turn = "obs" => Obs!RecordingFollowsObs /\ Obs!Stitches

\* StitchCore: the replay buffer is the last max_duration of what was returned.
ReplayWindow == Core!TypeOK /\ Core!ReplayWindow

\* EventTrace: every event is written or counted, until the last flush.
EventsAccounted == Trace!TypeOK /\ Trace!Accounted

\* EventTrace: no more lines are damaged than writes failed.
DamageCounted == Trace!DamageCounted

\* Both threads that write for a caller: its submit, finish or drop returns.
OutputsEnd ==
    /\ CallsReturn
    /\ turn = "trace" => Trace!Ends

\* Desktop: enabled controls mean a preview of the selected files.
PreviewShowsSelection == Window!TypeOK /\ Window!PreviewShowsSelection

\* Desktop: neither worker leaves its job running for ever.
JobsEnd == turn = "window" => Window!JobsEnd

\* Desktop: a recording consists of frames rendered while it ran.
RecordsOwnFrames == Window!RecordsOwnFrames
================================================================================
