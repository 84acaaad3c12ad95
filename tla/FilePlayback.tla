---------------------------- MODULE FilePlayback ----------------------------
(***************************************************************************)
(* The desktop preview's player on top of FfmpegFileSource: one decode     *)
(* thread per camera, a pairing thread, and the UI thread that steps,      *)
(* plays, seeks and reopens. A seek a short way forward drains the running *)
(* pipeline, any other one replaces it by threads that start at the target.*)
(*                                                                         *)
(* A frame is its number in its file. A decoder is its promise (module     *)
(* VideoDecoder, CPU path): frames in order, then the end. Threads that a  *)
(* seek or a reopen leaves behind end at their next send and are left out. *)
(***************************************************************************)
EXTENDS Integers, Sequences, FiniteSetsExt

CONSTANTS
    FileLengths,    \* frames a camera's file may have
    Offsets,        \* sync offsets: > 0 skips right frames, < 0 left frames
    TimeBases,      \* ticks per second a file's timestamps may have
    Fps,            \* frames per second
    MaxForward,     \* fps * 10: the longest seek made by draining
    ChannelCap,     \* capacity of the channels (4 in the code)
    MaxSeeks        \* bound: seeks, steps backward and reopens made

\* A file's time base tells its frames apart, and microseconds tell their halves.
FilePlaybackAssumption ==
    /\ FileLengths \subseteq Nat /\ Offsets \subseteq Int
    /\ Fps \in Nat \ {0} /\ 2 * Fps <= 1000000
    /\ TimeBases \subseteq Nat /\ \A t \in TimeBases : t >= Fps
    /\ MaxForward \in Nat /\ ChannelCap \in Nat \ {0} /\ MaxSeeks \in Nat

VARIABLES
    fileLength, timeBase,   \* per camera
    offset,         \* sync_offset of the open source
    decodeNext,     \* per camera: the next frame its decode thread sends
    decodeUp,       \* per camera: the thread runs
    decodeChan,     \* per camera: decode thread to pairing thread
    toSkip,         \* per camera: frames the pairing thread still discards
    pairingUp,      \* the pairing thread runs
    pairChan,       \* pairing thread to player
    currentFrame,   \* current_frame: pairs taken since the source's start
    exhausted,
    playState,      \* PlayState
    shown,          \* the pair on screen
    frameIndex,     \* frame_index: the pair after the one on screen
    call,           \* the blocking call the UI thread is in
    drainTo,        \* its target
    seekCount

fileVars == <<fileLength, timeBase>>
pipeVars == <<decodeNext, decodeUp, decodeChan, toSkip, pairingUp>>
playerVars == <<offset, currentFrame, exhausted, playState, shown, frameIndex,
                call, drainTo, seekCount>>
playbackVars == <<fileVars, pipeVars, pairChan, playerVars>>

------------------------------------------------------------------------------
Eyes == {"left", "right"}
NoFrames == [left |-> -1, right |-> -1]

\* Frames of camera c that the pairing thread discards for sync offset o.
SkipOf(c, o) == Max({0, IF c = "right" THEN o ELSE -o})

\* total_frames: the shorter file, whatever the offset.
TotalFrames == Min({fileLength[c] : c \in Eyes})

\* The timestamp of frame k of camera c in microseconds: rounded to the time
\* base by the muxer, cut by pts_to_us.
FrameTime(c, k) ==
    (((2 * k * timeBase[c] + Fps) \div (2 * Fps)) * 1000000) \div timeBase[c]

TargetTime(f) == (f * 1000000) \div Fps

\* Mutant of StartFrame: one frame past the target.
StartFrameAfter(c, f) ==
    Min({k \in 0 .. fileLength[c] : k = fileLength[c] \/ FrameTime(c, k) > TargetTime(f)})

\* The first frame a decode thread sends after seek_to_secs: frames before the
\* target time are decoded and discarded.
StartFrame(c, f) ==
    Min({k \in 0 .. fileLength[c] : k = fileLength[c] \/ FrameTime(c, k) >= TargetTime(f)})

\* spawn_decode_pipeline_from_inputs: fresh threads and channels, from
\* frame f on.
Spawn(f, o) ==
    /\ decodeNext' = [c \in Eyes |-> StartFrame(c, f)]
    /\ decodeUp' = [c \in Eyes |-> TRUE]
    /\ decodeChan' = [c \in Eyes |-> <<>>]
    /\ toSkip' = [c \in Eyes |-> SkipOf(c, o)]
    /\ pairingUp' = TRUE
    /\ pairChan' = <<>>
    /\ offset' = o
    /\ exhausted' = FALSE

Init ==
    /\ fileLength \in [Eyes -> FileLengths]
    /\ timeBase \in [Eyes -> TimeBases]
    /\ offset \in Offsets
    /\ decodeNext = [c \in Eyes |-> 0]
    /\ decodeUp = [c \in Eyes |-> TRUE]
    /\ decodeChan = [c \in Eyes |-> <<>>]
    /\ toSkip = [c \in Eyes |-> SkipOf(c, offset)]
    /\ pairingUp = TRUE
    /\ pairChan = <<>>
    /\ currentFrame = 0
    /\ exhausted = FALSE
    /\ playState = "Paused"
    /\ shown = NoFrames
    /\ frameIndex = 0
    /\ call = "step"
    /\ drainTo = 0
    /\ seekCount = 0

------------------------------------------------------------------------------
(* The decode threads and the pairing thread *)

Decode(c) ==
    /\ decodeUp[c]
    /\ decodeNext[c] < fileLength[c] /\ Len(decodeChan[c]) < ChannelCap
    /\ decodeChan' = [decodeChan EXCEPT ![c] = Append(@, decodeNext[c])]
    /\ decodeNext' = [decodeNext EXCEPT ![c] = @ + 1]
    /\ UNCHANGED <<fileVars, decodeUp, toSkip, pairingUp, pairChan, playerVars>>

\* The end of the file.
DecodeEnds(c) ==
    /\ decodeUp[c] /\ decodeNext[c] = fileLength[c]
    /\ decodeUp' = [decodeUp EXCEPT ![c] = FALSE]
    /\ UNCHANGED <<fileVars, decodeNext, decodeChan, toSkip, pairingUp, pairChan,
                   playerVars>>

\* The file cannot be opened, seeked or decoded any further: the thread logs
\* it and returns.
DecodeFails(c) ==
    /\ decodeUp[c] /\ decodeNext[c] < fileLength[c]
    /\ decodeUp' = [decodeUp EXCEPT ![c] = FALSE]
    /\ UNCHANGED <<fileVars, decodeNext, decodeChan, toSkip, pairingUp, pairChan,
                   playerVars>>

Available(c) == decodeChan[c] # <<>>
Hung(c) == ~Available(c) /\ ~decodeUp[c]

SkipOne(c) ==
    /\ pairingUp /\ toSkip[c] > 0 /\ Available(c)
    /\ toSkip' = [toSkip EXCEPT ![c] = @ - 1]
    /\ decodeChan' = [decodeChan EXCEPT ![c] = Tail(@)]
    /\ UNCHANGED <<fileVars, decodeNext, decodeUp, pairingUp, pairChan, playerVars>>

Skipping == \E c \in Eyes : toSkip[c] > 0

\* One turn of the while let, when there is room for the pair.
PairFrames ==
    /\ pairingUp /\ ~Skipping
    /\ \A c \in Eyes : Available(c)
    /\ Len(pairChan) < ChannelCap
    /\ pairChan' = Append(pairChan, [c \in Eyes |-> Head(decodeChan[c])])
    /\ decodeChan' = [c \in Eyes |-> Tail(decodeChan[c])]
    /\ UNCHANGED <<fileVars, decodeNext, decodeUp, toSkip, pairingUp, playerVars>>

\* Both receives have an answer and one of them is that its thread is gone;
\* while frames are skipped only the skipped camera is waited for.
PairingEnds ==
    /\ pairingUp
    /\ \E c \in Eyes : Hung(c) /\ (Skipping => toSkip[c] > 0)
    /\ ~Skipping => \A c \in Eyes : Available(c) \/ Hung(c)
    /\ pairingUp' = FALSE
    /\ UNCHANGED <<fileVars, decodeNext, decodeUp, decodeChan, toSkip, pairChan,
                   playerVars>>

Pipeline ==
    \/ PairFrames \/ PairingEnds
    \/ \E c \in Eyes : Decode(c) \/ DecodeEnds(c) \/ SkipOne(c)

------------------------------------------------------------------------------
(* The player *)

Disconnected == pairChan = <<>> /\ ~pairingUp

TakePair == pairChan' = Tail(pairChan) /\ currentFrame' = currentFrame + 1

\* step_forward (and tick) with a pair.
Show ==
    /\ TakePair
    /\ shown' = Head(pairChan)
    /\ frameIndex' = frameIndex + 1

Reached == exhausted' = TRUE /\ playState' = "Finished"

\* step_forward after next_frame's recv.
StepReturns ==
    /\ call = "step"
    /\ call' = "none"
    /\ \/ /\ pairChan # <<>> /\ Show
          /\ UNCHANGED <<exhausted, playState>>
       \/ /\ Disconnected /\ Reached
          /\ UNCHANGED <<pairChan, currentFrame, shown, frameIndex>>
    /\ UNCHANGED <<fileVars, pipeVars, offset, drainTo, seekCount>>

\* seek, the drain: one pair.
DrainOne ==
    /\ call = "drain" /\ currentFrame < drainTo
    /\ pairChan # <<>> /\ TakePair
    /\ UNCHANGED <<fileVars, pipeVars, offset, exhausted, playState, shown,
                   frameIndex, call, drainTo, seekCount>>

\* Mutant of DrainReturns: the drain does not break when the pipeline ends.
DrainReturnsFull ==
    /\ call = "drain"
    /\ currentFrame = drainTo
    /\ frameIndex' = drainTo
    /\ call' = "step"
    /\ UNCHANGED <<fileVars, pipeVars, pairChan, offset, currentFrame, exhausted,
                   playState, shown, drainTo, seekCount>>

\* The drain is over, or broken off by the end: the index is the target and
\* the next pair is stepped to.
DrainReturns ==
    /\ call = "drain"
    /\ currentFrame = drainTo \/ Disconnected
    /\ frameIndex' = drainTo
    /\ call' = "step"
    /\ UNCHANGED <<fileVars, pipeVars, pairChan, offset, currentFrame, exhausted,
                   playState, shown, drainTo, seekCount>>

\* FfmpegFileSource::seek and Playback::seek.
SeekTo(f) ==
    IF f > currentFrame /\ f - currentFrame <= MaxForward
    THEN /\ drainTo' = f
         /\ call' = "drain"
         /\ UNCHANGED <<fileVars, pipeVars, pairChan, offset, currentFrame, exhausted,
                        frameIndex>>
    ELSE /\ Spawn(f, offset)
         /\ currentFrame' = f /\ frameIndex' = f
         /\ call' = "step"
         /\ UNCHANGED <<fileVars, drainTo>>

Idle == call = "none"

Paused == IF playState = "Playing" THEN "Paused" ELSE playState

\* The step-forward key.
StepForward ==
    /\ Idle
    /\ playState' = Paused
    /\ call' = "step"
    /\ UNCHANGED <<fileVars, pipeVars, pairChan, offset, currentFrame, exhausted, shown,
                   frameIndex, drainTo, seekCount>>

\* 2^e
TwoTo[e \in Nat] == IF e = 0 THEN 1 ELSE 2 * TwoTo[e - 1]

\* The fraction f / t as an f32 (24 bits, rounded), times t, cut: f, or f - 1
\* when the f32 is below f / t.
ThroughF32(f, t) ==
    IF f = 0 THEN 0
    ELSE LET s == 23 + Min({e \in 0 .. t : f * TwoTo[e] >= t})
             m == (f * TwoTo[s + 1] + t) \div (2 * t)
         IN  (m * t) \div TwoTo[s]

Counted == seekCount < MaxSeeks /\ seekCount' = seekCount + 1

\* The step-backward key: a seek, by a fraction, to the pair before the one on
\* screen.
StepBackward ==
    /\ Idle /\ TotalFrames > 0 /\ Counted
    /\ playState' = Paused
    /\ LET target == ThroughF32(Max({0, frameIndex - 2}), TotalFrames)
       IN  SeekTo(Min({target, TotalFrames - 1}))
    /\ UNCHANGED shown

\* The slider (after its debounce) and the relative seeks.
Seek ==
    /\ Idle /\ TotalFrames > 0 /\ Counted
    /\ \E f \in 0 .. TotalFrames - 1 : SeekTo(f)
    /\ UNCHANGED <<playState, shown>>

Toggle ==
    /\ Idle
    /\ playState' = IF playState = "Playing" THEN "Paused" ELSE "Playing"
    /\ UNCHANGED <<fileVars, pipeVars, pairChan, offset, currentFrame, exhausted, shown,
                   frameIndex, call, drainTo, seekCount>>

\* set_sync_offset: the source is opened again.
SetSyncOffset ==
    /\ Idle /\ Counted
    /\ \E o \in Offsets : Max({o, -o}) < TotalFrames /\ Spawn(0, o)
    /\ currentFrame' = 0
    /\ playState' = "Paused"
    /\ shown' = NoFrames
    /\ frameIndex' = 0
    /\ call' = "step"
    /\ UNCHANGED <<fileVars, drainTo>>

\* Mutant of Tick: try_next_frame does not tell the end from an empty channel.
TickUnaware ==
    /\ Idle /\ playState = "Playing"
    /\ pairChan # <<>> /\ Show
    /\ UNCHANGED <<fileVars, pipeVars, offset, exhausted, playState, call, drainTo, seekCount>>

\* tick, when the clock is ahead of the index: never blocks.
Tick ==
    /\ Idle /\ playState = "Playing"
    /\ \/ /\ pairChan # <<>> /\ Show
          /\ UNCHANGED <<exhausted, playState>>
       \/ /\ Disconnected /\ Reached
          /\ UNCHANGED <<pairChan, currentFrame, shown, frameIndex>>
    /\ UNCHANGED <<fileVars, pipeVars, offset, call, drainTo, seekCount>>

Returning == StepReturns \/ DrainOne \/ DrainReturns

User == StepForward \/ StepBackward \/ Seek \/ Toggle \/ SetSyncOffset

Next == Pipeline \/ (\E c \in Eyes : DecodeFails(c)) \/ Returning \/ Tick \/ User

Spec == Init /\ [][Next]_playbackVars

\* All threads are scheduled and the clock of a playing preview advances;
\* nothing obliges the user.
FairSpec ==
    /\ Spec
    /\ WF_playbackVars(Pipeline) /\ WF_playbackVars(Returning) /\ WF_playbackVars(Tick)

------------------------------------------------------------------------------
(* Properties *)

TypeOK ==
    /\ \A c \in Eyes :
           /\ decodeNext[c] \in 0 .. fileLength[c] /\ toSkip[c] \in Nat
           /\ Len(decodeChan[c]) <= ChannelCap
    /\ decodeUp \in [Eyes -> BOOLEAN] /\ pairingUp \in BOOLEAN /\ exhausted \in BOOLEAN
    /\ offset \in Offsets /\ Len(pairChan) <= ChannelCap
    /\ playState \in {"Paused", "Playing", "Finished"}
    /\ call \in {"none", "step", "drain"} /\ drainTo \in Nat
    /\ currentFrame \in Nat /\ frameIndex \in Nat /\ seekCount \in 0 .. MaxSeeks

\* The time base counts whole ticks per frame, so no timestamp is rounded.
Exact(c) == timeBase[c] % Fps = 0

\* How many frames later than asked for a camera may start after a seek.
Lateness(c) == IF Exact(c) THEN {0} ELSE {0, 1}

\* After any sequence of plays, steps, seeks and reopens each camera shows the
\* frame the index names. Where timestamps are rounded it may show the next one:
\* threads that a seek starts discard the frame asked for if its timestamp was
\* rounded down. Never is it two frames off, however often the user seeks. At
\* the end the index may run ahead of the picture: total_frames counts pairs
\* that the offset leaves out, and a step or a seek to them shows nothing new.
ShownIsIndexed ==
    call = "none" /\ ~exhausted =>
        \A c \in Eyes : shown[c] - (frameIndex - 1 + SkipOf(c, offset)) \in Lateness(c)

\* The UI thread is never left hanging in a step or a seek, whichever camera
\* ends or fails first and however many frames were to be drained.
CallReturns == []<>(call = "none")

\* Playing comes to an end by itself: the end of the stream is not taken for
\* a slow decoder.
PlayingEnds == []<>(playState # "Playing")
=============================================================================
