---------------------------- MODULE MCSessionInput ----------------------------
(***************************************************************************)
(* The input side for TLC: the buffered loop (extended), the zero-copy     *)
(* source, the video decoder, the desktop's player over the CPU source and *)
(* the command line's preview window (instances). They share no state as   *)
(* they are modelled, so each behaviour explores one of them, its turn,    *)
(* and leaves the others at one initial state.                             *)
(***************************************************************************)
EXTENDS Lookahead

CONSTANTS
    Modes, Lengths, SyncOffsets,                    \* of ZeroCopySource
    StreamLengths, Delays, KeyInterval, MaxSeeks,   \* of VideoDecoder
    FileLengths, Offsets, TimeBases, Fps, MaxForward, ChannelCap,   \* of FilePlayback
    Pairs, TotalPairs, SkipCount, SeekStep         \* of CliPreview

VARIABLES
    turn,
    mode, lengths, syncOffset, slotFree, decoder, writeSlot, decoded, failed,
    sourceTexture, decodedChan, pairer, pairLeft, pairRight, frameChan,
    session, held, received, gpuReads, drawn, shutdown,
    length, delay, read, next, eofSent, returned, seeks, origin, ended,
    fileLength, timeBase, offset, decodeNext, decodeUp, decodeChan, toSkip,
    pairingUp, pairChan, currentFrame, exhausted, playState, picture, frameIndex,
    call, drainTo, seekCount,
    loop, flow, position, playing, presented, needsRedraw, requested, smoothing,
    pendingSeek, keyHeld, ctrlC, surfaceFailed, recording, ring, readbackFailed

Source == INSTANCE ZeroCopySource WITH texture <- sourceTexture

Decoding == INSTANCE VideoDecoder WITH Path <- "Cpu"

Playback == INSTANCE FilePlayback WITH shown <- picture

Preview == INSTANCE CliPreview WITH
    frameCount <- position, held <- keyHeld, interrupted <- ctrlC

ASSUME SourceAssumption == Source!ZeroCopySourceAssumption
ASSUME DecodingAssumption == Decoding!VideoDecoderAssumption
ASSUME PlaybackAssumption == Playback!FilePlaybackAssumption
ASSUME PreviewAssumption == Preview!CliPreviewAssumption

MCSyncOffsets == {-1, 0, 2}

MCOffsets == {-1, 0, 1}

zeroCopyVars == <<mode, lengths, syncOffset, slotFree, decoder, writeSlot,
                  decoded, failed, sourceTexture, decodedChan, pairer, pairLeft,
                  pairRight, frameChan, session, held, received, gpuReads, drawn,
                  shutdown>>

decodingVars == <<length, delay, read, next, eofSent, returned, seeks, origin,
                  ended>>

playbackVars == <<fileLength, timeBase, offset, decodeNext, decodeUp, decodeChan,
                  toSkip, pairingUp, pairChan, currentFrame, exhausted, playState,
                  picture, frameIndex, call, drainTo, seekCount>>

previewVars == <<loop, flow, position, playing, presented, needsRedraw, requested,
                 smoothing, pendingSeek, keyHeld, ctrlC, surfaceFailed, recording,
                 ring, readbackFailed>>

mcVars == <<turn, vars, zeroCopyVars, decodingVars, playbackVars, previewVars>>

Idle(part) == turn # part

MCInit ==
    /\ turn \in {"lookahead", "source", "decoder", "playback", "preview"}
    /\ Init
    /\ Idle("lookahead") =>
           /\ sourceLength = 0 /\ frameLimit = 0 /\ backend = "VramPool"
    /\ Source!Init
    /\ Idle("source") =>
           /\ mode = "Buffered" /\ syncOffset = 0
           /\ lengths = [c \in Source!Cameras |-> 0]
    /\ Decoding!Init
    /\ Idle("decoder") => length = 0 /\ delay = 0
    /\ Playback!Init
    /\ Playback!Exact("right")
    /\ ~Playback!Exact("left") => \A e \in Playback!Eyes : fileLength[e] = 4
    /\ Idle("playback") =>
           /\ fileLength = [e \in Playback!Eyes |-> 3]
           /\ timeBase = [e \in Playback!Eyes |-> 600] /\ offset = 0
    /\ Preview!Init

MCNext ==
    \/ /\ turn = "lookahead" /\ Next
       /\ UNCHANGED <<turn, zeroCopyVars, decodingVars, playbackVars, previewVars>>
    \/ /\ turn = "source" /\ Source!Next
       /\ UNCHANGED <<turn, vars, decodingVars, playbackVars, previewVars>>
    \/ /\ turn = "decoder" /\ Decoding!Next
       /\ UNCHANGED <<turn, vars, zeroCopyVars, playbackVars, previewVars>>
    \/ /\ turn = "playback" /\ Playback!Next
       /\ UNCHANGED <<turn, vars, zeroCopyVars, decodingVars, previewVars>>
    \/ /\ turn = "preview" /\ Preview!Next
       /\ UNCHANGED <<turn, vars, zeroCopyVars, decodingVars, playbackVars>>

\* The fairness of the five specifications, each on its own turn.
MCSpec ==
    /\ MCInit /\ [][MCNext]_mcVars
    /\ WF_vars(turn = "lookahead" /\ Loop)
    /\ \A c \in Source!Cameras :
           WF_zeroCopyVars(turn = "source" /\ Source!Decoder(c))
    /\ WF_zeroCopyVars(turn = "source" /\ Source!Pairer)
    /\ WF_zeroCopyVars(turn = "source" /\ Source!Run /\ Source!Session)
    /\ WF_zeroCopyVars(turn = "source" /\ Source!GpuDraws)
    /\ WF_decodingVars(turn = "decoder" /\ Decoding!NextFrame)
    /\ WF_playbackVars(turn = "playback" /\ Playback!Pipeline)
    /\ WF_playbackVars(turn = "playback" /\ Playback!Returning)
    /\ WF_playbackVars(turn = "playback" /\ Playback!Tick)
    /\ WF_previewVars(turn = "preview" /\ (Preview!Redraw \/ Preview!AboutToWait))
    /\ WF_previewVars(turn = "preview" /\ Preview!KeyUp)

------------------------------------------------------------------------------
\* ZeroCopySource: a slot is in one place at a time. The first invariant of an
\* instance also checks the types of its state.
SlotHeldOnce == Source!TypeOK /\ Source!SlotHeldOnce

\* ZeroCopySource: the pair the session holds, and in the buffered loop what
\* it copied from it, shows one instant on both cameras.
PairsInSync == Source!HeldPairInSync /\ Source!CopiedFromOwnPair

\* ZeroCopySource: with no decode error, the end comes after all the pairs.
AllPairsDelivered == Source!AllPairsDelivered

\* VideoDecoder: Ok(None) comes after the last frame.
NoneMeansFinished == Decoding!TypeOK /\ Decoding!NoneMeansFinished

\* The input comes to an end: the buffered run ends for every source that ends;
\* no thread of the zero-copy source waits for ever, at the end or on a drop; a
\* caller of the decoder that stops seeking is told the end.
InputEnds ==
    /\ turn = "lookahead" => Termination
    /\ turn = "source" => Source!NeverStuck
    /\ turn = "decoder" => Decoding!EndIsReached

\* FilePlayback: the picture on screen is the one the index names.
ShownIsIndexed == Playback!TypeOK /\ Playback!ShownIsIndexed

\* FilePlayback: no step or seek hangs the UI thread, and playing comes to an
\* end by itself.
PlaybackEnds == turn = "playback" => Playback!CallReturns /\ Playback!PlayingEnds

\* CliPreview: no frame of one recording is left in the ring for the next.
RecordingsApart == Preview!TypeOK /\ Preview!RecordingsApart

\* CliPreview: Ctrl-C ends a preview whose loop polls.
InterruptHeard == turn = "preview" => Preview!InterruptHeard
================================================================================
