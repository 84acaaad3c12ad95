------------------------------ MODULE FileExport ------------------------------
(***************************************************************************)
(* StitchJob and the VideoEncoder it writes with: the frames of a window   *)
(* of the recording are encoded and muxed to a file, and to a stream if    *)
(* there is one, and at the end the audio of the chained segments of one   *)
(* camera is copied beside them.                                           *)
(*                                                                         *)
(* Time is counted in frames; an audio packet lasts one. A video frame is  *)
(* its pts in the file. An audio packet is its pts in the file and where   *)
(* in the camera's recording it was taken from (at).                       *)
(***************************************************************************)
EXTENDS Integers, SequencesExt

CONSTANTS
    Chains,         \* recordings of the audio camera: sequences of segments
    Starts,         \* the start_time of jobs
    SyncOffsets,    \* the sync_offset of jobs
    Limits,         \* the frame limit of jobs, from end_time and max_frames
    Candidates,     \* encoders to try
    CodecDelay      \* frames the codec may hold back

FileExportAssumption ==
    /\ \A chain \in Chains :
           /\ chain \in Seq([frames : Nat \ {0}, audio : BOOLEAN,
                             readable : BOOLEAN, first : Int])
           /\ chain # <<>> /\ chain[1].readable /\ chain[1].first = 0
    /\ Starts \subseteq Nat /\ SyncOffsets \subseteq Int /\ Limits \subseteq Nat
    /\ Candidates \in Nat \ {0} /\ CodecDelay \in Nat

VARIABLES
    job,            \* the StitchJob: start, sync offset, limit, audio camera
                    \* and its recording
    phase,          \* where the VideoEncoder stands
    dropping,       \* flush_and_finalize runs from drop: its error is ignored
    candidate,      \* the encoder that is being tried
    frameCount,     \* frame_count
    codec,          \* the pts of the frames the codec holds
    eofSent,        \* send_eof has run: the codec takes no other call
    video,          \* the video packets in the file
    stream,         \* StreamOutput: "none", "open" or "closed"
    streamed,       \* the video packets sent to the stream
    audio,          \* AudioPassthrough
    sound,          \* the audio packets in the file
    quiet           \* errors the code ends a loop on and does not report

exportVars == <<job, phase, dropping, candidate, frameCount, codec, eofSent,
                video, stream, streamed, audio, sound, quiet>>

------------------------------------------------------------------------------
Chain == job.chain

\* The frames of the recording before segment s.
Before(s) ==
    LET upTo[n \in 0 .. Len(Chain)] ==
            IF n = 0 THEN 0 ELSE upTo[n - 1] + Chain[n].frames
    IN  upTo[s - 1]

Total == Before(Len(Chain) + 1)

Cameras == {"left", "right"}

\* The frames the decode pipeline drops at the head of one camera.
SyncSkip(camera, sync) ==
    CASE camera = "left" /\ sync < 0  -> -sync
      [] camera = "right" /\ sync > 0 -> sync
      [] OTHER -> 0

\* Mutant of AudioSyncSkip: the skip of the other camera.
AudioSyncSkipOther(camera, sync) ==
    CASE camera = "left" /\ sync > 0  -> sync
      [] camera = "right" /\ sync < 0 -> -sync
      [] OTHER -> 0

\* audio_sync_skip_frames
AudioSyncSkip(camera, sync) ==
    CASE camera = "left" /\ sync < 0  -> -sync
      [] camera = "right" /\ sync > 0 -> sync
      [] OTHER -> 0

\* Where the audio camera stands in the output frame with this pts.
ShownAt(pts) == job.start + SyncSkip(job.camera, job.sync) + pts

AudioStart == job.start + AudioSyncSkip(job.camera, job.sync)

NoAudio == [on |-> FALSE]

\* setup_audio_stream: only the first segment decides whether there is audio.
\* The seek lands on a packet at or before the start, or fails.
SetUpAudio(seekedTo) ==
    IF ~Chain[1].audio THEN NoAudio
    ELSE [on |-> TRUE, segment |-> 1, next |-> seekedTo, offset |-> 0,
          nextOffset |-> 0, pendingStart |-> {}, exhausted |-> FALSE]

Init ==
    /\ job \in [start : Starts, sync : SyncOffsets, camera : Cameras,
                limit : Limits, chain : Chains]
    /\ phase = "opening"
    /\ dropping = FALSE
    /\ candidate = 1
    /\ frameCount = 0
    /\ codec = <<>>
    /\ eofSent = FALSE
    /\ video = <<>>
    /\ stream = "none"
    /\ streamed = <<>>
    /\ audio = NoAudio
    /\ sound = <<>>
    /\ quiet = {}

------------------------------------------------------------------------------
\* An error ends the call; drop ignores it, and the file stays without a
\* trailer.
Fail == phase' = IF dropping THEN "lost" ELSE "failed"

\* new: the candidates in order, each with a fresh output context.
CandidateFails ==
    /\ phase = "opening"
    /\ candidate' = candidate + 1
    /\ phase' = IF candidate = Candidates THEN "refused" ELSE "opening"
    /\ UNCHANGED <<job, dropping, frameCount, codec, eofSent, video, stream,
                   streamed, audio, sound, quiet>>

\* A job whose start is past the end of the source is refused by run, with
\* the encoder already open.
Opens ==
    /\ phase = "opening"
    /\ phase' = IF job.start < Total THEN "ready" ELSE "failed"
    /\ stream' \in {"none", "open"}
    /\ \E p \in 0 .. IF AudioStart < Chain[1].frames THEN AudioStart
                     ELSE Chain[1].frames - 1 :
           audio' = SetUpAudio(p)
    /\ UNCHANGED <<job, dropping, candidate, frameCount, codec, eofSent, video,
                   streamed, sound, quiet>>

\* The session runs to its limit or to the end of the shorter camera.
HasFrame ==
    /\ frameCount < job.limit
    /\ job.start + frameCount + (IF job.sync < 0 THEN -job.sync ELSE job.sync)
           < Total

\* write_nv12_frame and write_frame: send_frame, and then the packets.
SendFrame ==
    /\ phase = "ready" /\ HasFrame
    /\ \/ codec' = Append(codec, frameCount) /\ phase' = "receiving"
       \/ Fail /\ UNCHANGED codec
    /\ UNCHANGED <<job, dropping, candidate, frameCount, eofSent, video, stream,
                   streamed, audio, sound, quiet>>

\* The clone of the packet for the stream: a failed write disables the stream.
WriteToStream(pts) ==
    \/ stream = "open" /\ streamed' = Append(streamed, pts) /\ UNCHANGED stream
    \/ stream = "open" /\ stream' = "closed" /\ UNCHANGED streamed
    \/ stream # "open" /\ UNCHANGED <<stream, streamed>>

\* One turn of receive_and_write_packets.
ReceivePacket ==
    /\ phase \in {"receiving", "draining"} /\ codec # <<>>
    /\ codec' = Tail(codec)
    /\ WriteToStream(Head(codec))
    /\ \/ video' = Append(video, Head(codec)) /\ UNCHANGED phase
       \/ Fail /\ UNCHANGED video
    /\ UNCHANGED <<job, dropping, candidate, frameCount, eofSent, audio, sound,
                   quiet>>

\* receive_packet is not ok: the codec wants more, is drained, or failed,
\* which the loop does not tell apart.
ReceiveNone ==
    /\ phase \in {"receiving", "draining"}
    /\ \/ Len(codec) <= (IF eofSent THEN 0 ELSE CodecDelay) /\ UNCHANGED quiet
       \/ codec # <<>> /\ quiet' = quiet \cup {"codec"}
    /\ IF phase = "receiving"
       THEN phase' = "ready" /\ frameCount' = frameCount + 1
       ELSE phase' = "copying" /\ UNCHANGED frameCount
    /\ UNCHANGED <<job, dropping, candidate, codec, eofSent, video, stream,
                   streamed, audio, sound>>

\* Mutant of Finish: the codec is not drained.
FinishUndrained ==
    /\ phase = "ready"
    /\ eofSent' = TRUE
    /\ phase' \in {"copying", "failed"}
    /\ UNCHANGED <<job, dropping, candidate, frameCount, codec, video, stream,
                   streamed, audio, sound, quiet>>

\* flush_and_finalize, from finish: send_eof.
Finish ==
    /\ phase = "ready"
    /\ eofSent' = TRUE
    /\ phase' \in {"draining", "failed"}
    /\ UNCHANGED <<job, dropping, candidate, frameCount, codec, video, stream,
                   streamed, audio, sound, quiet>>

\* Drop without a finish that succeeded: flush_and_finalize again, which
\* stops at a send_eof that has run before.
Drop ==
    /\ phase \in {"ready", "failed"}
    /\ dropping' = TRUE
    /\ eofSent' = TRUE
    /\ phase' = IF eofSent THEN "lost" ELSE "draining"
    /\ UNCHANGED <<job, candidate, frameCount, codec, video, stream, streamed,
                   audio, sound, quiet>>

------------------------------------------------------------------------------
\* forward_audio_packets_until, one packet or one segment at a time.
Copying == phase = "copying" /\ audio.on /\ ~audio.exhausted

Segment == Chain[audio.segment]

Stamp == Segment.first + audio.next

Trimmed == audio.segment = 1 /\ AudioStart > 0 /\ Stamp < AudioStart

\* The offset of the segment, settled by its first packet, and the pts of the
\* packet in the file.
Rebased ==
    LET own == IF audio.segment = 1 THEN Stamp - AudioStart ELSE Stamp
        offset == IF audio.pendingStart = {} THEN audio.offset
                  ELSE (CHOOSE target \in audio.pendingStart : TRUE) - own
    IN  [offset |-> offset, pts |-> own + offset]

TrimPacket ==
    /\ Copying /\ audio.next < Segment.frames /\ Trimmed
    /\ audio' = [audio EXCEPT !.next = @ + 1]
    /\ UNCHANGED <<job, phase, dropping, candidate, frameCount, codec, eofSent,
                   video, stream, streamed, sound, quiet>>

\* A packet past the end of the video ends the copy.
CopyPacket ==
    /\ Copying /\ audio.next < Segment.frames /\ ~Trimmed
    /\ LET packet == Rebased
           end == packet.pts + 1
           read == [audio EXCEPT !.next = @ + 1, !.pendingStart = {},
                                 !.offset = packet.offset,
                                 !.nextOffset = IF end > @ THEN end ELSE @]
       IN  IF packet.pts > frameCount
           THEN /\ audio' = [read EXCEPT !.exhausted = TRUE]
                /\ UNCHANGED <<phase, sound>>
           ELSE /\ audio' = read
                /\ \/ /\ sound' = Append(sound, [pts |-> packet.pts,
                                             segment |-> audio.segment,
                                             at |-> Before(audio.segment)
                                                        + audio.next])
                      /\ UNCHANGED phase
                   \/ Fail /\ UNCHANGED sound
    /\ UNCHANGED <<job, dropping, candidate, frameCount, codec, eofSent, video,
                   stream, streamed, quiet>>

\* An error of the demuxer other than the end ends the copy.
ReadFails ==
    /\ Copying /\ audio.next < Segment.frames
    /\ phase' = "trailer"
    /\ quiet' = quiet \cup {"read"}
    /\ UNCHANGED <<job, dropping, candidate, frameCount, codec, eofSent, video,
                   stream, streamed, audio, sound>>

\* advance_segment: the next segment that has audio. One that cannot be
\* opened is an error of the whole call.
AdvanceSegment ==
    LET later == audio.segment + 1 .. Len(Chain)
        stops == {s \in later : Chain[s].audio \/ ~Chain[s].readable}
    IN  /\ Copying /\ audio.next = Segment.frames
        /\ IF stops = {}
           THEN audio' = [audio EXCEPT !.exhausted = TRUE] /\ UNCHANGED phase
           ELSE LET s == CHOOSE t \in stops : \A u \in stops : t <= u
                IN  IF Chain[s].readable
                    THEN /\ audio' = [audio EXCEPT
                                !.segment = s, !.next = 0,
                                !.pendingStart = {audio.nextOffset}]
                         /\ UNCHANGED phase
                    ELSE Fail /\ UNCHANGED audio
        /\ UNCHANGED <<job, dropping, candidate, frameCount, codec, eofSent,
                       video, stream, streamed, sound, quiet>>

AudioDone ==
    /\ phase = "copying" /\ ~Copying
    /\ phase' = "trailer"
    /\ UNCHANGED <<job, dropping, candidate, frameCount, codec, eofSent, video,
                   stream, streamed, audio, sound, quiet>>

\* The trailer of the stream, which may fail, and the trailer of the file.
WriteTrailers ==
    /\ phase = "trailer"
    /\ stream' = IF stream = "open" THEN "closed" ELSE stream
    /\ \/ phase' = IF dropping THEN "closed" ELSE "finished"
       \/ Fail
    /\ UNCHANGED <<job, dropping, candidate, frameCount, codec, eofSent, video,
                   streamed, audio, sound, quiet>>

------------------------------------------------------------------------------
CopyAudio ==
    TrimPacket \/ CopyPacket \/ ReadFails \/ AdvanceSegment \/ AudioDone

Next ==
    \/ CandidateFails \/ Opens \/ SendFrame \/ ReceivePacket \/ ReceiveNone
    \/ Finish \/ Drop \/ CopyAudio \/ WriteTrailers

Spec == Init /\ [][Next]_exportVars

------------------------------------------------------------------------------
(* Properties *)

TypeOK ==
    /\ phase \in {"opening", "refused", "ready", "receiving", "draining",
                  "copying", "trailer", "finished", "failed", "closed", "lost"}
    /\ frameCount \in Nat
    /\ codec \in Seq(Nat) /\ video \in Seq(Nat) /\ streamed \in Seq(Nat)
    /\ stream \in {"none", "open", "closed"}

\* Segments 1 to s all have audio that continues the one before.
Unbroken(s) == \A t \in 1 .. s : Chain[t].audio /\ Chain[t].readable

\* A packet of the file sounds what its camera shows at that time.
InSync(packet) == packet.at = ShownAt(packet.pts)

\* The whole of EncoderConfig::audio_start_time: whatever the job, the
\* selected time of the recording lands at output time zero.
AudioAligned ==
    \A packet \in Range(sound) : Unbroken(packet.segment) => InSync(packet)

\* Across the joints of a chain, whatever time stamps the segments start with
\* and whichever camera the sync offset delays, the sound of every frame is
\* the sound of what the frame shows, if the window starts in the first
\* segment.
AudioInStep == AudioStart < Chain[1].frames => AudioAligned

\* The audio the finished file should hold: up to the end of the video or of
\* the recording, whichever is first.
AudioWhole ==
    LET left == Total - AudioStart
    IN  Len(sound) = IF left <= frameCount THEN left ELSE frameCount + 1

\* finish returning Ok: every frame sent is in the file, once and in order,
\* however late the codec gave it out, the stream got the first of them up to
\* its own failure, and the sound of all of them is there.
FinishedIsWhole ==
    phase = "finished" =>
        /\ IsPrefix(streamed, video)
        /\ "codec" \in quiet \/ video = [k \in 1 .. frameCount |-> k - 1]
        /\ \/ "read" \in quiet \/ ~Unbroken(Len(Chain))
           \/ AudioStart >= Chain[1].frames
           \/ AudioWhole
==============================================================================
