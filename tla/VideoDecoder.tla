---------------------------- MODULE VideoDecoder ----------------------------
(***************************************************************************)
(* VideoDecoder: pulls packets from the demuxer and frames from the codec. *)
(* A codec that reorders holds frames back and only gives up the last of   *)
(* them after send_eof. next_frame serves CPU frames; next_frame_gpu,      *)
(* next_frame_d3d11 and next_frame_vt share one other body and serve       *)
(* hardware frames.                                                        *)
(*                                                                         *)
(* One packet is one frame, named by its number in presentation order.     *)
(***************************************************************************)
EXTENDS Integers

CONSTANTS
    Path,           \* "Cpu", or "Hardware" for the three zero-copy calls
    StreamLengths,  \* packets the stream may have
    Delays,         \* frames the codec may hold back before it outputs one
    KeyInterval,    \* every KeyInterval-th frame is a keyframe
    MaxSeeks        \* bound: seeks made

VideoDecoderAssumption ==
    /\ Path \in {"Cpu", "Hardware"}
    /\ StreamLengths \subseteq Nat
    /\ Delays \subseteq Nat
    /\ KeyInterval \in Nat \ {0}
    /\ MaxSeeks \in Nat

VARIABLES
    length,         \* packets in the stream
    delay,          \* what the codec holds back
    read,           \* the demuxer's position: the next packet
    next,           \* the next frame the codec will output
    eofSent,        \* eof_sent
    returned,       \* the last frame returned, None since a seek or at first
    seeks,          \* seeks made
    origin,         \* where decoding started: 0 or the keyframe seeked to
    ended           \* the last call returned Ok(None)

vars == <<length, delay, read, next, eofSent, returned, seeks, origin, ended>>

------------------------------------------------------------------------------
None == -1

Init ==
    /\ length \in StreamLengths
    /\ delay \in Delays
    /\ read = 0
    /\ next = 0
    /\ eofSent = FALSE
    /\ returned = None
    /\ seeks = 0
    /\ origin = 0
    /\ ended = FALSE

\* Frames in the codec: sent and not received yet.
Held == read - next

Return ==
    /\ returned' = next
    /\ next' = next + 1
    /\ ended' = FALSE

ReturnNone ==
    /\ ended' = TRUE
    /\ UNCHANGED <<returned, next>>

\* The loop before the end of the stream: packets are sent until the codec
\* outputs a frame.
Decode ==
    /\ ~eofSent
    /\ next + delay < length
    /\ read' = next + delay + 1
    /\ Return
    /\ UNCHANGED eofSent

\* The demuxer runs out of packets first: send_eof, then one frame is drained.
EndOfStream ==
    /\ ~eofSent
    /\ next + delay >= length
    /\ read' = length
    /\ eofSent' = TRUE
    /\ IF next < length THEN Return ELSE ReturnNone

\* Mutant of AfterEof: the flag ends the stream at once.
AfterEofUndrained ==
    /\ eofSent
    /\ ReturnNone
    /\ UNCHANGED <<read, eofSent>>

\* Mutant of AfterEof: the last picture is shown for ever.
AfterEofFrozen ==
    /\ eofSent
    /\ IF Held > 0 THEN Return ELSE UNCHANGED <<returned, next, ended>>
    /\ UNCHANGED <<read, eofSent>>

\* A call after eof_sent. next_frame keeps draining the codec.
AfterEof ==
    /\ eofSent
    /\ IF Path = "Cpu" /\ Held > 0 THEN Return ELSE ReturnNone
    /\ UNCHANGED <<read, eofSent>>

NextFrame ==
    /\ Decode \/ EndOfStream \/ AfterEof
    /\ UNCHANGED <<length, delay, seeks, origin>>

\* seek_to_secs: the demuxer goes to a keyframe, the codec is flushed and
\* eof_sent is cleared.
SeekToSecs ==
    /\ seeks < MaxSeeks
    /\ seeks' = seeks + 1
    /\ \E k \in 0 .. length :
           /\ k % KeyInterval = 0
           /\ k < length \/ k = 0
           /\ read' = k /\ next' = k /\ origin' = k
    /\ eofSent' = FALSE
    /\ returned' = None
    /\ ended' = FALSE
    /\ UNCHANGED <<length, delay>>

Next == NextFrame \/ SeekToSecs

Spec == Init /\ [][Next]_vars

\* The caller asks for frames until it is told there are none.
FairSpec == Spec /\ WF_vars(NextFrame)

------------------------------------------------------------------------------
(* Properties *)

TypeOK ==
    /\ length \in StreamLengths
    /\ delay \in Delays
    /\ read \in 0 .. length
    /\ next \in 0 .. read
    /\ eofSent \in BOOLEAN
    /\ returned \in Nat \cup {None}
    /\ seeks \in 0 .. MaxSeeks
    /\ origin \in Nat
    /\ ended \in BOOLEAN

\* Ok(None) means the end: every frame from where decoding started to the end
\* of the stream has been returned, whatever the codec held back.
NoneMeansFinished ==
    ended => next = length /\ (origin < length => returned = length - 1)

\* Once the caller stops seeking it is told the end, and goes on being told.
EndIsReached == <>[]ended
=============================================================================
