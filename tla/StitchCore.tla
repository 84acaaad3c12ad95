------------------------------ MODULE StitchCore ------------------------------
(***************************************************************************)
(* StitchCore as the OBS source uses it: submits that render a pair and    *)
(* return the pixels of two submits before, through the ring of staging    *)
(* buffers of RgbaReadback, flushes at any time, and the replay buffer     *)
(* that keeps the returned pixels of the last max_duration. The four       *)
(* submit_frame methods differ in pose, detection and recorders only.      *)
(*                                                                         *)
(* A frame is the number of its submit. Time is that of session_start, and *)
(* passes between submits.                                                 *)
(***************************************************************************)
EXTENDS Integers, Sequences, SequencesExt

CONSTANTS
    Durations,      \* replay windows a caller asks for
    MaxFrames,      \* bound: frames submitted
    MaxTime         \* bound: when the last of them is

StitchCoreAssumption ==
    Durations \subseteq Nat /\ MaxFrames \in Nat /\ MaxTime \in Nat

VARIABLES
    submitted,      \* frames submitted to the GPU
    now,            \* elapsed time
    staging,        \* the frame in each staging buffer
    currentSlot,    \* current_slot
    pendingCount,   \* pending_count
    frameCount,     \* frame_count
    returned,       \* the last frame returned by a submit or a flush
    failed,         \* frames whose submit returned an error
    maxDuration,    \* max_duration of the replay buffer, or None
    replay,         \* its frames
    pushed          \* what was pushed since it was created or emptied

ringVars == <<submitted, staging, currentSlot, pendingCount, frameCount, returned,
              failed>>
replayVars == <<maxDuration, replay, pushed>>
coreVars == <<ringVars, now, replayVars>>

------------------------------------------------------------------------------
None == -1

Slots == 0 .. 2

Init ==
    /\ submitted = 0 /\ now = 0
    /\ staging = [s \in Slots |-> None]
    /\ currentSlot = 0 /\ pendingCount = 0 /\ frameCount = 0
    /\ returned = None /\ failed = {}
    /\ maxDuration \in Durations \cup {None}
    /\ replay = <<>> /\ pushed = <<>>

------------------------------------------------------------------------------
(* The replay buffer *)

\* Mutant of Within: the boundary is one unit too old.
WithinAndOne(entry, newest) == entry.at + 1 >= newest.at - maxDuration

\* captured_at is not below the cutoff; a cutoff below zero is zero.
Within(entry, newest) == entry.at >= newest.at - maxDuration

\* push evicts from the front up to the first entry within the window.
Evict(entries) ==
    SubSeq(entries, SelectInSeq(entries, LAMBDA e : Within(e, Last(entries))), Len(entries))

\* The pixels of frame f, with the time and the pose of the submit that returned
\* them.
Push(f) ==
    LET entry == [frame |-> f, at |-> now, pose |-> submitted] IN
    IF maxDuration = None
    THEN UNCHANGED replayVars
    ELSE /\ replay' = Evict(Append(replay, entry))
         /\ pushed' = Append(pushed, entry)
         /\ UNCHANGED maxDuration

\* enable_replay_buffer: a fresh buffer, or none.
EnableReplay ==
    /\ maxDuration' \in Durations \cup {None}
    /\ replay' = <<>> /\ pushed' = <<>>
    /\ UNCHANGED <<ringVars, now>>

\* clear and take.
EmptyReplay ==
    /\ replay # <<>>
    /\ replay' = <<>> /\ pushed' = <<>>
    /\ UNCHANGED <<ringVars, now, maxDuration>>

------------------------------------------------------------------------------
(* Submits *)

\* submit_copy: the frame goes to the current slot.
SubmitCopy ==
    /\ submitted < MaxFrames
    /\ staging' = [staging EXCEPT ![currentSlot] = submitted]
    /\ submitted' = submitted + 1

Advance ==
    /\ pendingCount' = IF pendingCount + 1 < 2 THEN pendingCount + 1 ELSE 2
    /\ currentSlot' = (currentSlot + 1) % 3

ReadSlot == (currentSlot + 1) % 3

\* submit_frame_yuv, submit_frame_bgra and their at_pose variants.
Submit ==
    /\ SubmitCopy
    /\ IF pendingCount < 2
       THEN UNCHANGED <<returned, replayVars>>
       ELSE returned' = staging[ReadSlot] /\ Push(staging[ReadSlot])
    /\ Advance
    /\ frameCount' = frameCount + 1
    /\ UNCHANGED <<now, failed>>

\* Mutant of ReadbackFails: the ring advances before the error is returned.
ReadbackFailsLate ==
    /\ pendingCount = 2
    /\ SubmitCopy
    /\ failed' = failed \cup {submitted}
    /\ Advance
    /\ UNCHANGED <<now, frameCount, returned, replayVars>>

\* A submit whose readback fails: its frame is on the GPU, but the ring does
\* not advance, and the next frame takes its slot.
ReadbackFails ==
    /\ pendingCount = 2
    /\ SubmitCopy
    /\ failed' = failed \cup {submitted}
    /\ UNCHANGED <<now, currentSlot, pendingCount, frameCount, returned, replayVars>>

OldestSlot == (currentSlot + 3 - pendingCount) % 3

\* flush; its pixels go to the caller only.
Flush ==
    /\ pendingCount > 0
    /\ returned' = staging[OldestSlot]
    /\ pendingCount' = pendingCount - 1
    /\ UNCHANGED <<submitted, now, staging, currentSlot, frameCount, failed, replayVars>>

TimePasses ==
    /\ now < MaxTime
    /\ now' = now + 1
    /\ UNCHANGED <<ringVars, replayVars>>

Next ==
    \/ Submit \/ ReadbackFails \/ Flush \/ TimePasses \/ EnableReplay \/ EmptyReplay

Spec == Init /\ [][Next]_coreVars

------------------------------------------------------------------------------
(* Properties *)

TypeOK ==
    /\ submitted \in 0 .. MaxFrames /\ now \in 0 .. MaxTime
    /\ staging \in [Slots -> Nat \cup {None}]
    /\ currentSlot \in Slots /\ pendingCount \in 0 .. 2
    /\ frameCount \in 0 .. submitted
    /\ returned \in Nat \cup {None} /\ failed \subseteq Nat
    /\ maxDuration \in Durations \cup {None}

\* Pixels come back in the order of their submits, by submits and by flushes,
\* with failed readbacks between them; the only frames that never come back are
\* those whose own submit said so.
ReturnsInOrder ==
    [][returned' # returned =>
           /\ returned' > returned
           /\ (returned + 1) .. (returned' - 1) \subseteq failed]_coreVars

\* The replay buffer holds what was returned during the last max_duration, all
\* of it and nothing older, in order.
ReplayWindow ==
    LET evicted == Len(pushed) - Len(replay) IN
    /\ evicted >= 0
    /\ \A k \in 1 .. Len(replay) : replay[k] = pushed[evicted + k]
    /\ \A k \in 1 .. Len(pushed) :
           k > evicted <=> pushed[k].at + maxDuration >= Last(pushed).at
    /\ \A k \in 1 .. Len(replay) - 1 :
           /\ replay[k].frame < replay[k + 1].frame /\ replay[k].at <= replay[k + 1].at
==============================================================================
