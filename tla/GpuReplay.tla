------------------------------ MODULE GpuReplay ------------------------------
(***************************************************************************)
(* GPU stacked replay: YuvStackPacker packs the source frames of every     *)
(* render into an atlas and copies it to a ring of STAGING_SLOTS staging   *)
(* buffers; the atlas that comes out of the ring goes to the recorder      *)
(* attached to StitchCore, which appends it to the replay file.            *)
(*                                                                         *)
(* An atlas is the number of the frame it was packed from.                 *)
(***************************************************************************)
EXTENDS Integers, SequencesExt

CONSTANT MaxFrames      \* bound: frames packed

GpuReplayAssumption == MaxFrames \in Nat

VARIABLES
    packer,         \* stacked_packer is Some
    packed,         \* frames packed so far
    staging,        \* staging_buffers, of the current packer
    currentSlot,    \* current_slot
    pendingCount,   \* pending_count
    recorder,       \* "none", "recording", or "disabled" by a write error
    file,           \* the atlases the recorder has written
    broken          \* a readback failed, or the packer changed, since attach

ringVars == <<packed, staging, currentSlot, pendingCount>>
recorderVars == <<recorder, file, broken>>
vars == <<packer, ringVars, recorderVars>>

------------------------------------------------------------------------------
None == -1

STAGING_SLOTS == 3

Slots == 0 .. STAGING_SLOTS - 1

Init ==
    /\ packer = FALSE
    /\ packed = 0
    /\ staging = [s \in Slots |-> None]
    /\ currentSlot = 0
    /\ pendingCount = 0
    /\ recorder = "none"
    /\ file = <<>>
    /\ broken = FALSE

\* enable_gpu_stacked_replay, also while a packer is there: a fresh ring.
Enable ==
    /\ packer' = TRUE
    /\ staging' = [s \in Slots |-> None]
    /\ currentSlot' = 0
    /\ pendingCount' = 0
    /\ broken' = TRUE
    /\ UNCHANGED <<packed, recorder, file>>

\* set_stacked_gpu_recorder: a recorder that is replaced closes its file.
SetRecorder ==
    /\ recorder' = "recording"
    /\ file' = <<>>
    /\ broken' = FALSE
    /\ UNCHANGED <<packer, ringVars>>

\* clear_stacked_gpu_recorder finishes the file. The ring is not flushed.
ClearRecorder ==
    /\ recorder # "none"
    /\ recorder' = "none"
    /\ UNCHANGED <<packer, ringVars, file, broken>>

Disable ==
    /\ packer
    /\ packer' = FALSE
    /\ recorder' = "none"
    /\ UNCHANGED <<ringVars, file, broken>>

\* record_atlas, whose write may fail and disable the recorder for good.
Record(atlas) ==
    \/ /\ recorder = "recording"
       /\ file' = Append(file, atlas)
       /\ UNCHANGED recorder
    \/ /\ recorder = "recording"
       /\ recorder' = "disabled"
       /\ UNCHANGED file
    \/ /\ recorder # "recording"
       /\ UNCHANGED <<recorder, file>>

\* Mutant of ReadSlot: the ring taken for a double buffer.
ReadSlotOfTwo(advanced) == (advanced + 1) % 2

\* The slot poll_ready reads, given current_slot after copy_to_staging.
ReadSlot(advanced) == (advanced + 1) % STAGING_SLOTS

\* pack_gpu_stacked_replay_from_views: copy_to_staging, poll_ready, record.
\* A failed poll or map is None to the caller: the atlas is passed over.
Pack ==
    LET advanced == (currentSlot + 1) % STAGING_SLOTS
        pending  == IF pendingCount + 1 < STAGING_SLOTS THEN pendingCount + 1
                    ELSE STAGING_SLOTS
    IN  /\ packer
        /\ packed < MaxFrames
        /\ staging' = [staging EXCEPT ![currentSlot] = packed]
        /\ currentSlot' = advanced
        /\ pendingCount' = pending
        /\ packed' = packed + 1
        /\ IF pending < STAGING_SLOTS
           THEN UNCHANGED recorderVars
           ELSE \/ Record(staging'[ReadSlot(advanced)]) /\ UNCHANGED broken
                \/ broken' = TRUE /\ UNCHANGED <<recorder, file>>
        /\ UNCHANGED packer

Next == Enable \/ Disable \/ SetRecorder \/ ClearRecorder \/ Pack

Spec == Init /\ [][Next]_vars

------------------------------------------------------------------------------
(* Properties *)

TypeOK ==
    /\ packer \in BOOLEAN
    /\ packed \in Nat
    /\ staging \in [Slots -> Nat \cup {None}]
    /\ currentSlot \in Slots
    /\ pendingCount \in 0 .. STAGING_SLOTS
    /\ recorder \in {"none", "recording", "disabled"}
    /\ file \in Seq(Nat)
    /\ broken \in BOOLEAN

\* Whatever fails, is replaced or is disabled on the way, the replay file
\* holds the frames in the order they were rendered, none of them twice.
FileInOrder ==
    \A i \in 1 .. Len(file) - 1 : file[i] < file[i + 1]

\* Unless a readback fails or the packer is rebuilt, the file has no gap
\* between its first frame and its last.
FileContiguous ==
    ~broken /\ file # <<>> => Last(file) - Head(file) = Len(file) - 1

\* poll_ready as documented: an atlas is recorded two submits after the submit
\* that packed it.
TwoSubmitsAgo ==
    [][file' # file /\ file' # <<>> => Last(file') = packed' - 3]_vars
=============================================================================
