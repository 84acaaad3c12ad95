------------------------------- MODULE ObsSource -------------------------------
(***************************************************************************)
(* The OBS plugin: one Reco source in a scene. OBS calls its update,       *)
(* video_tick and frontend-event callbacks; the source keeps a stitch core *)
(* and, inside the core, the recorder of the replay file. Both are built,  *)
(* dropped and rebuilt as properties, upstream resolutions and OBS's own   *)
(* Record and Stream buttons change.                                       *)
(*                                                                         *)
(* A resolution is a number. The two upstream sources are picked once and  *)
(* deliver I420. The width and height of the output take the same path as  *)
(* those of the input and are left out, as are the texture and the pose.   *)
(* The frontend API is present and the replay feature is on.               *)
(***************************************************************************)
EXTENDS Integers, Sequences

CONSTANTS
    Sizes,          \* resolutions: of the Properties dialog and of the cameras
    Formats,        \* input formats of the dialog: among "i420" and "bgra"
    MaxChanges      \* bound: what the user, OBS and the machine do

ObsSourceAssumption ==
    /\ Sizes \subseteq Nat \ {0} /\ Sizes # {}
    /\ "i420" \in Formats /\ Formats \subseteq {"i420", "bgra"}
    /\ MaxChanges \in Nat

VARIABLES
    settings,       \* what the Properties dialog holds
    src,            \* the RecoSource
    upstream,       \* camera -> 0 until OBS has made it, then its resolution
    obs,            \* "record" and "stream" -> OBS is doing it
    events,         \* the frontend events not yet delivered
    active,         \* OBS_RECORDING_OR_STREAMING
    gpu,            \* what making a GPU session would do
    disk,           \* the replay file can be opened and written
    out,            \* what the last tick did
    changes         \* counts against MaxChanges

sourceVars == <<settings, src, upstream, obs, events, active, gpu, disk, out,
                changes>>

------------------------------------------------------------------------------
Cameras == {"left", "right"}

ObsOutputs == {"record", "stream"}

Settings == [config: {"none", "good", "broken"}, inp: Sizes, format: Formats,
             replay: BOOLEAN, follow: BOOLEAN]

NoRecorder == [size |-> 0, frames |-> 0, works |-> FALSE]

NoCore == [inp |-> 0, recorder |-> NoRecorder]

(* update_replay_recorder: bring the recorder in line with the settings.   *)
WantRecording(s) ==
    /\ s.replay
    /\ s.follow => active
    /\ s.core # NoCore

UpdateRecorder(s) ==
    CASE WantRecording(s) /\ ~s.attached /\ disk ->
            [s EXCEPT !.core.recorder =
                          [size |-> s.inp, frames |-> 0, works |-> TRUE],
                      !.attached = TRUE]
      [] ~WantRecording(s) /\ s.attached ->
            [s EXCEPT !.core.recorder = NoRecorder, !.attached = FALSE]
      [] OTHER -> s

\* Mutant of TryInit: the tracking flag survives the core.
TryInitKeepsFlag(s) ==
    IF ~s.calibrated \/ gpu = "absent" THEN s
    ELSE IF gpu = "refuses" THEN [s EXCEPT !.core = NoCore]
    ELSE UpdateRecorder([s EXCEPT !.core = [inp |-> s.inp, recorder |-> NoRecorder]])

(* try_init_pipeline: no calibration and no GPU leave the source as it is. *)
TryInit(s) ==
    IF ~s.calibrated \/ gpu = "absent" THEN s
    ELSE IF gpu = "refuses" THEN [s EXCEPT !.core = NoCore, !.attached = FALSE]
    ELSE UpdateRecorder([s EXCEPT !.core = [inp |-> s.inp, recorder |-> NoRecorder],
                                  !.attached = FALSE])

LoadCalibration(s) ==
    IF s.config = "good" THEN [s EXCEPT !.calibrated = TRUE]
    ELSE [s EXCEPT !.calibrated = FALSE, !.core = NoCore]

\* Mutant of Resolved: sources missing at creation stay missing.
ResolvedNever(s) == s

(* A slot without a source is looked up again.                             *)
Resolved(s) ==
    [s EXCEPT !.slot = [c \in Cameras |-> @[c] \/ upstream[c] # 0]]

ApplySettings(s, new) ==
    Resolved([s EXCEPT !.config = new.config, !.inp = new.inp,
                       !.core = IF new.format = s.format THEN @ ELSE NoCore,
                       !.format = new.format, !.replay = new.replay,
                       !.follow = new.follow])

Init ==
    /\ settings \in Settings
    /\ upstream \in [Cameras -> {0} \cup Sizes]
    /\ obs = [o \in ObsOutputs |-> FALSE]
    /\ events = <<>>
    /\ active = FALSE
    /\ gpu = "works"
    /\ disk = TRUE
    /\ src = LET blank == [core |-> NoCore, calibrated |-> FALSE,
                           config |-> "none", inp |-> settings.inp,
                           format |-> "i420", slot |-> [c \in Cameras |-> FALSE],
                           replay |-> FALSE, follow |-> TRUE, attached |-> FALSE]
             IN  TryInit(LoadCalibration(ApplySettings(blank, settings)))
    /\ out = "nothing"
    /\ changes = 0

Change ==
    /\ changes < MaxChanges
    /\ changes' = changes + 1

(* The dialog passes all its properties when one changes; settings itself  *)
(* stands for a change of one that is left out here, like the yaw.         *)
Edited == {new \in Settings :
              \E p \in DOMAIN new : new = [settings EXCEPT ![p] = new[p]]}

(* source_update.                                                          *)
Update(new) ==
    LET applied == ApplySettings(src, new)
        newConfig == new.config # src.config
        loaded == IF newConfig THEN LoadCalibration(applied) ELSE applied
        rebuild == \/ new.inp # src.inp
                   \/ newConfig
                   \/ loaded.core = NoCore /\ loaded.calibrated
    IN  /\ Change
        /\ settings' = new
        /\ src' = IF rebuild THEN TryInit(loaded) ELSE UpdateRecorder(loaded)
        /\ UNCHANGED <<upstream, obs, events, active, gpu, disk, out>>

(* The recorder sees every pair the core is given; its first failure, or a *)
(* pair of another size, ends the recording but leaves it attached.        *)
Recorded(core) ==
    LET r == core.recorder IN
    IF ~r.works THEN core
    ELSE IF r.size # core.inp \/ ~disk THEN [core EXCEPT !.recorder.works = FALSE]
    ELSE [core EXCEPT !.recorder.frames = 1]

(* One side has no picture, or the pair does not fit the core's format.    *)
Unusable(s, frames) ==
    \/ s.core = NoCore
    \/ ~frames
    \/ \E c \in Cameras : ~s.slot[c]
    \/ s.format # "i420"
    \/ upstream["left"] # upstream["right"]

(* Both cameras have another resolution than the core was built for.       *)
AutoDetect(s) ==
    TryInit([s EXCEPT !.inp = upstream["left"], !.core = NoCore,
                      !.attached = FALSE])

(* source_video_tick. Every thirtieth tick polls: it looks the missing     *)
(* sources up and brings the recorder in line. frames: both cameras have   *)
(* a picture ready.                                                        *)
Tick(poll, frames) ==
    LET s == IF poll THEN UpdateRecorder(Resolved(src)) ELSE src IN
    /\ \/ /\ Unusable(s, frames)
          /\ src' = s
          /\ out' = "nothing"
       \/ /\ ~Unusable(s, frames)
          /\ upstream["left"] # s.inp
          /\ src' = AutoDetect(s)
          /\ out' = "rebuilt"
       \/ /\ ~Unusable(s, frames)
          /\ upstream["left"] = s.inp
          /\ src' = [s EXCEPT !.core = Recorded(s.core)]
          /\ out' = IF s.core.inp = s.inp THEN "stitched" ELSE "error"
    /\ UNCHANGED <<settings, upstream, obs, events, active, gpu, disk, changes>>

\* Mutant of FrontendEvent: the other output is not asked.
FrontendEventEither ==
    /\ events # <<>>
    /\ events' = Tail(events)
    /\ active' = (Head(events) = "started")
    /\ UNCHANGED <<settings, src, upstream, obs, gpu, disk, out, changes>>

(* on_frontend_event: Record or Stream has started or stopped.             *)
FrontendEvent ==
    /\ events # <<>>
    /\ events' = Tail(events)
    /\ active' = CASE Head(events) = "started" -> TRUE
                   [] \A o \in ObsOutputs : ~obs[o] -> FALSE
                   [] OTHER -> active
    /\ UNCHANGED <<settings, src, upstream, obs, gpu, disk, out, changes>>

ObsPress(o) ==
    /\ Change
    /\ obs' = [obs EXCEPT ![o] = ~@]
    /\ events' = Append(events, IF obs[o] THEN "stopped" ELSE "started")
    /\ UNCHANGED <<settings, src, upstream, active, gpu, disk, out>>

(* A camera appears in the scene or changes its resolution.                *)
CameraChanges(c) ==
    /\ Change
    /\ \E size \in Sizes \ {upstream[c]} : upstream' = [upstream EXCEPT ![c] = size]
    /\ UNCHANGED <<settings, src, obs, events, active, gpu, disk, out>>

(* The GPU or the disk stops working or works again.                       *)
MachineChanges ==
    /\ Change
    /\ \/ gpu' \in {"works", "absent", "refuses"} \ {gpu} /\ UNCHANGED disk
       \/ disk' = ~disk /\ UNCHANGED gpu
    /\ UNCHANGED <<settings, src, upstream, obs, events, active, out>>

Next ==
    \/ \E new \in Edited : Update(new)
    \/ \E poll, frames \in BOOLEAN : Tick(poll, frames)
    \/ FrontendEvent
    \/ \E o \in ObsOutputs : ObsPress(o)
    \/ \E c \in Cameras : CameraChanges(c)
    \/ MachineChanges

Spec == Init /\ [][Next]_sourceVars

(* OBS ticks its sources and delivers its events.                          *)
FairSpec ==
    /\ Spec
    /\ WF_sourceVars(Tick(TRUE, TRUE))
    /\ WF_sourceVars(FrontendEvent)

------------------------------------------------------------------------------
TypeOK ==
    /\ settings \in Settings
    /\ upstream \in [Cameras -> {0} \cup Sizes]
    /\ src.core.inp \in {0} \cup Sizes
    /\ src.inp \in Sizes
    /\ events \in Seq({"started", "stopped"})
    /\ out \in {"nothing", "rebuilt", "stitched", "error"}

(* replay_recorder_attached is kept beside the core because the core has   *)
(* no getter: through rebuilds, failed rebuilds and polls, while there is  *)
(* a core the flag says whether a recorder is in it. A flag left behind    *)
(* would leave a rebuilt core without its recorder for good.               *)
AttachmentTracked ==
    src.core # NoCore => (src.attached <=> src.core.recorder # NoRecorder)

(* The recorder follows OBS: when Record or Stream stays on (or the source *)
(* does not follow), a core with a usable file gets a recorder and keeps   *)
(* it; when both stay off it loses it. The frontend callback sets a flag   *)
(* on another thread, the tick polls it.                                   *)
Called ==
    /\ src.replay
    /\ src.follow => \E o \in ObsOutputs : obs[o]

RecordingFollowsObs ==
    /\ <>[](Called /\ src.core # NoCore /\ disk)
          => <>[](src.core.recorder # NoRecorder)
    /\ <>[](~Called) => <>[](src.core.recorder = NoRecorder)

(* Once calibrated and built, the source stitches for ever: whatever the   *)
(* order in which the scene's sources, the settings and the resolutions    *)
(* came, it finds its cameras and builds the core for their resolution.    *)
CamerasAgree == upstream["left"] = upstream["right"] /\ upstream["left"] # 0

Stitches ==
    <>[](/\ src.core # NoCore /\ src.core.inp = src.inp
         /\ src.format = "i420" /\ CamerasAgree)
        => []<>(out = "stitched")

(* The flag is there "to avoid tearing down and re-attaching the recorder  *)
(* on every settings update when the user changes an unrelated property":  *)
(* an update of another property (the pose) leaves a running recorder.     *)
UnrelatedUpdateKeepsRecorder ==
    [][/\ Update(settings)
       /\ src.core.recorder.works /\ src.core.recorder.frames = 1
       /\ WantRecording(src)
       => src'.core.recorder = src.core.recorder]_sourceVars

==============================================================================
