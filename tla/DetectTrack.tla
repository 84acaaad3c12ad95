----------------------------- MODULE DetectTrack -----------------------------
(***************************************************************************)
(* StitchSession::run_immediate, frame by frame: the detector runs on      *)
(* every Interval-th frame, its detections are retained in between, and    *)
(* the ball tracker (nearest-to-last with a jump gate, a player anchor and *)
(* a coaster) is run on them for every frame before the frame is rendered. *)
(*                                                                         *)
(* CPU frames and Linux decode slots are detected on in place. Windows     *)
(* detects on the D3D11 staging slots, which the frame is copied to only   *)
(* when it is rendered.                                                    *)
(*                                                                         *)
(* Positions are a yaw in whole units; a detection's confidence is its     *)
(* 0.1-rad weight in the same units. What a frame shows is the detector's  *)
(* choice, made when it runs.                                              *)
(***************************************************************************)
EXTENDS Integers, FiniteSets

CONSTANTS
    Intervals,      \* intervals a caller may pass to set_detection_interval
    MaxCoast,       \* max_coast_frames
    MaxJump,        \* max_jump_rad
    AnchorRadius,   \* player_anchor_max_rad
    Residencies,    \* of "InPlace" and "D3d11Staging"
    Yaws,           \* where the detector may see something, from the left edge
    Weights,        \* confidences, by the weight they get
    MaxSeen,        \* bound: balls seen in one frame
    SourceLength    \* bound: frames of the source

ASSUME DetectTrackAssumption ==
    /\ Intervals \subseteq Nat /\ MaxCoast \in Nat
    /\ MaxJump \in Nat /\ AnchorRadius \in Nat
    /\ Residencies \subseteq {"InPlace", "D3d11Staging"}
    /\ Yaws \subseteq Nat /\ Weights \subseteq Nat
    /\ MaxSeen \in Nat /\ SourceLength \in Nat

VARIABLES
    interval,       \* the interval passed to set_detection_interval
    residency,      \* how the source's frames reach the detector
    next,           \* source frames taken
    frameCount,     \* session.frame_count
    staging,        \* D3D11 staging slot (left and right) -> frame in it
    staged,         \* the staging pool exists
    detections,     \* last_detections, and the frame they were made on
    last,           \* BallTracker.last
    framesCoasting, \* Coaster.frames_coasting
    everTracked,    \* Coaster.ever_tracked
    ageFrames,      \* age_frames
    ball,           \* the ball entity of the WorldState, NoBall if none
    seenOn,         \* the frame whose detection the tracker last accepted
    decided         \* the frame just processed, and what it was decided on

sessionVars == <<interval, residency, next, frameCount, staging, staged,
                 detections>>
trackerVars == <<last, framesCoasting, everTracked, ageFrames>>
vars == <<sessionVars, trackerVars, ball, seenOn, decided>>

------------------------------------------------------------------------------
None == -1          \* no frame, no position

Candidates == [yaw : Yaws, weight : Weights]

NoBall == [state |-> "None", yaw |-> None, age |-> 0]

DetectionInterval == IF interval > 1 THEN interval ELSE 1

Distance(a, b) == IF a > b THEN a - b ELSE b - a

Init ==
    /\ interval \in Intervals
    /\ residency \in Residencies
    /\ next = 0
    /\ frameCount = 0
    /\ staging = [s \in {0, 1} |-> None]
    /\ staged = FALSE
    /\ detections = [frame |-> None, balls |-> {}, players |-> {}]
    /\ last = None
    /\ framesCoasting = 0
    /\ everTracked = FALSE
    /\ ageFrames = 0
    /\ ball = NoBall
    /\ seenOn = None
    /\ decided = [frame |-> None, on |-> None]

------------------------------------------------------------------------------
\* Mutant of ShouldDetect: Interval frames without detection between two.
ShouldDetectLate == frameCount % (DetectionInterval + 1) = 0

ShouldDetect == frameCount % DetectionInterval = 0

\* The frame the detector gets to see: this one, or what a staging slot holds.
DetectedFrame == IF residency = "InPlace" THEN next ELSE staging[frameCount % 2]

\* Mutant of Detect: only a detector that saw something is listened to.
DetectKeepingOld ==
    IF ShouldDetect /\ (residency = "InPlace" \/ staged)
    THEN \E b \in SUBSET Candidates, p \in SUBSET Yaws :
             /\ Cardinality(b) <= MaxSeen /\ Cardinality(p) <= 1
             /\ detections' = IF b = {} THEN detections
                              ELSE [frame |-> DetectedFrame, balls |-> b, players |-> p]
    ELSE UNCHANGED detections

\* Detection is skipped on the D3D11 frame that creates the pool. A detector
\* error leaves no detections.
Detect ==
    IF ShouldDetect /\ (residency = "InPlace" \/ staged)
    THEN \E b \in SUBSET Candidates, p \in SUBSET Yaws :
             /\ Cardinality(b) <= MaxSeen /\ Cardinality(p) <= 1
             /\ detections' = [frame |-> DetectedFrame, balls |-> b, players |-> p]
    ELSE UNCHANGED detections

\* Mutant of Survivors: the jump gate is forgotten.
SurvivorsUngated(d) ==
    {c \in d.balls :
        d.players = {} \/ \E p \in d.players : Distance(c.yaw, p) <= AnchorRadius}

\* Detections near enough to a player, if any player is known, and to the
\* last position, if there is one.
Survivors(d) ==
    {c \in d.balls :
        /\ d.players = {} \/ \E p \in d.players : Distance(c.yaw, p) <= AnchorRadius
        /\ last = None \/ Distance(c.yaw, last) <= MaxJump}

Score(c) == (IF last = None THEN 0 ELSE Distance(c.yaw, last)) - c.weight

Accept(c) ==
    /\ framesCoasting' = 0
    /\ everTracked' = TRUE
    /\ last' = c.yaw
    /\ ageFrames' = ageFrames + 1
    /\ ball' = [state |-> "Tracking", yaw |-> c.yaw, age |-> ageFrames + 1]

CanCoast == everTracked /\ framesCoasting < MaxCoast

\* Coaster.step_without_fresh says Coasting, and the position is held. (With
\* no position to hold the tracker would report no ball.)
Coast ==
    /\ CanCoast
    /\ framesCoasting' = framesCoasting + 1
    /\ IF last # None
       THEN /\ ageFrames' = ageFrames + 1
            /\ ball' = [state |-> "Coasting", yaw |-> last, age |-> ageFrames + 1]
       ELSE ball' = NoBall /\ UNCHANGED ageFrames
    /\ UNCHANGED <<last, everTracked>>

ReportLoss ==
    IF last # None
    THEN ageFrames' = 0 /\ ball' = [state |-> "Lost", yaw |-> last, age |-> 0]
    ELSE ball' = NoBall /\ UNCHANGED ageFrames

\* Mutant of Lose: the position is kept for one more frame.
LoseKeepingLast ==
    /\ ~CanCoast
    /\ framesCoasting' = IF everTracked THEN MaxCoast ELSE framesCoasting
    /\ everTracked' = FALSE
    /\ ReportLoss
    /\ last' = IF everTracked THEN last ELSE None

\* Mutant of Lose: the coaster is not told.
LoseQuietly ==
    /\ ~CanCoast
    /\ ReportLoss
    /\ last' = None
    /\ UNCHANGED <<framesCoasting, everTracked>>

\* Coaster.step_without_fresh says Lost: a ball that was tracked is reported
\* as lost, once.
Lose ==
    /\ ~CanCoast
    /\ framesCoasting' = IF everTracked THEN MaxCoast ELSE framesCoasting
    /\ everTracked' = FALSE
    /\ ReportLoss
    /\ last' = None

\* BallTracker.update on the detections retained after this frame's Detect.
Track(d) ==
    LET alive == Survivors(d)
    IN  IF alive # {}
        THEN /\ seenOn' = d.frame
             /\ \E c \in alive :
                    /\ \A o \in alive : Score(c) <= Score(o)
                    /\ Accept(c)
        ELSE UNCHANGED seenOn /\ (Coast \/ Lose)

\* stage_d3d11_frames: the slot is picked by the number of frames rendered.
Stage ==
    IF residency = "D3d11Staging"
    THEN staging' = [staging EXCEPT ![frameCount % 2] = next] /\ staged' = TRUE
    ELSE UNCHANGED <<staging, staged>>

\* The D3D11 frame that creates the pool is staged but neither rendered nor
\* counted.
WarmsUp == residency = "D3d11Staging" /\ ~staged

\* One iteration of run_immediate.
ProcessFrame ==
    /\ next < SourceLength
    /\ Detect
    /\ Track(detections')
    /\ Stage
    /\ next' = next + 1
    /\ IF WarmsUp
       THEN UNCHANGED <<frameCount, decided>>
       ELSE /\ frameCount' = frameCount + 1
            /\ decided' = [frame |-> next, on |-> detections'.frame]
    /\ UNCHANGED <<interval, residency>>

Next == ProcessFrame

Spec == Init /\ [][Next]_vars

------------------------------------------------------------------------------
(* Properties *)

Frames == Nat \cup {None}

TypeOK ==
    /\ interval \in Intervals
    /\ residency \in Residencies
    /\ next \in Nat
    /\ frameCount \in Nat
    /\ staging \in [{0, 1} -> Frames]
    /\ staged \in BOOLEAN
    /\ detections \in [frame : Frames, balls : SUBSET Candidates, players : SUBSET Yaws]
    /\ last \in Yaws \cup {None}
    /\ framesCoasting \in 0 .. MaxCoast
    /\ everTracked \in BOOLEAN
    /\ ageFrames \in Nat
    /\ ball \in [state : {"None", "Tracking", "Coasting", "Lost"},
                 yaw : Yaws \cup {None}, age : Nat]
    /\ seenOn \in Frames
    /\ decided \in [frame : Frames, on : Frames]

\* How far the detector is behind on what it sees: two frames on Windows.
Lag == IF residency = "InPlace" THEN 0 ELSE 2

\* No pose is decided on detections older than the detection interval; on
\* Windows, than the interval and two frames.
DetectionsRecent ==
    decided.frame # None /\ decided.on # None =>
        decided.frame - decided.on \in 0 .. DetectionInterval - 1 + Lag

\* The camera never follows a ball that no frame of the last MaxCoast and one
\* detection interval showed, however detections are retained, gated, coasted
\* on and picked up again.
NoPhantomBall ==
    ball.state \in {"Tracking", "Coasting"} /\ seenOn # None =>
        next - 1 - seenOn <= MaxCoast + DetectionInterval - 1 + Lag

\* The coaster and the tracker agree on whether there is a track: the tracker
\* never coasts without a position to hold.
CoasterAgrees == everTracked <=> last # None

\* A ball is lost once: from then on it is absent until a detection is
\* accepted, and its age starts anew.
LostOnce ==
    [][ball.state \in {"Lost", "None"} =>
           ball'.state = "None" \/ (ball'.state = "Tracking" /\ ball'.age = 1)]_vars

\* A ball that is not lost in between never leaps further than the gate.
NoLeap ==
    [][/\ ball.state \in {"Tracking", "Coasting"}
       /\ ball'.state \in {"Tracking", "Coasting"}
       => Distance(ball'.yaw, ball.yaw) <= MaxJump]_vars

\* Trackers get "the current frame's mapped detections": with a detection on
\* every frame, the frame that is decided is the frame that was looked at.
DetectionsAreCurrent ==
    DetectionInterval = 1 /\ decided.frame # None => decided.on = decided.frame
==============================================================================
