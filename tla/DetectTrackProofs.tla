-------------------------- MODULE DetectTrackProofs --------------------------
(***************************************************************************)
(* How old the detections behind a pose can be, how long a ball can be     *)
(* followed unseen, and the life cycle of a track: for every detection     *)
(* interval, coast budget, gate, source length and choice of the detector. *)
(***************************************************************************)
EXTENDS DetectTrack, TLAPS

\* The tracker and its coaster agree with each other and with what they
\* reported: a followed ball is at the held position, and a track that is not
\* there has no age.
TrackInv ==
    /\ everTracked <=> last # None
    /\ everTracked <=> ball.state \in {"Tracking", "Coasting"}
    /\ everTracked => ball.yaw = last
    /\ ~everTracked => ageFrames = 0

\* Where the session is in the source, and what the staging slots hold: the
\* slot the next frame goes to is at most two frames old, the other one frame.
StagingInv ==
    /\ residency = "InPlace" => /\ next = frameCount /\ ~staged
                               /\ \A s \in {0, 1} : staging[s] = None
    /\ residency = "D3d11Staging" /\ staged => next = frameCount + 1
    /\ residency = "D3d11Staging" /\ ~staged => next = 0 /\ frameCount = 0
    /\ \A s \in {0, 1} : staging[s] # None =>
           next - staging[s] \in 1 .. (IF s = frameCount % 2 THEN 2 ELSE 1)

\* The retained detections age by one a frame until the next detection.
AgeInv ==
    /\ frameCount = 0 => detections.frame = None
    /\ detections.frame # None =>
           next - 1 - detections.frame \in 0 .. ((frameCount - 1) % DetectionInterval) + Lag

\* A track is as old as the detection it was accepted on, and the frames
\* coasted since.
TrackAgeInv ==
    everTracked /\ seenOn # None =>
        next - 1 - seenOn - framesCoasting <= DetectionInterval - 1 + Lag

Inv ==
    /\ TypeOK
    /\ TrackInv
    /\ StagingInv
    /\ AgeInv
    /\ DetectionsRecent
    /\ TrackAgeInv

------------------------------------------------------------------------------
(* Arithmetic *)

LEMMA IntervalPositive ==
  ASSUME TypeOK PROVE DetectionInterval \in Nat \ {0}
BY DetectTrackAssumption DEF TypeOK, DetectionInterval

LEMMA DivisionIdentity ==
  ASSUME NEW d \in Nat, d > 0, NEW c \in Int
  PROVE  c = d * (c \div d) + (c % d) /\ c \div d \in Int /\ c % d \in 0 .. d - 1
<1>1. c = d * (c \div d) + (c % d)
  OBVIOUS
<1>2. c \div d \in Int
  OBVIOUS
<1>3. c % d \in 0 .. d - 1
  OBVIOUS
<1> QED
  BY <1>1, <1>2, <1>3

\* A non-zero multiple of d is at least d away from zero.
LEMMA MultipleApart ==
  ASSUME NEW d \in Nat \ {0}, NEW k \in Int, k # 0
  PROVE  d * k >= d \/ d * k <= -d
<1>1. CASE k >= 1
  BY <1>1
<1>2. CASE k <= -1
  BY <1>2
<1> QED
  BY <1>1, <1>2

\* Counting on, a remainder grows by one or starts again from zero.
LEMMA RemainderStep ==
  ASSUME NEW c \in Nat \ {0}, NEW d \in Nat \ {0}, c % d # 0
  PROVE  c % d = ((c - 1) % d) + 1
<1> DEFINE q == c \div d
           r == c % d
           p == (c - 1) \div d
           o == (c - 1) % d
<1>1. /\ c = d * q + r /\ q \in Int /\ r \in 0 .. d - 1
      /\ c - 1 = d * p + o /\ p \in Int /\ o \in 0 .. d - 1
  BY DivisionIdentity
<1>2. r # 0
  OBVIOUS
<1> SUFFICES r = o + 1
  OBVIOUS
<1> HIDE DEF q, r, p, o
<1>3. q - p \in Int /\ d * (q - p) = o + 1 - r
  BY <1>1
<1>4. CASE q - p = 0
  BY <1>1, <1>3, <1>4
<1>5. CASE q - p # 0
  <2>1. d * (q - p) >= d \/ d * (q - p) <= -d
    BY <1>3, <1>5, MultipleApart
  <2>2. o + 1 - r \in -(d - 1) + 1 .. d - 1
    BY <1>1, <1>2
  <2> QED
    BY <1>3, <2>1, <2>2
<1> QED
  BY <1>4, <1>5

LEMMA RemainderRange ==
  ASSUME NEW c \in Nat, NEW d \in Nat \ {0}
  PROVE  c % d \in 0 .. d - 1
OBVIOUS

------------------------------------------------------------------------------
(* The tracker *)

LEMMA InitInv == Init => Inv
<1> SUFFICES ASSUME Init PROVE Inv
  OBVIOUS
<1> USE DetectTrackAssumption
<1>1. TypeOK
  <2>1. /\ staging \in [{0, 1} -> Frames]
        /\ detections \in [frame : Frames, balls : SUBSET Candidates, players : SUBSET Yaws]
    BY DEF Init, Frames
  <2>2. /\ ball \in [state : {"None", "Tracking", "Coasting", "Lost"},
                     yaw : Yaws \cup {None}, age : Nat]
        /\ seenOn \in Frames
        /\ decided \in [frame : Frames, on : Frames]
    BY DEF Init, Frames, NoBall
  <2>3. staged \in BOOLEAN /\ everTracked \in BOOLEAN
    BY DEF Init
  <2>4. next \in Nat /\ frameCount \in Nat /\ ageFrames \in Nat /\ framesCoasting \in 0 .. MaxCoast
    BY DEF Init
  <2>5. interval \in Intervals /\ residency \in Residencies /\ last \in Yaws \cup {None}
    BY DEF Init
  <2> QED
    BY <2>1, <2>2, <2>3, <2>4, <2>5 DEF TypeOK
<1>2. TrackInv
  BY DEF Init, TrackInv, None, NoBall
<1>3. StagingInv
  BY DEF Init, StagingInv, None
<1>4. AgeInv /\ DetectionsRecent /\ TrackAgeInv
  BY DEF Init, AgeInv, DetectionsRecent, TrackAgeInv, None
<1> QED
  BY <1>1, <1>2, <1>3, <1>4 DEF Inv

\* What Detect may leave behind: what was there, or the choice of a detector
\* that ran on the frame it got to see.
LEMMA DetectCases ==
  ASSUME TypeOK, Detect
  PROVE  \/ /\ ShouldDetect /\ (residency = "InPlace" \/ staged)
            /\ detections'.frame = DetectedFrame
            /\ detections'.balls \subseteq Candidates /\ detections'.players \subseteq Yaws
            /\ detections' = [frame |-> detections'.frame, balls |-> detections'.balls,
                              players |-> detections'.players]
         \/ /\ ~(ShouldDetect /\ (residency = "InPlace" \/ staged))
            /\ detections' = detections
BY DEF Detect, TypeOK

LEMMA DetectionsTyped ==
  ASSUME TypeOK, Detect
  PROVE  detections' \in [frame : Frames, balls : SUBSET Candidates, players : SUBSET Yaws]
<1>1. DetectedFrame \in Frames
  <2>1. frameCount % 2 \in {0, 1}
    BY DEF TypeOK
  <2> QED
    BY <2>1 DEF DetectedFrame, TypeOK, Frames
<1> QED
  BY <1>1, DetectCases DEF TypeOK

\* The tracker takes a survivor, coasts, or has lost the ball.
LEMMA TrackCases ==
  ASSUME NEW d, Track(d)
  PROVE  \/ seenOn' = d.frame /\ \E c \in Survivors(d) : Accept(c)
         \/ seenOn' = seenOn /\ (Coast \/ Lose)
BY DEF Track

\* A survivor is a position, within the gate of the last one.
LEMMA SurvivorNear ==
  ASSUME NEW d \in [frame : Frames, balls : SUBSET Candidates, players : SUBSET Yaws],
         NEW c \in Survivors(d)
  PROVE  c.yaw \in Yaws /\ (last = None \/ Distance(c.yaw, last) <= MaxJump)
BY DEF Survivors, Candidates

TrackerTyped ==
    /\ last \in Yaws \cup {None}
    /\ framesCoasting \in 0 .. MaxCoast
    /\ everTracked \in BOOLEAN
    /\ ageFrames \in Nat
    /\ ball \in [state : {"None", "Tracking", "Coasting", "Lost"},
                 yaw : Yaws \cup {None}, age : Nat]

\* One update of the tracker keeps it and its coaster in agreement.
LEMMA TrackStep ==
  ASSUME TypeOK, TrackInv,
         NEW d \in [frame : Frames, balls : SUBSET Candidates, players : SUBSET Yaws],
         Track(d)
  PROVE  TrackerTyped' /\ TrackInv'
<1> USE DetectTrackAssumption
<1>0. TrackerTyped
  BY DEF TypeOK, TrackerTyped
<1>1. ASSUME NEW c \in Survivors(d), Accept(c) PROVE TrackerTyped' /\ TrackInv'
  <2>1. c.yaw \in Yaws /\ c.yaw # None
    BY SurvivorNear DEF None
  <2> QED
    BY <1>0, <1>1, <2>1 DEF Accept, TrackerTyped, TrackInv
<1>2. CASE Coast
  <2>1. last # None /\ everTracked
    BY <1>2 DEF Coast, CanCoast, TrackInv
  <2> QED
    BY <1>0, <1>2, <2>1 DEF Coast, CanCoast, TrackerTyped, TrackInv
<1>3. CASE Lose
  <2>1. /\ everTracked' = FALSE /\ last' = None
        /\ framesCoasting' \in 0 .. MaxCoast
    BY <1>0, <1>3 DEF Lose, TrackerTyped
  <2>2. CASE last # None
    <3>1. ageFrames' = 0 /\ ball' = [state |-> "Lost", yaw |-> last, age |-> 0]
      BY <1>3, <2>2 DEF Lose, ReportLoss
    <3> QED
      BY <1>0, <2>1, <3>1 DEF TrackerTyped, TrackInv
  <2>3. CASE last = None
    <3>1. ageFrames' = ageFrames /\ ball' = [state |-> "None", yaw |-> None, age |-> 0]
      BY <1>3, <2>3 DEF Lose, ReportLoss, NoBall
    <3>2. ageFrames = 0
      BY <2>3 DEF TrackInv
    <3> QED
      BY <1>0, <2>1, <3>1, <3>2 DEF TrackerTyped, TrackInv
  <2> QED
    BY <2>2, <2>3
<1> QED
  BY <1>1, <1>2, <1>3, TrackCases

------------------------------------------------------------------------------
(* The session *)

\* Slots alternate.
LEMMA SlotsAlternate ==
  ASSUME NEW c \in Nat
  PROVE  /\ c % 2 \in {0, 1} /\ (c + 1) % 2 \in {0, 1}
         /\ c % 2 # (c + 1) % 2
OBVIOUS

\* The staged frame goes where the older of the two frames was.
LEMMA StagingStep ==
  ASSUME TypeOK, StagingInv, ProcessFrame
  PROVE  StagingInv' /\ next' \in Nat /\ frameCount' \in Nat
         /\ staging' \in [{0, 1} -> Frames] /\ staged' \in BOOLEAN
<1>1. /\ next' = next + 1 /\ next \in Nat /\ frameCount \in Nat
      /\ residency' = residency /\ residency \in {"InPlace", "D3d11Staging"}
  BY DetectTrackAssumption DEF ProcessFrame, TypeOK
<1>2. CASE residency = "InPlace"
  <2>1. staging' = staging /\ staged' = staged /\ frameCount' = frameCount + 1
    BY <1>2 DEF ProcessFrame, Stage, WarmsUp
  <2> QED
    BY <1>1, <1>2, <2>1 DEF StagingInv, TypeOK
<1>3. CASE residency = "D3d11Staging"
  <2>1. staging' = [staging EXCEPT ![frameCount % 2] = next] /\ staged' = TRUE
    BY <1>3 DEF ProcessFrame, Stage
  <2>2. frameCount' = IF staged THEN frameCount + 1 ELSE frameCount
    BY <1>3 DEF ProcessFrame, WarmsUp
  <2>3. staging' \in [{0, 1} -> Frames]
    BY <1>1, <2>1, SlotsAlternate DEF TypeOK, Frames
  <2>4. next' = frameCount' + 1
    BY <1>1, <1>3, <2>2 DEF StagingInv, TypeOK
  <2>5. ASSUME NEW s \in {0, 1}, staging'[s] # None
        PROVE  next' - staging'[s] \in 1 .. (IF s = frameCount' % 2 THEN 2 ELSE 1)
    <3>1. CASE s = frameCount % 2
      BY <1>1, <2>1, <3>1 DEF TypeOK
    <3>2. CASE s # frameCount % 2
      <4>1. staging'[s] = staging[s] /\ staging[s] \in Nat
        BY <2>1, <2>5, <3>2 DEF TypeOK, Frames
      <4>2. next - staging[s] = 1
        BY <1>1, <2>5, <3>2, <4>1 DEF StagingInv
      <4>3. staged
        BY <1>1, <1>3, <4>1, <4>2 DEF StagingInv
      <4>4. s = frameCount' % 2
        BY <1>1, <2>2, <3>2, <4>3, SlotsAlternate
      <4> QED
        BY <1>1, <4>1, <4>2, <4>4
    <3> QED
      BY <3>1, <3>2
  <2>6. StagingInv'
    BY <1>1, <1>3, <2>1, <2>4, <2>5 DEF StagingInv
  <2> QED
    BY <1>1, <2>1, <2>2, <2>3, <2>6
<1> QED
  BY <1>1, <1>2, <1>3

Delta == detections'.frame

\* The detections a frame is decided on are at most one interval old, with
\* the staging slots' two frames; one that only warms up has none.
LEMMA AgeStep ==
  ASSUME TypeOK, StagingInv, AgeInv, ProcessFrame
  PROVE  /\ AgeInv'
         /\ Delta # None => /\ ~WarmsUp
                            /\ next - Delta \in 0 .. DetectionInterval - 1 + Lag
<1> DEFINE D == DetectionInterval
           c == frameCount
<1>1. /\ next' = next + 1 /\ next \in Nat /\ c \in Nat /\ D \in Nat \ {0}
      /\ residency' = residency /\ interval' = interval
      /\ residency \in {"InPlace", "D3d11Staging"} /\ Lag \in {0, 2}
      /\ D' = D /\ Lag' = Lag
  BY IntervalPositive, DetectTrackAssumption
  DEF ProcessFrame, TypeOK, Lag, DetectionInterval
<1>2. Delta \in Frames
  BY DetectionsTyped DEF ProcessFrame, Delta
<1>3. CASE WarmsUp
  <2>1. c = 0 /\ c' = 0 /\ ~(residency = "InPlace" \/ staged)
    BY <1>3 DEF WarmsUp, ProcessFrame, StagingInv
  <2>2. detections' = detections
    BY <2>1, DetectCases DEF ProcessFrame
  <2>3. Delta = None
    BY <2>1, <2>2 DEF AgeInv, Delta
  <2> QED
    BY <2>1, <2>3 DEF AgeInv, Delta
<1>4. CASE ~WarmsUp
  <2>1. c' = c + 1 /\ (residency = "InPlace" \/ staged)
    BY <1>1, <1>4 DEF WarmsUp, ProcessFrame
  <2>2. c % D \in 0 .. D - 1
    BY <1>1, RemainderRange
  <2>3. Delta # None => next - Delta \in 0 .. (c % D) + Lag
    <3> SUFFICES ASSUME Delta # None PROVE next - Delta \in 0 .. (c % D) + Lag
      OBVIOUS
    <3>1. CASE ShouldDetect
      <4>1. Delta = DetectedFrame
        BY <2>1, <3>1, DetectCases DEF ProcessFrame, Delta
      <4>2. CASE residency = "InPlace"
        <5>1. Delta = next
          BY <4>1, <4>2 DEF DetectedFrame
        <5> QED
          BY <5>1, <1>1, <2>2
      <4>3. CASE residency = "D3d11Staging"
        <5>1. Delta = staging[c % 2] /\ Lag = 2 /\ c % 2 \in {0, 1}
          BY <4>1, <4>3, <1>1, SlotsAlternate DEF DetectedFrame, Lag
        <5>2. next - Delta \in 1 .. 2
          BY <5>1, <1>1 DEF StagingInv
        <5> QED
          BY <5>1, <5>2, <1>1, <1>2, <2>2 DEF Frames
      <4> QED
        BY <1>1, <4>2, <4>3
    <3>2. CASE ~ShouldDetect
      <4>1. Delta = detections.frame
        BY <3>2, DetectCases DEF ProcessFrame, Delta
      <4>2. c # 0 /\ c % D # 0
        BY <3>2, <4>1 DEF AgeInv, ShouldDetect
      <4>3. next - 1 - Delta \in 0 .. ((c - 1) % D) + Lag
        BY <4>1 DEF AgeInv
      <4>4. c % D = ((c - 1) % D) + 1
        BY <1>1, <4>2, RemainderStep
      <4>5. c - 1 \in Nat /\ (c - 1) % D \in 0 .. D - 1
        BY <1>1, <4>2, RemainderRange
      <4> HIDE DEF D
      <4> QED
        BY <1>1, <1>2, <4>3, <4>4, <4>5 DEF Frames
    <3> QED
      BY <3>1, <3>2
  <2>4. AgeInv'
    <3>1. c' # 0 /\ c' - 1 = c
      BY <1>1, <2>1
    <3> SUFFICES ASSUME Delta # None
                 PROVE  next' - 1 - Delta \in 0 .. ((c' - 1) % D) + Lag
      BY <3>1, <1>1 DEF AgeInv, Delta
    <3>2. next' - 1 - Delta = next - Delta
      BY <1>1, <1>2 DEF Frames
    <3> QED
      BY <2>3, <3>1, <3>2
  <2>5. Delta # None => next - Delta \in 0 .. D - 1 + Lag
    <3> HIDE DEF D
    <3> QED
      BY <1>1, <1>2, <2>2, <2>3 DEF Frames
  <2> QED
    BY <1>4, <2>4, <2>5
<1> QED
  BY <1>3, <1>4

\* A track is renewed on detections that are recent, and ages no faster than
\* the frames it coasts.
LEMMA TrackAgeStep ==
  ASSUME Inv, ProcessFrame
  PROVE  TrackAgeInv' /\ seenOn' \in Frames
<1> DEFINE bound == DetectionInterval - 1 + Lag
<1>1. /\ next' = next + 1 /\ next \in Nat /\ bound \in Int /\ bound' = bound
      /\ framesCoasting \in Nat /\ seenOn \in Frames
  BY IntervalPositive, DetectTrackAssumption
  DEF Inv, ProcessFrame, TypeOK, Lag, DetectionInterval
<1>2. Delta \in Frames
  BY DetectionsTyped DEF ProcessFrame, Delta, Inv
<1>3. Delta # None => next - Delta \in 0 .. bound
  BY AgeStep DEF Inv
<1> HIDE DEF bound
<1> SUFFICES /\ seenOn' \in Frames
             /\ everTracked' /\ seenOn' # None =>
                    next' - 1 - seenOn' - framesCoasting' <= bound
  BY <1>1 DEF TrackAgeInv, bound
<1>4. ASSUME seenOn' = Delta, NEW k \in Survivors(detections'), Accept(k)
      PROVE  /\ seenOn' \in Frames
             /\ seenOn' # None => next' - 1 - seenOn' - framesCoasting' <= bound
  <2>1. framesCoasting' = 0
    BY <1>4 DEF Accept
  <2> QED
    BY <1>1, <1>2, <1>3, <1>4, <2>1 DEF Frames
<1>5. ASSUME seenOn' = seenOn, Coast
      PROVE  seenOn # None => next' - 1 - seenOn - framesCoasting' <= bound
  <2>1. framesCoasting' = framesCoasting + 1 /\ everTracked
    BY <1>5 DEF Coast, CanCoast
  <2>2. seenOn # None => next - 1 - seenOn - framesCoasting <= bound
    BY <2>1 DEF Inv, TrackAgeInv, bound
  <2> QED
    BY <1>1, <2>1, <2>2 DEF Frames
<1>6. Lose => ~everTracked'
  BY DEF Lose
<1> QED
  BY <1>1, <1>4, <1>5, <1>6, TrackCases DEF ProcessFrame, Delta

LEMMA StepInv == Inv /\ [Next]_vars => Inv'
<1> SUFFICES ASSUME Inv, [Next]_vars PROVE Inv'
  OBVIOUS
<1>1. CASE ProcessFrame
  <2>1. detections' \in [frame : Frames, balls : SUBSET Candidates, players : SUBSET Yaws]
    BY <1>1, DetectionsTyped DEF ProcessFrame, Inv
  <2>2. TrackerTyped' /\ TrackInv'
    BY <1>1, <2>1, TrackStep DEF ProcessFrame, Inv
  <2>3. /\ StagingInv' /\ next' \in Nat /\ frameCount' \in Nat
        /\ staging' \in [{0, 1} -> Frames] /\ staged' \in BOOLEAN
    BY <1>1, StagingStep DEF Inv
  <2>4. /\ AgeInv'
        /\ Delta # None => ~WarmsUp /\ next - Delta \in 0 .. DetectionInterval - 1 + Lag
    BY <1>1, AgeStep DEF Inv
  <2>5. TrackAgeInv' /\ seenOn' \in Frames
    BY <1>1, TrackAgeStep
  <2>6. /\ interval' = interval /\ residency' = residency
        /\ interval \in Intervals /\ residency \in Residencies /\ next \in Nat
    BY <1>1 DEF ProcessFrame, Inv, TypeOK
  <2>7. \/ decided' = decided /\ WarmsUp
        \/ decided' = [frame |-> next, on |-> Delta] /\ ~WarmsUp
    BY <1>1 DEF ProcessFrame, Delta
  <2>8. decided' \in [frame : Frames, on : Frames]
    <3>1. Delta \in Frames /\ next \in Frames
      BY <2>1, <2>6 DEF Delta, Frames
    <3> QED
      BY <2>7, <3>1 DEF Inv, TypeOK
  <2>9. TypeOK'
    BY <2>1, <2>2, <2>3, <2>5, <2>6, <2>8 DEF TypeOK, TrackerTyped
  <2>10. DetectionsRecent'
    <3>1. DetectionInterval' = DetectionInterval /\ Lag' = Lag
      BY <2>6 DEF DetectionInterval, Lag
    <3>2. CASE WarmsUp
      BY <2>7, <3>1, <3>2 DEF Inv, DetectionsRecent
    <3>3. CASE ~WarmsUp
      BY <2>4, <2>7, <3>1, <3>3 DEF DetectionsRecent
    <3> QED
      BY <3>2, <3>3
  <2> QED
    BY <2>2, <2>3, <2>4, <2>5, <2>9, <2>10 DEF Inv
<1>2. CASE UNCHANGED vars
  <2> USE <1>2 DEF vars, sessionVars, trackerVars
  <2>1. TypeOK' /\ TrackInv'
    BY DEF Inv, TypeOK, TrackInv
  <2>2. StagingInv' /\ AgeInv'
    BY DEF Inv, StagingInv, AgeInv, DetectionInterval, Lag
  <2>3. DetectionsRecent' /\ TrackAgeInv'
    BY DEF Inv, DetectionsRecent, TrackAgeInv, DetectionInterval, Lag
  <2> QED
    BY <2>1, <2>2, <2>3 DEF Inv
<1> QED
  BY <1>1, <1>2 DEF Next

\* run_immediate keeps the invariant, for every interval, budget and source.
THEOREM LoopInvariant == Spec => []Inv
<1> QED
  BY InitInv, StepInv, PTL DEF Spec

------------------------------------------------------------------------------
(* Theorems *)

\* The state of the session and of the tracker keeps its shape; the coast
\* counter never exceeds its budget.
THEOREM TypeCorrect == Spec => []TypeOK
<1>1. Inv => TypeOK
  BY DEF Inv
<1> QED
  BY <1>1, LoopInvariant, PTL

\* A pose is decided on detections no older than one detection interval, or
\* that and two frames where frames reach the detector through staging slots.
THEOREM RecentDetections == Spec => []DetectionsRecent
<1>1. Inv => DetectionsRecent
  BY DEF Inv
<1> QED
  BY <1>1, LoopInvariant, PTL

\* No camera move follows a ball unseen for longer than the coast budget and
\* one detection interval.
THEOREM NoPhantom == Spec => []NoPhantomBall
<1>1. Inv => NoPhantomBall
  <2> SUFFICES ASSUME Inv, ball.state \in {"Tracking", "Coasting"}, seenOn # None
               PROVE  next - 1 - seenOn <= MaxCoast + DetectionInterval - 1 + Lag
    BY DEF NoPhantomBall
  <2>1. next - 1 - seenOn - framesCoasting <= DetectionInterval - 1 + Lag
    BY DEF Inv, TrackInv, TrackAgeInv
  <2>2. /\ next \in Nat /\ seenOn \in Int /\ framesCoasting \in Nat
        /\ framesCoasting <= MaxCoast /\ MaxCoast \in Nat
        /\ DetectionInterval \in Nat /\ Lag \in Nat
    BY IntervalPositive, DetectTrackAssumption DEF Inv, TypeOK, Frames, None, Lag
  <2> QED
    BY <2>1, <2>2
<1> QED
  BY <1>1, LoopInvariant, PTL

\* The tracker's branch for a coaster that coasts without a position is dead.
THEOREM CoasterAgreement == Spec => []CoasterAgrees
<1>1. Inv => CoasterAgrees
  BY DEF Inv, TrackInv, CoasterAgrees
<1> QED
  BY <1>1, LoopInvariant, PTL

\* One update never reports a ball that is not there twice lost, and starts
\* the age of a new track at one.
LEMMA LostStep ==
  ASSUME Inv, ProcessFrame, ball.state \in {"Lost", "None"}
  PROVE  ball'.state = "None" \/ (ball'.state = "Tracking" /\ ball'.age = 1)
<1>1. ~everTracked /\ last = None /\ ageFrames = 0
  BY DEF Inv, TrackInv
<1>2. Lose => ball'.state = "None"
  BY <1>1 DEF Lose, ReportLoss, NoBall
<1>3. ASSUME NEW k \in Survivors(detections'), Accept(k)
      PROVE  ball'.state = "Tracking" /\ ball'.age = 1
  BY <1>1, <1>3 DEF Accept
<1> QED
  BY <1>1, <1>2, <1>3, TrackCases DEF ProcessFrame, Coast, CanCoast

\* A loss is reported once, and the next track starts its own age.
THEOREM LossIsReportedOnce == Spec => LostOnce
<1>1. Inv /\ [Next]_vars =>
        [ball.state \in {"Lost", "None"} =>
             ball'.state = "None" \/ (ball'.state = "Tracking" /\ ball'.age = 1)]_vars
  BY LostStep DEF Next
<1> QED
  BY <1>1, LoopInvariant, PTL DEF Spec, LostOnce

LEMMA LeapStep ==
  ASSUME Inv, ProcessFrame, ball.state \in {"Tracking", "Coasting"},
         ball'.state \in {"Tracking", "Coasting"}
  PROVE  Distance(ball'.yaw, ball.yaw) <= MaxJump
<1>1. last # None /\ ball.yaw = last /\ last \in Nat
  BY DetectTrackAssumption DEF Inv, TrackInv, TypeOK
<1>2. ASSUME NEW k \in Survivors(detections'), Accept(k)
      PROVE  Distance(ball'.yaw, ball.yaw) <= MaxJump
  BY <1>1, <1>2 DEF Accept, Survivors
<1>3. Coast => ball'.yaw = last
  BY <1>1 DEF Coast
<1>4. Distance(last, last) <= MaxJump
  BY <1>1, DetectTrackAssumption DEF Distance
<1>5. Lose => ball'.state \notin {"Tracking", "Coasting"}
  BY <1>1 DEF Lose, ReportLoss
<1> QED
  BY <1>1, <1>2, <1>3, <1>4, <1>5, TrackCases DEF ProcessFrame

\* Whatever the detector says, a followed ball moves at most the gate's width
\* from one frame to the next.
THEOREM NoLeaps == Spec => NoLeap
<1>1. Inv /\ [Next]_vars =>
        [/\ ball.state \in {"Tracking", "Coasting"}
         /\ ball'.state \in {"Tracking", "Coasting"}
         => Distance(ball'.yaw, ball.yaw) <= MaxJump]_vars
  BY LeapStep DEF Next
<1> QED
  BY <1>1, LoopInvariant, PTL DEF Spec, NoLeap
==============================================================================
