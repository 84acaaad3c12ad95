------------------------ MODULE MCLiveProofs ------------------------
(***************************************************************************)
(* What is proved of the live cameras, for every capacity, every delay of  *)
(* the right camera and every backend: by itself, and within the live      *)
(* match of MCLive.                                                        *)
(***************************************************************************)
EXTENDS MCLive, DetectTrackProofs, SequenceTheorems

\* The types of the state; the length of the queues is in LiveBounds.
LiveTyped ==
    /\ backend \in {"i420", "nv12", "nvmm", "v4l2", "rpicam", "duplicate"}
    /\ now \in Nat
    /\ start \in [Live!Cameras -> Nat]
    /\ camera \in [Live!Cameras -> {"on", "ended"}]
    /\ device \in [Live!Cameras -> Seq(Nat)]
    /\ lost \in [Live!Cameras -> Nat]
    /\ thread \in [Live!Cameras -> {"pull", "send", "release", "gone"}]
    /\ inHand \in [Live!Cameras -> Int]
    /\ chan \in [Live!Cameras -> Seq(Nat)]
    /\ released \in [Live!Cameras -> Nat]
    /\ pairing \in {"left", "right", "send", "gone"}
    /\ pair \in [Live!Cameras -> Int]
    /\ pairChan \in Seq([Live!Cameras -> Int])
    /\ caller \in {"idle", "waiting", "left", "right", "using", "none", "stopped",
                   "closing", "gone"}
    /\ got \in [Live!Cameras -> Int]

\* The bounds of the queues, and what a thread about to send has in hand.
LiveBounds ==
    \A c \in Live!Cameras :
        /\ Len(device[c]) <= Capacity /\ Len(chan[c]) <= Capacity
        /\ thread[c] = "send" => inHand[c] \in Nat

\* Who does the pairing, and where a pair under way may stand.
Roles ==
    /\ backend = "nvmm" => pairing = "gone" /\ caller # "waiting"
    /\ backend # "nvmm" => caller \notin {"left", "right", "using"}
    /\ backend = "duplicate" => pairing # "right" /\ pair["left"] = pair["right"]
    /\ pairing = "left" => pair = Live!NoPair
    /\ pairing = "right" => pair["right"] = -1

\* The caller that pairs for itself has been lent the sample of camera c.
Held(c) == caller = "using" \/ (caller = "right" /\ c = "left")

\* Each camera's thread keeps a sample, that sample is on its way to the
\* caller, with the caller or on its way back: never two of these at once.
LentOnce ==
    backend = "nvmm" /\ caller \in {"idle", "left", "right", "using"} =>
        \A c \in Live!Cameras :
            /\ Held(c) =>
                   /\ thread[c] = "release" /\ chan[c] = <<>> /\ released[c] = 0
                   /\ pair[c] = inHand[c]
                   /\ caller = "using" => got[c] = inHand[c]
            /\ ~Held(c) =>
                   \/ thread[c] = "release" /\ chan[c] = <<inHand[c]>> /\ released[c] = 0
                   \/ thread[c] = "release" /\ chan[c] = <<>> /\ released[c] = 1
                   \/ thread[c] # "release" /\ chan[c] = <<>> /\ released[c] = 0

\* Two cameras that started together and have lost nothing.
Undisturbed ==
    /\ backend # "duplicate" /\ start["left"] = start["right"]
    /\ \A c \in Live!Cameras : lost[c] = 0

\* Pairs are still being made.
Zipping ==
    IF backend = "nvmm" THEN caller \in {"idle", "left", "right", "using"}
    ELSE pairing # "gone"

\* The sample of camera c for the pair under way has been received.
Ahead(c) ==
    IF backend = "nvmm" THEN caller = "right" /\ c = "left" ELSE pair[c] # -1

\* The tick that the head of camera c's device has, if its thread is next to
\* receive tick v; and the tick that the camera captures next.
Behind(c, v) == v + Len(chan[c]) + (IF thread[c] = "send" THEN 1 ELSE 0)

Due(c) == IF now <= start[c] THEN start[c] ELSE now

\* The samples of camera c from the next to be received on are v, v + 1, ...
\* through its channel, its thread and its device, up to the clock.
Consecutive(c, v) ==
    /\ \A i \in 1 .. Len(chan[c]) : chan[c][i] = v + i - 1
    /\ thread[c] = "send" => inHand[c] = v + Len(chan[c])
    /\ thread[c] # "gone" =>
           /\ \A i \in 1 .. Len(device[c]) : device[c][i] = Behind(c, v) + i - 1
           /\ camera[c] = "on" => Behind(c, v) + Len(device[c]) = Due(c)

\* Both cameras are at the pair of tick u.
AtPair(u) ==
    \A c \in Live!Cameras :
        /\ Ahead(c) => pair[c] = u
        /\ Consecutive(c, IF Ahead(c) THEN u + 1 ELSE u)

InStep == Undisturbed /\ Zipping => \E u \in Nat : AtPair(u)

\* The pairs made so far are of one tick each.
PairsAlike ==
    backend = "duplicate" \/ Undisturbed =>
        /\ got["left"] = got["right"]
        /\ \A i \in 1 .. Len(pairChan) : pairChan[i]["left"] = pairChan[i]["right"]

LiveInv == LiveTyped /\ LiveBounds /\ Roles /\ LentOnce /\ InStep /\ PairsAlike

LEMMA LiveFacts ==
  /\ Capacity \in Nat \ {0} /\ LateStart \in Nat
  /\ Live!Cameras = {"left", "right"}
  /\ Backends \subseteq {"i420", "nv12", "nvmm", "v4l2", "rpicam", "duplicate"}
  /\ Live!NoPair = [c \in Live!Cameras |-> -1]
BY LiveAssumption DEF Live!LiveCamerasAssumption, Live!Cameras, Live!NoPair, Live!None

LEMMA LiveStarts == Live!Init => LiveInv
<1> SUFFICES ASSUME Live!Init PROVE LiveInv
  OBVIOUS
<1>1. /\ \A c \in Live!Cameras :
             /\ device[c] = <<>> /\ chan[c] = <<>> /\ lost[c] = 0 /\ released[c] = 0
             /\ pair[c] = -1 /\ got[c] = -1 /\ inHand[c] = -1
             /\ thread[c] \in {"pull", "gone"} /\ camera[c] \in {"on", "ended"}
             /\ start[c] \in Nat
      /\ pairChan = <<>> /\ now = 0 /\ caller = "idle" /\ pair = Live!NoPair
      /\ pairing = IF backend = "nvmm" THEN "gone" ELSE "left"
  BY LiveFacts DEF Live!Init
<1>2. LiveTyped
  BY <1>1, LiveFacts DEF Live!Init, LiveTyped
<1>3. \A c \in Live!Cameras : Len(device[c]) = 0 /\ Len(chan[c]) = 0
  BY <1>1
<1>4. LiveBounds /\ Roles /\ LentOnce /\ PairsAlike
  <2>1. Len(pairChan) = 0
    BY <1>1
  <2> QED
    BY <1>1, <1>3, <2>1, LiveFacts DEF LiveBounds, Roles, LentOnce, PairsAlike, Held
<1>5. InStep
  <2> SUFFICES ASSUME Undisturbed PROVE AtPair(start["left"]) /\ start["left"] \in Nat
    BY DEF InStep
  <2>1. \A c \in Live!Cameras : start[c] = start["left"] /\ ~Ahead(c)
    BY <1>1, LiveFacts DEF Undisturbed, Ahead
  <2>2. start["left"] \in Nat
    BY <1>1, LiveFacts
  <2>3. ASSUME NEW c \in Live!Cameras
        PROVE  Consecutive(c, start["left"])
    BY <1>1, <1>3, <2>1, <2>2 DEF Consecutive, Behind, Due
  <2> QED
    BY <2>1, <2>2, <2>3 DEF AtPair
<1> QED
  BY <1>2, <1>4, <1>5 DEF LiveInv

\* Camera c has the same samples on the way, or its thread has left.
SameWay(c) ==
    /\ chan'[c] = chan[c] /\ device'[c] = device[c]
    /\ camera'[c] = "on" => camera[c] = "on"
    /\ \/ thread'[c] = "gone"
       \/ /\ thread[c] # "gone" /\ (thread'[c] = "send" <=> thread[c] = "send")
          /\ thread[c] = "send" => inHand'[c] = inHand[c]

LEMMA StaysInStep ==
  ASSUME InStep, backend' = backend, start' = start, now' = now, lost' = lost,
         Zipping' => Zipping,
         Zipping' => \A c \in Live!Cameras :
                        SameWay(c) /\ Ahead(c)' = Ahead(c) /\ pair'[c] = pair[c]
  PROVE  InStep'
<1> SUFFICES ASSUME Undisturbed', Zipping'
             PROVE  \E u \in Nat : AtPair(u)'
  BY DEF InStep
<1>1. Undisturbed /\ Zipping
  BY DEF Undisturbed, Live!Cameras
<1>2. PICK u \in Nat : AtPair(u)
  BY <1>1 DEF InStep
<1>3. ASSUME NEW c \in Live!Cameras, NEW v \in Nat, Consecutive(c, v)
      PROVE  Consecutive(c, v)'
  BY <1>3 DEF Consecutive, SameWay, Behind, Due
<1>4. \A c \in Live!Cameras : \A v \in Nat : Consecutive(c, v) => Consecutive(c, v)'
  BY <1>3
<1>5. ASSUME NEW c \in Live!Cameras
      PROVE  (/\ Ahead(c) => pair[c] = u
              /\ Consecutive(c, IF Ahead(c) THEN u + 1 ELSE u))'
  <2>1. Ahead(c)' = Ahead(c) /\ pair'[c] = pair[c]
    OBVIOUS
  <2>2. /\ Ahead(c) => pair[c] = u
        /\ Consecutive(c, IF Ahead(c) THEN u + 1 ELSE u)
    BY <1>2 DEF AtPair
  <2>3. CASE Ahead(c)
    <3>1. Consecutive(c, u + 1)
      BY <2>2, <2>3
    <3>2. Consecutive(c, u + 1)'
      BY <1>3, <3>1
    <3> QED
      BY <2>1, <2>2, <2>3, <3>2
  <2>4. CASE ~Ahead(c)
    <3>1. Consecutive(c, u)
      BY <2>2, <2>4
    <3>2. Consecutive(c, u)'
      BY <1>3, <3>1
    <3> QED
      BY <2>1, <2>4, <3>2
  <2> QED
    BY <2>3, <2>4
<1>6. AtPair(u)'
  BY <1>5 DEF AtPair, Live!Cameras
<1> QED
  BY <1>6

\* PairsAlike while nothing is paired.
LEMMA StaysAlike ==
  ASSUME PairsAlike, backend' = backend, start' = start, got' = got, pairChan' = pairChan,
         \A c \in Live!Cameras : lost'[c] = 0 => lost[c] = 0
  PROVE  PairsAlike'
BY DEF PairsAlike, Undisturbed, Live!Cameras

LEMMA LeaveKeeps ==
  ASSUME LiveInv, NEW c \in Live!Cameras, thread[c] \in {"pull", "send"}, Live!Leave(c),
         UNCHANGED <<backend, start, now, camera, device, lost, chan, released, pairing, pair,
                     pairChan, stop, caller, got>>
  PROVE  LiveInv'
<1> USE DEF LiveInv
<1>1. /\ thread' = [thread EXCEPT ![c] = "gone"] /\ inHand' = [inHand EXCEPT ![c] = -1]
      /\ \A d \in Live!Cameras : d # c => thread'[d] = thread[d] /\ inHand'[d] = inHand[d]
      /\ thread'[c] = "gone"
  BY DEF Live!Leave, Live!None, LiveTyped
<1>2. LiveTyped'
  <2>1. /\ thread' \in [Live!Cameras -> {"pull", "send", "release", "gone"}]
        /\ inHand' \in [Live!Cameras -> Int]
    BY <1>1 DEF LiveTyped
  <2> QED
    BY <2>1 DEF LiveTyped, Live!Cameras
<1>3. LiveBounds'
  BY <1>1 DEF LiveBounds, Live!Cameras
<1>4. Roles'
  BY DEF Roles, Live!NoPair, Live!Cameras, Live!None
<1>5. LentOnce'
  BY <1>1 DEF LentOnce, Held, Live!Cameras
<1>6. InStep'
  <2>1. \A d \in Live!Cameras : SameWay(d) /\ Ahead(d)' = Ahead(d)
    BY <1>1 DEF SameWay, Ahead, LiveTyped
  <2>2. Zipping' => Zipping
    BY DEF Zipping
  <2> QED
    BY <2>1, <2>2, StaysInStep
<1>7. PairsAlike'
  BY StaysAlike
<1> QED
  BY <1>2, <1>3, <1>4, <1>5, <1>6, <1>7

\* Steps of the cameras and the threads that leave the pairing alone.
LEMMA CaptureKeeps == ASSUME LiveInv, Live!Capture PROVE LiveInv'
<1> USE DEF LiveInv
<1>1. /\ now \in Nat /\ now' = now + 1 /\ Capacity \in Nat
      /\ UNCHANGED <<backend, start, camera, thread, inHand, chan, released, pairing, pair,
                     pairChan, caller, got>>
      /\ device' = [d \in Live!Cameras |-> device'[d]]
      /\ lost' = [d \in Live!Cameras |-> lost'[d]]
  BY LiveFacts DEF Live!Capture, Live!setupVars, Live!threadVars, Live!pairingVars,
     Live!callerVars, LiveTyped
<1>2. ASSUME NEW c \in Live!Cameras
      PROVE  /\ \/ /\ device'[c] = device[c] /\ lost'[c] = lost[c]
                   /\ camera[c] = "on" /\ thread[c] # "gone" => now < start[c]
                \/ /\ device'[c] = Append(device[c], now) /\ lost'[c] = lost[c]
                   /\ Len(device[c]) < Capacity
                   /\ start[c] <= now /\ camera[c] = "on"
                \/ /\ lost'[c] = lost[c] + 1 /\ Len(device[c]) = Capacity
                   /\ device'[c] \in {device[c], Append(Tail(device[c]), now)}
  <2> DEFINE capturing == {d \in Live!Cameras : camera[d] = "on" /\ start[d] <= now /\ ~Live!Gone(d)}
             full == {d \in capturing : Len(device[d]) = Capacity}
  <2>1. /\ device'[c] = IF c \in capturing THEN Live!Kept(c) ELSE device[c]
        /\ lost'[c] = IF c \in full THEN lost[c] + 1 ELSE lost[c]
    BY DEF Live!Capture
  <2>2. Len(device[c]) \in Nat /\ Len(device[c]) <= Capacity /\ start[c] \in Nat
    BY DEF LiveTyped, LiveBounds
  <2>3. CASE c \notin capturing
    BY <1>1, <2>1, <2>2, <2>3 DEF Live!Gone
  <2>4. CASE c \in capturing /\ Len(device[c]) < Capacity
    <3>1. Live!Kept(c) = Append(device[c], now)
      BY <2>4 DEF Live!Kept
    <3> QED
      BY <1>1, <2>1, <2>2, <2>4, <3>1
  <2>5. CASE c \in capturing /\ Len(device[c]) = Capacity
    <3>1. Live!Kept(c) \in {device[c], Append(Tail(device[c]), now)}
      BY <1>1, <2>5 DEF Live!Kept
    <3> QED
      BY <1>1, <2>1, <2>2, <2>5, <3>1
  <2> QED
    BY <1>1, <2>2, <2>3, <2>4, <2>5
<1>3. ASSUME NEW c \in Live!Cameras
      PROVE  device'[c] \in Seq(Nat) /\ Len(device'[c]) <= Capacity /\ lost'[c] \in Nat
  <2>1. device[c] \in Seq(Nat) /\ Len(device[c]) <= Capacity /\ lost[c] \in Nat
    BY DEF LiveTyped, LiveBounds
  <2>2. device'[c] = Append(device[c], now) =>
            device'[c] \in Seq(Nat) /\ Len(device'[c]) = Len(device[c]) + 1
    BY <1>1, <2>1, AppendProperties
  <2>3. ASSUME device'[c] = Append(Tail(device[c]), now), Len(device[c]) = Capacity
        PROVE  device'[c] \in Seq(Nat) /\ Len(device'[c]) = Capacity
    <3>1. device[c] # <<>>
      BY <2>1, <2>3, LiveFacts, EmptySeq
    <3>2. Tail(device[c]) \in Seq(Nat) /\ Len(Tail(device[c])) = Len(device[c]) - 1
      BY <2>1, <3>1, HeadTailProperties
    <3> QED
      BY <1>1, <2>1, <2>3, <3>2, AppendProperties
  <2>4. CASE device'[c] = device[c] /\ (lost'[c] = lost[c] \/ lost'[c] = lost[c] + 1)
    BY <2>1, <2>4
  <2>5. CASE device'[c] = Append(device[c], now) /\ lost'[c] = lost[c] /\ Len(device[c]) < Capacity
    <3>1. Len(device[c]) \in Nat
      BY <2>1
    <3> QED
      BY <1>1, <2>1, <2>2, <2>5, <3>1
  <2>6. CASE device'[c] = Append(Tail(device[c]), now) /\ lost'[c] = lost[c] + 1 /\ Len(device[c]) = Capacity
    BY <1>1, <2>1, <2>3, <2>6
  <2> QED
    BY <1>2, <2>4, <2>5, <2>6
<1>4. LiveTyped'
  <2>1. device' \in [Live!Cameras -> Seq(Nat)] /\ lost' \in [Live!Cameras -> Nat]
    BY <1>1, <1>3
  <2> QED
    BY <1>1, <2>1 DEF LiveTyped, Live!Cameras
<1>5. LiveBounds'
  BY <1>1, <1>3 DEF LiveBounds, Live!Cameras
<1>6. Roles' /\ LentOnce'
  BY <1>1 DEF Roles, LentOnce, Held, Live!NoPair, Live!Cameras, Live!None
<1>7. ASSUME NEW c \in Live!Cameras, lost'[c] = 0
      PROVE  /\ lost[c] = 0
             /\ \/ device'[c] = device[c] /\ (camera[c] = "on" /\ thread[c] # "gone" => now < start[c])
                \/ device'[c] = Append(device[c], now) /\ start[c] <= now /\ camera[c] = "on"
  <2>1. lost[c] \in Nat
    BY DEF LiveTyped
  <2> QED
    BY <1>2, <1>7, <2>1
<1>8. PairsAlike'
  BY <1>1, <1>7, StaysAlike
<1>9. InStep'
  <2> SUFFICES ASSUME Undisturbed', Zipping'
               PROVE  \E u \in Nat : AtPair(u)'
    BY DEF InStep
  <2>1. Undisturbed /\ Zipping
    BY <1>1, <1>7 DEF Undisturbed, Zipping, Live!Cameras
  <2>2. PICK u \in Nat : AtPair(u)
    BY <2>1 DEF InStep
  <2>3. ASSUME NEW c \in Live!Cameras, NEW v \in Nat, Consecutive(c, v)
        PROVE  Consecutive(c, v)'
    <3>1. /\ start[c] \in Nat /\ Len(chan[c]) \in Nat /\ Len(device[c]) \in Nat
          /\ device[c] \in Seq(Nat) /\ lost'[c] = 0
      BY SMTT(20) DEF LiveTyped, Undisturbed, Live!Cameras
    <3>2. /\ Behind(c, v) \in Nat /\ Behind(c, v)' = Behind(c, v)
          /\ Due(c) = IF now <= start[c] THEN start[c] ELSE now
          /\ Due(c)' = IF now + 1 <= start[c] THEN start[c] ELSE now + 1
      BY <1>1, <3>1 DEF Behind, Due
    <3>3. CASE device'[c] = device[c] /\ (camera[c] = "on" /\ thread[c] # "gone" => now < start[c])
      <4>1. camera[c] = "on" /\ thread[c] # "gone" => Due(c)' = Due(c)
        BY <1>1, <3>1, <3>2, <3>3
      <4> QED
        BY <1>1, <2>3, <3>2, <3>3, <4>1 DEF Consecutive
    <3>4. CASE device'[c] = Append(device[c], now) /\ start[c] <= now /\ camera[c] = "on"
      <4>1. /\ Len(device'[c]) = Len(device[c]) + 1
            /\ \A i \in 1 .. Len(device[c]) : device'[c][i] = device[c][i]
            /\ device'[c][Len(device[c]) + 1] = now
        BY <1>1, <3>1, <3>4, AppendProperties
      <4>2. Due(c) = now /\ Due(c)' = now + 1
        BY <1>1, <3>1, <3>2, <3>4
      <4>3. ASSUME thread[c] # "gone"
            PROVE  /\ \A i \in 1 .. Len(device[c]) : device[c][i] = Behind(c, v) + i - 1
                   /\ Behind(c, v) + Len(device[c]) = now
        BY <2>3, <3>4, <4>2, <4>3 DEF Consecutive
      <4>4. ASSUME thread[c] # "gone"
            PROVE  \A i \in 1 .. Len(device'[c]) : device'[c][i] = Behind(c, v) + i - 1
        <5>1. ASSUME NEW i \in 1 .. Len(device'[c]), i # Len(device[c]) + 1
              PROVE  i \in 1 .. Len(device[c])
          BY <3>1, <4>1, <5>1
        <5>2. \A i \in 1 .. Len(device[c]) : device'[c][i] = Behind(c, v) + i - 1
          BY <4>1, <4>3, <4>4
        <5>3. Behind(c, v) + Len(device[c]) = now
          BY <4>3, <4>4
        <5> QED
          BY <1>1, <3>1, <3>2, <4>1, <5>1, <5>2, <5>3, SMTT(20)
      <4>5. ASSUME thread[c] # "gone"
            PROVE  Behind(c, v) + Len(device'[c]) = Due(c)'
        BY <1>1, <3>1, <3>2, <4>1, <4>2, <4>3, <4>5
      <4> QED
        BY <1>1, <2>3, <3>2, <4>4, <4>5 DEF Consecutive
    <3> QED
      BY <1>7, <3>1, <3>3, <3>4
  <2>4. \A c \in Live!Cameras : Ahead(c)' = Ahead(c) /\ pair'[c] = pair[c]
    BY <1>1 DEF Ahead
  <2>5. AtPair(u)'
    BY <2>2, <2>3, <2>4 DEF AtPair, Live!Cameras
  <2> QED
    BY <2>5
<1> QED
  BY <1>4, <1>5, <1>6, <1>8, <1>9

LEMMA CameraEndsKeeps ==
  ASSUME LiveInv, NEW c \in Live!Cameras, Live!CameraEnds(c) PROVE LiveInv'
<1> USE DEF LiveInv
<1>1. /\ camera' = [camera EXCEPT ![c] = "ended"]
      /\ UNCHANGED <<backend, start, now, device, lost, thread, inHand, chan, released, pairing,
                     pair, pairChan, stop, caller, got>>
  BY DEF Live!CameraEnds, Live!setupVars, Live!threadVars, Live!pairingVars, Live!callerVars
<1>2. \A d \in Live!Cameras : camera'[d] = "on" => camera[d] = "on"
  BY <1>1 DEF LiveTyped
<1>3. LiveTyped'
  <2>1. camera' \in [Live!Cameras -> {"on", "ended"}]
    BY <1>1 DEF LiveTyped
  <2> QED
    BY <1>1, <2>1 DEF LiveTyped, Live!Cameras
<1>4. LiveBounds' /\ Roles' /\ LentOnce'
  BY <1>1 DEF LiveBounds, Roles, LentOnce, Held, Live!NoPair, Live!Cameras, Live!None
<1>5. InStep'
  <2>1. \A d \in Live!Cameras : SameWay(d) /\ Ahead(d)' = Ahead(d)
    BY <1>1, <1>2 DEF SameWay, Ahead
  <2>2. Zipping' => Zipping
    BY <1>1 DEF Zipping
  <2> QED
    BY <1>1, <2>1, <2>2, StaysInStep
<1>6. PairsAlike'
  BY <1>1, StaysAlike
<1> QED
  BY <1>3, <1>4, <1>5, <1>6

LEMMA PullKeeps ==
  ASSUME LiveInv, NEW c \in Live!Cameras, Live!Pull(c) PROVE LiveInv'
<1> USE DEF LiveInv
<1>1. /\ thread[c] = "pull" /\ device[c] # <<>>
      /\ thread' = [thread EXCEPT ![c] = "send"]
      /\ inHand' = [inHand EXCEPT ![c] = Head(device[c])]
      /\ device' = [device EXCEPT ![c] = Tail(device[c])]
      /\ UNCHANGED <<backend, start, now, camera, lost, chan, released, pairing, pair, pairChan,
                     stop, caller, got>>
  BY DEF Live!Pull, Live!setupVars, Live!pairingVars, Live!callerVars
<1>2. /\ device[c] \in Seq(Nat) /\ Len(device[c]) \in Nat /\ Len(device[c]) >= 1
      /\ Len(device[c]) <= Capacity
  BY <1>1, EmptySeq DEF LiveTyped, LiveBounds
<1>3. /\ Head(device[c]) = device[c][1] /\ device[c][1] \in Nat
      /\ Tail(device[c]) \in Seq(Nat) /\ Len(Tail(device[c])) = Len(device[c]) - 1
      /\ \A i \in 1 .. Len(Tail(device[c])) : Tail(device[c])[i] = device[c][i + 1]
  BY <1>1, <1>2, HeadTailProperties
<1>4. /\ thread'[c] = "send" /\ inHand'[c] = device[c][1] /\ device'[c] = Tail(device[c])
      /\ \A d \in Live!Cameras :
             d # c => thread'[d] = thread[d] /\ inHand'[d] = inHand[d] /\ device'[d] = device[d]
  BY <1>1, <1>3 DEF LiveTyped
<1>5. LiveTyped'
  <2>1. /\ thread' \in [Live!Cameras -> {"pull", "send", "release", "gone"}]
        /\ inHand' \in [Live!Cameras -> Int]
        /\ device' \in [Live!Cameras -> Seq(Nat)]
    BY <1>1, <1>3 DEF LiveTyped
  <2> QED
    BY <1>1, <2>1 DEF LiveTyped, Live!Cameras
<1>6. LiveBounds'
  <2>1. ASSUME NEW d \in Live!Cameras
        PROVE  Len(device'[d]) <= Capacity /\ (thread'[d] = "send" => inHand'[d] \in Nat)
    <3>1. CASE d = c
      <4>1. Capacity \in Nat
        BY LiveFacts
      <4>2. Len(device'[c]) <= Capacity
        BY <1>2, <1>3, <1>4, <4>1
      <4> QED
        BY <1>3, <1>4, <3>1, <4>2
    <3>2. CASE d # c
      BY <1>4, <3>2 DEF LiveBounds
    <3> QED
      BY <3>1, <3>2
  <2> QED
    BY <1>1, <2>1 DEF LiveBounds, Live!Cameras
<1>7. Roles'
  BY <1>1 DEF Roles, Live!NoPair, Live!Cameras, Live!None
<1>8. LentOnce'
  BY <1>1, <1>4 DEF LentOnce, Held, Live!Cameras
<1>9. InStep'
  <2> SUFFICES ASSUME Undisturbed', Zipping'
               PROVE  \E u \in Nat : AtPair(u)'
    BY DEF InStep
  <2>1. Undisturbed /\ Zipping
    BY <1>1 DEF Undisturbed, Zipping, Live!Cameras
  <2>2. PICK u \in Nat : AtPair(u)
    BY <2>1 DEF InStep
  <2>3. ASSUME NEW d \in Live!Cameras, NEW v \in Nat, Consecutive(d, v)
        PROVE  Consecutive(d, v)'
    <3>1. CASE d # c
      <4>1. /\ chan'[d] = chan[d] /\ thread'[d] = thread[d] /\ inHand'[d] = inHand[d]
            /\ device'[d] = device[d] /\ camera' = camera /\ now' = now /\ start' = start
        BY <1>1, <1>4, <3>1
      <4> QED
        BY <2>3, <4>1 DEF Consecutive, Behind, Due
    <3>2. CASE d = c
      <4>1. Len(chan[c]) \in Nat /\ start[c] \in Nat
        BY DEF LiveTyped
      <4>2. /\ Behind(c, v) = v + Len(chan[c]) /\ Behind(c, v)' = v + Len(chan[c]) + 1
            /\ Due(c)' = Due(c)
        BY <1>1, <1>4, <4>1 DEF Behind, Due
      <4>3. /\ \A i \in 1 .. Len(chan[c]) : chan[c][i] = v + i - 1
            /\ \A i \in 1 .. Len(device[c]) : device[c][i] = Behind(c, v) + i - 1
            /\ camera[c] = "on" => Behind(c, v) + Len(device[c]) = Due(c)
        BY <1>1, <2>3, <3>2 DEF Consecutive
      <4>4. inHand'[c] = v + Len(chan[c])
        BY <1>2, <1>4, <4>1, <4>2, <4>3
      <4>5. Len(device'[c]) = Len(device[c]) - 1
            /\ \A i \in 1 .. Len(device'[c]) : device'[c][i] = device[c][i + 1]
        BY <1>3, <1>4
      <4>6. \A i \in 1 .. Len(device'[c]) : device'[c][i] = v + Len(chan[c]) + 1 + i - 1
        BY <1>2, <4>1, <4>2, <4>3, <4>5
      <4>7. camera[c] = "on" => v + Len(chan[c]) + 1 + Len(device'[c]) = Due(c)
        <5>1. v + Len(chan[c]) + 1 + Len(device'[c]) = Behind(c, v) + Len(device[c])
          <6>1. Len(device'[c]) = Len(device[c]) - 1 /\ Behind(c, v) = v + Len(chan[c])
            BY <4>2, <4>5
          <6>2. Len(device[c]) \in Nat /\ Len(chan[c]) \in Nat
            BY <1>2, <4>1
          <6>3. \A a, b \in Nat : v + a + 1 + (b - 1) = v + a + b
            OBVIOUS
          <6> QED
            BY <6>1, <6>2, <6>3
        <5> QED
          BY <4>3, <5>1
      <4> QED
        BY <1>1, <1>4, <3>2, <4>2, <4>3, <4>4, <4>6, <4>7 DEF Consecutive
    <3> QED
      BY <3>1, <3>2
  <2>4. \A d \in Live!Cameras : Ahead(d)' = Ahead(d) /\ pair'[d] = pair[d]
    BY <1>1 DEF Ahead
  <2>5. AtPair(u)'
    BY <2>2, <2>3, <2>4 DEF AtPair, Live!Cameras
  <2> QED
    BY <2>5
<1>10. PairsAlike'
  BY <1>1, StaysAlike
<1> QED
  BY <1>5, <1>6, <1>7, <1>8, <1>9, <1>10

\* A sample that is sent.
LEMMA SendKeeps ==
  ASSUME LiveInv, NEW c \in Live!Cameras, Live!Send(c) PROVE LiveInv'
<1> USE DEF LiveInv
<1>1. /\ thread[c] = "send"
      /\ UNCHANGED <<backend, start, now, camera, device, lost, released, pairing, pair, pairChan,
                     stop, caller, got>>
  BY DEF Live!Send, Live!setupVars, Live!deviceVars, Live!pairingVars, Live!callerVars
<1>2. CASE Live!Unheard /\ Live!Leave(c) /\ UNCHANGED chan
  BY <1>1, <1>2, LeaveKeeps
<1>3. CASE Len(chan[c]) < Capacity /\ chan' = [chan EXCEPT ![c] = Append(chan[c], inHand[c])]
           /\ Live!Sent(c)
  <2>1. /\ thread' = [thread EXCEPT ![c] = IF backend = "nvmm" THEN "release" ELSE "pull"]
        /\ inHand' = IF backend = "nvmm" THEN inHand ELSE [inHand EXCEPT ![c] = -1]
    BY <1>3 DEF Live!Sent, Live!None
  <2>2. /\ chan[c] \in Seq(Nat) /\ Len(chan[c]) \in Nat /\ inHand[c] \in Nat
        /\ Len(chan[c]) <= Capacity /\ Capacity \in Nat
    <3>1. chan[c] \in Seq(Nat)
      BY DEF LiveTyped
    <3>2. inHand[c] \in Nat /\ Len(chan[c]) <= Capacity
      BY <1>1 DEF LiveBounds
    <3> QED
      BY <3>1, <3>2, LiveFacts
  <2>3. /\ chan'[c] = Append(chan[c], inHand[c])
        /\ thread'[c] = IF backend = "nvmm" THEN "release" ELSE "pull"
        /\ backend = "nvmm" => inHand'[c] = inHand[c]
        /\ \A d \in Live!Cameras :
               d # c => thread'[d] = thread[d] /\ inHand'[d] = inHand[d] /\ chan'[d] = chan[d]
    BY <1>3, <2>1 DEF LiveTyped
  <2>4. /\ chan'[c] \in Seq(Nat) /\ Len(chan'[c]) = Len(chan[c]) + 1
        /\ \A i \in 1 .. Len(chan[c]) : chan'[c][i] = chan[c][i]
        /\ chan'[c][Len(chan[c]) + 1] = inHand[c]
    BY <2>2, <2>3, AppendProperties
  <2>5. LiveTyped'
    <3>1. /\ thread' \in [Live!Cameras -> {"pull", "send", "release", "gone"}]
          /\ inHand' \in [Live!Cameras -> Int]
      BY <2>1 DEF LiveTyped
    <3>2. chan' \in [Live!Cameras -> Seq(Nat)]
      BY <1>3, <2>3, <2>4 DEF LiveTyped
    <3> QED
      BY <1>1, <3>1, <3>2 DEF LiveTyped, Live!Cameras
  <2>6. LiveBounds'
    <3>1. ASSUME NEW d \in Live!Cameras
          PROVE  Len(chan'[d]) <= Capacity /\ (thread'[d] = "send" => inHand'[d] \in Nat)
      BY <1>3, <2>2, <2>3, <2>4 DEF LiveBounds
    <3> QED
      BY <1>1, <3>1 DEF LiveBounds, Live!Cameras
  <2>7. Roles'
    BY <1>1 DEF Roles, Live!NoPair, Live!Cameras, Live!None
  <2>8. LentOnce'
    <3> SUFFICES ASSUME backend = "nvmm", caller \in {"idle", "left", "right", "using"},
                        NEW d \in Live!Cameras
                 PROVE  /\ Held(d) =>
                               /\ thread'[d] = "release" /\ chan'[d] = <<>> /\ released[d] = 0
                               /\ pair[d] = inHand'[d]
                               /\ caller = "using" => got[d] = inHand'[d]
                        /\ ~Held(d) =>
                               \/ thread'[d] = "release" /\ chan'[d] = <<inHand'[d]>> /\ released[d] = 0
                               \/ thread'[d] = "release" /\ chan'[d] = <<>> /\ released[d] = 1
                               \/ thread'[d] # "release" /\ chan'[d] = <<>> /\ released[d] = 0
      BY <1>1 DEF LentOnce, Held, Live!Cameras
    <3>1. CASE d # c
      BY <2>3, <3>1 DEF LentOnce
    <3>2. CASE d = c
      <4>1. ~Held(c) /\ chan[c] = <<>> /\ released[c] = 0
        BY <1>1 DEF LentOnce
      <4>2. chan'[c] = <<inHand[c]>>
        BY <2>2, <2>3, <4>1
      <4> QED
        BY <2>3, <3>2, <4>1, <4>2
    <3> QED
      BY <3>1, <3>2
  <2>9. InStep'
    <3> SUFFICES ASSUME Undisturbed', Zipping'
                 PROVE  \E u \in Nat : AtPair(u)'
      BY DEF InStep
    <3>1. Undisturbed /\ Zipping
      BY <1>1 DEF Undisturbed, Zipping, Live!Cameras
    <3>2. PICK u \in Nat : AtPair(u)
      BY <3>1 DEF InStep
    <3>3. ASSUME NEW d \in Live!Cameras, NEW v \in Nat, Consecutive(d, v)
          PROVE  Consecutive(d, v)'
      <4>1. CASE d # c
        <5>1. /\ chan'[d] = chan[d] /\ thread'[d] = thread[d] /\ inHand'[d] = inHand[d]
              /\ device'[d] = device[d] /\ camera' = camera /\ now' = now /\ start' = start
          BY <1>1, <2>3, <4>1
        <5> QED
          BY <3>3, <5>1 DEF Consecutive, Behind, Due
      <4>2. CASE d = c
        <5>1. thread'[c] \notin {"send", "gone"} /\ device'[c] = device[c] /\ camera' = camera
          BY <1>1, <2>3
        <5>2. /\ Behind(c, v) = v + Len(chan[c]) + 1 /\ Behind(c, v)' = v + Len(chan[c]) + 1
              /\ Due(c)' = Due(c)
          <6>1. Behind(c, v)' = v + Len(chan[c]) + 1
            <7>1. Behind(c, v)' = v + Len(chan'[c]) + 0
              BY <5>1 DEF Behind
            <7>2. Len(chan'[c]) = Len(chan[c]) + 1 /\ Len(chan[c]) \in Nat
              BY <2>2, <2>4
            <7> QED
              BY <7>1, <7>2
          <6>2. Behind(c, v) = v + Len(chan[c]) + 1
            BY <1>1, <2>2 DEF Behind
          <6>3. Due(c)' = Due(c)
            BY <1>1 DEF Due
          <6> QED
            BY <6>1, <6>2, <6>3
        <5>3. /\ \A i \in 1 .. Len(chan[c]) : chan[c][i] = v + i - 1
              /\ inHand[c] = v + Len(chan[c])
              /\ \A i \in 1 .. Len(device[c]) : device[c][i] = Behind(c, v) + i - 1
              /\ camera[c] = "on" => Behind(c, v) + Len(device[c]) = Due(c)
          BY <1>1, <3>3, <4>2 DEF Consecutive
        <5>4. ASSUME NEW i \in 1 .. Len(chan'[c]) PROVE chan'[c][i] = v + i - 1
          <6>1. CASE i = Len(chan[c]) + 1
            BY <2>2, <2>4, <5>3, <6>1
          <6>2. CASE i # Len(chan[c]) + 1
            <7>1. i \in 1 .. Len(chan[c])
              BY <2>2, <2>4, <6>2
            <7> QED
              BY <2>4, <5>3, <7>1
          <6> QED
            BY <6>1, <6>2
        <5> QED
          BY <4>2, <5>1, <5>2, <5>3, <5>4 DEF Consecutive
      <4> QED
        BY <4>1, <4>2
    <3>4. \A d \in Live!Cameras : Ahead(d)' = Ahead(d) /\ pair'[d] = pair[d]
      BY <1>1 DEF Ahead
    <3>5. AtPair(u)'
      BY <3>2, <3>3, <3>4 DEF AtPair, Live!Cameras
    <3> QED
      BY <3>5
  <2>10. PairsAlike'
    BY <1>1, StaysAlike
  <2> QED
    BY <2>5, <2>6, <2>7, <2>8, <2>9, <2>10
<1> QED
  BY <1>2, <1>3 DEF Live!Send

LEMMA AwaitReleaseKeeps ==
  ASSUME LiveInv, NEW c \in Live!Cameras, Live!AwaitRelease(c) PROVE LiveInv'
<1> USE DEF LiveInv
<1>1. /\ thread[c] = "release" /\ thread' = [thread EXCEPT ![c] = "pull"]
      /\ \/ released[c] > 0 /\ released' = [released EXCEPT ![c] = released[c] - 1]
         \/ caller = "gone" /\ released' = released
      /\ UNCHANGED <<backend, start, now, camera, device, lost, inHand, chan, pairing, pair,
                     pairChan, stop, caller, got>>
  BY DEF Live!AwaitRelease, Live!setupVars, Live!deviceVars, Live!pairingVars, Live!callerVars
<1>2. thread'[c] = "pull" /\ \A d \in Live!Cameras : d # c => thread'[d] = thread[d]
  BY <1>1 DEF LiveTyped
<1>3. LiveTyped'
  <2>1. thread' \in [Live!Cameras -> {"pull", "send", "release", "gone"}]
    BY <1>1 DEF LiveTyped
  <2>2. released' \in [Live!Cameras -> Nat]
    <3>1. released[c] \in Nat /\ (released[c] > 0 => released[c] - 1 \in Nat)
      BY DEF LiveTyped
    <3>2. released \in [Live!Cameras -> Nat]
      BY DEF LiveTyped
    <3> QED
      BY <1>1, <3>1, <3>2
  <2> QED
    BY <1>1, <2>1, <2>2 DEF LiveTyped, Live!Cameras
<1>4. LiveBounds'
  BY <1>1, <1>2 DEF LiveBounds, Live!Cameras
<1>5. Roles'
  BY <1>1 DEF Roles, Live!NoPair, Live!Cameras, Live!None
<1>6. LentOnce'
  <2>1. CASE caller = "gone"
    BY <1>1, <2>1 DEF LentOnce
  <2>2. CASE released[c] > 0 /\ released' = [released EXCEPT ![c] = released[c] - 1]
    <3>1. /\ released'[c] = released[c] - 1 /\ released[c] \in Nat
          /\ \A d \in Live!Cameras : d # c => released'[d] = released[d]
      BY <2>2 DEF LiveTyped
    <3> QED
      BY <1>1, <1>2, <2>2, <3>1 DEF LentOnce, Held, Live!Cameras
  <2> QED
    BY <1>1, <2>1, <2>2
<1>7. InStep'
  <2>1. \A d \in Live!Cameras : SameWay(d) /\ Ahead(d)' = Ahead(d)
    BY <1>1, <1>2 DEF SameWay, Ahead
  <2>2. Zipping' => Zipping
    BY <1>1 DEF Zipping
  <2> QED
    BY <1>1, <2>1, <2>2, StaysInStep
<1>8. PairsAlike'
  BY <1>1, StaysAlike
<1> QED
  BY <1>3, <1>4, <1>5, <1>6, <1>7, <1>8

\* What a step of the pairing or the caller leaves alone.
LEMMA TakeConsecutive ==
  ASSUME LiveTyped, NEW c \in Live!Cameras, NEW v \in Nat, Consecutive(c, v),
         chan[c] # <<>>, chan'[c] = Tail(chan[c]),
         UNCHANGED <<start, now, camera, device, thread, inHand>>
  PROVE  Head(chan[c]) = v /\ Consecutive(c, v + 1)'
<1>1. /\ chan[c] \in Seq(Nat) /\ Len(chan[c]) \in Nat /\ Len(chan[c]) >= 1
  BY EmptySeq DEF LiveTyped
<1>2. /\ Head(chan[c]) = chan[c][1] /\ Len(chan'[c]) = Len(chan[c]) - 1
      /\ \A i \in 1 .. Len(chan'[c]) : chan'[c][i] = chan[c][i + 1]
  BY <1>1, HeadTailProperties
<1>3. \A i \in 1 .. Len(chan[c]) : chan[c][i] = v + i - 1
  BY DEF Consecutive
<1>4. Head(chan[c]) = v
  BY <1>1, <1>2, <1>3
<1>5. \A i \in 1 .. Len(chan'[c]) : chan'[c][i] = (v + 1) + i - 1
  BY <1>1, <1>2, <1>3
<1>6. (v + 1) + Len(chan'[c]) = v + Len(chan[c])
  <2>1. Len(chan[c]) \in Nat /\ Len(chan'[c]) = Len(chan[c]) - 1
    BY <1>1, <1>2
  <2>2. \A n \in Nat : (v + 1) + (n - 1) = v + n
    OBVIOUS
  <2> QED
    BY <2>1, <2>2
<1>7. Behind(c, v + 1)' = Behind(c, v) /\ Due(c)' = Due(c)
  BY <1>6 DEF Behind, Due
<1> QED
  BY <1>4, <1>5, <1>6, <1>7 DEF Consecutive

LEMMA TakeTyped ==
  ASSUME LiveTyped, LiveBounds, NEW c \in Live!Cameras, Live!Take(c)
  PROVE  /\ chan[c] # <<>> /\ chan[c] \in Seq(Nat) /\ Head(chan[c]) \in Nat
         /\ chan'[c] = Tail(chan[c]) /\ \A d \in Live!Cameras : d # c => chan'[d] = chan[d]
         /\ chan' \in [Live!Cameras -> Seq(Nat)] /\ pair' \in [Live!Cameras -> Int]
         /\ \A d \in Live!Cameras :
                pair'[d] = IF d \in Live!SidesOf(c) THEN Head(chan[c]) ELSE pair[d]
         /\ \A d \in Live!Cameras : Len(chan'[d]) <= Capacity
<1>1. /\ chan[c] # <<>> /\ chan' = [chan EXCEPT ![c] = Tail(chan[c])]
      /\ pair' = [d \in Live!Cameras |-> IF d \in Live!SidesOf(c) THEN Head(chan[c]) ELSE pair[d]]
  BY DEF Live!Take
<1>2. chan[c] \in Seq(Nat) /\ Len(chan[c]) \in Nat
  BY DEF LiveTyped
<1>3. Head(chan[c]) \in Nat /\ Tail(chan[c]) \in Seq(Nat) /\ Len(Tail(chan[c])) = Len(chan[c]) - 1
  <2>1. Head(chan[c]) \in Nat
    BY <1>1, <1>2, HeadTailProperties
  <2> QED
    BY <1>1, <1>2, <2>1, HeadTailProperties
<1>4. chan'[c] = Tail(chan[c]) /\ \A d \in Live!Cameras : d # c => chan'[d] = chan[d]
  BY <1>1 DEF LiveTyped
<1>5. chan' \in [Live!Cameras -> Seq(Nat)] /\ pair' \in [Live!Cameras -> Int]
  <2>1. chan \in [Live!Cameras -> Seq(Nat)] /\ pair \in [Live!Cameras -> Int]
    BY DEF LiveTyped
  <2>2. Head(chan[c]) \in Int
    BY <1>3
  <2>3. chan' \in [Live!Cameras -> Seq(Nat)]
    BY <1>1, <1>3, <2>1
  <2>4. pair' \in [Live!Cameras -> Int]
    BY <1>1, <2>1, <2>2
  <2> QED
    BY <2>3, <2>4
<1>6. ASSUME NEW d \in Live!Cameras PROVE Len(chan'[d]) <= Capacity
  <2>1. CASE d = c
    <3>1. Len(chan[c]) <= Capacity /\ Len(chan[c]) \in Nat /\ Capacity \in Nat
      BY <1>2, LiveFacts DEF LiveBounds
    <3>2. Len(chan'[d]) = Len(chan[c]) - 1
      BY <1>3, <1>4, <2>1
    <3> QED
      BY <3>1, <3>2
  <2>2. CASE d # c
    BY <1>4, <2>2 DEF LiveBounds
  <2> QED
    BY <2>1, <2>2
<1> QED
  BY <1>1, <1>2, <1>3, <1>4, <1>5, <1>6

LEMMA ReceiveKeeps ==
  ASSUME LiveInv, NEW c \in Live!Cameras, Live!Receive(c) PROVE LiveInv'
<1> USE DEF LiveInv
<1>1. /\ pairing = c /\ pairing' = Live!After(c)
      /\ UNCHANGED <<backend, start, now, camera, device, lost, thread, inHand, released, pairChan,
                     stop, caller, got>>
      /\ \/ Live!Take(c)
         \/ chan[c] = <<>> /\ pair' = pair /\ chan' = chan
  BY DEF Live!Receive, Live!setupVars, Live!deviceVars, Live!callerVars
<1>2. backend # "nvmm" /\ pairing \in {"left", "right"} /\ pairing' \in {"right", "send"}
      /\ (pairing' = "right" => c = "left" /\ backend # "duplicate")
      /\ (c = "right" => backend # "duplicate")
  BY <1>1, LiveFacts DEF Roles, Live!After
<1>3. pair[c] = -1 /\ pair["right"] = -1
  <2>1. CASE c = "left"
    BY <1>1, <2>1, LiveFacts DEF Roles
  <2>2. CASE c = "right"
    BY <1>1, <2>2 DEF Roles
  <2> QED
    BY <2>1, <2>2, LiveFacts
<1>4. /\ chan' \in [Live!Cameras -> Seq(Nat)] /\ pair' \in [Live!Cameras -> Int]
      /\ \A d \in Live!Cameras : Len(chan'[d]) <= Capacity
  BY <1>1, TakeTyped DEF LiveTyped, LiveBounds
<1>5. LiveTyped'
  BY <1>1, <1>2, <1>4 DEF LiveTyped, Live!Cameras
<1>6. LiveBounds'
  BY <1>1, <1>4 DEF LiveBounds, Live!Cameras
<1>7. LentOnce'
  BY <1>1, <1>2 DEF LentOnce
<1>8. Roles'
  <2>1. pairing' = "right" => pair'["right"] = -1
    <3>1. CASE Live!Take(c)
      BY <1>2, <1>3, <3>1, TakeTyped, LiveFacts DEF Live!SidesOf
    <3> QED
      BY <1>1, <1>3, <3>1
  <2>2. backend = "duplicate" => pair'["left"] = pair'["right"]
    <3>1. CASE Live!Take(c)
      BY <3>1, TakeTyped, LiveFacts DEF Live!SidesOf
    <3> QED
      BY <1>1, <3>1 DEF Roles
  <2> QED
    BY <1>1, <1>2, <2>1, <2>2 DEF Roles
<1>9. InStep'
  <2> SUFFICES ASSUME Undisturbed'
               PROVE  \E u \in Nat : AtPair(u)'
    BY DEF InStep
  <2>1. Undisturbed /\ Zipping /\ backend # "duplicate"
    BY <1>1, <1>2 DEF Undisturbed, Zipping, Live!Cameras
  <2>2. PICK u \in Nat : AtPair(u)
    BY <2>1 DEF InStep
  <2>3. ASSUME NEW d \in Live!Cameras
        PROVE  /\ Ahead(d)' => pair'[d] = u
               /\ Ahead(d)' => Consecutive(d, u + 1)'
               /\ ~Ahead(d)' => Consecutive(d, u)'
    <3>1. /\ Ahead(d) <=> pair[d] # -1
          /\ Ahead(d)' <=> pair'[d] # -1
      BY <1>1, <1>2 DEF Ahead
    <3>2. /\ Ahead(d) => pair[d] = u /\ Consecutive(d, u + 1)
          /\ ~Ahead(d) => Consecutive(d, u)
      BY <2>2 DEF AtPair
    <3>3. CASE chan'[d] = chan[d] /\ pair'[d] = pair[d]
      <4>1. \A v \in Nat : Consecutive(d, v) => Consecutive(d, v)'
        BY <1>1, <3>3 DEF Consecutive, Behind, Due
      <4> QED
        BY <3>1, <3>2, <3>3, <4>1
    <3>4. CASE Live!Take(c) /\ d = c
      <4>1. /\ chan[c] # <<>> /\ chan'[c] = Tail(chan[c]) /\ pair'[c] = Head(chan[c])
        BY <3>4, TakeTyped DEF Live!SidesOf, Live!Cameras
      <4>2. Consecutive(c, u)
        BY <1>3, <3>1, <3>2, <3>4
      <4>3. Head(chan[c]) = u /\ Consecutive(c, u + 1)'
        BY <1>1, <4>1, <4>2, TakeConsecutive
      <4> QED
        BY <3>1, <3>4, <4>1, <4>3
    <3>5. CASE Live!Take(c) /\ d # c
      <4>1. chan'[d] = chan[d] /\ pair'[d] = pair[d]
        BY <2>1, <3>5, TakeTyped DEF Live!SidesOf
      <4> QED
        BY <3>3, <4>1
    <3> QED
      BY <1>1, <3>3, <3>4, <3>5
  <2>4. AtPair(u)'
    BY <2>3 DEF AtPair, Live!Cameras
  <2> QED
    BY <2>4
<1>10. PairsAlike'
  BY <1>1, StaysAlike
<1> QED
  BY <1>5, <1>6, <1>7, <1>8, <1>9, <1>10

LEMMA SendPairKeeps == ASSUME LiveInv, Live!SendPair PROVE LiveInv'
<1> USE DEF LiveInv
<1>1. /\ pairing = "send" /\ pair' = Live!NoPair
      /\ UNCHANGED <<backend, start, now, camera, device, lost, thread, inHand, chan, released,
                     stop, caller, got>>
      /\ \/ /\ \A c \in Live!Cameras : pair[c] # -1
            /\ pairChan' = Append(pairChan, pair) /\ pairing' = "left"
         \/ pairing' = "gone" /\ pairChan' = pairChan
  BY DEF Live!SendPair, Live!setupVars, Live!deviceVars, Live!threadVars, Live!callerVars, Live!None
<1>2. backend # "nvmm" /\ \A c \in Live!Cameras : pair'[c] = -1
  BY <1>1, LiveFacts DEF Roles
<1>3. pair \in [Live!Cameras -> Int] /\ pairChan \in Seq([Live!Cameras -> Int])
  BY DEF LiveTyped
<1>4. LiveTyped'
  <2>1. pair' \in [Live!Cameras -> Int]
    BY <1>1, LiveFacts
  <2>2. pairChan' \in Seq([Live!Cameras -> Int])
    <3>1. CASE pairChan' = Append(pairChan, pair)
      BY <1>3, <3>1, AppendProperties
    <3> QED
      BY <1>1, <1>3, <3>1
  <2> QED
    BY <1>1, <2>1, <2>2 DEF LiveTyped, Live!Cameras
<1>5. LiveBounds' /\ LentOnce'
  BY <1>1, <1>2 DEF LiveBounds, LentOnce, Live!Cameras
<1>6. Roles'
  BY <1>1, <1>2, LiveFacts DEF Roles, Live!NoPair, Live!Cameras, Live!None
<1>7. ASSUME Undisturbed, pairing' = "left"
      PROVE  (\E u \in Nat : AtPair(u)') /\ pair["left"] = pair["right"]
  <2>1. \A c \in Live!Cameras : pair[c] # -1
    BY <1>1, <1>7
  <2>2. PICK u \in Nat : AtPair(u)
    BY <1>1, <1>2, <1>7 DEF InStep, Zipping
  <2>3. ASSUME NEW c \in Live!Cameras
        PROVE  /\ pair[c] = u /\ ~Ahead(c)' /\ Consecutive(c, u + 1)'
    <3>1. Ahead(c) /\ ~Ahead(c)'
      BY <1>1, <1>2, <2>1 DEF Ahead
    <3>2. pair[c] = u /\ Consecutive(c, u + 1)
      BY <2>2, <3>1 DEF AtPair
    <3>3. Consecutive(c, u + 1)'
      BY <1>1, <3>2 DEF Consecutive, Behind, Due
    <3> QED
      BY <3>1, <3>2, <3>3
  <2>4. AtPair(u + 1)' /\ u + 1 \in Nat
    BY <2>3 DEF AtPair, Live!Cameras
  <2>5. pair["left"] = pair["right"]
    BY <2>3, LiveFacts
  <2> QED
    BY <2>4, <2>5
<1>8. InStep'
  <2> SUFFICES ASSUME Undisturbed', Zipping'
               PROVE  \E u \in Nat : AtPair(u)'
    BY DEF InStep
  <2>1. Undisturbed /\ pairing' = "left"
    BY <1>1, <1>2 DEF Undisturbed, Zipping, Live!Cameras
  <2> QED
    BY <1>7, <2>1
<1>9. PairsAlike'
  <2> SUFFICES ASSUME backend = "duplicate" \/ Undisturbed
               PROVE  /\ got["left"] = got["right"]
                      /\ \A i \in 1 .. Len(pairChan') : pairChan'[i]["left"] = pairChan'[i]["right"]
    BY <1>1 DEF PairsAlike, Undisturbed, Live!Cameras
  <2>1. /\ got["left"] = got["right"]
        /\ \A i \in 1 .. Len(pairChan) : pairChan[i]["left"] = pairChan[i]["right"]
    BY DEF PairsAlike
  <2>2. CASE pairChan' = pairChan
    BY <2>1, <2>2
  <2>3. CASE pairChan' = Append(pairChan, pair) /\ pairing' = "left"
    <3>1. pair["left"] = pair["right"]
      <4>1. CASE backend = "duplicate"
        BY <4>1 DEF Roles
      <4>2. CASE Undisturbed
        BY <1>7, <2>3, <4>2
      <4> QED
        BY <4>1, <4>2
    <3>2. /\ Len(pairChan) \in Nat /\ Len(pairChan') = Len(pairChan) + 1
          /\ \A i \in 1 .. Len(pairChan) : pairChan'[i] = pairChan[i]
          /\ pairChan'[Len(pairChan) + 1] = pair
      BY <1>3, <2>3, AppendProperties
    <3>3. ASSUME NEW i \in 1 .. Len(pairChan') PROVE pairChan'[i]["left"] = pairChan'[i]["right"]
      <4>1. CASE i = Len(pairChan) + 1
        BY <3>1, <3>2, <4>1
      <4>2. CASE i # Len(pairChan) + 1
        <5>1. i \in 1 .. Len(pairChan)
          BY <3>2, <4>2
        <5> QED
          BY <2>1, <3>2, <5>1
      <4> QED
        BY <4>1, <4>2
    <3> QED
      BY <2>1, <3>3
  <2> QED
    BY <1>1, <2>2, <2>3
<1> QED
  BY <1>4, <1>5, <1>6, <1>8, <1>9

LEMMA NextFromKeeps ==
  ASSUME LiveInv, NEW c \in Live!Cameras, Live!NextFrom(c) PROVE LiveInv'
<1> USE DEF LiveInv
<1>1. /\ backend = "nvmm" /\ caller = c /\ pairing = "gone" /\ pairing' = "gone"
      /\ UNCHANGED <<backend, start, now, camera, device, lost, thread, inHand, released, pairChan,
                     stop>>
      /\ \/ /\ Live!Take(c)
            /\ caller' = IF c = "left" THEN "right" ELSE "using"
            /\ got' = IF c = "left" THEN got ELSE pair'
         \/ caller' = "none" /\ pair' = pair /\ chan' = chan /\ got' = got
  BY DEF Live!NextFrom, Live!setupVars, Live!deviceVars, Roles
<1>2. /\ chan' \in [Live!Cameras -> Seq(Nat)] /\ pair' \in [Live!Cameras -> Int]
      /\ \A d \in Live!Cameras : Len(chan'[d]) <= Capacity
  BY <1>1, TakeTyped DEF LiveTyped, LiveBounds
<1>3. LiveTyped'
  <2>1. caller' \in {"right", "using", "none"} /\ got' \in [Live!Cameras -> Int]
    BY <1>1, <1>2 DEF LiveTyped
  <2> QED
    BY <1>1, <1>2, <2>1 DEF LiveTyped, Live!Cameras
<1>4. LiveBounds'
  BY <1>1, <1>2 DEF LiveBounds, Live!Cameras
<1>5. Roles'
  BY <1>1 DEF Roles
<1>6. CASE caller' = "none" /\ pair' = pair /\ chan' = chan /\ got' = got
  <2>1. LentOnce' /\ InStep'
    BY <1>1, <1>6 DEF LentOnce, InStep, Zipping
  <2>2. PairsAlike'
    BY <1>1, <1>6, StaysAlike
  <2> QED
    BY <1>3, <1>4, <1>5, <2>1, <2>2
<1>7. CASE /\ Live!Take(c)
           /\ caller' = IF c = "left" THEN "right" ELSE "using"
           /\ got' = IF c = "left" THEN got ELSE pair'
  <2>1. /\ chan[c] # <<>> /\ chan'[c] = Tail(chan[c]) /\ pair'[c] = Head(chan[c])
        /\ \A d \in Live!Cameras : d # c => chan'[d] = chan[d] /\ pair'[d] = pair[d]
    BY <1>1, <1>7, TakeTyped DEF Live!SidesOf
  <2>2. thread[c] = "release" /\ chan[c] = <<inHand[c]>> /\ released[c] = 0
    <3>1. ~Held(c) /\ caller \in {"left", "right"}
      BY <1>1, LiveFacts DEF Held
    <3> QED
      BY <1>1, <2>1, <3>1 DEF LentOnce
  <2>3. chan'[c] = <<>> /\ pair'[c] = inHand[c]
    BY <2>1, <2>2
  <2>4. LentOnce'
    <3>1. CASE c = "left"
      <4>1. /\ caller = "left" /\ caller' = "right" /\ got' = got
            /\ chan'["left"] = <<>> /\ pair'["left"] = inHand["left"]
            /\ thread["left"] = "release" /\ released["left"] = 0
            /\ chan'["right"] = chan["right"]
        BY <1>1, <1>7, <2>1, <2>2, <2>3, <3>1, LiveFacts
      <4>2. \/ thread["right"] = "release" /\ chan["right"] = <<inHand["right"]>> /\ released["right"] = 0
            \/ thread["right"] = "release" /\ chan["right"] = <<>> /\ released["right"] = 1
            \/ thread["right"] # "release" /\ chan["right"] = <<>> /\ released["right"] = 0
        BY <1>1, <4>1, LiveFacts DEF LentOnce, Held
      <4> QED
        BY <1>1, <4>1, <4>2 DEF LentOnce, Held, Live!Cameras
    <3>2. CASE c = "right"
      <4>1. /\ caller = "right" /\ caller' = "using" /\ got' = pair'
            /\ chan'["right"] = <<>> /\ pair'["right"] = inHand["right"]
            /\ thread["right"] = "release" /\ released["right"] = 0
            /\ chan'["left"] = chan["left"] /\ pair'["left"] = pair["left"]
        BY <1>1, <1>7, <2>1, <2>2, <2>3, <3>2, LiveFacts
      <4>2. /\ thread["left"] = "release" /\ chan["left"] = <<>> /\ released["left"] = 0
            /\ pair["left"] = inHand["left"]
        BY <1>1, <4>1, LiveFacts DEF LentOnce, Held
      <4> QED
        BY <1>1, <4>1, <4>2 DEF LentOnce, Held, Live!Cameras
    <3> QED
      BY <3>1, <3>2, LiveFacts
  <2>5. ASSUME Undisturbed
        PROVE  /\ \E u \in Nat : AtPair(u)'
               /\ c = "right" => pair'["left"] = pair'["right"]
    <3>1. PICK u \in Nat : AtPair(u)
      BY <1>1, <2>5, LiveFacts DEF InStep, Zipping
    <3>2. ~Ahead(c) /\ (Ahead(c)' <=> c = "left")
      BY <1>1, <1>7, LiveFacts DEF Ahead
    <3>3. Consecutive(c, u)
      BY <3>1, <3>2 DEF AtPair
    <3>4. pair'[c] = u /\ Consecutive(c, u + 1)'
      BY <1>1, <2>1, <3>3, TakeConsecutive
    <3>5. ASSUME NEW d \in Live!Cameras, d # c
          PROVE  \A v \in Nat : Consecutive(d, v) => Consecutive(d, v)'
      <4>1. chan'[d] = chan[d]
        BY <2>1, <3>5
      <4> QED
        BY <1>1, <4>1 DEF Consecutive, Behind, Due
    <3>6. CASE c = "left"
      <4>1. ~Ahead("right") /\ ~Ahead("right")' /\ Ahead("left")'
        BY <1>1, <3>2, <3>6 DEF Ahead
      <4>2. Consecutive("right", u)'
        BY <3>1, <3>5, <3>6, <4>1, LiveFacts DEF AtPair
      <4>3. AtPair(u)'
        BY <3>4, <3>6, <4>1, <4>2 DEF AtPair, Live!Cameras
      <4> QED
        BY <3>6, <4>3
    <3>7. CASE c = "right"
      <4>1. Ahead("left") /\ ~Ahead("right")' /\ ~Ahead("left")'
        BY <1>1, <1>7, <3>7 DEF Ahead
      <4>2. pair["left"] = u /\ Consecutive("left", u + 1)
        BY <3>1, <4>1, LiveFacts DEF AtPair
      <4>3. pair'["left"] = u /\ pair'["right"] = u
        BY <2>1, <3>4, <3>7, <4>2, LiveFacts
      <4>4. Consecutive("left", u + 1)'
        BY <3>5, <3>7, <4>2, LiveFacts
      <4>5. AtPair(u + 1)' /\ u + 1 \in Nat
        BY <3>4, <3>7, <4>1, <4>4 DEF AtPair, Live!Cameras
      <4>6. pair'["left"] = pair'["right"]
        BY <4>3
      <4> QED
        BY <4>5, <4>6
    <3> QED
      BY <3>6, <3>7, LiveFacts
  <2>6. Undisturbed' => Undisturbed
    BY <1>1 DEF Undisturbed, Live!Cameras
  <2>7. InStep'
    BY <2>5, <2>6 DEF InStep
  <2>8. PairsAlike'
    <3>1. CASE c = "left"
      BY <1>1, <1>7, <3>1, StaysAlike
    <3>2. CASE c = "right"
      <4>1. backend # "duplicate" /\ got' = pair' /\ pairChan' = pairChan
        BY <1>1, <1>7, <3>2
      <4> QED
        BY <1>1, <2>5, <2>6, <3>2, <4>1 DEF PairsAlike
    <3> QED
      BY <3>1, <3>2, LiveFacts
  <2> QED
    BY <1>3, <1>4, <1>5, <2>4, <2>7, <2>8
<1> QED
  BY <1>1, <1>6, <1>7

\* A step of the caller that only changes where it stands, and what it has got.
LEMMA CallerKeeps ==
  ASSUME LiveInv,
         UNCHANGED <<backend, start, now, camera, device, lost, thread, inHand, chan, pairing, pair>>,
         LiveTyped', Roles', LentOnce', PairsAlike',
         Zipping' => Zipping /\ (\A c \in Live!Cameras : Ahead(c)' = Ahead(c))
  PROVE  LiveInv'
<1> USE DEF LiveInv
<1>1. LiveBounds'
  BY DEF LiveBounds, Live!Cameras
<1>2. ASSUME NEW c \in Live!Cameras PROVE SameWay(c)
  BY DEF SameWay
<1>3. InStep'
  BY <1>2, StaysInStep
<1> QED
  BY <1>1, <1>3

LEMMA CallNextKeeps == ASSUME LiveInv, Live!CallNext PROVE LiveInv'
<1> USE DEF LiveInv
<1>1. /\ caller = "idle" /\ caller' = IF backend = "nvmm" THEN "left" ELSE "waiting"
      /\ UNCHANGED <<backend, start, now, camera, device, lost, thread, inHand, chan, released,
                     pairing, pair, pairChan, stop, got>>
  BY DEF Live!CallNext, Live!setupVars, Live!deviceVars, Live!threadVars, Live!pairingVars
<1>2. LiveTyped' /\ Roles'
  BY <1>1 DEF LiveTyped, Roles, Live!NoPair, Live!Cameras, Live!None
<1>3. LentOnce'
  BY <1>1 DEF LentOnce, Held, Live!Cameras
<1>4. PairsAlike'
  BY <1>1, StaysAlike
<1>5. Zipping' => Zipping /\ (\A c \in Live!Cameras : Ahead(c)' = Ahead(c))
  BY <1>1 DEF Zipping, Ahead
<1> QED
  BY <1>1, <1>2, <1>3, <1>4, <1>5, CallerKeeps

LEMMA NextReturnsKeeps == ASSUME LiveInv, Live!NextReturns PROVE LiveInv'
<1> USE DEF LiveInv
<1>1. /\ caller = "waiting" /\ caller' \in {"idle", "none"}
      /\ UNCHANGED <<backend, start, now, camera, device, lost, thread, inHand, chan, released,
                     pairing, pair, stop>>
      /\ \/ /\ pairChan # <<>> /\ got' = Head(pairChan) /\ pairChan' = Tail(pairChan)
            /\ caller' = "idle"
         \/ got' = got /\ pairChan' = pairChan /\ caller' = "none"
  BY DEF Live!NextReturns, Live!setupVars, Live!deviceVars, Live!threadVars
<1>2. pairChan \in Seq([Live!Cameras -> Int]) /\ Len(pairChan) \in Nat
  BY DEF LiveTyped
<1>3. ASSUME pairChan # <<>>
      PROVE  /\ Len(pairChan) >= 1 /\ Head(pairChan) = pairChan[1]
             /\ Head(pairChan) \in [Live!Cameras -> Int]
             /\ Tail(pairChan) \in Seq([Live!Cameras -> Int])
             /\ Len(Tail(pairChan)) = Len(pairChan) - 1
             /\ \A i \in 1 .. Len(Tail(pairChan)) : Tail(pairChan)[i] = pairChan[i + 1]
  <2>1. Len(pairChan) >= 1 /\ Head(pairChan) = pairChan[1]
    BY <1>2, <1>3, EmptySeq
  <2>2. Head(pairChan) \in [Live!Cameras -> Int]
    BY <1>2, <1>3, HeadTailProperties
  <2>3. /\ Tail(pairChan) \in Seq([Live!Cameras -> Int])
        /\ Len(Tail(pairChan)) = Len(pairChan) - 1
        /\ \A i \in 1 .. Len(Tail(pairChan)) : Tail(pairChan)[i] = pairChan[i + 1]
    BY <1>2, <1>3, HeadTailProperties
  <2> QED
    BY <2>1, <2>2, <2>3
<1>4. got' \in [Live!Cameras -> Int] /\ pairChan' \in Seq([Live!Cameras -> Int])
  <2>1. got \in [Live!Cameras -> Int]
    BY DEF LiveTyped
  <2> QED
    BY <1>1, <1>2, <1>3, <2>1
<1>5. LiveTyped'
  BY <1>1, <1>4 DEF LiveTyped, Live!Cameras
<1>6. Roles'
  BY <1>1 DEF Roles, Live!NoPair, Live!Cameras, Live!None
<1>7. Zipping' => Zipping /\ (\A c \in Live!Cameras : Ahead(c)' = Ahead(c))
  BY <1>1 DEF Zipping, Ahead, Roles
<1>8. LentOnce'
  BY <1>1 DEF LentOnce, Roles
<1>9. PairsAlike'
  <2>1. CASE got' = got /\ pairChan' = pairChan
    BY <1>1, <2>1, StaysAlike
  <2>2. CASE pairChan # <<>> /\ got' = Head(pairChan) /\ pairChan' = Tail(pairChan)
    <3> SUFFICES ASSUME backend = "duplicate" \/ Undisturbed
                 PROVE  /\ got'["left"] = got'["right"]
                        /\ \A i \in 1 .. Len(pairChan') : pairChan'[i]["left"] = pairChan'[i]["right"]
      BY <1>1 DEF PairsAlike, Undisturbed, Live!Cameras
    <3>1. \A i \in 1 .. Len(pairChan) : pairChan[i]["left"] = pairChan[i]["right"]
      BY DEF PairsAlike
    <3>2. got'["left"] = got'["right"]
      BY <1>2, <1>3, <2>2, <3>1
    <3>3. ASSUME NEW i \in 1 .. Len(pairChan') PROVE pairChan'[i]["left"] = pairChan'[i]["right"]
      <4>1. i + 1 \in 1 .. Len(pairChan) /\ pairChan'[i] = pairChan[i + 1]
        BY <1>2, <1>3, <2>2
      <4> QED
        BY <3>1, <4>1
    <3> QED
      BY <3>2, <3>3
  <2> QED
    BY <1>1, <2>1, <2>2
<1> QED
  BY <1>1, <1>5, <1>6, <1>7, <1>8, <1>9, CallerKeeps

LEMMA ReleaseKeeps == ASSUME LiveInv, Live!Release PROVE LiveInv'
<1> USE DEF LiveInv
<1>1. /\ caller = "using" /\ caller' = "idle"
      /\ released' = [c \in Live!Cameras |-> IF Live!Gone(c) THEN released[c] ELSE released[c] + 1]
      /\ UNCHANGED <<backend, start, now, camera, device, lost, thread, inHand, chan, pairing,
                     pair, pairChan, stop, got>>
  BY DEF Live!Release, Live!setupVars, Live!deviceVars, Live!pairingVars
<1>2. backend = "nvmm"
  BY <1>1 DEF Roles
<1>3. LiveTyped'
  <2>1. released' \in [Live!Cameras -> Nat]
    BY <1>1 DEF LiveTyped
  <2> QED
    BY <1>1, <2>1 DEF LiveTyped, Live!Cameras
<1>4. Roles'
  BY <1>1 DEF Roles, Live!NoPair, Live!Cameras, Live!None
<1>5. LentOnce'
  <2>1. \A c \in Live!Cameras : thread[c] = "release" /\ chan[c] = <<>> /\ released[c] = 0
    BY <1>1, <1>2 DEF LentOnce, Held
  <2>2. \A c \in Live!Cameras : released'[c] = 1
    BY <1>1, <2>1 DEF Live!Gone
  <2> QED
    BY <1>1, <2>1, <2>2 DEF LentOnce, Held, Live!Cameras
<1>6. PairsAlike'
  BY <1>1, StaysAlike
<1>7. Zipping' => Zipping /\ (\A c \in Live!Cameras : Ahead(c)' = Ahead(c))
  BY <1>1, <1>2 DEF Zipping, Ahead
<1> QED
  BY <1>1, <1>3, <1>4, <1>5, <1>6, <1>7, CallerKeeps

\* The caller stops asking, or is gone.
LEMMA StopKeeps == ASSUME LiveInv, Live!Stop \/ Live!CloseReturns PROVE LiveInv'
<1> USE DEF LiveInv
<1>1. /\ caller' \in {"stopped", "gone"} /\ pairChan' \in {pairChan, <<>>}
      /\ UNCHANGED <<backend, start, now, camera, device, lost, thread, inHand, chan, released,
                     pairing, pair, got>>
  BY DEF Live!Stop, Live!CloseReturns, Live!setupVars, Live!deviceVars, Live!threadVars,
     Live!pairingVars
<1>2. LiveTyped'
  <2>1. pairChan \in Seq([Live!Cameras -> Int]) /\ <<>> \in Seq([Live!Cameras -> Int])
    BY DEF LiveTyped
  <2>2. pairChan' \in Seq([Live!Cameras -> Int])
    BY <1>1, <2>1
  <2> QED
    BY <1>1, <2>2 DEF LiveTyped, Live!Cameras
<1>3. Roles'
  BY <1>1 DEF Roles, Live!NoPair, Live!Cameras, Live!None
<1>4. LentOnce'
  BY <1>1 DEF LentOnce
<1>5. PairsAlike'
  <2>1. CASE pairChan' = pairChan
    BY <1>1, <2>1, StaysAlike
  <2>2. CASE pairChan' = <<>>
    <3>1. Len(pairChan') = 0
      BY <2>2
    <3> QED
      BY <1>1, <3>1 DEF PairsAlike, Undisturbed, Live!Cameras
  <2> QED
    BY <1>1, <2>1, <2>2
<1>6. Zipping' => Zipping /\ (\A c \in Live!Cameras : Ahead(c)' = Ahead(c))
  BY <1>1 DEF Zipping, Ahead
<1> QED
  BY <1>1, <1>2, <1>3, <1>4, <1>5, <1>6, CallerKeeps

LEMMA CloseKeeps == ASSUME LiveInv, Live!Close PROVE LiveInv'
<1> USE DEF LiveInv
<1>1. /\ caller' \in {"gone", "closing"} /\ pairChan' = <<>> /\ Len(pairChan') = 0
      /\ \A c \in Live!Cameras : camera'[c] = "on" => camera[c] = "on"
      /\ backend # "nvmm" => chan' = chan
      /\ UNCHANGED <<backend, start, now, device, lost, thread, inHand, pairing, pair, got>>
  BY DEF Live!Close, Live!setupVars
<1>2. /\ camera' \in [Live!Cameras -> {"on", "ended"}]
      /\ chan' \in [Live!Cameras -> Seq(Nat)]
      /\ released' \in [Live!Cameras -> Nat]
      /\ \A c \in Live!Cameras : Len(chan'[c]) <= Capacity
  <2>1. camera' \in [Live!Cameras -> {"on", "ended"}]
    BY DEF Live!Close, LiveTyped
  <2>2. CASE chan' = chan /\ released' = released
    BY <2>1, <2>2 DEF LiveTyped, LiveBounds
  <2>3. CASE /\ chan' = [c \in Live!Cameras |-> <<>>]
             /\ released' = [c \in Live!Cameras |-> IF Live!Gone(c) THEN released[c] ELSE released[c] + 1]
    <3>1. \A c \in Live!Cameras : Len(chan'[c]) = 0
      BY <2>3
    <3>2. released' \in [Live!Cameras -> Nat]
      BY <2>3 DEF LiveTyped
    <3> QED
      BY <2>1, <2>3, <3>1, <3>2, LiveFacts
  <2> QED
    BY <2>2, <2>3 DEF Live!Close
<1>3. LiveTyped'
  <2>1. pairChan' \in Seq([Live!Cameras -> Int])
    BY <1>1
  <2> QED
    BY <1>1, <1>2, <2>1 DEF LiveTyped, Live!Cameras
<1>4. LiveBounds'
  BY <1>1, <1>2 DEF LiveBounds, Live!Cameras
<1>5. Roles' /\ LentOnce'
  BY <1>1 DEF Roles, LentOnce, Live!NoPair, Live!Cameras, Live!None
<1>6. PairsAlike'
  BY <1>1 DEF PairsAlike, Undisturbed, Live!Cameras
<1>7. InStep'
  <2>1. Zipping' => Zipping /\ backend # "nvmm"
    BY <1>1 DEF Zipping
  <2>2. Zipping' => \A c \in Live!Cameras :
                        SameWay(c) /\ Ahead(c)' = Ahead(c) /\ pair'[c] = pair[c]
    BY <1>1, <2>1 DEF SameWay, Ahead
  <2> QED
    BY <1>1, <2>1, <2>2, StaysInStep
<1> QED
  BY <1>3, <1>4, <1>5, <1>6, <1>7

LEMMA LiveStep == ASSUME LiveInv, [Live!Next]_liveVars PROVE LiveInv'
<1>1. CASE UNCHANGED liveVars
  <2>1. UNCHANGED <<backend, start, now, camera, device, lost, thread, inHand, chan, released,
                    pairing, pair, pairChan, stop, caller, got>>
    BY <1>1 DEF liveVars
  <2>2. LiveTyped' /\ Roles' /\ LentOnce'
    BY <2>1, SMTT(20)
    DEF LiveInv, LiveTyped, Roles, LentOnce, Held, Live!NoPair, Live!Cameras, Live!None
  <2>3. PairsAlike'
    BY <2>1, StaysAlike DEF LiveInv
  <2>4. Zipping' => Zipping /\ (\A c \in Live!Cameras : Ahead(c)' = Ahead(c))
    BY <2>1 DEF Zipping, Ahead
  <2> QED
    BY <2>1, <2>2, <2>3, <2>4, CallerKeeps
<1>2. ASSUME NEW c \in Live!Cameras, Live!Thread(c) \/ Live!BadSample(c)
      PROVE  LiveInv'
  <2>1. CASE Live!ReadStop(c) \/ Live!PullEnds(c) \/ Live!BadSample(c)
    <3>1. /\ thread[c] \in {"pull", "send"} /\ Live!Leave(c)
          /\ UNCHANGED <<backend, start, now, camera, device, lost, chan, released, pairing, pair,
                         pairChan, stop, caller, got>>
      BY <2>1 DEF Live!ReadStop, Live!PullEnds, Live!BadSample, Live!setupVars, Live!deviceVars,
         Live!pairingVars, Live!callerVars
    <3> QED
      BY <3>1, LeaveKeeps
  <2> QED
    BY <1>2, <2>1, PullKeeps, SendKeeps, AwaitReleaseKeeps DEF Live!Thread
<1> QED
  BY <1>1, <1>2, CaptureKeeps, CameraEndsKeeps, NextFromKeeps, ReceiveKeeps, SendPairKeeps,
     CallNextKeeps, NextReturnsKeeps, ReleaseKeeps, StopKeeps, CloseKeeps
  DEF Live!Next, Live!PairingThread, Live!Caller

LEMMA LiveKeeps ==
  LiveInv => Live!TypeOK /\ Live!InStepUntilDrop /\ Live!LentIsKept
<1> SUFFICES ASSUME LiveInv PROVE Live!TypeOK /\ Live!InStepUntilDrop /\ Live!LentIsKept
  OBVIOUS
<1>1. Live!TypeOK
  BY DEF LiveInv, LiveTyped, LiveBounds, Live!TypeOK
<1>2. Live!InStepUntilDrop
  <2>1. \A c \in Live!Cameras : lost[c] \in Nat
    BY DEF LiveInv, LiveTyped
  <2>2. backend = "duplicate" \/ Undisturbed => got["left"] = got["right"]
    BY DEF LiveInv, PairsAlike
  <2> QED
    BY <2>1, <2>2 DEF Undisturbed, Live!InStepUntilDrop
<1>3. Live!LentIsKept
  BY DEF LiveInv, LentOnce, Held, Roles, Live!LentIsKept
<1> QED
  BY <1>1, <1>2, <1>3

------------------------------------------------------------------------------
(* Theorems *)

\* LiveInv is an invariant of the cameras: each thread's samples are
\* consecutive, both cameras are at the same pair, and a lent sample is in one
\* place at a time.
THEOREM LiveAlways ==
  /\ Live!Spec => []LiveInv
  /\ MCSpec => []LiveInv
<1>1. LiveInv /\ [Live!Next]_Live!camerasVars => LiveInv'
  BY LiveStep DEF Live!camerasVars, liveVars, Live!setupVars, Live!deviceVars, Live!threadVars,
     Live!pairingVars, Live!callerVars
<1>2. LiveInv /\ [MCNext]_mcVars => LiveInv'
  BY LiveStep DEF MCNext, mcVars
<1>3. MCInit => LiveInv
  BY LiveStarts DEF MCInit
<1> QED
  BY <1>1, <1>2, <1>3, LiveStarts, PTL DEF MCSpec, Live!Spec

\* The two samples of every pair a live source returns were captured at the
\* same tick, as long as the cameras started together and no device has dropped
\* one, whatever the threads, the ends of the cameras and the caller do.
THEOREM PairsOfOneTick ==
  /\ Live!Spec => []Live!InStepUntilDrop
  /\ MCSpec => []InStepUntilDrop
<1>1. MCInit => Inv
  BY InitInv DEF MCInit
<1>2. Inv /\ [MCNext]_mcVars => Inv'
  BY StepInv DEF MCNext, mcVars
<1>3. Inv /\ LiveInv => InStepUntilDrop
  BY LiveKeeps DEF Inv, InStepUntilDrop
<1> QED
  BY <1>1, <1>2, <1>3, LiveKeeps, LiveAlways, PTL DEF MCSpec

\* With nvmm, the capture threads keep the very samples whose buffers the caller
\* was lent from next_pair to release_previous: a release is never for another.
THEOREM LentSamplesAreKept ==
  /\ Live!Spec => []Live!LentIsKept
  /\ MCSpec => []LentIsKept
<1>1. LiveInv => LentIsKept
  BY LiveKeeps DEF LentIsKept
<1> QED
  BY <1>1, LiveKeeps, LiveAlways, PTL
=============================================================================
