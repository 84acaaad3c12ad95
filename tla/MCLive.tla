-------------------------------- MODULE MCLive --------------------------------
(***************************************************************************)
(* A live match for TLC: the tracking of the ball (extended) and the live  *)
(* cameras (instance). They share no state as they are modelled, so each   *)
(* behaviour explores one of them, its turn, and leaves the other at one   *)
(* initial state.                                                          *)
(***************************************************************************)
EXTENDS DetectTrack

CONSTANTS Capacity, LateStart, Backends, MaxTicks

VARIABLES
    turn,
    backend, start, now, camera, device, lost, thread, inHand, chan, released,
    pairing, pair, pairChan, stop, caller, got

Live == INSTANCE LiveCameras

ASSUME LiveAssumption == Live!LiveCamerasAssumption

liveVars == <<backend, start, now, camera, device, lost, thread, inHand, chan,
              released, pairing, pair, pairChan, stop, caller, got>>

mcVars == <<turn, vars, liveVars>>

MCInit ==
    /\ turn \in {"tracking", "cameras"}
    /\ Init
    /\ turn # "tracking" => interval = 0 /\ residency = "InPlace"
    /\ Live!Init
    /\ turn # "cameras" => backend = "i420" /\ start["right"] = 0

MCNext ==
    \/ /\ turn = "tracking" /\ Next
       /\ UNCHANGED <<turn, liveVars>>
    \/ /\ turn = "cameras" /\ Live!Next
       /\ UNCHANGED <<turn, vars>>

\* The fairness of LiveCameras on its turn; DetectTrack states none.
MCSpec ==
    /\ MCInit /\ [][MCNext]_mcVars
    /\ \A c \in Live!Cameras :
           /\ WF_liveVars(turn = "cameras" /\ Live!CameraEnds(c))
           /\ WF_liveVars(turn = "cameras" /\ Live!Thread(c))
    /\ WF_liveVars(turn = "cameras" /\ Live!PairingThread)
    /\ WF_liveVars(turn = "cameras" /\ Live!Pending)

------------------------------------------------------------------------------
\* LiveCameras: until a sample is dropped, pairs are of one tick. The types of
\* the state of both components are checked with it.
InStepUntilDrop == TypeOK /\ Live!TypeOK /\ Live!InStepUntilDrop

\* LiveCameras: the samples lent to the caller are kept until it releases them.
LentIsKept == Live!LentIsKept

\* LiveCameras: the end of a camera, or of the caller, ends the whole.
CamerasEnd == turn = "cameras" => Live!CamerasEnd
===============================================================================
