------------------------------ MODULE LiveCameras ------------------------------
(***************************************************************************)
(* The live camera sources, by backend:                                    *)
(*   "i420", "nv12"  GStreamer, frames copied out of an appsink            *)
(*   "nvmm"          GStreamer on Jetson, frames lent as DMA-bufs          *)
(*   "v4l2"          raw frames from the kernel's buffers                  *)
(*   "rpicam"        two rpicam-vid processes behind pipes                 *)
(*   "duplicate"     one rpicam-vid process, each frame for both sides     *)
(* A capture thread per camera moves samples from the device's queue to a  *)
(* channel; a pairing thread zips the two channels into the channel the    *)
(* caller takes stereo pairs from. With nvmm the caller does the pairing   *)
(* and the capture thread keeps its sample until the caller releases it.   *)
(*                                                                         *)
(* A sample is the tick of the common clock at which it was captured. Both *)
(* cameras capture at every tick, from the tick at which they started.     *)
(***************************************************************************)
EXTENDS Integers, Sequences

CONSTANTS
    Capacity,       \* samples a device's queue and each channel hold
    LateStart,      \* the right camera may start this many ticks late
    Backends,       \* the backends to explore
    MaxTicks        \* bound: captures of a camera

LiveCamerasAssumption ==
    /\ Capacity \in Nat \ {0} /\ LateStart \in Nat /\ MaxTicks \in Nat
    /\ Backends \subseteq {"i420", "nv12", "nvmm", "v4l2", "rpicam", "duplicate"}

VARIABLES
    backend,        \* which source it is
    start,          \* camera -> the tick at which it started
    now,            \* the clock
    camera,         \* camera -> "on" or "ended"
    device,         \* camera -> the samples in its appsink, buffers or pipe
    lost,           \* camera -> samples its device has dropped
    thread,         \* camera -> where its capture thread stands
    inHand,         \* camera -> the sample its thread holds
    chan,           \* camera -> the channel from its capture thread
    released,       \* nvmm: camera -> releases its thread has not received
    pairing,        \* where the pairing thread stands
    pair,           \* camera -> what has been received for the next pair
    pairChan,       \* the channel to the caller
    stop,           \* the stop flag
    caller,         \* where the caller stands
    got             \* the last pair the caller got

setupVars == <<backend, start>>
deviceVars == <<now, camera, device, lost>>
threadVars == <<thread, inHand, chan, released>>
pairingVars == <<pairing, pair, pairChan>>
callerVars == <<stop, caller, got>>
camerasVars == <<setupVars, deviceVars, threadVars, pairingVars, callerVars>>

------------------------------------------------------------------------------
Cameras == {"left", "right"}

None == -1

NoPair == [c \in Cameras |-> None]

HasStop == backend \in {"nv12", "nvmm", "v4l2"}

\* The cameras that are there: the duplicating source has one.
Fitted == IF backend = "duplicate" THEN {"left"} ELSE Cameras

Init ==
    /\ backend \in Backends
    /\ start \in [Cameras -> 0 .. LateStart] /\ start["left"] = 0
    /\ now = 0
    /\ camera = [c \in Cameras |-> IF c \in Fitted THEN "on" ELSE "ended"]
    /\ device = [c \in Cameras |-> <<>>]
    /\ lost = [c \in Cameras |-> 0]
    /\ thread = [c \in Cameras |-> IF c \in Fitted THEN "pull" ELSE "gone"]
    /\ inHand = NoPair
    /\ chan = [c \in Cameras |-> <<>>]
    /\ released = [c \in Cameras |-> 0]
    /\ pairing = IF backend = "nvmm" THEN "gone" ELSE "left"
    /\ pair = NoPair
    /\ pairChan = <<>>
    /\ stop = FALSE
    /\ caller = "idle"
    /\ got = NoPair

\* A capture thread has gone: its sender is dropped.
Gone(c) == thread[c] = "gone"

\* A full appsink drops its oldest sample (set_drop(true)); the kernel without
\* a queued buffer, and rpicam-vid before a full pipe, drop the new one.
Kept(c) ==
    IF Len(device[c]) < Capacity THEN Append(device[c], now)
    ELSE IF backend \in {"i420", "nv12", "nvmm"} THEN Append(Tail(device[c]), now)
    ELSE device[c]

Capture ==
    LET capturing == {c \in Cameras : camera[c] = "on" /\ start[c] <= now /\ ~Gone(c)}
        full == {c \in capturing : Len(device[c]) = Capacity}
    IN  /\ now < MaxTicks
        /\ now' = now + 1
        /\ device' = [c \in Cameras |-> IF c \in capturing THEN Kept(c) ELSE device[c]]
        /\ lost' = [c \in Cameras |-> IF c \in full THEN lost[c] + 1 ELSE lost[c]]
        /\ UNCHANGED <<setupVars, camera, threadVars, pairingVars, callerVars>>

\* The camera stops, or cannot be opened: its samples come to an end.
CameraEnds(c) ==
    /\ camera[c] = "on"
    /\ camera' = [camera EXCEPT ![c] = "ended"]
    /\ UNCHANGED <<setupVars, now, device, lost, threadVars, pairingVars, callerVars>>

------------------------------------------------------------------------------
(* The loop of a capture thread. *)

\* It ends: the sample it holds is dropped with it.
Leave(c) ==
    /\ thread' = [thread EXCEPT ![c] = "gone"]
    /\ inHand' = [inHand EXCEPT ![c] = None]

\* The flag is read before the pull, which blocks until there is a sample or
\* the end.
ReadStop(c) ==
    /\ thread[c] = "pull" /\ stop
    /\ Leave(c)
    /\ UNCHANGED <<setupVars, deviceVars, chan, released, pairingVars, callerVars>>

\* With nvmm this is where the previous sample is dropped.
Pull(c) ==
    /\ thread[c] = "pull" /\ device[c] # <<>>
    /\ thread' = [thread EXCEPT ![c] = "send"]
    /\ inHand' = [inHand EXCEPT ![c] = Head(device[c])]
    /\ device' = [device EXCEPT ![c] = Tail(@)]
    /\ UNCHANGED <<setupVars, now, camera, lost, chan, released, pairingVars, callerVars>>

PullEnds(c) ==
    /\ thread[c] = "pull" /\ device[c] = <<>> /\ camera[c] = "ended"
    /\ Leave(c)
    /\ UNCHANGED <<setupVars, deviceVars, chan, released, pairingVars, callerVars>>

\* A sample that cannot be read, mapped or split into planes ends the thread.
BadSample(c) ==
    /\ thread[c] = "send"
    /\ Leave(c)
    /\ UNCHANGED <<setupVars, deviceVars, chan, released, pairingVars, callerVars>>

\* The other end of a capture thread's channel is gone.
Unheard == IF backend = "nvmm" THEN caller = "gone" ELSE pairing = "gone"

\* A sample is sent. With nvmm the thread keeps it and waits to be released.
Sent(c) ==
    IF backend = "nvmm"
    THEN thread' = [thread EXCEPT ![c] = "release"] /\ UNCHANGED inHand
    ELSE /\ thread' = [thread EXCEPT ![c] = "pull"]
         /\ inHand' = [inHand EXCEPT ![c] = None]

\* Mutant of Send: a full channel makes the thread skip the sample.
SendOrSkip(c) ==
    /\ thread[c] = "send"
    /\ \/ /\ ~Unheard
          /\ chan' = IF Len(chan[c]) < Capacity
                     THEN [chan EXCEPT ![c] = Append(@, inHand[c])] ELSE chan
          /\ Sent(c)
       \/ Unheard /\ Leave(c) /\ UNCHANGED chan
    /\ UNCHANGED <<setupVars, deviceVars, released, pairingVars, callerVars>>

\* tx.send blocks while the channel is full, and fails once nobody receives.
Send(c) ==
    /\ thread[c] = "send"
    /\ \/ /\ ~Unheard /\ Len(chan[c]) < Capacity
          /\ chan' = [chan EXCEPT ![c] = Append(@, inHand[c])]
          /\ Sent(c)
       \/ Unheard /\ Leave(c) /\ UNCHANGED chan
    /\ UNCHANGED <<setupVars, deviceVars, released, pairingVars, callerVars>>

\* release_rx.recv: returns with a release, or when its sender is dropped.
AwaitRelease(c) ==
    /\ thread[c] = "release"
    /\ \/ released[c] > 0 /\ released' = [released EXCEPT ![c] = @ - 1]
       \/ released[c] = 0 /\ caller = "gone" /\ UNCHANGED released
    /\ thread' = [thread EXCEPT ![c] = "pull"]
    /\ UNCHANGED <<setupVars, deviceVars, inHand, chan, pairingVars, callerVars>>

------------------------------------------------------------------------------
\* The tuple of the pairing loop receives from the left and then, whatever
\* came of it, from the right; the duplicating loop has one channel.
After(c) == IF c = "left" /\ backend # "duplicate" THEN "right" ELSE "send"

\* What a sample received from c is used for.
SidesOf(c) == IF backend = "duplicate" THEN Cameras ELSE {c}

Take(c) ==
    /\ chan[c] # <<>>
    /\ pair' = [s \in Cameras |-> IF s \in SidesOf(c) THEN Head(chan[c]) ELSE pair[s]]
    /\ chan' = [chan EXCEPT ![c] = Tail(@)]

Receive(c) ==
    /\ pairing = c
    /\ \/ Take(c)
       \/ chan[c] = <<>> /\ Gone(c) /\ UNCHANGED <<pair, chan>>
    /\ pairing' = After(c)
    /\ UNCHANGED <<setupVars, deviceVars, thread, inHand, released, pairChan, callerVars>>

\* Mutant of SendPair: the thread does not look whether the caller is there.
SendPairUnheard ==
    /\ pairing = "send"
    /\ \/ /\ \A c \in Cameras : pair[c] # None
          /\ Len(pairChan) < Capacity
          /\ pairChan' = Append(pairChan, pair)
          /\ pairing' = "left"
       \/ /\ \E c \in Cameras : pair[c] = None
          /\ pairing' = "gone"
          /\ UNCHANGED pairChan
    /\ pair' = NoPair
    /\ UNCHANGED <<setupVars, deviceVars, threadVars, callerVars>>

\* Both came: send them, unless the caller is gone. Otherwise the loop ends.
SendPair ==
    /\ pairing = "send"
    /\ \/ /\ \A c \in Cameras : pair[c] # None
          /\ caller # "gone" /\ Len(pairChan) < Capacity
          /\ pairChan' = Append(pairChan, pair)
          /\ pairing' = "left"
       \/ /\ caller = "gone" \/ \E c \in Cameras : pair[c] = None
          /\ pairing' = "gone"
          /\ UNCHANGED pairChan
    /\ pair' = NoPair
    /\ UNCHANGED <<setupVars, deviceVars, threadVars, callerVars>>

------------------------------------------------------------------------------
(* The caller: the capture loops of the command line. *)

\* next_frame, next_pair. All but nvmm block in one recv.
CallNext ==
    /\ caller = "idle"
    /\ caller' = IF backend = "nvmm" THEN "left" ELSE "waiting"
    /\ UNCHANGED <<setupVars, deviceVars, threadVars, pairingVars, stop, got>>

NextReturns ==
    /\ caller = "waiting"
    /\ \/ /\ pairChan # <<>>
          /\ got' = Head(pairChan)
          /\ pairChan' = Tail(pairChan)
          /\ caller' = "idle"
       \/ /\ pairChan = <<>> /\ pairing = "gone"
          /\ caller' = "none"
          /\ UNCHANGED <<got, pairChan>>
    /\ UNCHANGED <<setupVars, deviceVars, threadVars, pairing, pair, stop>>

\* next_pair of nvmm: the left first; the end of either side ends the call.
NextFrom(c) ==
    /\ backend = "nvmm" /\ caller = c
    /\ \/ /\ Take(c)
          /\ caller' = IF c = "left" THEN "right" ELSE "using"
          /\ got' = IF c = "left" THEN got ELSE pair'
       \/ /\ chan[c] = <<>> /\ Gone(c)
          /\ caller' = "none"
          /\ UNCHANGED <<pair, chan, got>>
    /\ UNCHANGED <<setupVars, deviceVars, thread, inHand, released, pairing, pairChan,
                   stop>>

\* Mutant of Release: released after the submit, and again at the loop's end.
ReleaseTwice ==
    /\ caller = "using"
    /\ released' = [c \in Cameras |-> IF Gone(c) THEN released[c] ELSE released[c] + 2]
    /\ caller' = "idle"
    /\ UNCHANGED <<setupVars, deviceVars, thread, inHand, chan, pairingVars, stop, got>>

\* The render of the pair is submitted, and release_previous.
Release ==
    /\ caller = "using"
    /\ released' = [c \in Cameras |-> IF Gone(c) THEN released[c] ELSE released[c] + 1]
    /\ caller' = "idle"
    /\ UNCHANGED <<setupVars, deviceVars, thread, inHand, chan, pairingVars, stop, got>>

\* stop: the loop is over and will not ask again.
Stop ==
    /\ HasStop /\ caller \in {"idle", "none"}
    /\ stop' = TRUE
    /\ caller' = "stopped"
    /\ UNCHANGED <<setupVars, deviceVars, threadVars, pairingVars, got>>

\* Drop, also after an error in the loop. The flag, then one drain, then half a
\* second in which the threads go on, and only then are the channels dropped.
\* nvmm has its channels in the source and releases each side once more. The
\* rpicam-vid processes are killed and waited for. I420 just drops its channel.
Close ==
    /\ caller \in {"idle", "using", "none", "stopped"}
    /\ caller' = IF backend = "i420" THEN "gone" ELSE "closing"
    /\ stop' = HasStop
    /\ pairChan' = <<>>
    /\ camera' = IF backend \in {"rpicam", "duplicate"}
                 THEN [c \in Cameras |-> "ended"] ELSE camera
    /\ IF backend = "nvmm"
       THEN /\ chan' = [c \in Cameras |-> <<>>]
            /\ released' = [c \in Cameras |-> IF Gone(c) THEN released[c] ELSE released[c] + 1]
       ELSE UNCHANGED <<chan, released>>
    /\ UNCHANGED <<setupVars, now, device, lost, thread, inHand, pairing, pair, got>>

CloseReturns ==
    /\ caller = "closing"
    /\ caller' = "gone"
    /\ pairChan' = <<>>
    /\ UNCHANGED <<setupVars, deviceVars, threadVars, pairing, pair, stop, got>>

------------------------------------------------------------------------------
Thread(c) ==
    ReadStop(c) \/ Pull(c) \/ PullEnds(c) \/ Send(c) \/ AwaitRelease(c)

PairingThread == (\E c \in Cameras : Receive(c)) \/ SendPair

Caller ==
    CallNext \/ NextReturns \/ Release \/ Stop \/ Close \/ CloseReturns

Next ==
    \/ Capture
    \/ \E c \in Cameras : CameraEnds(c) \/ Thread(c) \/ BadSample(c) \/ NextFrom(c)
    \/ PairingThread \/ Caller

\* What a call does once it is made.
Pending == NextReturns \/ CloseReturns \/ \E c \in Cameras : NextFrom(c)

Spec == Init /\ [][Next]_camerasVars

\* The cameras end in the end, as the bound on the clock makes them; the
\* threads run; a call that was made goes on.
FairSpec ==
    /\ Spec
    /\ \A c \in Cameras :
           WF_camerasVars(CameraEnds(c)) /\ WF_camerasVars(Thread(c))
    /\ WF_camerasVars(PairingThread)
    /\ WF_camerasVars(Pending)

------------------------------------------------------------------------------
(* Properties *)

TypeOK ==
    /\ now \in Nat
    /\ thread \in [Cameras -> {"pull", "send", "release", "gone"}]
    /\ \A c \in Cameras : Len(device[c]) <= Capacity /\ Len(chan[c]) <= Capacity
    /\ pairing \in {"left", "right", "send", "gone"}
    /\ caller \in {"idle", "waiting", "left", "right", "using", "none", "stopped",
                   "closing", "gone"}

\* The two samples of every pair were captured at the same tick as long as the
\* cameras started together and no device dropped one: the two channels are
\* zipped without losing step, whichever thread is ahead. The duplicated frame
\* is in step whatever is dropped.
InStepUntilDrop ==
    \/ got["left"] = got["right"]
    \/ /\ backend # "duplicate"
       /\ start["left"] # start["right"] \/ \E c \in Cameras : lost[c] > 0

\* nvmm: from next_pair to release_previous the capture threads keep exactly the
\* two samples whose buffers the caller was lent, whatever ends meanwhile; a
\* release is for the pair the caller has just used.
LentIsKept ==
    caller = "using" => \A c \in Cameras : inHand[c] = got[c]

\* A camera that ends ends the whole: a pending call returns, and once the
\* source is dropped no thread is left behind.
CamerasEnd ==
    /\ caller \in {"waiting", "left", "right"} ~> caller \notin {"waiting", "left", "right"}
    /\ caller = "gone" ~> pairing = "gone" /\ \A c \in Cameras : Gone(c)
===============================================================================
