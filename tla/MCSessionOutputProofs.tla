----------------------- MODULE MCSessionOutputProofs -----------------------
(***************************************************************************)
(* What is proved of the readback ring's callers: the session's outputs,   *)
(* the stacked GPU replay, and the core with its replay buffer. Each       *)
(* theorem holds of the part by itself and of the composition of           *)
(* MCSessionOutput.                                                        *)
(***************************************************************************)
EXTENDS MCSessionOutput, SequenceTheorems, WellFoundedInduction, TLAPS

------------------------------------------------------------------------------
(***************************************************************************)
(* SessionOutput: every rendered frame to every encoder.                   *)
(***************************************************************************)

\* The ring's own proofs, of the ring this session has.
RingProofs == INSTANCE Nv12ReadbackProofs

\* The frames that the first renders counted without returning one.
Warm == IF submitted < 2 THEN submitted ELSE 2

\* Encoder e holds the frames 0, 1, 2, ... with timestamps from Warm on.
FirstFrames(e) ==
    \A k \in 1 .. Len(sent[e]) : sent[e][k].frame = k - 1 /\ sent[e][k].pts = Warm + k - 1

\* The types of the session's state.
OutputTyped ==
    /\ session \in {"running", "finishing", "closing", "ok", "error", "dropped"}
    /\ handing \in 0 .. Outputs
    /\ frameCount \in Nat
    /\ sent \in [Output!Encoders -> Seq([frame : Nat, pts : Nat])]
    /\ alive \in [Output!Encoders -> BOOLEAN]
    /\ written \in [Output!Encoders -> {"open", "final", "lost"}]

\* Where the session stands, and where the ring then stands.
SessionAndRing ==
    /\ session \notin {"error", "dropped"} => state # "failed"
    /\ call = "convert" => session = "running" /\ handing = 0
    /\ session = "running" =>
           state = "open" /\ (call = "none" => pendingCount = Warm)
    /\ session = "finishing" => state = "open"
    /\ session \in {"error", "dropped"} => handing = 0
    /\ session \in {"closing", "ok"} => state = "flushed" /\ handing = 0
    /\ session = "ok" => \A e \in Output!Encoders : written[e] = "final"

\* While the session works, the encoders before the one it hands to have the
\* returned frame, the others do not; an error leaves them at that.
Handed ==
    /\ session \notin {"error", "dropped"} =>
           /\ frameCount = Warm + returned + (IF handing = 0 THEN 1 ELSE 0)
           /\ handing # 0 => returned >= 0
           /\ \A e \in Output!Encoders :
                  Len(sent[e]) = returned + (IF handing = 0 \/ e < handing THEN 1 ELSE 0)
    /\ \A d, e \in Output!Encoders : d < e => Len(sent[d]) - Len(sent[e]) \in {0, 1}

\* The inductive invariant: the ring's own, and what the encoders were handed.
OutputInv ==
    /\ RingProofs!Inv /\ OutputTyped /\ SessionAndRing /\ Handed
    /\ \A e \in Output!Encoders : FirstFrames(e)

\* Every step of the session is a step of the readback ring, or leaves it alone.
LEMMA RingAlone ==
  Output!Next => [RingProofs!Next]_RingProofs!vars
BY DEF Output!Next, Output!Render, Output!Readback, Output!ReadbackFails, Output!BeginFinish,
   Output!Finishing, Output!FlushPending, Output!Hand, Output!FinishEncoder, Output!DropSession,
   Output!EncoderDies, Output!GpuFinishes, Output!ringVars,
   Output!Ring!Submit, Output!Ring!Readback, Output!Ring!Flush,
   Output!Ring!ReadbackFails, Output!Ring!GpuFinishes, Output!Ring!Advance,
   Output!Ring!ReadStaging, Output!Ring!ReadSlot, Output!Ring!OldestSlot, Output!Ring!gpuVars,
   RingProofs!Next, RingProofs!Submit, RingProofs!Readback, RingProofs!Flush,
   RingProofs!ReadbackFails, RingProofs!GpuFinishes, RingProofs!Advance,
   RingProofs!ReadStaging, RingProofs!ReadSlot, RingProofs!OldestSlot, RingProofs!gpuVars,
   RingProofs!vars

\* The session's counters are numbers.
LEMMA OutputNumbers ==
  ASSUME OutputInv
  PROVE  /\ Outputs \in Nat \ {0} /\ Output!Encoders = 1 .. Outputs /\ handing \in Nat
         /\ submitted \in Nat /\ returned \in Int /\ returned >= -1 /\ frameCount \in Nat
         /\ Warm \in Nat /\ pendingCount \in 0 .. 2
         /\ \A e \in Output!Encoders : e \in Nat /\ Len(sent[e]) \in Nat
BY OutputAssumption
DEF Output!SessionOutputAssumption, Output!Encoders, OutputInv, OutputTyped, RingProofs!Inv,
    RingProofs!TypeOK, RingProofs!None, Warm

\* A session starts in a state of the invariant.
LEMMA OutputStarts == Output!Init => OutputInv
<1> SUFFICES ASSUME Output!Init PROVE OutputInv
  OBVIOUS
<1>1. RingProofs!Inv
  BY RingProofs!InitInv DEF Output!Init, Output!Ring!Init, RingProofs!Init, Output!Ring!Slots,
     RingProofs!Slots, Output!Ring!None, RingProofs!None
<1>2. \A e \in Output!Encoders : sent[e] = <<>> /\ Len(sent[e]) = 0
  <2>1. \A e \in Output!Encoders : sent[e] = <<>>
    BY DEF Output!Init
  <2> QED
    BY <2>1
<1>3. /\ submitted = 0 /\ returned = -1 /\ pendingCount = 0 /\ call = "none" /\ state = "open"
      /\ session = "running" /\ handing = 0 /\ frameCount = 0
  BY DEF Output!Init, Output!Ring!Init, Output!Ring!None
<1>4. OutputTyped
  BY <1>3, OutputAssumption DEF Output!Init, OutputTyped, Output!SessionOutputAssumption
<1> QED
  BY <1>1, <1>2, <1>3, <1>4 DEF OutputInv, SessionAndRing, Handed, FirstFrames, Warm

\* The ring of a session that works is a frame pipe: what comes out is next.
LEMMA RingReturns ==
  ASSUME OutputInv
  PROVE  /\ Output!Ring!Readback =>
                /\ returned' = returned + 1 /\ call' = "none" /\ pendingCount' = 2
                /\ submitted' = submitted /\ submitted >= 2 /\ returned' >= 0
                /\ state' = state
         /\ Output!Ring!Flush /\ session = "finishing" =>
                /\ call' = "none" /\ submitted' = submitted
                /\ \/ /\ state' = "flushed" /\ returned' = returned /\ returned = submitted - 1
                   \/ state' = "open" /\ returned' = returned + 1 /\ returned' >= 0
<1>0. RingProofs!Inv /\ returned \in Int /\ returned >= -1 /\ submitted \in Nat
  BY OutputNumbers DEF OutputInv
<1>1. ASSUME Output!Ring!Readback
      PROVE  /\ returned' = returned + 1 /\ call' = "none" /\ pendingCount' = 2
             /\ submitted' = submitted /\ submitted >= 2 /\ returned' >= 0
             /\ state' = state
  <2>1. call = "convert" /\ state # "failed" /\ RingProofs!RingInv
    BY <1>0, <1>1 DEF Output!Ring!Readback, RingProofs!Inv
  <2>2. staging[RingProofs!ReadSlot] = returned + 1 /\ pendingCount = 2 /\ submitted >= 3
    BY <2>1, RingProofs!ReadSlotHoldsOldest DEF RingProofs!RingInv
  <2>3. returned' = staging[Output!Ring!ReadSlot] /\ submitted' = submitted /\ state' = state
        /\ call' = "none"
    BY <1>1 DEF Output!Ring!Readback, Output!Ring!ReadStaging
  <2>4. pendingCount' = 2
    BY <1>1, <2>2 DEF Output!Ring!Readback, Output!Ring!Advance
  <2>5. Output!Ring!ReadSlot = RingProofs!ReadSlot
    BY DEF Output!Ring!ReadSlot, RingProofs!ReadSlot
  <2> QED
    BY <1>0, <2>2, <2>3, <2>4, <2>5
<1>2. ASSUME Output!Ring!Flush, session = "finishing"
      PROVE  /\ call' = "none" /\ submitted' = submitted
             /\ \/ /\ state' = "flushed" /\ returned' = returned /\ returned = submitted - 1
                \/ state' = "open" /\ returned' = returned + 1 /\ returned' >= 0
  <2>1. call = "none" /\ state = "open" /\ RingProofs!RingInv
    BY <1>0, <1>2 DEF Output!Ring!Flush, RingProofs!Inv
  <2>2. CASE pendingCount = 0
    BY <1>2, <2>1, <2>2 DEF Output!Ring!Flush, Output!Ring!gpuVars, RingProofs!RingInv,
       RingProofs!TypeOK
  <2>3. CASE pendingCount # 0
    <3>1. staging[RingProofs!OldestSlot] = returned + 1
      BY <2>1, <2>3, RingProofs!OldestSlotHoldsOldest DEF RingProofs!RingInv, RingProofs!TypeOK
    <3> QED
      BY <1>0, <1>2, <2>1, <2>3, <3>1 DEF Output!Ring!Flush, Output!Ring!ReadStaging,
         Output!Ring!OldestSlot, RingProofs!OldestSlot
  <2> QED
    BY <2>2, <2>3
<1> QED
  BY <1>1, <1>2

\* Handing a frame to an encoder, or failing to, keeps the encoders equal.
LEMMA HandKeeps ==
  ASSUME OutputInv, RingProofs!Inv', Output!Hand
  PROVE  OutputInv'
<1>0. /\ Outputs \in Nat \ {0} /\ Output!Encoders = 1 .. Outputs /\ handing \in 1 .. Outputs
      /\ returned \in Int /\ frameCount \in Nat /\ Warm \in Nat
      /\ \A e \in Output!Encoders : e \in Nat /\ Len(sent[e]) \in Nat
  BY OutputNumbers DEF Output!Hand, OutputInv, OutputTyped
<1>1. /\ UNCHANGED <<submitted, gpuDone, staging, currentSlot, pendingCount, call, returned, state,
                     alive, written>>
      /\ Warm' = Warm
  BY DEF Output!Hand, Output!ringVars, Output!Ring!gpuVars, Warm
<1>2. session \in {"running", "finishing", "error", "dropped"} /\ call # "convert"
  BY <1>0 DEF OutputInv, OutputTyped, SessionAndRing
<1>3. CASE Output!Refuse(handing)
  <2>1. session' = "error" /\ handing' = 0 /\ UNCHANGED <<frameCount, sent>>
    BY <1>3 DEF Output!Refuse
  <2>2. OutputTyped' /\ SessionAndRing' /\ Handed'
    BY <1>0, <1>1, <1>2, <2>1 DEF OutputInv, OutputTyped, SessionAndRing, Handed
  <2> QED
    BY <1>1, <2>1, <2>2 DEF OutputInv, FirstFrames, Output!Encoders
<1>4. CASE Output!Accept(handing) /\ session \notin {"error", "dropped"}
  <2> DEFINE new == [frame |-> returned, pts |-> frameCount]
  <2>1. /\ frameCount = Warm + returned /\ returned >= 0
        /\ \A e \in Output!Encoders : Len(sent[e]) = returned + (IF e < handing THEN 1 ELSE 0)
    BY <1>0, <1>4 DEF OutputInv, Handed
  <2>2. new \in [frame : Nat, pts : Nat] /\ new.frame = returned /\ new.pts = frameCount
    BY <1>0, <2>1
  <2>3. sent' = [sent EXCEPT ![handing] = Append(sent[handing], new)] /\ session' = session
    BY <1>4 DEF Output!Accept
  <2>4. sent \in [Output!Encoders -> Seq([frame : Nat, pts : Nat])]
    BY DEF OutputInv, OutputTyped
  <2> HIDE DEF new
  <2>5. /\ Append(sent[handing], new) \in Seq([frame : Nat, pts : Nat])
        /\ Len(Append(sent[handing], new)) = returned + 1
        /\ \A k \in 1 .. returned : Append(sent[handing], new)[k] = sent[handing][k]
        /\ Append(sent[handing], new)[returned + 1] = new
    <3>1. Len(sent[handing]) = returned /\ sent[handing] \in Seq([frame : Nat, pts : Nat])
      BY <1>0, <2>1, <2>4
    <3> QED
      BY <2>2, <3>1, AppendProperties
  <2>6. sent' \in [Output!Encoders -> Seq([frame : Nat, pts : Nat])]
    BY <2>3, <2>4, <2>5
  <2>7. /\ sent'[handing] = Append(sent[handing], new)
        /\ \A e \in Output!Encoders : e # handing => sent'[e] = sent[e]
    BY <1>0, <2>3, <2>4
  <2>8. \A e \in Output!Encoders :
            Len(sent'[e]) = returned + (IF e <= handing THEN 1 ELSE 0)
    <3> SUFFICES ASSUME NEW e \in Output!Encoders
                 PROVE  Len(sent'[e]) = returned + (IF e <= handing THEN 1 ELSE 0)
      OBVIOUS
    <3>1. CASE e = handing
      BY <1>0, <2>5, <2>7, <3>1
    <3>2. CASE e # handing
      BY <1>0, <2>1, <2>7, <3>2
    <3> QED
      BY <3>1, <3>2
  <2>9. \/ handing < Outputs /\ handing' = handing + 1 /\ frameCount' = frameCount
        \/ handing = Outputs /\ handing' = 0 /\ frameCount' = frameCount + 1
    BY <1>0, <1>4 DEF Output!Accept
  <2>10. OutputTyped'
    <3>1. handing' \in 0 .. Outputs /\ frameCount' \in Nat
      BY <1>0, <2>9
    <3>2. alive' = alive /\ written' = written /\ session' = session
      BY <1>1, <2>3
    <3> QED
      BY <2>6, <3>1, <3>2 DEF OutputInv, OutputTyped, Output!Encoders
  <2>11. SessionAndRing'
    BY <1>1, <1>2, <1>4, <2>3 DEF OutputInv, SessionAndRing, Output!Encoders
  <2>12. Handed'
    <3>1. frameCount' = Warm + returned + (IF handing' = 0 THEN 1 ELSE 0)
      BY <1>0, <2>1, <2>9
    <3>2. \A e \in Output!Encoders :
              Len(sent'[e]) = returned + (IF handing' = 0 \/ e < handing' THEN 1 ELSE 0)
      BY <1>0, <2>8, <2>9
    <3>3. \A d, e \in Output!Encoders : d < e => Len(sent'[d]) - Len(sent'[e]) \in {0, 1}
      BY <1>0, <2>8
    <3> QED
      BY <1>1, <2>1, <3>1, <3>2, <3>3 DEF Handed
  <2>13. ASSUME NEW e \in Output!Encoders PROVE FirstFrames(e)'
    <3>1. CASE e # handing
      BY <1>1, <2>7, <3>1 DEF OutputInv, FirstFrames
    <3>2. CASE e = handing
      <4>1. Len(sent[e]) = returned
        BY <1>0, <2>1, <3>2
      <4> SUFFICES ASSUME NEW k \in 1 .. returned + 1
                   PROVE  sent'[e][k].frame = k - 1 /\ sent'[e][k].pts = Warm + k - 1
        BY <1>1, <2>5, <2>7, <3>2 DEF FirstFrames
      <4>2. CASE k \in 1 .. returned
        <5>1. sent'[e][k] = sent[e][k] /\ k \in 1 .. Len(sent[e])
          BY <2>5, <2>7, <3>2, <4>1, <4>2
        <5> QED
          BY <5>1 DEF OutputInv, FirstFrames
      <4>3. CASE k = returned + 1
        <5>1. sent'[e][k] = new
          BY <2>5, <2>7, <3>2, <4>3
        <5> QED
          BY <1>0, <2>1, <2>2, <4>3, <5>1
      <4> QED
        BY <1>0, <4>2, <4>3
    <3> QED
      BY <3>1, <3>2
  <2> QED
    BY <2>10, <2>11, <2>12, <2>13 DEF OutputInv, Output!Encoders
<1>5. session \notin {"error", "dropped"}
  BY <1>0 DEF OutputInv, SessionAndRing
<1> QED
  BY <1>3, <1>4, <1>5 DEF Output!Hand

\* Reading back and flushing keep what the encoders were handed.
LEMMA RingStepKeeps ==
  ASSUME OutputInv, RingProofs!Inv', Output!Readback \/ Output!FlushPending
  PROVE  OutputInv'
<1>0. /\ Outputs \in Nat \ {0} /\ returned \in Int /\ frameCount \in Nat /\ Warm \in Nat
      /\ submitted \in Nat
      /\ \A e \in Output!Encoders : e \in Nat /\ Len(sent[e]) \in Nat /\ ~(e < 1)
  BY OutputNumbers
<1>1. UNCHANGED <<frameCount, sent, alive, written>>
  BY DEF Output!Readback, Output!FlushPending, Output!encoderVars
<1>2. handing = 0 /\ session \notin {"error", "dropped"}
  BY DEF Output!Readback, Output!FlushPending, Output!Ring!Readback, OutputInv, SessionAndRing
<1>3. /\ submitted' = submitted /\ Warm' = Warm /\ call' = "none" /\ state' # "failed"
      /\ \/ /\ returned' = returned + 1 /\ returned' >= 0 /\ handing' = 1 /\ session' = session
            /\ state' = "open" /\ session \in {"running", "finishing"}
            /\ session = "running" => pendingCount' = Warm
         \/ /\ returned' = returned /\ handing' = 0 /\ session' = "closing" /\ state' = "flushed"
  <2>1. CASE Output!Readback
    <3>1. call = "convert" /\ session = "running" /\ state = "open"
      BY <2>1 DEF Output!Readback, Output!Ring!Readback, OutputInv, SessionAndRing
    <3>2. Output!Ring!Readback /\ handing' = 1 /\ session' = session
      BY <2>1 DEF Output!Readback
    <3> QED
      BY <1>0, <3>1, <3>2, RingReturns DEF Warm
  <2>2. CASE Output!FlushPending
    <3>1. Output!Ring!Flush /\ session = "finishing"
      BY <2>2 DEF Output!FlushPending
    <3>2. IF state' = "flushed" THEN session' = "closing" /\ handing' = handing
          ELSE handing' = 1 /\ session' = session
      BY <2>2 DEF Output!FlushPending
    <3> QED
      BY <1>0, <1>2, <3>1, <3>2, RingReturns DEF Warm
  <2> QED
    BY <2>1, <2>2
<1>4. OutputTyped'
  <2>1. handing' \in 0 .. Outputs
    BY <1>0, <1>3
  <2> QED
    BY <1>1, <1>3, <2>1 DEF OutputInv, OutputTyped, Output!Encoders
<1>5. SessionAndRing'
  <2>1. CASE handing' = 1 /\ session' = session /\ state' = "open"
             /\ session \in {"running", "finishing"}
             /\ (session = "running" => pendingCount' = Warm)
    <3>1. session' = "running" => pendingCount' = Warm'
      BY <1>3, <2>1
    <3> QED
      BY <1>3, <2>1, <3>1 DEF SessionAndRing
  <2>2. CASE handing' = 0 /\ session' = "closing" /\ state' = "flushed"
    BY <1>3, <2>2 DEF SessionAndRing
  <2> QED
    BY <1>3, <2>1, <2>2
<1>6. Handed'
  <2>1. /\ frameCount = Warm + returned + 1
        /\ \A e \in Output!Encoders : Len(sent[e]) = returned + 1
    BY <1>2 DEF OutputInv, Handed
  <2>2. /\ frameCount' = Warm + returned' + (IF handing' = 0 THEN 1 ELSE 0)
        /\ handing' # 0 => returned' >= 0
        /\ \A e \in Output!Encoders :
               Len(sent'[e]) = returned' + (IF handing' = 0 \/ e < handing' THEN 1 ELSE 0)
    BY <1>0, <1>1, <1>3, <2>1
  <2>3. \A d, e \in Output!Encoders : d < e => Len(sent'[d]) - Len(sent'[e]) \in {0, 1}
    BY <1>1 DEF OutputInv, Handed
  <2> QED
    BY <1>3, <2>2, <2>3 DEF Handed, Output!Encoders
<1> QED
  BY <1>1, <1>3, <1>4, <1>5, <1>6 DEF OutputInv, FirstFrames, Output!Encoders

\* Rendering and the session's ends keep it too.
LEMMA RenderKeeps ==
  ASSUME OutputInv, RingProofs!Inv', Output!Render
  PROVE  OutputInv'
<1>0. /\ Outputs \in Nat \ {0} /\ returned \in Int /\ frameCount \in Nat /\ Warm \in Nat
      /\ submitted \in Nat /\ pendingCount \in 0 .. 2
      /\ \A e \in Output!Encoders : Len(sent[e]) \in Nat
  BY OutputNumbers
<1>1. /\ UNCHANGED <<session, handing, sent, alive, written, state, returned>>
      /\ session = "running" /\ handing = 0 /\ call = "none" /\ state = "open"
      /\ submitted' = submitted + 1
  BY DEF Output!Render, Output!encoderVars, Output!Ring!Submit
<1>2. pendingCount = Warm /\ returned = submitted - 1 - pendingCount
  BY <1>1 DEF OutputInv, SessionAndRing, RingProofs!Inv, RingProofs!RingInv
<1>3. \/ Warm = 2 /\ Warm' = 2 /\ call' = "convert" /\ pendingCount' = 2 /\ frameCount' = frameCount
      \/ Warm < 2 /\ Warm' = Warm + 1 /\ call' = "none" /\ pendingCount' = pendingCount + 1
         /\ frameCount' = frameCount + 1 /\ returned = -1
  BY <1>0, <1>1, <1>2 DEF Output!Render, Output!Ring!Submit, Output!Ring!Advance, Warm
<1>4. OutputTyped'
  <2>1. frameCount' \in Nat
    BY <1>0, <1>3
  <2> QED
    BY <1>1, <2>1 DEF OutputInv, OutputTyped, Output!Encoders
<1>5. SessionAndRing'
  BY <1>1, <1>2, <1>3 DEF OutputInv, SessionAndRing, Output!Encoders
<1>6. /\ frameCount = Warm + returned + 1
      /\ \A e \in Output!Encoders : Len(sent[e]) = returned + 1
  BY <1>1 DEF OutputInv, Handed
<1>7. Handed'
  <2>1. frameCount' = Warm' + returned' + 1
    BY <1>0, <1>1, <1>3, <1>6
  <2> QED
    BY <1>1, <1>6, <2>1 DEF OutputInv, Handed, Output!Encoders
<1>8. ASSUME NEW e \in Output!Encoders PROVE FirstFrames(e)'
  <2>1. CASE Warm' = Warm
    BY <1>1, <2>1 DEF OutputInv, FirstFrames
  <2>2. CASE Warm' # Warm
    <3>1. Len(sent'[e]) = 0
      BY <1>0, <1>1, <1>3, <1>6, <2>2
    <3> QED
      BY <3>1 DEF FirstFrames
  <2> QED
    BY <2>1, <2>2
<1> QED
  BY <1>4, <1>5, <1>7, <1>8 DEF OutputInv, Output!Encoders

\* Every step of the session keeps the invariant.
LEMMA OutputStep == ASSUME OutputInv, [Output!Next]_outputVars PROVE OutputInv'
<1>0. RingProofs!Inv'
  <2>1. [RingProofs!Next]_RingProofs!vars
    BY RingAlone DEF outputVars, RingProofs!vars, RingProofs!gpuVars
  <2> QED
    BY <2>1, RingProofs!StepInv DEF OutputInv
<1>1. /\ Outputs \in Nat \ {0} /\ handing \in Nat /\ Output!Encoders = 1 .. Outputs
  BY OutputNumbers
<1>2. CASE UNCHANGED <<submitted, pendingCount, call, returned, state, handing, frameCount, sent>>
           /\ (UNCHANGED written \/ session \in {"closing", "error"})
           /\ OutputTyped' /\ SessionAndRing'
           /\ (session \in {"error", "dropped"} => session' \in {"error", "dropped"})
  BY <1>0, <1>2 DEF OutputInv, Handed, FirstFrames, Warm, Output!Encoders
<1>3. CASE Output!ReadbackFails
  <2>1. /\ session' = "error" /\ call' = "none" /\ handing = 0
        /\ UNCHANGED <<submitted, pendingCount, returned, handing, frameCount, sent, alive, written>>
    BY <1>3 DEF Output!ReadbackFails, Output!Ring!ReadbackFails, Output!encoderVars,
       Output!Ring!gpuVars
  <2> QED
    BY <1>0, <2>1 DEF OutputInv, OutputTyped, SessionAndRing, Handed, FirstFrames, Warm,
       Output!Encoders
<1>4. CASE Output!BeginFinish
  <2>1. /\ session = "running" /\ session' = "finishing" /\ call = "none"
        /\ UNCHANGED <<submitted, pendingCount, call, returned, state, handing, frameCount, sent,
                       alive, written>>
    BY <1>4 DEF Output!BeginFinish, Output!encoderVars, Output!ringVars
  <2> QED
    BY <1>0, <2>1 DEF OutputInv, OutputTyped, SessionAndRing, Handed, FirstFrames, Warm,
       Output!Encoders
<1>5. CASE Output!FinishEncoder
  <2>1. /\ session = "closing" /\ session' \in {"error", "ok", "closing"}
        /\ session' = "ok" => \A e \in Output!Encoders : written'[e] = "final"
        /\ UNCHANGED <<submitted, pendingCount, call, returned, state, handing, frameCount, sent,
                       alive>>
    BY <1>5 DEF Output!FinishEncoder, Output!ringVars
  <2>2. written' \in [Output!Encoders -> {"open", "final", "lost"}]
    BY <1>5 DEF Output!FinishEncoder, OutputInv, OutputTyped
  <2> QED
    BY <1>0, <2>1, <2>2 DEF OutputInv, OutputTyped, SessionAndRing, Handed, FirstFrames, Warm,
       Output!Encoders
<1>6. CASE Output!DropSession
  <2>1. /\ session = "error" /\ session' = "dropped"
        /\ UNCHANGED <<submitted, pendingCount, call, returned, state, handing, frameCount, sent,
                       alive>>
    BY <1>6 DEF Output!DropSession, Output!ringVars
  <2>2. written' \in [Output!Encoders -> {"open", "final", "lost"}]
    BY <1>6 DEF Output!DropSession, OutputInv, OutputTyped
  <2> QED
    BY <1>0, <2>1, <2>2 DEF OutputInv, OutputTyped, SessionAndRing, Handed, FirstFrames, Warm,
       Output!Encoders
<1>7. CASE Output!EncoderDies
  <2>1. UNCHANGED <<submitted, pendingCount, call, returned, state, session, handing, frameCount,
                    sent, written>>
    BY <1>7 DEF Output!EncoderDies, Output!ringVars
  <2>2. alive' \in [Output!Encoders -> BOOLEAN]
    BY <1>7 DEF Output!EncoderDies, OutputInv, OutputTyped
  <2> QED
    BY <1>0, <2>1, <2>2 DEF OutputInv, OutputTyped, SessionAndRing, Handed, FirstFrames, Warm,
       Output!Encoders
<1>8. CASE Output!GpuFinishes
  <2>1. UNCHANGED <<submitted, pendingCount, call, returned, state, session, handing, frameCount,
                    sent, alive, written>>
    BY <1>8 DEF Output!GpuFinishes, Output!Ring!GpuFinishes, Output!encoderVars
  <2> QED
    BY <1>0, <2>1 DEF OutputInv, OutputTyped, SessionAndRing, Handed, FirstFrames, Warm,
       Output!Encoders
<1>9. CASE UNCHANGED outputVars
  BY <1>0, <1>9 DEF outputVars, OutputInv, OutputTyped, SessionAndRing, Handed, FirstFrames, Warm,
     Output!Encoders
<1> QED
  BY <1>0, <1>3, <1>4, <1>5, <1>6, <1>7, <1>8, <1>9, RenderKeeps, RingStepKeeps, HandKeeps
  DEF Output!Next, Output!Finishing

\* The invariant gives the properties the run checks.
LEMMA OutputKeeps ==
  ASSUME OutputInv
  PROVE  /\ Output!TypeOK /\ Output!OutputsAgree /\ Output!EvenPts /\ Output!OkMeansWhole
         /\ Output!ReturnsFinishedFrames
<1>0. /\ submitted \in Nat /\ returned \in Int /\ Warm \in Nat
      /\ \A e \in Output!Encoders : Len(sent[e]) \in Nat
  BY OutputNumbers
<1>1. Output!TypeOK
  BY DEF OutputInv, OutputTyped, Output!TypeOK, RingProofs!Inv, RingProofs!TypeOK,
     Output!Ring!TypeOK, RingProofs!Slots, Output!Ring!Slots, RingProofs!None, Output!Ring!None
<1>2. \A e \in Output!Encoders : DOMAIN sent[e] = 1 .. Len(sent[e])
  BY DEF OutputInv, OutputTyped
<1>3. Output!OutputsAgree
  BY <1>2 DEF OutputInv, FirstFrames, Handed, Output!OutputsAgree
<1>4. Output!EvenPts
  <2> SUFFICES ASSUME NEW e \in Output!Encoders, NEW k \in 2 .. Len(sent[e])
               PROVE  sent[e][k].pts = sent[e][k - 1].pts + 1
    BY DEF Output!EvenPts
  <2>1. k \in 1 .. Len(sent[e]) /\ k - 1 \in 1 .. Len(sent[e])
    BY <1>0
  <2>2. sent[e][k].pts = Warm + k - 1 /\ sent[e][k - 1].pts = Warm + (k - 1) - 1
    BY <2>1 DEF OutputInv, FirstFrames
  <2> QED
    BY <1>0, <2>2
<1>5. Output!OkMeansWhole
  <2>1. session = "ok" => returned = submitted - 1 /\ handing = 0
    BY <1>0 DEF OutputInv, SessionAndRing, RingProofs!Inv, RingProofs!RingInv
  <2> QED
    BY <1>0, <2>1 DEF OutputInv, SessionAndRing, Handed, Output!OkMeansWhole
<1>6. Output!ReturnsFinishedFrames
  BY DEF OutputInv, RingProofs!Inv, Output!ReturnsFinishedFrames,
     Output!Ring!ReturnsFinishedFrames
<1> QED
  BY <1>1, <1>3, <1>4, <1>5, <1>6

\* The session's invariant holds in every state: the ring, the session and every encoder agree
\* on how many frames were rendered, read back and handed over.
THEOREM OutputAlways ==
  /\ Output!Spec => []OutputInv
  /\ MCSpec => []OutputInv
<1>1. OutputInv /\ [Output!Next]_Output!vars => OutputInv'
  BY OutputStep DEF Output!vars, outputVars, Output!ringVars, Output!encoderVars
<1>2. OutputInv /\ [MCNext]_mcVars => OutputInv'
  BY OutputStep DEF MCNext, mcVars
<1>3. MCInit => OutputInv
  BY OutputStarts DEF MCInit
<1> QED
  BY <1>1, <1>2, <1>3, OutputStarts, PTL DEF MCSpec, Output!Spec

\* A step of the session is a step of the frame pipe, or leaves it alone.
LEMMA OutputRefines ==
  ASSUME OutputInv, [Output!Next]_outputVars
  PROVE  [Output!Ring!Pipe!Next]_Output!Ring!Pipe!vars
<1>1. [RingProofs!Next]_RingProofs!vars
  <2>1. CASE Output!Next
    BY <2>1, RingAlone
  <2>2. CASE UNCHANGED outputVars
    BY <2>2 DEF outputVars, RingProofs!vars, RingProofs!gpuVars
  <2> QED
    BY <2>1, <2>2
<1>2. [RingProofs!Pipe!Next]_RingProofs!Pipe!vars
  BY <1>1, RingProofs!StepRefines DEF OutputInv
<1> QED
  BY <1>2 DEF RingProofs!Pipe!Next, RingProofs!Pipe!vars, RingProofs!Pipe!Inside,
     RingProofs!Pipe!Enter, RingProofs!Pipe!Leave, RingProofs!Pipe!Drain, RingProofs!Pipe!Abandon,
     Output!Ring!Pipe!Next, Output!Ring!Pipe!vars, Output!Ring!Pipe!Inside,
     Output!Ring!Pipe!Enter, Output!Ring!Pipe!Leave, Output!Ring!Pipe!Drain,
     Output!Ring!Pipe!Abandon

\* The ring in its session is the pipe of frames that the ring alone was shown to be:
\* frames come back in the order they were submitted, each once.
THEOREM OutputIsFramePipe ==
  /\ Output!Spec => Output!IsFramePipe
  /\ MCSpec => Output!IsFramePipe
<1>1. Output!Init => Output!Ring!Pipe!Init
  BY DEF Output!Init, Output!Ring!Init, Output!Ring!None, Output!Ring!Pipe!Init
<1>2. MCInit => Output!Init
  BY DEF MCInit
<1>3. [Output!Next]_Output!vars => [Output!Next]_outputVars
  BY DEF Output!vars, outputVars, Output!ringVars, Output!encoderVars
<1>4. [MCNext]_mcVars => [Output!Next]_outputVars
  BY DEF MCNext, mcVars
<1>5. OutputInv /\ [Output!Next]_outputVars => [Output!Ring!Pipe!Next]_Output!Ring!Pipe!vars
  BY OutputRefines
<1> QED
  BY <1>1, <1>2, <1>3, <1>4, <1>5, OutputAlways, PTL
  DEF MCSpec, Output!Spec, Output!IsFramePipe, Output!Ring!IsFramePipe, Output!Ring!Pipe!Spec

\* Every output holds the first frames rendered, none skipped and with timestamps one
\* apart, and no output is more than one frame behind one before it, whichever encoder
\* dies when: for every number of outputs.
THEOREM OutputsAgreeAlways ==
  /\ Output!Spec => [](Output!OutputsAgree /\ Output!EvenPts)
  /\ MCSpec => []OutputsAgree
<1>1. OutputInv => OutputsAgree
  BY OutputKeeps DEF OutputsAgree
<1> QED
  BY <1>1, OutputKeeps, OutputAlways, PTL

\* finish returning Ok means that every frame rendered is in every output.
THEOREM OkMeansEveryFrame ==
  /\ Output!Spec => []Output!OkMeansWhole
  /\ MCSpec => []OkMeansWhole
<1>1. OutputInv => OkMeansWhole
  BY OutputKeeps DEF OkMeansWhole
<1> QED
  BY <1>1, OutputKeeps, OutputAlways, PTL

\* No encoder is handed pixels that the GPU has not finished, in the run or in finish.
THEOREM OutputFramesFinished ==
  /\ Output!Spec => []Output!ReturnsFinishedFrames
  /\ MCSpec => []ReturnsFinishedFrames
<1>1. OutputInv => ReturnsFinishedFrames
  BY OutputKeeps DEF ReturnsFinishedFrames
<1> QED
  BY <1>1, OutputKeeps, OutputAlways, PTL

------------------------------------------------------------------------------
(***************************************************************************)
(* GpuReplay: the stacked replay's ring of three atlases.                  *)
(***************************************************************************)

\* The slot that was filled last, and the one Pack reads once it has advanced.
LastPackedSlot == (atlasSlot + 2) % 3

\* The inductive invariant: the slot before current_slot holds the atlas packed
\* last; the file is ordered and behind what is packed; and a recorder that
\* has not missed one has the atlas before that at its end.
ReplayInv ==
    /\ Replay!TypeOK
    /\ atlasPending > 0 => packed >= 1 /\ atlases[LastPackedSlot] = packed - 1
    /\ \A i \in 1 .. Len(file) : file[i] <= packed - 2
    /\ \A i, j \in 1 .. Len(file) : i < j => file[i] < file[j]
    /\ ~broken /\ file # <<>> =>
           /\ file[Len(file)] - file[1] = Len(file) - 1
           /\ recorder = "recording" => atlasPending = 3 /\ file[Len(file)] = packed - 2

\* The replay recorder starts in a state of the invariant.
LEMMA ReplayStarts == Replay!Init => ReplayInv
<1> SUFFICES ASSUME Replay!Init PROVE ReplayInv
  OBVIOUS
<1>1. file = <<>> /\ Len(file) = 0
  BY DEF Replay!Init
<1>2. Replay!TypeOK
  BY <1>1 DEF Replay!Init, Replay!TypeOK, Replay!Slots, Replay!STAGING_SLOTS, Replay!None
<1> QED
  BY <1>1, <1>2 DEF ReplayInv, Replay!Init

\* What a Pack does to the ring: the atlas it reads is the one packed before.
LEMMA PackReadsPrevious ==
  ASSUME ReplayInv, Replay!Pack
  PROVE  /\ packed \in Nat /\ packed' = packed + 1 /\ packer' = packer
         /\ atlases' \in [Replay!Slots -> Nat \cup {Replay!None}]
         /\ atlasSlot' \in Replay!Slots /\ atlasPending' \in 1 .. 3
         /\ atlases'[LastPackedSlot'] = packed
         /\ atlasPending = 3 => atlasPending' = 3
         /\ \/ atlasPending' < 3 /\ UNCHANGED <<recorder, file, broken>>
            \/ /\ atlasPending' = 3 /\ packed >= 1 /\ UNCHANGED broken
               /\ Replay!Record(packed - 1)
            \/ broken' = TRUE /\ recorder' = recorder /\ file' = file
<1> USE DEF ReplayInv, Replay!TypeOK, Replay!Slots, Replay!STAGING_SLOTS, Replay!None, LastPackedSlot
<1>1. /\ atlasSlot \in 0 .. 2 /\ atlasPending \in 0 .. 3 /\ packed \in Nat
      /\ atlasSlot' = (atlasSlot + 1) % 3 /\ packed' = packed + 1 /\ packer' = packer
      /\ atlasPending' = IF atlasPending + 1 < 3 THEN atlasPending + 1 ELSE 3
      /\ atlases' = [atlases EXCEPT ![atlasSlot] = packed]
  BY DEF Replay!Pack
<1>2. atlases' \in [0 .. 2 -> Nat \cup {-1}] /\ atlasSlot' \in 0 .. 2
  BY <1>1
<1>3. (atlasSlot' + 2) % 3 = atlasSlot /\ atlases'[atlasSlot] = packed
  <2>1. (((atlasSlot + 1) % 3) + 2) % 3 = atlasSlot
    BY <1>1
  <2>2. atlases'[atlasSlot] = packed
    BY <1>1
  <2> QED
    BY <1>1, <2>1, <2>2
<1>4. CASE atlasPending' < 3
  <2>1. UNCHANGED <<recorder, file, broken>>
    BY <1>1, <1>4 DEF Replay!Pack, Replay!recorderVars
  <2> QED
    BY <1>1, <1>2, <1>3, <1>4, <2>1
<1>5. CASE ~(atlasPending' < 3)
  <2>1. \/ Replay!Record(atlases'[Replay!ReadSlot(atlasSlot')]) /\ UNCHANGED broken
        \/ broken' = TRUE /\ UNCHANGED <<recorder, file>>
    BY <1>1, <1>5 DEF Replay!Pack
  <2>2. Replay!ReadSlot(atlasSlot') = (atlasSlot + 2) % 3 /\ (atlasSlot + 2) % 3 # atlasSlot
        /\ (atlasSlot + 2) % 3 \in 0 .. 2
    BY <1>1 DEF Replay!ReadSlot
  <2>3. atlasPending > 0
    BY <1>1, <1>5
  <2>4. atlases'[Replay!ReadSlot(atlasSlot')] = packed - 1 /\ packed >= 1
    BY <1>1, <2>2, <2>3
  <2>5. CASE Replay!Record(atlases'[Replay!ReadSlot(atlasSlot')]) /\ UNCHANGED broken
    <3>1. Replay!Record(packed - 1) /\ packed >= 1
      BY <2>4, <2>5
    <3>2. atlasPending' = 3
      BY <1>1, <1>5
    <3> QED
      BY <1>1, <1>2, <1>3, <2>5, <3>1, <3>2
  <2>6. CASE broken' = TRUE /\ UNCHANGED <<recorder, file>>
    BY <1>1, <1>2, <1>3, <1>5, <2>6
  <2> QED
    BY <2>1, <2>5, <2>6
<1> QED
  BY <1>4, <1>5

\* Packing reads the slot of the frame before the one just drawn.
LEMMA PackKeeps == ASSUME ReplayInv, Replay!Pack PROVE ReplayInv'
<1>1. /\ packed \in Nat /\ packed' = packed + 1 /\ packer' = packer
      /\ atlases' \in [Replay!Slots -> Nat \cup {Replay!None}]
      /\ atlasSlot' \in Replay!Slots /\ atlasPending' \in 1 .. 3
      /\ atlases'[LastPackedSlot'] = packed
      /\ atlasPending = 3 => atlasPending' = 3
      /\ \/ atlasPending' < 3 /\ UNCHANGED <<recorder, file, broken>>
         \/ /\ atlasPending' = 3 /\ packed >= 1 /\ UNCHANGED broken
            /\ Replay!Record(packed - 1)
         \/ broken' = TRUE /\ recorder' = recorder /\ file' = file
  BY PackReadsPrevious
<1>2. /\ file \in Seq(Nat) /\ packer \in BOOLEAN /\ broken \in BOOLEAN
      /\ recorder \in {"none", "recording", "disabled"} /\ Len(file) \in Nat
      /\ \A i \in 1 .. Len(file) : file[i] \in Nat
      /\ file # <<>> => Len(file) # 0
      /\ atlasPending \in 0 .. 3
  BY EmptySeq DEF ReplayInv, Replay!TypeOK, Replay!STAGING_SLOTS
<1>3. /\ atlasPending' > 0 => packed' >= 1 /\ atlases'[LastPackedSlot'] = packed' - 1
      /\ atlasPending' \in 0 .. Replay!STAGING_SLOTS
  BY <1>1 DEF Replay!STAGING_SLOTS
<1>4. CASE file' = file /\ broken' \in BOOLEAN
           /\ recorder' \in {"none", "recording", "disabled"}
           /\ (~broken' /\ recorder' = "recording" /\ file # <<>> =>
                   ~broken /\ recorder = "recording" /\ atlasPending' < 3)
           /\ (~broken' => ~broken)
  <2>1. Replay!TypeOK'
    BY <1>1, <1>2, <1>3, <1>4 DEF Replay!TypeOK
  <2>2. \A i \in 1 .. Len(file') : file'[i] <= packed' - 2
    <3>1. \A i \in 1 .. Len(file) : file[i] <= packed - 2
      BY DEF ReplayInv
    <3>2. packed \in Nat /\ packed' = packed + 1 /\ file' = file
      BY <1>1, <1>4
    <3> SUFFICES ASSUME NEW i \in 1 .. Len(file') PROVE file'[i] <= packed' - 2
      OBVIOUS
    <3>3. file'[i] = file[i] /\ i \in 1 .. Len(file)
      BY <3>2
    <3>4. file[i] \in Nat /\ file[i] <= packed - 2
      BY <1>2, <3>1, <3>3
    <3> QED
      BY <3>2, <3>3, <3>4
  <2>3. ~(~broken' /\ recorder' = "recording" /\ file # <<>>)
    BY <1>1, <1>4 DEF ReplayInv
  <2> QED
    BY <1>2, <1>3, <1>4, <2>1, <2>2, <2>3 DEF ReplayInv
<1>5. CASE file' = Append(file, packed - 1) /\ recorder = "recording" /\ recorder' = recorder
           /\ broken' = broken /\ packed >= 1 /\ atlasPending' = 3
  <2>1. packed - 1 \in Nat
    BY <1>1, <1>5
  <2>2. /\ file' \in Seq(Nat) /\ Len(file') = Len(file) + 1
        /\ \A i \in 1 .. Len(file) : file'[i] = file[i]
        /\ file'[Len(file) + 1] = packed - 1
    BY <1>2, <1>5, <2>1, AppendProperties
  <2>3. Replay!TypeOK'
    BY <1>1, <1>2, <1>3, <1>5, <2>2 DEF Replay!TypeOK
  <2>4. \A i \in 1 .. Len(file) : file[i] <= packed - 2
    BY DEF ReplayInv
  <2>5. \A i \in 1 .. Len(file') : file'[i] <= packed' - 2
    <3> SUFFICES ASSUME NEW i \in 1 .. Len(file') PROVE file'[i] <= packed' - 2
      OBVIOUS
    <3>1. CASE i \in 1 .. Len(file)
      <4>1. file'[i] = file[i] /\ file[i] \in Nat /\ file[i] <= packed - 2
        BY <1>2, <2>2, <2>4, <3>1
      <4> QED
        BY <1>1, <4>1
    <3>2. CASE i = Len(file) + 1
      BY <1>1, <2>2, <3>2
    <3> QED
      BY <1>2, <2>2, <3>1, <3>2
  <2>6. \A i, j \in 1 .. Len(file') : i < j => file'[i] < file'[j]
    <3> SUFFICES ASSUME NEW i \in 1 .. Len(file'), NEW j \in 1 .. Len(file'), i < j
                 PROVE  file'[i] < file'[j]
      OBVIOUS
    <3>1. i \in 1 .. Len(file) /\ file'[i] = file[i]
      BY <1>2, <2>2
    <3>2. CASE j = Len(file) + 1
      BY <1>1, <1>2, <2>2, <2>4, <3>1, <3>2
    <3>3. CASE j # Len(file) + 1
      <4>1. j \in 1 .. Len(file)
        <5>1. Len(file) \in Nat /\ Len(file') = Len(file) + 1 /\ j \in 1 .. Len(file')
          BY <1>2, <2>2
        <5> QED
          BY <3>3, <5>1
      <4>2. file'[j] = file[j]
        BY <2>2, <4>1
      <4> QED
        BY <3>1, <4>1, <4>2 DEF ReplayInv
    <3> QED
      BY <3>2, <3>3
  <2>7. ~broken => file'[Len(file')] - file'[1] = Len(file') - 1
    <3>1. CASE file = <<>>
      BY <1>1, <1>2, <2>2, <3>1
    <3>2. CASE file # <<>>
      <4>1. ~broken => file[Len(file)] - file[1] = Len(file) - 1 /\ file[Len(file)] = packed - 2
        BY <1>5, <3>2 DEF ReplayInv
      <4>2. file'[1] = file[1] /\ file[1] \in Nat
        BY <1>2, <2>2, <3>2
      <4> QED
        BY <1>1, <1>2, <2>2, <4>1, <4>2
    <3> QED
      BY <3>1, <3>2
  <2>8. file'[Len(file')] = packed' - 2
    BY <1>1, <1>2, <2>2
  <2> QED
    BY <1>3, <1>5, <2>3, <2>5, <2>6, <2>7, <2>8 DEF ReplayInv
<1>6. CASE atlasPending' < 3 /\ UNCHANGED <<recorder, file, broken>>
  BY <1>2, <1>4, <1>6
<1>7. CASE broken' = TRUE /\ recorder' = recorder /\ file' = file
  BY <1>2, <1>4, <1>7
<1>8. CASE atlasPending' = 3 /\ packed >= 1 /\ broken' = broken /\ Replay!Record(packed - 1)
  <2>1. \/ recorder = "recording" /\ file' = Append(file, packed - 1) /\ recorder' = recorder
        \/ file' = file /\ recorder' # "recording"
           /\ recorder' \in {"none", "recording", "disabled"}
    BY <1>2, <1>8 DEF Replay!Record
  <2> QED
    BY <1>2, <1>4, <1>5, <1>8, <2>1
<1> QED
  BY <1>1, <1>6, <1>7, <1>8

\* Every step of the recorder keeps the invariant.
LEMMA ReplayStep == ASSUME ReplayInv, [Replay!Next]_replayVars PROVE ReplayInv'
<1>1. CASE Replay!Enable
  BY <1>1 DEF Replay!Enable, ReplayInv, Replay!TypeOK, Replay!Slots, Replay!STAGING_SLOTS,
     Replay!None
<1>2. CASE Replay!SetRecorder
  <2>1. /\ file' = <<>> /\ recorder' = "recording" /\ broken' = FALSE
        /\ UNCHANGED <<packer, packed, atlases, atlasSlot, atlasPending>>
    BY <1>2 DEF Replay!SetRecorder, Replay!ringVars
  <2>2. Len(file') = 0 /\ file' \in Seq(Nat)
    BY <2>1
  <2>3. Replay!TypeOK'
    BY <2>1, <2>2 DEF ReplayInv, Replay!TypeOK, Replay!Slots, Replay!STAGING_SLOTS
  <2> QED
    BY <2>1, <2>2, <2>3 DEF ReplayInv, LastPackedSlot
<1>3. CASE Replay!ClearRecorder
  BY <1>3 DEF Replay!ClearRecorder, Replay!ringVars, ReplayInv, Replay!TypeOK, Replay!Slots,
     Replay!STAGING_SLOTS, LastPackedSlot
<1>4. CASE Replay!Disable
  BY <1>4 DEF Replay!Disable, Replay!ringVars, ReplayInv, Replay!TypeOK, Replay!Slots,
     Replay!STAGING_SLOTS, LastPackedSlot
<1>5. CASE UNCHANGED replayVars
  BY <1>5 DEF replayVars, ReplayInv, Replay!TypeOK, Replay!Slots, Replay!STAGING_SLOTS,
     LastPackedSlot
<1> QED
  BY <1>1, <1>2, <1>3, <1>4, <1>5, PackKeeps DEF Replay!Next

\* The invariant gives the properties the run checks.
LEMMA ReplayKeeps ==
  ReplayInv => Replay!TypeOK /\ Replay!FileInOrder /\ Replay!FileContiguous
<1> SUFFICES ASSUME ReplayInv
             PROVE  Replay!TypeOK /\ Replay!FileInOrder /\ Replay!FileContiguous
  OBVIOUS
<1>1. file \in Seq(Nat) /\ Len(file) \in Nat
  BY DEF ReplayInv, Replay!TypeOK
<1>2. Replay!FileInOrder
  <2> SUFFICES ASSUME NEW i \in 1 .. Len(file) - 1 PROVE file[i] < file[i + 1]
    BY DEF Replay!FileInOrder
  <2>1. i \in 1 .. Len(file) /\ i + 1 \in 1 .. Len(file) /\ i < i + 1
    BY <1>1
  <2> QED
    BY <2>1 DEF ReplayInv
<1>3. Replay!FileContiguous
  BY <1>1 DEF ReplayInv, Replay!FileContiguous, Replay!Last
<1> QED
  BY <1>2, <1>3 DEF ReplayInv

\* The packer's invariant holds in every state: the slot written last holds the atlas packed
\* last, and what was recorded is two atlases or more behind it.
THEOREM ReplayAlways ==
  /\ Replay!Spec => []ReplayInv
  /\ MCSpec => []ReplayInv
<1>1. ReplayInv /\ [Replay!Next]_Replay!vars => ReplayInv'
  BY ReplayStep DEF Replay!vars, replayVars, Replay!ringVars, Replay!recorderVars
<1>2. ReplayInv /\ [MCNext]_mcVars => ReplayInv'
  BY ReplayStep DEF MCNext, mcVars
<1>3. MCInit => ReplayInv
  BY ReplayStarts DEF MCInit
<1> QED
  BY <1>1, <1>2, <1>3, ReplayStarts, PTL DEF MCSpec, Replay!Spec

\* The file of a GPU replay holds the atlases in the order they were packed, none twice
\* and none left out, until a poll fails or the packer is built again: for any number of
\* attachments, detachments and disables.
THEOREM ReplayFileIsWhole ==
  /\ Replay!Spec => [](Replay!FileInOrder /\ Replay!FileContiguous)
  /\ MCSpec => []FileContiguous
<1>1. ReplayInv => FileContiguous
  BY ReplayKeeps DEF FileContiguous
<1> QED
  BY <1>1, ReplayKeeps, ReplayAlways, PTL

------------------------------------------------------------------------------
(***************************************************************************)
(* StitchCore: the core's readback and its replay buffer.                  *)
(***************************************************************************)

\* The entries of the replay buffer.
Entries == [frame : Nat, at : Nat, pose : Nat]

\* The types of the core's state.
CoreTyped ==
    /\ Core!TypeOK
    /\ replay \in Seq(Entries) /\ pushed \in Seq(Entries)

\* The pending frames: the one submitted last, and the one before it.
Newer == coreStaging[(coreSlot + 2) % 3]

\* The pending frame before it.
Older == coreStaging[(coreSlot + 1) % 3]

\* Frame b comes next after frame a, but for frames whose submit failed.
NextAfter(a, b) == a < b /\ (a + 1) .. (b - 1) \subseteq failed

\* The frame returned last, those pending and the next submit follow one
\* another.
CoreRing ==
    /\ corePending = 0 => NextAfter(coreReturned, coreSubmitted)
    /\ corePending = 1 => NextAfter(coreReturned, Newer) /\ NextAfter(Newer, coreSubmitted)
    /\ corePending = 2 => /\ NextAfter(coreReturned, Older) /\ NextAfter(Older, Newer)
                          /\ NextAfter(Newer, coreSubmitted)

\* What was pushed is in order, was returned, and is not from the future.
PushedInOrder ==
    /\ maxDuration = -1 => pushed = <<>>
    /\ \A k \in 1 .. Len(pushed) :
           pushed[k].frame <= coreReturned /\ pushed[k].at <= now
    /\ \A j, k \in 1 .. Len(pushed) :
           j < k => pushed[j].frame < pushed[k].frame /\ pushed[j].at <= pushed[k].at

\* Entries that were evicted.
Gone == Len(pushed) - Len(replay)

\* The buffer is what is left of it, from the first one within the window on.
BufferIsWindow ==
    /\ Gone >= 0
    /\ \A k \in 1 .. Len(replay) : replay[k] = pushed[Gone + k]
    /\ \A k \in 1 .. Len(pushed) :
           k > Gone <=> pushed[k].at + maxDuration >= pushed[Len(pushed)].at

\* The inductive invariant: the ring in order and the buffer a window.
CoreInv == CoreTyped /\ CoreRing /\ PushedInOrder /\ BufferIsWindow

\* Min of a non-empty set of numbers is the least of them.
LEMMA LeastExists ==
  ASSUME NEW I \in SUBSET Nat, I # {}
  PROVE  Core!Min(I) \in I /\ \A k \in I : Core!Min(I) <= k
<1> DEFINE Less == OpToRel(<, Nat)
<1>1. \E x \in I : \A y \in I : ~ (<<y, x>> \in Less)
  <2>1. IsWellFoundedOn(Less, Nat)
    BY NatLessThanWellFounded
  <2> HIDE DEF Less
  <2> QED
    BY <2>1, WFMin
<1>2. ASSUME NEW x \in I, NEW y \in I, y < x PROVE <<y, x>> \in Less
  <2>1. x \in Nat /\ y \in Nat
    OBVIOUS
  <2>2. Less = {ss \in Nat \X Nat : ss[1] < ss[2]}
    BY DEF OpToRel
  <2> HIDE DEF Less
  <2>3. <<y, x>> \in Nat \X Nat
    BY <2>1
  <2>4. <<y, x>>[1] < <<y, x>>[2]
    BY <1>2
  <2> QED
    BY <2>2, <2>3, <2>4
<1> HIDE DEF Less
<1>3. PICK x \in I : \A y \in I : ~ (<<y, x>> \in Less)
  BY <1>1
<1>4. \A y \in I : x <= y
  <2> SUFFICES ASSUME NEW y \in I PROVE x <= y
    OBVIOUS
  <2>1. ~(y < x)
    BY <1>2, <1>3
  <2>2. x \in Nat /\ y \in Nat
    OBVIOUS
  <2> QED
    BY <2>1, <2>2
<1> QED
  BY <1>4 DEF Core!Min

\* Evict keeps the entries from the first one within the window on.
LEMMA EvictKeepsWindow ==
  ASSUME NEW entries \in Seq(Entries), Len(entries) # 0, maxDuration \in Nat,
         \A i, j \in 1 .. Len(entries) : i < j => entries[i].at <= entries[j].at
  PROVE  \E m \in 1 .. Len(entries) :
             /\ Core!Evict(entries) = SubSeq(entries, m, Len(entries))
             /\ \A i \in 1 .. Len(entries) :
                    i >= m <=> entries[i].at + maxDuration >= entries[Len(entries)].at
<1> DEFINE last == entries[Len(entries)]
           inside == {i \in 1 .. Len(entries) : Core!Within(entries[i], last)}
           m == Core!Min(inside)
<1>1. Len(entries) \in Nat /\ Len(entries) \in 1 .. Len(entries)
  OBVIOUS
<1>2. \A i \in 1 .. Len(entries) : entries[i] \in Entries /\ entries[i].at \in Nat
  <2>1. \A i \in 1 .. Len(entries) : entries[i] \in Entries
    OBVIOUS
  <2> QED
    BY <2>1 DEF Entries
<1>3. \A i \in 1 .. Len(entries) : i \in inside <=> entries[i].at + maxDuration >= last.at
  BY <1>1, <1>2 DEF Core!Within
<1>4. Len(entries) \in inside
  BY <1>1, <1>2, <1>3
<1>5. m \in inside /\ \A k \in inside : m <= k
  <2>1. inside \in SUBSET Nat /\ inside # {}
    BY <1>1, <1>4
  <2> HIDE DEF inside
  <2> QED
    BY <2>1, LeastExists
<1>6. Core!Evict(entries) = SubSeq(entries, m, Len(entries))
  <2>1. Core!Last(entries) = last
    BY DEF Core!Last
  <2>2. Core!SelectInSeq(entries, LAMBDA e : Core!Within(e, Core!Last(entries))) = m
    BY <1>4, <2>1 DEF Core!SelectInSeq
  <2> QED
    BY <2>2 DEF Core!Evict
<1> HIDE DEF m
<1>7. ASSUME NEW i \in 1 .. Len(entries)
      PROVE  i >= m <=> entries[i].at + maxDuration >= last.at
  <2>1. m \in 1 .. Len(entries) /\ entries[m].at + maxDuration >= last.at
    BY <1>3, <1>5
  <2>2. CASE i >= m
    <3> DEFINE t == entries[i].at
               u == entries[m].at
               v == last.at
    <3>1. t >= u
      <4>1. CASE i = m
        BY <1>2, <4>1
      <4>2. CASE i # m
        <5>1. m < i
          BY <1>1, <2>1, <2>2, <4>2
        <5> QED
          BY <2>1, <5>1
      <4> QED
        BY <4>1, <4>2
    <3>2. t \in Nat /\ u \in Nat /\ v \in Nat /\ maxDuration \in Nat /\ u + maxDuration >= v
      BY <1>1, <1>2, <2>1
    <3>3. t + maxDuration >= v
      <4> HIDE DEF t, u, v
      <4> QED
        BY <3>1, <3>2
    <3> QED
      BY <2>2, <3>3
  <2>3. CASE i < m
    <3>1. i \notin inside
      <4>1. i \in Nat /\ m \in Nat
        BY <1>1, <2>1
      <4> HIDE DEF inside
      <4> QED
        BY <1>5, <2>3, <4>1
    <3> HIDE DEF inside
    <3>2. ~(entries[i].at + maxDuration >= last.at)
      BY <1>3, <3>1
    <3> QED
      BY <1>1, <2>1, <2>3, <3>2
  <2> QED
    BY <2>1, <2>2, <2>3
<1> QED
  BY <1>5, <1>6, <1>7

\* The core's counters and slots are numbers.
LEMMA CoreNumbers ==
  ASSUME CoreTyped
  PROVE  /\ coreSubmitted \in Nat /\ now \in Nat /\ coreSlot \in 0 .. 2
         /\ corePending \in 0 .. 2 /\ coreReturned \in Int /\ coreReturned >= -1
         /\ coreStaging \in [0 .. 2 -> Nat \cup {-1}]
         /\ maxDuration \in Nat \cup {-1} /\ Len(replay) \in Nat /\ Len(pushed) \in Nat
         /\ MaxFrames \in Nat /\ MaxTime \in Nat /\ Durations \subseteq Nat
         /\ (coreSlot + 1) % 3 \in 0 .. 2 /\ (coreSlot + 2) % 3 \in 0 .. 2
         /\ (coreSlot + 1) % 3 # coreSlot /\ (coreSlot + 2) % 3 # coreSlot
         /\ (((coreSlot + 1) % 3) + 1) % 3 = (coreSlot + 2) % 3
         /\ (((coreSlot + 1) % 3) + 2) % 3 = coreSlot
         /\ \A k \in 1 .. Len(pushed) :
                pushed[k].frame \in Nat /\ pushed[k].at \in Nat /\ pushed[k].pose \in Nat
<1>1. \A k \in 1 .. Len(pushed) : pushed[k] \in Entries
  BY DEF CoreTyped
<1>2. \A k \in 1 .. Len(pushed) :
          pushed[k].frame \in Nat /\ pushed[k].at \in Nat /\ pushed[k].pose \in Nat
  BY <1>1 DEF Entries
<1>3. Len(replay) \in Nat /\ Len(pushed) \in Nat
  BY DEF CoreTyped
<1>4. MaxFrames \in Nat /\ MaxTime \in Nat /\ Durations \subseteq Nat
  BY CoreAssumption DEF Core!StitchCoreAssumption
<1>5. /\ coreSubmitted \in Nat /\ now \in Nat /\ coreSlot \in 0 .. 2
      /\ corePending \in 0 .. 2 /\ coreReturned \in Int /\ coreReturned >= -1
      /\ coreStaging \in [0 .. 2 -> Nat \cup {-1}]
      /\ maxDuration \in Nat \cup {-1}
  BY <1>4 DEF CoreTyped, Core!TypeOK, Core!Slots, Core!None
<1>6. /\ (coreSlot + 1) % 3 \in 0 .. 2 /\ (coreSlot + 2) % 3 \in 0 .. 2
      /\ (coreSlot + 1) % 3 # coreSlot /\ (coreSlot + 2) % 3 # coreSlot
      /\ (((coreSlot + 1) % 3) + 1) % 3 = (coreSlot + 2) % 3
      /\ (((coreSlot + 1) % 3) + 2) % 3 = coreSlot
  <2>1. coreSlot = 0 \/ coreSlot = 1 \/ coreSlot = 2
    BY <1>5
  <2> QED
    BY <2>1
<1> QED
  BY <1>2, <1>3, <1>4, <1>5, <1>6

\* The core starts in a state of the invariant.
LEMMA CoreStarts == Core!Init => CoreInv
<1> SUFFICES ASSUME Core!Init PROVE CoreInv
  OBVIOUS
<1>1. /\ replay = <<>> /\ pushed = <<>> /\ Len(replay) = 0 /\ Len(pushed) = 0
      /\ replay \in Seq(Entries) /\ pushed \in Seq(Entries)
  BY DEF Core!Init
<1>2. CoreTyped
  BY <1>1, CoreAssumption DEF Core!Init, CoreTyped, Core!TypeOK, Core!Slots, Core!None,
     Core!StitchCoreAssumption
<1>3. CoreRing
  BY DEF Core!Init, CoreRing, NextAfter, Core!None
<1> QED
  BY <1>1, <1>2, <1>3 DEF CoreInv, PushedInOrder, BufferIsWindow, Gone

\* Nothing is pushed, while frames come back and time passes.
LEMMA BufferStays ==
  ASSUME CoreInv, coreReturned' \in Int, now' \in Nat,
         coreReturned' >= coreReturned, now' >= now,
         maxDuration' = maxDuration /\ replay' = replay /\ pushed' = pushed
  PROVE  PushedInOrder' /\ BufferIsWindow'
<1>1. CoreTyped /\ PushedInOrder /\ BufferIsWindow
  BY DEF CoreInv
<1>2. ASSUME NEW k \in 1 .. Len(pushed)
      PROVE  pushed[k].frame <= coreReturned' /\ pushed[k].at <= now'
  <2>1. /\ pushed[k].frame \in Nat /\ pushed[k].at \in Nat
        /\ coreReturned \in Int /\ now \in Nat
    BY <1>1, CoreNumbers
  <2>2. pushed[k].frame <= coreReturned /\ pushed[k].at <= now
    BY <1>1 DEF PushedInOrder
  <2> QED
    BY <2>1, <2>2
<1> QED
  BY <1>1, <1>2 DEF PushedInOrder, BufferIsWindow, Gone

\* An emptied replay buffer is a window of an empty history.
LEMMA BufferEmpties ==
  ASSUME replay' = <<>>, pushed' = <<>>
  PROVE  /\ replay' \in Seq(Entries) /\ pushed' \in Seq(Entries)
         /\ PushedInOrder' /\ BufferIsWindow'
<1>1. Len(replay') = 0 /\ Len(pushed') = 0
  OBVIOUS
<1> QED
  BY <1>1 DEF PushedInOrder, BufferIsWindow, Gone

\* A frame is pushed that comes after all before it.
LEMMA PushKeeps ==
  ASSUME CoreInv, NEW f \in Nat, Core!Push(f), f > coreReturned, coreSubmitted >= f + 2,
         coreReturned' = f, now' = now
  PROVE  /\ replay' \in Seq(Entries) /\ pushed' \in Seq(Entries)
         /\ maxDuration' = maxDuration
         /\ PushedInOrder' /\ BufferIsWindow'
<1>0. CoreTyped /\ PushedInOrder /\ BufferIsWindow
  BY DEF CoreInv
<1>1. CASE maxDuration = -1
  <2>1. maxDuration' = maxDuration /\ replay' = replay /\ pushed' = pushed
    BY <1>1 DEF Core!Push, Core!None, Core!replayVars
  <2> QED
    BY <1>0, <2>1, CoreNumbers, BufferStays DEF CoreTyped
<1>2. CASE maxDuration # -1
  <2> DEFINE entry == [frame |-> f, at |-> now, pose |-> coreSubmitted]
             entries == Append(replay, entry)
  <2>1. /\ replay' = Core!Evict(entries) /\ pushed' = Append(pushed, entry)
        /\ maxDuration' = maxDuration /\ maxDuration \in Nat
    BY <1>0, <1>2, CoreNumbers DEF Core!Push, Core!None
  <2>2. entry \in Entries /\ entry.frame = f /\ entry.at = now /\ entry.pose = coreSubmitted
    BY <1>0, CoreNumbers DEF Entries
  <2> HIDE DEF entry
  <2>3. /\ entries \in Seq(Entries) /\ Len(entries) = Len(replay) + 1
        /\ \A i \in 1 .. Len(replay) : entries[i] = replay[i]
        /\ entries[Len(replay) + 1] = entry
    BY <1>0, <2>2, AppendProperties DEF CoreTyped
  <2>4. /\ pushed' \in Seq(Entries) /\ Len(pushed') = Len(pushed) + 1
        /\ \A i \in 1 .. Len(pushed) : pushed'[i] = pushed[i]
        /\ pushed'[Len(pushed) + 1] = entry
    BY <1>0, <2>1, <2>2, AppendProperties DEF CoreTyped
  <2> HIDE DEF entries
  <2>5. /\ Len(replay) \in Nat /\ Len(pushed) \in Nat /\ Gone \in Nat
        /\ Gone + Len(replay) = Len(pushed)
    BY <1>0, CoreNumbers DEF BufferIsWindow, Gone
  <2>6. \A i \in 1 .. Len(entries) : entries[i] = pushed'[Gone + i] /\ Gone + i \in 1 .. Len(pushed')
    <3> SUFFICES ASSUME NEW i \in 1 .. Len(entries)
                 PROVE  entries[i] = pushed'[Gone + i] /\ Gone + i \in 1 .. Len(pushed')
      OBVIOUS
    <3>1. CASE i = Len(replay) + 1
      BY <2>3, <2>4, <2>5, <3>1
    <3>2. CASE i # Len(replay) + 1
      <4>1. i \in 1 .. Len(replay) /\ Gone + i \in 1 .. Len(pushed)
        BY <2>3, <2>5, <3>2
      <4>2. replay[i] = pushed[Gone + i]
        BY <1>0, <4>1 DEF BufferIsWindow
      <4> QED
        BY <2>3, <2>4, <2>5, <4>1, <4>2
    <3> QED
      BY <3>1, <3>2
  <2>7. \A k \in 1 .. Len(pushed) :
            /\ pushed[k].frame < f /\ pushed[k].at <= now
            /\ pushed[k].frame \in Nat /\ pushed[k].at \in Nat
    <3> SUFFICES ASSUME NEW k \in 1 .. Len(pushed)
                 PROVE  /\ pushed[k].frame < f /\ pushed[k].at <= now
                        /\ pushed[k].frame \in Nat /\ pushed[k].at \in Nat
      OBVIOUS
    <3>1. pushed[k].frame \in Nat /\ pushed[k].at \in Nat /\ coreReturned \in Int
      BY <1>0, CoreNumbers
    <3>2. pushed[k].frame <= coreReturned /\ pushed[k].at <= now
      BY <1>0 DEF PushedInOrder
    <3> QED
      BY <3>1, <3>2
  <2>8. ASSUME NEW k \in 1 .. Len(pushed')
        PROVE  k = Len(pushed) + 1 \/ k \in 1 .. Len(pushed)
    BY <2>4, <2>5
  <2>9. \A j, k \in 1 .. Len(pushed') :
            j < k => pushed'[j].frame < pushed'[k].frame /\ pushed'[j].at <= pushed'[k].at
    <3> SUFFICES ASSUME NEW j \in 1 .. Len(pushed'), NEW k \in 1 .. Len(pushed'), j < k
                 PROVE  pushed'[j].frame < pushed'[k].frame /\ pushed'[j].at <= pushed'[k].at
      OBVIOUS
    <3>1. j \in 1 .. Len(pushed) /\ pushed'[j] = pushed[j]
      BY <2>4, <2>5
    <3>2. CASE k = Len(pushed) + 1
      BY <2>2, <2>4, <2>7, <3>1, <3>2
    <3>3. CASE k \in 1 .. Len(pushed)
      BY <1>0, <2>4, <3>1, <3>3 DEF PushedInOrder
    <3> QED
      BY <2>8, <3>2, <3>3
  <2>10. PushedInOrder'
    <3>1. ASSUME NEW k \in 1 .. Len(pushed')
          PROVE  pushed'[k].frame <= f /\ pushed'[k].at <= now
      <4>1. CASE k = Len(pushed) + 1
        <5>1. pushed'[k] = entry
          BY <2>4, <4>1
        <5>2. pushed'[k].frame = f /\ pushed'[k].at = now /\ now \in Nat
          BY <1>0, <2>2, <5>1, CoreNumbers
        <5> QED
          BY <5>2
      <4>2. CASE k \in 1 .. Len(pushed)
        BY <1>0, <2>4, <2>7, <4>2 DEF PushedInOrder
      <4> QED
        BY <2>8, <4>1, <4>2
    <3>2. maxDuration' # -1
      BY <2>1
    <3> QED
      BY <2>9, <3>1, <3>2 DEF PushedInOrder
  <2>11. \A i, j \in 1 .. Len(entries) : i < j => entries[i].at <= entries[j].at
    <3> SUFFICES ASSUME NEW i \in 1 .. Len(entries), NEW j \in 1 .. Len(entries), i < j
                 PROVE  entries[i].at <= entries[j].at
      OBVIOUS
    <3>1. Gone + i < Gone + j
      BY <2>5
    <3> QED
      BY <2>6, <2>9, <3>1
  <2>12. PICK m \in 1 .. Len(entries) :
             /\ replay' = SubSeq(entries, m, Len(entries))
             /\ \A i \in 1 .. Len(entries) :
                    i >= m <=> entries[i].at + maxDuration >= entries[Len(entries)].at
    <3>1. Len(entries) # 0
      BY <2>3, <2>5
    <3> QED
      BY <2>1, <2>3, <2>11, <3>1, EvictKeepsWindow
  <2>13. /\ replay' \in Seq(Entries) /\ Len(replay') = Len(entries) + 1 - m
         /\ \A i \in 1 .. Len(replay') : replay'[i] = entries[m + i - 1]
    <3>1. Len(entries) \in Nat /\ m \in 1 .. Len(entries) + 1 /\ Len(entries) \in m - 1 .. Len(entries)
      BY <2>3, <2>5
    <3>2. \A i \in m .. Len(entries) : entries[i] \in Entries
      BY <2>3
    <3> QED
      BY <2>3, <2>12, <3>1, <3>2, SubSeqProperties
  <2>14. Gone' = Gone + m - 1 /\ Gone' >= 0
    BY <2>3, <2>4, <2>5, <2>13 DEF Gone
  <2>15. \A k \in 1 .. Len(replay') : replay'[k] = pushed'[Gone' + k]
    <3> SUFFICES ASSUME NEW k \in 1 .. Len(replay') PROVE replay'[k] = pushed'[Gone' + k]
      OBVIOUS
    <3>1. m + k - 1 \in 1 .. Len(entries) /\ Gone' + k = Gone + (m + k - 1)
      BY <2>3, <2>5, <2>13, <2>14
    <3> QED
      BY <2>6, <2>13, <3>1
  <2>16. pushed'[Len(pushed')] = entry /\ entries[Len(entries)] = entry
    BY <2>3, <2>4
  <2>17. ASSUME NEW k \in 1 .. Len(pushed')
         PROVE  k > Gone' <=> pushed'[k].at + maxDuration >= pushed'[Len(pushed')].at
    <3>1. CASE k > Gone
      <4>1. PICK i \in 1 .. Len(entries) : k = Gone + i
        <5>1. k - Gone \in 1 .. Len(entries) /\ k = Gone + (k - Gone)
          BY <2>3, <2>4, <2>5, <3>1
        <5> QED
          BY <5>1
      <4>2. k > Gone' <=> i >= m
        BY <2>5, <2>14, <4>1
      <4> QED
        BY <2>6, <2>12, <2>16, <4>1, <4>2
    <3>2. CASE ~(k > Gone)
      <4>1. ~(k > Gone') /\ k \in 1 .. Len(pushed) /\ pushed'[k] = pushed[k]
        BY <2>4, <2>5, <2>14, <3>2
      <4>2. ~(pushed[k].at + maxDuration >= pushed[Len(pushed)].at)
        BY <1>0, <3>2, <4>1 DEF BufferIsWindow
      <4>3. Len(pushed) \in 1 .. Len(pushed) /\ pushed[Len(pushed)].at <= now
            /\ pushed[Len(pushed)].at \in Nat /\ pushed[k].at \in Nat
        BY <2>5, <2>7, <4>1
      <4>4. now \in Nat /\ maxDuration \in Nat /\ entry.at = now
        BY <1>0, <2>1, <2>2, CoreNumbers
      <4> DEFINE a == pushed[k].at
                 z == pushed[Len(pushed)].at
      <4>6. /\ a \in Nat /\ z \in Nat /\ now \in Nat /\ maxDuration \in Nat /\ z <= now
            /\ ~(a + maxDuration >= z)
        BY <4>2, <4>3, <4>4
      <4> HIDE DEF a, z
      <4>7. ~(a + maxDuration >= now)
        BY <4>6
      <4>5. ~(pushed[k].at + maxDuration >= now)
        BY <4>7 DEF a
      <4> QED
        BY <2>16, <4>1, <4>4, <4>5
    <3> QED
      BY <3>1, <3>2
  <2>18. BufferIsWindow'
    BY <2>1, <2>14, <2>15, <2>17 DEF BufferIsWindow
  <2> QED
    BY <2>1, <2>4, <2>10, <2>13, <2>18
<1> QED
  BY <1>1, <1>2

\* A frame that comes back comes back in order.
LEMMA FrameComesBack ==
  ASSUME CoreTyped, CoreRing,
         \/ Core!Submit
         \/ Core!Flush
  PROVE  /\ coreReturned' # coreReturned => NextAfter(coreReturned, coreReturned')
         /\ Core!Submit /\ corePending = 2 => coreReturned' = Older
         /\ Core!Flush => coreReturned' = IF corePending = 2 THEN Older ELSE Newer
         /\ Core!Submit /\ corePending < 2 => coreReturned' = coreReturned
<1>1. /\ coreSlot \in 0 .. 2 /\ corePending \in 0 .. 2 /\ coreReturned \in Int
  BY CoreNumbers
<1>2. CASE Core!Submit
  <2>1. corePending < 2 => coreReturned' = coreReturned
    BY <1>2 DEF Core!Submit
  <2>2. corePending = 2 => coreReturned' = Older
    BY <1>2 DEF Core!Submit, Core!ReadSlot, Older
  <2>3. ~Core!Flush \/ coreReturned' = IF corePending = 2 THEN Older ELSE Newer
    <3>1. CASE Core!Flush
      <4>1. coreCount' = coreCount /\ coreCount' = coreCount + 1 /\ coreSubmitted' = coreSubmitted
            /\ coreSubmitted' = coreSubmitted + 1
        BY <1>2, <3>1 DEF Core!Flush, Core!Submit, Core!SubmitCopy
      <4>2. coreSubmitted \in Nat
        BY CoreNumbers
      <4> QED
        BY <4>1, <4>2
    <3> QED
      BY <3>1
  <2> QED
    BY <1>1, <2>1, <2>2, <2>3 DEF CoreRing
<1>3. CASE Core!Flush
  <2>1. corePending \in {1, 2} /\ coreReturned' = coreStaging[Core!OldestSlot]
    BY <1>1, <1>3 DEF Core!Flush
  <2>2. CASE corePending = 1
    <3>1. (coreSlot + 3 - 1) % 3 = (coreSlot + 2) % 3
      BY <1>1
    <3>2. coreReturned' = Newer
      BY <2>1, <2>2, <3>1 DEF Core!OldestSlot, Newer
    <3>3. ~(Core!Submit /\ corePending < 2) \/ coreReturned' = coreReturned
      BY DEF Core!Submit
    <3> QED
      BY <2>2, <3>2, <3>3 DEF CoreRing
  <2>3. CASE corePending = 2
    <3>1. (coreSlot + 3 - 2) % 3 = (coreSlot + 1) % 3
      BY <1>1
    <3>2. coreReturned' = Older
      BY <2>1, <2>3, <3>1 DEF Core!OldestSlot, Older
    <3> QED
      BY <2>3, <3>2 DEF CoreRing
  <2> QED
    BY <2>1, <2>2, <2>3
<1> QED
  BY <1>2, <1>3

\* A submitted copy takes the next slot and counts it.
LEMMA CopyKeepsTypes ==
  ASSUME CoreTyped, Core!SubmitCopy
  PROVE  /\ coreSubmitted' \in 0 .. MaxFrames
         /\ coreStaging' \in [0 .. 2 -> Nat \cup {-1}]
         /\ coreCount \in 0 .. coreSubmitted' /\ coreCount + 1 \in 0 .. coreSubmitted'
<1>1. /\ coreSubmitted \in 0 .. MaxFrames /\ coreCount \in 0 .. coreSubmitted
      /\ coreStaging \in [0 .. 2 -> Nat \cup {-1}]
  BY DEF CoreTyped, Core!TypeOK, Core!Slots, Core!None
<1>2. MaxFrames \in Nat
  BY CoreAssumption DEF Core!StitchCoreAssumption
<1>3. /\ coreSubmitted < MaxFrames /\ coreSubmitted' = coreSubmitted + 1
      /\ coreStaging' = [coreStaging EXCEPT ![coreSlot] = coreSubmitted]
  BY DEF Core!SubmitCopy
<1>4. coreSubmitted \in Nat
  BY <1>1, <1>2
<1>5. coreStaging' \in [0 .. 2 -> Nat \cup {-1}]
  BY <1>1, <1>3, <1>4
<1> QED
  BY <1>1, <1>2, <1>3, <1>5

\* A submit keeps the ring, and pushing what it returns keeps the buffer a window.
LEMMA CoreSubmitKeeps == ASSUME CoreInv, Core!Submit PROVE CoreInv'
<1>0. CoreTyped /\ CoreRing /\ PushedInOrder /\ BufferIsWindow
  BY DEF CoreInv
<1>1. /\ coreSubmitted' = coreSubmitted + 1 /\ coreSubmitted < MaxFrames
      /\ coreStaging' = [coreStaging EXCEPT ![coreSlot] = coreSubmitted]
      /\ coreSlot' = (coreSlot + 1) % 3 /\ coreCount' = coreCount + 1
      /\ corePending' = IF corePending + 1 < 2 THEN corePending + 1 ELSE 2
      /\ now' = now /\ failed' = failed
  BY DEF Core!Submit, Core!SubmitCopy, Core!Advance
<1>2. /\ coreSubmitted \in Nat /\ coreSlot \in 0 .. 2 /\ corePending \in 0 .. 2
      /\ coreReturned \in Int /\ coreReturned >= -1
      /\ coreStaging \in [0 .. 2 -> Nat \cup {-1}]
      /\ (coreSlot + 1) % 3 \in 0 .. 2 /\ (coreSlot + 2) % 3 \in 0 .. 2
      /\ (coreSlot + 1) % 3 # coreSlot /\ (coreSlot + 2) % 3 # coreSlot
      /\ (((coreSlot + 1) % 3) + 1) % 3 = (coreSlot + 2) % 3
      /\ (((coreSlot + 1) % 3) + 2) % 3 = coreSlot
  BY <1>0, CoreNumbers
<1>3. /\ Newer' = coreSubmitted /\ Older' = Newer
      /\ Newer \in Nat \cup {-1} /\ Older \in Nat \cup {-1}
  BY <1>1, <1>2 DEF Newer, Older
<1>4. /\ NextAfter(coreSubmitted, coreSubmitted)' = FALSE
      /\ \A a, b \in Int : NextAfter(a, b) => NextAfter(a, b)'
      /\ \A a \in Int : NextAfter(a, a + 1)'
  BY <1>1, <1>2 DEF NextAfter
<1>5. CASE corePending < 2
  <2>1. coreReturned' = coreReturned /\ maxDuration' = maxDuration /\ replay' = replay
        /\ pushed' = pushed
    BY <1>2, <1>5 DEF Core!Submit, Core!replayVars
  <2>2. CoreTyped'
    <3>1. corePending' \in 0 .. 2
      BY <1>1, <1>2, <1>5
    <3>2. /\ coreSubmitted' \in 0 .. MaxFrames /\ coreCount' \in 0 .. coreSubmitted'
          /\ coreStaging' \in [0 .. 2 -> Nat \cup {-1}]
      BY <1>0, <1>1, CopyKeepsTypes DEF Core!Submit
    <3> QED
      BY <1>0, <1>1, <1>2, <2>1, <3>1, <3>2 DEF CoreTyped, Core!TypeOK, Core!Slots, Core!None
  <2>3. CoreRing'
    <3>1. CASE corePending = 0
      <4>1. NextAfter(coreReturned, coreSubmitted)
        BY <1>0, <3>1 DEF CoreRing
      <4>2. NextAfter(coreReturned', Newer') /\ NextAfter(Newer', coreSubmitted')
        BY <1>1, <1>2, <1>3, <2>1, <4>1 DEF NextAfter
      <4>3. corePending' = 1
        BY <1>1, <3>1
      <4> QED
        BY <1>1, <4>2, <4>3 DEF CoreRing, NextAfter
    <3>2. CASE corePending = 1
      <4>1. NextAfter(coreReturned, Newer) /\ NextAfter(Newer, coreSubmitted)
        BY <1>0, <3>2 DEF CoreRing
      <4>2. /\ NextAfter(coreReturned', Older') /\ NextAfter(Older', Newer')
            /\ NextAfter(Newer', coreSubmitted')
        BY <1>1, <1>2, <1>3, <2>1, <4>1 DEF NextAfter
      <4>3. corePending' = 2
        BY <1>1, <3>2
      <4> QED
        BY <1>1, <4>2, <4>3 DEF CoreRing, NextAfter
    <3> QED
      BY <1>2, <1>5, <3>1, <3>2
  <2>4. PushedInOrder' /\ BufferIsWindow'
    <3>1. coreReturned' \in Int /\ now' \in Nat /\ coreReturned' >= coreReturned /\ now' >= now
      BY <1>0, <1>1, <1>2, <2>1, CoreNumbers
    <3> QED
      BY <2>1, <3>1, BufferStays
  <2> QED
    BY <2>2, <2>3, <2>4 DEF CoreInv
<1>6. CASE corePending = 2
  <2>1. coreReturned' = Older /\ Core!Push(Older)
    BY <1>6 DEF Core!Submit, Core!ReadSlot, Older
  <2>2. /\ NextAfter(coreReturned, Older) /\ NextAfter(Older, Newer)
        /\ NextAfter(Newer, coreSubmitted)
    BY <1>0, <1>6 DEF CoreRing
  <2>3. Older \in Nat /\ Older > coreReturned /\ coreSubmitted >= Older + 2
    BY <1>2, <1>3, <2>2 DEF NextAfter
  <2>4. /\ replay' \in Seq(Entries) /\ pushed' \in Seq(Entries)
        /\ maxDuration' = maxDuration /\ PushedInOrder' /\ BufferIsWindow'
    BY <1>1, <2>1, <2>3, PushKeeps
  <2>5. CoreTyped'
    <3>1. coreReturned' \in Nat \cup {-1}
      BY <2>1, <2>3
    <3>2. corePending' \in 0 .. 2
      BY <1>1, <1>2, <1>6
    <3>3. /\ coreSubmitted' \in 0 .. MaxFrames /\ coreCount' \in 0 .. coreSubmitted'
          /\ coreStaging' \in [0 .. 2 -> Nat \cup {-1}]
      BY <1>0, <1>1, CopyKeepsTypes DEF Core!Submit
    <3> QED
      BY <1>0, <1>1, <1>2, <2>4, <3>1, <3>2, <3>3
         DEF CoreTyped, Core!TypeOK, Core!Slots, Core!None
  <2>6. CoreRing'
    <3>1. corePending' = 2
      BY <1>1, <1>6
    <3>2. /\ NextAfter(coreReturned', Older') /\ NextAfter(Older', Newer')
          /\ NextAfter(Newer', coreSubmitted')
      BY <1>1, <1>2, <1>3, <2>1, <2>2 DEF NextAfter
    <3> QED
      BY <1>1, <3>1, <3>2 DEF CoreRing, NextAfter
  <2> QED
    BY <2>4, <2>5, <2>6 DEF CoreInv
<1> QED
  BY <1>2, <1>5, <1>6

\* A failed readback loses its frame and nothing else.
LEMMA CoreFailsKeeps == ASSUME CoreInv, Core!ReadbackFails PROVE CoreInv'
<1>0. CoreTyped /\ CoreRing /\ PushedInOrder /\ BufferIsWindow
  BY DEF CoreInv
<1>1. /\ corePending = 2 /\ coreSubmitted' = coreSubmitted + 1 /\ coreSubmitted < MaxFrames
      /\ coreStaging' = [coreStaging EXCEPT ![coreSlot] = coreSubmitted]
      /\ failed' = failed \cup {coreSubmitted}
      /\ UNCHANGED <<now, coreSlot, corePending, coreCount, coreReturned, maxDuration, replay, pushed>>
  BY DEF Core!ReadbackFails, Core!SubmitCopy, Core!replayVars
<1>2. /\ coreSubmitted \in Nat /\ coreSlot \in 0 .. 2 /\ coreReturned \in Int /\ now \in Nat
      /\ coreStaging \in [0 .. 2 -> Nat \cup {-1}]
      /\ (coreSlot + 1) % 3 \in 0 .. 2 /\ (coreSlot + 2) % 3 \in 0 .. 2
      /\ (coreSlot + 1) % 3 # coreSlot /\ (coreSlot + 2) % 3 # coreSlot
  BY <1>0, CoreNumbers
<1>3. /\ Newer' = Newer /\ Older' = Older
      /\ Newer \in Int /\ Older \in Int
  BY <1>1, <1>2 DEF Newer, Older
<1>4. CoreTyped'
  <2>1. /\ coreSubmitted' \in 0 .. MaxFrames /\ coreCount \in 0 .. coreSubmitted'
        /\ coreStaging' \in [0 .. 2 -> Nat \cup {-1}]
    BY <1>0, CopyKeepsTypes DEF Core!ReadbackFails
  <2>2. failed \subseteq Nat /\ failed' \subseteq Nat
    BY <1>0, <1>1, <1>2 DEF CoreTyped, Core!TypeOK
  <2> QED
    BY <1>0, <1>1, <1>2, <2>1, <2>2 DEF CoreTyped, Core!TypeOK, Core!Slots, Core!None
<1>5. CoreRing'
  <2>1. /\ NextAfter(coreReturned, Older) /\ NextAfter(Older, Newer)
        /\ NextAfter(Newer, coreSubmitted)
    BY <1>0, <1>1 DEF CoreRing
  <2>2. NextAfter(coreReturned, Older)' /\ NextAfter(Older, Newer)'
    BY <1>1, <1>3, <2>1 DEF NextAfter
  <2>3. NextAfter(Newer, coreSubmitted)'
    BY <1>1, <1>2, <1>3, <2>1 DEF NextAfter
  <2> QED
    BY <1>1, <2>2, <2>3 DEF CoreRing
<1>6. PushedInOrder' /\ BufferIsWindow'
  BY <1>1, <1>2, BufferStays
<1> QED
  BY <1>4, <1>5, <1>6 DEF CoreInv

\* A flush returns what the ring still holds.
LEMMA CoreFlushKeeps == ASSUME CoreInv, Core!Flush PROVE CoreInv'
<1>0. CoreTyped /\ CoreRing /\ PushedInOrder /\ BufferIsWindow
  BY DEF CoreInv
<1>1. /\ corePending > 0 /\ corePending' = corePending - 1
      /\ UNCHANGED <<now, coreSubmitted, coreStaging, coreSlot, coreCount, failed, maxDuration,
                     replay, pushed>>
  BY DEF Core!Flush, Core!replayVars
<1>2. /\ coreSubmitted \in Nat /\ coreSlot \in 0 .. 2 /\ corePending \in 0 .. 2
      /\ coreReturned \in Int /\ coreReturned >= -1 /\ now \in Nat
      /\ coreStaging \in [0 .. 2 -> Nat \cup {-1}]
      /\ (coreSlot + 1) % 3 \in 0 .. 2 /\ (coreSlot + 2) % 3 \in 0 .. 2
  BY <1>0, CoreNumbers
<1>3. /\ Newer' = Newer /\ Older' = Older
      /\ Newer \in Int /\ Older \in Int
  BY <1>1, <1>2 DEF Newer, Older
<1>4. coreReturned' = IF corePending = 2 THEN Older ELSE Newer
  BY <1>0, FrameComesBack
<1>5. coreReturned' \in Nat /\ coreReturned' >= coreReturned /\ CoreRing'
  <2>1. CASE corePending = 2
    <3>1. /\ NextAfter(coreReturned, Older) /\ NextAfter(Older, Newer)
          /\ NextAfter(Newer, coreSubmitted)
      BY <1>0, <2>1 DEF CoreRing
    <3>2. NextAfter(coreReturned, Newer)' /\ NextAfter(Newer, coreSubmitted)'
      BY <1>1, <1>3, <1>4, <2>1, <3>1 DEF NextAfter
    <3>3. corePending' = 1
      BY <1>1, <2>1
    <3> QED
      BY <1>2, <1>3, <1>4, <2>1, <3>1, <3>2, <3>3 DEF CoreRing, NextAfter
  <2>2. CASE corePending = 1
    <3>1. NextAfter(coreReturned, Newer) /\ NextAfter(Newer, coreSubmitted)
      BY <1>0, <2>2 DEF CoreRing
    <3>2. NextAfter(coreReturned, coreSubmitted)'
      BY <1>1, <1>3, <1>4, <2>2, <3>1 DEF NextAfter
    <3>3. corePending' = 0
      BY <1>1, <2>2
    <3> QED
      BY <1>2, <1>3, <1>4, <2>2, <3>1, <3>2, <3>3 DEF CoreRing, NextAfter
  <2> QED
    BY <1>1, <1>2, <2>1, <2>2
<1>6. CoreTyped'
  BY <1>0, <1>1, <1>2, <1>5 DEF CoreTyped, Core!TypeOK, Core!Slots, Core!None
<1>7. PushedInOrder' /\ BufferIsWindow'
  BY <1>1, <1>2, <1>5, BufferStays
<1> QED
  BY <1>5, <1>6, <1>7 DEF CoreInv

\* Every call of the core keeps the invariant.
LEMMA CoreStep == ASSUME CoreInv, [Core!Next]_coreVars PROVE CoreInv'
<1>0. CoreTyped /\ CoreRing /\ PushedInOrder /\ BufferIsWindow
  BY DEF CoreInv
<1>1. CASE Core!TimePasses
  <2>1. /\ now < MaxTime /\ now' = now + 1
        /\ UNCHANGED <<coreSubmitted, coreStaging, coreSlot, corePending, coreCount, coreReturned,
                       failed, maxDuration, replay, pushed>>
    BY <1>1 DEF Core!TimePasses, Core!ringVars, Core!replayVars
  <2>2. now \in Nat /\ coreReturned \in Int /\ MaxTime \in Nat
    BY <1>0, CoreNumbers
  <2>3. CoreTyped'
    BY <1>0, <2>1, <2>2 DEF CoreTyped, Core!TypeOK, Core!Slots, Core!None
  <2>4. CoreRing'
    BY <1>0, <2>1 DEF CoreRing, NextAfter, Newer, Older
  <2>5. PushedInOrder' /\ BufferIsWindow'
    BY <2>1, <2>2, BufferStays
  <2> QED
    BY <2>3, <2>4, <2>5 DEF CoreInv
<1>2. CASE Core!EnableReplay \/ Core!EmptyReplay
  <2>1. /\ replay' = <<>> /\ pushed' = <<>> /\ maxDuration' \in Durations \cup {-1}
        /\ UNCHANGED <<now, coreSubmitted, coreStaging, coreSlot, corePending, coreCount,
                       coreReturned, failed>>
    BY <1>0, <1>2 DEF Core!EnableReplay, Core!EmptyReplay, Core!ringVars, Core!None, CoreTyped,
       Core!TypeOK
  <2>2. CoreTyped' /\ PushedInOrder' /\ BufferIsWindow'
    BY <1>0, <2>1, BufferEmpties DEF CoreTyped, Core!TypeOK, Core!Slots, Core!None
  <2>3. CoreRing'
    BY <1>0, <2>1 DEF CoreRing, NextAfter, Newer, Older
  <2> QED
    BY <2>2, <2>3 DEF CoreInv
<1>3. CASE UNCHANGED coreVars
  BY <1>3 DEF coreVars, CoreInv, CoreTyped, Core!TypeOK, Core!Slots, Core!None, CoreRing, NextAfter,
     Newer, Older, PushedInOrder, BufferIsWindow, Gone
<1> QED
  BY <1>1, <1>2, <1>3, CoreSubmitKeeps, CoreFailsKeeps, CoreFlushKeeps DEF Core!Next

\* The invariant gives the properties the run checks.
LEMMA CoreKeeps ==
  CoreInv => Core!TypeOK /\ Core!ReplayWindow
<1> SUFFICES ASSUME CoreInv PROVE Core!TypeOK /\ Core!ReplayWindow
  OBVIOUS
<1>1. CoreTyped /\ PushedInOrder /\ BufferIsWindow
  BY DEF CoreInv
<1>2. Len(replay) \in Nat /\ Len(pushed) \in Nat /\ Gone \in Nat
      /\ Gone + Len(replay) = Len(pushed)
  BY <1>1, CoreNumbers DEF BufferIsWindow, Gone
<1>3. \A k \in 1 .. Len(replay) : Gone + k \in 1 .. Len(pushed) /\ replay[k] = pushed[Gone + k]
  BY <1>1, <1>2 DEF BufferIsWindow
<1>4. ASSUME NEW k \in 1 .. Len(replay) - 1
      PROVE  replay[k].frame < replay[k + 1].frame /\ replay[k].at <= replay[k + 1].at
  <2>1. k \in 1 .. Len(replay) /\ k + 1 \in 1 .. Len(replay) /\ Gone + k < Gone + (k + 1)
    BY <1>2
  <2> QED
    BY <1>1, <1>3, <2>1 DEF PushedInOrder
<1>5. Core!Last(pushed) = pushed[Len(pushed)]
  BY DEF Core!Last
<1>6. Core!ReplayWindow
  BY <1>1, <1>4, <1>5 DEF BufferIsWindow, Gone, Core!ReplayWindow
<1> QED
  BY <1>1, <1>6 DEF CoreTyped

\* A step that returns a frame returns a later one, and passes over failed ones only.
LEMMA CoreReturnsInOrder ==
  ASSUME CoreInv, [Core!Next]_coreVars, coreReturned' # coreReturned
  PROVE  coreReturned' > coreReturned /\ (coreReturned + 1) .. (coreReturned' - 1) \subseteq failed
<1>1. Core!Submit \/ Core!Flush
  BY DEF Core!Next, Core!ReadbackFails, Core!TimePasses, Core!EnableReplay, Core!EmptyReplay,
     Core!ringVars, coreVars
<1>2. NextAfter(coreReturned, coreReturned')
  BY <1>1, FrameComesBack DEF CoreInv
<1>3. coreReturned \in Int /\ coreReturned' \in Int
  BY CoreNumbers, CoreStep DEF CoreInv, CoreTyped, Core!TypeOK, Core!None
<1> QED
  BY <1>2, <1>3 DEF NextAfter

\* The core's invariant holds in every state: the staging ring holds the frames still owed,
\* and the replay buffer is the tail of what was pushed.
THEOREM CoreAlways ==
  /\ Core!Spec => []CoreInv
  /\ MCSpec => []CoreInv
<1>1. CoreInv /\ [Core!Next]_Core!coreVars => CoreInv'
  BY CoreStep DEF Core!coreVars, coreVars, Core!ringVars, Core!replayVars
<1>2. CoreInv /\ [MCNext]_mcVars => CoreInv'
  BY CoreStep DEF MCNext, mcVars
<1>3. MCInit => CoreInv
  BY CoreStarts DEF MCInit
<1> QED
  BY <1>1, <1>2, <1>3, CoreStarts, PTL DEF MCSpec, Core!Spec

\* The core returns its frames in the order they were submitted, and leaves out none but
\* those whose readback failed.
THEOREM CoreFramesReturn ==
  /\ Core!Spec => Core!ReturnsInOrder
  /\ MCSpec => Core!ReturnsInOrder
<1>1. CoreInv /\ [Core!Next]_Core!coreVars =>
        [coreReturned' # coreReturned =>
           /\ coreReturned' > coreReturned
           /\ (coreReturned + 1) .. (coreReturned' - 1) \subseteq failed]_Core!coreVars
  BY CoreReturnsInOrder DEF Core!coreVars, coreVars, Core!ringVars, Core!replayVars
<1>2. [MCNext]_mcVars => [Core!Next]_Core!coreVars
  BY DEF MCNext, mcVars, Core!coreVars, coreVars, Core!ringVars, Core!replayVars
<1> QED
  BY <1>1, <1>2, CoreAlways, PTL DEF MCSpec, Core!Spec, Core!ReturnsInOrder

\* The replay buffer holds exactly what was returned during the last max_duration, in order,
\* for every sequence of durations, submits, flushes and failures.
THEOREM ReplayBufferIsWindow ==
  /\ Core!Spec => []Core!ReplayWindow
  /\ MCSpec => []ReplayWindow
<1>1. CoreInv => ReplayWindow
  BY CoreKeeps DEF ReplayWindow
<1> QED
  BY <1>1, CoreKeeps, CoreAlways, PTL

------------------------------------------------------------------------------
\* Both callers of a readback ring get their frames in the order they submitted them: the
\* session each of them once, the core all but those whose readback failed.
THEOREM FramesAreReturned ==
  MCSpec => FramesReturn
BY OutputIsFramePipe, CoreFramesReturn DEF FramesReturn
==============================================================================
