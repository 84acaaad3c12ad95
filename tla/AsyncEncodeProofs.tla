-------------------------- MODULE AsyncEncodeProofs --------------------------
(***************************************************************************)
(* Whatever the channel's capacity and however many frames are submitted,  *)
(* the encode thread is a frame pipe, keeps its memory bounded and never   *)
(* reports a file as whole that is not.                                    *)
(***************************************************************************)
EXTENDS AsyncEncode, TLAPS

\* The number of the next frame the worker receives.
NextOut == accepted - Len(queue)

\* What the caller's place says of its frame and of the channel ends.
CallerInv ==
    /\ txOpen <=> caller \in {"idle", "holding", "blocked"}
    /\ inHand = (IF caller \in {"holding", "blocked"} THEN accepted ELSE None)
    /\ Len(queue) <= BufferCount
    /\ caller = "finished" /\ result = "ok" => outcome = "ok"

\* The channel holds consecutive frames that end with the last one accepted,
\* and the worker is at the one before.
WorkerInv ==
    /\ \A i \in 1 .. Len(queue) : queue[i] = NextOut + i - 1
    /\ worker = "recv" => job = None /\ encoded = NextOut - 1
    /\ worker = "encode" => job = NextOut - 1 /\ encoded = NextOut - 2
    /\ worker = "recycle" => job = NextOut - 1 /\ encoded = NextOut - 1
    /\ worker \in {"encode", "recycle"} => job \in Nat
    /\ Dead => queue = <<>> /\ job = None
    /\ Dead <=> outcome # "running"
    /\ finished => Dead /\ ~txOpen /\ encoded = accepted - 1
    /\ outcome = "ok" => finished

Inv ==
    /\ TypeOK
    /\ CallerInv
    /\ WorkerInv
    /\ BuffersBounded

------------------------------------------------------------------------------
LEMMA CountRange ==
  ASSUME NEW x
  PROVE  Count(x) \in {0, 1} /\ Count(None) = 0 /\ (x # None => Count(x) = 1)
BY DEF Count

LEMMA InitInv == Init => Inv
<1> SUFFICES ASSUME Init PROVE Inv
  OBVIOUS
<1> USE AsyncEncodeAssumption DEF Init, None
<1>1. TypeOK
  <2>1. pool \in 0 .. PoolCapacity
    BY DEF PoolCapacity
  <2>2. queue \in Seq(Nat) /\ accepted \in Nat
    OBVIOUS
  <2>3. txOpen \in BOOLEAN /\ finished \in BOOLEAN
    OBVIOUS
  <2>4. inHand \in Nat \cup {None} /\ job \in Nat \cup {None} /\ encoded \in Nat \cup {None}
    OBVIOUS
  <2>5. caller = "idle" /\ worker = "recv" /\ outcome = "running" /\ result = "none"
    OBVIOUS
  <2> HIDE DEF None, Init
  <2> QED
    BY <2>1, <2>2, <2>3, <2>4, <2>5 DEF TypeOK
<1>2. CallerInv
  BY DEF CallerInv
<1>3. WorkerInv
  <2>1. Len(queue) = 0
    OBVIOUS
  <2>2. NextOut = 0
    <3>1. accepted = 0
      OBVIOUS
    <3> HIDE DEF Init
    <3> QED
      BY <2>1, <3>1 DEF NextOut
  <2>3. ~Dead
    BY DEF Dead
  <2> QED
    BY <2>1, <2>2, <2>3 DEF WorkerInv
<1>4. BuffersBounded
  BY DEF BuffersBounded, LiveBuffers, Count, PoolCapacity
<1> QED
  BY <1>1, <1>2, <1>3, <1>4 DEF Inv

\* A frame that enters the channel is the next one.
LEMMA SentStep ==
  ASSUME Inv, ~Dead, caller \in {"holding", "blocked"}, Len(queue) < BufferCount,
         Sent, inHand' = None, UNCHANGED <<txOpen, pool, workerVars>>
  PROVE  Inv'
<1> USE AsyncEncodeAssumption
<1>1. /\ queue \in Seq(Nat) /\ accepted \in Nat /\ inHand = accepted
      /\ queue' = Append(queue, accepted) /\ accepted' = accepted + 1
      /\ caller' = "idle" /\ result' = "ok" /\ inHand' = None
  BY DEF Inv, TypeOK, CallerInv, Sent
<1>2. queue' \in Seq(Nat) /\ Len(queue') = Len(queue) + 1
  BY <1>1
<1>3. TypeOK'
  BY <1>1, <1>2 DEF Inv, TypeOK, workerVars, PoolCapacity
<1>4. CallerInv'
  BY <1>1, <1>2 DEF Inv, CallerInv, None, workerVars
<1>5. NextOut' = NextOut
  BY <1>1, <1>2 DEF NextOut
<1>6. \A i \in 1 .. Len(queue') : queue'[i] = NextOut' + i - 1
  <2> TAKE i \in 1 .. Len(queue')
  <2>1. CASE i = Len(queue) + 1
    BY <1>1, <1>2, <1>5, <2>1 DEF NextOut
  <2>2. CASE i # Len(queue) + 1
    BY <1>1, <1>2, <1>5, <2>2 DEF Inv, WorkerInv
  <2> QED
    BY <2>1, <2>2
<1>7. WorkerInv'
  BY <1>1, <1>5, <1>6 DEF Inv, WorkerInv, workerVars, Dead
<1>8. BuffersBounded'
  BY <1>1, <1>2 DEF Inv, TypeOK, BuffersBounded, LiveBuffers, Count, workerVars, None
<1> QED
  BY <1>3, <1>4, <1>7, <1>8 DEF Inv

\* A submit that finds the thread gone gives its buffer up.
LEMMA DisconnectedStep ==
  ASSUME Inv, Dead, caller \in {"holding", "blocked"}, Disconnected,
         inHand' = None, UNCHANGED <<txOpen, pool, workerVars>>
  PROVE  Inv'
<1> USE AsyncEncodeAssumption
<1>1. TypeOK'
  BY DEF Inv, TypeOK, Disconnected, workerVars, PoolCapacity
<1>2. CallerInv'
  BY DEF Inv, CallerInv, Disconnected, workerVars, None
<1>3. WorkerInv'
  BY DEF Inv, WorkerInv, Disconnected, workerVars, NextOut, Dead
<1>4. BuffersBounded'
  BY DEF Inv, TypeOK, BuffersBounded, LiveBuffers, Count, Disconnected, workerVars, None
<1> QED
  BY <1>1, <1>2, <1>3, <1>4 DEF Inv

\* The calls of the caller keep the invariant.
LEMMA CallerStep == Inv /\ Caller => Inv'
<1> SUFFICES ASSUME Inv, Caller PROVE Inv'
  OBVIOUS
<1> USE AsyncEncodeAssumption
<1>1. CASE TakeBuffer
  <2>1. /\ inHand = None /\ inHand' = accepted /\ accepted' = accepted
        /\ queue' = queue /\ accepted \in Nat
    BY <1>1 DEF TakeBuffer, Inv, CallerInv, TypeOK
  <2>2. TypeOK'
    BY <1>1, <2>1 DEF TakeBuffer, Inv, TypeOK, PoolCapacity, workerVars
  <2>3. CallerInv'
    BY <1>1, <2>1 DEF TakeBuffer, Inv, CallerInv, workerVars
  <2>4. WorkerInv'
    BY <1>1, <2>1 DEF TakeBuffer, Inv, WorkerInv, workerVars, NextOut, Dead
  <2>5. BuffersBounded'
    <3>1. /\ Count(inHand) = 0 /\ Count(inHand') = 1 /\ Count(job') = Count(job)
          /\ Count(job) \in {0, 1}
      BY <1>1, <2>1, CountRange DEF TakeBuffer, workerVars, None
    <3>2. /\ pool' = IF pool > 0 THEN pool - 1 ELSE pool
          /\ pool \in Nat /\ Len(queue) \in Nat /\ Len(queue) <= BufferCount
      BY <1>1 DEF TakeBuffer, Inv, TypeOK, CallerInv, PoolCapacity
    <3> QED
      BY <2>1, <3>1, <3>2 DEF Inv, BuffersBounded, LiveBuffers
  <2> QED
    BY <2>2, <2>3, <2>4, <2>5 DEF Inv
<1>2. CASE TrySend
  <2>1. CASE caller' = "blocked"
    <3>1. UNCHANGED <<inHand, queue, accepted, result, txOpen, pool, workerVars>>
          /\ caller = "holding"
      BY <1>2, <2>1 DEF TrySend, Sent, Disconnected
    <3>2. TypeOK' /\ CallerInv'
      BY <2>1, <3>1 DEF Inv, TypeOK, CallerInv, workerVars, PoolCapacity
    <3>3. WorkerInv' /\ BuffersBounded'
      BY <3>1 DEF Inv, WorkerInv, BuffersBounded, LiveBuffers, workerVars, NextOut, Dead
    <3> QED
      BY <3>2, <3>3 DEF Inv
  <2>2. CASE caller' # "blocked"
    BY <1>2, <2>2, SentStep, DisconnectedStep DEF TrySend
  <2> QED
    BY <2>1, <2>2
<1>3. CASE Send
  BY <1>3, SentStep, DisconnectedStep DEF Send
<1>4. ASSUME NEW how \in {"finishing", "dropping"}, Close(how) PROVE Inv'
  <2>1. TypeOK'
    <3>1. pool' \in 0 .. PoolCapacity
      <4>1. pool' = 0
        BY <1>4 DEF Close
      <4> QED
        BY <4>1 DEF PoolCapacity
    <3>2. txOpen' \in BOOLEAN
      BY <1>4 DEF Close
    <3> QED
      BY <1>4, <3>1, <3>2 DEF Close, Inv, TypeOK, workerVars
  <2>2. CallerInv' /\ WorkerInv'
    BY <1>4 DEF Close, Inv, CallerInv, WorkerInv, workerVars, NextOut, Dead
  <2>3. BuffersBounded'
    <3>1. LiveBuffers' = LiveBuffers - pool /\ pool \in Nat
      <4>1. Count(job)' = Count(job) /\ Count(inHand)' = Count(inHand)
        BY <1>4 DEF Close, workerVars
      <4>2. Count(job) \in Nat /\ Count(inHand) \in Nat
        BY CountRange
      <4>3. queue' = queue /\ pool' = 0
        BY <1>4 DEF Close
      <4>4. Len(queue) \in Nat /\ pool \in Nat
        BY DEF Inv, TypeOK, PoolCapacity
      <4> QED
        BY <4>1, <4>2, <4>3, <4>4 DEF LiveBuffers
    <3>2. LiveBuffers \in Nat
      BY CountRange DEF LiveBuffers, Inv, TypeOK, PoolCapacity
    <3> QED
      BY <3>1, <3>2 DEF Inv, BuffersBounded
  <2> QED
    BY <2>1, <2>2, <2>3 DEF Inv
<1>5. CASE Join
  <2>1. TypeOK' /\ CallerInv'
    BY <1>5 DEF Join, Inv, TypeOK, CallerInv, workerVars, PoolCapacity
  <2>2. WorkerInv' /\ BuffersBounded'
    BY <1>5 DEF Join, Inv, WorkerInv, BuffersBounded, LiveBuffers, workerVars, NextOut, Dead
  <2> QED
    BY <2>1, <2>2 DEF Inv
<1> QED
  BY <1>1, <1>2, <1>3, <1>4, <1>5 DEF Caller, Finish, Drop

\* The steps of the encode thread keep the invariant.
LEMMA WorkerStep == Inv /\ Worker => Inv'
<1> SUFFICES ASSUME Inv, Worker PROVE Inv'
  OBVIOUS
<1> USE AsyncEncodeAssumption
<1>1. CASE Receive
  <2>1. /\ queue \in Seq(Nat) /\ queue # <<>> /\ accepted \in Nat
        /\ job' = queue[1] /\ queue' = Tail(queue) /\ accepted' = accepted
    BY <1>1 DEF Receive, Inv, TypeOK, callerVars
  <2>2. /\ queue' \in Seq(Nat) /\ Len(queue') = Len(queue) - 1
        /\ \A i \in 1 .. Len(queue') : queue'[i] = queue[i + 1]
    BY <2>1
  <2>3. NextOut' = NextOut + 1 /\ job' = NextOut /\ NextOut \in Int
    BY <2>1, <2>2 DEF Inv, WorkerInv, NextOut
  <2>4. job' \in Nat
    BY <2>1
  <2>5. TypeOK'
    BY <1>1, <2>2, <2>4 DEF Receive, Inv, TypeOK, callerVars, PoolCapacity
  <2>6. CallerInv'
    BY <1>1, <2>1, <2>2 DEF Receive, Inv, CallerInv, callerVars
  <2>7. \A i \in 1 .. Len(queue') : queue'[i] = NextOut' + i - 1
    BY <2>1, <2>2, <2>3 DEF Inv, WorkerInv
  <2>8. WorkerInv'
    BY <1>1, <2>3, <2>4, <2>7 DEF Receive, Inv, WorkerInv, callerVars, Dead
  <2>9. BuffersBounded'
    BY <1>1, <2>2, <2>4 DEF Receive, Inv, TypeOK, WorkerInv, BuffersBounded, LiveBuffers,
                            Count, callerVars, None, PoolCapacity
  <2> QED
    BY <2>5, <2>6, <2>8, <2>9 DEF Inv
<1>2. CASE Encode
  <2>1. TypeOK' /\ CallerInv'
    BY <1>2 DEF Encode, Inv, TypeOK, CallerInv, callerVars, PoolCapacity
  <2>2. WorkerInv' /\ BuffersBounded'
    BY <1>2 DEF Encode, Inv, WorkerInv, BuffersBounded, LiveBuffers, callerVars, NextOut, Dead
  <2> QED
    BY <2>1, <2>2 DEF Inv
<1>3. CASE EncodeFails
  <2>1. TypeOK' /\ CallerInv'
    BY <1>3 DEF EncodeFails, Inv, TypeOK, CallerInv, WorkerInv, callerVars, PoolCapacity, Dead
  <2>2. WorkerInv'
    BY <1>3 DEF EncodeFails, Inv, TypeOK, WorkerInv, callerVars, NextOut, Dead
  <2>3. BuffersBounded'
    BY <1>3 DEF EncodeFails, Inv, TypeOK, BuffersBounded, LiveBuffers, Count, callerVars,
                None, PoolCapacity
  <2> QED
    BY <2>1, <2>2, <2>3 DEF Inv
<1>4. CASE Recycle
  <2>1. TypeOK' /\ CallerInv'
    BY <1>4 DEF Recycle, Inv, TypeOK, CallerInv, callerVars, PoolCapacity
  <2>2. WorkerInv'
    BY <1>4 DEF Recycle, Inv, WorkerInv, callerVars, NextOut, Dead
  <2>3. job # None
    BY <1>4 DEF Recycle, Inv, WorkerInv, None
  <2>4. BuffersBounded'
    <3>1. /\ Count(job) = 1 /\ Count(job') = 0 /\ Count(inHand)' = Count(inHand)
          /\ Count(inHand) \in Nat
      BY <1>4, <2>3, CountRange DEF Recycle, callerVars
    <3>2. /\ pool \in Nat /\ pool' \in Nat /\ pool' <= pool + 1
          /\ Len(queue) \in Nat /\ queue' = queue
      BY <1>4 DEF Recycle, Inv, TypeOK, PoolCapacity
    <3> QED
      BY <3>1, <3>2 DEF Inv, BuffersBounded, LiveBuffers
  <2> QED
    BY <2>1, <2>2, <2>4 DEF Inv
<1>5. CASE FinishEncoder
  <2>1. TypeOK' /\ CallerInv'
    BY <1>5 DEF FinishEncoder, Inv, TypeOK, CallerInv, WorkerInv, callerVars, PoolCapacity, Dead
  <2>2. WorkerInv' /\ BuffersBounded'
    BY <1>5 DEF FinishEncoder, Inv, TypeOK, WorkerInv, BuffersBounded, LiveBuffers, callerVars,
                NextOut, Dead
  <2> QED
    BY <2>1, <2>2 DEF Inv
<1> QED
  BY <1>1, <1>2, <1>3, <1>4, <1>5 DEF Worker

LEMMA StepInv == Inv /\ [Next]_vars => Inv'
<1> SUFFICES ASSUME Inv, UNCHANGED vars PROVE Inv'
  BY CallerStep, WorkerStep DEF Next
<1> QED
  BY DEF Inv, TypeOK, CallerInv, WorkerInv, BuffersBounded, LiveBuffers, NextOut, Dead, vars,
         callerVars, workerVars

\* Caller and worker keep the invariant, for every capacity.
THEOREM ThreadInvariant == Spec => []Inv
<1> QED
  BY InitInv, StepInv, PTL DEF Spec

------------------------------------------------------------------------------
(* Theorems *)

\* The shape of the two threads' state; the pool never outgrows its channel.
THEOREM TypeCorrect == Spec => []TypeOK
<1>1. Inv => TypeOK
  BY DEF Inv
<1> QED
  BY <1>1, ThreadInvariant, PTL

\* However often submit finds the pool empty and allocates, no more than
\* BufferCount + 2 buffers are alive.
THEOREM BoundedMemory == Spec => []BuffersBounded
<1>1. Inv => BuffersBounded
  BY DEF Inv
<1> QED
  BY <1>1, ThreadInvariant, PTL

\* finish() returns Ok only for a file that holds every accepted frame.
THEOREM OkIsWhole == Spec => []FinishOkMeansAllEncoded
<1>1. Inv => FinishOkMeansAllEncoded
  BY DEF Inv, CallerInv, WorkerInv, FinishOkMeansAllEncoded
<1> QED
  BY <1>1, ThreadInvariant, PTL

\* Each step of the two threads is a step of the frame pipe, or leaves it alone.
LEMMA StepRefines == Inv /\ [Next]_vars => [Pipe!Next]_Pipe!vars
<1> SUFFICES ASSUME Inv, [Next]_vars PROVE [Pipe!Next]_Pipe!vars
  OBVIOUS
<1> USE AsyncEncodeAssumption DEF Pipe!Next, Pipe!vars
<1>0. accepted \in Nat /\ Len(queue) \in Nat /\ Len(queue) <= BufferCount
  BY DEF Inv, TypeOK, CallerInv
<1>1. ASSUME ~Dead, caller \in {"holding", "blocked"}, Len(queue) < BufferCount, Sent,
             UNCHANGED workerVars
      PROVE  Pipe!Enter
  <2>1. outcome = "running" /\ accepted - encoded - 1 < BufferCount + 1
    BY <1>0, <1>1 DEF Inv, TypeOK, WorkerInv, NextOut, Dead
  <2> QED
    BY <1>1, <2>1 DEF Sent, workerVars, Pipe!Enter, Pipe!Inside
<1>2. CASE Encode
  <2>1. /\ outcome = "running" /\ outcome' = outcome /\ accepted' = accepted
        /\ encoded' = encoded + 1 /\ accepted - encoded - 1 > 0
    BY <1>0, <1>2 DEF Encode, Inv, TypeOK, WorkerInv, NextOut, Dead, callerVars
  <2>2. Pipe!Leave
    BY <2>1 DEF Pipe!Leave, Pipe!Inside
  <2> QED
    BY <2>2
<1>3. CASE EncodeFails
  <2>1. /\ outcome = "running" /\ ~finished /\ outcome' # "running" /\ ~finished'
        /\ accepted' = accepted /\ encoded' = encoded
    BY <1>3 DEF EncodeFails, Inv, WorkerInv, Dead, callerVars
  <2>2. Pipe!Abandon
    BY <2>1 DEF Pipe!Abandon
  <2> QED
    BY <2>2
<1>4. CASE FinishEncoder
  <2>1. /\ outcome = "running" /\ outcome' # "running" /\ finished'
        /\ accepted' = accepted /\ encoded' = encoded /\ encoded = accepted - 1
    BY <1>0, <1>4 DEF FinishEncoder, Inv, TypeOK, WorkerInv, NextOut, Dead, callerVars
  <2>2. Pipe!Drain
    BY <1>0, <2>1 DEF Pipe!Drain, Pipe!Inside
  <2> QED
    BY <2>2
<1>5. CASE UNCHANGED <<accepted, encoded, outcome, finished>>
  BY <1>5
<1>6. TakeBuffer \/ Finish \/ Drop \/ Join =>
          UNCHANGED <<accepted, encoded, outcome, finished>>
  BY DEF TakeBuffer, Finish, Drop, Close, Join, workerVars
<1>7. Receive \/ Recycle \/ UNCHANGED vars =>
          UNCHANGED <<accepted, encoded, outcome, finished>>
  BY DEF Receive, Recycle, vars, callerVars, workerVars
<1>8. TrySend \/ Send =>
          \/ UNCHANGED <<accepted, encoded, outcome, finished>>
          \/ /\ ~Dead /\ caller \in {"holding", "blocked"} /\ Len(queue) < BufferCount
             /\ Sent /\ UNCHANGED workerVars
  BY DEF TrySend, Send, Disconnected, workerVars
<1> QED
  BY <1>1, <1>2, <1>3, <1>4, <1>5, <1>6, <1>7, <1>8 DEF Next, Caller, Worker

\* The Encoder sees every accepted frame in order, once each, none skipped,
\* never more than the channel and one inside, and is finalized only after
\* the last one.
THEOREM Refinement == Spec => IsFramePipe
<1>1. Init => Pipe!Init
  BY DEF Init, None, Pipe!Init
<1> QED
  BY <1>1, StepRefines, ThreadInvariant, PTL DEF Spec, IsFramePipe, Pipe!Spec
==============================================================================
