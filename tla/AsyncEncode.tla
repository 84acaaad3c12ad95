----------------------------- MODULE AsyncEncode -----------------------------
(***************************************************************************)
(* AsyncEncodeThread: the render thread (the caller) hands NV12 frames to  *)
(* an encode thread (the worker) over a bounded channel; the worker hands  *)
(* each buffer back over a second channel, the pool.                       *)
(*                                                                         *)
(* A frame is its submission number. A buffer is only counted: in the      *)
(* pool, in the job channel, in the worker's hands or in the caller's.     *)
(* The wrapped Encoder may accept a frame, fail or panic.                  *)
(***************************************************************************)
EXTENDS Integers, Sequences

CONSTANTS
    BufferCount,    \* buffer_count: capacity of the job channel
    MaxFrames       \* bound: frames the caller submits

ASSUME AsyncEncodeAssumption ==
    /\ BufferCount \in Nat \ {0}
    /\ MaxFrames \in Nat

VARIABLES
    caller,         \* where the owning thread stands in submit, finish or drop
    inHand,         \* the frame the caller copied to a buffer, None if none
    txOpen,         \* tx and pool_rx are Some: both are taken together
    queue,          \* the job channel
    pool,           \* buffers in the pool channel
    accepted,       \* submits whose frame entered the job channel
    worker,         \* where the encode thread stands
    job,            \* the frame the worker holds, None if none
    encoded,        \* the last frame the Encoder took, None if none
    finished,       \* the Encoder's own finish() has run
    outcome,        \* what the encode thread returned
    result          \* what the last call of the caller returned

callerVars == <<caller, inHand, txOpen, accepted, result>>
workerVars == <<worker, job, encoded, finished, outcome>>
vars == <<callerVars, queue, pool, workerVars>>

------------------------------------------------------------------------------
None == -1

PoolCapacity == BufferCount + 1

\* The worker's closure has returned: rx and pool_tx are dropped.
Dead == worker = "returned"

Init ==
    /\ caller = "idle"
    /\ inHand = None
    /\ txOpen = TRUE
    /\ queue = <<>>
    /\ pool = PoolCapacity
    /\ accepted = 0
    /\ worker = "recv"
    /\ job = None
    /\ encoded = None
    /\ finished = FALSE
    /\ outcome = "running"
    /\ result = "none"

------------------------------------------------------------------------------
\* Mutant of TakeBuffer: the pool is never looked at.
TakeBufferAllocating ==
    /\ caller = "idle" /\ txOpen
    /\ accepted < MaxFrames
    /\ caller' = "holding"
    /\ inHand' = accepted
    /\ UNCHANGED <<pool, txOpen, queue, accepted, result, workerVars>>

\* submit, first half: try_recv a recycled buffer or allocate one, and copy.
\* (Once finish has taken tx, submit only returns an error.)
TakeBuffer ==
    /\ caller = "idle" /\ txOpen
    /\ accepted < MaxFrames
    /\ caller' = "holding"
    /\ inHand' = accepted
    /\ pool' = IF pool > 0 THEN pool - 1 ELSE pool
    /\ UNCHANGED <<txOpen, queue, accepted, result, workerVars>>

Sent ==
    /\ queue' = Append(queue, inHand)
    /\ accepted' = accepted + 1
    /\ caller' = "idle"
    /\ result' = "ok"

Disconnected ==
    /\ caller' = "idle"
    /\ result' = "error"
    /\ UNCHANGED <<queue, accepted>>

\* submit, second half: try_send succeeds, finds the channel full (and the
\* caller blocks in send), or finds the encode thread gone.
TrySend ==
    /\ caller = "holding"
    /\ \/ /\ ~Dead /\ Len(queue) < BufferCount
          /\ Sent /\ inHand' = None
       \/ /\ ~Dead /\ Len(queue) >= BufferCount
          /\ caller' = "blocked"
          /\ UNCHANGED <<inHand, queue, accepted, result>>
       \/ Dead /\ Disconnected /\ inHand' = None
    /\ UNCHANGED <<txOpen, pool, workerVars>>

\* Mutant of Send: only room in the channel wakes the caller.
SendForRoom ==
    /\ caller = "blocked"
    /\ ~Dead /\ Len(queue) < BufferCount /\ Sent
    /\ inHand' = None
    /\ UNCHANGED <<txOpen, pool, workerVars>>

\* The blocking send returns once there is room, or the receiver is gone.
Send ==
    /\ caller = "blocked"
    /\ \/ ~Dead /\ Len(queue) < BufferCount /\ Sent
       \/ Dead /\ Disconnected
    /\ inHand' = None
    /\ UNCHANGED <<txOpen, pool, workerVars>>

\* finish and drop take tx and pool_rx before they join the thread.
Close(how) ==
    /\ caller = "idle" /\ txOpen
    /\ caller' = how
    /\ txOpen' = FALSE
    /\ pool' = 0
    /\ UNCHANGED <<inHand, queue, accepted, result, workerVars>>

Finish == Close("finishing")

Drop == Close("dropping")

\* join returns: finish passes the thread's result on (a panic becomes an
\* error), drop discards it.
Join ==
    /\ caller \in {"finishing", "dropping"} /\ Dead
    /\ caller' = IF caller = "finishing" THEN "finished" ELSE "dropped"
    /\ result' = IF caller = "dropping" THEN "discarded"
                 ELSE IF outcome = "ok" THEN "ok" ELSE "error"
    /\ UNCHANGED <<inHand, txOpen, queue, pool, accepted, workerVars>>

------------------------------------------------------------------------------
Receive ==
    /\ worker = "recv" /\ queue # <<>>
    /\ worker' = "encode"
    /\ job' = Head(queue)
    /\ queue' = Tail(queue)
    /\ UNCHANGED <<callerVars, pool, encoded, finished, outcome>>

Encode ==
    /\ worker = "encode"
    /\ worker' = "recycle"
    /\ encoded' = job
    /\ UNCHANGED <<callerVars, queue, pool, job, finished, outcome>>

\* Mutant of EncodeFails: the frame is given up and the thread goes on.
EncodeFailsOn ==
    /\ worker = "encode"
    /\ worker' = "recycle"
    /\ UNCHANGED <<callerVars, queue, pool, job, encoded, finished, outcome>>

\* The thread returns early or unwinds: the jobs still queued are dropped
\* with rx, and encoder.finish() never runs.
EncodeFails ==
    /\ worker = "encode"
    /\ worker' = "returned"
    /\ outcome' \in {"error", "panic"}
    /\ job' = None
    /\ queue' = <<>>
    /\ UNCHANGED <<callerVars, pool, encoded, finished>>

\* pool_tx.try_send: a full or disconnected pool just drops the buffer.
Recycle ==
    /\ worker = "recycle"
    /\ worker' = "recv"
    /\ job' = None
    /\ pool' = IF txOpen /\ pool < PoolCapacity THEN pool + 1 ELSE pool
    /\ UNCHANGED <<callerVars, queue, encoded, finished, outcome>>

\* Mutant of FinishEncoder: a closed channel ends the thread with jobs queued.
FinishEncoderEarly ==
    /\ worker = "recv" /\ ~txOpen
    /\ worker' = "returned"
    /\ finished' = TRUE
    /\ queue' = <<>>
    /\ outcome' \in {"ok", "error", "panic"}
    /\ UNCHANGED <<callerVars, pool, job, encoded>>

\* recv fails: tx is gone and every queued job has been received.
FinishEncoder ==
    /\ worker = "recv" /\ queue = <<>> /\ ~txOpen
    /\ worker' = "returned"
    /\ finished' = TRUE
    /\ outcome' \in {"ok", "error", "panic"}
    /\ UNCHANGED <<callerVars, queue, pool, job, encoded>>

------------------------------------------------------------------------------
Caller == TakeBuffer \/ TrySend \/ Send \/ Finish \/ Drop \/ Join

Worker == Receive \/ Encode \/ EncodeFails \/ Recycle \/ FinishEncoder

Next == Caller \/ Worker

Spec == Init /\ [][Next]_vars

\* Both threads are scheduled, the Encoder's calls return, and a call that
\* was made runs on; nothing obliges the caller to make another one.
FairSpec ==
    /\ Spec
    /\ WF_vars(Worker)
    /\ WF_vars(TrySend \/ Send \/ Join)

------------------------------------------------------------------------------
(* Properties *)

Count(held) == IF held = None THEN 0 ELSE 1

\* Buffers in existence between the two threads.
LiveBuffers == pool + Len(queue) + Count(job) + Count(inHand)

TypeOK ==
    /\ caller \in {"idle", "holding", "blocked", "finishing", "dropping",
                   "finished", "dropped"}
    /\ inHand \in Nat \cup {None}
    /\ txOpen \in BOOLEAN
    /\ queue \in Seq(Nat)
    /\ pool \in 0 .. PoolCapacity
    /\ accepted \in Nat
    /\ worker \in {"recv", "encode", "recycle", "returned"}
    /\ job \in Nat \cup {None}
    /\ encoded \in Nat \cup {None}
    /\ finished \in BOOLEAN
    /\ outcome \in {"running", "ok", "error", "panic"}
    /\ result \in {"none", "ok", "error", "discarded"}

\* However submit, encode and recycle interleave, allocating on an empty pool
\* never leaves more than BufferCount + 2 buffers alive.
BuffersBounded == LiveBuffers <= BufferCount + 2

\* finish() returning Ok means the file is whole: every frame a submit
\* returned Ok for was encoded, and then the encoder was finalized.
FinishOkMeansAllEncoded ==
    caller = "finished" /\ result = "ok" =>
        finished /\ encoded = accepted - 1

\* submit never blocks for ever, not even when the worker dies while the
\* caller waits for room in the channel.
SubmitReturns == caller \in {"holding", "blocked"} ~> caller = "idle"

\* finish and drop never wait for a thread that waits for them: the sender is
\* gone before the join.
JoinReturns ==
    caller \in {"finishing", "dropping"} ~> caller \in {"finished", "dropped"}

\* No call of the caller waits for ever.
CallsReturn == SubmitReturns /\ JoinReturns

\* The thread is a frame pipe holding at most the channel and one frame in
\* the encoder's hands.
Pipe == INSTANCE FramePipe WITH
    Capacity <- BufferCount + 1,
    entered  <- accepted,
    out      <- encoded,
    state    <- CASE outcome = "running" -> "open"
                  [] outcome # "running" /\ finished -> "drained"
                  [] OTHER -> "abandoned"

\* The Encoder sees the frames in submission order, each once, none skipped,
\* and is finalized only when it has seen them all.
IsFramePipe == Pipe!Spec
==============================================================================
