------------------------------ MODULE EventTrace ------------------------------
(***************************************************************************)
(* The pipeline's event trace: BackpressuredSink, a bounded channel from   *)
(* the render loop to a thread, around the JSON Lines sink, which writes   *)
(* through a BufWriter (or around any other sink, which may panic).        *)
(*                                                                         *)
(* An event is the number of its emit; two events belong to each frame. A  *)
(* channel of capacity 0 hands an event over only to a thread that waits.  *)
(***************************************************************************)
EXTENDS Integers, Sequences

CONSTANTS
    Capacities,     \* of the channel
    Gates,          \* every_n_frames; 1 for None
    MaxEvents       \* bound: events emitted

EventTraceAssumption ==
    Capacities \subseteq Nat /\ Gates \subseteq Nat \ {0} /\ MaxEvents \in Nat

VARIABLES
    capacity, everyN,
    emitted,        \* emits so far
    recorded,       \* those that passed the sample-rate gate
    dropped,        \* dropped
    chan,           \* the channel
    sink,           \* the caller's side: "open", "closing" in drop, or "closed"
    thread,         \* "receiving", "emitting", "dropping" the sink, or "ended"
    panicked,       \* the inner sink panicked in the thread
    event,          \* the event the thread emits
    lines,          \* lines written to the BufWriter
    inFile,         \* how many of them are in the file; the buffer has the others
    ragged,         \* what was written last is no line: its newline is missing
    torn,           \* how many lines begin with such a rest
    writeFailures   \* write_failures

writerVars == <<lines, inFile, ragged, torn, writeFailures>>
traceVars == <<capacity, everyN, emitted, recorded, dropped, chan, sink, thread,
               panicked, event, writerVars>>

------------------------------------------------------------------------------
None == -1

Init ==
    /\ capacity \in Capacities /\ everyN \in Gates
    /\ emitted = 0 /\ recorded = 0 /\ dropped = 0
    /\ chan = <<>>
    /\ sink = "open"
    /\ thread = "receiving" /\ panicked = FALSE /\ event = None
    /\ lines = <<>> /\ inFile = 0 /\ ragged = FALSE /\ torn = 0
    /\ writeFailures = 0

Frame(e) == e \div 2

\* The sample-rate gate.
Gated(e) == Frame(e) % everyN # 0

ReceiverGone == thread \in {"dropping", "ended"}

\* try_send finds a place, or the waiting thread.
Room ==
    \/ Len(chan) < capacity
    \/ capacity = 0 /\ thread = "receiving" /\ chan = <<>>

\* Mutant of Overflow: a full channel is taken for a closed one.
OverflowSilent == UNCHANGED dropped

Overflow == dropped' = dropped + 1

\* emit: never blocks.
Emit ==
    /\ sink = "open" /\ emitted < MaxEvents
    /\ emitted' = emitted + 1
    /\ IF Gated(emitted)
       THEN UNCHANGED <<recorded, dropped, chan>>
       ELSE /\ recorded' = recorded + 1
            /\ \/ ReceiverGone /\ UNCHANGED <<dropped, chan>>
               \/ ~ReceiverGone /\ Room /\ chan' = Append(chan, emitted) /\ UNCHANGED dropped
               \/ ~ReceiverGone /\ ~Room /\ Overflow /\ UNCHANGED chan
    /\ UNCHANGED <<capacity, everyN, sink, thread, panicked, event, writerVars>>

\* The thread's recv: an event, or the end once the sender is dropped.
Receive ==
    /\ thread = "receiving"
    /\ \/ /\ chan # <<>>
          /\ event' = Head(chan) /\ chan' = Tail(chan)
          /\ thread' = "emitting"
       \/ /\ chan = <<>> /\ sink = "closing"
          /\ thread' = "dropping"
          /\ UNCHANGED <<event, chan>>
    /\ UNCHANGED <<capacity, everyN, emitted, recorded, dropped, sink, panicked, writerVars>>

\* write_event succeeds: the line is in the buffer, which was flushed to the
\* file if there was no room for it.
WriteLine ==
    /\ lines' = Append(lines, event)
    /\ inFile' \in {inFile, Len(lines)}
    /\ torn' = IF ragged THEN torn + 1 ELSE torn
    /\ ragged' = FALSE
    /\ UNCHANGED writeFailures

\* Mutant of CountFailure: only the failures that are logged are counted.
CountFailureLogged ==
    writeFailures' = IF writeFailures < 2 THEN writeFailures + 1 ELSE writeFailures

CountFailure == writeFailures' = writeFailures + 1

\* write_event fails: a flush of the buffer did. What it wrote is in the file,
\* the rest stays in the buffer, and with it what the buffer took of the event.
FailToWrite ==
    /\ inFile' \in inFile .. Len(lines)
    /\ ragged' \in {ragged, TRUE}
    /\ inFile' < Len(lines) \/ ragged'
    /\ CountFailure
    /\ UNCHANGED <<lines, torn>>

\* The inner sink writes the event, fails to, or panics.
InnerEmit ==
    /\ thread = "emitting"
    /\ event' = None
    /\ \/ /\ WriteLine \/ FailToWrite
          /\ thread' = "receiving"
          /\ UNCHANGED <<chan, panicked>>
       \/ /\ panicked' = TRUE /\ chan' = <<>>
          /\ thread' = "dropping"
          /\ UNCHANGED writerVars
    /\ UNCHANGED <<capacity, everyN, emitted, recorded, dropped, sink>>

\* The sink's drop flushes the buffer. A failure is logged, not counted.
FinalFlush ==
    /\ thread = "dropping"
    /\ inFile' \in inFile .. Len(lines)
    /\ thread' = "ended"
    /\ UNCHANGED <<capacity, everyN, emitted, recorded, dropped, chan, sink, panicked, event,
                   lines, ragged, torn, writeFailures>>

\* Mutant of CloseChannel: the thread is joined before the sender is dropped.
CloseChannelLate == thread = "ended"

CloseChannel == TRUE

\* drop: the sender first,
Close ==
    /\ sink = "open" /\ CloseChannel
    /\ sink' = "closing"
    /\ UNCHANGED <<capacity, everyN, emitted, recorded, dropped, chan, thread, panicked, event,
                   writerVars>>

\* then the join.
Join ==
    /\ sink = "closing" /\ thread = "ended"
    /\ sink' = "closed"
    /\ UNCHANGED <<capacity, everyN, emitted, recorded, dropped, chan, thread, panicked, event,
                   writerVars>>

Writer == Receive \/ InnerEmit \/ FinalFlush

Next == Emit \/ Writer \/ Close \/ Join

Spec == Init /\ [][Next]_traceVars

\* The thread is scheduled and the inner sink's calls return.
FairSpec == Spec /\ WF_traceVars(Writer) /\ WF_traceVars(Join)

------------------------------------------------------------------------------
(* Properties *)

TypeOK ==
    /\ capacity \in Capacities /\ everyN \in Gates
    /\ recorded \in 0 .. emitted /\ dropped \in 0 .. recorded
    /\ chan \in Seq(Nat) /\ Len(chan) <= capacity + 1
    /\ sink \in {"open", "closing", "closed"}
    /\ thread \in {"receiving", "emitting", "dropping", "ended"}
    /\ panicked \in BOOLEAN
    /\ event \in Nat \cup {None} /\ (event # None <=> thread = "emitting")
    /\ lines \in Seq(Nat) /\ inFile \in 0 .. Len(lines)
    /\ ragged \in BOOLEAN /\ torn \in 0 .. Len(lines) /\ writeFailures \in Nat

InFlight == Len(chan) + (IF thread = "emitting" THEN 1 ELSE 0)

Buffered == Len(lines) - inFile

\* Every event past the gate is in the file, in order, or behind it in the
\* buffer, or counted as dropped or as a failed write, or on its way; when the
\* sink is gone none is on its way. So only two things lose events uncounted:
\* a panic of the inner sink, and a last flush that leaves some in the buffer.
Accounted ==
    /\ \A k \in 1 .. Len(lines) : ~Gated(lines[k]) /\ (k > 1 => lines[k - 1] < lines[k])
    /\ ~panicked => inFile + Buffered + writeFailures + dropped + InFlight = recorded
    /\ ~panicked /\ thread = "ended" => InFlight = 0

\* A failed write damages at most one line besides its own: what it leaves in
\* the buffer is joined to the next event that is written, and to no other. A
\* trace without failed writes has no line that is not a complete object.
DamageCounted == torn + (IF ragged THEN 1 ELSE 0) <= writeFailures

\* Dropping the sink returns.
Ends == []<>(sink # "closing")
==============================================================================
