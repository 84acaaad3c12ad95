------------------------------ MODULE FramePipe ------------------------------
(***************************************************************************)
(* What every stage of the pipeline promises about frames, whatever it     *)
(* does with their pixels: frames go in numbered 0, 1, 2, ...; they come   *)
(* out in that order, each exactly once, with nothing skipped; at most     *)
(* Capacity of them are inside; and a stage that ends well ends empty,     *)
(* while one that is stopped or fails abandons what is still inside.       *)
(*                                                                         *)
(* The buffered run loop (Lookahead), the NV12 readback ring               *)
(* (Nv12Readback) and the encode thread (AsyncEncode) are each checked to  *)
(* implement this specification.                                           *)
(***************************************************************************)
EXTENDS Integers

CONSTANT Capacity     \* the most frames the stage may hold

VARIABLES
    entered,    \* frames accepted so far: the next one in has this number
    out,        \* the number of the last frame that came out, -1 for none
    state       \* "open", "drained" or "abandoned"

vars == <<entered, out, state>>

Inside == entered - out - 1

TypeOK ==
    /\ entered \in Nat
    /\ out \in Int
    /\ state \in {"open", "drained", "abandoned"}

Init ==
    /\ entered = 0
    /\ out = -1
    /\ state = "open"

Enter ==
    /\ state = "open"
    /\ Inside < Capacity
    /\ entered' = entered + 1
    /\ UNCHANGED <<out, state>>

Leave ==
    /\ state = "open"
    /\ Inside > 0
    /\ out' = out + 1
    /\ UNCHANGED <<entered, state>>

\* The stage ends with nothing left inside.
Drain ==
    /\ state = "open"
    /\ Inside = 0
    /\ state' = "drained"
    /\ UNCHANGED <<entered, out>>

\* The stage stops early: whatever is inside never comes out.
Abandon ==
    /\ state = "open"
    /\ state' = "abandoned"
    /\ UNCHANGED <<entered, out>>

Next == Enter \/ Leave \/ Drain \/ Abandon

Spec == Init /\ [][Next]_vars
==============================================================================
