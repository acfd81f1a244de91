----------------------------- MODULE RunContract -----------------------------
(***************************************************************************)
(* What the run lifecycle promises of one durable run, whatever the number *)
(* of processes that may drive it: it is driven by one of them, or parked, *)
(* or over; its completed stages grow one at a time and only while it is   *)
(* driven; a parked run is woken by one process; a run that is over is     *)
(* never driven again.                                                     *)
(***************************************************************************)
EXTENDS Integers

CONSTANT NumStages

VARIABLES
    mode,  \* "new", "driven", "parked" or "over"
    done   \* completed and checkpointed stages

vars == <<mode, done>>

Init == mode = "new" /\ done = 0

Begin == mode = "new" /\ mode' = "driven" /\ UNCHANGED done

Advance ==
    /\ mode = "driven"
    /\ done < NumStages
    /\ done' = done + 1
    /\ UNCHANGED mode

Park ==
    /\ mode = "driven"
    /\ done < NumStages
    /\ mode' = "parked"
    /\ UNCHANGED done

Wake == mode = "parked" /\ mode' = "driven" /\ UNCHANGED done

\* The run finishes, is denied or cancelled, or the process that owns it dies.
Stop == mode \in {"driven", "parked"} /\ mode' = "over" /\ UNCHANGED done

Next == Begin \/ Advance \/ Park \/ Wake \/ Stop

Spec == Init /\ [][Next]_vars

=============================================================================
