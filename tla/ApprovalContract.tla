-------------------------- MODULE ApprovalContract --------------------------
(***************************************************************************)
(* What an approval promises to the people who are asked and to the stage  *)
(* that waits for them: nobody is heard before the question is put, only   *)
(* people with a required role count towards a quorum and each of them     *)
(* once, the stage ends once, and how it ends is what they said.  A denial *)
(* in a required role should fail the approval; Overrule is where it does  *)
(* not.                                                                    *)
(*                                                                         *)
(* Neither the row nor the event nor the deadline is visible here: how a   *)
(* verdict travels is ApprovalGate's matter.                               *)
(***************************************************************************)
EXTENDS Integers, FiniteSets

CONSTANTS Principals, RolesOf, Requests

VARIABLES
    request,     \* the roles and the number of parties that are required
    stage,       \* "idle", "asked", and then how it ended
    supporters,  \* people who approved in their role
    opposed,     \* people who denied in their role
    said,        \* verdicts that were spoken
    single,      \* verdicts of people who resolved the approval on their own
    status       \* of the run

vars == <<request, stage, supporters, opposed, said, single, status>>

RoleBound == request.roles # {}

\* What it takes to go on: a quorum, or a word of somebody who may decide alone.
Mandate ==
    /\ "approved" \in said
    /\ RoleBound => "approved" \in single \/ Cardinality(supporters) >= request.parties

Init ==
    /\ request \in Requests
    /\ stage = "idle"
    /\ supporters = {} /\ opposed = {} /\ said = {} /\ single = {}
    /\ status = "running"

Ask ==
    /\ stage = "idle"
    /\ stage' = "asked"
    /\ UNCHANGED <<request, supporters, opposed, said, single, status>>

\* People may also speak when it is too late.
Support(p) ==
    /\ stage # "idle"
    /\ RolesOf[p] \cap request.roles # {}
    /\ supporters' = supporters \cup {p}
    /\ said' = said \cup {"approved"}
    /\ UNCHANGED <<request, stage, opposed, single, status>>

Object(p) ==
    /\ stage # "idle"
    /\ RolesOf[p] \cap request.roles # {}
    /\ opposed' = opposed \cup {p}
    /\ said' = said \cup {"denied"}
    /\ UNCHANGED <<request, stage, supporters, single, status>>

\* Somebody decides alone: no role is asked for, or the resolver does not know which.
Decide(verdict) ==
    /\ stage # "idle"
    /\ said' = said \cup {verdict}
    /\ single' = single \cup {verdict}
    /\ UNCHANGED <<request, stage, supporters, opposed, status>>

Close(outcome) ==
    /\ stage = "asked"
    /\ outcome = "granted" => Mandate /\ opposed = {}
    /\ outcome = "denied" => "denied" \in said
    /\ outcome = "timeout" => request.timeout
    /\ stage' = outcome
    /\ UNCHANGED <<request, supporters, opposed, said, single, status>>

\* The exception: between a denial and the next look of the stage the last word counts, in
\* the gate and in the row.  A quorum that is complete then, or a word of somebody who may
\* decide alone, goes over the denial.
Overrule ==
    /\ stage = "asked"
    /\ Mandate /\ opposed # {}
    /\ stage' = "granted"
    /\ UNCHANGED <<request, supporters, opposed, said, single, status>>

\* Only a denial fails the run.
Fail ==
    /\ stage = "denied"
    /\ status' = "failed"
    /\ UNCHANGED <<request, stage, supporters, opposed, said, single>>

Next ==
    \/ Ask \/ Fail \/ Overrule
    \/ \E p \in Principals : Support(p) \/ Object(p)
    \/ \E v \in {"approved", "denied"} : Decide(v)
    \/ \E o \in {"granted", "denied", "timeout"} : Close(o)

Spec == Init /\ [][Next]_vars
=============================================================================
