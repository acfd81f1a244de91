----------------------------- MODULE MCWorkflow -----------------------------
(* The workflow definitions for TLC.                                         *)
EXTENDS Workflow, TLC

CONSTANTS v1, v2, ghost

\* Listed against its dependencies: step 1 joins a gate (3) and a queue step (2), which
\* follows an in-process step (5); all follow step 4.  Step 6 is a gate that is ready
\* together with step 3.
Diamond ==
    (1 :> {2, 3}) @@ (2 :> {5}) @@ (3 :> {4}) @@ (4 :> {}) @@ (5 :> {4}) @@ (6 :> {4})

\* Step 1 reads what it depends on, step 2 its in-process dependency and a gate that it
\* does not depend on.
Templates ==
    (1 :> {2, 3}) @@ (2 :> {5, 6}) @@ (3 :> {}) @@ (4 :> {}) @@ (5 :> {4}) @@ (6 :> {})

StepsAndGhost == Steps \cup {ghost}

\* Every graph over three steps and one unknown name, with the other steps hanging on
\* them, and the one that is executed.
Written ==
    {[s \in Steps |-> IF s \in 1..3 THEN g[s] ELSE {s - 3}] : g \in [1..3 -> SUBSET {1, 2, 3, ghost}]}
    \cup {Diamond}

=============================================================================
