------------------------------ MODULE Workflow ------------------------------
(***************************************************************************)
(* A declarative workflow from its definition to its end: the definition   *)
(* is validated when it is parsed, and only one that loads is handed to    *)
(* the executor (load_workflow_yaml, WorkflowStage).                       *)
(***************************************************************************)
EXTENDS WorkflowExecutor, WorkflowDag

ASSUME WorkflowRunAssumption == Ids = Steps

\* The definition the executor is about has been accepted.
Accepted == verdict = "loaded" /\ deps = Deps

Validate == DagNext /\ UNCHANGED vars

\* A step of the executor, or of the world around it, once the definition is loaded.
Run(A) == Accepted /\ A /\ UNCHANGED dagVars

WorkflowInit == Init /\ DagInit

WorkflowSpec ==
    /\ WorkflowInit
    /\ [][Validate \/ Run(Next)]_<<vars, dagVars>>

\* The fairness of the validator's loop and of the executor.
FairWorkflowSpec ==
    /\ WorkflowSpec
    /\ WF_<<vars, dagVars>>(Validate)
    /\ WF_<<vars, dagVars>>(Run(Drive))
    /\ WF_<<vars, dagVars>>(Run(Wake))
    /\ WF_<<vars, dagVars>>(Run(OpenGate))
    /\ WF_<<vars, dagVars>>(Run(\E t \in tasks, o \in Outputs : WorkerRuns(t, o)))

-----------------------------------------------------------------------------
\* The validator decides on every definition; the one it accepts is executed to its end,
\* unless the run is left waiting for a person: for an approval that is never resolved or,
\* after a crash, for a resume.
RunsToItsEnd == Decided /\ (deps = Deps => Completes)

=============================================================================
