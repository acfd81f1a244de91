-------------------------- MODULE WorkflowExecutor --------------------------
(***************************************************************************)
(* WorkflowExecutor.run (workflows/executor.py) on one run: it refreshes   *)
(* the completed steps from the result store, sweeps the definition for    *)
(* steps that are ready, dispatches them, and parks the run on a gate or on*)
(* one outstanding step.  The run is checkpointed only when it parks, so a *)
(* crash in between brings back the state of the last wait; and it is      *)
(* checkpointed before its wakeup is scheduled, so a crash between the two *)
(* leaves the note of a wait that nobody will end.                         *)
(*                                                                         *)
(* What the lifecycle does with a parked run - the claim of its wakeup, the*)
(* single driver - is the subject of RunLifecycle; here a parked run is    *)
(* resumed from its checkpoint once its condition holds.                   *)
(***************************************************************************)
EXTENDS Integers, FiniteSets

CONSTANTS
    NumSteps,       \* length of definition.steps
    Deps,           \* depends_on of each step
    Reads,          \* steps that the templates in the input of each step name
    QueueSteps,     \* task steps dispatched to a worker's queue
    InProcess,      \* task steps run by an in-process subagent
    Gates,          \* steps of kind "gate"
    NeedsApproval,  \* task steps with approval.required
    Outputs,        \* what an agent may answer
    Passed,         \* the output of a gate
    None,           \* no output yet
    MaxCrashes      \* bound on the number of crashes

Steps == 1..NumSteps

ASSUME WorkflowAssumption ==
    /\ NumSteps \in Nat \ {0}
    /\ Deps \in [Steps -> SUBSET Steps]
    /\ Reads \in [Steps -> SUBSET Steps]
    \* what _validate_dag establishes (WorkflowDag, LoadedIsAcyclic)
    /\ \A S \in SUBSET Steps : S # {} => \E s \in S : Deps[s] \cap S = {}
    /\ QueueSteps \cup InProcess \cup Gates = Steps
    /\ QueueSteps \cap InProcess = {}
    /\ QueueSteps \cap Gates = {}
    /\ InProcess \cap Gates = {}
    /\ NeedsApproval \subseteq QueueSteps \cup InProcess
    /\ Passed \notin Outputs
    /\ None \notin Outputs \cup {Passed}
    /\ MaxCrashes \in Nat

VARIABLES
    pc,          \* where run() is
    mem,         \* sc.extras["workflow"] of the driving process
    ckpt,        \* the same in the latest checkpoint
    cursor,      \* the step the current loop visits
    progressed,  \* local variable of the sweep
    gate,        \* gate_to_wait, 0 if none
    wait,        \* the step the run is parked on, 0 if none
    tasks,       \* published tasks: a step and the inputs bound into its payload
    results,     \* the first result stored for each step
    executed,    \* tasks a worker has executed
    opened,      \* gates whose time has come or whose event was fired
    granted,     \* steps a human has approved
    crashes,
    slipped      \* gates whose noted wait a death left without a wakeup (history)

vars == <<pc, mem, ckpt, cursor, progressed, gate, wait, tasks, results,
          executed, opened, granted, crashes, slipped>>
loopVars == <<cursor, progressed, gate>>
envVars == <<results, executed, opened>>

Values == Outputs \cup {Passed, None}
States == [dispatched: SUBSET Steps, approved: SUBSET Steps, waited: SUBSET Steps,
           outputs: [Steps -> Values]]
NewState == [dispatched |-> {}, approved |-> {}, waited |-> {},
             outputs |-> [s \in Steps |-> None]]

Completed == {s \in Steps : mem.outputs[s] # None}
\* Mutant of Ready: one completed dependency is enough.
ReadySome(s) == s \notin Completed /\ (Deps[s] = {} \/ Deps[s] \cap Completed # {})

Ready(s) == s \notin Completed /\ Deps[s] \subseteq Completed
Pending == Steps \ Completed

\* _delegation, bind_templates: a template binds the output of the step it names,
\* whether or not that is a dependency, and None while there is no output.
Payload(s) == [d \in Reads[s] |-> mem.outputs[d]]

-----------------------------------------------------------------------------
\* The call of run(), on a fresh run or with the context of a checkpoint.
Enter ==
    /\ mem' = ckpt
    /\ pc' = "refresh"
    /\ cursor' = 1
    /\ progressed' = FALSE
    /\ gate' = 0
    /\ wait' = 0

\* One iteration of the refresh loop: queue-step completions come from the store.
Refresh ==
    /\ pc = "refresh"
    /\ mem' = IF mem.outputs[cursor] = None /\ results[cursor] # None
              THEN [mem EXCEPT !.outputs[cursor] = results[cursor]]
              ELSE mem
    /\ IF cursor < NumSteps
       THEN cursor' = cursor + 1 /\ UNCHANGED pc
       ELSE cursor' = 1 /\ pc' = "sweep"
    /\ UNCHANGED <<ckpt, progressed, gate, wait, tasks, envVars, granted, crashes, slipped>>

\* The end of one visit of the sweep: the next step, another pass, or the decision.
Advance(progress) ==
    IF cursor < NumSteps
    THEN cursor' = cursor + 1 /\ progressed' = progress /\ UNCHANGED pc
    ELSE /\ cursor' = 1
         /\ progressed' = FALSE
         /\ pc' = IF progress THEN "sweep" ELSE "decide"

\* The step is complete, waits for a dependency or was dispatched before.
Skip ==
    /\ pc = "sweep"
    /\ \/ ~Ready(cursor)
       \/ cursor \in QueueSteps /\ cursor \in mem.dispatched
          /\ (cursor \in NeedsApproval => cursor \in mem.approved)
    /\ Advance(progressed)
    /\ UNCHANGED <<mem, ckpt, gate, wait, tasks, envVars, granted, crashes, slipped>>

\* Mutant of VisitGate: a gate is passed without a wait.
VisitGateOpen ==
    /\ pc = "sweep"
    /\ cursor \in Gates
    /\ Ready(cursor)
    /\ mem' = [mem EXCEPT !.outputs[cursor] = Passed]
    /\ Advance(TRUE)
    /\ UNCHANGED <<ckpt, gate, wait, tasks, envVars, granted, crashes, slipped>>

\* A gate that was waited for is passed; the first one that was not is noted.
VisitGate ==
    /\ pc = "sweep"
    /\ cursor \in Gates
    /\ Ready(cursor)
    /\ \/ /\ cursor \in mem.waited
          /\ mem' = [mem EXCEPT !.outputs[cursor] = Passed]
          /\ Advance(TRUE)
          /\ UNCHANGED gate
       \/ /\ cursor \notin mem.waited
          /\ gate' = IF gate = 0 THEN cursor ELSE gate
          /\ Advance(progressed)
          /\ UNCHANGED mem
    /\ UNCHANGED <<ckpt, wait, tasks, envVars, granted, crashes, slipped>>

\* ApprovalGate.wait is called, and blocks the sweep until a human resolves it.
AskApproval ==
    /\ pc = "sweep"
    /\ cursor \in NeedsApproval
    /\ Ready(cursor)
    /\ cursor \notin mem.approved
    /\ pc' = "approving"
    /\ UNCHANGED <<mem, ckpt, loopVars, wait, tasks, envVars, granted, crashes, slipped>>

Approve ==
    /\ pc = "approving"
    /\ pc' = "sweep"
    /\ mem' = [mem EXCEPT !.approved = @ \cup {cursor}]
    /\ granted' = granted \cup {cursor}
    /\ UNCHANGED <<ckpt, loopVars, wait, tasks, envVars, crashes, slipped>>

\* ApprovalRequired fails the run.
Deny ==
    /\ pc = "approving"
    /\ pc' = "failed"
    /\ UNCHANGED <<mem, ckpt, loopVars, wait, tasks, envVars, granted, crashes, slipped>>

\* The coordinator runs the step in the process: its answer is the output.
RunInProcess(o) ==
    /\ pc = "sweep"
    /\ cursor \in InProcess
    /\ Ready(cursor)
    /\ cursor \in NeedsApproval => cursor \in mem.approved
    /\ mem' = [mem EXCEPT !.outputs[cursor] = o]
    /\ Advance(TRUE)
    /\ UNCHANGED <<ckpt, gate, wait, tasks, envVars, granted, crashes, slipped>>

\* Mutant of Dispatch: the step is not noted as dispatched.
DispatchForgets ==
    /\ pc = "sweep"
    /\ cursor \in QueueSteps
    /\ Ready(cursor)
    /\ cursor \in NeedsApproval => cursor \in mem.approved
    /\ cursor \notin mem.dispatched
    /\ tasks' = tasks \cup {<<cursor, Payload(cursor)>>}
    /\ Advance(progressed)
    /\ UNCHANGED <<mem, ckpt, gate, wait, envVars, granted, crashes, slipped>>

\* The coordinator publishes the task of a queue step.
Dispatch ==
    /\ pc = "sweep"
    /\ cursor \in QueueSteps
    /\ Ready(cursor)
    /\ cursor \in NeedsApproval => cursor \in mem.approved
    /\ cursor \notin mem.dispatched
    /\ tasks' = tasks \cup {<<cursor, Payload(cursor)>>}
    /\ mem' = [mem EXCEPT !.dispatched = @ \cup {cursor}]
    /\ Advance(progressed)
    /\ UNCHANGED <<ckpt, gate, wait, envVars, granted, crashes, slipped>>

\* The end of run(): wait for the gate, for the first outstanding step, or return.
Decide ==
    LET outstanding == Pending \cap mem.dispatched IN
    /\ pc = "decide"
    /\ \/ /\ gate # 0
          /\ mem' = [mem EXCEPT !.waited = @ \cup {gate}]
          /\ wait' = gate
          /\ pc' = "park"
       \/ /\ gate = 0
          /\ \E s \in outstanding : (\A t \in outstanding : s <= t) /\ wait' = s
          /\ pc' = "park"
          /\ UNCHANGED mem
       \/ /\ gate = 0
          /\ outstanding = {}
          /\ pc' = IF Pending = {} THEN "done" ELSE "stalled"
          /\ UNCHANGED <<mem, wait>>
    /\ UNCHANGED <<ckpt, loopVars, tasks, envVars, granted, crashes, slipped>>

\* Mutant of ParkSave: the run waits without a checkpoint of what it waits for.
ParkForgets ==
    /\ pc = "park"
    /\ pc' = "park_schedule"
    /\ UNCHANGED <<mem, ckpt, loopVars, wait, tasks, envVars, granted, crashes, slipped>>

\* DefaultL1 handles NeedsWait: the context is saved ...
ParkSave ==
    /\ pc = "park"
    /\ ckpt' = mem
    /\ pc' = "park_schedule"
    /\ UNCHANGED <<mem, loopVars, wait, tasks, envVars, granted, crashes, slipped>>

\* ... and then the wakeup is scheduled.
ParkSchedule ==
    /\ pc = "park_schedule"
    /\ pc' = "parked"
    /\ UNCHANGED <<mem, ckpt, loopVars, wait, tasks, envVars, granted, crashes, slipped>>

\* The wakeup is claimed and resume_run loads the checkpoint.
Wake ==
    /\ pc = "parked"
    /\ IF wait \in Gates THEN wait \in opened ELSE results[wait] # None
    /\ Enter
    /\ UNCHANGED <<ckpt, tasks, envVars, granted, crashes, slipped>>

-----------------------------------------------------------------------------
\* A worker executes a task; the store keeps the first result of a step.
WorkerRuns(t, o) ==
    /\ t \in tasks \ executed
    /\ executed' = executed \cup {t}
    /\ results' = [results EXCEPT ![t[1]] = IF @ = None THEN o ELSE @]
    /\ UNCHANGED <<pc, mem, ckpt, loopVars, wait, tasks, opened, granted, crashes, slipped>>

\* The timer of the gate the run waits for elapses, or its event is fired.
OpenGate ==
    /\ pc = "parked"
    /\ wait \in Gates \ opened
    /\ opened' = opened \cup {wait}
    /\ UNCHANGED <<pc, mem, ckpt, loopVars, wait, tasks, results, executed, granted, crashes, slipped>>

\* The driver dies; its context is gone.  Between the checkpoint and the wakeup this
\* leaves the note of a wait that was never scheduled.
Crash ==
    /\ pc \in {"refresh", "sweep", "approving", "decide", "park", "park_schedule"}
    /\ crashes < MaxCrashes
    /\ crashes' = crashes + 1
    /\ pc' = "crashed"
    /\ slipped' = IF pc = "park_schedule" /\ wait \in Gates THEN slipped \cup {wait} ELSE slipped
    /\ UNCHANGED <<mem, ckpt, loopVars, wait, tasks, envVars, granted>>

\* The operator resumes the run by hand, from its checkpoint.
Resume ==
    /\ pc = "crashed"
    /\ Enter
    /\ UNCHANGED <<ckpt, tasks, envVars, granted, crashes, slipped>>

Init ==
    /\ pc = "refresh"
    /\ mem = NewState
    /\ ckpt = NewState
    /\ cursor = 1
    /\ progressed = FALSE
    /\ gate = 0
    /\ wait = 0
    /\ tasks = {}
    /\ results = [s \in Steps |-> None]
    /\ executed = {}
    /\ opened = {}
    /\ granted = {}
    /\ crashes = 0
    /\ slipped = {}

Drive == Refresh \/ Skip \/ VisitGate \/ AskApproval \/ Dispatch \/ Decide
         \/ ParkSave \/ ParkSchedule \/ (\E o \in Outputs : RunInProcess(o))

Next ==
    \/ Drive
    \/ Approve
    \/ Deny
    \/ Wake
    \/ \E t \in tasks, o \in Outputs : WorkerRuns(t, o)
    \/ OpenGate
    \/ Crash
    \/ Resume

Spec == Init /\ [][Next]_vars

\* The driver is scheduled, workers consume, the gates are timers that elapse and a
\* wakeup that is due is claimed.  Nobody owes the run an approval or a resume by
\* hand.
Fairness ==
    /\ WF_vars(Drive)
    /\ WF_vars(Wake)
    /\ WF_vars(OpenGate)
    /\ WF_vars(\E t \in tasks, o \in Outputs : WorkerRuns(t, o))

FairSpec == Spec /\ Fairness

-----------------------------------------------------------------------------
\* The type of every variable.
TypeOK ==
    /\ pc \in {"refresh", "sweep", "approving", "decide", "park", "park_schedule",
               "parked", "done", "failed", "stalled", "crashed"}
    /\ mem \in States
    /\ ckpt \in States
    /\ cursor \in Steps
    /\ progressed \in BOOLEAN
    /\ gate \in Gates \cup {0}
    /\ wait \in Steps \cup {0}
    /\ results \in [Steps -> Outputs \cup {None}]
    /\ opened \subseteq Gates
    /\ granted \subseteq Steps
    /\ crashes \in 0..MaxCrashes
    /\ slipped \subseteq Gates

\* run() never reaches its "stalled" error: as long as steps are pending, a sweep
\* without progress leaves a gate to wait for or a dispatched step outstanding.
NeverStalls == pc # "stalled"

\* What a template binds is durable: the stored result of a queue step or the passage of
\* a gate - also after a crash and a resume.  Of a step it does not depend on it may find
\* nothing, of a dependency it always finds the output.
InputsAreDurable ==
    \A t \in tasks : \A d \in Reads[t[1]] :
        /\ d \in Deps[t[1]] => t[2][d] # None
        /\ d \in QueueSteps => t[2][d] \in {None, results[d]}
        /\ d \in Gates => t[2][d] \in {None, Passed}

\* A step that reads nothing but queue steps and gates it depends on is published under
\* one idempotency key, however often it is replayed: a worker executes it once.  Of any
\* other step a replay may publish a second task, under a key of its own: an in-process
\* step may answer differently, and a step that is no dependency may have answered since.
OneTaskPerStep ==
    \A t, u \in tasks :
        t[1] = u[1] /\ Reads[t[1]] \subseteq Deps[t[1]] \ InProcess => t[2] = u[2]

\* Nothing is published for a step that needs approval before a person granted it.
ApprovedFirst == \A t \in tasks : t[1] \in NeedsApproval => t[1] \in granted

\* A gate is passed only after it opened, in the context and in the checkpoint, or after a
\* death between the note of its wait and the wakeup; one death costs one gate at most.
GateOpened ==
    /\ \A g \in Gates :
          mem.outputs[g] # None \/ ckpt.outputs[g] # None => g \in opened \cup slipped
    /\ Cardinality(slipped) <= crashes

\* A run parked on a join waits for a task that is out.
WaitIsAnswered == pc = "parked" /\ wait \in QueueSteps => \E t \in tasks : t[1] = wait

\* The workflow gets through its graph, unless it is left waiting for a person: for
\* an approval that is never resolved or, after a crash, for a resume.
Completes ==
    \/ <>(pc \in {"done", "failed"})
    \/ <>[](pc \in {"approving", "crashed"})

-----------------------------------------------------------------------------
(* The executor implements WorkflowContract: a run that crashed goes on once it is  *)
(* resumed, and a stall would be no step of the contract.                           *)

Published == {t[1] : t \in tasks}
Settled == {s \in QueueSteps : results[s] # None} \cup opened
Phase == IF pc \in {"done", "failed", "stalled"} THEN pc ELSE "running"

Contract == INSTANCE WorkflowContract
                WITH published <- Published, settled <- Settled, phase <- Phase, deaths <- crashes

\* Over all crashes and replays nothing is published, waited for or put before a person
\* until all that precedes it in the graph has come true, and run() returns only when every
\* result is in, every gate has opened and every approval was granted.  The comment in run()
\* says of a gate noted as waited for that the waker fired; the contract has the one
\* exception, a death between the note and the wakeup, as an action of its own (Die).
ImplementsWorkflowContract == Contract!Spec

-----------------------------------------------------------------------------
(* The inductive invariant behind the safety properties.                     *)

\* What a context may claim: outputs that are durable facts, dispatches that took
\* place, approvals that were granted.
Sound(m) ==
    /\ \A s \in QueueSteps : m.outputs[s] = None \/ m.outputs[s] = results[s]
    /\ \A g \in Gates : m.outputs[g] = None \/ (m.outputs[g] = Passed /\ g \in opened \cup slipped)
    /\ m.dispatched \subseteq QueueSteps
    /\ \A s \in m.dispatched : \E t \in tasks : t[1] = s
    /\ m.approved \subseteq granted

Parking == {"park", "park_schedule", "parked"}

\* A gate noted as waited for has opened or slipped, or the run waits for it now.
WaitedInv ==
    /\ pc # "crashed" => \A g \in mem.waited : g \in opened \cup slipped \/ (pc \in Parking /\ g = wait)
    /\ \A g \in ckpt.waited : g \in opened \cup slipped \/ (pc \in Parking \ {"park"} /\ g = wait)
    /\ pc \in Parking => wait \in Gates \/ \E t \in tasks : t[1] = wait
    /\ mem.waited \subseteq Gates /\ ckpt.waited \subseteq Gates
    /\ IsFiniteSet(slipped) /\ Cardinality(slipped) <= crashes

\* Only queue steps have tasks and results; what a task was given stays true.
TaskInv ==
    /\ \A s \in Steps \ QueueSteps : results[s] = None
    /\ \A t \in tasks :
          /\ t[1] \in QueueSteps
          /\ t[1] \in NeedsApproval => t[1] \in granted
          /\ t[2] = [d \in Reads[t[1]] |-> t[2][d]]
          /\ \A d \in Reads[t[1]] :
                /\ d \in Deps[t[1]] => t[2][d] # None
                /\ d \in QueueSteps => t[2][d] \in {None, results[d]}
                /\ d \in Gates => t[2][d] \in {None, Passed}

\* A pass of the sweep without progress leaves no ready step behind.
Handled(s) == Ready(s) => s \in mem.dispatched \/ gate # 0
SweepInv ==
    /\ pc \in {"sweep", "approving"} /\ ~progressed => \A s \in Steps : s < cursor => Handled(s)
    /\ pc = "decide" => \A s \in Steps : Handled(s)
    /\ pc = "approving" => cursor \in NeedsApproval

\* The conjunction is inductive (see WorkflowProofs).
ExecInv ==
    /\ TypeOK
    /\ Sound(mem)
    /\ Sound(ckpt)
    /\ WaitedInv
    /\ TaskInv
    /\ SweepInv
    /\ NeverStalls

=============================================================================
