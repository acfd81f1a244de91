--------------------------- MODULE WorkflowProofs ---------------------------
(***************************************************************************)
(* Proofs about declarative workflows: the validator is right about every  *)
(* graph, what it loads is what the executor assumes, and the executor is  *)
(* safe for every definition that loads and implements WorkflowContract.   *)
(***************************************************************************)
EXTENDS Workflow, FiniteSetTheorems, TLAPS

\* Steps are positive; a queue step, an in-process step or a gate is a step.
LEMMA StepFacts ==
    /\ Steps \subseteq Nat \ {0}
    /\ NumSteps \in Steps /\ 1 \in Steps
    /\ QueueSteps \subseteq Steps /\ InProcess \subseteq Steps /\ Gates \subseteq Steps
    /\ \A s \in Steps : s <= NumSteps
    /\ \A s \in Steps : s < NumSteps => s + 1 \in Steps
    /\ \A s \in Steps : ~(s < NumSteps) => s = NumSteps
  BY WorkflowAssumption DEF Steps

\* A context that changes one output, its approvals or its waits is a context.
LEMMA StateFacts ==
    ASSUME NEW m \in States, NEW s \in Steps, NEW v \in Values
    PROVE  /\ m.outputs \in [Steps -> Values]
           /\ m.dispatched \subseteq Steps /\ m.approved \subseteq Steps /\ m.waited \subseteq Steps
           /\ [m EXCEPT !.outputs[s] = v] \in States
           /\ [m EXCEPT !.dispatched = @ \cup {s}] \in States
           /\ [m EXCEPT !.approved = @ \cup {s}] \in States
           /\ [m EXCEPT !.waited = @ \cup {s}] \in States
  BY DEF States

\* Where a visit of the sweep leads to.
LEMMA AdvanceFacts ==
    ASSUME cursor \in Steps, pc = "sweep", NEW b \in BOOLEAN, Advance(b)
    PROVE  /\ cursor' \in Steps
           /\ progressed' \in BOOLEAN
           /\ pc' \in {"sweep", "decide"}
  <1>1. CASE cursor < NumSteps
    BY <1>1, StepFacts DEF Advance
  <1>2. CASE ~(cursor < NumSteps)
    BY <1>2, StepFacts DEF Advance
  <1> QED
    BY <1>1, <1>2

\* Every action keeps the variables in their types.
LEMMA TypeStep == TypeOK /\ SweepInv /\ TaskInv /\ Sound(mem) /\ [Next]_vars => TypeOK'
  <1> SUFFICES ASSUME TypeOK, SweepInv, TaskInv, Sound(mem), [Next]_vars PROVE TypeOK'
    OBVIOUS
  <1> USE WorkflowAssumption, StepFacts DEF TypeOK, envVars, loopVars, Values
  <1>1. CASE Refresh
    <2>1. mem' \in States
      BY <1>1, StateFacts DEF Refresh
    <2> QED
      BY <1>1, <2>1 DEF Refresh
  <1>2. CASE Skip
    BY <1>2, AdvanceFacts DEF Skip
  <1>3. CASE VisitGate
    <2>1. mem' = mem \/ mem' = [mem EXCEPT !.outputs[cursor] = Passed]
      BY <1>3 DEF VisitGate
    <2>2. [mem EXCEPT !.outputs[cursor] = Passed] \in States
      BY StateFacts
    <2>3. mem' \in States
      BY <2>1, <2>2
    <2> QED
      BY <1>3, <2>3, AdvanceFacts DEF VisitGate
  <1>4. CASE AskApproval
    BY <1>4 DEF AskApproval
  <1>5. ASSUME NEW o \in Outputs, RunInProcess(o) PROVE TypeOK'
    <2>1. mem' \in States
      BY <1>5, StateFacts DEF RunInProcess
    <2> QED
      BY <1>5, <2>1, AdvanceFacts DEF RunInProcess
  <1>6. CASE Dispatch
    <2>1. mem' \in States
      BY <1>6, StateFacts DEF Dispatch
    <2> QED
      BY <1>6, <2>1, AdvanceFacts DEF Dispatch
  <1>7. CASE Decide
    <2>1. mem' \in States
      <3>1. CASE gate = 0
        BY <1>7, <3>1 DEF Decide
      <3>2. CASE gate # 0
        <4>1. [mem EXCEPT !.waited = @ \cup {gate}] \in States
          BY <3>2, StateFacts
        <4> QED
          BY <1>7, <3>2, <4>1 DEF Decide
      <3> QED
        BY <3>1, <3>2
    <2>2. wait' \in Steps \cup {0}
      BY <1>7, StateFacts DEF Decide, Pending
    <2> QED
      BY <1>7, <2>1, <2>2 DEF Decide
  <1>8. CASE ParkSave \/ ParkSchedule
    BY <1>8 DEF ParkSave, ParkSchedule
  <1>9. CASE Approve
    <2>1. mem' \in States
      BY <1>9, StateFacts DEF Approve
    <2> QED
      BY <1>9, <2>1 DEF Approve
  <1>10. CASE Deny
    BY <1>10 DEF Deny
  <1>11. CASE Wake
    BY <1>11 DEF Wake, Enter
  <1>12. ASSUME NEW t \in tasks, NEW o \in Outputs, WorkerRuns(t, o) PROVE TypeOK'
    BY <1>12 DEF WorkerRuns, TaskInv
  <1>13. CASE OpenGate
    BY <1>13 DEF OpenGate
  <1>14. CASE Crash
    BY <1>14 DEF Crash
  <1>15. CASE Resume
    BY <1>15 DEF Resume, Enter
  <1>16. CASE UNCHANGED vars
    BY <1>16 DEF vars
  <1> QED
    BY <1>1, <1>2, <1>3, <1>4, <1>5, <1>6, <1>7, <1>8, <1>9, <1>10, <1>11, <1>12,
       <1>13, <1>14, <1>15, <1>16 DEF Next, Drive

\* A context claims only what is durable, and what is durable stays.
LEMMA SoundStep == TypeOK /\ Sound(mem) /\ Sound(ckpt) /\ WaitedInv /\ TaskInv /\ SweepInv /\ [Next]_vars => (Sound(mem) /\ Sound(ckpt))'
  <1> SUFFICES ASSUME TypeOK, Sound(mem), Sound(ckpt), WaitedInv, TaskInv, SweepInv, [Next]_vars PROVE (Sound(mem) /\ Sound(ckpt))'
    OBVIOUS
  <1> USE WorkflowAssumption, StepFacts
      DEF TypeOK, States, Values, Sound, envVars, loopVars
  <1>1. CASE Refresh
    <2>1. CASE mem' = mem
      BY <1>1, <2>1 DEF Refresh
    <2>2. CASE mem' # mem
      <3>1. results[cursor] # None /\ mem' = [mem EXCEPT !.outputs[cursor] = results[cursor]]
        BY <1>1, <2>2 DEF Refresh
      <3>2. cursor \in QueueSteps
        BY <3>1 DEF TaskInv
      <3>3. mem'.outputs = [mem.outputs EXCEPT ![cursor] = results[cursor]]
        BY <3>1
      <3>4. mem'.dispatched = mem.dispatched /\ mem'.approved = mem.approved
        BY <3>1
      <3> QED
        BY <1>1, <3>2, <3>3, <3>4 DEF Refresh
    <2> QED
      BY <2>1, <2>2
  <1>2. CASE Skip
    BY <1>2 DEF Skip
  <1>3. CASE VisitGate
    <2>1. CASE mem' = mem
      BY <1>3, <2>1 DEF VisitGate
    <2>2. CASE mem' # mem
      <3>1. cursor \in mem.waited /\ cursor \in Gates /\ mem' = [mem EXCEPT !.outputs[cursor] = Passed]
        BY <1>3, <2>2 DEF VisitGate
      <3>2. cursor \in opened \cup slipped
        BY <1>3, <3>1 DEF VisitGate, WaitedInv, Parking
      <3>3. mem'.outputs = [mem.outputs EXCEPT ![cursor] = Passed]
        BY <3>1
      <3>4. mem'.dispatched = mem.dispatched /\ mem'.approved = mem.approved
        BY <3>1
      <3> QED
        BY <1>3, <3>1, <3>2, <3>3, <3>4 DEF VisitGate
    <2> QED
      BY <2>1, <2>2
  <1>4. CASE AskApproval
    BY <1>4 DEF AskApproval
  <1>5. ASSUME NEW o \in Outputs, RunInProcess(o) PROVE (Sound(mem) /\ Sound(ckpt))'
    BY <1>5 DEF RunInProcess
  <1>6. CASE Dispatch
    <2>1. /\ mem'.outputs = mem.outputs /\ mem'.approved = mem.approved
          /\ mem'.dispatched = mem.dispatched \cup {cursor}
      BY <1>6 DEF Dispatch
    <2>2. \E t \in tasks' : t[1] = cursor
      <3>1. <<cursor, Payload(cursor)>> \in tasks'
        BY <1>6 DEF Dispatch
      <3>2. <<cursor, Payload(cursor)>>[1] = cursor
        OBVIOUS
      <3> QED
        BY <3>1, <3>2
    <2>3. tasks \subseteq tasks' /\ cursor \in QueueSteps
      BY <1>6 DEF Dispatch
    <2> QED
      BY <1>6, <2>1, <2>2, <2>3 DEF Dispatch
  <1>7. CASE Decide
    BY <1>7 DEF Decide
  <1>8. CASE ParkSave \/ ParkSchedule
    BY <1>8 DEF ParkSave, ParkSchedule
  <1>9. CASE Approve
    BY <1>9 DEF Approve
  <1>10. CASE Deny
    BY <1>10 DEF Deny
  <1>11. CASE Wake
    BY <1>11 DEF Wake, Enter
  <1>12. ASSUME NEW t \in tasks, NEW o \in Outputs, WorkerRuns(t, o) PROVE (Sound(mem) /\ Sound(ckpt))'
    BY <1>12 DEF WorkerRuns, TaskInv
  <1>13. CASE OpenGate
    BY <1>13 DEF OpenGate
  <1>14. CASE Crash
    BY <1>14 DEF Crash
  <1>15. CASE Resume
    BY <1>15 DEF Resume, Enter
  <1>16. CASE UNCHANGED vars
    BY <1>16 DEF vars
  <1> QED
    BY <1>1, <1>2, <1>3, <1>4, <1>5, <1>6, <1>7, <1>8, <1>9, <1>10, <1>11, <1>12,
       <1>13, <1>14, <1>15, <1>16 DEF Next, Drive

\* A set that gains an element gains one at most.
LEMMA OneMore ==
    ASSUME NEW S, IsFiniteSet(S), NEW x
    PROVE  /\ IsFiniteSet(S \cup {x})
           /\ Cardinality(S \cup {x}) <= Cardinality(S) + 1
           /\ Cardinality(S \cup {x}) \in Nat /\ Cardinality(S) \in Nat
  <1>1. IsFiniteSet(S \cup {x})
    BY FS_AddElement
  <1>2. Cardinality(S) \in Nat /\ Cardinality(S \cup {x}) \in Nat
    BY <1>1, FS_CardinalityType
  <1>3. Cardinality(S \cup {x}) = Cardinality(S) \/ Cardinality(S \cup {x}) = Cardinality(S) + 1
    BY FS_AddElement
  <1> QED
    BY <1>1, <1>2, <1>3

\* A gate is noted as waited for when the run parks on it, and passed after its wake.
LEMMA WaitedStep == TypeOK /\ Sound(mem) /\ WaitedInv /\ TaskInv /\ [Next]_vars => WaitedInv'
  <1> SUFFICES ASSUME TypeOK, Sound(mem), WaitedInv, TaskInv, [Next]_vars PROVE WaitedInv'
    OBVIOUS
  <1> USE WorkflowAssumption, StepFacts
      DEF TypeOK, States, Values, WaitedInv, Parking, envVars, loopVars
  <1>1. CASE Refresh
    BY <1>1 DEF Refresh
  <1>2. CASE Skip
    BY <1>2, AdvanceFacts DEF Skip
  <1>3. CASE VisitGate
    <2>1. mem'.waited = mem.waited
      <3>1. mem' = mem \/ mem' = [mem EXCEPT !.outputs[cursor] = Passed]
        BY <1>3 DEF VisitGate
      <3> QED
        BY <3>1
    <2>2. \E b \in BOOLEAN : Advance(b)
      BY <1>3 DEF VisitGate
    <2>3. pc' \in {"sweep", "decide"}
      BY <1>3, <2>2, AdvanceFacts DEF VisitGate
    <2> QED
      BY <1>3, <2>1, <2>3 DEF VisitGate
  <1>4. CASE AskApproval
    BY <1>4 DEF AskApproval
  <1>5. ASSUME NEW o \in Outputs, RunInProcess(o) PROVE WaitedInv'
    BY <1>5, AdvanceFacts DEF RunInProcess
  <1>6. CASE Dispatch
    <2>1. mem'.waited = mem.waited /\ pc' \in {"sweep", "decide"}
      BY <1>6, AdvanceFacts DEF Dispatch
    <2> QED
      BY <1>6, <2>1 DEF Dispatch
  <1>7. CASE Decide
    BY <1>7 DEF Decide, Sound, Pending
  <1>8. CASE ParkSave \/ ParkSchedule
    <2>1. CASE ParkSave
      <3>1. pc' = "park_schedule" /\ mem' = mem /\ ckpt' = mem /\ pc = "park" /\ wait' = wait
        BY <2>1 DEF ParkSave
      <3>2. UNCHANGED <<opened, slipped, crashes, tasks>>
        BY <2>1 DEF ParkSave
      <3> QED
        BY <3>1, <3>2
    <2>2. CASE ParkSchedule
      <3>1. pc' = "parked" /\ pc = "park_schedule" /\ UNCHANGED <<mem, ckpt, wait>>
        BY <2>2 DEF ParkSchedule
      <3>2. UNCHANGED <<opened, slipped, crashes, tasks>>
        BY <2>2 DEF ParkSchedule
      <3> QED
        BY <3>1, <3>2
    <2> QED
      BY <1>8, <2>1, <2>2
  <1>9. CASE Approve
    BY <1>9 DEF Approve
  <1>10. CASE Deny
    BY <1>10 DEF Deny
  <1>11. CASE Wake
    BY <1>11 DEF Wake, Enter
  <1>12. ASSUME NEW t \in tasks, NEW o \in Outputs, WorkerRuns(t, o) PROVE WaitedInv'
    BY <1>12 DEF WorkerRuns
  <1>13. CASE OpenGate
    BY <1>13 DEF OpenGate
  <1>14. CASE Crash
    <2>1. IsFiniteSet(slipped') /\ Cardinality(slipped') <= crashes'
      <3>1. /\ IsFiniteSet(slipped \cup {wait})
            /\ Cardinality(slipped \cup {wait}) <= Cardinality(slipped) + 1
            /\ Cardinality(slipped \cup {wait}) \in Nat /\ Cardinality(slipped) \in Nat
        BY OneMore
      <3>2. slipped' = slipped \/ slipped' = slipped \cup {wait}
        BY <1>14 DEF Crash
      <3>3. crashes' = crashes + 1 /\ crashes \in Nat
        BY <1>14 DEF Crash
      <3>4. Cardinality(slipped) <= crashes
        OBVIOUS
      <3>5. CASE slipped' = slipped
        BY <3>1, <3>3, <3>4, <3>5
      <3>6. CASE slipped' = slipped \cup {wait}
        BY <3>1, <3>3, <3>4, <3>6
      <3> QED
        BY <3>2, <3>5, <3>6
    <2>2. \A g \in ckpt'.waited : g \in opened' \cup slipped'
      BY <1>14 DEF Crash
    <2> QED
      BY <1>14, <2>1, <2>2 DEF Crash
  <1>15. CASE Resume
    BY <1>15 DEF Resume, Enter
  <1>16. CASE UNCHANGED vars
    BY <1>16 DEF vars
  <1> QED
    BY <1>1, <1>2, <1>3, <1>4, <1>5, <1>6, <1>7, <1>8, <1>9, <1>10, <1>11, <1>12,
       <1>13, <1>14, <1>15, <1>16 DEF Next, Drive

\* A task is published with the durable outputs of the steps its templates name.
LEMMA TaskStep == TypeOK /\ Sound(mem) /\ TaskInv /\ [Next]_vars => TaskInv'
  <1> SUFFICES ASSUME TypeOK, Sound(mem), TaskInv, [Next]_vars PROVE TaskInv'
    OBVIOUS
  <1> USE WorkflowAssumption, StepFacts
      DEF TypeOK, States, Values, TaskInv, envVars, loopVars
  <1>1. CASE Refresh
    BY <1>1 DEF Refresh
  <1>2. CASE Skip
    BY <1>2 DEF Skip
  <1>3. CASE VisitGate
    BY <1>3 DEF VisitGate
  <1>4. CASE AskApproval
    BY <1>4 DEF AskApproval
  <1>5. ASSUME NEW o \in Outputs, RunInProcess(o) PROVE TaskInv'
    BY <1>5 DEF RunInProcess
  <1>6. CASE Dispatch
    <2> DEFINE new == <<cursor, Payload(cursor)>>
    <2>1. tasks' = tasks \cup {new} /\ cursor \in QueueSteps /\ Deps[cursor] \subseteq Completed
      BY <1>6 DEF Dispatch, Ready
    <2>2. new[1] = cursor /\ new[2] = [d \in Reads[cursor] |-> mem.outputs[d]]
      BY DEF Payload
    <2>3. \A d \in Reads[cursor] :
             /\ d \in Deps[cursor] => mem.outputs[d] # None
             /\ d \in QueueSteps => mem.outputs[d] \in {None, results[d]}
             /\ d \in Gates => mem.outputs[d] \in {None, Passed}
      BY <2>1 DEF Completed, Sound
    <2>4. cursor \in NeedsApproval => cursor \in granted
      BY <1>6 DEF Dispatch, Sound
    <2>5. results' = results /\ granted' = granted
      BY <1>6 DEF Dispatch
    <2> HIDE DEF new
    <2>6. ASSUME NEW u \in tasks'
          PROVE  /\ u[1] \in QueueSteps
                 /\ u[1] \in NeedsApproval => u[1] \in granted
                 /\ u[2] = [d \in Reads[u[1]] |-> u[2][d]]
                 /\ \A d \in Reads[u[1]] :
                       /\ d \in Deps[u[1]] => u[2][d] # None
                       /\ d \in QueueSteps => u[2][d] \in {None, results[d]}
                       /\ d \in Gates => u[2][d] \in {None, Passed}
      <3>1. CASE u \in tasks
        BY <3>1
      <3>2. CASE u = new
        <4>1. \A d \in Reads[cursor] : u[2][d] = mem.outputs[d]
          BY <2>2, <3>2
        <4>2. u[1] = cursor /\ u[2] = [d \in Reads[cursor] |-> u[2][d]]
          BY <2>2, <3>2, <4>1
        <4> QED
          BY <2>1, <2>3, <2>4, <4>1, <4>2
      <3> QED
        BY <2>1, <3>1, <3>2
    <2> QED
      BY <2>5, <2>6
  <1>7. CASE Decide
    BY <1>7 DEF Decide
  <1>8. CASE ParkSave \/ ParkSchedule
    BY <1>8 DEF ParkSave, ParkSchedule
  <1>9. CASE Approve
    BY <1>9 DEF Approve
  <1>10. CASE Deny
    BY <1>10 DEF Deny
  <1>11. CASE Wake
    <2>1. tasks' = tasks /\ results' = results /\ granted' = granted
      BY <1>11 DEF Wake
    <2> QED
      BY <2>1
  <1>12. ASSUME NEW t \in tasks, NEW o \in Outputs, WorkerRuns(t, o) PROVE TaskInv'
    <2>1. t[1] \in QueueSteps /\ tasks' = tasks /\ granted' = granted
      BY <1>12 DEF WorkerRuns
    <2>2. \A d \in Steps : results[d] # None => results'[d] = results[d]
      BY <1>12, <2>1 DEF WorkerRuns
    <2>3. \A d \in Steps \ QueueSteps : results'[d] = None
      BY <1>12, <2>1 DEF WorkerRuns
    <2>4. ASSUME NEW u \in tasks, NEW d \in Reads[u[1]] PROVE d \in QueueSteps => u[2][d] \in {None, results'[d]}
      <3>1. u[1] \in Steps /\ d \in Steps
        OBVIOUS
      <3>2. d \in QueueSteps => u[2][d] = None \/ u[2][d] = results[d]
        OBVIOUS
      <3> QED
        BY <2>2, <3>1, <3>2
    <2> QED
      BY <2>1, <2>3, <2>4
  <1>13. CASE OpenGate
    BY <1>13 DEF OpenGate
  <1>14. CASE Crash
    BY <1>14 DEF Crash
  <1>15. CASE Resume
    BY <1>15 DEF Resume, Enter
  <1>16. CASE UNCHANGED vars
    BY <1>16 DEF vars
  <1> QED
    BY <1>1, <1>2, <1>3, <1>4, <1>5, <1>6, <1>7, <1>8, <1>9, <1>10, <1>11, <1>12,
       <1>13, <1>14, <1>15, <1>16 DEF Next, Drive

\* A visit that made progress starts another pass; one that did not has handled
\* its step and undone no other.
LEMMA VisitHandled ==
    ASSUME TypeOK, SweepInv, pc = "sweep", NEW b \in BOOLEAN, Advance(b),
           \/ b
           \/ /\ b = progressed
              /\ \A s \in Steps : Handled(s) => Handled(s)'
              /\ \A s \in Steps : s = cursor => Handled(s)'
    PROVE  (SweepInv /\ NeverStalls)'
  <1> USE StepFacts DEF TypeOK, SweepInv, NeverStalls
  <1>1. CASE b
    <2>1. CASE cursor < NumSteps
      BY <1>1, <2>1 DEF Advance
    <2>2. CASE ~(cursor < NumSteps)
      BY <1>1, <2>2 DEF Advance
    <2> QED
      BY <2>1, <2>2
  <1>2. CASE ~b
    <2>1. \A s \in Steps : s < cursor \/ s = cursor => Handled(s)'
      BY <1>2
    <2>2. CASE cursor < NumSteps
      <3>1. cursor' = cursor + 1 /\ pc' = "sweep"
        BY <2>2 DEF Advance
      <3>2. \A s \in Steps : s < cursor' => s < cursor \/ s = cursor
        BY <3>1
      <3> QED
        BY <2>1, <3>1, <3>2
    <2>3. CASE ~(cursor < NumSteps)
      <3>1. pc' = "decide" /\ cursor = NumSteps
        BY <1>2, <2>3 DEF Advance
      <3>2. \A s \in Steps : s < cursor \/ s = cursor
        BY <3>1
      <3> QED
        BY <2>1, <3>1, <3>2
    <2> QED
      BY <2>2, <2>3
  <1> QED
    BY <1>1, <1>2

\* A visit that completes nothing leaves its step dispatched, waiting or gated, so the
\* source of the pending steps is outstanding when the sweep ends: run() cannot stall.
LEMMA SweepStep == TypeOK /\ Sound(mem) /\ SweepInv /\ NeverStalls /\ [Next]_vars => (SweepInv /\ NeverStalls)'
  <1> SUFFICES ASSUME TypeOK, Sound(mem), SweepInv, NeverStalls, [Next]_vars PROVE (SweepInv /\ NeverStalls)'
    OBVIOUS
  <1> USE WorkflowAssumption, StepFacts
      DEF envVars, loopVars
  <1>1. CASE Refresh
    BY <1>1 DEF Refresh, TypeOK, States, SweepInv, NeverStalls, Handled, Ready, Completed
  <1>2. CASE Skip
    <2>1. mem' = mem /\ gate' = gate /\ Advance(progressed) /\ pc = "sweep"
      BY <1>2 DEF Skip
    <2>2. \A s \in Steps : Handled(s) => Handled(s)'
      BY <2>1 DEF Handled, Ready, Completed
    <2>3. \A s \in Steps : s = cursor => Handled(s)'
      BY <1>2, <2>1 DEF Skip, Handled, Ready, Completed
    <2>4. progressed \in BOOLEAN
      BY DEF TypeOK
    <2> QED
      BY <2>1, <2>2, <2>3, <2>4, VisitHandled
  <1>3. CASE VisitGate
    <2>1. CASE Advance(TRUE)
      BY <1>3, <2>1, VisitHandled DEF VisitGate
    <2>2. CASE ~Advance(TRUE)
      <3>1. Advance(progressed) /\ pc = "sweep" /\ gate' # 0
        BY <1>3, <2>2, StepFacts DEF VisitGate
      <3>2. \A s \in Steps : Handled(s)'
        BY <3>1 DEF Handled
      <3>3. progressed \in BOOLEAN /\ cursor \in Steps
        BY DEF TypeOK
      <3> QED
        BY <3>1, <3>2, <3>3, VisitHandled
    <2> QED
      BY <2>1, <2>2
  <1>4. CASE AskApproval
    BY <1>4 DEF AskApproval, TypeOK, States, SweepInv, NeverStalls, Handled, Ready, Completed
  <1>5. ASSUME NEW o \in Outputs, RunInProcess(o) PROVE (SweepInv /\ NeverStalls)'
    BY <1>5, VisitHandled DEF RunInProcess
  <1>6. CASE Dispatch
    <2>1. /\ mem'.outputs = mem.outputs /\ mem'.dispatched = mem.dispatched \cup {cursor}
          /\ gate' = gate /\ Advance(progressed) /\ pc = "sweep"
      BY <1>6 DEF Dispatch, TypeOK, States
    <2>2. \A s \in Steps : Handled(s) => Handled(s)'
      BY <2>1 DEF Handled, Ready, Completed
    <2>3. \A s \in Steps : s = cursor => Handled(s)'
      BY <2>1 DEF Handled
    <2>4. progressed \in BOOLEAN
      BY DEF TypeOK
    <2> QED
      BY <2>1, <2>2, <2>3, <2>4, VisitHandled
  <1>7. CASE Decide
    <2>1. pc = "decide" /\ \A s \in Steps : Handled(s)
      BY <1>7 DEF Decide, SweepInv
    <2>2. ASSUME gate = 0, Pending # {} PROVE Pending \cap mem.dispatched # {}
      <3>1. PICK s \in Pending : Deps[s] \cap Pending = {}
        BY <2>2 DEF Pending
      <3>2. Ready(s)
        BY <3>1 DEF Pending, Ready, Completed
      <3> QED
        BY <2>1, <2>2, <3>1, <3>2 DEF Handled, Pending
    <2>3. pc' \in {"park", "done"}
      BY <1>7, <2>2 DEF Decide
    <2> QED
      BY <2>3 DEF SweepInv, NeverStalls
  <1>8. CASE ParkSave \/ ParkSchedule
    BY <1>8 DEF ParkSave, ParkSchedule, TypeOK, States, SweepInv, NeverStalls, Handled, Ready, Completed
  <1>9. CASE Approve
    BY <1>9 DEF Approve, TypeOK, States, SweepInv, NeverStalls, Handled, Ready, Completed
  <1>10. CASE Deny
    BY <1>10 DEF Deny, TypeOK, States, SweepInv, NeverStalls, Handled, Ready, Completed
  <1>11. CASE Wake
    BY <1>11 DEF Wake, Enter, TypeOK, States, SweepInv, NeverStalls, Handled, Ready, Completed
  <1>12. ASSUME NEW t \in tasks, NEW o \in Outputs, WorkerRuns(t, o) PROVE (SweepInv /\ NeverStalls)'
    BY <1>12 DEF WorkerRuns, TypeOK, States, SweepInv, NeverStalls, Handled, Ready, Completed
  <1>13. CASE OpenGate
    BY <1>13 DEF OpenGate, TypeOK, States, SweepInv, NeverStalls, Handled, Ready, Completed
  <1>14. CASE Crash
    BY <1>14 DEF Crash, TypeOK, States, SweepInv, NeverStalls, Handled, Ready, Completed
  <1>15. CASE Resume
    BY <1>15 DEF Resume, Enter, TypeOK, States, SweepInv, NeverStalls, Handled, Ready, Completed
  <1>16. CASE UNCHANGED vars
    BY <1>16 DEF vars, SweepInv, NeverStalls, Handled, Ready, Completed
  <1> QED
    BY <1>1, <1>2, <1>3, <1>4, <1>5, <1>6, <1>7, <1>8, <1>9, <1>10, <1>11, <1>12,
       <1>13, <1>14, <1>15, <1>16 DEF Next, Drive

\* A fresh run satisfies the invariant.
LEMMA InitExec == Init => ExecInv
  <1> SUFFICES ASSUME Init PROVE ExecInv
    OBVIOUS
  <1> USE WorkflowAssumption, StepFacts DEF Init
  <1>1. NewState \in States
    BY DEF NewState, States, Values
  <1>2. TypeOK
    <2>1. results \in [Steps -> Outputs \cup {None}] /\ 0 \in 0..MaxCrashes
      OBVIOUS
    <2>2. mem \in States /\ ckpt \in States
      BY <1>1
    <2> QED
      BY <2>1, <2>2 DEF TypeOK
  <1>3. Sound(mem) /\ Sound(ckpt) /\ WaitedInv /\ TaskInv
    BY FS_EmptySet DEF Sound, NewState, WaitedInv, Parking, TaskInv
  <1>4. SweepInv /\ NeverStalls
    BY DEF SweepInv, NeverStalls
  <1> QED
    BY <1>2, <1>3, <1>4 DEF ExecInv

\* The inductive invariant of the executor.
THEOREM ExecHolds == Spec => []ExecInv
  <1>1. ExecInv /\ [Next]_vars => ExecInv'
    BY TypeStep, SoundStep, WaitedStep, TaskStep, SweepStep DEF ExecInv
  <1> QED
    BY InitExec, <1>1, PTL DEF Spec

\* No loaded workflow ever reaches the "stalled" error of run().
THEOREM NoStall == Spec => []NeverStalls
  <1>1. ExecInv => NeverStalls
    BY DEF ExecInv
  <1> QED
    BY ExecHolds, <1>1, PTL

\* Tasks carry durable inputs, before and after any number of crashes.
THEOREM DurableInputs == Spec => []InputsAreDurable
  <1>1. ExecInv => InputsAreDurable
    BY DEF ExecInv, TaskInv, InputsAreDurable
  <1> QED
    BY ExecHolds, <1>1, PTL

\* A replayed step that reads only queue steps and gates it depends on is published under
\* the same key, whatever else the definition holds.
THEOREM ReplayDedupes == Spec => []OneTaskPerStep
  <1>1. ExecInv => OneTaskPerStep
    <2> SUFFICES ASSUME ExecInv, NEW t \in tasks, NEW u \in tasks,
                        t[1] = u[1], Reads[t[1]] \subseteq Deps[t[1]] \ InProcess
                 PROVE  t[2] = u[2]
      BY DEF OneTaskPerStep
    <2>1. \A d \in Reads[t[1]] : d \in QueueSteps \/ d \in Gates
      BY WorkflowAssumption, StepFacts DEF ExecInv, TaskInv
    <2>2. \A d \in Reads[t[1]] : t[2][d] = u[2][d]
      <3>1. \A d \in Reads[t[1]] : t[2][d] = IF d \in QueueSteps THEN results[d] ELSE Passed
        BY <2>1 DEF ExecInv, TaskInv
      <3>2. \A d \in Reads[u[1]] : u[2][d] = IF d \in QueueSteps THEN results[d] ELSE Passed
        BY <2>1 DEF ExecInv, TaskInv
      <3> QED
        BY <3>1, <3>2
    <2>3. t[2] = [d \in Reads[t[1]] |-> t[2][d]] /\ u[2] = [d \in Reads[t[1]] |-> u[2][d]]
      BY DEF ExecInv, TaskInv
    <2> QED
      BY <2>2, <2>3
  <1> QED
    BY ExecHolds, <1>1, PTL

\* No task that needs approval is published unapproved.
THEOREM ApprovalGuards == Spec => []ApprovedFirst
  <1>1. ExecInv => ApprovedFirst
    BY DEF ExecInv, TaskInv, ApprovedFirst
  <1> QED
    BY ExecHolds, <1>1, PTL

\* No gate is passed before it opened, unless a death fell between the note of its wait and
\* the wakeup; every death costs one gate at most.
THEOREM GatesHold == Spec => []GateOpened
  <1>1. ExecInv => GateOpened
    BY DEF ExecInv, Sound, WaitedInv, GateOpened
  <1> QED
    BY ExecHolds, <1>1, PTL

\* Every join the run parks on has a task that answers it.
THEOREM JoinsAnswered == Spec => []WaitIsAnswered
  <1>1. ExecInv => WaitIsAnswered
    BY WorkflowAssumption DEF ExecInv, WaitedInv, Parking, WaitIsAnswered
  <1> QED
    BY ExecHolds, <1>1, PTL

-----------------------------------------------------------------------------
(* The executor implements WorkflowContract.                               *)

DueSteps == {s \in Steps : Contract!Due(s)}
TrueSteps == {s \in Steps : Contract!True(s)}

\* What a context has an output for has come true, and so has all that precedes it.
OutputsDue(m) == \A s \in Steps : m.outputs[s] # None => s \in DueSteps \cap TrueSteps

\* Whatever the run claims, sent, waits for or puts before a person was due.
DueInv ==
    /\ OutputsDue(mem) /\ OutputsDue(ckpt)
    /\ \A t \in tasks : t[1] \in DueSteps
    /\ \A s \in QueueSteps : results[s] # None => s \in Published
    /\ gate # 0 => gate \in DueSteps
    /\ pc \in Parking /\ wait \in Gates => wait \in DueSteps
    /\ pc = "approving" => cursor \in DueSteps

\* What precedes a step is one of its dependencies or precedes one of them.
LEMMA BeforeSplit ==
    ASSUME NEW s \in Steps, NEW a \in Contract!Before[s]
    PROVE  \E d \in Deps[s] : a = d \/ a \in Contract!Before[d]
  <1> DEFINE Chain == Deps[s] \cup {x \in Steps : \E d \in Deps[s] : x \in Contract!Before[d]}
  <1>1. Deps \in [Steps -> SUBSET Steps] /\ Chain \in SUBSET Steps
    BY WorkflowAssumption
  <1>2. ASSUME NEW x \in Chain, NEW y \in Deps[x] PROVE y \in Chain
    <2>1. CASE x \in Deps[s]
      <3>1. x \in Steps /\ y \in Steps
        BY <1>1, <1>2, <2>1
      <3>2. y \in Contract!Before[x]
        BY <1>2, <3>1 DEF Contract!Before
      <3> QED
        BY <2>1, <3>1, <3>2
    <2>2. CASE x \notin Deps[s]
      <3>1. PICK d \in Deps[s] : x \in Contract!Before[d]
        BY <1>2, <2>2
      <3>2. x \in Steps /\ y \in Steps /\ d \in Steps
        BY <1>1, <1>2, <2>2
      <3>3. y \in Contract!Before[d]
        BY <1>2, <3>1, <3>2 DEF Contract!Before, Contract!Closed
      <3> QED
        BY <3>1, <3>2, <3>3
    <2> QED
      BY <2>1, <2>2
  <1>3. Contract!Closed(Chain)
    BY <1>2 DEF Contract!Closed
  <1>4. a \in Chain
    <2> HIDE DEF Chain
    <2>1. Deps[s] \subseteq Chain
      BY DEF Chain
    <2> QED
      BY <1>1, <1>3, <2>1 DEF Contract!Before
  <1> QED
    BY <1>4

\* A step is due once its dependencies have outputs.
LEMMA ReadyIsDue ==
    ASSUME OutputsDue(mem), NEW s \in Steps, Ready(s)
    PROVE  s \in DueSteps
  <1> SUFFICES ASSUME NEW a \in Contract!Before[s] PROVE Contract!True(a)
    BY DEF Contract!Due, DueSteps
  <1>1. PICK d \in Deps[s] : a = d \/ a \in Contract!Before[d]
    BY BeforeSplit
  <1>2. d \in Steps /\ mem.outputs[d] # None
    BY WorkflowAssumption DEF Ready, Completed
  <1>3. Contract!Due(d) /\ Contract!True(d)
    BY <1>2 DEF OutputsDue, DueSteps, TrueSteps
  <1> QED
    BY <1>1, <1>3 DEF Contract!Due

\* What was due stays due, since the outside forgets nothing.
LEMMA DueStays ==
    ASSUME Settled \subseteq Settled', granted \subseteq granted', slipped \subseteq slipped'
    PROVE  DueSteps \subseteq DueSteps' /\ TrueSteps \subseteq TrueSteps'
  BY DEF DueSteps, TrueSteps, Contract!Due, Contract!True

\* No action takes back a task, a result, an opened gate or an approval.
LEMMA OutsideKept ==
    ASSUME TypeOK, TaskInv, [Next]_vars
    PROVE  Settled \subseteq Settled' /\ granted \subseteq granted' /\ slipped \subseteq slipped' /\ tasks \subseteq tasks'
  <1> USE DEF Settled, envVars, loopVars
  <1>1. ASSUME NEW t \in tasks, NEW o \in Outputs, WorkerRuns(t, o)
        PROVE  Settled \subseteq Settled' /\ granted \subseteq granted' /\ slipped \subseteq slipped' /\ tasks \subseteq tasks'
    <2>1. \A s \in QueueSteps : results[s] # None => results'[s] = results[s]
      BY <1>1, StepFacts DEF WorkerRuns, TypeOK
    <2> QED
      BY <1>1, <2>1 DEF WorkerRuns
  <1>2. CASE OpenGate
    BY <1>2 DEF OpenGate
  <1>3. CASE Approve
    BY <1>3 DEF Approve
  <1>4. CASE Dispatch
    BY <1>4 DEF Dispatch
  <1>5. CASE Refresh \/ Skip \/ VisitGate \/ AskApproval \/ Decide \/ ParkSave \/ ParkSchedule \/ Deny \/ Wake
             \/ Crash \/ Resume \/ UNCHANGED vars \/ \E o \in Outputs : RunInProcess(o)
    BY <1>5 DEF Refresh, Skip, VisitGate, AskApproval, Decide, ParkSave, ParkSchedule, Deny, Wake, Crash, Resume,
                RunInProcess, vars
  <1> QED
    BY <1>1, <1>2, <1>3, <1>4, <1>5 DEF Next, Drive

\* A stored result was asked for in due time, and its step has come true.
LEMMA AnsweredIsDue ==
    ASSUME TaskInv, DueInv, NEW s \in QueueSteps, results[s] # None
    PROVE  s \in DueSteps \cap TrueSteps
  <1>1. PICK t \in tasks : t[1] = s
    BY DEF DueInv, Published
  <1>2. s \in DueSteps /\ (s \in NeedsApproval => s \in granted)
    BY <1>1 DEF DueInv, TaskInv
  <1> QED
    BY <1>2 DEF Contract!True, DueSteps, TrueSteps, Settled

\* A context that gains an output for a step that is due and true.
LEMMA OutputGained ==
    ASSUME NEW m \in States, OutputsDue(m), NEW s \in DueSteps \cap TrueSteps, NEW v \in Values
    PROVE  OutputsDue([m EXCEPT !.outputs[s] = v])
  BY DEF OutputsDue, States, DueSteps

\* Every action keeps DueInv.
LEMMA DueStep == ExecInv /\ DueInv /\ [Next]_vars => DueInv'
  <1> SUFFICES ASSUME ExecInv, DueInv, [Next]_vars PROVE DueInv'
    OBVIOUS
  <1>1. TypeOK /\ Sound(mem) /\ WaitedInv /\ TaskInv /\ SweepInv
    BY DEF ExecInv
  <1>2. Settled \subseteq Settled' /\ granted \subseteq granted' /\ slipped \subseteq slipped' /\ tasks \subseteq tasks'
    BY <1>1, OutsideKept
  <1>3. DueSteps \subseteq DueSteps' /\ TrueSteps \subseteq TrueSteps'
    BY <1>2, DueStays
  <1>4. \A m : OutputsDue(m) => \A s \in Steps : m.outputs[s] # None => s \in DueSteps' \cap TrueSteps'
    BY <1>3 DEF OutputsDue
  <1>5. OutputsDue(mem')
    <2> USE DEF loopVars, envVars
    <2>1. CASE Refresh /\ mem' # mem
      <3>1. mem' = [mem EXCEPT !.outputs[cursor] = results[cursor]] /\ results[cursor] # None
        BY <2>1 DEF Refresh
      <3>2. cursor \in QueueSteps /\ cursor \in Steps /\ results[cursor] \in Values
        BY <1>1, <3>1 DEF TaskInv, TypeOK, Values
      <3> QED
        BY <1>1, <3>1, <3>2, AnsweredIsDue, OutputGained DEF TypeOK, DueInv
    <2>2. CASE VisitGate /\ mem' # mem
      <3>1. /\ mem' = [mem EXCEPT !.outputs[cursor] = Passed] /\ cursor \in Gates /\ Ready(cursor)
            /\ cursor \in mem.waited /\ pc = "sweep" /\ cursor \in Steps /\ Passed \in Values
        BY <1>1, <2>2 DEF VisitGate, TypeOK, Values
      <3>2. cursor \in opened \cup slipped
        BY <1>1, <3>1 DEF WaitedInv, Parking
      <3>3. cursor \in TrueSteps
        BY <3>1, <3>2, WorkflowAssumption DEF Contract!True, TrueSteps, Settled
      <3>4. cursor \in DueSteps
        BY <3>1, ReadyIsDue DEF DueInv
      <3> QED
        BY <1>1, <3>1, <3>3, <3>4, OutputGained DEF TypeOK, DueInv
    <2>3. ASSUME NEW o \in Outputs, RunInProcess(o) PROVE OutputsDue(mem')
      <3>1. /\ mem' = [mem EXCEPT !.outputs[cursor] = o] /\ cursor \in InProcess /\ Ready(cursor)
            /\ cursor \in NeedsApproval => cursor \in mem.approved
            /\ cursor \in Steps /\ o \in Values
        BY <1>1, <2>3 DEF RunInProcess, TypeOK, Values
      <3>2. cursor \in TrueSteps
        BY <1>1, <3>1, WorkflowAssumption DEF Contract!True, TrueSteps, Sound
      <3>3. cursor \in DueSteps
        BY <3>1, ReadyIsDue DEF DueInv
      <3> QED
        BY <1>1, <3>1, <3>2, <3>3, OutputGained DEF TypeOK, DueInv
    <2>4. CASE Wake \/ Resume
      BY <2>4 DEF Wake, Resume, Enter, DueInv
    <2>5. CASE mem'.outputs = mem.outputs
      BY <2>5 DEF OutputsDue, DueInv
    <2>6. CASE Approve \/ Dispatch \/ Decide
      <3>1. mem'.outputs = mem.outputs
        BY <1>1, <2>6 DEF Approve, Dispatch, Decide, TypeOK, States
      <3> QED
        BY <2>5, <3>1
    <2>7. CASE Skip \/ AskApproval \/ ParkSave \/ ParkSchedule \/ Deny \/ Crash \/ OpenGate \/ UNCHANGED vars
               \/ \E t \in tasks, o \in Outputs : WorkerRuns(t, o)
      BY <2>5, <2>7 DEF Skip, AskApproval, ParkSave, ParkSchedule, Deny, Crash, OpenGate, vars, WorkerRuns
    <2> QED
      BY <2>1, <2>2, <2>3, <2>4, <2>5, <2>6, <2>7 DEF Next, Drive
  <1>6. OutputsDue(mem)' /\ OutputsDue(ckpt)'
    <2>1. OutputsDue(ckpt')
      <3>1. ckpt' = ckpt \/ ckpt' = mem
        BY DEF Next, Drive, Refresh, Skip, VisitGate, AskApproval, Dispatch, Decide, ParkSave, ParkSchedule, RunInProcess,
               Approve, Deny, Wake, WorkerRuns, OpenGate, Crash, Resume, vars
      <3> QED
        BY <3>1 DEF DueInv
    <2> QED
      BY <1>4, <1>5, <2>1 DEF OutputsDue
  <1>7. \A t \in tasks' : t[1] \in DueSteps'
    <2>1. CASE Dispatch
      <3>1. cursor \in DueSteps
        BY <1>1, <2>1, ReadyIsDue DEF Dispatch, DueInv, TypeOK
      <3> QED
        BY <1>3, <2>1, <3>1 DEF Dispatch, DueInv
    <2>2. CASE tasks' = tasks
      BY <1>3, <2>2 DEF DueInv
    <2> QED
      BY <2>1, <2>2 DEF Next, Drive, Refresh, Skip, VisitGate, AskApproval, Decide, ParkSave, ParkSchedule, RunInProcess,
           Approve, Deny, Wake, WorkerRuns, OpenGate, Crash, Resume, vars
  <1>8. \A s \in QueueSteps : results'[s] # None => s \in Published'
    <2>1. Published \subseteq Published'
      BY <1>2 DEF Published
    <2>2. ASSUME NEW t \in tasks, NEW o \in Outputs, WorkerRuns(t, o)
          PROVE  \A s \in QueueSteps : results'[s] # None => s \in Published'
      <3>1. \A s \in QueueSteps : s # t[1] => results'[s] = results[s]
        BY <1>1, <2>2, StepFacts DEF WorkerRuns, TypeOK
      <3>2. t[1] \in Published'
        BY <1>2, <2>2 DEF Published
      <3> QED
        BY <2>1, <3>1, <3>2 DEF DueInv
    <2>3. CASE results' = results
      BY <2>1, <2>3 DEF DueInv
    <2> QED
      BY <2>2, <2>3 DEF Next, Drive, Refresh, Skip, VisitGate, AskApproval, Dispatch, Decide, ParkSave, ParkSchedule,
           RunInProcess, Approve, Deny, Wake, OpenGate, Crash, Resume, vars, envVars
  <1>9. gate' # 0 => gate' \in DueSteps'
    <2>1. CASE gate' = gate
      BY <1>3, <2>1 DEF DueInv
    <2>2. CASE VisitGate /\ gate' # gate
      <3>1. gate' = cursor /\ Ready(cursor) /\ cursor \in Steps
        BY <1>1, <2>2 DEF VisitGate, TypeOK
      <3> QED
        BY <1>3, <3>1, ReadyIsDue DEF DueInv
    <2>3. CASE Wake \/ Resume
      BY <2>3 DEF Wake, Resume, Enter
    <2> QED
      BY <2>1, <2>2, <2>3 DEF Next, Drive, Refresh, Skip, AskApproval, Dispatch, Decide, ParkSave, ParkSchedule,
           RunInProcess, Approve, Deny, WorkerRuns, OpenGate, Crash, vars, loopVars
  <1>10. pc' \in Parking /\ wait' \in Gates => wait' \in DueSteps'
    <2>1. CASE pc \in Parking /\ wait' = wait
      BY <1>3, <2>1 DEF DueInv
    <2>2. CASE Decide
      <3>1. ASSUME pc' = "park", wait' \in Gates PROVE wait' = gate /\ gate # 0
        <4>1. CASE gate = 0
          <5>1. wait' \in mem.dispatched
            BY <2>2, <3>1, <4>1 DEF Decide
          <5> QED
            BY <1>1, <3>1, <5>1, WorkflowAssumption DEF Sound
        <4>2. CASE gate # 0
          BY <2>2, <4>2 DEF Decide
        <4> QED
          BY <4>1, <4>2
      <3>2. pc' \in Parking => pc' = "park"
        BY <2>2 DEF Decide, Parking
      <3> QED
        BY <1>3, <3>1, <3>2 DEF DueInv
    <2>3. CASE pc' \notin Parking
      BY <2>3
    <2> QED
      BY <1>1, <2>1, <2>2, <2>3, AdvanceFacts DEF Next, Drive, Refresh, Skip, VisitGate, AskApproval,
           Dispatch, ParkSave, ParkSchedule, RunInProcess, Approve, Deny, Wake, Enter, WorkerRuns, OpenGate, Crash, Resume,
           vars, TypeOK, Parking
  <1>11. pc' = "approving" => cursor' \in DueSteps'
    <2>1. CASE AskApproval
      BY <1>1, <1>3, <2>1, ReadyIsDue DEF AskApproval, loopVars, DueInv, TypeOK
    <2>2. CASE pc = "approving" /\ pc' = pc /\ cursor' = cursor
      BY <1>3, <2>2 DEF DueInv
    <2>3. CASE pc' # "approving"
      BY <2>3
    <2> QED
      BY <1>1, <2>1, <2>2, <2>3, AdvanceFacts DEF Next, Drive, Refresh, Skip, VisitGate, Decide,
           Dispatch, ParkSave, ParkSchedule, RunInProcess, Approve, Deny, Wake, Enter, WorkerRuns, OpenGate, Crash, Resume,
           vars, loopVars, TypeOK
  <1> QED
    BY <1>6, <1>7, <1>8, <1>9, <1>10, <1>11 DEF DueInv

\* Every action is a step of WorkflowContract or leaves its variables alone.
LEMMA ContractStep ==
    ExecInv /\ ExecInv' /\ DueInv /\ [Next]_vars => [Contract!Next]_(Contract!vars)
  <1> DEFINE Goal == Contract!Next \/ UNCHANGED <<Published, Settled, granted, slipped, crashes, Phase>>
  <1> SUFFICES ASSUME ExecInv, ExecInv', DueInv, [Next]_vars PROVE Goal
    BY DEF Contract!vars
  <1>1. TypeOK /\ Sound(mem) /\ WaitedInv /\ TaskInv /\ SweepInv /\ pc' # "stalled"
    BY DEF ExecInv, NeverStalls
  <1> USE DEF loopVars, envVars
  <1>2. CASE Dispatch
    <2>1. cursor \in Steps /\ cursor \in QueueSteps /\ pc = "sweep" /\ pc' \in {"sweep", "decide"}
      BY <1>1, <1>2, AdvanceFacts DEF Dispatch, TypeOK
    <2>2. Contract!Due(cursor)
      BY <1>2, <2>1, ReadyIsDue DEF Dispatch, DueInv, DueSteps
    <2>3. Published' = Published \cup {cursor}
      <3> DEFINE new == <<cursor, Payload(cursor)>>
      <3>1. tasks' = tasks \cup {new} /\ new[1] = cursor
        BY <1>2 DEF Dispatch
      <3> HIDE DEF new
      <3> QED
        BY <3>1 DEF Published
    <2>4. cursor \in NeedsApproval => cursor \in granted
      BY <1>1, <1>2 DEF Dispatch, Sound
    <2>5. Phase = "running" /\ UNCHANGED <<Settled, granted, slipped, crashes, Phase>>
      BY <1>2, <2>1 DEF Dispatch, Settled, Phase
    <2>6. Contract!Publish(cursor)
      BY <2>1, <2>2, <2>3, <2>4, <2>5 DEF Contract!Publish
    <2> QED
      BY <2>1, <2>6 DEF Contract!Next
  <1>3. CASE Approve
    <2>1. cursor \in Steps /\ cursor \in NeedsApproval /\ Contract!Due(cursor)
      BY <1>1, <1>3 DEF Approve, TypeOK, SweepInv, DueInv, DueSteps
    <2>2. Phase = "running" /\ granted' = granted \cup {cursor} /\ UNCHANGED <<Published, Settled, slipped, crashes, Phase>>
      BY <1>3 DEF Approve, Published, Settled, Phase
    <2>3. Contract!Grant(cursor)
      BY <2>1, <2>2 DEF Contract!Grant
    <2> QED
      BY <2>1, <2>3 DEF Contract!Next
  <1>4. CASE Deny
    <2>1. Phase = "running" /\ Phase' = "failed" /\ UNCHANGED <<Published, Settled, granted, slipped, crashes>>
      BY <1>4 DEF Deny, Published, Settled, Phase
    <2> QED
      BY <2>1 DEF Contract!Next, Contract!Fail
  <1>5. CASE Decide
    <2>1. Phase = "running" /\ UNCHANGED <<Published, Settled, granted, slipped, crashes>>
      BY <1>5 DEF Decide, Published, Settled, Phase
    <2>2. CASE pc' = "park"
      BY <2>1, <2>2 DEF Phase
    <2>3. CASE pc' = "done"
      <3>1. Pending = {}
        BY <1>5, <2>3 DEF Decide
      <3>2. \A s \in Steps : Contract!True(s)
        BY <3>1 DEF Pending, Completed, DueInv, OutputsDue, TrueSteps
      <3>3. Phase' = "done"
        BY <2>3 DEF Phase
      <3> QED
        BY <2>1, <3>2, <3>3 DEF Contract!Next, Contract!Finish
    <2> QED
      BY <1>1, <1>5, <2>2, <2>3 DEF Decide
  <1>6. ASSUME NEW t \in tasks, NEW o \in Outputs, WorkerRuns(t, o) PROVE Goal
    <2>1. t[1] \in QueueSteps /\ t[1] \in Steps /\ t[1] \in Published /\ t[1] \notin opened
      <3>1. t[1] \in QueueSteps /\ t[1] \in Published
        BY <1>1 DEF TaskInv, Published
      <3>2. opened \subseteq Gates /\ QueueSteps \cap Gates = {} /\ QueueSteps \subseteq Steps
        BY <1>1, StepFacts, WorkflowAssumption DEF TypeOK
      <3> QED
        BY <3>1, <3>2
    <2>2. UNCHANGED <<Published, granted, slipped, crashes, Phase>>
      BY <1>6 DEF WorkerRuns, Published, Phase
    <2>3. \A s \in QueueSteps : results'[s] = IF s = t[1] /\ results[s] = None THEN o ELSE results[s]
      BY <1>1, <1>6, <2>1, StepFacts DEF WorkerRuns, TypeOK
    <2>4. opened' = opened /\ o # None
      BY <1>6, WorkflowAssumption DEF WorkerRuns
    <2>5. CASE results[t[1]] = None
      <3>1. t[1] \notin Settled
        BY <2>1, <2>5 DEF Settled
      <3>2. Settled' = Settled \cup {t[1]}
        BY <2>1, <2>3, <2>4, <2>5 DEF Settled
      <3>3. Contract!Answer(t[1])
        BY <2>1, <2>2, <3>1, <3>2 DEF Contract!Answer
      <3> QED
        BY <2>1, <3>3 DEF Contract!Next
    <2>6. CASE results[t[1]] # None
      BY <2>2, <2>3, <2>4, <2>6 DEF Settled
    <2> QED
      BY <2>5, <2>6
  <1>7. CASE OpenGate
    <2>1. wait \in Gates /\ wait \in Steps /\ wait \notin opened /\ Contract!Due(wait)
      BY <1>7, StepFacts DEF OpenGate, DueInv, DueSteps, Parking
    <2>2. wait \notin Settled
      BY <2>1, WorkflowAssumption DEF Settled
    <2>3. Phase = "running" /\ Settled' = Settled \cup {wait} /\ UNCHANGED <<Published, granted, slipped, crashes, Phase>>
      BY <1>7 DEF OpenGate, Published, Settled, Phase
    <2>4. Contract!Open(wait)
      BY <2>1, <2>2, <2>3 DEF Contract!Open
    <2> QED
      BY <2>1, <2>4 DEF Contract!Next
  <1>8. CASE Refresh \/ Skip \/ VisitGate \/ AskApproval \/ ParkSave \/ ParkSchedule \/ Wake \/ Resume
             \/ (\E o \in Outputs : RunInProcess(o)) \/ UNCHANGED vars
    <2>1. UNCHANGED <<Published, Settled, granted, slipped, crashes>>
      BY <1>8 DEF Refresh, Skip, VisitGate, AskApproval, ParkSave, ParkSchedule, Wake, Resume, RunInProcess,
                  Published, Settled, vars
    <2>2. Phase' = Phase
      BY <1>1, <1>8, AdvanceFacts DEF Refresh, Skip, VisitGate, AskApproval, ParkSave, ParkSchedule, Wake, Enter,
                  Resume, RunInProcess, Phase, TypeOK, vars
    <2> QED
      BY <2>1, <2>2
  <1>9. CASE Crash
    <2>1. /\ Phase = "running" /\ crashes' = crashes + 1
          /\ UNCHANGED <<Published, Settled, granted, Phase>>
      BY <1>9 DEF Crash, Published, Settled, Phase
    <2>2. UNCHANGED slipped \/ \E g \in Gates : Contract!Due(g) /\ slipped' = slipped \cup {g}
      BY <1>9 DEF Crash, DueInv, DueSteps, Parking
    <2> QED
      BY <2>1, <2>2 DEF Contract!Next, Contract!Die
  <1> QED
    BY <1>2, <1>3, <1>4, <1>5, <1>6, <1>7, <1>8, <1>9 DEF Next, Drive

\* WorkflowExecutor implements WorkflowContract, for every acyclic definition and any number
\* of crashes: order is kept over the whole graph, and a workflow that returns is complete - but for one
\* gate that each death may have cost.
THEOREM ExecutorRefines == Spec => ImplementsWorkflowContract
  <1>1. Init => Contract!Init
    BY StepFacts DEF Init, Contract!Init, Published, Settled, Phase
  <1>2. Init => DueInv
    BY StepFacts DEF Init, NewState, DueInv, OutputsDue, Published
  <1>3. Spec => []DueInv
    BY ExecHolds, DueStep, <1>2, PTL DEF Spec
  <1> QED
    BY ExecHolds, ContractStep, <1>1, <1>3, PTL DEF Spec, Contract!Spec, ImplementsWorkflowContract

-----------------------------------------------------------------------------
(* The safety side of termination: a call of run() comes to an end.         *)

\* What a call of run() has still to do: steps without an output, approvals to ask for,
\* the parts of the call that are ahead, another pass, visits of the pass.
Asked == NeedsApproval \ mem.approved
Ahead == CASE pc = "refresh" -> 5 [] pc \in {"sweep", "approving"} -> 4 [] pc = "decide" -> 3
           [] pc = "park" -> 2 [] pc = "park_schedule" -> 1 [] OTHER -> 0
Visits == 2 * (NumSteps - cursor) + (IF pc = "sweep" THEN 1 ELSE 0)

\* Less of it is left, in this order of importance.
Closer ==
    /\ Pending' \subseteq Pending
    /\ Pending' = Pending =>
          /\ Asked' \subseteq Asked
          /\ Asked' = Asked =>
                \/ Ahead' < Ahead
                \/ Ahead' = Ahead /\ progressed /\ ~progressed'
                \/ Ahead' = Ahead /\ progressed' = progressed /\ Visits' < Visits

\* Every step that the driver takes within a call, and the answer to an approval, leaves
\* less to do; what workers and timers do meanwhile adds nothing to it.
SweepShrinks ==
    [][/\ Drive \/ Approve \/ Deny => Closer
       /\ OpenGate \/ (\E t \in tasks, o \in Outputs : WorkerRuns(t, o)) =>
             UNCHANGED <<Pending, Asked, Ahead, progressed, Visits>>]_vars

\* A person is asked about a step only while it is not approved.
AskedInv == pc = "approving" => cursor \in Asked

LEMMA AskedStep == SweepInv' /\ AskedInv /\ [Next]_vars => AskedInv'
  <1> SUFFICES ASSUME SweepInv', AskedInv, [Next]_vars, pc' = "approving" PROVE cursor' \in Asked'
    BY DEF AskedInv
  <1> USE DEF loopVars, envVars
  <1>1. cursor' \in NeedsApproval
    BY DEF SweepInv
  <1>2. CASE AskApproval
    BY <1>1, <1>2 DEF AskApproval, Asked
  <1>3. CASE ~AskApproval
    <2>1. pc = "approving" /\ mem' = mem /\ cursor' = cursor
      BY <1>3 DEF Next, Drive, Refresh, Skip, VisitGate, RunInProcess, Dispatch, Decide, ParkSave, ParkSchedule, Advance,
                  Approve, Deny, Wake, Enter, WorkerRuns, OpenGate, Crash, Resume, vars
    <2> QED
      BY <2>1 DEF AskedInv, Asked
  <1> QED
    BY <1>2, <1>3

\* A visit that leaves outputs and approvals alone is one visit less, or the end of a pass.
LEMMA VisitCloser ==
    ASSUME TypeOK, pc = "sweep", Advance(progressed), mem'.outputs = mem.outputs,
           mem'.approved = mem.approved
    PROVE  Closer
  <1>1. Pending' = Pending /\ Asked' = Asked
    BY DEF Pending, Completed, Asked
  <1>2. CASE cursor < NumSteps
    <2>1. cursor' = cursor + 1 /\ progressed' = progressed /\ pc' = pc
      BY <1>2 DEF Advance
    <2>2. Ahead' = Ahead /\ Visits' < Visits
      BY <1>2, <2>1, StepFacts, WorkflowAssumption DEF TypeOK, Ahead, Visits, Steps
    <2> QED
      BY <1>1, <2>1, <2>2 DEF Closer
  <1>3. CASE ~(cursor < NumSteps) /\ progressed
    <2>1. progressed' = FALSE /\ pc' = "sweep"
      BY <1>3 DEF Advance
    <2>2. Ahead' = Ahead
      BY <2>1 DEF Ahead
    <2> QED
      BY <1>1, <1>3, <2>1, <2>2 DEF Closer
  <1>4. CASE ~(cursor < NumSteps) /\ ~progressed
    <2>1. pc' = "decide"
      BY <1>4 DEF Advance
    <2>2. Ahead' < Ahead
      BY <2>1 DEF Ahead
    <2> QED
      BY <1>1, <2>2 DEF Closer
  <1> QED
    BY <1>2, <1>3, <1>4

\* An output for a step that had none.
LEMMA OutputCloser ==
    ASSUME TypeOK, NEW s \in Steps, mem.outputs[s] = None, NEW v \in Values, v # None,
           mem' = [mem EXCEPT !.outputs[s] = v]
    PROVE  Pending' \subseteq Pending /\ Pending' # Pending
  <1>1. mem'.outputs = [mem.outputs EXCEPT ![s] = v] /\ mem.outputs \in [Steps -> Values]
    BY DEF TypeOK, States
  <1>2. s \in Pending /\ s \notin Pending'
    BY <1>1 DEF Pending, Completed
  <1>3. Pending' \subseteq Pending
    BY <1>1 DEF Pending, Completed
  <1> QED
    BY <1>2, <1>3

\* No call of run() goes on for ever, whatever the definition: its loop over the steps makes
\* no pass without need, and between two waits it takes finitely many steps.
THEOREM SweepEnds == Spec => SweepShrinks
  <1>1. ASSUME TypeOK, AskedInv, Drive \/ Approve \/ Deny PROVE Closer
    <2> USE DEF loopVars, envVars
    <2>1. CASE Refresh
      <3>1. CASE mem' = mem
        <4>1. Pending' = Pending /\ Asked' = Asked /\ progressed' = progressed
          BY <2>1, <3>1 DEF Refresh, Pending, Completed, Asked
        <4>2. CASE cursor < NumSteps
          <5>1. Ahead' = Ahead /\ Visits' < Visits
            BY <1>1, <2>1, <4>2, StepFacts, WorkflowAssumption DEF Refresh, TypeOK, Ahead, Visits, Steps
          <5> QED
            BY <4>1, <5>1 DEF Closer
        <4>3. CASE ~(cursor < NumSteps)
          <5>1. Ahead' < Ahead
            BY <2>1, <4>3 DEF Refresh, Ahead
          <5> QED
            BY <4>1, <5>1 DEF Closer
        <4> QED
          BY <4>2, <4>3
      <3>2. CASE mem' # mem
        <4>1. /\ mem.outputs[cursor] = None /\ results[cursor] # None
              /\ mem' = [mem EXCEPT !.outputs[cursor] = results[cursor]]
          BY <2>1, <3>2 DEF Refresh
        <4>2. cursor \in Steps /\ results[cursor] \in Values
          BY <1>1 DEF TypeOK, Values
        <4> QED
          BY <1>1, <4>1, <4>2, OutputCloser DEF Closer
      <3> QED
        BY <3>1, <3>2
    <2>2. CASE Skip
      BY <1>1, <2>2, VisitCloser DEF Skip
    <2>3. CASE VisitGate
      <3>1. CASE cursor \notin mem.waited
        BY <1>1, <2>3, <3>1, VisitCloser DEF VisitGate
      <3>2. CASE cursor \in mem.waited
        <4>1. cursor \in Steps /\ mem.outputs[cursor] = None /\ mem' = [mem EXCEPT !.outputs[cursor] = Passed]
          BY <1>1, <2>3, <3>2 DEF VisitGate, TypeOK, Ready, Completed
        <4> QED
          BY <1>1, <4>1, WorkflowAssumption, OutputCloser DEF Closer, Values
      <3> QED
        BY <3>1, <3>2
    <2>4. CASE AskApproval
      <3>1. Pending' = Pending /\ Asked' = Asked /\ progressed' = progressed
        BY <2>4 DEF AskApproval, Pending, Completed, Asked
      <3>2. Ahead' = Ahead /\ Visits' < Visits
        BY <1>1, <2>4, StepFacts, WorkflowAssumption DEF AskApproval, TypeOK, Ahead, Visits, Steps
      <3> QED
        BY <3>1, <3>2 DEF Closer
    <2>5. CASE Dispatch
      <3>1. mem'.outputs = mem.outputs /\ mem'.approved = mem.approved
        BY <1>1, <2>5 DEF Dispatch, TypeOK, States
      <3> QED
        BY <1>1, <2>5, <3>1, VisitCloser DEF Dispatch
    <2>6. CASE Decide
      <3>1. mem'.outputs = mem.outputs /\ mem'.approved = mem.approved
        BY <1>1, <2>6 DEF Decide, TypeOK, States
      <3>2. Pending' = Pending /\ Asked' = Asked
        BY <3>1 DEF Pending, Completed, Asked
      <3>3. Ahead' < Ahead
        BY <2>6 DEF Decide, Ahead
      <3> QED
        BY <3>2, <3>3 DEF Closer
    <2>7. CASE ParkSave \/ ParkSchedule
      <3>1. Pending' = Pending /\ Asked' = Asked /\ Ahead' < Ahead
        BY <2>7 DEF ParkSave, ParkSchedule, Pending, Completed, Asked, Ahead
      <3> QED
        BY <3>1 DEF Closer
    <2>8. ASSUME NEW o \in Outputs, RunInProcess(o) PROVE Closer
      <3>1. cursor \in Steps /\ mem.outputs[cursor] = None /\ mem' = [mem EXCEPT !.outputs[cursor] = o]
        BY <1>1, <2>8 DEF RunInProcess, TypeOK, Ready, Completed
      <3> QED
        BY <1>1, <3>1, WorkflowAssumption, OutputCloser DEF Closer, Values
    <2>9. CASE Approve
      <3>1. mem'.outputs = mem.outputs /\ mem'.approved = mem.approved \cup {cursor}
        BY <1>1, <2>9 DEF Approve, TypeOK, States
      <3>2. Pending' = Pending /\ Asked' \subseteq Asked
        BY <3>1 DEF Pending, Completed, Asked
      <3>3. Asked' # Asked
        BY <1>1, <2>9, <3>1 DEF Approve, AskedInv, Asked
      <3> QED
        BY <3>2, <3>3 DEF Closer
    <2>10. CASE Deny
      <3>1. Pending' = Pending /\ Asked' = Asked /\ Ahead' < Ahead
        BY <2>10 DEF Deny, Pending, Completed, Asked, Ahead
      <3> QED
        BY <3>1 DEF Closer
    <2> QED
      BY <1>1, <2>1, <2>2, <2>3, <2>4, <2>5, <2>6, <2>7, <2>8, <2>9, <2>10 DEF Drive
  <1>2. OpenGate \/ (\E t \in tasks, o \in Outputs : WorkerRuns(t, o)) =>
             UNCHANGED <<Pending, Asked, Ahead, progressed, Visits>>
    BY DEF OpenGate, WorkerRuns, Pending, Completed, Asked, Ahead, Visits, loopVars
  <1>3. ExecInv => TypeOK /\ SweepInv
    BY DEF ExecInv
  <1>4. Init => AskedInv
    BY DEF Init, AskedInv
  <1> QED
    BY ExecHolds, AskedStep, <1>1, <1>2, <1>3, <1>4, PTL DEF Spec, SweepShrinks

-----------------------------------------------------------------------------
(* The validator, on a definition with any ids and names.                  *)

\* A round never removes a step of a knot: such a step still has a dependency left.
LEMMA DagStepKeeps == DagInv /\ [DagNext]_dagVars => DagInv'
  <1> SUFFICES ASSUME DagInv, [DagNext]_dagVars PROVE DagInv'
    OBVIOUS
  <1> USE DEF DagInv, Knot, Free
  <1>1. CASE RejectUnknown
    BY <1>1 DEF RejectUnknown
  <1>2. CASE Round
    <2>1. CASE Free = {}
      BY <1>2, <2>1 DEF Round
    <2>2. CASE Free # {}
      <3>1. /\ remaining' = remaining \ Free
            /\ left' = [s \in Ids |-> left[s] \ Free]
            /\ deps' = deps /\ verdict' = verdict
        BY <1>2, <2>2 DEF Round
      <3>2. \A s \in remaining : left[s] = deps[s] \cap remaining
        BY <1>2 DEF Round
      <3>3. \A s \in remaining' : left'[s] = deps'[s] \cap remaining'
        BY <3>1, <3>2
      <3>4. ASSUME NEW S \in SUBSET Ids, Knot(S)' PROVE S \subseteq remaining'
        <4>1. Knot(S)
          BY <3>1, <3>4
        <4>2. S \subseteq remaining
          BY <4>1
        <4>3. \A s \in S : left[s] # {}
          BY <3>2, <4>1, <4>2
        <4> QED
          BY <3>1, <4>2, <4>3
      <3>5. verdict' = "checking"
        BY <1>2, <3>1 DEF Round
      <3> QED
        BY <3>1, <3>3, <3>4, <3>5
    <2> QED
      BY <2>1, <2>2
  <1>3. CASE Load
    BY <1>3 DEF Load
  <1>4. CASE UNCHANGED dagVars
    BY <1>4 DEF dagVars
  <1> QED
    BY <1>1, <1>2, <1>3, <1>4 DEF DagNext

\* The inductive invariant of the validator.
THEOREM DagHolds == DagSpec => []DagInv
  <1>1. DagInit => DagInv
    BY DagAssumption DEF DagInit, DagInv, Knot, Free
  <1> QED
    BY DagStepKeeps, <1>1, PTL DEF DagSpec

\* No definition with a dependency cycle is loaded, whatever its size.
THEOREM NoCycleLoads == DagSpec => []LoadedIsAcyclic
  <1>1. DagInv => LoadedIsAcyclic
    BY DEF DagInv, LoadedIsAcyclic, Knot
  <1> QED
    BY DagHolds, <1>1, PTL

\* No definition is refused as cyclic unless it is.
THEOREM OnlyCyclesRefused == DagSpec => []RefusalIsJustified
  <1>1. DagInv => RefusalIsJustified
    BY DEF DagInv, RefusalIsJustified, Knot, Free
  <1> QED
    BY DagHolds, <1>1, PTL

\* The validator's verdict is right for every graph: both directions together.
THEOREM KahnIsRight == DagSpec => []VerdictIsRight
  <1>1. LoadedIsAcyclic /\ RefusalIsJustified => VerdictIsRight
    BY DEF VerdictIsRight
  <1> QED
    BY NoCycleLoads, OnlyCyclesRefused, <1>1, PTL

\* What the executor assumes of its definition is what _validate_dag lets through: every
\* part of it has a step to begin with, which depends on no other step of that part.
THEOREM LoadedIsExecutable ==
    DagSpec => [](verdict = "loaded" =>
        \A S \in SUBSET Ids : S # {} => \E s \in S : deps[s] \cap S = {})
  <1>1. LoadedIsAcyclic => (verdict = "loaded" =>
            \A S \in SUBSET Ids : S # {} => \E s \in S : deps[s] \cap S = {})
    BY DEF LoadedIsAcyclic, Knot
  <1> QED
    BY NoCycleLoads, <1>1, PTL

\* Every step of _validate_dag that does not decide takes a step out of the dictionary,
\* so that the loop goes round at most once for every step of the definition.
RoundsShrink == [][verdict' = "checking" => Cardinality(remaining') < Cardinality(remaining)]_dagVars

\* The safety side of termination: no round of Kahn's algorithm leaves the dictionary as
\* large as it was, for every graph.
THEOREM RoundsAreFew == DagSpec => RoundsShrink
  <1>1. ASSUME DagInv, [DagNext]_dagVars
        PROVE  [verdict' = "checking" => Cardinality(remaining') < Cardinality(remaining)]_dagVars
    <2>1. IsFiniteSet(remaining)
      <3>1. remaining \in SUBSET Ids /\ IsFiniteSet(Ids)
        BY <1>1, DagAssumption DEF DagInv
      <3> QED
        BY <3>1, FS_Subset
    <2>2. SUFFICES ASSUME Round, verdict' = "checking"
                   PROVE  Cardinality(remaining') < Cardinality(remaining)
      BY <1>1 DEF DagNext, RejectUnknown, Load
    <2>3. Free # {} /\ Free \subseteq remaining /\ remaining' = remaining \ Free
      BY <2>2 DEF Round, Free
    <2>4. remaining' \subseteq remaining /\ remaining' # remaining
      BY <2>3
    <2> QED
      BY <2>1, <2>4, FS_Subset, FS_CardinalityType
  <1> QED
    BY <1>1, DagHolds, PTL DEF DagSpec, RoundsShrink

-----------------------------------------------------------------------------
(* The two together.                                                       *)

\* A workflow from its definition to its end is an execution of the validator and one of
\* the executor: what is proved of either holds of the whole.
THEOREM WorkflowIsBoth == WorkflowSpec => Spec /\ DagSpec
  <1>1. [Validate \/ Run(Next)]_<<vars, dagVars>> => [Next]_vars /\ [DagNext]_dagVars
    BY DEF Validate, Run
  <1> QED
    BY <1>1, PTL DEF WorkflowSpec, WorkflowInit, Spec, DagSpec
=============================================================================
