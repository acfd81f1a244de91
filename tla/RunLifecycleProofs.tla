------------------------- MODULE RunLifecycleProofs -------------------------
(***************************************************************************)
(* Proofs, for every pipeline and every set of processes, of the safety    *)
(* properties of RunLifecycle.                                             *)
(***************************************************************************)
EXTENDS RunLifecycle, TLAPS

\* Stages are positive and no task is the empty message.
LEMMA StageFacts ==
    /\ Stages \subseteq Nat \ {0}
    /\ JoinStages \subseteq Stages
    /\ TimerStages \subseteq Stages
    /\ EventStages \subseteq Stages
    /\ NumStages \in Nat \ {0}
    /\ \A t \in Tasks : t[1] \in JoinStages
    /\ NoMsg \notin Tasks
  BY ConstantsAssumption DEF Stages, Tasks, NoMsg

\* Every action of the driver, of the wakers, of the workers and of the canceller
\* keeps the variables in their types.
LEMMA TypeStep == TypeOK /\ ContextInv /\ [Next]_vars => TypeOK'
  <1> SUFFICES ASSUME TypeOK, ContextInv, [Next]_vars PROVE TypeOK'
    OBVIOUS
  <1> USE ConstantsAssumption, StageFacts
      DEF TypeOK, Points, RunStatus, Contexts, Procs, Goto,
          runVars, brokerVars, procVars, envVars, histVars
  <1>1. ASSUME NEW p \in Callers, Start(p) PROVE TypeOK'
    BY <1>1 DEF Start, NewContext
  <1>2. ASSUME NEW p \in Procs, SetRunning(p) PROVE TypeOK'
    BY <1>2 DEF SetRunning
  <1>3. ASSUME NEW p \in Procs, Boundary(p) PROVE TypeOK'
    BY <1>3 DEF Boundary, Cancelled
  <1>4. ASSUME NEW p \in Procs, Execute(p) PROVE TypeOK'
    <2>1. sc[p].done \in 0..NumStages - 1 /\ Current(sc[p]) \in Stages
      BY <1>4 DEF Execute, ContextInv, Current, Stages
    <2>2. late' \in Nat
      BY <1>4 DEF Execute
    <2>3. CASE StageReturns(p)
      BY <1>4, <2>1, <2>2, <2>3 DEF Execute, StageReturns, Stages
    <2>4. CASE StageWaits(p)
      <3>1. taskQ' \subseteq Tasks /\ published' \subseteq JoinStages
        BY <2>4 DEF StageWaits, Tasks
      <3> QED
        BY <1>4, <2>1, <2>2, <2>4, <3>1 DEF Execute, StageWaits, Stages
    <2>5. CASE StageDenies(p)
      BY <1>4, <2>2, <2>5 DEF Execute, StageDenies
    <2> QED
      BY <1>4, <2>3, <2>4, <2>5 DEF Execute
  <1>5. ASSUME NEW p \in Procs, Checkpoint(p) PROVE TypeOK'
    BY <1>5 DEF Checkpoint
  <1>6. ASSUME NEW p \in Procs, ParkSave(p) PROVE TypeOK'
    BY <1>6 DEF ParkSave
  <1>7. ASSUME NEW p \in Procs, ParkSchedule(p) PROVE TypeOK'
    BY <1>7 DEF ParkSchedule, ContextInv, Done, Stages, NoCheckpoint
  <1>8. ASSUME NEW p \in Procs, ParkStatus(p) PROVE TypeOK'
    BY <1>8 DEF ParkStatus, EndWith, Return
  <1>9. ASSUME NEW p \in Procs, MarkCancelled(p) PROVE TypeOK'
    BY <1>9 DEF MarkCancelled, EndWith, Return
  <1>10. ASSUME NEW p \in Procs, Fail(p) PROVE TypeOK'
    BY <1>10 DEF Fail, EndWith, Return
  <1>11. ASSUME NEW p \in Procs, Complete(p) PROVE TypeOK'
    BY <1>11 DEF Complete, EndWith, Return
  <1>12. ASSUME NEW p \in Procs, Satisfy(p) PROVE TypeOK'
    BY <1>12 DEF Satisfy, Return
  <1>13. ASSUME NEW p \in Procs, DueJoins(p) PROVE TypeOK'
    BY <1>13 DEF DueJoins
  <1>14. ASSUME NEW p \in Procs, ResumeCallback(p) PROVE TypeOK'
    BY <1>14 DEF ResumeCallback, Return
  <1>15. ASSUME NEW p \in Procs, Load(p) PROVE TypeOK'
    BY <1>15 DEF Load
  <1>16. ASSUME NEW p \in Collectors, NEW t \in Tasks, Collect(p, t) PROVE TypeOK'
    BY <1>16 DEF Collect
  <1>17. ASSUME NEW p \in Pollers, DueTimers(p) PROVE TypeOK'
    BY <1>17 DEF DueTimers
  <1>18. ASSUME NEW p \in Callers, NEW s \in EventStages, NEW c \in EventCallers, FireEvent(p, s, c) PROVE TypeOK'
    BY <1>18 DEF FireEvent
  <1>19. ASSUME NEW w \in Workers, NEW t \in Tasks, WorkerTake(w, t) PROVE TypeOK'
    BY <1>19 DEF WorkerTake
  <1>20. ASSUME NEW w \in Workers, WorkerFinish(w) PROVE TypeOK'
    BY <1>20 DEF WorkerFinish
  <1>21. ASSUME NEW s \in TimerStages, Elapse(s) PROVE TypeOK'
    BY <1>21 DEF Elapse
  <1>22. ASSUME CancelFlag PROVE TypeOK'
    BY <1>22 DEF CancelFlag
  <1>23. ASSUME CancelRead PROVE TypeOK'
    BY <1>23 DEF CancelRead
  <1>24. ASSUME CancelFinalize PROVE TypeOK'
    BY <1>24 DEF CancelFinalize
  <1>25. ASSUME CancelWakeups PROVE TypeOK'
    BY <1>25 DEF CancelWakeups, NoPending
  <1>26. ASSUME NEW p \in Procs, Crash(p) PROVE TypeOK'
    BY <1>26 DEF Crash
  <1>27. ASSUME NEW w \in Workers, WorkerCrash(w) PROVE TypeOK'
    BY <1>27 DEF WorkerCrash
  <1>28. CASE UNCHANGED vars
    BY <1>28 DEF vars
  <1> QED
    BY <1>1, <1>2, <1>3, <1>4, <1>5, <1>6, <1>7, <1>8, <1>9, <1>10, <1>11, <1>12, <1>13, <1>14, <1>15, <1>16, <1>17, <1>18, <1>19, <1>20, <1>21, <1>22, <1>23, <1>24, <1>25, <1>26, <1>27, <1>28
       DEF Next, Continue, Work, Cancel

\* A claim hands the run to one process and takes its wakeup away.
LEMMA OwnerStep == TypeOK /\ SingleOwner /\ WakeFindsItsCheckpoint /\ NewRunInv /\ ContextInv /\ [Next]_vars => SingleOwner'
  <1> SUFFICES ASSUME TypeOK, SingleOwner, WakeFindsItsCheckpoint, NewRunInv, ContextInv, [Next]_vars PROVE SingleOwner'
    OBVIOUS
  <1> USE ConstantsAssumption, StageFacts
      DEF TypeOK, SingleOwner, Owns, OwnerPoints, Points, Procs, Goto, runVars, brokerVars, procVars, envVars, histVars
  <1>1. ASSUME NEW p \in Callers, Start(p) PROVE SingleOwner'
    BY <1>1 DEF Start, NewRunInv, NewContext
  <1>2. ASSUME NEW p \in Procs, SetRunning(p) PROVE SingleOwner'
    BY <1>2 DEF SetRunning
  <1>3. ASSUME NEW p \in Procs, Boundary(p) PROVE SingleOwner'
    BY <1>3 DEF Boundary, Cancelled
  <1>4. ASSUME NEW p \in Procs, Execute(p) PROVE SingleOwner'
    BY <1>4 DEF Execute, StageReturns, StageWaits, StageDenies
  <1>5. ASSUME NEW p \in Procs, Checkpoint(p) PROVE SingleOwner'
    BY <1>5 DEF Checkpoint
  <1>6. ASSUME NEW p \in Procs, ParkSave(p) PROVE SingleOwner'
    BY <1>6 DEF ParkSave
  <1>7. ASSUME NEW p \in Procs, ParkSchedule(p) PROVE SingleOwner'
    BY <1>7 DEF ParkSchedule, ContextInv, Done, Stages, NoCheckpoint, Contexts
  <1>8. ASSUME NEW p \in Procs, ParkStatus(p) PROVE SingleOwner'
    BY <1>8 DEF ParkStatus, EndWith, Return
  <1>9. ASSUME NEW p \in Procs, MarkCancelled(p) PROVE SingleOwner'
    BY <1>9 DEF MarkCancelled, EndWith, Return
  <1>10. ASSUME NEW p \in Procs, Fail(p) PROVE SingleOwner'
    BY <1>10 DEF Fail, EndWith, Return
  <1>11. ASSUME NEW p \in Procs, Complete(p) PROVE SingleOwner'
    BY <1>11 DEF Complete, EndWith, Return
  <1>12. ASSUME NEW p \in Procs, Satisfy(p) PROVE SingleOwner'
    <2>1. PICK s \in JoinStages : s = msg[p][1]
      BY <1>12 DEF Satisfy, ContextInv
    <2>2. CASE pending[s] > 0 /\ Count(s) >= Expected
      <3>1. pc' = [pc EXCEPT ![p] = "claimed"] /\ pending' = [pending EXCEPT ![s] = pending[s] - 1]
        BY <1>12, <2>1, <2>2 DEF Satisfy
      <3>2. \A t \in Stages : pending'[t] = 0
        BY <2>2, <3>1 DEF TypeOK, SingleOwner
      <3>3. status # "none"
        BY <2>2 DEF NewRunInv
      <3> QED
        BY <1>12, <2>2, <3>1, <3>2, <3>3 DEF Satisfy
    <2>3. CASE ~(pending[s] > 0 /\ Count(s) >= Expected)
      <3>1. pc' = [pc EXCEPT ![p] = "idle"] /\ pending' = pending
        BY <1>12, <2>1, <2>3 DEF Satisfy, Return
      <3> QED
        BY <1>12, <3>1 DEF Satisfy
    <2> QED
      BY <2>2, <2>3
  <1>13. ASSUME NEW p \in Procs, DueJoins(p) PROVE SingleOwner'
    <2> DEFINE due == {t \in JoinStages : pending[t] > 0 /\ Count(t) >= Expected}
    <2>1. pending' = [t \in Stages |-> IF t \in due THEN 0 ELSE pending[t]]
      BY <1>13 DEF DueJoins
    <2>2. CASE due = {}
      <3>1. \A t \in Stages : pending'[t] = pending[t]
        BY <2>1, <2>2
      <3>2. pc' = [pc EXCEPT ![p] = IF pc[p] = "tick_joins" THEN "idle" ELSE "claimed"]
        BY <1>13, <2>2 DEF DueJoins
      <3> QED
        BY <1>13, <3>1, <3>2 DEF DueJoins
    <2>3. CASE due # {}
      <3>1. PICK s \in Stages : s \in due /\ pending[s] > 0
        BY <2>3
      <3>2. pc' = [pc EXCEPT ![p] = "claimed"]
        BY <1>13, <2>3 DEF DueJoins
      <3>3. \A t \in Stages : pending'[t] = 0
        BY <2>1, <3>1 DEF SingleOwner
      <3>4. status # "none"
        BY <3>1 DEF NewRunInv
      <3> QED
        BY <1>13, <3>1, <3>2, <3>3, <3>4 DEF DueJoins
    <2> QED
      BY <2>2, <2>3
  <1>14. ASSUME NEW p \in Procs, ResumeCallback(p) PROVE SingleOwner'
    BY <1>14 DEF ResumeCallback, Return
  <1>15. ASSUME NEW p \in Procs, Load(p) PROVE SingleOwner'
    BY <1>15 DEF Load
  <1>16. ASSUME NEW p \in Collectors, NEW t \in Tasks, Collect(p, t) PROVE SingleOwner'
    BY <1>16 DEF Collect
  <1>17. ASSUME NEW p \in Pollers, DueTimers(p) PROVE SingleOwner'
    <2> DEFINE due == {t \in TimerStages \cap elapsed : pending[t] > 0}
    <2>1. pending' = [t \in Stages |-> IF t \in due THEN 0 ELSE pending[t]]
      BY <1>17 DEF DueTimers
    <2>2. CASE due = {}
      <3>1. \A t \in Stages : pending'[t] = pending[t]
        BY <2>1, <2>2
      <3>2. pc' = [pc EXCEPT ![p] = "tick_joins"]
        BY <1>17, <2>2 DEF DueTimers
      <3> QED
        BY <1>17, <3>1, <3>2 DEF DueTimers
    <2>3. CASE due # {}
      <3>1. PICK s \in Stages : s \in due /\ pending[s] > 0
        BY <2>3
      <3>2. pc' = [pc EXCEPT ![p] = "tick_joins_due"]
        BY <1>17, <2>3 DEF DueTimers
      <3>3. \A t \in Stages : pending'[t] = 0
        BY <2>1, <3>1 DEF SingleOwner
      <3>4. status # "none"
        BY <3>1 DEF NewRunInv
      <3> QED
        BY <1>17, <3>1, <3>2, <3>3, <3>4 DEF DueTimers
    <2> QED
      BY <2>2, <2>3
  <1>18. ASSUME NEW p \in Callers, NEW s \in EventStages, NEW c \in EventCallers, FireEvent(p, s, c) PROVE SingleOwner'
    BY <1>18 DEF FireEvent
  <1>19. ASSUME NEW w \in Workers, NEW t \in Tasks, WorkerTake(w, t) PROVE SingleOwner'
    BY <1>19 DEF WorkerTake
  <1>20. ASSUME NEW w \in Workers, WorkerFinish(w) PROVE SingleOwner'
    BY <1>20 DEF WorkerFinish
  <1>21. ASSUME NEW s \in TimerStages, Elapse(s) PROVE SingleOwner'
    BY <1>21 DEF Elapse
  <1>22. ASSUME CancelFlag PROVE SingleOwner'
    BY <1>22 DEF CancelFlag
  <1>23. ASSUME CancelRead PROVE SingleOwner'
    BY <1>23 DEF CancelRead
  <1>24. ASSUME CancelFinalize PROVE SingleOwner'
    BY <1>24 DEF CancelFinalize
  <1>25. ASSUME CancelWakeups PROVE SingleOwner'
    BY <1>25 DEF CancelWakeups, NoPending
  <1>26. ASSUME NEW p \in Procs, Crash(p) PROVE SingleOwner'
    BY <1>26 DEF Crash
  <1>27. ASSUME NEW w \in Workers, WorkerCrash(w) PROVE SingleOwner'
    BY <1>27 DEF WorkerCrash
  <1>28. CASE UNCHANGED vars
    BY <1>28 DEF vars
  <1> QED
    BY <1>1, <1>2, <1>3, <1>4, <1>5, <1>6, <1>7, <1>8, <1>9, <1>10, <1>11, <1>12, <1>13, <1>14, <1>15, <1>16, <1>17, <1>18, <1>19, <1>20, <1>21, <1>22, <1>23, <1>24, <1>25, <1>26, <1>27, <1>28
       DEF Next, Continue, Work, Cancel

\* Only run() leaves the state in which the run does not exist.
LEMMA NewRunStep == TypeOK /\ SingleOwner /\ NewRunInv /\ ContextInv /\ [Next]_vars => NewRunInv'
  <1> SUFFICES ASSUME TypeOK, SingleOwner, NewRunInv, ContextInv, [Next]_vars PROVE NewRunInv'
    OBVIOUS
  <1> USE ConstantsAssumption, StageFacts
      DEF TypeOK, NewRunInv, Points, Procs, Goto, runVars, brokerVars, procVars, envVars, histVars
  <1>1. ASSUME NEW p \in Callers, Start(p) PROVE NewRunInv'
    BY <1>1 DEF Start, NewContext
  <1>2. ASSUME NEW p \in Procs, SetRunning(p) PROVE NewRunInv'
    BY <1>2 DEF SetRunning
  <1>3. ASSUME NEW p \in Procs, Boundary(p) PROVE NewRunInv'
    BY <1>3 DEF Boundary, Cancelled
  <1>4. ASSUME NEW p \in Procs, Execute(p) PROVE NewRunInv'
    BY <1>4 DEF Execute, StageReturns, StageWaits, StageDenies
  <1>5. ASSUME NEW p \in Procs, Checkpoint(p) PROVE NewRunInv'
    BY <1>5 DEF Checkpoint
  <1>6. ASSUME NEW p \in Procs, ParkSave(p) PROVE NewRunInv'
    BY <1>6 DEF ParkSave
  <1>7. ASSUME NEW p \in Procs, ParkSchedule(p) PROVE NewRunInv'
    BY <1>7 DEF ParkSchedule, ContextInv, Done, Stages, NoCheckpoint
  <1>8. ASSUME NEW p \in Procs, ParkStatus(p) PROVE NewRunInv'
    BY <1>8 DEF ParkStatus, EndWith, Return
  <1>9. ASSUME NEW p \in Procs, MarkCancelled(p) PROVE NewRunInv'
    BY <1>9 DEF MarkCancelled, EndWith, Return
  <1>10. ASSUME NEW p \in Procs, Fail(p) PROVE NewRunInv'
    BY <1>10 DEF Fail, EndWith, Return
  <1>11. ASSUME NEW p \in Procs, Complete(p) PROVE NewRunInv'
    BY <1>11 DEF Complete, EndWith, Return
  <1>12. ASSUME NEW p \in Procs, Satisfy(p) PROVE NewRunInv'
    <2>1. PICK s \in JoinStages : s = msg[p][1]
      BY <1>12 DEF Satisfy, ContextInv
    <2>2. CASE pending[s] > 0 /\ Count(s) >= Expected
      <3>1. pc' = [pc EXCEPT ![p] = "claimed"] /\ pending' = [pending EXCEPT ![s] = pending[s] - 1]
        BY <1>12, <2>1, <2>2 DEF Satisfy
      <3>2. \A t \in Stages : pending'[t] = 0
        BY <2>2, <3>1 DEF TypeOK, SingleOwner
      <3>3. status # "none"
        BY <2>2 DEF NewRunInv
      <3> QED
        BY <1>12, <2>2, <3>1, <3>2, <3>3 DEF Satisfy
    <2>3. CASE ~(pending[s] > 0 /\ Count(s) >= Expected)
      <3>1. pc' = [pc EXCEPT ![p] = "idle"] /\ pending' = pending
        BY <1>12, <2>1, <2>3 DEF Satisfy, Return
      <3> QED
        BY <1>12, <3>1 DEF Satisfy
    <2> QED
      BY <2>2, <2>3
  <1>13. ASSUME NEW p \in Procs, DueJoins(p) PROVE NewRunInv'
    <2> DEFINE due == {t \in JoinStages : pending[t] > 0 /\ Count(t) >= Expected}
    <2>1. pending' = [t \in Stages |-> IF t \in due THEN 0 ELSE pending[t]]
      BY <1>13 DEF DueJoins
    <2>2. CASE due = {}
      <3>1. \A t \in Stages : pending'[t] = pending[t]
        BY <2>1, <2>2
      <3>2. pc' = [pc EXCEPT ![p] = IF pc[p] = "tick_joins" THEN "idle" ELSE "claimed"]
        BY <1>13, <2>2 DEF DueJoins
      <3> QED
        BY <1>13, <3>1, <3>2 DEF DueJoins
    <2>3. CASE due # {}
      <3>1. PICK s \in Stages : s \in due /\ pending[s] > 0
        BY <2>3
      <3>2. pc' = [pc EXCEPT ![p] = "claimed"]
        BY <1>13, <2>3 DEF DueJoins
      <3>3. \A t \in Stages : pending'[t] = 0
        BY <2>1, <3>1 DEF SingleOwner
      <3>4. status # "none"
        BY <3>1 DEF NewRunInv
      <3> QED
        BY <1>13, <3>1, <3>2, <3>3, <3>4 DEF DueJoins
    <2> QED
      BY <2>2, <2>3
  <1>14. ASSUME NEW p \in Procs, ResumeCallback(p) PROVE NewRunInv'
    BY <1>14 DEF ResumeCallback, Return
  <1>15. ASSUME NEW p \in Procs, Load(p) PROVE NewRunInv'
    BY <1>15 DEF Load
  <1>16. ASSUME NEW p \in Collectors, NEW t \in Tasks, Collect(p, t) PROVE NewRunInv'
    BY <1>16 DEF Collect
  <1>17. ASSUME NEW p \in Pollers, DueTimers(p) PROVE NewRunInv'
    <2> DEFINE due == {t \in TimerStages \cap elapsed : pending[t] > 0}
    <2>1. pending' = [t \in Stages |-> IF t \in due THEN 0 ELSE pending[t]]
      BY <1>17 DEF DueTimers
    <2>2. CASE due = {}
      <3>1. \A t \in Stages : pending'[t] = pending[t]
        BY <2>1, <2>2
      <3>2. pc' = [pc EXCEPT ![p] = "tick_joins"]
        BY <1>17, <2>2 DEF DueTimers
      <3> QED
        BY <1>17, <3>1, <3>2 DEF DueTimers
    <2>3. CASE due # {}
      <3>1. PICK s \in Stages : s \in due /\ pending[s] > 0
        BY <2>3
      <3>2. pc' = [pc EXCEPT ![p] = "tick_joins_due"]
        BY <1>17, <2>3 DEF DueTimers
      <3>3. \A t \in Stages : pending'[t] = 0
        BY <2>1, <3>1 DEF SingleOwner
      <3>4. status # "none"
        BY <3>1 DEF NewRunInv
      <3> QED
        BY <1>17, <3>1, <3>2, <3>3, <3>4 DEF DueTimers
    <2> QED
      BY <2>2, <2>3
  <1>18. ASSUME NEW p \in Callers, NEW s \in EventStages, NEW c \in EventCallers, FireEvent(p, s, c) PROVE NewRunInv'
    BY <1>18 DEF FireEvent
  <1>19. ASSUME NEW w \in Workers, NEW t \in Tasks, WorkerTake(w, t) PROVE NewRunInv'
    BY <1>19 DEF WorkerTake
  <1>20. ASSUME NEW w \in Workers, WorkerFinish(w) PROVE NewRunInv'
    BY <1>20 DEF WorkerFinish
  <1>21. ASSUME NEW s \in TimerStages, Elapse(s) PROVE NewRunInv'
    BY <1>21 DEF Elapse
  <1>22. ASSUME CancelFlag PROVE NewRunInv'
    BY <1>22 DEF CancelFlag
  <1>23. ASSUME CancelRead PROVE NewRunInv'
    BY <1>23 DEF CancelRead
  <1>24. ASSUME CancelFinalize PROVE NewRunInv'
    BY <1>24 DEF CancelFinalize
  <1>25. ASSUME CancelWakeups PROVE NewRunInv'
    BY <1>25 DEF CancelWakeups, NoPending
  <1>26. ASSUME NEW p \in Procs, Crash(p) PROVE NewRunInv'
    BY <1>26 DEF Crash
  <1>27. ASSUME NEW w \in Workers, WorkerCrash(w) PROVE NewRunInv'
    BY <1>27 DEF WorkerCrash
  <1>28. CASE UNCHANGED vars
    BY <1>28 DEF vars
  <1> QED
    BY <1>1, <1>2, <1>3, <1>4, <1>5, <1>6, <1>7, <1>8, <1>9, <1>10, <1>11, <1>12, <1>13, <1>14, <1>15, <1>16, <1>17, <1>18, <1>19, <1>20, <1>21, <1>22, <1>23, <1>24, <1>25, <1>26, <1>27, <1>28
       DEF Next, Continue, Work, Cancel

\* A wakeup is scheduled after its checkpoint, and no one writes another while it waits.
LEMMA WakeStep == TypeOK /\ SingleOwner /\ WakeFindsItsCheckpoint /\ NewRunInv /\ ContextInv /\ [Next]_vars => WakeFindsItsCheckpoint'
  <1> SUFFICES ASSUME TypeOK, SingleOwner, WakeFindsItsCheckpoint, NewRunInv, ContextInv, [Next]_vars PROVE WakeFindsItsCheckpoint'
    OBVIOUS
  <1> USE ConstantsAssumption, StageFacts
      DEF TypeOK, SingleOwner, WakeFindsItsCheckpoint, Owns, OwnerPoints, Done, NoCheckpoint, Contexts, Points, Procs, Goto, runVars, brokerVars, procVars, envVars, histVars
  <1>1. ASSUME NEW p \in Callers, Start(p) PROVE WakeFindsItsCheckpoint'
    BY <1>1 DEF Start, NewRunInv, NewContext
  <1>2. ASSUME NEW p \in Procs, SetRunning(p) PROVE WakeFindsItsCheckpoint'
    BY <1>2 DEF SetRunning
  <1>3. ASSUME NEW p \in Procs, Boundary(p) PROVE WakeFindsItsCheckpoint'
    BY <1>3 DEF Boundary, Cancelled
  <1>4. ASSUME NEW p \in Procs, Execute(p) PROVE WakeFindsItsCheckpoint'
    BY <1>4 DEF Execute, StageReturns, StageWaits, StageDenies
  <1>5. ASSUME NEW p \in Procs, Checkpoint(p) PROVE WakeFindsItsCheckpoint'
    BY <1>5 DEF Checkpoint
  <1>6. ASSUME NEW p \in Procs, ParkSave(p) PROVE WakeFindsItsCheckpoint'
    BY <1>6 DEF ParkSave
  <1>7. ASSUME NEW p \in Procs, ParkSchedule(p) PROVE WakeFindsItsCheckpoint'
    BY <1>7 DEF ParkSchedule, ContextInv, Stages
  <1>8. ASSUME NEW p \in Procs, ParkStatus(p) PROVE WakeFindsItsCheckpoint'
    BY <1>8 DEF ParkStatus, EndWith, Return
  <1>9. ASSUME NEW p \in Procs, MarkCancelled(p) PROVE WakeFindsItsCheckpoint'
    BY <1>9 DEF MarkCancelled, EndWith, Return
  <1>10. ASSUME NEW p \in Procs, Fail(p) PROVE WakeFindsItsCheckpoint'
    BY <1>10 DEF Fail, EndWith, Return
  <1>11. ASSUME NEW p \in Procs, Complete(p) PROVE WakeFindsItsCheckpoint'
    BY <1>11 DEF Complete, EndWith, Return
  <1>12. ASSUME NEW p \in Procs, Satisfy(p) PROVE WakeFindsItsCheckpoint'
    <2>1. PICK s \in JoinStages : s = msg[p][1]
      BY <1>12 DEF Satisfy, ContextInv
    <2>2. CASE pending[s] > 0 /\ Count(s) >= Expected
      <3>1. pc' = [pc EXCEPT ![p] = "claimed"] /\ pending' = [pending EXCEPT ![s] = pending[s] - 1]
        BY <1>12, <2>1, <2>2 DEF Satisfy
      <3>2. \A t \in Stages : pending'[t] = 0
        BY <2>2, <3>1 DEF TypeOK, SingleOwner
      <3>3. status # "none"
        BY <2>2 DEF NewRunInv
      <3> QED
        BY <1>12, <2>2, <3>1, <3>2, <3>3 DEF Satisfy
    <2>3. CASE ~(pending[s] > 0 /\ Count(s) >= Expected)
      <3>1. pc' = [pc EXCEPT ![p] = "idle"] /\ pending' = pending
        BY <1>12, <2>1, <2>3 DEF Satisfy, Return
      <3> QED
        BY <1>12, <3>1 DEF Satisfy
    <2> QED
      BY <2>2, <2>3
  <1>13. ASSUME NEW p \in Procs, DueJoins(p) PROVE WakeFindsItsCheckpoint'
    <2> DEFINE due == {t \in JoinStages : pending[t] > 0 /\ Count(t) >= Expected}
    <2>1. pending' = [t \in Stages |-> IF t \in due THEN 0 ELSE pending[t]]
      BY <1>13 DEF DueJoins
    <2>2. CASE due = {}
      <3>1. \A t \in Stages : pending'[t] = pending[t]
        BY <2>1, <2>2
      <3>2. pc' = [pc EXCEPT ![p] = IF pc[p] = "tick_joins" THEN "idle" ELSE "claimed"]
        BY <1>13, <2>2 DEF DueJoins
      <3> QED
        BY <1>13, <3>1, <3>2 DEF DueJoins
    <2>3. CASE due # {}
      <3>1. PICK s \in Stages : s \in due /\ pending[s] > 0
        BY <2>3
      <3>2. pc' = [pc EXCEPT ![p] = "claimed"]
        BY <1>13, <2>3 DEF DueJoins
      <3>3. \A t \in Stages : pending'[t] = 0
        BY <2>1, <3>1 DEF SingleOwner
      <3>4. status # "none"
        BY <3>1 DEF NewRunInv
      <3> QED
        BY <1>13, <3>1, <3>2, <3>3, <3>4 DEF DueJoins
    <2> QED
      BY <2>2, <2>3
  <1>14. ASSUME NEW p \in Procs, ResumeCallback(p) PROVE WakeFindsItsCheckpoint'
    BY <1>14 DEF ResumeCallback, Return
  <1>15. ASSUME NEW p \in Procs, Load(p) PROVE WakeFindsItsCheckpoint'
    BY <1>15 DEF Load
  <1>16. ASSUME NEW p \in Collectors, NEW t \in Tasks, Collect(p, t) PROVE WakeFindsItsCheckpoint'
    BY <1>16 DEF Collect
  <1>17. ASSUME NEW p \in Pollers, DueTimers(p) PROVE WakeFindsItsCheckpoint'
    <2> DEFINE due == {t \in TimerStages \cap elapsed : pending[t] > 0}
    <2>1. pending' = [t \in Stages |-> IF t \in due THEN 0 ELSE pending[t]]
      BY <1>17 DEF DueTimers
    <2>2. CASE due = {}
      <3>1. \A t \in Stages : pending'[t] = pending[t]
        BY <2>1, <2>2
      <3>2. pc' = [pc EXCEPT ![p] = "tick_joins"]
        BY <1>17, <2>2 DEF DueTimers
      <3> QED
        BY <1>17, <3>1, <3>2 DEF DueTimers
    <2>3. CASE due # {}
      <3>1. PICK s \in Stages : s \in due /\ pending[s] > 0
        BY <2>3
      <3>2. pc' = [pc EXCEPT ![p] = "tick_joins_due"]
        BY <1>17, <2>3 DEF DueTimers
      <3>3. \A t \in Stages : pending'[t] = 0
        BY <2>1, <3>1 DEF SingleOwner
      <3>4. status # "none"
        BY <3>1 DEF NewRunInv
      <3> QED
        BY <1>17, <3>1, <3>2, <3>3, <3>4 DEF DueTimers
    <2> QED
      BY <2>2, <2>3
  <1>18. ASSUME NEW p \in Callers, NEW s \in EventStages, NEW c \in EventCallers, FireEvent(p, s, c) PROVE WakeFindsItsCheckpoint'
    BY <1>18 DEF FireEvent
  <1>19. ASSUME NEW w \in Workers, NEW t \in Tasks, WorkerTake(w, t) PROVE WakeFindsItsCheckpoint'
    BY <1>19 DEF WorkerTake
  <1>20. ASSUME NEW w \in Workers, WorkerFinish(w) PROVE WakeFindsItsCheckpoint'
    BY <1>20 DEF WorkerFinish
  <1>21. ASSUME NEW s \in TimerStages, Elapse(s) PROVE WakeFindsItsCheckpoint'
    BY <1>21 DEF Elapse
  <1>22. ASSUME CancelFlag PROVE WakeFindsItsCheckpoint'
    BY <1>22 DEF CancelFlag
  <1>23. ASSUME CancelRead PROVE WakeFindsItsCheckpoint'
    BY <1>23 DEF CancelRead
  <1>24. ASSUME CancelFinalize PROVE WakeFindsItsCheckpoint'
    BY <1>24 DEF CancelFinalize
  <1>25. ASSUME CancelWakeups PROVE WakeFindsItsCheckpoint'
    BY <1>25 DEF CancelWakeups, NoPending
  <1>26. ASSUME NEW p \in Procs, Crash(p) PROVE WakeFindsItsCheckpoint'
    BY <1>26 DEF Crash
  <1>27. ASSUME NEW w \in Workers, WorkerCrash(w) PROVE WakeFindsItsCheckpoint'
    BY <1>27 DEF WorkerCrash
  <1>28. CASE UNCHANGED vars
    BY <1>28 DEF vars
  <1> QED
    BY <1>1, <1>2, <1>3, <1>4, <1>5, <1>6, <1>7, <1>8, <1>9, <1>10, <1>11, <1>12, <1>13, <1>14, <1>15, <1>16, <1>17, <1>18, <1>19, <1>20, <1>21, <1>22, <1>23, <1>24, <1>25, <1>26, <1>27, <1>28
       DEF Next, Continue, Work, Cancel

\* The context of the owner and the durable checkpoint move together.
LEMMA ContextStep == TypeOK /\ SingleOwner /\ WakeFindsItsCheckpoint /\ NewRunInv /\ ContextInv /\ [Next]_vars => ContextInv'
  <1> SUFFICES ASSUME TypeOK, SingleOwner, WakeFindsItsCheckpoint, NewRunInv, ContextInv, [Next]_vars PROVE ContextInv'
    OBVIOUS
  <1> USE ConstantsAssumption, StageFacts
      DEF TypeOK, SingleOwner, ContextInv, Owns, OwnerPoints, Done, NoCheckpoint, Contexts, Points, Procs, Goto, runVars, brokerVars, procVars, envVars, histVars
  <1>1. ASSUME NEW p \in Callers, Start(p) PROVE ContextInv'
    BY <1>1 DEF Start, NewRunInv, NewContext
  <1>2. ASSUME NEW p \in Procs, SetRunning(p) PROVE ContextInv'
    BY <1>2 DEF SetRunning
  <1>3. ASSUME NEW p \in Procs, Boundary(p) PROVE ContextInv'
    BY <1>3 DEF Boundary, Cancelled
  <1>4. ASSUME NEW p \in Procs, Execute(p) PROVE ContextInv'
    <2> USE DEF Execute, Current, Stages
    <2>1. sc[p].done = Done /\ sc[p].done + 1 \in Stages /\ sc[p].parked <= sc[p].done + 1
      BY <1>4
    <2>2. \A q \in Procs : q # p => pc[q] \notin OwnerPoints
      BY <1>4
    <2>3. CASE StageReturns(p)
      BY <1>4, <2>1, <2>2, <2>3 DEF StageReturns
    <2>4. CASE StageWaits(p)
      <3>1. sc' = [sc EXCEPT ![p].parked = sc[p].done + 1] /\ pc' = [pc EXCEPT ![p] = "park_save"]
        BY <2>4 DEF StageWaits
      <3> QED
        BY <1>4, <2>1, <2>2, <3>1
    <2>5. CASE StageDenies(p)
      BY <1>4, <2>1, <2>2, <2>5 DEF StageDenies
    <2> QED
      BY <1>4, <2>3, <2>4, <2>5
  <1>5. ASSUME NEW p \in Procs, Checkpoint(p) PROVE ContextInv'
    BY <1>5 DEF Checkpoint
  <1>6. ASSUME NEW p \in Procs, ParkSave(p) PROVE ContextInv'
    BY <1>6 DEF ParkSave
  <1>7. ASSUME NEW p \in Procs, ParkSchedule(p) PROVE ContextInv'
    BY <1>7 DEF ParkSchedule, ContextInv, Done, Stages, NoCheckpoint
  <1>8. ASSUME NEW p \in Procs, ParkStatus(p) PROVE ContextInv'
    BY <1>8 DEF ParkStatus, EndWith, Return
  <1>9. ASSUME NEW p \in Procs, MarkCancelled(p) PROVE ContextInv'
    BY <1>9 DEF MarkCancelled, EndWith, Return
  <1>10. ASSUME NEW p \in Procs, Fail(p) PROVE ContextInv'
    BY <1>10 DEF Fail, EndWith, Return
  <1>11. ASSUME NEW p \in Procs, Complete(p) PROVE ContextInv'
    BY <1>11 DEF Complete, EndWith, Return
  <1>12. ASSUME NEW p \in Procs, Satisfy(p) PROVE ContextInv'
    <2>1. PICK s \in JoinStages : s = msg[p][1]
      BY <1>12 DEF Satisfy, ContextInv
    <2>2. CASE pending[s] > 0 /\ Count(s) >= Expected
      <3>1. pc' = [pc EXCEPT ![p] = "claimed"] /\ pending' = [pending EXCEPT ![s] = pending[s] - 1]
        BY <1>12, <2>1, <2>2 DEF Satisfy
      <3>2. \A t \in Stages : pending'[t] = 0
        BY <2>2, <3>1 DEF TypeOK, SingleOwner
      <3>3. status # "none"
        BY <2>2 DEF NewRunInv
      <3> QED
        BY <1>12, <2>2, <3>1, <3>2, <3>3 DEF Satisfy
    <2>3. CASE ~(pending[s] > 0 /\ Count(s) >= Expected)
      <3>1. pc' = [pc EXCEPT ![p] = "idle"] /\ pending' = pending
        BY <1>12, <2>1, <2>3 DEF Satisfy, Return
      <3> QED
        BY <1>12, <3>1 DEF Satisfy, Return
    <2> QED
      BY <2>2, <2>3
  <1>13. ASSUME NEW p \in Procs, DueJoins(p) PROVE ContextInv'
    <2> DEFINE due == {t \in JoinStages : pending[t] > 0 /\ Count(t) >= Expected}
    <2>1. pending' = [t \in Stages |-> IF t \in due THEN 0 ELSE pending[t]]
      BY <1>13 DEF DueJoins
    <2>2. CASE due = {}
      <3>1. \A t \in Stages : pending'[t] = pending[t]
        BY <2>1, <2>2
      <3>2. pc' = [pc EXCEPT ![p] = IF pc[p] = "tick_joins" THEN "idle" ELSE "claimed"]
        BY <1>13, <2>2 DEF DueJoins
      <3> QED
        BY <1>13, <3>1, <3>2 DEF DueJoins
    <2>3. CASE due # {}
      <3>1. PICK s \in Stages : s \in due /\ pending[s] > 0
        BY <2>3
      <3>2. pc' = [pc EXCEPT ![p] = "claimed"]
        BY <1>13, <2>3 DEF DueJoins
      <3>3. \A t \in Stages : pending'[t] = 0
        BY <2>1, <3>1 DEF SingleOwner
      <3>4. status # "none"
        BY <3>1 DEF NewRunInv
      <3> QED
        BY <1>13, <3>1, <3>2, <3>3, <3>4 DEF DueJoins
    <2> QED
      BY <2>2, <2>3
  <1>14. ASSUME NEW p \in Procs, ResumeCallback(p) PROVE ContextInv'
    BY <1>14 DEF ResumeCallback, Return
  <1>15. ASSUME NEW p \in Procs, Load(p) PROVE ContextInv'
    BY <1>15 DEF Load, WakeFindsItsCheckpoint
  <1>16. ASSUME NEW p \in Collectors, NEW t \in Tasks, Collect(p, t) PROVE ContextInv'
    BY <1>16 DEF Collect
  <1>17. ASSUME NEW p \in Pollers, DueTimers(p) PROVE ContextInv'
    <2> DEFINE due == {t \in TimerStages \cap elapsed : pending[t] > 0}
    <2>1. pending' = [t \in Stages |-> IF t \in due THEN 0 ELSE pending[t]]
      BY <1>17 DEF DueTimers
    <2>2. CASE due = {}
      <3>1. \A t \in Stages : pending'[t] = pending[t]
        BY <2>1, <2>2
      <3>2. pc' = [pc EXCEPT ![p] = "tick_joins"]
        BY <1>17, <2>2 DEF DueTimers
      <3> QED
        BY <1>17, <3>1, <3>2 DEF DueTimers
    <2>3. CASE due # {}
      <3>1. PICK s \in Stages : s \in due /\ pending[s] > 0
        BY <2>3
      <3>2. pc' = [pc EXCEPT ![p] = "tick_joins_due"]
        BY <1>17, <2>3 DEF DueTimers
      <3>3. \A t \in Stages : pending'[t] = 0
        BY <2>1, <3>1 DEF SingleOwner
      <3>4. status # "none"
        BY <3>1 DEF NewRunInv
      <3> QED
        BY <1>17, <3>1, <3>2, <3>3, <3>4 DEF DueTimers
    <2> QED
      BY <2>2, <2>3
  <1>18. ASSUME NEW p \in Callers, NEW s \in EventStages, NEW c \in EventCallers, FireEvent(p, s, c) PROVE ContextInv'
    BY <1>18 DEF FireEvent
  <1>19. ASSUME NEW w \in Workers, NEW t \in Tasks, WorkerTake(w, t) PROVE ContextInv'
    BY <1>19 DEF WorkerTake
  <1>20. ASSUME NEW w \in Workers, WorkerFinish(w) PROVE ContextInv'
    BY <1>20 DEF WorkerFinish
  <1>21. ASSUME NEW s \in TimerStages, Elapse(s) PROVE ContextInv'
    BY <1>21 DEF Elapse
  <1>22. ASSUME CancelFlag PROVE ContextInv'
    BY <1>22 DEF CancelFlag
  <1>23. ASSUME CancelRead PROVE ContextInv'
    BY <1>23 DEF CancelRead
  <1>24. ASSUME CancelFinalize PROVE ContextInv'
    BY <1>24 DEF CancelFinalize
  <1>25. ASSUME CancelWakeups PROVE ContextInv'
    BY <1>25 DEF CancelWakeups, NoPending
  <1>26. ASSUME NEW p \in Procs, Crash(p) PROVE ContextInv'
    BY <1>26 DEF Crash
  <1>27. ASSUME NEW w \in Workers, WorkerCrash(w) PROVE ContextInv'
    BY <1>27 DEF WorkerCrash
  <1>28. CASE UNCHANGED vars
    BY <1>28 DEF vars
  <1> QED
    BY <1>1, <1>2, <1>3, <1>4, <1>5, <1>6, <1>7, <1>8, <1>9, <1>10, <1>11, <1>12, <1>13, <1>14, <1>15, <1>16, <1>17, <1>18, <1>19, <1>20, <1>21, <1>22, <1>23, <1>24, <1>25, <1>26, <1>27, <1>28
       DEF Next, Continue, Work, Cancel

\* A gate is found waited for only by a process whose claim saw it open.
LEMMA GateStep == TypeOK /\ SingleOwner /\ WakeFindsItsCheckpoint /\ NewRunInv /\ ContextInv /\ GateInv /\ [Next]_vars => GateInv'
  <1> SUFFICES ASSUME TypeOK, SingleOwner, WakeFindsItsCheckpoint, NewRunInv, ContextInv, GateInv, [Next]_vars PROVE GateInv'
    OBVIOUS
  <1> USE ConstantsAssumption, StageFacts
      DEF TypeOK, SingleOwner, GateInv, Open, Owns, OwnerPoints, Done, NoCheckpoint, Contexts, Points, Procs, Goto, runVars, brokerVars, procVars, envVars, histVars
  <1>1. ASSUME NEW p \in Callers, Start(p) PROVE GateInv'
    BY <1>1 DEF Start, NewRunInv, NewContext
  <1>2. ASSUME NEW p \in Procs, SetRunning(p) PROVE GateInv'
    BY <1>2 DEF SetRunning
  <1>3. ASSUME NEW p \in Procs, Boundary(p) PROVE GateInv'
    BY <1>3 DEF Boundary, Cancelled
  <1>4. ASSUME NEW p \in Procs, Execute(p) PROVE GateInv'
    <2> USE DEF Execute, Current, Stages
    <2>1. sc[p].done + 1 \in Stages
      BY <1>4 DEF ContextInv
    <2>2. \A q \in Procs : q # p => pc[q] \notin OwnerPoints
      BY <1>4
    <2>3. CASE StageReturns(p)
      <3>1. Open(sc[p].done + 1)
        BY <1>4, <2>3 DEF StageReturns
      <3> QED
        BY <1>4, <2>1, <2>2, <2>3, <3>1 DEF StageReturns
    <2>4. CASE StageWaits(p)
      <3>1. pc' = [pc EXCEPT ![p] = "park_save"] /\ sc' = [sc EXCEPT ![p].parked = sc[p].done + 1]
        BY <2>4 DEF StageWaits
      <3> QED
        BY <1>4, <2>2, <3>1
    <2>5. CASE StageDenies(p)
      BY <1>4, <2>2, <2>5 DEF StageDenies
    <2> QED
      BY <1>4, <2>3, <2>4, <2>5
  <1>5. ASSUME NEW p \in Procs, Checkpoint(p) PROVE GateInv'
    BY <1>5 DEF Checkpoint, ContextInv
  <1>6. ASSUME NEW p \in Procs, ParkSave(p) PROVE GateInv'
    BY <1>6 DEF ParkSave, ContextInv
  <1>7. ASSUME NEW p \in Procs, ParkSchedule(p) PROVE GateInv'
    BY <1>7 DEF ParkSchedule, ContextInv, Done, Stages, NoCheckpoint
  <1>8. ASSUME NEW p \in Procs, ParkStatus(p) PROVE GateInv'
    BY <1>8 DEF ParkStatus, EndWith, Return
  <1>9. ASSUME NEW p \in Procs, MarkCancelled(p) PROVE GateInv'
    BY <1>9 DEF MarkCancelled, EndWith, Return
  <1>10. ASSUME NEW p \in Procs, Fail(p) PROVE GateInv'
    BY <1>10 DEF Fail, EndWith, Return
  <1>11. ASSUME NEW p \in Procs, Complete(p) PROVE GateInv'
    BY <1>11 DEF Complete, EndWith, Return
  <1>12. ASSUME NEW p \in Procs, Satisfy(p) PROVE GateInv'
    <2>1. PICK s \in JoinStages : s = msg[p][1]
      BY <1>12 DEF Satisfy, ContextInv
    <2>2. CASE pending[s] > 0 /\ Count(s) >= Expected
      <3>1. pc' = [pc EXCEPT ![p] = "claimed"] /\ pending' = [pending EXCEPT ![s] = pending[s] - 1]
        BY <1>12, <2>1, <2>2 DEF Satisfy
      <3>2. \A t \in Stages : pending'[t] = 0
        BY <2>2, <3>1 DEF TypeOK, SingleOwner
      <3>3. status # "none"
        BY <2>2 DEF NewRunInv
      <3> QED
        BY <1>12, <2>2, <3>1, <3>2, <3>3 DEF Satisfy, WakeFindsItsCheckpoint
    <2>3. CASE ~(pending[s] > 0 /\ Count(s) >= Expected)
      <3>1. pc' = [pc EXCEPT ![p] = "idle"] /\ pending' = pending
        BY <1>12, <2>1, <2>3 DEF Satisfy, Return
      <3> QED
        BY <1>12, <3>1 DEF Satisfy
    <2> QED
      BY <2>2, <2>3
  <1>13. ASSUME NEW p \in Procs, DueJoins(p) PROVE GateInv'
    <2> DEFINE due == {t \in JoinStages : pending[t] > 0 /\ Count(t) >= Expected}
    <2>1. pending' = [t \in Stages |-> IF t \in due THEN 0 ELSE pending[t]]
      BY <1>13 DEF DueJoins
    <2>2. CASE due = {}
      <3>1. \A t \in Stages : pending'[t] = pending[t]
        BY <2>1, <2>2
      <3>2. pc' = [pc EXCEPT ![p] = IF pc[p] = "tick_joins" THEN "idle" ELSE "claimed"]
        BY <1>13, <2>2 DEF DueJoins
      <3> QED
        BY <1>13, <3>1, <3>2 DEF DueJoins, WakeFindsItsCheckpoint
    <2>3. CASE due # {}
      <3>1. PICK s \in Stages : s \in due /\ pending[s] > 0
        BY <2>3
      <3>2. pc' = [pc EXCEPT ![p] = "claimed"]
        BY <1>13, <2>3 DEF DueJoins
      <3>3. \A t \in Stages : pending'[t] = 0
        BY <2>1, <3>1 DEF SingleOwner
      <3>4. status # "none"
        BY <3>1 DEF NewRunInv
      <3> QED
        BY <1>13, <3>1, <3>2, <3>3, <3>4 DEF DueJoins, WakeFindsItsCheckpoint
    <2> QED
      BY <2>2, <2>3
  <1>14. ASSUME NEW p \in Procs, ResumeCallback(p) PROVE GateInv'
    BY <1>14 DEF ResumeCallback, Return
  <1>15. ASSUME NEW p \in Procs, Load(p) PROVE GateInv'
    BY <1>15 DEF Load, WakeFindsItsCheckpoint
  <1>16. ASSUME NEW p \in Collectors, NEW t \in Tasks, Collect(p, t) PROVE GateInv'
    BY <1>16 DEF Collect
  <1>17. ASSUME NEW p \in Pollers, DueTimers(p) PROVE GateInv'
    <2> DEFINE due == {t \in TimerStages \cap elapsed : pending[t] > 0}
    <2>1. pending' = [t \in Stages |-> IF t \in due THEN 0 ELSE pending[t]]
      BY <1>17 DEF DueTimers
    <2>2. CASE due = {}
      <3>1. \A t \in Stages : pending'[t] = pending[t]
        BY <2>1, <2>2
      <3>2. pc' = [pc EXCEPT ![p] = "tick_joins"]
        BY <1>17, <2>2 DEF DueTimers
      <3> QED
        BY <1>17, <3>1, <3>2 DEF DueTimers, WakeFindsItsCheckpoint
    <2>3. CASE due # {}
      <3>1. PICK s \in Stages : s \in due /\ pending[s] > 0
        BY <2>3
      <3>2. pc' = [pc EXCEPT ![p] = "tick_joins_due"]
        BY <1>17, <2>3 DEF DueTimers
      <3>3. \A t \in Stages : pending'[t] = 0
        BY <2>1, <3>1 DEF SingleOwner
      <3>4. status # "none"
        BY <3>1 DEF NewRunInv
      <3> QED
        BY <1>17, <3>1, <3>2, <3>3, <3>4 DEF DueTimers, WakeFindsItsCheckpoint
    <2> QED
      BY <2>2, <2>3
  <1>18. ASSUME NEW p \in Callers, NEW s \in EventStages, NEW c \in EventCallers, FireEvent(p, s, c) PROVE GateInv'
    BY <1>18 DEF FireEvent, WakeFindsItsCheckpoint
  <1>19. ASSUME NEW w \in Workers, NEW t \in Tasks, WorkerTake(w, t) PROVE GateInv'
    BY <1>19 DEF WorkerTake
  <1>20. ASSUME NEW w \in Workers, WorkerFinish(w) PROVE GateInv'
    BY <1>20 DEF WorkerFinish
  <1>21. ASSUME NEW s \in TimerStages, Elapse(s) PROVE GateInv'
    BY <1>21 DEF Elapse
  <1>22. ASSUME CancelFlag PROVE GateInv'
    BY <1>22 DEF CancelFlag
  <1>23. ASSUME CancelRead PROVE GateInv'
    BY <1>23 DEF CancelRead
  <1>24. ASSUME CancelFinalize PROVE GateInv'
    BY <1>24 DEF CancelFinalize
  <1>25. ASSUME CancelWakeups PROVE GateInv'
    BY <1>25 DEF CancelWakeups, NoPending
  <1>26. ASSUME NEW p \in Procs, Crash(p) PROVE GateInv'
    BY <1>26 DEF Crash
  <1>27. ASSUME NEW w \in Workers, WorkerCrash(w) PROVE GateInv'
    BY <1>27 DEF WorkerCrash
  <1>28. CASE UNCHANGED vars
    BY <1>28 DEF vars
  <1> QED
    BY <1>1, <1>2, <1>3, <1>4, <1>5, <1>6, <1>7, <1>8, <1>9, <1>10, <1>11, <1>12, <1>13, <1>14, <1>15, <1>16, <1>17, <1>18, <1>19, <1>20, <1>21, <1>22, <1>23, <1>24, <1>25, <1>26, <1>27, <1>28
       DEF Next, Continue, Work, Cancel

\* After the flag is set no driver passes a stage boundary.
LEMMA CancelStep == TypeOK /\ SingleOwner /\ WakeFindsItsCheckpoint /\ NewRunInv /\ ContextInv /\ CancelInv /\ [Next]_vars => CancelInv'
  <1> SUFFICES ASSUME TypeOK, SingleOwner, WakeFindsItsCheckpoint, NewRunInv, ContextInv, CancelInv, [Next]_vars PROVE CancelInv'
    OBVIOUS
  <1> USE ConstantsAssumption, StageFacts
      DEF TypeOK, SingleOwner, CancelInv, Owns, OwnerPoints, Points, Procs, Goto, runVars, brokerVars, procVars, envVars, histVars
  <1>1. ASSUME NEW p \in Callers, Start(p) PROVE CancelInv'
    BY <1>1 DEF Start, NewContext
  <1>2. ASSUME NEW p \in Procs, SetRunning(p) PROVE CancelInv'
    BY <1>2 DEF SetRunning
  <1>3. ASSUME NEW p \in Procs, Boundary(p) PROVE CancelInv'
    BY <1>3 DEF Boundary, Cancelled
  <1>4. ASSUME NEW p \in Procs, Execute(p) PROVE CancelInv'
    BY <1>4 DEF Execute, StageReturns, StageWaits, StageDenies
  <1>5. ASSUME NEW p \in Procs, Checkpoint(p) PROVE CancelInv'
    BY <1>5 DEF Checkpoint
  <1>6. ASSUME NEW p \in Procs, ParkSave(p) PROVE CancelInv'
    BY <1>6 DEF ParkSave
  <1>7. ASSUME NEW p \in Procs, ParkSchedule(p) PROVE CancelInv'
    BY <1>7 DEF ParkSchedule, ContextInv, Done, Stages, NoCheckpoint
  <1>8. ASSUME NEW p \in Procs, ParkStatus(p) PROVE CancelInv'
    BY <1>8 DEF ParkStatus, EndWith, Return
  <1>9. ASSUME NEW p \in Procs, MarkCancelled(p) PROVE CancelInv'
    BY <1>9 DEF MarkCancelled, EndWith, Return
  <1>10. ASSUME NEW p \in Procs, Fail(p) PROVE CancelInv'
    BY <1>10 DEF Fail, EndWith, Return
  <1>11. ASSUME NEW p \in Procs, Complete(p) PROVE CancelInv'
    BY <1>11 DEF Complete, EndWith, Return
  <1>12. ASSUME NEW p \in Procs, Satisfy(p) PROVE CancelInv'
    <2>1. PICK s \in JoinStages : s = msg[p][1]
      BY <1>12 DEF Satisfy, ContextInv
    <2>2. CASE pending[s] > 0 /\ Count(s) >= Expected
      <3>1. pc' = [pc EXCEPT ![p] = "claimed"] /\ pending' = [pending EXCEPT ![s] = pending[s] - 1]
        BY <1>12, <2>1, <2>2 DEF Satisfy
      <3>2. \A t \in Stages : pending'[t] = 0
        BY <2>2, <3>1 DEF TypeOK, SingleOwner
      <3>3. status # "none"
        BY <2>2 DEF NewRunInv
      <3> QED
        BY <1>12, <2>2, <3>1, <3>2, <3>3 DEF Satisfy
    <2>3. CASE ~(pending[s] > 0 /\ Count(s) >= Expected)
      <3>1. pc' = [pc EXCEPT ![p] = "idle"] /\ pending' = pending
        BY <1>12, <2>1, <2>3 DEF Satisfy, Return
      <3> QED
        BY <1>12, <3>1 DEF Satisfy
    <2> QED
      BY <2>2, <2>3
  <1>13. ASSUME NEW p \in Procs, DueJoins(p) PROVE CancelInv'
    <2> DEFINE due == {t \in JoinStages : pending[t] > 0 /\ Count(t) >= Expected}
    <2>1. pending' = [t \in Stages |-> IF t \in due THEN 0 ELSE pending[t]]
      BY <1>13 DEF DueJoins
    <2>2. CASE due = {}
      <3>1. \A t \in Stages : pending'[t] = pending[t]
        BY <2>1, <2>2
      <3>2. pc' = [pc EXCEPT ![p] = IF pc[p] = "tick_joins" THEN "idle" ELSE "claimed"]
        BY <1>13, <2>2 DEF DueJoins
      <3> QED
        BY <1>13, <3>1, <3>2 DEF DueJoins
    <2>3. CASE due # {}
      <3>1. PICK s \in Stages : s \in due /\ pending[s] > 0
        BY <2>3
      <3>2. pc' = [pc EXCEPT ![p] = "claimed"]
        BY <1>13, <2>3 DEF DueJoins
      <3>3. \A t \in Stages : pending'[t] = 0
        BY <2>1, <3>1 DEF SingleOwner
      <3>4. status # "none"
        BY <3>1 DEF NewRunInv
      <3> QED
        BY <1>13, <3>1, <3>2, <3>3, <3>4 DEF DueJoins
    <2> QED
      BY <2>2, <2>3
  <1>14. ASSUME NEW p \in Procs, ResumeCallback(p) PROVE CancelInv'
    BY <1>14 DEF ResumeCallback, Return
  <1>15. ASSUME NEW p \in Procs, Load(p) PROVE CancelInv'
    BY <1>15 DEF Load
  <1>16. ASSUME NEW p \in Collectors, NEW t \in Tasks, Collect(p, t) PROVE CancelInv'
    BY <1>16 DEF Collect
  <1>17. ASSUME NEW p \in Pollers, DueTimers(p) PROVE CancelInv'
    <2> DEFINE due == {t \in TimerStages \cap elapsed : pending[t] > 0}
    <2>1. pending' = [t \in Stages |-> IF t \in due THEN 0 ELSE pending[t]]
      BY <1>17 DEF DueTimers
    <2>2. CASE due = {}
      <3>1. \A t \in Stages : pending'[t] = pending[t]
        BY <2>1, <2>2
      <3>2. pc' = [pc EXCEPT ![p] = "tick_joins"]
        BY <1>17, <2>2 DEF DueTimers
      <3> QED
        BY <1>17, <3>1, <3>2 DEF DueTimers
    <2>3. CASE due # {}
      <3>1. PICK s \in Stages : s \in due /\ pending[s] > 0
        BY <2>3
      <3>2. pc' = [pc EXCEPT ![p] = "tick_joins_due"]
        BY <1>17, <2>3 DEF DueTimers
      <3>3. \A t \in Stages : pending'[t] = 0
        BY <2>1, <3>1 DEF SingleOwner
      <3>4. status # "none"
        BY <3>1 DEF NewRunInv
      <3> QED
        BY <1>17, <3>1, <3>2, <3>3, <3>4 DEF DueTimers
    <2> QED
      BY <2>2, <2>3
  <1>18. ASSUME NEW p \in Callers, NEW s \in EventStages, NEW c \in EventCallers, FireEvent(p, s, c) PROVE CancelInv'
    BY <1>18 DEF FireEvent
  <1>19. ASSUME NEW w \in Workers, NEW t \in Tasks, WorkerTake(w, t) PROVE CancelInv'
    BY <1>19 DEF WorkerTake
  <1>20. ASSUME NEW w \in Workers, WorkerFinish(w) PROVE CancelInv'
    BY <1>20 DEF WorkerFinish
  <1>21. ASSUME NEW s \in TimerStages, Elapse(s) PROVE CancelInv'
    BY <1>21 DEF Elapse
  <1>22. ASSUME CancelFlag PROVE CancelInv'
    BY <1>22 DEF CancelFlag
  <1>23. ASSUME CancelRead PROVE CancelInv'
    BY <1>23 DEF CancelRead
  <1>24. ASSUME CancelFinalize PROVE CancelInv'
    BY <1>24 DEF CancelFinalize
  <1>25. ASSUME CancelWakeups PROVE CancelInv'
    BY <1>25 DEF CancelWakeups, NoPending
  <1>26. ASSUME NEW p \in Procs, Crash(p) PROVE CancelInv'
    BY <1>26 DEF Crash
  <1>27. ASSUME NEW w \in Workers, WorkerCrash(w) PROVE CancelInv'
    BY <1>27 DEF WorkerCrash
  <1>28. CASE UNCHANGED vars
    BY <1>28 DEF vars
  <1> QED
    BY <1>1, <1>2, <1>3, <1>4, <1>5, <1>6, <1>7, <1>8, <1>9, <1>10, <1>11, <1>12, <1>13, <1>14, <1>15, <1>16, <1>17, <1>18, <1>19, <1>20, <1>21, <1>22, <1>23, <1>24, <1>25, <1>26, <1>27, <1>28
       DEF Next, Continue, Work, Cancel

\* The conjunction holds before the run exists.
LEMMA InitInv == Init => OwnershipInv
  <1> SUFFICES ASSUME Init PROVE OwnershipInv
    OBVIOUS
  <1> USE ConstantsAssumption
      DEF Init, NewContext, NoCheckpoint, NoPending, Contexts, Points, RunStatus
  <1>1. TypeOK
    <2>1. NewContext \in Contexts /\ 0 \in 0..MaxCrashes
      OBVIOUS
    <2>2. pc \in [Procs -> Points] /\ sc \in [Procs -> Contexts]
      BY <2>1
    <2>3. pending \in [Stages -> Nat] /\ msg \in [Procs -> Tasks \cup {NoMsg}]
      OBVIOUS
    <2>4. worker \in [Workers -> Tasks \cup {NoMsg}]
      OBVIOUS
    <2> QED
      BY <2>1, <2>2, <2>3, <2>4 DEF TypeOK
  <1>2. SingleOwner /\ WakeFindsItsCheckpoint /\ NewRunInv /\ ContextInv
    BY DEF SingleOwner, Owns, OwnerPoints, WakeFindsItsCheckpoint, NewRunInv, ContextInv
  <1>3. GateInv /\ CancelInv
    BY StageFacts DEF GateInv, CancelInv, Done
  <1> QED
    BY <1>1, <1>2, <1>3 DEF OwnershipInv

\* The inductive invariant: who owns the run, which checkpoint its wakeup refers
\* to, how its context relates to that checkpoint, which gates are open and what
\* a cancellation still allows.
THEOREM Ownership == Spec => []OwnershipInv
  <1>1. OwnershipInv /\ [Next]_vars => OwnershipInv'
    BY TypeStep, OwnerStep, WakeStep, NewRunStep, ContextStep, GateStep, CancelStep
       DEF OwnershipInv
  <1> QED
    BY InitInv, <1>1, PTL DEF Spec

\* The variables keep their types, for every pipeline and every set of processes.
THEOREM TypeCorrect == Spec => []TypeOK
  <1>1. OwnershipInv => TypeOK
    BY DEF OwnershipInv
  <1> QED
    BY Ownership, <1>1, PTL

\* However collectors, pollers and event callers race for a wakeup, at most one
\* process drives the run, and none while a wakeup is pending.
THEOREM OneDriver == Spec => []SingleOwner
  <1>1. OwnershipInv => SingleOwner
    BY DEF OwnershipInv
  <1> QED
    BY Ownership, <1>1, PTL

\* A stage is executed only when the durable checkpoint records exactly the
\* stages before it: a resume neither repeats nor skips one.
THEOREM ExactResume == Spec => []ResumeIsExact
  <1>1. OwnershipInv => ResumeIsExact
    BY DEF OwnershipInv, ContextInv, ResumeIsExact
  <1> QED
    BY Ownership, <1>1, PTL

\* Whoever claims a wakeup finds the checkpoint saved for that wait.
THEOREM WakeIsBacked == Spec => []WakeFindsItsCheckpoint
  <1>1. OwnershipInv => WakeFindsItsCheckpoint
    BY DEF OwnershipInv
  <1> QED
    BY Ownership, <1>1, PTL

\* No timer gate is passed before its time and no event gate before its event.
THEOREM GatesHold == Spec => []GateHonoured
  <1>1. OwnershipInv => GateHonoured
    BY StageFacts DEF OwnershipInv, GateInv, GateHonoured, Open
  <1> QED
    BY Ownership, <1>1, PTL

\* After a cancellation request at most one more stage begins.
THEOREM CancelBound == Spec => []CancelStopsTheRun
  <1>1. OwnershipInv => CancelStopsTheRun
    BY DEF OwnershipInv, CancelInv, CancelStopsTheRun
  <1> QED
    BY Ownership, <1>1, PTL

\* A step that moves no owner, no wakeup and no checkpoint is invisible in the contract.
LEMMA Invisible ==
    ASSUME \A q \in Procs : Owns(q)' <=> Owns(q),
           \A s \in Stages : pending'[s] = pending[s],
           status' = "none" <=> status = "none",
           Done' = Done
    PROVE  UNCHANGED <<Mode, Done>>
  BY DEF Mode

\* The process that owns the run drives it, and it is the only one.
LEMMA Driven ==
    ASSUME OwnershipInv, NEW p \in Procs, Owns(p)
    PROVE  /\ Mode = "driven"
           /\ status # "none"
           /\ \A q \in Procs : q # p => ~Owns(q)
           /\ \A s \in Stages : pending[s] = 0
  BY DEF OwnershipInv, SingleOwner, NewRunInv, Mode, Owns, OwnerPoints

\* While a wakeup is pending nobody drives the run.
LEMMA Parked ==
    ASSUME OwnershipInv, NEW s \in Stages, pending[s] > 0
    PROVE  /\ Mode = "parked"
           /\ status # "none"
           /\ \A q \in Procs : ~Owns(q)
           /\ \A t \in Stages : t # s => pending[t] = 0
  <1>1. status # "none" /\ \A q \in Procs : ~Owns(q)
    BY DEF OwnershipInv, SingleOwner, NewRunInv
  <1>2. \A t \in Stages : t # s => pending[t] = 0
    BY DEF OwnershipInv, TypeOK, SingleOwner
  <1> QED
    BY <1>1, <1>2 DEF Mode

\* Every action is a step of RunContract or leaves its two variables alone.
LEMMA ContractStep == OwnershipInv /\ [Next]_vars => [Contract!Next]_(Contract!vars)
  <1> SUFFICES ASSUME OwnershipInv, [Next]_vars
               PROVE  Contract!Next \/ UNCHANGED <<Mode, Done>>
    BY DEF Contract!vars
  <1> DEFINE Goal == Contract!Next \/ UNCHANGED <<Mode, Done>>
  <1> USE ConstantsAssumption, StageFacts
      DEF OwnershipInv, TypeOK, Owns, OwnerPoints, Points, Procs, Goto, NewRunInv,
          runVars, brokerVars, procVars, envVars, histVars
  <1>1. ASSUME NEW p \in Callers, Start(p) PROVE Goal
    <2>1. Mode = "new" /\ Done' = Done
      BY <1>1 DEF Start, Mode, Done
    <2>2. Owns(p)' /\ status' # "none"
      BY <1>1 DEF Start
    <2>3. Mode' = "driven"
      BY <2>2 DEF Mode
    <2> QED
      BY <2>1, <2>3 DEF Contract!Next, Contract!Begin
  <1>2. ASSUME NEW p \in Procs, SetRunning(p) PROVE Goal
    BY <1>2, Invisible DEF SetRunning, Done
  <1>3. ASSUME NEW p \in Procs, Boundary(p) PROVE Goal
    BY <1>3, Invisible DEF Boundary, Done
  <1>4. ASSUME NEW p \in Procs, Execute(p) PROVE Goal
    BY <1>4, Invisible DEF Execute, StageReturns, StageWaits, StageDenies, Done
  <1>5. ASSUME NEW p \in Procs, Checkpoint(p) PROVE Goal
    <2>1. Mode = "driven"
      BY <1>5, Driven DEF Checkpoint
    <2>2. Owns(p)' /\ status' # "none"
      BY <1>5, Driven DEF Checkpoint
    <2>3. Mode' = "driven"
      BY <2>2 DEF Mode
    <2>4. Done' = Done + 1 /\ Done < NumStages
      BY <1>5 DEF Checkpoint, ContextInv, Done, Contexts, NoCheckpoint
    <2> QED
      BY <2>1, <2>3, <2>4 DEF Contract!Next, Contract!Advance
  <1>6. ASSUME NEW p \in Procs, ParkSave(p) PROVE Goal
    <2>1. Done' = Done
      BY <1>6 DEF ParkSave, ContextInv, Done, Contexts, NoCheckpoint
    <2> QED
      BY <1>6, <2>1, Invisible DEF ParkSave
  <1>7. ASSUME NEW p \in Procs, ParkSchedule(p) PROVE Goal
    <2>1. Mode = "driven" /\ status # "none" /\ \A q \in Procs : q # p => ~Owns(q)
      BY <1>7, Driven DEF ParkSchedule
    <2>2. sc[p].parked \in Stages /\ pending'[sc[p].parked] > 0
      BY <1>7 DEF ParkSchedule, ContextInv, Done, Contexts, NoCheckpoint, Stages
    <2>3. Done < NumStages
      BY <1>7, <2>2 DEF ParkSchedule, ContextInv, Done, Contexts, NoCheckpoint, Stages
    <2>4. \A q \in Procs : ~Owns(q)'
      BY <1>7, <2>1 DEF ParkSchedule
    <2>5. Mode' = "parked" /\ Done' = Done
      BY <1>7, <2>1, <2>2, <2>4 DEF ParkSchedule, Mode, Done
    <2> QED
      BY <2>1, <2>3, <2>5 DEF Contract!Next, Contract!Park
  <1>8. ASSUME NEW p \in Procs, ParkStatus(p) PROVE Goal
    BY <1>8, Invisible DEF ParkStatus, EndWith, Return, Done
  <1>9. ASSUME NEW p \in Procs, MarkCancelled(p) PROVE Goal
    <2>1. /\ Mode = "driven" /\ \A q \in Procs : q # p => ~Owns(q)
          /\ \A s \in Stages : pending[s] = 0
      BY <1>9, Driven DEF MarkCancelled, EndWith, Return
    <2>2. \A q \in Procs : ~Owns(q)'
      BY <1>9, <2>1 DEF MarkCancelled, EndWith, Return
    <2>3. Mode' = "over" /\ Done' = Done
      BY <1>9, <2>1, <2>2 DEF MarkCancelled, EndWith, Return, Mode, Done
    <2> QED
      BY <2>1, <2>3 DEF Contract!Next, Contract!Stop
  <1>10. ASSUME NEW p \in Procs, Fail(p) PROVE Goal
    <2>1. /\ Mode = "driven" /\ \A q \in Procs : q # p => ~Owns(q)
          /\ \A s \in Stages : pending[s] = 0
      BY <1>10, Driven DEF Fail, EndWith, Return
    <2>2. \A q \in Procs : ~Owns(q)'
      BY <1>10, <2>1 DEF Fail, EndWith, Return
    <2>3. Mode' = "over" /\ Done' = Done
      BY <1>10, <2>1, <2>2 DEF Fail, EndWith, Return, Mode, Done
    <2> QED
      BY <2>1, <2>3 DEF Contract!Next, Contract!Stop
  <1>11. ASSUME NEW p \in Procs, Complete(p) PROVE Goal
    <2>1. /\ Mode = "driven" /\ \A q \in Procs : q # p => ~Owns(q)
          /\ \A s \in Stages : pending[s] = 0
      BY <1>11, Driven DEF Complete, EndWith, Return
    <2>2. \A q \in Procs : ~Owns(q)'
      BY <1>11, <2>1 DEF Complete, EndWith, Return
    <2>3. Mode' = "over" /\ Done' = Done
      BY <1>11, <2>1, <2>2 DEF Complete, EndWith, Return, Mode, Done
    <2> QED
      BY <2>1, <2>3 DEF Contract!Next, Contract!Stop
  <1>12. ASSUME NEW p \in Procs, Satisfy(p) PROVE Goal
    <2>1. PICK s \in JoinStages : s = msg[p][1]
      BY <1>12 DEF Satisfy, ContextInv
    <2>2. CASE pending[s] > 0 /\ Count(s) >= Expected
      <3>1. pc' = [pc EXCEPT ![p] = "claimed"]
        BY <1>12, <2>1, <2>2 DEF Satisfy
      <3>2. Mode = "parked" /\ status # "none"
        BY <2>2, Parked
      <3>3. Owns(p)' /\ status' # "none" /\ Done' = Done
        BY <1>12, <3>1, <3>2 DEF Satisfy, Done
      <3>4. Mode' = "driven"
        BY <3>3 DEF Mode
      <3> QED
        BY <3>2, <3>3, <3>4 DEF Contract!Next, Contract!Wake
    <2>3. CASE ~(pending[s] > 0 /\ Count(s) >= Expected)
      <3>1. pc' = [pc EXCEPT ![p] = "idle"] /\ pending' = pending
        BY <1>12, <2>1, <2>3 DEF Satisfy, Return
      <3> QED
        BY <1>12, <3>1, Invisible DEF Satisfy, Done
    <2> QED
      BY <2>2, <2>3
  <1>13. ASSUME NEW p \in Procs, DueJoins(p) PROVE Goal
    <2> DEFINE due == {t \in JoinStages : pending[t] > 0 /\ Count(t) >= Expected}
    <2>1. pending' = [t \in Stages |-> IF t \in due THEN 0 ELSE pending[t]]
      BY <1>13 DEF DueJoins
    <2>2. CASE due = {}
      <3>1. \A t \in Stages : pending'[t] = pending[t]
        BY <2>1, <2>2
      <3>2. pc' = [pc EXCEPT ![p] = IF pc[p] = "tick_joins" THEN "idle" ELSE "claimed"]
        BY <1>13, <2>2 DEF DueJoins
      <3>3. \A q \in Procs : Owns(q)' <=> Owns(q)
        BY <1>13, <3>2 DEF DueJoins
      <3> QED
        BY <1>13, <3>1, <3>3, Invisible DEF DueJoins, Done
    <2>3. CASE due # {}
      <3>1. PICK s \in Stages : s \in due /\ pending[s] > 0
        BY <2>3
      <3>2. pc' = [pc EXCEPT ![p] = "claimed"]
        BY <1>13, <2>3 DEF DueJoins
      <3>3. Mode = "parked" /\ status # "none"
        BY <3>1, Parked
      <3>4. Owns(p)' /\ status' # "none" /\ Done' = Done
        BY <1>13, <3>2, <3>3 DEF DueJoins, Done
      <3>5. Mode' = "driven"
        BY <3>4 DEF Mode
      <3> QED
        BY <3>3, <3>4, <3>5 DEF Contract!Next, Contract!Wake
    <2> QED
      BY <2>2, <2>3
  <1>14. ASSUME NEW p \in Procs, ResumeCallback(p) PROVE Goal
    <2>1. CASE status \in Terminal
      <3>1. /\ Mode = "driven" /\ \A q \in Procs : q # p => ~Owns(q)
            /\ \A s \in Stages : pending[s] = 0
        BY <1>14, <2>1, Driven DEF ResumeCallback, Return
      <3>2. \A q \in Procs : ~Owns(q)'
        BY <1>14, <2>1, <3>1 DEF ResumeCallback, Return
      <3>3. Mode' = "over" /\ Done' = Done
        BY <1>14, <2>1, <3>1, <3>2 DEF ResumeCallback, Return, Mode, Done
      <3> QED
        BY <3>1, <3>3 DEF Contract!Next, Contract!Stop
    <2>2. CASE status \notin Terminal
      BY <1>14, <2>2, Invisible DEF ResumeCallback, Done
    <2> QED
      BY <2>1, <2>2
  <1>15. ASSUME NEW p \in Procs, Load(p) PROVE Goal
    BY <1>15, Invisible DEF Load, Done
  <1>16. ASSUME NEW p \in Collectors, NEW t \in Tasks, Collect(p, t) PROVE Goal
    BY <1>16, Invisible DEF Collect, Done
  <1>17. ASSUME NEW p \in Pollers, DueTimers(p) PROVE Goal
    <2> DEFINE due == {t \in TimerStages \cap elapsed : pending[t] > 0}
    <2>1. pending' = [t \in Stages |-> IF t \in due THEN 0 ELSE pending[t]]
      BY <1>17 DEF DueTimers
    <2>2. CASE due = {}
      <3>1. \A t \in Stages : pending'[t] = pending[t]
        BY <2>1, <2>2
      <3>2. pc' = [pc EXCEPT ![p] = "tick_joins"]
        BY <1>17, <2>2 DEF DueTimers
      <3>3. \A q \in Procs : Owns(q)' <=> Owns(q)
        BY <1>17, <3>2 DEF DueTimers
      <3> QED
        BY <1>17, <3>1, <3>3, Invisible DEF DueTimers, Done
    <2>3. CASE due # {}
      <3>1. PICK s \in Stages : s \in due /\ pending[s] > 0
        BY <2>3
      <3>2. pc' = [pc EXCEPT ![p] = "tick_joins_due"]
        BY <1>17, <2>3 DEF DueTimers
      <3>3. Mode = "parked" /\ status # "none"
        BY <3>1, Parked
      <3>4. Owns(p)' /\ status' # "none" /\ Done' = Done
        BY <1>17, <3>2, <3>3 DEF DueTimers, Done
      <3>5. Mode' = "driven"
        BY <3>4 DEF Mode
      <3> QED
        BY <3>3, <3>4, <3>5 DEF Contract!Next, Contract!Wake
    <2> QED
      BY <2>2, <2>3
  <1>18. ASSUME NEW p \in Callers, NEW s \in EventStages, NEW c \in EventCallers, FireEvent(p, s, c) PROVE Goal
    <2>1. CASE pending[s] = 0
      BY <1>18, <2>1, Invisible DEF FireEvent, Done
    <2>2. CASE pending[s] > 0 /\ c = "service"
      <3>1. pc' = [pc EXCEPT ![p] = "claimed"]
        BY <1>18, <2>2 DEF FireEvent
      <3>2. Mode = "parked" /\ status # "none"
        BY <2>2, Parked
      <3>3. Owns(p)' /\ status' # "none" /\ Done' = Done
        BY <1>18, <3>1, <3>2 DEF FireEvent, Done
      <3>4. Mode' = "driven"
        BY <3>3 DEF Mode
      <3> QED
        BY <3>2, <3>3, <3>4 DEF Contract!Next, Contract!Wake
    <2>3. CASE pending[s] > 0 /\ c # "service"
      <3>1. /\ Mode = "parked" /\ status # "none" /\ \A q \in Procs : ~Owns(q)
            /\ \A t \in Stages : t # s => pending[t] = 0
        BY <2>3, Parked
      <3>2. \A t \in Stages : pending'[t] = 0
        BY <1>18, <3>1 DEF FireEvent
      <3>3. Mode' = "over" /\ Done' = Done
        BY <1>18, <2>3, <3>1, <3>2 DEF FireEvent, Mode, Done
      <3> QED
        BY <3>1, <3>3 DEF Contract!Next, Contract!Stop
    <2> QED
      BY <2>1, <2>2, <2>3
  <1>19. ASSUME NEW w \in Workers, NEW t \in Tasks, WorkerTake(w, t) PROVE Goal
    BY <1>19, Invisible DEF WorkerTake, Done
  <1>20. ASSUME NEW w \in Workers, WorkerFinish(w) PROVE Goal
    BY <1>20, Invisible DEF WorkerFinish, Done
  <1>21. ASSUME NEW s \in TimerStages, Elapse(s) PROVE Goal
    BY <1>21, Invisible DEF Elapse, Done
  <1>22. ASSUME CancelFlag PROVE Goal
    BY <1>22, Invisible DEF CancelFlag, Done
  <1>23. ASSUME CancelRead PROVE Goal
    BY <1>23, Invisible DEF CancelRead, Done
  <1>24. ASSUME CancelFinalize PROVE Goal
    BY <1>24, Invisible DEF CancelFinalize, Done
  <1>25. ASSUME CancelWakeups PROVE Goal
    <2>1. /\ status # "none" /\ status' # "none" /\ Done' = Done
          /\ \A q \in Procs : Owns(q)' <=> Owns(q)
          /\ \A t \in Stages : pending'[t] = 0
      BY <1>25 DEF CancelWakeups, NoPending, Done
    <2>2. CASE \A t \in Stages : pending[t] = 0
      BY <2>1, <2>2, Invisible
    <2>3. CASE \E t \in Stages : pending[t] > 0
      <3>1. Mode = "parked" /\ \A q \in Procs : ~Owns(q)
        BY <2>3, Parked
      <3>2. Mode' = "over"
        BY <2>1, <3>1 DEF Mode
      <3> QED
        BY <2>1, <3>1, <3>2 DEF Contract!Next, Contract!Stop
    <2> QED
      BY <2>2, <2>3
  <1>26. ASSUME NEW p \in Procs, Crash(p) PROVE Goal
    <2>1. CASE ~Owns(p)
      BY <1>26, <2>1, Invisible DEF Crash, Done
    <2>2. CASE Owns(p)
      <3>1. /\ Mode = "driven" /\ \A q \in Procs : q # p => ~Owns(q)
            /\ \A s \in Stages : pending[s] = 0
        BY <1>26, <2>2, Driven DEF Crash
      <3>2. \A q \in Procs : ~Owns(q)'
        BY <1>26, <2>2, <3>1 DEF Crash
      <3>3. Mode' = "over" /\ Done' = Done
        BY <1>26, <2>2, <3>1, <3>2 DEF Crash, Mode, Done
      <3> QED
        BY <3>1, <3>3 DEF Contract!Next, Contract!Stop
    <2> QED
      BY <2>1, <2>2
  <1>27. ASSUME NEW w \in Workers, WorkerCrash(w) PROVE Goal
    BY <1>27, Invisible DEF WorkerCrash, Done
  <1>28. CASE UNCHANGED vars
    BY <1>28, Invisible DEF vars, Done
  <1> QED
    BY <1>1, <1>2, <1>3, <1>4, <1>5, <1>6, <1>7, <1>8, <1>9, <1>10, <1>11, <1>12, <1>13, <1>14, <1>15, <1>16, <1>17, <1>18, <1>19, <1>20, <1>21, <1>22, <1>23, <1>24, <1>25, <1>26, <1>27, <1>28
       DEF Next, Continue, Work, Cancel

\* The run lifecycle, with any number of drivers, collectors, pollers, workers and
\* crashes, implements the contract of a durable run.
THEOREM Refinement == Spec => ImplementsContract
  <1>1. Init => Contract!Init
    BY DEF Init, Contract!Init, Mode, Done
  <1>2. OwnershipInv /\ [Next]_vars => [Contract!Next]_(Contract!vars)
    BY ContractStep
  <1> QED
    BY Ownership, <1>1, <1>2, PTL DEF Spec, Contract!Spec, ImplementsContract

\* What the run's end rests on: the flag before the status "cancelled", the last stage
\* before "completed", a denial before "failed", after which nobody drives the run again.
EndInv ==
    /\ canceller # "idle" \/ status = "cancelled" => cancelRequested
    /\ status = "completed" => Done = NumStages
    /\ status = "failed" => /\ Done + 1 \in DenyStages
                            /\ \A p \in Procs : ~Owns(p)
                            /\ \A s \in Stages : pending[s] = 0
    /\ \A p \in Procs :
          /\ pc[p] = "cancelling" => cancelRequested
          /\ pc[p] = "completing" => Done = NumStages
          /\ pc[p] = "failing" => Done + 1 \in DenyStages

\* A status that ends the run is written, and a driver that will write it runs, only where
\* the checkpoint or the flag says the run is at its end.
LEMMA EndStep == OwnershipInv /\ EndInv /\ [Next]_vars => EndInv'
  <1> SUFFICES ASSUME OwnershipInv, EndInv, [Next]_vars PROVE EndInv'
    OBVIOUS
  <1> USE ConstantsAssumption, StageFacts
      DEF EndInv, OwnershipInv, TypeOK, Points, Procs, Goto, runVars, brokerVars, procVars, envVars, histVars, Owns, OwnerPoints, Done
  <1>1. ASSUME NEW p \in Callers, Start(p) PROVE EndInv'
    BY <1>1 DEF Start, NewContext
  <1>2. ASSUME NEW p \in Procs, SetRunning(p) PROVE EndInv'
    BY <1>2 DEF SetRunning
  <1>3. ASSUME NEW p \in Procs, Boundary(p) PROVE EndInv'
    BY <1>3 DEF Boundary, Cancelled, ContextInv
  <1>4. ASSUME NEW p \in Procs, Execute(p) PROVE EndInv'
    BY <1>4 DEF Execute, StageReturns, StageWaits, StageDenies, Current, ContextInv, SingleOwner
  <1>5. ASSUME NEW p \in Procs, Checkpoint(p) PROVE EndInv'
    BY <1>5 DEF Checkpoint, ContextInv, SingleOwner, Contexts, NoCheckpoint
  <1>6. ASSUME NEW p \in Procs, ParkSave(p) PROVE EndInv'
    BY <1>6 DEF ParkSave, ContextInv, SingleOwner, Contexts, NoCheckpoint
  <1>7. ASSUME NEW p \in Procs, ParkSchedule(p) PROVE EndInv'
    BY <1>7 DEF ParkSchedule
  <1>8. ASSUME NEW p \in Procs, ParkStatus(p) PROVE EndInv'
    BY <1>8 DEF ParkStatus, EndWith, Return
  <1>9. ASSUME NEW p \in Procs, MarkCancelled(p) PROVE EndInv'
    BY <1>9 DEF MarkCancelled, EndWith, Return
  <1>10. ASSUME NEW p \in Procs, Fail(p) PROVE EndInv'
    BY <1>10 DEF Fail, EndWith, Return, SingleOwner
  <1>11. ASSUME NEW p \in Procs, Complete(p) PROVE EndInv'
    BY <1>11 DEF Complete, EndWith, Return
  <1>12. ASSUME NEW p \in Procs, Satisfy(p) PROVE EndInv'
    <2>1. msg[p][1] \in Stages
      BY <1>12 DEF Satisfy, ContextInv
    <2>2. CASE status = "failed"
      <3>1. pending[msg[p][1]] = 0
        BY <2>1, <2>2
      <3>2. pc' = [pc EXCEPT ![p] = "idle"] /\ UNCHANGED pending
        BY <1>12, <3>1 DEF Satisfy, Return
      <3> QED
        BY <1>12, <2>2, <3>2 DEF Satisfy
    <2>3. CASE status # "failed"
      BY <1>12, <2>3 DEF Satisfy, Return
    <2> QED
      BY <2>2, <2>3
  <1>13. ASSUME NEW p \in Procs, DueJoins(p) PROVE EndInv'
    <2> DEFINE due == {s \in JoinStages : pending[s] > 0 /\ Count(s) >= Expected}
    <2>1. \A s \in Stages : pending[s] = 0 => pending'[s] = 0
      BY <1>13 DEF DueJoins
    <2>2. CASE status = "failed"
      <3>1. (\A s \in Stages : pending[s] = 0) /\ ~Owns(p)
        BY <2>2
      <3>2. \A s \in Stages : ~(pending[s] > 0)
        BY <3>1
      <3>3. due = {}
        BY <3>2, Zenon
      <3>4. pc' \in {[pc EXCEPT ![p] = "idle"], [pc EXCEPT ![p] = "tick_joins"]}
        BY <1>13, <3>1, <3>3 DEF DueJoins
      <3> QED
        BY <1>13, <2>1, <2>2, <3>4 DEF DueJoins
    <2>3. CASE status # "failed"
      BY <1>13, <2>3 DEF DueJoins
    <2> QED
      BY <2>2, <2>3
  <1>14. ASSUME NEW p \in Procs, ResumeCallback(p) PROVE EndInv'
    BY <1>14 DEF ResumeCallback, Return
  <1>15. ASSUME NEW p \in Procs, Load(p) PROVE EndInv'
    BY <1>15 DEF Load
  <1>16. ASSUME NEW p \in Collectors, NEW t \in Tasks, Collect(p, t) PROVE EndInv'
    BY <1>16 DEF Collect
  <1>17. ASSUME NEW p \in Pollers, DueTimers(p) PROVE EndInv'
    <2> DEFINE due == {s \in TimerStages \cap elapsed : pending[s] > 0}
    <2>1. \A s \in Stages : pending[s] = 0 => pending'[s] = 0
      BY <1>17 DEF DueTimers
    <2>2. CASE status = "failed"
      <3>1. (\A s \in Stages : pending[s] = 0) /\ ~Owns(p)
        BY <2>2
      <3>2. \A s \in Stages : ~(pending[s] > 0)
        BY <3>1
      <3>3. due = {}
        BY <3>2, Zenon
      <3>4. pc' \in {[pc EXCEPT ![p] = "idle"], [pc EXCEPT ![p] = "tick_joins"]}
        BY <1>17, <3>1, <3>3 DEF DueTimers
      <3> QED
        BY <1>17, <2>1, <2>2, <3>4 DEF DueTimers
    <2>3. CASE status # "failed"
      BY <1>17, <2>3 DEF DueTimers
    <2> QED
      BY <2>2, <2>3
  <1>18. ASSUME NEW p \in Callers, NEW s \in EventStages, NEW c \in EventCallers, FireEvent(p, s, c) PROVE EndInv'
    BY <1>18 DEF FireEvent
  <1>19. ASSUME NEW w \in Workers, NEW t \in Tasks, WorkerTake(w, t) PROVE EndInv'
    BY <1>19 DEF WorkerTake, Cancelled
  <1>20. ASSUME NEW w \in Workers, WorkerFinish(w) PROVE EndInv'
    BY <1>20 DEF WorkerFinish
  <1>21. ASSUME NEW s \in TimerStages, Elapse(s) PROVE EndInv'
    BY <1>21 DEF Elapse
  <1>22. ASSUME CancelFlag PROVE EndInv'
    BY <1>22 DEF CancelFlag
  <1>23. ASSUME CancelRead PROVE EndInv'
    BY <1>23 DEF CancelRead
  <1>24. ASSUME CancelFinalize PROVE EndInv'
    BY <1>24 DEF CancelFinalize
  <1>25. ASSUME CancelWakeups PROVE EndInv'
    BY <1>25 DEF CancelWakeups, NoPending
  <1>26. ASSUME NEW p \in Procs, Crash(p) PROVE EndInv'
    BY <1>26 DEF Crash
  <1>27. ASSUME NEW w \in Workers, WorkerCrash(w) PROVE EndInv'
    BY <1>27 DEF WorkerCrash
  <1>28. CASE UNCHANGED vars
    BY <1>28 DEF vars
  <1> QED
    BY <1>1, <1>2, <1>3, <1>4, <1>5, <1>6, <1>7, <1>8, <1>9, <1>10, <1>11, <1>12, <1>13, <1>14, <1>15, <1>16, <1>17, <1>18, <1>19, <1>20, <1>21, <1>22, <1>23, <1>24, <1>25, <1>26, <1>27, <1>28
       DEF Next, Continue, Work, Cancel

\* The reasons for which a run may be left with no driver and no pending wakeup: it has
\* reached its end, the operator cancelled it, a process died, or the command line fired
\* the event it waited for (maof runs wake claims the row and does not resume the run).
Excused ==
    \/ Done = NumStages
    \/ Done + 1 \in DenyStages
    \/ cancelRequested
    \/ crashes > 0
    \/ "cli" \in EventCallers /\ Done + 1 \in fired

NoneForgotten ==
    \/ status = "none"
    \/ \E p \in Procs : Owns(p)
    \/ \E s \in Stages : pending[s] > 0
    \/ Excused

\* A result that was saved is a row; a stage noted as dispatched was published; and what
\* was published is on its way, recorded or refused.
FedInv ==
    /\ \A p \in Procs : msg[p] # NoMsg => msg[p] \in results
    /\ \A p \in Procs : sc[p].parked \in JoinStages => sc[p].parked \in published
    /\ ckpt.parked \in JoinStages => ckpt.parked \in published
    /\ \A s \in published, i \in 1..Expected :
          cancelRequested \/ <<s, i>> \in taskQ \cup resultQ \cup results \cup Rejected

\* Whoever takes the run's last wakeup drives the run, and whoever stops driving it
\* has scheduled the next wakeup or has an excuse.
LEMMA ForgottenStep == OwnershipInv /\ EndInv /\ NoneForgotten /\ [Next]_vars => NoneForgotten'
  <1> SUFFICES ASSUME OwnershipInv, EndInv, NoneForgotten, [Next]_vars PROVE NoneForgotten'
    OBVIOUS
  <1> USE ConstantsAssumption, StageFacts
      DEF NoneForgotten, Excused, OwnershipInv, TypeOK, Points, Procs, Goto, runVars, brokerVars, procVars, envVars, histVars, Owns, OwnerPoints, Done
  <1>1. ASSUME NEW p \in Callers, Start(p) PROVE NoneForgotten'
    BY <1>1 DEF Start, NewContext
  <1>2. ASSUME NEW p \in Procs, SetRunning(p) PROVE NoneForgotten'
    BY <1>2 DEF SetRunning
  <1>3. ASSUME NEW p \in Procs, Boundary(p) PROVE NoneForgotten'
    BY <1>3 DEF Boundary, Cancelled
  <1>4. ASSUME NEW p \in Procs, Execute(p) PROVE NoneForgotten'
    BY <1>4 DEF Execute, StageReturns, StageWaits, StageDenies, Current
  <1>5. ASSUME NEW p \in Procs, Checkpoint(p) PROVE NoneForgotten'
    BY <1>5 DEF Checkpoint
  <1>6. ASSUME NEW p \in Procs, ParkSave(p) PROVE NoneForgotten'
    BY <1>6 DEF ParkSave
  <1>7. ASSUME NEW p \in Procs, ParkSchedule(p) PROVE NoneForgotten'
    <2>1. sc[p].parked \in Stages /\ pending'[sc[p].parked] > 0
      BY <1>7 DEF ParkSchedule, ContextInv, WakeFindsItsCheckpoint, Contexts, Stages, NoCheckpoint
    <2> QED
      BY <2>1
  <1>8. ASSUME NEW p \in Procs, ParkStatus(p) PROVE NoneForgotten'
    <2>1. \A q \in Procs : Owns(q) => Owns(q)'
      BY <1>8 DEF ParkStatus, EndWith, Return
    <2>2. status # "none"
      BY <1>8 DEF ParkStatus, EndWith, NewRunInv
    <2> QED
      BY <1>8, <2>1, <2>2 DEF ParkStatus, EndWith
  <1>9. ASSUME NEW p \in Procs, MarkCancelled(p) PROVE NoneForgotten'
    BY <1>9 DEF MarkCancelled, EndWith, Return, EndInv
  <1>10. ASSUME NEW p \in Procs, Fail(p) PROVE NoneForgotten'
    BY <1>10 DEF Fail, EndWith, Return, EndInv
  <1>11. ASSUME NEW p \in Procs, Complete(p) PROVE NoneForgotten'
    BY <1>11 DEF Complete, EndWith, Return, EndInv
  <1>12. ASSUME NEW p \in Procs, Satisfy(p) PROVE NoneForgotten'
    BY <1>12 DEF Satisfy, Return
  <1>13. ASSUME NEW p \in Procs, DueJoins(p) PROVE NoneForgotten'
    BY <1>13 DEF DueJoins
  <1>14. ASSUME NEW p \in Procs, ResumeCallback(p) PROVE NoneForgotten'
    <2>1. CASE status \in Terminal
      BY <1>14, <2>1 DEF ResumeCallback, EndInv, Terminal
    <2>2. CASE status \notin Terminal
      BY <1>14, <2>2 DEF ResumeCallback
    <2> QED
      BY <2>1, <2>2
  <1>15. ASSUME NEW p \in Procs, Load(p) PROVE NoneForgotten'
    BY <1>15 DEF Load
  <1>16. ASSUME NEW p \in Collectors, NEW t \in Tasks, Collect(p, t) PROVE NoneForgotten'
    BY <1>16 DEF Collect
  <1>17. ASSUME NEW p \in Pollers, DueTimers(p) PROVE NoneForgotten'
    BY <1>17 DEF DueTimers
  <1>18. ASSUME NEW p \in Callers, NEW s \in EventStages, NEW c \in EventCallers, FireEvent(p, s, c) PROVE NoneForgotten'
    <2>1. \A q \in Procs : Owns(q) => Owns(q)'
      BY <1>18 DEF FireEvent
    <2>2. \A t \in Stages : t # s => pending'[t] = pending[t]
      BY <1>18 DEF FireEvent
    <2>3. CASE pending[s] > 0
      <3>1. CASE c = "service"
        BY <1>18, <2>3, <3>1 DEF FireEvent
      <3>2. CASE c # "service"
        <4>1. Done + 1 = s /\ "cli" \in EventCallers
          BY <2>3, <3>2 DEF WakeFindsItsCheckpoint
        <4> QED
          BY <1>18, <4>1 DEF FireEvent
      <3> QED
        BY <3>1, <3>2
    <2>4. CASE ~(pending[s] > 0)
      BY <1>18, <2>1, <2>2, <2>4 DEF FireEvent
    <2> QED
      BY <2>3, <2>4
  <1>19. ASSUME NEW w \in Workers, NEW t \in Tasks, WorkerTake(w, t) PROVE NoneForgotten'
    BY <1>19 DEF WorkerTake, Cancelled
  <1>20. ASSUME NEW w \in Workers, WorkerFinish(w) PROVE NoneForgotten'
    BY <1>20 DEF WorkerFinish
  <1>21. ASSUME NEW s \in TimerStages, Elapse(s) PROVE NoneForgotten'
    BY <1>21 DEF Elapse
  <1>22. ASSUME CancelFlag PROVE NoneForgotten'
    BY <1>22 DEF CancelFlag
  <1>23. ASSUME CancelRead PROVE NoneForgotten'
    BY <1>23 DEF CancelRead
  <1>24. ASSUME CancelFinalize PROVE NoneForgotten'
    BY <1>24 DEF CancelFinalize, EndInv
  <1>25. ASSUME CancelWakeups PROVE NoneForgotten'
    BY <1>25 DEF CancelWakeups, NoPending, EndInv
  <1>26. ASSUME NEW p \in Procs, Crash(p) PROVE NoneForgotten'
    BY <1>26 DEF Crash
  <1>27. ASSUME NEW w \in Workers, WorkerCrash(w) PROVE NoneForgotten'
    BY <1>27 DEF WorkerCrash
  <1>28. CASE UNCHANGED vars
    BY <1>28 DEF vars
  <1> QED
    BY <1>1, <1>2, <1>3, <1>4, <1>5, <1>6, <1>7, <1>8, <1>9, <1>10, <1>11, <1>12, <1>13, <1>14, <1>15, <1>16, <1>17, <1>18, <1>19, <1>20, <1>21, <1>22, <1>23, <1>24, <1>25, <1>26, <1>27, <1>28
       DEF Next, Continue, Work, Cancel

\* A published task stays with the broker until its result does, and the result until the
\* row is saved or the validator refuses it.
LEMMA FedStep == OwnershipInv /\ EndInv /\ FedInv /\ [Next]_vars => FedInv'
  <1> SUFFICES ASSUME OwnershipInv, EndInv, FedInv, [Next]_vars PROVE FedInv'
    OBVIOUS
  <1> USE ConstantsAssumption, StageFacts
      DEF FedInv, OwnershipInv, TypeOK, Points, Procs, Goto, runVars, brokerVars, procVars, envVars, histVars
  <1>1. ASSUME NEW p \in Callers, Start(p) PROVE FedInv'
    BY <1>1 DEF Start, NewContext
  <1>2. ASSUME NEW p \in Procs, SetRunning(p) PROVE FedInv'
    BY <1>2 DEF SetRunning
  <1>3. ASSUME NEW p \in Procs, Boundary(p) PROVE FedInv'
    BY <1>3 DEF Boundary, Cancelled
  <1>4. ASSUME NEW p \in Procs, Execute(p) PROVE FedInv'
    <2> DEFINE s == Current(sc[p])
    <2>1. CASE StageReturns(p) \/ StageDenies(p)
      <3>1. UNCHANGED <<brokerVars, results, ckpt, msg, cancelRequested>>
        BY <1>4, <2>1 DEF Execute, StageReturns, StageDenies
      <3>2. \A q \in Procs : sc'[q].parked = sc[q].parked
        BY <2>1 DEF StageReturns, StageDenies, Contexts
      <3> QED
        BY <3>1, <3>2
    <2>2. CASE StageWaits(p)
      <3>1. sc' = [sc EXCEPT ![p].parked = s] /\ UNCHANGED <<resultQ, results, ckpt, msg, cancelRequested>>
        BY <1>4, <2>2 DEF Execute, StageWaits
      <3>2. CASE s \in JoinStages /\ sc[p].parked # s /\ s \notin published
        <4>1. taskQ' = taskQ \cup ({s} \X (1..Expected)) /\ published' = published \cup {s}
          BY <2>2, <3>2 DEF StageWaits
        <4> QED
          BY <3>1, <4>1
      <3>3. CASE ~(s \in JoinStages /\ sc[p].parked # s /\ s \notin published)
        <4>1. UNCHANGED <<taskQ, published>>
          BY <2>2, <3>3 DEF StageWaits
        <4> QED
          BY <3>1, <3>3, <4>1
      <3> QED
        BY <3>2, <3>3
    <2> QED
      BY <1>4, <2>1, <2>2 DEF Execute
  <1>5. ASSUME NEW p \in Procs, Checkpoint(p) PROVE FedInv'
    BY <1>5 DEF Checkpoint
  <1>6. ASSUME NEW p \in Procs, ParkSave(p) PROVE FedInv'
    BY <1>6 DEF ParkSave
  <1>7. ASSUME NEW p \in Procs, ParkSchedule(p) PROVE FedInv'
    BY <1>7 DEF ParkSchedule
  <1>8. ASSUME NEW p \in Procs, ParkStatus(p) PROVE FedInv'
    BY <1>8 DEF ParkStatus, EndWith, Return
  <1>9. ASSUME NEW p \in Procs, MarkCancelled(p) PROVE FedInv'
    BY <1>9 DEF MarkCancelled, EndWith, Return
  <1>10. ASSUME NEW p \in Procs, Fail(p) PROVE FedInv'
    BY <1>10 DEF Fail, EndWith, Return
  <1>11. ASSUME NEW p \in Procs, Complete(p) PROVE FedInv'
    BY <1>11 DEF Complete, EndWith, Return
  <1>12. ASSUME NEW p \in Procs, Satisfy(p) PROVE FedInv'
    BY <1>12 DEF Satisfy, Return
  <1>13. ASSUME NEW p \in Procs, DueJoins(p) PROVE FedInv'
    BY <1>13 DEF DueJoins
  <1>14. ASSUME NEW p \in Procs, ResumeCallback(p) PROVE FedInv'
    BY <1>14 DEF ResumeCallback, Return
  <1>15. ASSUME NEW p \in Procs, Load(p) PROVE FedInv'
    BY <1>15 DEF Load
  <1>16. ASSUME NEW p \in Collectors, NEW t \in Tasks, Collect(p, t) PROVE FedInv'
    BY <1>16 DEF Collect
  <1>17. ASSUME NEW p \in Pollers, DueTimers(p) PROVE FedInv'
    BY <1>17 DEF DueTimers
  <1>18. ASSUME NEW p \in Callers, NEW s \in EventStages, NEW c \in EventCallers, FireEvent(p, s, c) PROVE FedInv'
    BY <1>18 DEF FireEvent
  <1>19. ASSUME NEW w \in Workers, NEW t \in Tasks, WorkerTake(w, t) PROVE FedInv'
    BY <1>19 DEF WorkerTake, Cancelled, EndInv
  <1>20. ASSUME NEW w \in Workers, WorkerFinish(w) PROVE FedInv'
    BY <1>20 DEF WorkerFinish
  <1>21. ASSUME NEW s \in TimerStages, Elapse(s) PROVE FedInv'
    BY <1>21 DEF Elapse
  <1>22. ASSUME CancelFlag PROVE FedInv'
    BY <1>22 DEF CancelFlag
  <1>23. ASSUME CancelRead PROVE FedInv'
    BY <1>23 DEF CancelRead
  <1>24. ASSUME CancelFinalize PROVE FedInv'
    BY <1>24 DEF CancelFinalize
  <1>25. ASSUME CancelWakeups PROVE FedInv'
    BY <1>25 DEF CancelWakeups, NoPending
  <1>26. ASSUME NEW p \in Procs, Crash(p) PROVE FedInv'
    BY <1>26 DEF Crash
  <1>27. ASSUME NEW w \in Workers, WorkerCrash(w) PROVE FedInv'
    BY <1>27 DEF WorkerCrash
  <1>28. CASE UNCHANGED vars
    BY <1>28 DEF vars
  <1> QED
    BY <1>1, <1>2, <1>3, <1>4, <1>5, <1>6, <1>7, <1>8, <1>9, <1>10, <1>11, <1>12, <1>13, <1>14, <1>15, <1>16, <1>17, <1>18, <1>19, <1>20, <1>21, <1>22, <1>23, <1>24, <1>25, <1>26, <1>27, <1>28
       DEF Next, Continue, Work, Cancel

\* A run with neither a driver nor a wakeup has an excuse, and of the results a parked join
\* waits for each is recorded, refused or still to come.
WaitsAreAnswered ==
    /\ Mode = "over" => Excused
    /\ \A s \in JoinStages, i \in 1..Expected :
          pending[s] > 0 => cancelRequested \/ <<s, i>> \in taskQ \cup resultQ \cup results \cup Rejected

\* The safety side of KilledRunFinishes, for every pipeline: unless a process dies, the
\* operator cancels or the command line fires the event, the claims of the collector, the
\* poller and the waker, the terminal check of the resume callback and the last status
\* write of _drive leave no unfinished run without a driver and a wakeup; and whatever
\* dies, is redelivered or comes twice, a parked join of a run that is not cancelled loses
\* no result but the ones the validator refuses.
THEOREM NoWakeupLost == Spec => []WaitsAreAnswered
  <1> DEFINE All == OwnershipInv /\ EndInv /\ NoneForgotten /\ FedInv
  <1>1. Init => All
    <2> SUFFICES ASSUME Init PROVE All
      OBVIOUS
    <2>1. EndInv /\ NoneForgotten
      BY DEF Init, EndInv, NoneForgotten
    <2>2. FedInv
      BY StageFacts DEF Init, FedInv, NewContext, NoCheckpoint
    <2> QED
      BY InitInv, <2>1, <2>2
  <1>2. OwnershipInv /\ [Next]_vars => OwnershipInv'
    BY TypeStep, OwnerStep, WakeStep, NewRunStep, ContextStep, GateStep, CancelStep
       DEF OwnershipInv
  <1>3. All /\ [Next]_vars => All'
    BY <1>2, EndStep, ForgottenStep, FedStep
  <1>4. All => WaitsAreAnswered
    <2> SUFFICES ASSUME All PROVE WaitsAreAnswered
      OBVIOUS
    <2>1. Mode = "over" => Excused
      BY DEF Mode, NoneForgotten
    <2>2. ASSUME NEW s \in JoinStages, NEW i \in 1..Expected, pending[s] > 0
          PROVE  cancelRequested \/ <<s, i>> \in taskQ \cup resultQ \cup results \cup Rejected
      <3>1. ckpt.parked = s
        BY <2>2, StageFacts DEF OwnershipInv, WakeFindsItsCheckpoint
      <3> QED
        BY <2>2, <3>1 DEF FedInv
    <2> QED
      BY <2>1, <2>2 DEF WaitsAreAnswered
  <1> QED
    BY <1>1, <1>3, <1>4, PTL DEF Spec

=============================================================================
