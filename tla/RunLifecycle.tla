---------------------------- MODULE RunLifecycle ----------------------------
(***************************************************************************)
(* The life of one durable run: DefaultL1 (orchestrator/l1.py) drives a    *)
(* pipeline of stages, checkpoints after each, parks the run on a wake     *)
(* condition and is resumed by whoever claims the wakeup - the             *)
(* ResultCollector, the WakerPoller or an operator - while workers consume *)
(* the dispatched tasks and RunOps.cancel may strike at any moment.        *)
(*                                                                         *)
(* Every awaited store call is one atomic step (one Postgres statement), so*)
(* the processes interleave exactly at the code's await points.            *)
(*                                                                         *)
(* A stage is abstracted to how it ends: it returns, it raises PolicyDenied*)
(* or ApprovalRequired, or it raises NeedsWait on a join of task results, a*)
(* timer or an external event (the three WakeCondition kinds).             *)
(***************************************************************************)
EXTENDS Integers, FiniteSets

CONSTANTS
    NumStages,    \* length of the pipeline
    JoinStages,   \* stages that dispatch tasks and wait for their results
    TimerStages,  \* stages that wait for a point in time
    EventStages,  \* stages that wait for an external event
    DenyStages,   \* stages that policy or a human may deny
    Expected,     \* WakeCondition.expected: results that make up a join
    Rejected,     \* tasks whose result the collector's validator may refuse
    Callers,      \* processes that call run(), or resume_run() by hand
    Collectors,   \* concurrent ResultCollector handlers
    Pollers,      \* WakerPoller processes
    Workers,      \* WorkerPool handlers
    EventCallers, \* who fires events: "cli" (RunOps.wake), "service"
    CrashAt,      \* program points where a process may die
    MaxCrashes,   \* bound on the number of process deaths
    MaxCancels    \* 0 or 1: whether an operator cancels the run

Stages == 1..NumStages
Procs == Callers \cup Collectors \cup Pollers
Tasks == JoinStages \X (1..Expected)

\* Program points of a process between two awaits.
Points == {"idle", "saved", "tick_joins", "tick_joins_due", "claimed", "load",
           "begin", "boundary", "execute", "checkpoint", "cancelling",
           "failing", "completing", "park_save", "park_schedule", "park_status"}

ASSUME ConstantsAssumption ==
    /\ NumStages \in Nat \ {0}
    /\ JoinStages \subseteq Stages
    /\ TimerStages \subseteq Stages
    /\ EventStages \subseteq Stages
    /\ JoinStages \cap TimerStages = {}
    /\ JoinStages \cap EventStages = {}
    /\ TimerStages \cap EventStages = {}
    /\ DenyStages \subseteq Stages \ (JoinStages \cup TimerStages \cup EventStages)
    /\ Expected \in Nat \ {0}
    /\ Rejected \subseteq Tasks
    /\ Callers \cap Collectors = {}
    /\ Callers \cap Pollers = {}
    /\ Collectors \cap Pollers = {}
    /\ EventCallers \subseteq {"cli", "service"}
    /\ CrashAt \subseteq (Points \ {"idle"}) \cup {"worker"}
    /\ MaxCrashes \in Nat
    /\ MaxCancels \in {0, 1}

VARIABLES
    status,          \* runs.status
    cancelRequested, \* runs.cancel_requested
    ckpt,            \* the latest run_checkpoints row
    pending,         \* pending[s]: run_wakeups rows of stage s in status 'pending'
    results,         \* run_results rows
    published,       \* idempotency_keys rows of publish_task
    taskQ, resultQ,  \* messages the broker holds (queued or not yet acknowledged)
    pc,              \* program point of each process
    sc,              \* the StageContext each process drives
    msg,             \* the result message each collector is handling
    worker,          \* the task each worker is handling
    canceller,       \* program point of RunOps.cancel
    elapsed,         \* timer stages whose wake_at has passed
    fired,           \* event stages whose event has been fired
    crashes,         \* process deaths so far
    restarts,        \* resume_run calls made by hand so far
    late             \* stages begun after cancel_requested was set (history)

runVars == <<status, cancelRequested>>
brokerVars == <<taskQ, resultQ, published>>
procVars == <<pc, sc, msg>>
envVars == <<worker, canceller, elapsed, fired>>
histVars == <<crashes, restarts, late>>
vars == <<runVars, ckpt, pending, results, brokerVars, procVars, envVars, histVars>>

\* StageContext.extras: completed_stages is the prefix 1..done of the pipeline,
\* parked the last stage noted in workflow.dispatched or workflow.gates_waited.
NewContext == [done |-> 0, parked |-> 0]
NoCheckpoint == [done |-> -1, parked |-> 0]
Contexts == [done: 0..NumStages, parked: 0..NumStages]

NoMsg == <<0, 0>>
NoPending == [s \in Stages |-> 0]

RunStatus == {"none", "pending", "running", "waiting", "completed", "failed", "cancelled"}
Terminal == {"completed", "failed", "cancelled"}

\* The stage a context is about to execute.
Current(c) == c.done + 1

\* PostgresResultStore.count(run_id, step_ref).
Count(s) == Cardinality({i \in 1..Expected : <<s, i>> \in results})

\* DefaultL1._cancelled and WorkerPool._run_cancelled.
Cancelled == cancelRequested \/ status = "cancelled"

Goto(p, point) == pc' = [pc EXCEPT ![p] = point]

\* The handler returns: its process is free and the broker drops the message.
Return(p) ==
    /\ Goto(p, "idle")
    /\ msg' = [msg EXCEPT ![p] = NoMsg]
    /\ resultQ' = resultQ \ {msg[p]}

-----------------------------------------------------------------------------
(* The driver: DefaultL1.run and DefaultL1._drive.                         *)

Start(p) ==
    /\ status = "none"
    /\ pc[p] = "idle"
    /\ status' = "pending"
    /\ sc' = [sc EXCEPT ![p] = NewContext]
    /\ Goto(p, "begin")
    /\ UNCHANGED <<cancelRequested, ckpt, pending, results, brokerVars, msg, envVars, histVars>>

SetRunning(p) ==
    /\ pc[p] = "begin"
    /\ status' = "running"
    /\ Goto(p, "boundary")
    /\ UNCHANGED <<cancelRequested, ckpt, pending, results, brokerVars, sc, msg, envVars, histVars>>

\* Mutant of Boundary: the cancellation check is missing.
BoundaryNoCancel(p) ==
    /\ pc[p] = "boundary"
    /\ Goto(p, IF sc[p].done = NumStages THEN "completing" ELSE "execute")
    /\ UNCHANGED <<runVars, ckpt, pending, results, brokerVars, sc, msg, envVars, histVars>>

\* The head of the loop over the stages, with its cancellation check.
Boundary(p) ==
    /\ pc[p] = "boundary"
    /\ Goto(p, IF sc[p].done = NumStages THEN "completing"
               ELSE IF Cancelled THEN "cancelling" ELSE "execute")
    /\ UNCHANGED <<runVars, ckpt, pending, results, brokerVars, sc, msg, envVars, histVars>>

\* Mutant of StageReturns: a gate does not check that it was waited for.
StageReturnsAnyGate(p) ==
    LET s == Current(sc[p]) IN
    /\ s \in JoinStages => Count(s) = Expected
    /\ sc' = [sc EXCEPT ![p].done = s]
    /\ Goto(p, "checkpoint")
    /\ UNCHANGED brokerVars

\* stage.execute returns: the stage joins completed_stages.
StageReturns(p) ==
    LET s == Current(sc[p]) IN
    /\ \/ s \notin JoinStages \cup TimerStages \cup EventStages
       \/ s \in JoinStages /\ Count(s) = Expected
       \/ s \in TimerStages \cup EventStages /\ sc[p].parked = s
    /\ sc' = [sc EXCEPT ![p].done = s]
    /\ Goto(p, "checkpoint")
    /\ UNCHANGED brokerVars

\* stage.execute raises NeedsWait.  A join first publishes its tasks, unless the
\* context says they were dispatched; publish_task is guarded by its key.
StageWaits(p) ==
    LET s == Current(sc[p]) IN
    /\ \/ s \in JoinStages /\ Count(s) < Expected
       \/ s \in TimerStages \cup EventStages /\ sc[p].parked # s
    /\ IF s \in JoinStages /\ sc[p].parked # s /\ s \notin published
       THEN /\ taskQ' = taskQ \cup ({s} \X (1..Expected))
            /\ published' = published \cup {s}
       ELSE UNCHANGED <<taskQ, published>>
    /\ sc' = [sc EXCEPT ![p].parked = s]
    /\ Goto(p, "park_save")
    /\ UNCHANGED resultQ

\* stage.execute raises PolicyDenied or ApprovalRequired.
StageDenies(p) ==
    /\ Current(sc[p]) \in DenyStages
    /\ Goto(p, "failing")
    /\ UNCHANGED <<sc, brokerVars>>

Execute(p) ==
    /\ pc[p] = "execute"
    /\ StageReturns(p) \/ StageWaits(p) \/ StageDenies(p)
    /\ late' = IF cancelRequested THEN late + 1 ELSE late
    /\ UNCHANGED <<runVars, ckpt, pending, results, msg, envVars, crashes, restarts>>

\* Mutant of Checkpoint: the context is not saved after the stage.
CheckpointForgets(p) ==
    /\ pc[p] = "checkpoint"
    /\ Goto(p, "boundary")
    /\ UNCHANGED <<runVars, ckpt, pending, results, brokerVars, sc, msg, envVars, histVars>>

Checkpoint(p) ==
    /\ pc[p] = "checkpoint"
    /\ ckpt' = sc[p]
    /\ Goto(p, "boundary")
    /\ UNCHANGED <<runVars, pending, results, brokerVars, sc, msg, envVars, histVars>>

ParkSave(p) ==
    /\ pc[p] = "park_save"
    /\ ckpt' = sc[p]
    /\ Goto(p, "park_schedule")
    /\ UNCHANGED <<runVars, pending, results, brokerVars, sc, msg, envVars, histVars>>

ParkSchedule(p) ==
    /\ pc[p] = "park_schedule"
    /\ pending' = [pending EXCEPT ![sc[p].parked] = @ + 1]
    /\ Goto(p, "park_status")
    /\ UNCHANGED <<runVars, ckpt, results, brokerVars, sc, msg, envVars, histVars>>

\* The four ways _drive writes its last status and returns.
EndWith(p, point, final) ==
    /\ pc[p] = point
    /\ status' = final
    /\ Return(p)
    /\ UNCHANGED <<cancelRequested, ckpt, pending, results, taskQ, published, sc, envVars, histVars>>

ParkStatus(p) == EndWith(p, "park_status", "waiting")
MarkCancelled(p) == EndWith(p, "cancelling", "cancelled")
Fail(p) == EndWith(p, "failing", "failed")
Complete(p) == EndWith(p, "completing", "completed")

-----------------------------------------------------------------------------
(* Claiming a wakeup and resuming the run.                                 *)

\* ResultCollector.handle up to ResultStore.save: a refused result goes to the
\* dead-letter queue, a duplicate is acknowledged, a fresh one is recorded.
Collect(p, t) ==
    /\ pc[p] = "idle"
    /\ t \in resultQ
    /\ \A q \in Procs : msg[q] # t
    /\ \/ /\ t \in Rejected \/ t \in results
          /\ resultQ' = resultQ \ {t}
          /\ UNCHANGED <<results, pc, msg>>
       \/ /\ t \notin results
          /\ results' = results \cup {t}
          /\ msg' = [msg EXCEPT ![p] = t]
          /\ Goto(p, "saved")
          /\ UNCHANGED resultQ
    /\ UNCHANGED <<runVars, ckpt, pending, taskQ, published, sc, envVars, histVars>>

\* RunWaker.satisfy_results claims one pending row of the join, if it is complete.
Satisfy(p) ==
    LET s == msg[p][1] IN
    /\ pc[p] = "saved"
    /\ IF pending[s] > 0 /\ Count(s) >= Expected
       THEN /\ pending' = [pending EXCEPT ![s] = @ - 1]
            /\ Goto(p, "claimed")
            /\ UNCHANGED <<msg, resultQ>>
       ELSE Return(p) /\ UNCHANGED pending
    /\ UNCHANGED <<runVars, ckpt, results, taskQ, published, sc, envVars, histVars>>

\* RunWaker.due_timers, the first half of WakerPoller.tick: claims every due row.
DueTimers(p) ==
    LET due == {s \in TimerStages \cap elapsed : pending[s] > 0} IN
    /\ pc[p] = "idle"
    /\ pending' = [s \in Stages |-> IF s \in due THEN 0 ELSE pending[s]]
    /\ Goto(p, IF due = {} THEN "tick_joins" ELSE "tick_joins_due")
    /\ UNCHANGED <<runVars, ckpt, results, brokerVars, sc, msg, envVars, histVars>>

\* Mutant of DueJoins: the poller does not look for joins at all.
DueJoinsMissing(p) ==
    /\ pc[p] \in {"tick_joins", "tick_joins_due"}
    /\ Goto(p, IF pc[p] = "tick_joins" THEN "idle" ELSE "claimed")
    /\ UNCHANGED <<runVars, ckpt, pending, results, brokerVars, sc, msg, envVars, histVars>>

\* RunWaker.due_joins, the second half: claims every complete join.
DueJoins(p) ==
    LET due == {s \in JoinStages : pending[s] > 0 /\ Count(s) >= Expected} IN
    /\ pc[p] \in {"tick_joins", "tick_joins_due"}
    /\ pending' = [s \in Stages |-> IF s \in due THEN 0 ELSE pending[s]]
    /\ Goto(p, IF due = {} /\ pc[p] = "tick_joins" THEN "idle" ELSE "claimed")
    /\ UNCHANGED <<runVars, ckpt, results, brokerVars, sc, msg, envVars, histVars>>

\* The resume callback handed to the collector and the poller: it reads the
\* status and leaves a finished run alone.
ResumeCallback(p) ==
    /\ pc[p] = "claimed"
    /\ IF status \in Terminal
       THEN Return(p)
       ELSE Goto(p, "load") /\ UNCHANGED <<msg, resultQ>>
    /\ UNCHANGED <<runVars, ckpt, pending, results, taskQ, published, sc, envVars, histVars>>

\* Mutant of Load: the run starts over instead of from its checkpoint.
LoadAfresh(p) ==
    /\ pc[p] = "load"
    /\ ckpt # NoCheckpoint
    /\ sc' = [sc EXCEPT ![p] = NewContext]
    /\ Goto(p, "begin")
    /\ UNCHANGED <<runVars, ckpt, pending, results, brokerVars, msg, envVars, histVars>>

\* DefaultL1.resume_run: with no checkpoint it raises KeyError.
Load(p) ==
    /\ pc[p] = "load"
    /\ ckpt # NoCheckpoint
    /\ sc' = [sc EXCEPT ![p] = ckpt]
    /\ Goto(p, "begin")
    /\ UNCHANGED <<runVars, ckpt, pending, results, brokerVars, msg, envVars, histVars>>

\* Mutant of FireEvent: the pending rows of the event are not marked as fired.
FireEventNoClaim(p, s, caller) ==
    /\ pc[p] = "idle"
    /\ s \notin fired
    /\ fired' = fired \cup {s}
    /\ IF caller = "service" /\ pending[s] > 0
       THEN Goto(p, "claimed")
       ELSE UNCHANGED pc
    /\ UNCHANGED <<runVars, ckpt, pending, results, brokerVars, sc, msg, worker, canceller, elapsed, histVars>>

\* RunOps.wake, through RunWaker.fire_event: claims the pending rows of the event.
\* The shipped callers (maof runs wake, POST /runs/wake) print the woken runs; a
\* service that embeds RunOps may resume them.
FireEvent(p, s, caller) ==
    /\ pc[p] = "idle"
    /\ s \notin fired
    /\ fired' = fired \cup {s}
    /\ pending' = [pending EXCEPT ![s] = 0]
    /\ IF caller = "service" /\ pending[s] > 0
       THEN Goto(p, "claimed")
       ELSE UNCHANGED pc
    /\ UNCHANGED <<runVars, ckpt, results, brokerVars, sc, msg, worker, canceller, elapsed, histVars>>

-----------------------------------------------------------------------------
(* Workers, time and the operator's cancellation.                          *)

\* WorkerPool._handle up to its cancellation check: a task of a cancelled run is
\* acknowledged without a result.
WorkerTake(w, t) ==
    /\ worker[w] = NoMsg
    /\ t \in taskQ
    /\ \A v \in Workers : worker[v] # t
    /\ IF Cancelled
       THEN taskQ' = taskQ \ {t} /\ UNCHANGED worker
       ELSE worker' = [worker EXCEPT ![w] = t] /\ UNCHANGED taskQ
    /\ UNCHANGED <<runVars, ckpt, pending, results, resultQ, published, procVars,
                   canceller, elapsed, fired, histVars>>

\* The rest of _handle: the agent runs, the result is published, the task is acked.
WorkerFinish(w) ==
    /\ worker[w] # NoMsg
    /\ resultQ' = resultQ \cup {worker[w]}
    /\ taskQ' = taskQ \ {worker[w]}
    /\ worker' = [worker EXCEPT ![w] = NoMsg]
    /\ UNCHANGED <<runVars, ckpt, pending, results, published, procVars,
                   canceller, elapsed, fired, histVars>>

\* A worker dies before the acknowledgement, with or without its result published:
\* the broker redelivers the task.
WorkerCrash(w) ==
    /\ "worker" \in CrashAt
    /\ crashes < MaxCrashes
    /\ worker[w] # NoMsg
    /\ resultQ' \in {resultQ, resultQ \cup {worker[w]}}
    /\ worker' = [worker EXCEPT ![w] = NoMsg]
    /\ crashes' = crashes + 1
    /\ UNCHANGED <<runVars, ckpt, pending, results, taskQ, published, procVars,
                   canceller, elapsed, fired, restarts, late>>

Elapse(s) ==
    /\ s \notin elapsed
    /\ elapsed' = elapsed \cup {s}
    /\ UNCHANGED <<runVars, ckpt, pending, results, brokerVars, procVars,
                   worker, canceller, fired, histVars>>

\* RunOps.cancel: four statements, each its own transaction.
CancelFlag ==
    /\ canceller = "idle"
    /\ MaxCancels > 0
    /\ status # "none"
    /\ cancelRequested' = TRUE
    /\ canceller' = "flagged"
    /\ UNCHANGED <<status, ckpt, pending, results, brokerVars, procVars,
                   worker, elapsed, fired, histVars>>

CancelRead ==
    /\ canceller = "flagged"
    /\ canceller' = IF status \in {"waiting", "pending"} THEN "finalize" ELSE "done"
    /\ UNCHANGED <<runVars, ckpt, pending, results, brokerVars, procVars,
                   worker, elapsed, fired, histVars>>

CancelFinalize ==
    /\ canceller = "finalize"
    /\ status' = "cancelled"
    /\ canceller' = "wakeups"
    /\ UNCHANGED <<cancelRequested, ckpt, pending, results, brokerVars, procVars,
                   worker, elapsed, fired, histVars>>

CancelWakeups ==
    /\ canceller = "wakeups"
    /\ pending' = NoPending
    /\ canceller' = "done"
    /\ UNCHANGED <<runVars, ckpt, results, brokerVars, procVars,
                   worker, elapsed, fired, histVars>>

-----------------------------------------------------------------------------
(* Failures.                                                               *)

\* A process dies, or an exception other than the governed ones escapes _drive
\* (a stage raises, a store call fails): the coroutine is gone, its message is
\* redelivered, nothing it wrote is undone.
Crash(p) ==
    /\ pc[p] \in CrashAt
    /\ crashes < MaxCrashes
    /\ Goto(p, "idle")
    /\ msg' = [msg EXCEPT ![p] = NoMsg]
    /\ crashes' = crashes + 1
    /\ UNCHANGED <<runVars, ckpt, pending, results, brokerVars, sc, envVars, restarts, late>>

\* The points at which a process owns the run: it has started it or claimed its
\* wakeup, and has not yet handed it on by scheduling the next one.
OwnerPoints == {"tick_joins_due", "claimed", "load", "begin", "boundary", "execute",
                "checkpoint", "cancelling", "failing", "completing",
                "park_save", "park_schedule"}
Owns(p) == pc[p] \in OwnerPoints

\* Nobody drives the run and nothing will wake it.
Orphaned == /\ \A q \in Procs : ~Owns(q)
            /\ \A s \in Stages : pending[s] = 0
            /\ status \notin Terminal

\* After a death that orphaned the run the operator calls resume_run by hand.
OperatorResume(p) ==
    /\ pc[p] = "idle"
    /\ restarts < crashes
    /\ Orphaned
    /\ ckpt # NoCheckpoint
    /\ restarts' = restarts + 1
    /\ Goto(p, "load")
    /\ UNCHANGED <<runVars, ckpt, pending, results, brokerVars, sc, msg, envVars, crashes, late>>

-----------------------------------------------------------------------------
Init ==
    /\ status = "none"
    /\ cancelRequested = FALSE
    /\ ckpt = NoCheckpoint
    /\ pending = NoPending
    /\ results = {}
    /\ published = {}
    /\ taskQ = {}
    /\ resultQ = {}
    /\ pc = [p \in Procs |-> "idle"]
    /\ sc = [p \in Procs |-> NewContext]
    /\ msg = [p \in Procs |-> NoMsg]
    /\ worker = [w \in Workers |-> NoMsg]
    /\ canceller = "idle"
    /\ elapsed = {}
    /\ fired = {}
    /\ crashes = 0
    /\ restarts = 0
    /\ late = 0

\* The part of _drive, handle and tick that follows once a process is busy.
Continue(p) ==
    \/ SetRunning(p) \/ Boundary(p) \/ Execute(p) \/ Checkpoint(p)
    \/ ParkSave(p) \/ ParkSchedule(p) \/ ParkStatus(p)
    \/ MarkCancelled(p) \/ Fail(p) \/ Complete(p)
    \/ Satisfy(p) \/ DueJoins(p) \/ ResumeCallback(p) \/ Load(p)

Cancel == CancelFlag \/ CancelRead \/ CancelFinalize \/ CancelWakeups

Work(w) == (\E t \in Tasks : WorkerTake(w, t)) \/ WorkerFinish(w)

Next ==
    \/ \E p \in Callers : Start(p)
    \/ \E p \in Procs : Continue(p)
    \/ \E p \in Collectors, t \in Tasks : Collect(p, t)
    \/ \E p \in Pollers : DueTimers(p)
    \/ \E p \in Callers, s \in EventStages, c \in EventCallers : FireEvent(p, s, c)
    \/ \E w \in Workers : Work(w)
    \/ \E s \in TimerStages : Elapse(s)
    \/ Cancel
    \/ \E p \in Procs : Crash(p)
    \/ \E w \in Workers : WorkerCrash(w)

Spec == Init /\ [][Next]_vars

\* With resume_run called by hand after a death.
RestartNext == Next \/ \E p \in Callers : OperatorResume(p)
RestartSpec == Init /\ [][RestartNext]_vars

-----------------------------------------------------------------------------
(* Fairness: a busy coroutine is scheduled again, the broker redelivers to a *)
(* live collector and worker, the poll loop ticks, time passes and a cancel  *)
(* call, once made, runs on.  Nobody owes the run a start, an event, a       *)
(* cancellation, a crash or a resume by hand.                                *)

Fairness ==
    /\ \A p \in Procs : WF_vars(Continue(p))
    /\ \A p \in Collectors : WF_vars(\E t \in Tasks : Collect(p, t))
    /\ \A p \in Pollers : WF_vars(DueTimers(p))
    /\ \A w \in Workers : WF_vars(Work(w))
    /\ \A s \in TimerStages : WF_vars(Elapse(s))
    /\ WF_vars(CancelRead \/ CancelFinalize \/ CancelWakeups)

FairSpec == Spec /\ Fairness
FairRestartSpec == RestartSpec /\ Fairness /\ WF_vars(\E p \in Callers : OperatorResume(p))

-----------------------------------------------------------------------------
(* Properties.                                                             *)

\* The type of every variable.
TypeOK ==
    /\ status \in RunStatus
    /\ cancelRequested \in BOOLEAN
    /\ ckpt \in Contexts \cup {NoCheckpoint}
    /\ pending \in [Stages -> Nat]
    /\ results \subseteq Tasks
    /\ published \subseteq JoinStages
    /\ taskQ \subseteq Tasks
    /\ resultQ \subseteq Tasks
    /\ pc \in [Procs -> Points]
    /\ sc \in [Procs -> Contexts]
    /\ msg \in [Procs -> Tasks \cup {NoMsg}]
    /\ worker \in [Workers -> Tasks \cup {NoMsg}]
    /\ canceller \in {"idle", "flagged", "finalize", "wakeups", "done"}
    /\ elapsed \subseteq TimerStages
    /\ fired \subseteq EventStages
    /\ crashes \in 0..MaxCrashes
    /\ restarts \in Nat
    /\ late \in Nat

\* At most one process owns the run, and none does while a wakeup is pending: two
\* collectors, the poller and an event can race for a wakeup, only one resumes
\* the run (the claim of satisfy_results, due_timers, due_joins and fire_event).
SingleOwner ==
    /\ \A p, q \in Procs : Owns(p) /\ Owns(q) => p = q
    /\ \A p \in Procs, s \in Stages : Owns(p) => pending[s] = 0
    /\ \A s \in Stages : pending[s] <= 1
    /\ \A s, t \in Stages : pending[s] > 0 /\ pending[t] > 0 => s = t

Done == IF ckpt = NoCheckpoint THEN 0 ELSE ckpt.done

\* A driver executes the first stage the durable checkpoint does not record as
\* completed: resume_run neither repeats a completed stage nor skips one.
ResumeIsExact ==
    \A p \in Procs : pc[p] = "execute" => sc[p].done = Done

\* Whoever is woken finds a checkpoint, and it is the one saved for that wait:
\* resume_run never raises KeyError and re-enters the stage that parked.
WakeFindsItsCheckpoint ==
    /\ \A s \in Stages : pending[s] > 0 => ckpt.parked = s /\ Done + 1 = s
    /\ \A p \in Procs : pc[p] \in {"tick_joins_due", "claimed", "load"} =>
          ckpt # NoCheckpoint /\ ckpt.parked = Done + 1

\* A timer gate is passed only after its wake time, an event gate only after its
\* event (executor.run takes "the run was resumed" for "the gate is open").
GateHonoured ==
    /\ \A s \in TimerStages : Done >= s => s \in elapsed
    /\ \A s \in EventStages : Done >= s => s \in fired

\* Once cancel_requested is set, at most one more stage begins: the one whose
\* boundary check had already passed.
CancelStopsTheRun == late <= 1

Finished == Done = NumStages \/ status = "failed"

\* A run with a checkpoint gets through every join and every timer, or is denied:
\* collector, waker and poller together lose no wakeup although one of them or a worker
\* dies between claim points, and a run whose driver was killed is brought to its end by
\* resume_run, without a second driver and without a stage repeated or left out.
KilledRunFinishes ==
    /\ [](SingleOwner /\ ResumeIsExact)
    /\ ckpt # NoCheckpoint ~> Finished

\* The state machine ends: completed, failed or cancelled, for good.
StatusSettles == (status # "none") ~> [](status \in Terminal)

-----------------------------------------------------------------------------
(* The run lifecycle implements RunContract: the owner and the pending       *)
(* wakeups of a run are its mode, the checkpoint counts its stages.          *)

Mode == IF status = "none" THEN "new"
        ELSE IF \E p \in Procs : Owns(p) THEN "driven"
        ELSE IF \E s \in Stages : pending[s] > 0 THEN "parked"
        ELSE "over"

Contract == INSTANCE RunContract WITH mode <- Mode, done <- Done

\* Every step of the driver, the waker, the collector, the poller, the canceller
\* or a crash is a step of the contract or leaves it alone.
ImplementsContract == Contract!Spec

-----------------------------------------------------------------------------
(* The inductive invariant behind SingleOwner, ResumeIsExact,                *)
(* WakeFindsItsCheckpoint, GateHonoured and CancelStopsTheRun.               *)

\* Before run() creates the run nothing has happened to it.
NewRunInv ==
    status = "none" =>
        /\ ckpt = NoCheckpoint
        /\ canceller = "idle"
        /\ \A s \in Stages : pending[s] = 0
        /\ \A p \in Procs : pc[p] \in {"idle", "saved", "tick_joins"}

\* What the owner's context says relative to the durable checkpoint.
ContextInv ==
    \A p \in Procs :
        /\ pc[p] \in {"begin", "boundary", "execute", "park_save"} => sc[p].done = Done
        /\ pc[p] \in {"begin", "boundary", "execute"} => sc[p].parked <= sc[p].done + 1
        /\ pc[p] = "execute" => sc[p].done < NumStages
        /\ pc[p] = "checkpoint" => sc[p].done = Done + 1 /\ sc[p].parked <= sc[p].done
        /\ pc[p] = "park_save" => sc[p].parked = sc[p].done + 1
        /\ pc[p] = "park_schedule" => sc[p] = ckpt /\ ckpt.parked = Done + 1
        /\ pc[p] = "saved" => msg[p] \in Tasks

Open(s) == (s \in TimerStages => s \in elapsed) /\ (s \in EventStages => s \in fired)

\* A process that will find a gate already waited for owns a claim on it.
GateInv ==
    /\ \A s \in Stages : s <= Done => Open(s)
    /\ \A p \in Procs : pc[p] \in {"tick_joins_due", "claimed", "load"} => Open(Done + 1)
    /\ \A p \in Procs :
          /\ pc[p] \in {"begin", "boundary", "execute"} /\ sc[p].parked = sc[p].done + 1
                => Open(sc[p].done + 1)
          /\ pc[p] = "checkpoint" => Open(sc[p].done)

\* The stage that began after the flag was set is the last.
CancelInv ==
    /\ late <= 1
    /\ late > 0 => cancelRequested /\ \A p \in Procs : pc[p] # "execute"

\* The conjunction is inductive (see RunLifecycleProofs).
OwnershipInv ==
    /\ TypeOK
    /\ SingleOwner
    /\ WakeFindsItsCheckpoint
    /\ NewRunInv
    /\ ContextInv
    /\ GateInv
    /\ CancelInv

=============================================================================
