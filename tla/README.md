# MAOF in TLA+

MAOF runs governed, durable multi-agent orchestrations: an L1 driver takes a run
through a pipeline of stages, checkpoints it, parks it while workers, timers,
events or humans are awaited, and whoever claims the wakeup resumes it. This
directory holds TLA+ models of that machinery, the TLC runs that check them and
the TLAPS proofs of what matters most. Paths below are relative to the package
(`src/maof/` in the repository) unless they start with `docs/` or `examples/`.

## 1. The system

| Part | State it keeps | Operations | Interacts with |
|---|---|---|---|
| L1 driver (`orchestrator/l1.py`) | `StageContext` in memory | `run`, `resume_run`, `_drive` | run store, checkpointer, waker, stages |
| Run store, checkpoints (`runs/store.py`, `runs/checkpoint.py`) | `runs.status`, `cancel_requested`, `checkpoints`, `run_trace` | `create`, `set_state`, `request_cancel`, `save`, `resume` | everybody |
| Waker, results (`orchestrator/lifecycle.py`) | `run_wakeups`, `run_results` | `schedule`, `satisfy_results`, `fire_event`, `due_timers`, `due_joins`, `save` | driver schedules, collector and poller claim |
| Collector, poller (same file) | none | `handle`, `tick` | broker, waker, resume callback |
| Run operations (`runs/ops.py`) | none | `cancel`, `wake`, `list_runs`, `show`, `trace` | run store, waker |
| Workers (`workers/pool.py`) | none | `_handle` | broker, guard, results queue |
| Idempotency guard (`runs/idempotency.py`), retention (`runs/retention.py`) | `idempotency_keys` | `once`, `prune` | publishers and consumers |
| Workflow definition, executor (`workflows/`) | `extras["workflow"]`: dispatched, approved, gates waited, outputs | `_validate_dag`, `run` | coordinator, results, approval gate |
| Approval gate (`approval/service.py`) | `_pending` (event, verdict, resolutions), `approvals` | `request`, `wait_for`, `resolve` | stage blocks, humans resolve here or in another process |
| Transport (`transport/`) | queues, retry queues, processing list, dead letters, attempt header | `publish`, `consume`, failure branch, acknowledgement | workers, collector |
| Registry, workflow store (`registry/`, `workflows/store.py`, `workflows/promote.py`) | signed rows, capability index | `submit`, `certify`, `approve`, `index`, `revoke`, `load`, `promote_run` | dispatcher, stages, operators |
| Policy (`policy/`) | rulesets and their heads | `pre_prompt`, `post_plan`, `post_result`, `save_ruleset` | stages, collector |
| Workflow mode (`orchestrator/stages/`) | `StageContext`: dialogue, envelope, draft plan, decision | chat, intent_synthesis, action_plan, approval, publish | policy, context, approval gate, broker |
| Context (`context/`) | envelope, source cache | `build`, redaction, compaction, `fit_envelope`, delegation | action_plan stage, registry agents |
| Autonomous mode (`orchestrator/loop.py`, `effort.py`, `coordinator.py`, `cost/`) | subresults in memory, dialogue, ledger, trace | `run`, `record`, `check`, `dispatch` | coordinator, model gateway, guard |
| Identity, signing (`identity.py`, `tenancy.py`, `transport/signing.py`) | key sets, principals | `resolve_tenant`, `require_scopes`, `headers`, `verify`, rotation | every entry point |

What is hard here: every store call is an `await`, so drivers, collectors, the
poller, operators and human verdicts interleave between any two statements; any
process may die between two of them; messages are delivered at least once; claims,
checkpoints, status writes, publications and acknowledgements are separate
transactions; keys rotate and rulesets, manifests and rows change while a run is
under way. What must hold: one driver per run, resume exactly where the checkpoint
says, no gate passed before it opened, no wakeup and no message lost, side effects
accounted for per key, cancelled runs stop, a quorum behind every grant, nothing
loads that was not approved in that form, nothing is published that the rules
deny, budgets brake, an executable order for every definition that loads.
`PROJECT.json` lists each hazard at its line under `hazards`.

## 2. Modules

| Module | Models | Extended by |
|---|---|---|
| `RunLifecycle` | driver, waker, collector, poller, workers, cancel, crashes for one run | `MCRunLifecycle`, `RunLifecycleProofs` |
| `RunContract` | what the lifecycle promises: new, driven, parked, over | instantiated by `RunLifecycle` |
| `IdempotencyGuard` | `PostgresIdempotencyGuard.once` and `prune` | `MCIdempotencyGuard`, `IdempotencyGuardProofs` |
| `WorkflowDag` | `WorkflowDefinition._validate_dag` | `Workflow` |
| `WorkflowExecutor` | `WorkflowExecutor.run` and what happens to a parked run | `Workflow` |
| `Workflow` | a workflow from its definition to its end: the validator, and the executor once it accepted | `MCWorkflow`, `WorkflowProofs` |
| `WorkflowContract` | what the execution of a workflow promises to the outside: tasks, results, gates and approvals in the order of the graph | instantiated by `WorkflowExecutor` |
| `ApprovalGate` | `ApprovalGate.request/wait_for/resolve`, the approval service in front of it | `MCApprovalGate`, `ApprovalGateProofs` |
| `ApprovalContract` | what an approval promises to people and stage: asked, heard, ended once | instantiated by `ApprovalGate` |
| `Delivery` | the five broker adapters, retry, dead-lettering | `MCDelivery`, `DeliveryProofs` |
| `TrustStore` | the signed lifecycle of manifests and workflow versions | `MCTrustStore`, `TrustStoreProofs` |
| `PolicyEngine` | rule language, actions, hooks, as operators | `GovernedRun` |
| `ContextBudget`, `ContextSources` | redaction, compaction, fitting; registry context sources and delegated context, as operators | `GovernedRun` |
| `GovernedRun` | workflow mode: the five stages of one run, rulesets, results, resumes | `MCGovernedRun`, `GovernedRunProofs` |
| `AccessControl` | tenants, principals, scopes, signers, as operators | `Routing` |
| `Routing` | routing by task type, scope, pin and canary, worker agents, MCP calls, agent cards, promotion, as operators | `OrchestratorLoop` |
| `OrchestratorLoop` | autonomous mode: loop, budgets, coordinator, worker, registry changes, operator | `MCOrchestratorLoop`, `OrchestratorLoopProofs` |

`RunLifecycle` treats a stage as one step that returns, waits or is denied;
`WorkflowExecutor` opens the workflow stage up, `GovernedRun` the stages of workflow
mode and `OrchestratorLoop` the loop of autonomous mode. These three assume the single
driver that `RunLifecycle` establishes. `WorkflowExecutor` assumes an acyclic
definition, which `WorkflowDag` establishes; `Workflow` composes the two. The approval
steps of the executor and of `GovernedRun` stand for one passage through
`ApprovalGate`. `RunLifecycle` and `OrchestratorLoop` take `publish_task` as atomic
and deduplicated by key; how far that is true is `IdempotencyGuard`'s subject, and
what becomes of a message after it was handed over is `Delivery`'s. The manifests that
`Routing` chooses among are those `TrustStore` lets load.

### RunLifecycle

One process per coroutine that can drive the run (`Callers`, `Collectors`,
`Pollers`); `pc[p]` is its point between two awaits and every action is one
awaited statement with the synchronous code that follows it. `sc[p]` abstracts
the `StageContext` to the length of the completed prefix (`done`) and the last
stage noted as dispatched or waited for (`parked`); `ckpt` is the latest
checkpoint, `pending[s]` the number of pending `run_wakeups` rows of stage `s`.
`Start` … `Complete` are `run` and `_drive`; `Collect`, `Satisfy` are
`ResultCollector.handle`; `DueTimers`, `DueJoins` are `WakerPoller.tick`;
`ResumeCallback`, `Load` are the deployed resume callback and `resume_run`;
`CancelFlag` … `CancelWakeups` are the four statements of `RunOps.cancel`.
`Crash` also stands for an exception `_drive` does not handle. `OperatorResume`,
a `resume_run` by hand, is only in `RestartSpec`: it claims nothing (section 3).
`Rejected` are the tasks whose answer the collector's validator may refuse.

`late` is a history variable: it counts the stages begun after the cancel flag was
set. `elapsed` and `fired` are the clock and the outside world. `AWAITING_APPROVAL`,
`CHECKPOINTED` and `RESUMING` are never written by the code and are left out of
`RunStatus`.

### IdempotencyGuard

A caller is a coroutine with a pool connection while it is not idle. `Lock` is
the advisory lock of the key's hash (keys may collide), `Call` the side effect,
`Record` the INSERT with the COMMIT. `fired`, `lost`, `expired` and `answers` are
history: executions, executions whose transaction was rolled back, pruned rows,
results handed out.

### WorkflowDag, WorkflowExecutor, Workflow

`Round` is one iteration of Kahn's loop; `DagInit` ranges over the graphs of
`Definitions`. The check for duplicate step ids has no counterpart (steps are a set).
`Workflow` lets the executor begin when the validator has accepted its definition.

In the executor, `cursor` walks `definition.steps` twice, in `Refresh` and in the sweep;
the sweep repeats while `progressed`. `mem` is `extras["workflow"]`, `ckpt` its last
saved copy: it is saved only by `ParkSave`, so `Crash` and `Resume` go back to the last
wait. `ParkSchedule` is the wakeup that follows the checkpoint in a statement of its
own. A death between the two leaves a gate noted as waited for that nothing wakes, and
the resumed run takes it for passed; `slipped` are the gates that were passed so.
`Reads[s]` are the steps that the templates of a step name, which need not be its
dependencies: `Payload` binds the output of each, or nothing while there is none. A task
is a step with its payload, because the payload is hashed into the idempotency key: two
different payloads are two keys. The stage is modelled with an approval gate wired;
without one the code notes every step as approved.

`WorkflowContract` is the same workflow seen from outside, without driver or
checkpoint: a task, a gate that is waited for and a question to a person may come only
when everything before the step in the graph, however far, has come true. An
in-process step is invisible there, and must not open a gap either: its
predecessors still come before its successors. `Published`, `Settled` and `Phase` are
the refinement mapping. A death is visible only for its price (`Die`): it may cost the
wait for one gate that was due. A stall would be no step of the contract.

### ApprovalGate

`waiter` is the point of `wait`/`wait_for`, `call[p]` what is left of principal
`p`'s `resolve`. A role-bound verdict goes to the gate first and to the row next
(`ResolveBound`, `Persist`), any other one the other way round (`ResolveRow`,
`Notify`). `Remote` principals use the approval service of another process, which
documents itself as single-party (`docs/QA.md:199`) and knows no request of its own
gate (`Known`); so does a call that precedes `Register`. A service with a signing
secret accepts only the token of this request (`TokenOf`). The model is of a gate
with a repository.

`ApprovalContract` has neither row, event nor deadline: people support, object or
decide alone once they are asked, also too late, and the stage ends once, as they
decided. `Close` grants only if nobody objected in a required role. The code does not
keep to that: a later approval can go over a denial before the waiter looks. This grant
is an action of its own, `Overrule`. `Stage` maps the whole blocked wait to "asked".

### Delivery

A copy of a message is `<<m, attempt>>`, because the attempt travels in the header and
a retry is a new copy. `ready`, `delayed`, `dead` and `parked` count copies in the
queue, in a delay, in the dead-letter queue and on the Redis processing list.
`consumer[c]` is one delivery: `Work` is its next broker call (claim, handler verdict,
failure branch, acknowledgement), different for every adapter. The adapter and the
topology are chosen in `Init` from what `build_broker` and `to_queue_spec` can
return. Faults are the death of a consumer (`Crash`), a claim the broker takes back
(`LoseClaim`) and an acknowledgement that fails after the handler succeeded. Messages
are independent of each other in every adapter, so one of them is enough.

### TrustStore

Registry entries and workflow versions share one lifecycle: `approve` and `revoke`
read a row, await, and put back what they read, one step per await, per client.
`Callers` are the admin API with its scopes and the registry command line, whose
store has neither certifier nor capability index (`docs/QA.md:146`, `docs/QA.md:201`).
`Index` follows the put of an approval where a search is configured (`Searches`); it
leaves out a manifest without any text (`Described`), and it may raise (`IndexFails`)
with the signed row already in the store.
A signature is the record of what it covers. `Rotate`/`Retire` change the keys,
`Tamper` one column of a row behind the store; putting a whole signed row back from
a backup is the limitation `docs/deployment.md` states and is left out. Half seconds
make the truncation of `approved_at` in the round trip through the database visible.

### PolicyEngine, ContextBudget, ContextSources, GovernedRun

An operand of a rule is absent, a text, a number or a list, as `resolve_path` returns
it: flags are text, so that `eq` with a number never matches, and `gt` and `lt`
convert. A clamp, and `cap_discount`, takes its bounds from the action or from other
flags, where an absent flag counts as 0. The action_plan stage has four awaits
(context build, pre_prompt, planner, post_plan); `SaveRuleset` may come between any
two. A text is its length, the decisions it carries and whether it holds raw personal
data, so that joining, cutting and counting tokens are computed and not assumed. What
the code does in a loop over rules, actions, lines, sources or declarations is a
recursive function on their places, one step per iteration; `sorted` by priority is
one pass over the rules for each of the priorities `1..MaxPriority`. `ckpt` is the
checkpoint a stage ends with; `ResumeRun` starts the stage at hand again, and the
planner may draft another plan. `CollectResult` judges a result under the ruleset in
force then. `remote` is what the agents behind context sources would answer now,
`cache` what an earlier build left in the process.

### AccessControl, Routing, OrchestratorLoop

`loop` is the frame of `OrchestratorLoop.run`; its `pc` moves at every await. A crash
starts it again at iteration 0 with the checkpointed dialogue: only the idempotency
keys stand between its replay and a second task. `Generate` records the usage the
provider reports with the price of the model, or nothing; `Plan` does so too, because
the lead agent may call the model for its plan, and no gate is asked before. An
idempotency key is the step, the task type and the body; a step has the name that the
planner gave it, or its iteration and index. `WorkerHandles` is `WorkerPool._handle`
with its signature check, cancellation check and choice of agent by task type: the
version that serves is that of the agent hosted behind the queue (`case.agents`),
whatever the task was routed to. An agent card carries the manifest's metadata last,
over the fields it is made of; `Reimport` is a manifest that went through its card.
`Consult` the agent client factory; `Revoke` and `Reimport` what may happen to the
registry meanwhile; `Cancel`, `List`, `Show`, `Promote` the operator, with the
authorisation of `AccessControl` where the code asks for it, which `List` does not. A
deployment (settings, registry, planner, gate, store, callers, and the faults it
meets) is a record in `Cases`, so that each question has a small instance of its own.

## 3. Runs

Passing runs (state counts are distinct states):

| Run | Question | Bounds |
|---|---|---|
| `lifecycle_safety` | one driver, exact resume, gates, kill-switch, refinement of `RunContract`, under a death anywhere, a cancel, an event and a result that may be refused | 4 stages (deny, join of 2, event, timer), 2 collectors, a poller, a worker; 404,240 |
| `lifecycle_progress` | no wakeup is lost when two processes die between claims or while one owns the run, which is then resumed by hand | 3 stages (deny, join of 2, timer), 2 deaths; 155,655 |
| `guard_calls` | accounting of side effects under crashes and pruning, and the return of every call | 2 keys, 2 callers, a pool of 3, 2 crashes, one pruning per key; 46,780 |
| `workflow` | Kahn's algorithm on every graph, the executor of the accepted one under two crashes at any point, the end of the workflow, refinement of `WorkflowContract` | graphs over 3 steps and an unknown name; 6 executed steps: joins, 2 gates at once, an in-process step between queue steps, approvals, a template over a gate that is no dependency; 137,121 |
| `approval` | refinement of `ApprovalContract` (quorum, grounds of a verdict), row against event, the deadline, verdicts from another process | 5 principals (2 remote), 3 kinds of request, 4 calls; 33,882 |
| `delivery` | nothing vanishes, duplicates come from faults alone, the budget is spent exactly, every message settles | 5 adapters and embedded mode, with and without retry and DLQ, 2 retry steps, 2 consumers, 2 faults; 75,184 |
| `trust_store` | what loads was approved in that form, revoked entries are dead, approvals take effect, an index that skips or fails included | an agent, 2 versions, 2 contents (one without text), 2 keys, 2 operators, 4 operations, one changed column; 1,820,284 |
| `governed_run` | published tasks passed rules, clamps and the approval of their draft; prompts are redacted and fitted, and which decisions they keep; context sources | 3 ruleset versions, 2 priorities, 24 deployments for governance (a bounding flag absent, below and above), 576 contexts, 2 with context sources, one resume; 181,347 |
| `orchestrator_loop` | budgets, replay, cancellation, scopes, pins, promotion, signing, identity, termination | 10 deployments, 3 iterations, 2 subagents, a cost cap of 3 units, one death; 395,139 |

Two collectors are the smallest number that can race for a wakeup; a join of two
results the smallest that can be half complete; two stages that wait the smallest that
can confuse one wait with the next. Two callers of one key race for its lock, and of
two keys hold a lock each; the proofs cover keys that share one. Six workflow steps
hold a join of a gate and a queue step, listed against their order, an in-process step
between two queue steps and a second gate that is ready with the first, so that a
template over it finds it passed or not; two crashes can cost both gates. Two
principals of one role, one of another and two remote ones, with and without the right
token, are all the kinds the approval gate tells apart. Two retry steps separate the
first, a middle and the last attempt; two consumers hold a copy and its duplicate at
once; two faults reach a fault during the recovery from another. Two operators race
between read and put; four operations are submit, approve, revoke and one that
overlaps them. In `governed_run` one resume gives two drafts, and the lengths of texts
and budgets are chosen around the points where a line, a memory or the goal no longer
fits. In `orchestrator_loop` the fan-out of a plan exceeds what is left of either
budget, a lead agent spends more on its plans than the cap allows its subagents, and
one death gives a replay. `CHECK_DEADLOCK FALSE` is set where the modelled program
ends or the bounded environment does (workflow, approval, delivery, trust store,
governed run, loop); the other runs check for deadlock.

Several invariants are conjunctions of parts that are named and commented in the
module: `DeliveryInv`, `TrustInv`, `GovernedInv` and `LoopInv` hold the type invariant
with the module's central promise, and the first, second and last of them what makes it
inductive; `VerdictIsRight`, `ApprovedLoads`, `DecisionsFollowDigest`,
`AgentContextSound`, `PinsHold` and `AccessHolds` hold two or three sides of one idea,
`RunsToItsEnd`, `StageUnblocks` and `KilledRunFinishes` a liveness property with what goes
with it.
Every part, the types aside, has a small change of the code that breaks it among
the `mutants` of `PROJECT.json`. What the theorems of section 4 state beyond
the properties of the runs (their type and inductive invariants,
`WakeFindsItsCheckpoint`, `ApprovedFirst`, `GateOpened`, `WaitIsAnswered`,
`QuorumGrants`, `VerdictIsGrounded`, and the variants behind the liveness properties)
is proved and needs no run.

Runs that find a disagreement between the code and what the repository says of
it; the quotations are under `findings` in `PROJECT.json`:

| Run | What TLC shows |
|---|---|
| `guard_fires_once` | a caller that dies between the side effect and the commit of its row lets the redelivery fire it again |
| `status_settles` | WAITING is written after the wakeup is scheduled and can overwrite COMPLETED |
| `revocation_sticks` | an approval that read its entry before a revocation puts it back approved and signed |

Where such a disagreement has a form that holds, the passing runs check that form, and
the finding says where it falls short of the words:

| Property | What the repository says | What holds |
|---|---|---|
| `OneTaskPerStep` | a replayed publish is the same message | of steps that read only queue steps and gates they depend on |
| `ImplementsWorkflowContract` | a gate noted as waited for is passed because the waker fired | but for one gate per death of the driver (`Die`) |
| `ImplementsApprovalContract` | any role-matching denial fails the approval | unless a quorum or a single-handed approval follows before the waiter looks (`Overrule`) |
| `DecisionsFollowDigest` | compaction preserves decisions | if the digest survives the trim; if not, nothing older than the last two lines is left |
| `PinsHold` | version pins are enforced at routing, and promotion pins the version that served | never another version, but the unversioned conventional queue where the registry has no open queue of that version; served by it only if the deployment hosts what it registers; promoted as sent without a crash, or with an unchanged plan and registry |
| `AccessHolds` | `runs list` is scope-gated | of `show`, `trace` and `promote`; `maof runs list` checks nobody |

### Known limits

All of these follow from the modelled statements.

Lifecycle and approval:

* `KilledRunFinishes` needs a poller. Without one, a collector's death between `save`
  and `satisfy_results` loses the join: the redelivery is a duplicate. A death after
  the claim loses it in any case, until someone resumes the run by hand.
* `resume_run` claims nothing. By hand it is safe when the driver died while it owned
  the run; next to a claimable wakeup it makes two drivers, and after a death between
  `ParkSave` and `ParkSchedule` it passes a gate that has not opened (`WhileOwning`
  leaves `park_schedule` out for that reason; `WorkflowExecutor` has it).
* `_drive` writes RUNNING unconditionally, also over a CANCELLED that was just written
  for a run read as PENDING or WAITING; a cancel that reads RUNNING while the driver
  parks leaves the run WAITING until its next wakeup, if one comes.
* The shipped callers of `RunOps.wake` claim the wakeup and resume nothing, so no
  liveness of an event gate holds.
* `RowAgrees` is about verdicts that agree: of two that do not, the row may record the
  one and the stage act on the other. The gate's `TimeoutError` is not handled by
  `_drive`, so the run stays RUNNING (`approval/service.py:184`). The links in
  approval webhooks carry no token, which a service with a secret refuses.
* The guard runs `fn` again after a crash before the commit or after its key was
  pruned; `Accounting` says that these are the only ways. Its callers hold a connection
  while `fn` may take another: a pool that is no larger than the number of callers can
  be used up by calls that wait for each other (`guard_calls` has one connection more).
* The output of an in-process step is durable only when the run parks. Replayed after
  a crash it may differ, and a step that reads it is then published under a second key.
* A result that the validator refuses is not recorded, and the join it was for goes on
  waiting.

Delivery: a dead Redis consumer leaves its message on the processing list, which
nothing reclaims (`Stranded`), and Redis has no backoff; SQS without a dead-letter
queue redelivers a failing message for ever; a failed acknowledgement after a
successful handler is a failure to RabbitMQ and SQS, so the message is published
again; how often a message is tried differs between adapters although
`transport/base.py` promises one behaviour.

Stores: the registry command line approves without certifier and without index; the
client cache of a worker goes on serving a revoked agent; `policy_rules` has no
tenant column, so rules of a tenant's and of the global ruleset with one version mix,
and saving and loading a ruleset are not atomic against each other.

Workflow mode: `fit_envelope` does not drop the notes of data pointers, so they can
exceed the cap that `context/builder.py:36` guarantees (`PromptFits` leaves them out);
`PromptIsRedacted` is about the envelope: the compaction prompt has the raw goal, the
planner is also given the `StageContext` with the raw goal in it, and a pii flag set
by a pre_prompt rule comes after redaction; a `require_approval` of pre_prompt is
discarded, and a later one overwrites an earlier one's roles and parties; a schema
failure in the publish stage leaves earlier tasks published and the run RUNNING.

Autonomous mode: the plans of a lead agent have no brake but `max_iterations`, and a
run whose every iteration the gate halts goes on paying for them (`SpendBounded`
counts them); the S3 store names every subresult of a run alike
(`runs/artifacts.py:78`), so the last one wins; a model without a price, or an
endpoint that reports no usage, costs nothing in the ledger and only the fan-out cap
brakes; the metadata of a manifest can replace its id and scopes on its card; the
worker of the command line has neither guard, run store nor schema registry; an agent
card round trip loses queue, canary, kind, required and certification; MCP structured
content is returned before `isError` is looked at; the runs API and the command line's
cancel, wake and list pass no tenant or no principal.

### Fairness

`RunLifecycle`: weak fairness for a busy coroutine (asyncio schedules it again), for
collectors and workers (the broker redelivers to a live consumer), for the poll loop
(`run_forever`), for timers, and for a cancel call once made. Nobody owes the run a
start, an event, a cancel or a crash. `FairRestartSpec` adds that the operator resumes
after a death: that is what `KilledRunFinishes` is about. `IdempotencyGuard`: a call
that has begun goes on. `WorkflowExecutor`: the driver, due wakeups, timers and
workers; neither approvals nor resumes are fair, and `RunsToItsEnd` says so; the
validator is code that runs. `ApprovalGate`: the waiter and a resolver that has begun,
and the clock when the gate has a deadline; no verdict is owed. `Delivery`: a consumer
loop that is up takes its next step (the consume loops never return by themselves) and
delays expire. `OrchestratorLoop`: the driver alone; neither worker nor operator is
owed, and the loop ends without them. `TrustStore` and `GovernedRun` state safety
only.

## 4. Proofs

All theorems hold for every value of the constants that satisfies the named assumption
of the module (`ConstantsAssumption`, `GuardAssumption`, `DagAssumption`,
`WorkflowAssumption`, `WorkflowRunAssumption`, `ApprovalAssumption`,
`DeliveryAssumption`, `TrustAssumption`, `LoopAssumption`, `GovernanceAssumption`,
`ContextAssumption`). The last five say what the settings classes and the data model
say: which adapters and key providers exist, that retry steps, versions, times and
budgets are natural numbers, that plans hold delegations and the registry manifests. A
ruleset is a sequence of rules with ids of their own (the primary key of
`policy_rules`), actions of the types `apply_action` has handlers for and priorities
up to `MaxPriority`, which is arbitrary; a plan holds known task types, texts have
lengths, the registry is keyed by id. `LoopAssumption` also takes the driver's own
signer as configured: `build_signer` raises before a driver is started without one.

* `RunLifecycleProofs`. None of the five safety properties is inductive alone:
  that a driver resumes exactly depends on the checkpoint not moving under it,
  hence on its being the only owner; that it is the only owner depends on no
  wakeup being pending while one exists; that a gate is honoured depends on every
  claim being backed by the checkpoint saved for it. `OwnershipInv` conjoins them
  with what the owner's context says relative to the checkpoint (`ContextInv`),
  what has not happened before the run starts (`NewRunInv`), which gates a claim
  may find noted (`GateInv`) and the bound of the kill-switch (`CancelInv`).
  `TypeStep`, `OwnerStep`, … prove one conjunct each, one case per action;
  `Ownership` combines them, and `Refinement` maps every action to a step of
  `RunContract` or a stutter. `NoWakeupLost` says what remains of `KilledRunFinishes`
  without fairness: a run that has neither a driver nor a pending wakeup is at its end,
  denied, cancelled, the victim of a death, or was woken by `maof runs wake`, which claims
  the row and resumes nobody; and a parked join still has every result recorded, refused or
  with the broker. It needs what each terminal status rests on (`EndInv`, with which the
  early return of the resume callback is harmless) and where a published task can be
  (`FedInv`).
* `IdempotencyGuardProofs`. `GuardInv` says that whoever checks, calls or records
  holds the lock of its key alone; then at most one execution of a key is between
  its effect and its row, which makes `Accounting` inductive. `CallsGoOn` adds the
  converse (`LocksHeld`: a lock is held by an open transaction, for the key of its call):
  a holder waits for no lock, so the calls cannot wait for each other as long as the pool
  keeps a connection for `fn`. That condition is the resource hazard of `once` itself.
* `WorkflowProofs`, the executor. `ExecInv`: a context claims only durable facts
  (`Sound`), a gate noted as waited for has opened, has slipped or is the one being
  waited for (`WaitedInv`), a task's inputs stay true (`TaskInv`), a pass without progress
  leaves no ready step behind (`SweepInv`). With an acyclic definition the last
  one excludes the stall. A gate may also have slipped, and `WaitedInv` counts: one
  gate for one death at most, because the wait that a death cuts off is the only one
  under way. `WorkflowIsBoth` carries all this over to the composed `Workflow`.
* `WorkflowProofs`, the contract. A step knows its direct dependencies, the contract
  speaks of all that come before it. `BeforeSplit` (what is before a step is its
  dependencies and what is before them) makes the bridge with the least closed set in
  place of an induction over the graph. `DueInv` says that every step with an
  output, in the context or in the checkpoint, has come true and so has all before
  it, also where the output is that of an in-process step which a crash undoes;
  with it `ExecutorRefines` maps every action to a step of the contract or a stutter.
  `SweepEnds` is the safety side of `RunsToItsEnd`: outputs, approvals to ask for, the parts
  of the call, the pass and the visits left go down in that order with every step of
  `run()`.
* `WorkflowProofs`, the validator. A knot (a set of steps each of which depends on
  another of the set) never loses a step to a round; so an empty dictionary means no
  knot, and a round without a ready step is one. `KahnIsRight` puts both directions
  together. `LoadedIsExecutable` discharges what the executor assumes of its
  definition: acyclic is exactly what the validator lets through. `RoundsAreFew`: a round
  that does not decide leaves fewer steps.
* `ApprovalGateProofs`. Every place an approval can be read from (row, verdict in
  the gate, verdict on its way) is backed by a quorum or by a single-party
  resolution of the row. `RowRecordsOutcome` needs `Recorded` besides: which calls can
  still be on their way to the row when the stage has its verdict, and that nothing is
  under way before the request. `GateRefines` uses both, and that only a gate with a
  timeout has a deadline (`DeadlineInv`). `VerdictIsHeard` bounds the steps the waiter
  takes from the first signal to the end of the wait: one that has just read a row
  without verdict sleeps once more and then finds the event.
* `DeliveryProofs`. `DeliveryInv` joins the budget of queued copies to that of carried
  ones (a copy's attempt header is backed by as many failures of its message), claims
  to the processing list, and every undecided message to a copy that a crash cannot
  take away (`Secured`). `NoMessageLost` reads `Accounted` off the last. The count of
  copies (`DuplicatesAreFaults`) rests on the same invariant: the copies of a message
  are a finite set of numbered places, a step adds or takes one of them, and only a
  fault leaves a copy on both sides of a hand-over.
* `TrustStoreProofs`. A row may be changed behind the store, so nothing is inductive
  about rows alone. The invariant says that every signature, in a row or in the frame
  of a client between read and put, was made by a recorded approval over exactly what
  it covers (`SignaturesEarned`), that approvals passed their gates, and that a row
  whose last operation is no approval carries no signature; trust and its loss follow.
  `ApprovalsLoad` adds where an approved agent stands with the index: in it, on its way
  into it, or left out for one of the reasons the code has.
* `OrchestratorLoopProofs`. `LoopInv` has these parts. `Frames` bounds what the slice
  of a plan has left by what the effort budget has left, `Brakes` says that what the
  gate saw is still so when the spend is made and that a late plan left the planning
  point: with them `SpendBounded` and `CancelStops` are inductive over all lives of a
  driver. The plans are counted life by life (`AskedHere`). `RegistryKept` and
  `Routed` follow a task from the registry as it was through the message to the
  result: `AccessIsChecked` and `PinsAreServed` read scopes, versions and signatures
  off them. `TraceAgrees` ties the trace of a first life to the tasks it sent.
  `ReplayIsSteady` is an argument about all lives at once: a planner that goes by the
  number of its subresults dispatches along one sequence of places (`OnTape`), and a
  life that the gate halts makes no further dispatch, because neither the ledger nor
  the fan-out goes down; so all lives together have at most `MaxSubagents` publish
  keys. `LoopNears`: within a life every step takes an iteration, a part of one, a
  delegation or a part of a delegation off what is left.
* `GovernedRunProofs`, what is published. `Released`: from the approval on, the run goes
  on with the checkpointed context, that context may go out (no approval asked for, or
  granted for this draft, or no gate and the advisory fallback), and what is out is of
  its draft and flags. A resume before the approval may plan anew because nothing is out
  yet; a resume after it finds the approved plan. `DraftsDoNotMix` is `OneDraft`.
* `GovernedRunProofs`, the rules. The properties speak of the actions of traced rules,
  the code keeps the context those actions left. `Follows` relates two contexts of an
  evaluation: later rules only take from tools and plan, and never withdraw a denial
  or a request for approval. `Binds` says what one action leaves in every context that
  follows, `Governed` that a context agrees so with each rule of its trace, a clamp as
  long as nothing later writes its flag or a flag that bounds it. Both are carried
  along the actions of a rule, the rules of a pass and the passes of a priority.
  `GovernanceInv` adds that stages between the plan and its publication change nothing
  of this, under rulesets that change meanwhile. `RunIsGoverned` and
  `ApprovalsHonoured` follow; for results, a denying rule that is about the result
  alone matches in the context it is evaluated in, whatever earlier rules did.
* `GovernedRunProofs`, the context. `ContextInv` says that the planner is shown what
  `build` makes of the dialogue, the goal and the sources as they were then. The rest
  is about operators: redaction and cutting bring in no personal data, `Cut` has at
  most the length asked for, dropping memories and lines is monotone down to the goal
  and the last line, and `HardTrim` fits whatever is left, since the two cuts and
  their separator are at most the allowed characters; `compact` keeps the decision
  lines when they fit, the digest is the first line to go and the newest the last.
  Sources contribute in turn, so each one is found in what the later ones leave;
  declarations are judged against what was assembled at the outset, so their order is
  free.

Choices of a first or last place (`Min`, `Max` in routing and promotion) and the
existence of the tape are inductions over numbers. They are done with the least
element of a set of naturals (`FirstPlace`, from the well-founded order of the
library), because the induction rules themselves cannot be instantiated here. In
`GovernedRunProofs` the same order gives `EveryPlace`, induction for a set of places:
with it a recursive function on the places of a sequence is shown to exist and to do
at every place what its definition says, and each fact about a loop is one set of
places and one step.

Only model-checked: all liveness (`KilledRunFinishes`, `EveryCallReturns`,
`RunsToItsEnd`, `StageUnblocks`, `Settles`, `LoopEnds`), because fairness is out of
the prover's reach. Of five of them the safety side is proved, a quantity that is
bounded and that every step of the component takes down, or that nothing is lost and
nobody blocks everybody (`NoWakeupLost`, `CallsGoOn`, `RoundsAreFew`, `SweepEnds`,
`VerdictIsHeard`, `LoopNears`); what the runs add is that the steps are taken. The
theorems of `RunLifecycleProofs` are about `Spec`; under `RestartSpec` (resume by
hand) they are false (section 3), and `lifecycle_progress` checks the disciplined
case.

## 5. Not modelled, and the plan

Left out for good, because they keep no protocol state or only pass data through:
hashing and encryption (a signature is valid or not, a key hash collides or not), the
Ed25519 signer (same contract as the HMAC one), HTTP clients of models, MCP servers
and webhooks (what they may answer is an input), the ranking of a search by embeddings
(an arbitrary order), artifact, memory and vector stores, audit sinks, tracing and
metrics, the evaluation harness (its verdict is the constant `Passes` of
`TrustStore`), argument and YAML parsing, database migrations, the examples. A gate
with `auto_approve` or without a repository is not modelled; nor is the reordering of
a pipeline's stage list.

Next:

1. A composition of `WorkflowExecutor` with `ApprovalGate`, replacing the one-step
   passage: `ApprovalContract` is what the executor would use of the gate.
2. A composition of `RunLifecycle` with `Delivery`, replacing the collector's one-step
   receipt of a result: `NoMessageLost` is what the join would use of the broker.
