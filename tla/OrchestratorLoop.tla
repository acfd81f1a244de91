-------------------------- MODULE OrchestratorLoop --------------------------
(***************************************************************************)
(* Autonomous mode: the lead agent's loop with its two budgets, the        *)
(* coordinator that runs a subagent in process or publishes a task, the    *)
(* worker that serves the tasks, and the operator who cancels, inspects    *)
(* and promotes the run.                                                   *)
(*                                                                         *)
(* The loop keeps its subresults in memory only: a driver that is killed   *)
(* starts again at iteration 0 with the checkpointed dialogue, and only    *)
(* the idempotency keys stand between its replay and a second task.        *)
(***************************************************************************)
EXTENDS Routing

CONSTANTS
    Cases,            \* deployments: settings, registry, planner, gate, stores, and in
                      \* `events` which faults and callers the deployment meets
    MaxIterations,    \* max_iterations of the loop
    MaxSubagents,     \* EffortBudget.max_subagents
    FanoutCap, CostCap, Projected,   \* of the worth-it gate, in cost units
    MaxSpend,         \* most that one subagent spends
    MaxCrashes        \* bound on deaths of the driver

\* body stands for the objective and the payload; step_ref is Unset unless the planner set it.
Delegations == [agent: STRING, pin: STRING, task_type: STRING, body: STRING, step_ref: STRING,
                mode: {"queue", "in_process"}]
Manifests == [id: STRING, kind: STRING, version: STRING, queue: STRING, canary_pct: Nat,
              accepted_task_types: SUBSET STRING, rbac_scopes: SUBSET STRING,
              metadata: [maof_id: STRING, rbac_scopes: SUBSET SUBSET STRING]]

ASSUME LoopAssumption ==
    /\ {MaxIterations, MaxSubagents, FanoutCap, CostCap, MaxSpend, MaxCrashes} \subseteq Nat
    /\ Projected \in 0..CostCap
    /\ \A c \in Cases :
          /\ build_signer(c.l1) # Refused
          /\ c.worker.provider \in {"env", "file", "vault"}
          /\ c.manifests \in Seq(Manifests)
          /\ c.lead \in Nat
          /\ \A q \in DOMAIN c.agents : c.agents[q] \in Seq(ToSet(c.agents[q]))
          /\ c.plans \subseteq Seq(Delegations)
          /\ c.steady => \A n \in 0..MaxSubagents : c.script[n + 1] \in Seq(Delegations)

VARIABLES
    case,        \* the deployment
    loop,        \* the frame of OrchestratorLoop.run
    run,         \* runs row: status, cancel_requested
    saved,       \* length of the checkpointed dialogue
    ledger,      \* cost recorded for the run
    guard,       \* publish keys the idempotency guard has seen
    queue,       \* task messages in the broker
    trace,       \* dispatch entries of the run's trace
    manifests,   \* approved manifests of the registry, each at its place
    worker,      \* the worker process: "up" or "refused"
    results,     \* results of the tasks, in order
    clients,     \* agents the worker's client factory has a client for
    draft,       \* the promoted workflow's steps, <<>> before a promotion
    shown,       \* how the operator was shown the run: "list", "show" (history)
    asked,       \* plans asked for, in all lives of the driver (history)
    late,        \* plans asked for after cancel_requested was set (history)
    moved,       \* whether the registry changed (history)
    crashes

hostVars == <<worker, results, clients, queue>>
operatorVars == <<draft, shown>>
coreVars == <<ledger, guard, trace>>
historyVars == <<asked, late>>
vars == <<case, loop, run, saved, coreVars, manifests, hostVars, operatorVars, historyVars, moved, crashes>>

\* maof run-worker: signing is checked before anything is consumed.
StartWorker == IF ensure_signing_configured(case.worker) /\ build_signer(case.worker) # Refused
               THEN "up" ELSE "refused"

FirstFrame == [pc |-> "check", iteration |-> 0, index |-> 0, plan |-> <<>>, n |-> 0, lines |-> 0,
               version |-> Unset]

Init ==
    /\ case \in Cases
    /\ loop = FirstFrame
    /\ run = [status |-> "running", cancel |-> FALSE]
    /\ saved = 0 /\ ledger = 0 /\ guard = {} /\ queue = {} /\ trace = <<>>
    /\ manifests = case.manifests
    /\ worker = StartWorker /\ results = <<>> /\ clients = {}
    /\ draft = <<>> /\ shown = {} /\ asked = 0 /\ late = 0 /\ moved = FALSE /\ crashes = 0

At(point) == loop.pc = point
Delegation == loop.plan[loop.index + 1]

-----------------------------------------------------------------------------
(* The loop. *)

\* Mutation: only the final status counts as cancelled.
CancelledStatusOnly == run.status = "cancelled"
cancelled == run.cancel \/ run.status = "cancelled"

CheckCancel ==
    /\ At("check")
    /\ loop' = IF loop.iteration >= MaxIterations THEN [loop EXCEPT !.pc = "done"]
               ELSE IF cancelled THEN [loop EXCEPT !.pc = "done", !.lines = @ + 1]
               ELSE [loop EXCEPT !.pc = "plan"]
    /\ UNCHANGED <<case, run, saved, coreVars, manifests, hostVars, operatorVars, historyVars, moved, crashes>>

\* What the lead agent may ask for: a script that depends on the number of
\* subresults only, or anything.
Plans == IF case.steady THEN {case.script[loop.n + 1]} ELSE case.plans

\* delegations[:budget_left].
Slice(plan) == SubSeq(plan, 1, IF Len(plan) < MaxSubagents - loop.n THEN Len(plan)
                               ELSE MaxSubagents - loop.n)

\* GatewayProvider._complete: the tokens of a reply, none where no usage is reported.
Usage(reported, tokens) == IF reported THEN tokens ELSE 0
\* RepoCostLedger: a model that is not in the price table costs nothing.
cost_for(tokens) == IF case.model \in case.prices THEN tokens ELSE 0
\* LLMProvider.generate with a run id: one more row of cost_ledger; total() sums the rows.
record(cost) == ledger' = ledger + cost

\* The lead agent may call the model for its plan, and pays for it like everybody else:
\* no gate is asked before.
Plan(plan, reported) ==
    /\ At("plan")
    /\ record(cost_for(Usage(reported, case.lead)))
    /\ asked' = asked + 1
    /\ late' = IF run.cancel THEN late + 1 ELSE late
    /\ loop' = IF plan = <<>> THEN [loop EXCEPT !.pc = "done"]
               ELSE IF loop.n >= MaxSubagents THEN [loop EXCEPT !.pc = "done", !.lines = @ + 1]
               ELSE [loop EXCEPT !.pc = "gate", !.plan = Slice(plan), !.index = 0]
    /\ UNCHANGED <<case, run, saved, guard, trace, manifests, hostVars, operatorVars, moved, crashes>>

\* The priced projection of one more subagent.
Margin == IF case.priced THEN Projected ELSE 0
\* Mutation: the cap looks at the ledger and not at what the next subagent may spend.
CheckLedgerOnly == loop.n + 1 > FanoutCap \/ ledger > CostCap
\* DefaultWorthItGate.check: over the fan-out cap, or over the cost cap with the
\* priced projection of one more subagent.
over_budget == loop.n + 1 > FanoutCap \/ ledger + Margin > CostCap
worth_it == ~case.gate \/ ~over_budget

\* Mutation: a delegation that is not worth it is tried again.
GateWaits ==
    /\ At("gate")
    /\ loop' = IF loop.index = Len(loop.plan) THEN [loop EXCEPT !.pc = "save"]
               ELSE IF worth_it THEN [loop EXCEPT !.pc = "dispatch"] ELSE loop
    /\ UNCHANGED <<case, run, saved, coreVars, manifests, hostVars, operatorVars, historyVars, moved, crashes>>
\* The next delegation of the slice, or the end of the iteration.
Gate ==
    /\ At("gate")
    /\ loop' = IF loop.index = Len(loop.plan) THEN [loop EXCEPT !.pc = "save"]
               ELSE IF worth_it THEN [loop EXCEPT !.pc = "dispatch"]
               ELSE [loop EXCEPT !.pc = "save", !.lines = @ + 1]
    /\ UNCHANGED <<case, run, saved, coreVars, manifests, hostVars, operatorVars, historyVars, moved, crashes>>

Iterated ==
    /\ At("save")
    /\ loop' = [loop EXCEPT !.pc = "check", !.iteration = @ + 1, !.plan = <<>>, !.index = 0]
    /\ saved' = loop.lines
    /\ UNCHANGED <<case, run, coreVars, manifests, hostVars, operatorVars, historyVars, moved, crashes>>

\* A subresult is appended, and a line of dialogue.
Collected == [loop EXCEPT !.pc = "gate", !.index = @ + 1, !.n = @ + 1, !.lines = @ + 1,
                          !.version = Unset]

\* Mutation: the step is named after the length of the dialogue.
StepOfDialogue == <<Unset, loop.lines, 0>>
\* The name that the planner gave the step, or its iteration and index.
step_ref == IF Delegation.step_ref = Unset THEN <<Unset, loop.iteration, loop.index>>
            ELSE <<Delegation.step_ref, 0, 0>>
make_idempotency_key == [step |-> step_ref, task_type |-> Delegation.task_type,
                         body |-> Delegation.body]

-----------------------------------------------------------------------------
(* The coordinator. *)

\* QueueDispatcher: resolve, then publish once per key; a refused pin leaves run().  The
\* message's version and delegation are history: the code sends neither agent nor pin along.
DispatchQueue ==
    /\ At("dispatch") /\ Delegation.mode = "queue"
    /\ LET manifest == resolve_queue(Delegation, manifests, case)
           message == [key |-> make_idempotency_key, id |-> manifest.id, queue |-> manifest.queue,
                       version |-> manifest.version, headers |-> Headers(build_signer(case.l1)),
                       delegation |-> Delegation]
       IN  IF manifest = Refused
           THEN loop' = [loop EXCEPT !.pc = "raised"] /\ UNCHANGED <<queue, guard>>
           ELSE /\ loop' = [loop EXCEPT !.pc = "trace", !.version = manifest.version]
                /\ queue' = IF make_idempotency_key \in guard THEN queue ELSE queue \cup {message}
                /\ guard' = guard \cup {make_idempotency_key}
    /\ UNCHANGED <<case, run, saved, ledger, trace, manifests, worker, results, clients,
                   operatorVars, historyVars, moved, crashes>>

\* ... and the trace entry, with the version that the dispatch resolved.
AppendTrace ==
    /\ At("trace")
    /\ trace' = Append(trace, [step |-> step_ref, version |-> loop.version])
    /\ loop' = Collected
    /\ UNCHANGED <<case, run, saved, ledger, guard, manifests, hostVars, operatorVars,
                   historyVars, moved, crashes>>

\* InProcessSubagent: the model's reply is paid for ...
Generate(reported) ==
    /\ At("dispatch") /\ Delegation.mode = "in_process"
    /\ record(cost_for(Usage(reported, MaxSpend)))
    /\ loop' = [loop EXCEPT !.pc = "generated"]
    /\ UNCHANGED <<case, run, saved, guard, trace, manifests, hostVars, operatorVars, historyVars,
                   moved, crashes>>
\* ... and distilled.
KeepReply ==
    /\ At("generated")
    /\ loop' = Collected
    /\ UNCHANGED <<case, run, saved, coreVars, manifests, hostVars, operatorVars, historyVars,
                   moved, crashes>>

\* The driver records the outcome of the stage the loop ran in.
Complete ==
    /\ At("done") /\ run.status = "running"
    /\ run' = [run EXCEPT !.status = IF run.cancel THEN "cancelled" ELSE "completed"]
    /\ UNCHANGED <<case, loop, saved, coreVars, manifests, hostVars, operatorVars, historyVars, moved, crashes>>

\* The driver dies and the run is resumed: run() starts from its first line.
Crash ==
    /\ "crash" \in case.events /\ crashes < MaxCrashes /\ run.status = "running" /\ ~At("done")
    /\ crashes' = crashes + 1
    /\ loop' = [FirstFrame EXCEPT !.lines = saved]
    /\ UNCHANGED <<case, run, saved, coreVars, manifests, hostVars, operatorVars, historyVars, moved>>

-----------------------------------------------------------------------------
(* The worker process and its agents. *)

\* WorkerPool._handle, in the process that consumes the message's queue: a message that
\* does not verify, that no agent serves or whose agent raises every time is dead-lettered;
\* a pool with a run store skips the tasks of a cancelled run.  The agent is picked by task
\* type alone; `version` is what its code is a build of, which nothing compares with the
\* version that the task was routed to.
WorkerHandles(message, reply) ==
    LET agent == agent_for_task_type(case.agents[message.queue], message.key.task_type)
    IN  /\ worker = "up" /\ message \in queue /\ message.queue \in DOMAIN case.agents
        /\ queue' = queue \ {message}
        /\ results' = IF /\ case.worker.require_signature =>
                              VerifyHeaders(build_signer(case.worker), message.headers)
                         /\ ~(case.run_store /\ cancelled)
                         /\ agent # NoAgent /\ handle(agent, reply)
                      THEN Append(results, [step |-> message.key.step, version |-> agent.version,
                                            task_type |-> message.key.task_type,
                                            message |-> message])
                      ELSE results
        /\ UNCHANGED <<case, loop, run, saved, coreVars, manifests, worker, clients, operatorVars,
                       historyVars, moved, crashes>>

Approved(id) == \E m \in ToSet(manifests) : m.id = id
\* AgentClientFactory.client: cached, or resolved from the approved manifests.
Consult(id) ==
    /\ "consult" \in case.events /\ worker = "up"
    /\ \/ id \in clients
       \/ \E m \in ToSet(manifests) : m.id = id /\ scopes_granted(m, case.tenant, NoPrincipal)
    /\ clients' = clients \cup {id}
    /\ UNCHANGED <<case, loop, run, saved, coreVars, manifests, queue, worker, results, operatorVars,
                   historyVars, moved, crashes>>

\* A manifest is revoked, or replaced by its import from an A2A card.
Revoke(id) ==
    /\ "revoke" \in case.events /\ Approved(id) /\ ~moved /\ moved' = TRUE
    /\ manifests' = Restrict(manifests, {i \in DOMAIN manifests : manifests[i].id # id})
    /\ UNCHANGED <<case, loop, run, saved, coreVars, hostVars, operatorVars, historyVars, crashes>>
Reimport(id) ==
    /\ "import" \in case.events /\ Approved(id) /\ ~moved /\ moved' = TRUE
    /\ manifests' = [i \in DOMAIN manifests |-> IF manifests[i].id # id THEN manifests[i]
                        ELSE agent_card_to_manifest(manifest_to_agent_card(manifests[i]))]
    /\ UNCHANGED <<case, loop, run, saved, coreVars, hostVars, operatorVars, historyVars, crashes>>

-----------------------------------------------------------------------------
(* The operator: the command line and the runs API. *)

Operator == resolve_operator_principal(case.l1)

\* maof runs cancel passes no principal; the API passes what its resolver returned.
Cancel(principal) ==
    /\ "cancel" \in case.events /\ run.status = "running" /\ ~run.cancel
    /\ principal # NoPrincipal => require_run_write(case.tenant.id, principal, NoTenant)
    /\ run' = [run EXCEPT !.cancel = TRUE]
    /\ UNCHANGED <<case, loop, saved, coreVars, manifests, hostVars, operatorVars, historyVars, moved, crashes>>

\* maof runs list passes no principal: whoever runs it is printed the run's id, tenant, status
\* and goal, unless they ask for another tenant's runs.
List ==
    /\ "show" \in case.events /\ "list" \notin shown
    /\ case.as_tenant \in {Unset, case.tenant.id}
    /\ shown' = shown \cup {"list"}
    /\ UNCHANGED <<case, loop, run, saved, coreVars, manifests, hostVars, draft, historyVars, moved, crashes>>

\* maof runs show and trace, for the tenant the operator names.
Show ==
    /\ "show" \in case.events /\ "show" \notin shown
    /\ LET tenant == resolve_tenant(case.l1, case.as_tenant)
       IN  tenant # Refused /\ require_run_read(case.tenant.id, Operator, tenant)
    /\ shown' = shown \cup {"show"}
    /\ UNCHANGED <<case, loop, run, saved, coreVars, manifests, hostVars, draft, historyVars, moved, crashes>>

\* maof runs promote: a completed run with results becomes a draft workflow.
Promote ==
    /\ draft = <<>> /\ run.status = "completed" /\ results # <<>>
    /\ require_scopes(Operator, {"workflow:author"}, NoTenant)
    /\ draft' = promote_run(results, trace)
    /\ UNCHANGED <<case, loop, run, saved, coreVars, manifests, hostVars, shown, historyVars, moved, crashes>>

LoopStep ==
    \/ CheckCancel \/ (\E plan \in Plans, reported \in BOOLEAN : Plan(plan, reported)) \/ Gate \/ Iterated
    \/ DispatchQueue \/ AppendTrace \/ (\E reported \in BOOLEAN : Generate(reported))
    \/ KeepReply \/ Complete
Next ==
    \/ LoopStep \/ Crash
    \/ \E message \in queue, reply \in case.replies : WorkerHandles(message, reply)
    \/ \E m \in ToSet(manifests) : Revoke(m.id) \/ Reimport(m.id)
    \/ \E m \in ToSet(case.manifests) : Consult(m.id)
    \/ \E principal \in case.callers : Cancel(principal)
    \/ List \/ Show \/ Promote

\* The event loop keeps the driver going; nobody owes the run a worker or an operator.
Spec == Init /\ [][Next]_vars /\ WF_vars(LoopStep)

-----------------------------------------------------------------------------
(* Properties. *)

Points == {"check", "plan", "gate", "dispatch", "trace", "generated", "save", "done", "raised"}

Versions == {Unset} \cup UNION {{m.version : m \in ToSet(c.manifests)} : c \in Cases}
FrameType == [pc: Points, iteration: 0..MaxIterations, index: Nat, plan: Seq(Delegations),
              n: 0..MaxSubagents, lines: Nat, version: Versions]

\* The type invariant: the frame stays within its limits.
TypeOK ==
    /\ case \in Cases
    /\ loop \in FrameType
    /\ loop.index \in 0..Len(loop.plan)
    /\ run \in [status: {"running", "completed", "cancelled"}, cancel: BOOLEAN]
    /\ {saved, ledger, asked, late, crashes} \subseteq Nat
    /\ worker \in {"up", "refused"}
    /\ trace \in Seq(ToSet(trace)) /\ results \in Seq(ToSet(results))

PlanCost == cost_for(case.lead)

\* The cost cap brakes the subagents before they spend: beside what the lead agent spends
\* on its plans, the ledger passes the cap by no more than one subagent spends over its
\* priced projection, over all crashes and replays.  The plans themselves have no brake but
\* max_iterations: a life whose every iteration the gate halts goes on planning, and paying
\* (accounting.py, loop.py).
SpendCapped == case.gate => ledger <= CostCap + MaxSpend - Margin + PlanCost * asked
PlansBounded == asked <= MaxIterations * (crashes + 1)
SpendBounded == SpendCapped /\ PlansBounded

\* A cancelled run asks its lead agent for at most one more plan, although the flag is
\* read in another statement than the plan is made in (loop.py).
CancelStops == late <= 1

\* The loop ends, whatever its lead agent keeps asking for and however often the gate
\* halts an iteration (max_iterations in loop.py).
LoopEnds == <>(loop.pc \in {"done", "raised"})

\* A lead agent that plans the same again after a crash publishes no task twice and
\* stays within its effort budget in all its lives together (step_ref in loop.py).
SteadyReplay == case.steady => Cardinality(guard) <= MaxSubagents

\* The manifest's metadata says something else under a reserved name of the agent card.
Overwrites(m) == m.metadata.maof_id # Unset \/ m.metadata.rbac_scopes # {}

\* The registered manifest m is the one known as id, and the tenant holds its scopes; or it
\* may have been re-imported from a card on which its own metadata replaced id or scopes.
WithinScopes(m, id) ==
    \/ m.id = id /\ m.rbac_scopes \subseteq case.tenant.scopes
    \/ moved /\ Overwrites(m) /\ id \in {m.id, m.metadata.maof_id}

\* No task goes to, and no client is built for, a registered agent unless the run's tenant
\* holds its scopes as registered: after an A2A round trip of its manifest, too, but for the
\* manifests whose metadata overwrites the card's reserved fields (a2a.py).
ServedWithinScopes == case.tenant # NoTenant =>
    /\ \A id \in clients : \E m \in ToSet(case.manifests) : WithinScopes(m, id)
    /\ \A r \in ToSet(results) : r.message.id # Unset => \E m \in ToSet(case.manifests) :
          m.version = r.message.version /\ WithinScopes(m, r.message.id)

Sent == queue \cup {r.message : r \in ToSet(results)}
\* The agents of the registry as it was that a delegation may be sent to.
Eligible(d) == bound(pinned(d, case.manifests, case), case.manifests, case)

\* A pinned task is never routed to an agent of another version.  It goes over the
\* conventional queue, which knows no versions, exactly when the registry has no candidate
\* at all or none of the pinned version whose queue is open to the run, and nowhere when
\* it has candidates and none of that version (coordinator.py).
PinsRouted == \A m \in Sent : m.delegation.pin # Unset =>
    /\ m.version \in {Unset, m.delegation.pin}
    /\ ~moved => /\ m.version = Unset <=> Eligible(m.delegation) = {}
                 /\ candidates(m.delegation, case.manifests, case) # {}
                       => pinned(m.delegation, case.manifests, case) # {}

\* The deployment runs behind every registered queue what is registered for it.
HostedAsRegistered == \A m \in ToSet(case.manifests) :
    m.queue \in DOMAIN case.agents => \A a \in ToSet(case.agents[m.queue]) : a.version = m.version

\* The worker compares no versions: a task that was routed to the pinned version is served
\* by it where the deployment hosts what it has registered (registry_runtime.py, pool.py).
PinsServed == HostedAsRegistered => \A r \in ToSet(results) :
    r.message.delegation.pin # Unset /\ r.message.version # Unset => r.version = r.message.delegation.pin

\* A promoted step that the loop named is pinned to the version its task was sent to.  Over
\* deaths of the driver this takes a planner that plans the same again and an unchanged
\* registry (a replay's trace entry records what the replay resolved, although the guard
\* published nothing), and a step may be left unpinned (promote.py).
PromotedAsSent == \A i \in DOMAIN draft : draft[i].step[1] = Unset =>
    /\ crashes = 0 => draft[i].pin = results[i].message.version
    /\ case.steady /\ ~moved => draft[i].pin \in {Unset, results[i].message.version}

\* What pins promise from the plan over routing and serving to the promoted workflow.
PinsHold == PinsRouted /\ PinsServed /\ PromotedAsSent

\* In a multi-tenant deployment without a configured identity the operator is shown no
\* run's record or trace and promotes none.  The list of runs is not among it: it checks
\* nobody (identity.py, ops.py, promote.py; cli.py for the list).
FailsClosed == case.l1.tenancy_mode = "multi" /\ case.l1.principal = NoPrincipal =>
    "show" \notin shown /\ draft = <<>>

\* A worker that requires signatures produces results only for tasks signed with a
\* secret it holds, and never with an empty one (cli.py, signing.py).
SignedIntake == case.worker.require_signature => \A r \in ToSet(results) :
    /\ r.message.headers.secret # Unset
    /\ VerifyHeaders(build_signer(case.worker), r.message.headers)

\* No agent is used without its scopes, no task served without a signature, and no run's
\* record shown or promoted without an identity.
AccessHolds == ServedWithinScopes /\ FailsClosed /\ SignedIntake

-----------------------------------------------------------------------------
(* What the proofs need besides: an inductive invariant of the loop, of the  *)
(* registry and of the tasks that were sent.                                 *)

\* The counters that limit the loop, where it is.
Frames ==
    /\ loop.pc \in {"check", "plan", "done"} => loop.index = 0
    /\ loop.pc \notin {"check", "done", "raised"} => loop.iteration < MaxIterations
    /\ loop.pc \in {"gate", "dispatch", "trace", "generated"} =>
          loop.n + (Len(loop.plan) - loop.index) <= MaxSubagents
    /\ loop.pc \in {"dispatch", "trace", "generated"} => loop.index < Len(loop.plan)
    /\ run.status # "running" => loop.pc = "done"

\* The plans that this life of the driver can have asked for.
AskedHere == IF loop.pc \in {"check", "plan"} THEN loop.iteration
             ELSE IF loop.pc \in {"done", "raised"} THEN MaxIterations ELSE loop.iteration + 1

\* What the gate and the cancel check have seen still holds when it is relied on.
Brakes ==
    /\ case.gate /\ loop.pc = "dispatch" => ledger + Margin <= CostCap
    /\ asked <= MaxIterations * crashes + AskedHere
    /\ late # 0 => run.cancel /\ loop.pc # "plan"

\* Revocations and imports leave id, version and scopes of what is left as registered,
\* unless metadata takes the place of id and scopes; an import drops the queue.
RegistryKept ==
    /\ DOMAIN manifests \subseteq DOMAIN case.manifests
    /\ \A i \in DOMAIN manifests :
          LET m == case.manifests[i]
          IN  /\ manifests[i].version = m.version
              /\ manifests[i].queue \in {Unset, m.queue}
              /\ \/ /\ manifests[i].id = m.id /\ manifests[i].rbac_scopes = m.rbac_scopes
                    /\ Overwrites(manifests[i]) => Overwrites(m)
                    /\ manifests[i].metadata.maof_id \in {Unset, m.metadata.maof_id}
                 \/ moved /\ Overwrites(m) /\ manifests[i].id \in {m.id, m.metadata.maof_id}
    /\ ~moved => manifests = case.manifests

\* The tenant may use the registered manifest m under the id, as in WithinScopes.
Permits(m, id) ==
    \/ m.id = id /\ scopes_granted(m, case.tenant, NoPrincipal)
    \/ moved /\ Overwrites(m) /\ id \in {m.id, m.metadata.maof_id}

\* A task went to an agent of the registry as it was registered, which the tenant may use
\* and the pin names, or over the naming convention.
RoutedTask(m) ==
    /\ \/ m.id = Unset /\ m.version = Unset
       \/ \E a \in ToSet(case.manifests) :
             a.version = m.version /\ a.queue = m.queue /\ Permits(a, m.id)
    /\ m.delegation.pin # Unset =>
          /\ m.version \in {Unset, m.delegation.pin}
          /\ ~moved => /\ m.version = Unset <=> Eligible(m.delegation) = {}
                       /\ candidates(m.delegation, case.manifests, case) # {}
                             => pinned(m.delegation, case.manifests, case) # {}
Served(r) ==
    /\ r.step = r.message.key.step
    /\ r.message.queue \in DOMAIN case.agents
    /\ \E a \in ToSet(case.agents[r.message.queue]) : r.version = a.version
Routed ==
    /\ \A m \in Sent : RoutedTask(m)
    /\ \A r \in ToSet(results) : Served(r)
    /\ \A id \in clients : \E m \in ToSet(case.manifests) : Permits(m, id)
    /\ worker = StartWorker

\* A step that the loop has named and left behind.
Earlier(step) ==
    /\ step \in {Unset} \X Nat \X Nat
    /\ \/ step[2] < loop.iteration
       \/ step[2] = loop.iteration /\ step[3] < loop.index

\* In its first life the loop traces every task it sent, once, with the version it was
\* sent to; only the entry of the task just sent may be missing.
Traced(m) ==
    /\ \/ Earlier(m.key.step) /\ \E t \in ToSet(trace) : t.step = m.key.step
       \/ loop.pc = "trace" /\ m.key.step = step_ref /\ m.version = loop.version
    /\ \A t \in ToSet(trace) : t.step = m.key.step => t.version = m.version
TraceAgrees == crashes = 0 =>
    /\ \A t \in ToSet(trace) : t.step[1] = Unset => Earlier(t.step)
    /\ \A m \in Sent : m.key.step[1] = Unset => Traced(m)

\* The frame is well formed, both brakes of the loop work, and so does what the other
\* properties rest on.
LoopInv ==
    /\ TypeOK /\ SpendBounded /\ CancelStops /\ Frames /\ Brakes
    /\ RegistryKept /\ Routed /\ TraceAgrees
=============================================================================
