------------------------------ MODULE Routing ------------------------------
(***************************************************************************)
(* Registry-driven routing: which approved manifest serves a delegation,   *)
(* which queue its task goes to, and how a finished run becomes a draft    *)
(* workflow with pinned agent versions.                                    *)
(***************************************************************************)
EXTENDS AccessControl

NoManifest == [id |-> Unset, version |-> Unset, queue |-> Unset]

\* in_canary: nobody at 0, everybody at 100, else by the bucket of the run.
in_canary(bucket, pct) == pct > 0 /\ (pct >= 100 \/ bucket < pct)
in_canary_cohort(run, pct) == in_canary(run.bucket, pct)

\* _scopes_granted: neither tenant nor principal means RBAC is not engaged.
scopes_granted(manifest, tenant, principal) ==
    \/ tenant = NoTenant /\ principal = NoPrincipal
    \/ manifest.rbac_scopes \subseteq held_scopes(principal, tenant)

\* RegistryLoader.agents_for_task_type: the places in the registry of the agents that
\* serve a task type for a tenant.
agents_for_task_type(manifests, type, tenant) ==
    {i \in DOMAIN manifests : /\ manifests[i].kind \in {"l2_agent", "mcp_server"}
                              /\ type \in manifests[i].accepted_task_types
                              /\ scopes_granted(manifests[i], tenant, NoPrincipal)}

\* The candidates for a delegation, and those of the pinned version.
candidates(delegation, manifests, run) ==
    {i \in agents_for_task_type(manifests, delegation.task_type, run.tenant) :
        delegation.agent \in {Unset, manifests[i].id}}
pinned(delegation, manifests, run) ==
    {i \in candidates(delegation, manifests, run) : delegation.pin \in {Unset, manifests[i].version}}
\* The ones with a queue; a manifest with a canary is passed over by the runs outside of
\* its cohort.
bound(places, manifests, run) ==
    {i \in places : /\ manifests[i].queue # Unset
                    /\ \/ manifests[i].canary_pct = 0
                       \/ in_canary_cohort(run, manifests[i].canary_pct)}

\* Mutation: the pin is applied only when it leaves a candidate.
ResolveQueuePinAdvisory(delegation, manifests, run) ==
    LET open == bound(candidates(delegation, manifests, run), manifests, run)
    IN  IF open # {} THEN manifests[Min(open)] ELSE NoManifest
\* QueueDispatcher._resolve_queue: the manifest whose queue is used, NoManifest for
\* the naming convention, Refused when a pin matches none of the candidates.
resolve_queue(delegation, manifests, run) ==
    LET open == bound(pinned(delegation, manifests, run), manifests, run)
    IN  IF candidates(delegation, manifests, run) # {} /\ pinned(delegation, manifests, run) = {}
        THEN Refused
        ELSE IF open # {} THEN manifests[Min(open)] ELSE NoManifest

\* RegistrySearch.search: ranked hits that are approved and granted, the first k.
search(hits, manifests, tenant, principal, k) ==
    LET ranked == SelectSeq(hits, LAMBDA id : \E m \in ToSet(manifests) :
                      m.id = id /\ scopes_granted(m, tenant, principal))
    IN  SubSeq(ranked, 1, IF Len(ranked) < k THEN Len(ranked) ELSE k)

-----------------------------------------------------------------------------
(* The agents of a worker process, and the MCP servers behind some of them.       *)

NoAgent == [name |-> Unset]
\* AgentRegistry: the agent that was registered last for a task type serves it.
agent_for_task_type(agents, type) ==
    LET serving == {i \in DOMAIN agents : type \in agents[i].accepted_task_types}
    IN  IF serving = {} THEN NoAgent ELSE agents[Max(serving)]

\* Whether MCPSDKClient.call_tool returns: structured content is the result before
\* isError is looked at.
call_tool(reply) == reply.structured \/ ~reply.isError
\* Whether the agent's handle returns; an MCP agent's task is one tool call.
handle(agent, reply) == IF agent.mcp THEN call_tool(reply) ELSE ~reply.isError

-----------------------------------------------------------------------------
(* A2A: a manifest as an agent card, and a card as a manifest.  The card has no   *)
(* place for the queue binding, the canary and the kind.                          *)

\* What the free-form metadata of a manifest says under the reserved names maof_id and
\* rbac_scopes: Unset and {} when it does not use them, {S} when it says the scopes are S.
NoMetadata == [maof_id |-> Unset, rbac_scopes |-> {}]

\* Mutation: the card of an agent does not carry its scopes.
CardWithoutScopes(manifest) ==
    [name |-> manifest.id, version |-> manifest.version, skills |-> manifest.accepted_task_types,
     params |-> [maof_id |-> manifest.id, rbac_scopes |-> {}]]
\* The metadata comes last and overwrites what the manifest says.
manifest_to_agent_card(manifest) ==
    [name |-> manifest.id, version |-> manifest.version, skills |-> manifest.accepted_task_types,
     params |-> [maof_id |-> IF manifest.metadata.maof_id = Unset THEN manifest.id
                             ELSE manifest.metadata.maof_id,
                 rbac_scopes |-> IF manifest.metadata.rbac_scopes = {} THEN manifest.rbac_scopes
                                 ELSE UNION manifest.metadata.rbac_scopes]]
\* The reserved names do not become metadata again.
agent_card_to_manifest(card) ==
    [id |-> card.params.maof_id, kind |-> "l2_agent", version |-> card.version, queue |-> Unset,
     accepted_task_types |-> card.skills, rbac_scopes |-> card.params.rbac_scopes,
     canary_pct |-> 0, metadata |-> NoMetadata]

-----------------------------------------------------------------------------
(* Promotion of a run. *)

\* Mutation: the version of the first dispatch of the run.
FirstVersion(trace, step) == IF trace = <<>> THEN Unset ELSE trace[1].version
\* _resolved_versions: the last dispatch of a step that recorded a version.
resolved_version(trace, step) ==
    LET hits == {i \in DOMAIN trace : trace[i].step = step /\ trace[i].version # Unset}
    IN  IF hits = {} THEN Unset ELSE trace[Max(hits)].version

\* The results that are the first of their step, and the one before such a result.
FirstResults(results) ==
    {i \in DOMAIN results : \A j \in 1..(i - 1) : results[j].step # results[i].step}
Previous(results, i) == {j \in FirstResults(results) : j < i}

\* promote_run: one step per step_ref in the order of the results, chained.
promote_run(results, trace) ==
    [i \in FirstResults(results) |->
        [step |-> results[i].step, task_type |-> results[i].task_type, agent |-> Unset,
         pin |-> resolved_version(trace, results[i].step),
         depends_on |-> IF Previous(results, i) = {} THEN {}
                        ELSE {results[Max(Previous(results, i))].step}]]
=============================================================================
