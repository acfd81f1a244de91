------------------------- MODULE MCOrchestratorLoop -------------------------
(* Deployments of the autonomous loop for TLC.                                *)
EXTENDS OrchestratorLoop, TLC

Task(type, pin) == [agent |-> "", pin |-> pin, task_type |-> type, body |-> "order",
                    step_ref |-> "", mode |-> "queue"]
Think == [agent |-> "", pin |-> "", task_type |-> "", body |-> "think", step_ref |-> "",
          mode |-> "in_process"]

Manifest(id, version, q, scopes, pct) ==
    [id |-> id, kind |-> "l2_agent", version |-> version, queue |-> q,
     accepted_task_types |-> {"price"}, rbac_scopes |-> scopes, canary_pct |-> pct,
     metadata |-> NoMetadata]
\* A canary, an agent behind a scope and the agent for everybody.
Registry == <<Manifest("canary", "v3", "q3", {}, 50), Manifest("guarded", "v2", "q2", {"desk"}, 0),
              Manifest("open", "v1", "q1", {}, 0)>>

NoFile == [readable |-> FALSE, keys |-> [k \in {} |-> ""], active |-> ""]
TwoKeys == [readable |-> TRUE, keys |-> ("old" :> "s0" @@ "new" :> "s1"), active |-> "new"]
Settings(mode, principal, provider, secret, file, required) ==
    [tenancy_mode |-> mode, principal |-> principal, provider |-> provider, secret |-> secret,
     kid |-> "k1", file |-> file, require_signature |-> required]
Author == [id |-> "ann", scopes |-> {"runs:read", "workflow:author"}]
Writer == [id |-> "will", scopes |-> {"runs:write"}]

Agent(name, version, mcp) ==
    [name |-> name, version |-> version, accepted_task_types |-> {"price"}, mcp |-> mcp]
\* A worker process for each queue, and one that has nothing but the first release.
Hosts == [q \in {"q1", "q2", "q3", ""} |->
             <<Agent("pricer", CASE q = "q2" -> "v2" [] q = "q3" -> "v3" [] OTHER -> "v1", FALSE)>>]
OldHosts == [q \in {"q1", "q2", "q3", ""} |-> <<Agent("pricer", "v1", FALSE)>>]
Answer == [structured |-> FALSE, isError |-> FALSE]
Error == [structured |-> FALSE, isError |-> TRUE]

Base ==
    [l1 |-> Settings("single", NoPrincipal, "env", "s0", NoFile, TRUE),
     worker |-> Settings("single", NoPrincipal, "env", "s0", NoFile, TRUE),
     tenant |-> [id |-> "acme", scopes |-> {}], as_tenant |-> "acme", bucket |-> 70,
     manifests |-> Registry, agents |-> Hosts, replies |-> {Answer},
     callers |-> {NoPrincipal}, run_store |-> TRUE, model |-> "m", prices |-> {"m"},
     steady |-> FALSE, script |-> <<>>, gate |-> FALSE, priced |-> TRUE, lead |-> 0,
     plans |-> {<<Task("price", "")>>}, events |-> {}]

\* A registry whose guarded agent says in its metadata that it needs no scope.
OpenedByCard == [Registry EXCEPT ![2].metadata.rbac_scopes = {{}}]
Named(task, ref) == [task EXCEPT !.step_ref = ref]

Deployments == {
    \* a replay of a steady plan by a lead agent that pays for its plans, with a cancel
    [Base EXCEPT !.steady = TRUE, !.plans = {}, !.gate = TRUE, !.lead = 1,
                 !.events = {"crash", "cancel"},
                 !.script = <<<<Task("price", ""), Task("price", "v1"), Think>>, <<Think>>,
                              <<Think>>>>],
    \* ... and one whose registry changes, which is promoted
    [Base EXCEPT !.steady = TRUE, !.plans = {}, !.events = {"crash", "revoke"},
                 !.tenant.scopes = {"desk"},
                 !.script = <<<<Task("price", ""), Named(Task("price", ""), "close")>>, <<>>, <<>>>>],
    \* free planning under the priced gate
    [Base EXCEPT !.gate = TRUE, !.events = {"crash", "cancel"},
                 !.plans = {<<>>, <<Think, Think>>, <<Think, Named(Task("price", ""), "buy")>>}],
    \* ... and by a lead agent that spends whether or not the gate lets it do anything
    [Base EXCEPT !.gate = TRUE, !.plans = {<<Think>>}, !.lead = 2, !.events = {"crash"}],
    \* an unpriced gate and an unpriced model
    [Base EXCEPT !.gate = TRUE, !.priced = FALSE, !.prices = {}, !.plans = {<<Think, Think, Think>>},
                 !.lead = 2, !.events = {"crash"}],
    \* pins, a canary cohort, rotated keys, workers of one release without run store, API callers
    [Base EXCEPT !.plans = {<<>>, <<Task("price", "v1"), Task("price", "v9")>>, <<Task("price", "")>>},
                 !.tenant.scopes = {"desk"}, !.bucket = 20, !.callers = {Writer, Author},
                 !.agents = OldHosts,
                 !.l1.provider = "file", !.l1.file = TwoKeys, !.worker.provider = "vault",
                 !.worker.file = TwoKeys, !.l1.principal = Author, !.run_store = FALSE,
                 !.events = {"crash", "revoke", "cancel"}],
    \* a multi-tenant deployment without an identity, and an agent behind a scope
    [Base EXCEPT !.plans = {<<Task("price", "")>>, <<Task("audit", "v1")>>},
                 !.l1.tenancy_mode = "multi", !.bucket = 20, !.as_tenant = "",
                 !.events = {"import", "consult", "show", "crash"}],
    \* ... which an import from its card opens
    [Base EXCEPT !.manifests = OpenedByCard, !.plans = {<<Task("price", "v2")>>},
                 !.events = {"import", "consult"}],
    \* ... and with an identity, and MCP agents that took the task type over
    [Base EXCEPT !.agents = [q \in DOMAIN Hosts |-> Append(Hosts[q], [Hosts[q][1] EXCEPT !.mcp = TRUE])],
                 !.replies = {Answer, Error, [Error EXCEPT !.structured = TRUE]},
                 !.plans = {<<Task("price", "v2"), Task("price", "v1"), Task("price", "")>>},
                 !.l1.tenancy_mode = "multi", !.l1.principal = Author, !.tenant.scopes = {"desk"},
                 !.events = {"import", "show"}],
    \* no secrets
    [Base EXCEPT !.l1.secret = "", !.worker.secret = "", !.l1.require_signature = FALSE]}
=============================================================================
