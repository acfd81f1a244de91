---------------------------- MODULE GovernedRun ----------------------------
(***************************************************************************)
(* Workflow mode: chat, intent_synthesis, action_plan, approval, publish.  *)
(*                                                                         *)
(* action_plan is one stage with four awaits (context build, pre_prompt,   *)
(* planner, post_plan); an operator may save a ruleset between any two.    *)
(* A checkpoint is saved when a stage ends, so a run that is killed, or    *)
(* resumed by hand after it failed, starts its current stage again and the *)
(* planner, an LLM, may draft another plan.                                *)
(***************************************************************************)
EXTENDS PolicyEngine, ContextBudget, ContextSources

CONSTANTS
    Rulesets,     \* the rules of each ruleset version
    Cases,        \* deployments, inputs, the planner's drafts, the heads saved
                  \* meanwhile, the declarations of the agents
    TaskTypes,    \* task types the planner may use
    Invalid,      \* task types whose body fails its registered schema
    MaxResumes    \* bound on resume_run calls

Tenant == "acme"

\* What the tables and the settings hold: rulesets numbered by version, well formed for
\* the flags a run may have, and plans of known task types.
ASSUME GovernanceAssumption ==
    /\ Len(Rulesets) \in Nat \ {0} /\ DOMAIN Rulesets = 1..Len(Rulesets)
    /\ "no plan" \notin TaskTypes /\ MaxResumes \in Nat /\ MaxPriority \in Nat
    /\ \A c \in Cases :
          /\ c.flags \in [DOMAIN c.flags -> FlagValues]
          /\ \A v \in DOMAIN Rulesets : IsRuleset(Rulesets[v], DOMAIN c.flags)
          /\ \A h \in c.heads : h.version \in DOMAIN Rulesets
          /\ \A plan \in c.plans : plan \subseteq TaskTypes

\* Texts and envelopes are what ContextBudget says, the registry is keyed by id, and an
\* agent lists its declarations.
ASSUME ContextAssumption == \A c \in Cases :
    /\ IsEnvelope(c.envelope) /\ IsTexts(c.dialogue) /\ IsTexts(c.reply) /\ IsText(c.summary)
    /\ c.max \in Nat
    /\ c.registry \in Seq(ToSet(c.registry))
    /\ \A i, j \in DOMAIN c.registry : c.registry[i].id = c.registry[j].id => i = j
    /\ \A i \in DOMAIN c.registry : c.registry[i].required \in BOOLEAN
    /\ \A env \in c.envelopes : env = [flags |-> env.flags, tools |-> env.tools,
                                      pointers |-> env.pointers, semantic |-> env.semantic]
    /\ \A decls \in c.declared : decls \in Seq(ToSet(decls))

VARIABLES
    case,       \* the deployment and the goal's context
    heads,      \* policy_rulesets rows
    pc,         \* where the driver is; "completed", "denied", ... are outcomes
    sc,         \* the StageContext
    ckpt,       \* the latest checkpoint: where it resumes, and its StageContext
    todo,       \* plan tasks the publish stage has not come to
    published,  \* task messages handed to the broker
    signedOff,  \* draft the gate was granted for, 0 for none
    results,    \* results the collector accepted
    remote,     \* what the agents behind the context sources would return now
    cache,      \* the ContextSourceCache of the process
    resumes

sourceVars == <<remote, cache>>
vars == <<case, sourceVars, heads, pc, sc, ckpt, todo, published, signedOff, results, resumes>>

NoPolicy == [version |-> 0, pre |-> Undecided, post |-> Undecided]
Outcomes == {"completed", "denied", "approval_denied", "raised"}

Init ==
    /\ case \in Cases
    /\ heads = {[tenant |-> "global", version |-> 1]}
    /\ pc = "chat"
    /\ sc = [dialogue |-> case.dialogue, intent |-> FALSE, text |-> case.envelope, seen |-> case.envelope,
             env |-> [flags |-> case.flags, toolset |-> {}, plan |-> NoPlan,
                      semantic |-> 0, decision |-> Undecided],
             sources |-> [id \in {} |-> 0], asOf |-> [id \in {} |-> 0],
             draft |-> 0, policy |-> NoPolicy]
    /\ remote = [id \in {m.id : m \in ToSet(case.registry)} |-> "v1"]
    /\ cache = [id \in {} |-> 0]
    /\ ckpt = [pc |-> pc, sc |-> sc]
    /\ todo = {} /\ published = {} /\ signedOff = 0 /\ results = {} /\ resumes = 0

At(point) == pc = point
Goto(point) == pc' = point
\* DefaultL1._drive checkpoints the context a stage returns.
EndStage(next) == Goto(next) /\ ckpt' = [pc |-> next, sc |-> sc']

\* NativePolicyEngine.load, on every evaluation.
Ruleset == CHOOSE h \in load_ruleset(heads, Tenant) : TRUE

-----------------------------------------------------------------------------
(* The stages. *)

\* ChatStage: the goal, and the model's reply where one is wired.
ChatStage ==
    /\ At("chat")
    /\ sc' = [sc EXCEPT !.dialogue = @ \o <<case.envelope.goal>> \o case.reply]
    /\ EndStage("intent_synthesis")
    /\ UNCHANGED <<case, sourceVars, heads, todo, published, signedOff, results, resumes>>

IntentStage ==
    /\ At("intent_synthesis")
    /\ sc' = [sc EXCEPT !.intent = TRUE]
    /\ EndStage("action_plan")
    /\ UNCHANGED <<case, sourceVars, heads, todo, published, signedOff, results, resumes>>

\* The sources: flags, tools, pointers and memories onto a fresh envelope.
contribute == [case.envelope EXCEPT !.dialogue = sc.dialogue]

Attached == attach_registry_context_sources(case.registry, case.scopes)

\* The envelope is built; a required source that is unavailable ends the stage with an
\* error.  asOf is history: what the agents would have returned.
BuildContext ==
    /\ At("action_plan")
    /\ LET built == Assemble(Attached, cache, remote)
       IN  /\ cache' = built.cache
           /\ IF built.failed THEN Goto("raised") /\ UNCHANGED sc
              ELSE /\ Goto("pre_prompt")
                   /\ sc' = [sc EXCEPT !.env.flags = case.flags, !.env.toolset = case.toolset,
                                       !.seen = contribute, !.sources = built.data, !.asOf = remote,
                                       !.text = build(contribute, case.flags["pii"] = 1,
                                                      case.compactor, case.summary, case.max)]
    /\ UNCHANGED <<case, remote, heads, ckpt, todo, published, signedOff, results, resumes>>

PrePrompt ==
    /\ At("pre_prompt")
    /\ LET after == pre_prompt(Rulesets[Ruleset.version], sc.env)
       IN  /\ sc' = [sc EXCEPT !.env = after, !.policy.pre = after.decision]
           /\ Goto(IF after.decision.denied THEN "denied" ELSE "planner")
    /\ UNCHANGED <<case, sourceVars, heads, ckpt, todo, published, signedOff, results, resumes>>

\* The planner drafts any plan; a redraft after a resume has other bodies.
PlannerDrafts(plan) ==
    /\ At("planner")
    /\ sc' = [sc EXCEPT !.env.plan = plan, !.draft = resumes + 1]
    /\ Goto("post_plan")
    /\ UNCHANGED <<case, sourceVars, heads, ckpt, todo, published, signedOff, results, resumes>>

\* Mutation: the stage keeps the planner's plan instead of the returned one.
PostPlanKeepsDraft ==
    /\ At("post_plan")
    /\ LET after == post_plan(Rulesets[Ruleset.version], sc.env, sc.env.plan)
       IN  /\ sc' = [sc EXCEPT !.env = [after EXCEPT !.plan = sc.env.plan],
                               !.policy.post = after.decision,
                               !.policy.version = Ruleset.version]
           /\ IF after.decision.denied THEN Goto("denied") /\ UNCHANGED ckpt
              ELSE EndStage("approval")
    /\ UNCHANGED <<case, sourceVars, heads, todo, published, signedOff, results, resumes>>
\* post_plan sees what pre_prompt did to the envelope, not its decision.
PostPlan ==
    /\ At("post_plan")
    /\ LET after == post_plan(Rulesets[Ruleset.version], sc.env, sc.env.plan)
       IN  /\ sc' = [sc EXCEPT !.env = after, !.policy.post = after.decision,
                               !.policy.version = Ruleset.version]
           /\ IF after.decision.denied THEN Goto("denied") /\ UNCHANGED ckpt
              ELSE EndStage("approval")
    /\ UNCHANGED <<case, sourceVars, heads, todo, published, signedOff, results, resumes>>

\* Mutation: without a gate the stage lets every plan through.
ApprovalStageOpen(granted) ==
    /\ At("approval")
    /\ sc' = sc
    /\ IF sc.policy.post.require_approval /\ case.gate /\ ~granted
       THEN Goto("approval_denied") /\ UNCHANGED <<ckpt, signedOff, todo>>
       ELSE /\ EndStage("publish") /\ todo' = sc.env.plan
            /\ signedOff' = IF case.gate /\ sc.policy.post.require_approval THEN sc.draft ELSE signedOff
    /\ UNCHANGED <<case, sourceVars, heads, published, results, resumes>>
\* ApprovalStage: not required; granted or denied by the gate; or the fallback.
ApprovalStage(granted) ==
    LET required == sc.policy.post.require_approval
        passes == ~required \/ (IF case.gate THEN granted ELSE case.fallback = "allow")
    IN  /\ At("approval")
        /\ sc' = sc
        /\ IF passes THEN EndStage("publish") /\ todo' = sc.env.plan
           ELSE /\ Goto(IF case.gate THEN "approval_denied" ELSE "denied")
                /\ UNCHANGED <<ckpt, todo>>
        /\ signedOff' = IF passes /\ required /\ case.gate THEN sc.draft ELSE signedOff
        /\ UNCHANGED <<case, sourceVars, heads, published, results, resumes>>

\* build_task_message: the task, and the envelope's flags and tools.
Message(type) == [type |-> type, draft |-> sc.draft, flags |-> sc.env.flags,
                  toolset |-> sc.env.toolset]

\* PublishStage, one task: validate, then publish once per key.
PublishTask(type) ==
    /\ At("publish") /\ type \in todo
    /\ IF type \in Invalid
       THEN Goto("raised") /\ UNCHANGED <<todo, published>>
       ELSE /\ published' = published \cup {Message(type)}
            /\ todo' = todo \ {type}
            /\ UNCHANGED pc
    /\ UNCHANGED <<case, sourceVars, heads, sc, ckpt, signedOff, results, resumes>>

PublishEnds ==
    /\ At("publish") /\ todo = {}
    /\ sc' = sc
    /\ EndStage("completed")
    /\ UNCHANGED <<case, sourceVars, heads, todo, published, signedOff, results, resumes>>

-----------------------------------------------------------------------------
(* Around the driver. *)

\* A worker's result passes the post_result rules or is dead-lettered.
CollectResult(m, figure) ==
    /\ \A r \in results : r.message # m
    /\ ~post_result(Rulesets[Ruleset.version], sc.env, figure).decision.denied
    /\ results' = results \cup {[message |-> m, figure |-> figure, version |-> Ruleset.version]}
    /\ UNCHANGED <<case, sourceVars, heads, pc, sc, ckpt, todo, published, signedOff, resumes>>

\* PostgresPolicyRepo.save_ruleset.
SaveRuleset(h) ==
    /\ h \notin heads
    /\ heads' = heads \cup {h}
    /\ UNCHANGED <<case, sourceVars, pc, sc, ckpt, todo, published, signedOff, results, resumes>>

\* The agent behind a context source changes its answer, goes down or comes back.
RemoteChanges(id, answer) ==
    /\ remote[id] # answer
    /\ remote' = [remote EXCEPT ![id] = answer]
    /\ UNCHANGED <<case, cache, heads, pc, sc, ckpt, todo, published, signedOff, results, resumes>>

\* Mutation: action_plan is not among the completed stages of the checkpoint.
ResumeRunReplans ==
    /\ pc # "completed" /\ resumes < MaxResumes /\ resumes' = resumes + 1
    /\ Goto(IF ckpt.pc = "publish" THEN "action_plan" ELSE ckpt.pc) /\ sc' = ckpt.sc
    /\ todo' = {}
    /\ UNCHANGED <<case, sourceVars, heads, ckpt, published, signedOff, results>>
\* A killed or failed run is resumed from its checkpoint, by this process or by another,
\* whose cache is empty.
ResumeRun ==
    /\ pc # "completed" /\ resumes < MaxResumes /\ resumes' = resumes + 1
    /\ Goto(ckpt.pc) /\ sc' = ckpt.sc
    /\ todo' = IF ckpt.pc = "publish" THEN ckpt.sc.env.plan ELSE {}
    /\ cache' \in {cache, [id \in {} |-> 0]}
    /\ UNCHANGED <<case, remote, heads, ckpt, published, signedOff, results>>

Step ==
    \/ ChatStage \/ IntentStage \/ BuildContext \/ PrePrompt
    \/ \E plan \in case.plans : PlannerDrafts(plan)
    \/ PostPlan
    \/ \E granted \in BOOLEAN : ApprovalStage(granted)
    \/ \E type \in TaskTypes : PublishTask(type)
    \/ PublishEnds
Next ==
    \/ Step
    \/ \E m \in published, figure \in 0..1 : CollectResult(m, figure)
    \/ \E h \in case.heads : SaveRuleset(h)
    \/ \E id \in DOMAIN remote, answer \in {"v1", "v2", Down} : RemoteChanges(id, answer)
    \/ ResumeRun

Spec == Init /\ [][Next]_vars

-----------------------------------------------------------------------------
(* Properties. *)

\* The type invariant of the driver's context and of the messages.
TypeOK ==
    /\ pc \in {"chat", "intent_synthesis", "action_plan", "pre_prompt", "planner",
               "post_plan", "approval", "publish"} \cup Outcomes
    /\ sc.env.plan = NoPlan \/ sc.env.plan \subseteq TaskTypes
    /\ sc.policy.version \in {0} \cup DOMAIN Rulesets
    /\ todo \subseteq TaskTypes /\ signedOff \in 0..(MaxResumes + 1)
    /\ \A m \in published : m.type \in TaskTypes /\ m.draft \in 1..(MaxResumes + 1)

\* The actions of the rules that the checkpointed post_plan decision traces, in order.
Fired == LET rules == Rulesets[ckpt.sc.policy.version]
             trace == ckpt.sc.policy.post.trace
             Of(id) == CHOOSE i \in DOMAIN rules : rules[i].rule_id = id
         IN  [n \in DOMAIN trace |-> rules[Of(trace[n])].actions]
FiredOf(type) == {a \in UNION {ToSet(Fired[n]) : n \in DOMAIN Fired} : a.type = type}

\* No task leaves that the traced rules deny or strip, and none carries a tool they
\* strip: whatever ruleset was saved between the two hooks, and whichever plan the
\* planner drafted after a resume (action_plan.py, publish.py).
PublishedWasGoverned == \A m \in published :
    /\ FiredOf("deny_plan") = {}
    /\ \A a \in FiredOf("strip_task_type") : a.name # m.type
    /\ \A a \in FiredOf("strip_tool") : a.name \notin m.toolset

\* A plan that post_plan sent to a human is published only if the gate was granted
\* for this very draft, or if the deployment chose the advisory fallback.
ApprovalHonoured == \A m \in published : FiredOf("require_approval") # {} =>
    IF case.gate THEN signedOff = m.draft ELSE case.fallback = "allow"

\* Tasks of two drafts are never both published: a resumed run goes on with the plan
\* whose first tasks are already out, under the flags it was governed with.
OneDraft == \A m, n \in published : m.draft = n.draft /\ m.flags = n.flags

\* A clamp or cap_discount binds every message unless a later action writes its flag or
\* a flag that bounds it: its lower bound holds, and its upper bound unless the lower one
\* is above it; a bound flag that is absent counts as 0 (actions.py).
ClampHolds == \A m \in published, n \in DOMAIN Fired : \A k \in DOMAIN Fired[n] :
    LET a == Fired[n][k]
    IN  (/\ a.type \in Clamps
         /\ \A l \in DOMAIN Fired[n] : l > k => Spares(Fired[n][l], a)
         /\ \A o \in DOMAIN Fired : o > n => \A l \in DOMAIN Fired[o] : Spares(Fired[o][l], a)) =>
            Clamped(m.flags, a)

Built == pc \in {"pre_prompt", "planner", "post_plan"}
Texts(env) == {env.goal} \cup ToSet(env.dialogue) \cup ToSet(env.memories) \cup ToSet(env.notes)

\* With the pii flag among the sources, no raw personal data is left in the envelope built
\* for the planner, by way of the compactor either, unless the summary it wrote holds some
\* of its own (redactor.py, builder.py).  The planner is handed the StageContext too, whose
\* goal and dialogue nobody redacts (action_plan.py); this is about the envelope.
PromptIsRedacted == Built /\ case.flags["pii"] = 1 /\ ~case.summary.pii => \A t \in Texts(sc.text) : ~t.pii

\* Without data pointer notes the envelope built for the planner is within the budget,
\* down to the last-resort cut (budget.py).
PromptFits == Built /\ sc.text.notes = <<>> => count(sc.text) <= case.max

\* What the compactor hands to the budgeter when the envelope is over its budget, and what
\* is left once the budgeter has dropped the memories.
Compacting == Built /\ case.compactor /\ count(sc.seen) > case.max
Compacted == [redact(sc.seen, case.flags["pii"] = 1) EXCEPT !.dialogue = compact(@, case.summary, case.max)]
DigestFits == count(Lean(Compacted, case.max)) <= case.max

\* The digest carries every decision when the decision lines fit the target and it fits the
\* budget along with the goal, the last two lines and the notes.
DigestKeepsDecisions ==
    (/\ Compacting /\ DigestFits
     /\ estimate_tokens(JoinLen(DecisionLines(sc.seen.dialogue))) <= case.max) =>
        DecisionsIn(sc.seen) \subseteq DecisionsIn(sc.text)

\* If it does not fit, the digest, now the oldest line, is the first that the trim drops: of
\* all decisions only those of the last two lines can reach the planner.
DigestDroppedFirst == Compacting /\ ~DigestFits =>
    DecisionsIn(sc.text) \subseteq DecisionsFrom(sc.seen.dialogue, Len(sc.seen.dialogue) - 1)

\* The newest line is the last to go: its decisions reach the planner whenever the goal
\* and that line alone fit.
NewestLineKept ==
    (/\ Built /\ sc.text.notes = <<>>
     /\ estimate_tokens(JoinLen(<<sc.seen.goal, Last(sc.seen.dialogue)>>)) <= case.max) =>
        Last(sc.seen.dialogue).decisions \subseteq DecisionsIn(sc.text)

\* Which decisions reach the planner: all of them if the digest survives the trim after
\* the compaction; if it does not, none that is older than the last two lines; and
\* those of the newest line in any case, if it fits (LLMCompactor, fit_envelope).
DecisionsFollowDigest == DigestKeepsDecisions /\ DigestDroppedFirst /\ NewestLineKept

\* The planner sees every required source, no source the tenant lacks the scopes for, and
\* of a mutable source what its agent says now, although another build has cached the
\* sources before (RegistryContextSource.contribute).
SourcesSound == Built => \A m \in ToSet(case.registry) :
    /\ m.required /\ m \in ToSet(Attached) => m.id \in DOMAIN sc.sources
    /\ m.id \in DOMAIN sc.sources =>
          /\ m.rbac_scopes \subseteq case.scopes
          /\ m.mutable => sc.sources[m.id] = sc.asOf[m.id]

\* A delegation is refused exactly when a required key was not assembled, in whichever
\* order the agent lists its declarations, and an accepted one no longer carries what
\* the agent supplies (process_context_delegations).
DelegationOrderFree == At("chat") => \A env \in case.envelopes, decls \in case.declared :
    LET out == process_context_delegations(env, decls)
        supplied == UNION {d.supplies : d \in ToSet(decls)}
    IN  /\ out.refused <=> \E d \in ToSet(decls) :
                               ~(d.requires_from_l1 \subseteq available_context_keys(env))
        /\ ~out.refused => out.env = [env EXCEPT !.pointers = @ \ supplied, !.semantic = @ \ supplied]

\* What registry agents add to a context, and what they are then sent, is sound.
AgentContextSound == SourcesSound /\ DelegationOrderFree

\* No accepted result matches a result rule that denies it under the ruleset in force
\* when it was collected, as far as the rule is about the result alone: what it asks of
\* flags is what the earlier result rules set (NativePolicyEngine.post_result).
ResultsGoverned == \A r \in results : \A i \in DOMAIN Rulesets[r.version] :
    LET rule == Rulesets[r.version][i]
    IN  (/\ rule.enabled /\ ~rule.callable /\ stage_match(rule, "post_result")
         /\ OnResult(rule.when)
         /\ \E a \in ToSet(rule.actions) : a.type = "deny_plan") =>
            ~evaluate(rule.when, [sc.env EXCEPT !.semantic = r.figure])

\* Nothing leaves the run or enters it against the rules that were in force.
GovernedInv == TypeOK /\ PublishedWasGoverned /\ ClampHolds /\ ResultsGoverned
=============================================================================
