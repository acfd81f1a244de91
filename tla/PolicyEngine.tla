---------------------------- MODULE PolicyEngine ----------------------------
(***************************************************************************)
(* The native policy engine: the condition DSL, the action handlers and    *)
(* the evaluation of a ruleset over a working context.                     *)
(*                                                                         *)
(* A context holds the policy flags, the tool names, the plan's task types *)
(* and the decision so far.  A flag is a string of digits, named by its    *)
(* number, or Null where it is absent.  An operand of a condition keeps    *)
(* its kind, since "2" is not 2 to Python; True and False are 1 and 0 to   *)
(* every operator.  A condition is an atom or one connective over atoms,   *)
(* as deep as the rulesets of the repository go.                           *)
(***************************************************************************)
EXTENDS Integers, Sequences

CONSTANT MaxPriority   \* priorities of rules are 1..MaxPriority

Null == -1
NoPlan == {"no plan"}
Undecided == [require_approval |-> FALSE, parties |-> 1, denied |-> FALSE,
              nudges |-> {}, trace |-> <<>>]

num(flag) == IF flag = Null THEN 0 ELSE flag

None == <<"none", 0>>
Str(n) == <<"str", n>>
Number(n) == <<"num", n>>
ListOf(types) == <<"list", types>>

\* resolve_path: flags.<key>, semantic.<figure>, toolset.<name>, plan.task_types.
resolve_path(path, ctx) ==
    CASE path[1] = "flags" -> IF ctx.flags[path[2]] = Null THEN None ELSE Str(ctx.flags[path[2]])
      [] path[1] = "semantic" -> Number(ctx.semantic)
      [] path[1] = "toolset" -> Number(IF path[2] \in ctx.toolset THEN 1 ELSE 0)
      [] path[1] = "plan" -> IF ctx.plan = NoPlan THEN None ELSE ListOf(ctx.plan)

operand(x, ctx) == IF x[1] = "literal" THEN x[2] ELSE resolve_path(x, ctx)

\* "plans" is the test of a callable rule, Python over the same context.
Atom(when, ctx) ==
    CASE when.op = "always" -> TRUE
      [] when.op = "flag_eq" -> ctx.flags[when.key] = when.value
      [] when.op = "eq" -> operand(when.lhs, ctx) = operand(when.rhs, ctx)
      [] when.op = "gt" -> operand(when.lhs, ctx)[2] > operand(when.rhs, ctx)[2]
      [] when.op = "lt" -> operand(when.lhs, ctx)[2] < operand(when.rhs, ctx)[2]
      [] when.op = "exists" -> resolve_path(when.lhs, ctx) \notin {None, Number(0), ListOf({})}
      [] when.op = "plans" -> ctx.plan # NoPlan /\ when.type \in ctx.plan

\* dsl.evaluate.
evaluate(when, ctx) ==
    CASE when.op = "and" -> \A clause \in when.clauses : Atom(clause, ctx)
      [] when.op = "or" -> \E clause \in when.clauses : Atom(clause, ctx)
      [] when.op = "not" -> ~Atom(when.clause, ctx)
      [] OTHER -> Atom(when, ctx)

\* Mutation: the lower bound first, so that the upper bound wins.
ClampLowerFirst(value, upper, lower) ==
    LET raised == IF lower # Null /\ value < lower THEN lower ELSE value
    IN  IF upper # Null /\ raised > upper THEN upper ELSE raised
\* The upper bound, then the lower one: with lower > upper the lower bound wins.
clamp(value, upper, lower) ==
    LET capped == IF upper # Null /\ value > upper THEN upper ELSE value
    IN  IF lower # Null /\ capped < lower THEN lower ELSE capped

\* A clamp names its flag; cap_discount has one by default.
NoKey == ""
ClampKey(action) == IF action.flag # NoKey THEN action.flag ELSE "discount_percent"

\* A bound is the action's own number (max or max_percent), else the flag it names, which
\* counts as 0 where it is absent.
Upper(action, flags) ==
    IF action.max # Null THEN action.max
    ELSE IF action.max_flag # NoKey THEN num(flags[action.max_flag]) ELSE Null
Lower(action, flags) ==
    IF action.min # Null THEN action.min
    ELSE IF action.min_flag # NoKey THEN num(flags[action.min_flag]) ELSE Null

\* apply_action: the handler of each action type.
apply_action(ctx, action) ==
    CASE action.type = "set_flag" -> [ctx EXCEPT !.flags[action.key] = action.value]
      [] action.type = "add_nudge" -> [ctx EXCEPT !.decision.nudges = @ \cup {action.text}]
      [] action.type = "require_approval" ->
            [ctx EXCEPT !.decision.require_approval = TRUE,
                        !.decision.parties = IF action.parties > 0 THEN action.parties ELSE @]
      [] action.type = "deny_plan" -> [ctx EXCEPT !.decision.denied = TRUE]
      [] action.type = "strip_tool" -> [ctx EXCEPT !.toolset = @ \ {action.name}]
      [] action.type = "strip_task_type" ->
            [ctx EXCEPT !.plan = IF @ = NoPlan THEN @ ELSE @ \ {action.name}]
      [] action.type \in {"clamp", "cap_discount"} ->
            [ctx EXCEPT !.flags[ClampKey(action)] =
                clamp(num(@), Upper(action, ctx.flags), Lower(action, ctx.flags))]

\* The context after the first n actions.
AfterActions(ctx, actions) ==
    LET after[n \in 0..Len(actions)] ==
            IF n = 0 THEN ctx ELSE apply_action(after[n - 1], actions[n])
    IN  after
apply_actions(ctx, actions) == AfterActions(ctx, actions)[Len(actions)]

stage_match(rule, stage) == rule.stage = "*" \/ rule.stage = stage

Matches(rule, stage, ctx) == rule.enabled /\ stage_match(rule, stage) /\ evaluate(rule.when, ctx)

ApplyRule(ctx, rule, stage) ==
    IF Matches(rule, stage, ctx)
    THEN [apply_actions(ctx, rule.actions) EXCEPT !.decision.trace = Append(@, rule.rule_id)]
    ELSE ctx

\* The context after the first n rules, of which those of one kind and priority have
\* their turn: each rule sees what the earlier ones did.
AfterRules(ctx, rules, stage, callable, priority) ==
    LET after[n \in 0..Len(rules)] ==
            IF n = 0 THEN ctx
            ELSE IF rules[n].callable = callable /\ rules[n].priority = priority
                 THEN ApplyRule(after[n - 1], rules[n], stage) ELSE after[n - 1]
    IN  after
Pass(ctx, rules, stage, callable, priority) ==
    AfterRules(ctx, rules, stage, callable, priority)[Len(rules)]

\* sorted by priority: a tie keeps its order.
Passes(ctx, rules, stage, callable) ==
    LET after[p \in 0..MaxPriority] ==
            IF p = 0 THEN ctx ELSE Pass(after[p - 1], rules, stage, callable, p)
    IN  after
ByPriority(ctx, rules, stage, callable) == Passes(ctx, rules, stage, callable)[MaxPriority]

\* NativePolicyEngine._evaluate: the DSL rules, then the callable rules.
Evaluate(rules, stage, ctx) ==
    ByPriority(ByPriority([ctx EXCEPT !.decision = Undecided], rules, stage, FALSE),
               rules, stage, TRUE)

\* pre_prompt evaluates without a plan; post_plan evaluates and returns the plan.
pre_prompt(rules, env) == Evaluate(rules, "action_plan", [env EXCEPT !.plan = NoPlan])
post_plan(rules, env, plan) == Evaluate(rules, "action_plan", [env EXCEPT !.plan = plan])

\* Mutation: the results are judged under the stage of the plan.
PostResultPlanStage(rules, ctx, result) ==
    Evaluate(rules, "action_plan", [ctx EXCEPT !.plan = NoPlan, !.semantic = result])
\* post_result starts from empty flags, leaves the callable rules out and sees
\* the result as the semantic model.
post_result(rules, ctx, result) ==
    ByPriority([ctx EXCEPT !.flags = [k \in DOMAIN @ |-> Null], !.toolset = {}, !.plan = NoPlan,
                           !.semantic = result, !.decision = Undecided],
               rules, "post_result", FALSE)

-----------------------------------------------------------------------------
(* Rulesets: versions, tenants and canaries. *)

\* PostgresPolicyRepo.load_ruleset: the tenant's own head before the global one,
\* then the newest; heads is a set of [tenant, version].
load_ruleset(heads, tenant) ==
    LET own == {h \in heads : h.tenant = tenant}
        pool == IF own # {} THEN own ELSE {h \in heads : h.tenant = "global"}
    IN  {h \in pool : \A g \in pool : g.version <= h.version}

-----------------------------------------------------------------------------
(* What rules are made of. *)

Clamps == {"clamp", "cap_discount"}
ActionTypes == Clamps \cup {"set_flag", "add_nudge", "require_approval", "deny_plan",
                            "strip_tool", "strip_task_type"}
FlagValues == Nat \cup {Null}
Writes(action, key) ==
    \/ action.type = "set_flag" /\ action.key = key
    \/ action.type \in Clamps /\ ClampKey(action) = key

\* The flags a clamp depends on, and an action that leaves them alone.
ClampFlags(action) == {ClampKey(action), action.max_flag, action.min_flag} \ {NoKey}
Spares(other, action) == \A key \in ClampFlags(action) : ~Writes(other, key)

\* apply_action raises for any other type and for a clamp without a flag.
IsAction(action, keys) ==
    /\ action.type \in ActionTypes
    /\ action.type = "set_flag" => action.key \in keys /\ action.value \in Nat
    /\ action.type \in Clamps => /\ ClampFlags(action) \subseteq keys
                                 /\ action.max \in FlagValues /\ action.min \in FlagValues
    /\ action.type = "clamp" => action.flag # NoKey

\* A ruleset is a sequence of rules with ids of their own, as policy_rules has them.
IsRuleset(rules, keys) ==
    /\ Len(rules) \in Nat /\ DOMAIN rules = 1..Len(rules)
    /\ \A i, j \in DOMAIN rules : rules[i].rule_id = rules[j].rule_id => i = j
    /\ \A i \in DOMAIN rules :
          /\ rules[i].rule_id \in STRING /\ rules[i].priority \in 1..MaxPriority /\ rules[i].callable \in BOOLEAN
          /\ LET actions == rules[i].actions
             IN  /\ Len(actions) \in Nat /\ DOMAIN actions = 1..Len(actions)
                 /\ \A k \in DOMAIN actions : IsAction(actions[k], keys)

\* What a clamp promises of its flag.
Clamped(flags, action) ==
    LET value == flags[ClampKey(action)]
        upper == Upper(action, flags)
        lower == Lower(action, flags)
    IN  /\ lower # Null => value >= lower
        /\ upper # Null => value <= upper \/ value = lower

\* A condition that asks for the semantic model alone.
AtomOnResult(when) ==
    \/ when.op = "always"
    \/ when.op = "exists" /\ when.lhs[1] = "semantic"
    \/ when.op \in {"eq", "gt", "lt"} /\ {when.lhs[1], when.rhs[1]} \subseteq {"semantic", "literal"}
OnResult(when) ==
    CASE when.op \in {"and", "or"} -> \A clause \in when.clauses : AtomOnResult(clause)
      [] when.op = "not" -> AtomOnResult(when.clause)
      [] OTHER -> AtomOnResult(when)
=============================================================================
