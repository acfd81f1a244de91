--------------------------- MODULE MCGovernedRun ---------------------------
EXTENDS GovernedRun

Flag(key) == <<"flags", key>>
Lit(value) == <<"literal", value>>
TypesOf == <<"plan", "task_types">>
Clamp(flag, max, max_flag, min, min_flag) ==
    [type |-> "clamp", flag |-> flag, max |-> max, max_flag |-> max_flag, min |-> min, min_flag |-> min_flag]
Rule(id, stage, priority, callable, when, actions) ==
    [rule_id |-> id, stage |-> stage, priority |-> priority, enabled |-> TRUE,
     callable |-> callable, when |-> when, actions |-> actions]

\* Version 1: approve amounts beyond the cleared funds and clamp them to the funds, which
\* may be absent; strip, deny, judge results.  A flag is text, so "never" has no match.
Version1 == <<
    Rule("results", "post_result", 1, FALSE,
         [op |-> "gt", lhs |-> <<"semantic", "figure">>, rhs |-> Lit(Number(0))],
         <<[type |-> "deny_plan"]>>),
    Rule("no_pay", "*", 2, FALSE,
         [op |-> "and", clauses |-> {[op |-> "eq", lhs |-> Flag("region"), rhs |-> Lit(Str(2))],
                                     [op |-> "exists", lhs |-> TypesOf]}],
         <<[type |-> "strip_task_type", name |-> "pay"], [type |-> "strip_tool", name |-> "bank"]>>),
    Rule("never", "*", 1, FALSE, [op |-> "eq", lhs |-> Flag("region"), rhs |-> Lit(Number(2))],
         <<[type |-> "deny_plan"]>>),
    Rule("large", "action_plan", 1, FALSE,
         [op |-> "gt", lhs |-> Flag("amount"), rhs |-> Flag("funds")],
         <<[type |-> "require_approval", parties |-> 2], Clamp("amount", Null, "funds", Null, NoKey)>>),
    Rule("no_wire", "action_plan", 1, TRUE, [op |-> "plans", type |-> "wire"],
         <<[type |-> "deny_plan"]>>)>>

\* Version 2: the bounds of the clamp may cross, and every plan needs a human.
Version2 == <<
    Rule("floor", "*", 2, FALSE,
         [op |-> "not", clause |-> [op |-> "lt", lhs |-> Flag("amount"), rhs |-> Lit(Number(4))]],
         <<Clamp("amount", 2, NoKey, Null, "funds"), [type |-> "add_nudge", text |-> "split"]>>),
    Rule("all", "action_plan", 1, FALSE,
         [op |-> "or", clauses |-> {[op |-> "exists", lhs |-> TypesOf],
                                    [op |-> "flag_eq", key |-> "region", value |-> 2]}],
         <<[type |-> "set_flag", key |-> "region", value |-> 1],
           [type |-> "require_approval", parties |-> 1]>>)>>
\* Version 3 strips a tool from every plan and caps the discount.
Version3 == <<Rule("no_bank", "*", 1, FALSE, [op |-> "exists", lhs |-> <<"toolset", "bank">>],
                   <<[type |-> "strip_tool", name |-> "bank"],
                     [Clamp(NoKey, 2, NoKey, Null, NoKey) EXCEPT !.type = "cap_discount"]>>)>>
MCRulesets == <<Version1, Version2, Version3>>
NewHeads == {[tenant |-> Tenant, version |-> 2], [tenant |-> "global", version |-> 3]}
MCTaskTypes == {"pay", "wire", "mail"}
MCInvalid == {"mail"}

Text(len, decisions, pii) == [len |-> len, decisions |-> decisions, pii |-> pii]
Line(len, decisions) == Text(len, decisions, TRUE)
Goal == Text(6, {}, TRUE)
Dialogues == {<<>>, <<Line(9, {"d1"}), Line(7, {}), Line(30, {"d2"})>>,
              <<Line(9, {}), Line(9, {"d1"}), Line(5, {}), Line(8, {"d3"})>>}
Case(plans, newHeads, amount, funds, region, pii, gate, fallback,
     dialogue, memories, notes, compactor, summary, max) ==
    [plans |-> plans, heads |-> newHeads, flags |-> [amount |-> amount, funds |-> funds, region |-> region, pii |-> pii, discount_percent |-> 4],
     toolset |-> {"bank", "crm"},
     gate |-> gate, fallback |-> fallback, dialogue |-> dialogue, reply |-> <<Line(8, {"d4"})>>,
     envelope |-> [goal |-> Goal, dialogue |-> <<>>, memories |-> memories, notes |-> notes],
     registry |-> <<>>, scopes |-> {}, envelopes |-> {}, declared |-> {}, compactor |-> compactor, summary |-> Text(summary, {}, FALSE), max |-> max]

Governance == {Case(SUBSET MCTaskTypes, NewHeads, a[1], a[2], r, 0, g, f, <<>>, <<>>, <<>>, FALSE, 4, 50) :
                 a \in {<<3, 5>>, <<9, 5>>, <<9, Null>>}, r \in 1..2, g \in BOOLEAN, f \in {"deny", "allow"}}
Contexts == {Case({{}}, {}, 3, 5, 1, p, TRUE, "deny", d, m, n, c, s, max) :
               p \in 0..1, d \in Dialogues, m \in {<<>>, <<Line(12, {}), Line(6, {})>>},
               n \in {<<>>, <<Line(20, {})>>}, c \in BOOLEAN, s \in {4, 20}, max \in {2, 4, 8, 12, 16, 20}}
Names == {"budget", "rates", "plan"}
SomeEnvelopes == [flags : SUBSET {"budget"}, tools : {{}}, pointers : SUBSET Names, semantic : SUBSET {"rates"}]
SomeDeclarations == TupleOf([supplies : SUBSET {"rates", "plan"}, requires_from_l1 : SUBSET {"budget", "rates"}], 2)
\* Registry context sources: required, mutable, optional, and one behind a scope.
Source(id, required, mutable, scopes) ==
    [id |-> id, kind |-> "context_source", required |-> required, mutable |-> mutable,
     rbac_scopes |-> scopes]
Sourced == {[c EXCEPT !.registry = <<Source("rates", FALSE, TRUE, {}), Source("stock", TRUE, FALSE, {}),
                                     Source("desk", TRUE, FALSE, {"desk"})>>, !.scopes = s,
                     !.envelopes = SomeEnvelopes, !.declared = SomeDeclarations] :
              c \in {Case({{"pay"}}, {}, 3, 5, 1, 0, TRUE, "deny", <<>>, <<>>, <<>>, FALSE, 4, 50)},
              s \in {{}, {"desk"}}}
MCCases == Governance \cup Contexts \cup Sourced

=============================================================================
