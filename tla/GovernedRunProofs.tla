-------------------------- MODULE GovernedRunProofs --------------------------
(***************************************************************************)
(* A governed run of workflow mode, for every deployment, ruleset, planner *)
(* and number of resumes: what it publishes is one draft, obeys the rules  *)
(* that fired on it and was approved where they ask for that; the results  *)
(* it accepts obey the result rules; and the context the planner is shown  *)
(* is redacted, within its budget, keeps what the digest keeps and is from *)
(* sources the tenant may read.                                            *)
(***************************************************************************)
EXTENDS GovernedRun, TLAPS, NaturalsInduction, WellFoundedInduction

(***************************************************************************)
(* What an evaluation of a ruleset leaves in the context.                  *)

\* Induction along the places of a sequence, for a set of places.
LEMMA EveryPlace ==
    ASSUME NEW N \in Nat, NEW G, 0 \in G, \A n \in 0..N : n \in G /\ n < N => n + 1 \in G
    PROVE  \A n \in 0..N : n \in G
<1> DEFINE B == {n \in 0..N : n \notin G}
<1> SUFFICES ASSUME B # {} PROVE FALSE
    OBVIOUS
<1>1. B \in SUBSET Nat
    OBVIOUS
<1>2. IsWellFoundedOn(OpToRel(<, Nat), Nat)
    BY NatLessThanWellFounded
<1>3. PICK x \in B : \A y \in B : ~ (<<y, x>> \in OpToRel(<, Nat))
    <2> HIDE DEF B
    <2> QED
        BY <1>1, <1>2, WFMin
<1>4. x \in 0..N /\ x \notin G /\ x # 0 /\ x - 1 \in 0..N /\ x - 1 < N /\ (x - 1) + 1 = x
    OBVIOUS
<1>5. x - 1 \in B
    BY <1>4
<1> DEFINE pair == <<x - 1, x>>
<1>6. pair \in Nat \X Nat /\ pair[1] < pair[2]
    BY <1>4
<1>7. pair \in OpToRel(<, Nat)
    <2> HIDE DEF pair
    <2> QED
        BY <1>6, Zenon DEF OpToRel
<1> QED
    BY <1>3, <1>5, <1>7

\* AfterActions is what its definition says: the contexts one after the other.
LEMMA ActionsInTurn ==
    ASSUME NEW ctx, NEW actions, Len(actions) \in Nat
    PROVE  LET after == AfterActions(ctx, actions)
           IN  /\ after[0] = ctx
               /\ \A n \in 1..Len(actions) : after[n] = apply_action(after[n - 1], actions[n])
<1> DEFINE N == Len(actions)
           Runs(g, n) == g = [i \in 0..n |-> IF i = 0 THEN ctx ELSE apply_action(g[i - 1], actions[i])]
           G == {n \in 0..N : \E g : Runs(g, n)}
<1>1. 0 \in G
    <2>1. Runs([i \in 0..0 |-> ctx], 0)
        OBVIOUS
    <2> HIDE DEF Runs
    <2> QED
        BY <2>1
<1>2. ASSUME NEW n \in 0..N, n \in G, n < N PROVE n + 1 \in G
    <2>1. PICK g : Runs(g, n)
        BY <1>2
    <2> DEFINE h == [i \in 0..(n + 1) |-> IF i = n + 1 THEN apply_action(g[n], actions[n + 1]) ELSE g[i]]
    <2>2. ASSUME NEW i \in 0..(n + 1)
          PROVE  h[i] = IF i = 0 THEN ctx ELSE apply_action(h[i - 1], actions[i])
        <3>1. CASE i = n + 1
            BY <3>1
        <3>2. CASE i \in 0..n
            <4>1. h[i] = g[i] /\ g[i] = IF i = 0 THEN ctx ELSE apply_action(g[i - 1], actions[i])
                BY <2>1, <3>2
            <4>2. i # 0 => h[i - 1] = g[i - 1]
                BY <3>2
            <4> QED
                BY <4>1, <4>2
        <3> QED
            BY <3>1, <3>2
    <2>3. Runs(h, n + 1)
        BY <2>2
    <2>4. n + 1 \in 0..N
        BY <1>2
    <2> HIDE DEF Runs, h
    <2> QED
        BY <2>3, <2>4
<1>3. N \in G
    <2>1. N \in Nat
        OBVIOUS
    <2> HIDE DEF G, N
    <2>2. \A n \in 0..N : n \in G
        BY <1>1, <1>2, <2>1, EveryPlace
    <2> QED
        BY <2>1, <2>2
<1>4. PICK g : Runs(g, N)
    BY <1>3
<1> DEFINE f == AfterActions(ctx, actions)
<1>5. f = [n \in 0..N |-> IF n = 0 THEN ctx ELSE apply_action(f[n - 1], actions[n])]
    BY <1>4 DEF AfterActions
<1> QED
    <2> HIDE DEF f
    <2> QED
        BY <1>5 DEF f

\* A context has these parts.
Shape(c) ==
    /\ DOMAIN c = {"flags", "toolset", "plan", "semantic", "decision"}
    /\ DOMAIN c.decision = {"require_approval", "parties", "denied", "nudges", "trace"}
    /\ c.flags \in [DOMAIN c.flags -> FlagValues] /\ c.decision.trace \in Seq(STRING)

\* d is a later context of the evaluation than c: nothing comes back that was stripped,
\* and no approval or denial is withdrawn.
Follows(c, d) ==
    /\ Shape(d) /\ DOMAIN d.flags = DOMAIN c.flags /\ d.semantic = c.semantic
    /\ d.toolset \subseteq c.toolset /\ d.plan \subseteq c.plan
    /\ c.plan = NoPlan => d.plan = NoPlan
    /\ c.decision.require_approval => d.decision.require_approval
    /\ c.decision.denied => d.decision.denied

\* What is left in a context of an action that was applied to it.
Binds(a, c) ==
    /\ a.type = "require_approval" => c.decision.require_approval
    /\ a.type = "deny_plan" => c.decision.denied
    /\ a.type = "strip_tool" => a.name \notin c.toolset
    /\ a.type = "strip_task_type" => c.plan = NoPlan \/ a.name \notin c.plan

\* An applied action stays in force.
LEMMA StaysBound ==
    ASSUME NEW a, NEW c, NEW d, Binds(a, c), Follows(c, d)
    PROVE  Binds(a, d)
BY DEF Binds, Follows

\* Later than later is later.
LEMMA FollowsOn ==
    ASSUME NEW c, NEW d, NEW e, Follows(c, d), Follows(d, e)
    PROVE  Follows(c, e)
BY DEF Follows

\* A clamp keeps what it promises, whichever way its bounds cross and wherever they are
\* read from, its own flag included.
LEMMA ClampClamps ==
    ASSUME NEW flags, flags \in [DOMAIN flags -> FlagValues], NEW a, ClampFlags(a) \subseteq DOMAIN flags,
           a.max \in FlagValues, a.min \in FlagValues
    PROVE  LET key == ClampKey(a)
               w == clamp(num(flags[key]), Upper(a, flags), Lower(a, flags))
           IN  key \in DOMAIN flags /\ w \in Nat /\ Clamped([flags EXCEPT ![key] = w], a)
<1> DEFINE key == ClampKey(a)
           v == num(flags[key])
           upper == Upper(a, flags)
           lower == Lower(a, flags)
           w == clamp(v, upper, lower)
           after == [flags EXCEPT ![key] = w]
<1>1. key \in DOMAIN flags
    BY DEF ClampFlags, ClampKey, NoKey
<1>2. \A k \in DOMAIN flags : num(flags[k]) \in Nat
    BY DEF num, FlagValues, Null
<1>3. v \in Nat /\ upper \in FlagValues /\ lower \in FlagValues
    BY <1>1, <1>2 DEF Upper, Lower, ClampFlags, FlagValues, Null
<1>4. /\ w \in Nat /\ (lower # Null => w >= lower) /\ (upper # Null => w <= upper \/ w = lower)
      /\ w = v \/ (upper # Null /\ w = upper) \/ (lower # Null /\ w = lower)
    <2> HIDE DEF v, upper, lower
    <2> QED
        BY <1>3 DEF clamp, FlagValues, Null
<1>5. /\ after[key] = w /\ num(w) = w
      /\ \A k \in DOMAIN flags : k # key => after[k] = flags[k]
    BY <1>1, <1>4 DEF num, Null
<1>6. Lower(a, after) = lower \/ (Lower(a, after) = w /\ lower # Null /\ lower = v)
    <2>1. CASE a.min # Null \/ a.min_flag = NoKey
        BY <2>1 DEF Lower
    <2>2. CASE a.min = Null /\ a.min_flag # NoKey /\ a.min_flag # key
        <3>1. a.min_flag \in DOMAIN flags
            BY <2>2 DEF ClampFlags
        <3> QED
            BY <1>5, <2>2, <3>1 DEF Lower
    <2>3. CASE a.min = Null /\ a.min_flag # NoKey /\ a.min_flag = key
        <3>1. Lower(a, after) = num(after[key]) /\ lower = v
            BY <2>3 DEF Lower
        <3> QED
            BY <1>3, <1>5, <3>1 DEF Null
    <2> QED
        BY <2>1, <2>2, <2>3
<1>7. Upper(a, after) = upper \/ Upper(a, after) = w
    <2>1. CASE a.max # Null \/ a.max_flag = NoKey
        BY <2>1 DEF Upper
    <2>2. CASE a.max = Null /\ a.max_flag # NoKey /\ a.max_flag # key
        <3>1. a.max_flag \in DOMAIN flags
            BY <2>2 DEF ClampFlags
        <3> QED
            BY <1>5, <2>2, <3>1 DEF Upper
    <2>3. CASE a.max = Null /\ a.max_flag # NoKey /\ a.max_flag = key
        BY <1>5, <2>3 DEF Upper
    <2> QED
        BY <2>1, <2>2, <2>3
<1> HIDE DEF v, upper, lower, w
<1>8. Clamped(after, a)
    <2> DEFINE up == Upper(a, after)
               low == Lower(a, after)
    <2>1. (low # Null => w >= low) /\ (up # Null => w <= up \/ w = low)
        <3> HIDE DEF up, low
        <3>1. (low = lower \/ (low = w /\ lower # Null /\ lower = v)) /\ (up = upper \/ up = w)
            BY <1>6, <1>7 DEF up, low
        <3> QED
            BY <1>3, <1>4, <3>1 DEF FlagValues, Null
    <2> QED
        BY <1>5, <2>1 DEF Clamped
<1> QED
    BY <1>1, <1>4, <1>8 DEF w, v, upper, lower

\* A clamp that the flags keep is kept by flags that agree on what it depends on.
LEMMA ClampedAlike ==
    ASSUME NEW flags, NEW more, NEW a, Clamped(flags, a),
           \A key \in ClampFlags(a) : more[key] = flags[key]
    PROVE  Clamped(more, a)
<1>1. more[ClampKey(a)] = flags[ClampKey(a)]
    BY DEF ClampFlags, ClampKey, NoKey
<1>2. Upper(a, more) = Upper(a, flags) /\ Lower(a, more) = Lower(a, flags)
    BY DEF ClampFlags, Upper, Lower
<1> QED
    BY <1>1, <1>2 DEF Clamped

\* One action: it binds, and it changes no flag but its own.
LEMMA OneAction ==
    ASSUME NEW c, NEW a, Shape(c), IsAction(a, DOMAIN c.flags)
    PROVE  LET d == apply_action(c, a)
           IN  /\ Follows(c, d) /\ Binds(a, d) /\ d.decision.trace = c.decision.trace
               /\ \A key \in DOMAIN c.flags : ~Writes(a, key) => d.flags[key] = c.flags[key]
               /\ a.type \in Clamps => Clamped(d.flags, a)
<1> DEFINE d == apply_action(c, a)
<1>1. CASE a.type = "set_flag"
    <2>1. d = [c EXCEPT !.flags[a.key] = a.value]
        BY <1>1 DEF apply_action
    <2>2. /\ DOMAIN d = DOMAIN c /\ d.flags = [c.flags EXCEPT ![a.key] = a.value]
          /\ d.toolset = c.toolset /\ d.plan = c.plan /\ d.semantic = c.semantic /\ d.decision = c.decision
        BY <2>1 DEF Shape
    <2> QED
        BY <1>1, <2>2 DEF Follows, Shape, Binds, IsAction, Writes, Clamps, FlagValues
<1>2. CASE a.type = "add_nudge"
    <2>1. d = [c EXCEPT !.decision.nudges = @ \cup {a.text}]
        BY <1>2 DEF apply_action
    <2>2. /\ DOMAIN d = DOMAIN c /\ d.decision = [c.decision EXCEPT !.nudges = @ \cup {a.text}]
          /\ d.flags = c.flags /\ d.toolset = c.toolset /\ d.plan = c.plan /\ d.semantic = c.semantic
        BY <2>1 DEF Shape
    <2> QED
        BY <1>2, <2>2 DEF Follows, Shape, Binds, IsAction, Writes, Clamps
<1>3. CASE a.type = "require_approval"
    <2>1. d = [c EXCEPT !.decision.require_approval = TRUE,
                        !.decision.parties = IF a.parties > 0 THEN a.parties ELSE @]
        BY <1>3 DEF apply_action
    <2>2. /\ DOMAIN d = DOMAIN c /\ d.decision = [c.decision EXCEPT !.require_approval = TRUE,
                                        !.parties = IF a.parties > 0 THEN a.parties ELSE @]
          /\ d.flags = c.flags /\ d.toolset = c.toolset /\ d.plan = c.plan /\ d.semantic = c.semantic
        BY <2>1 DEF Shape
    <2> QED
        BY <1>3, <2>2 DEF Follows, Shape, Binds, IsAction, Writes, Clamps
<1>4. CASE a.type = "deny_plan"
    <2>1. d = [c EXCEPT !.decision.denied = TRUE]
        BY <1>4 DEF apply_action
    <2>2. /\ DOMAIN d = DOMAIN c /\ d.decision = [c.decision EXCEPT !.denied = TRUE]
          /\ d.flags = c.flags /\ d.toolset = c.toolset /\ d.plan = c.plan /\ d.semantic = c.semantic
        BY <2>1 DEF Shape
    <2> QED
        BY <1>4, <2>2 DEF Follows, Shape, Binds, IsAction, Writes, Clamps
<1>5. CASE a.type = "strip_tool"
    <2>1. d = [c EXCEPT !.toolset = @ \ {a.name}]
        BY <1>5 DEF apply_action
    <2>2. /\ DOMAIN d = DOMAIN c /\ d.toolset = c.toolset \ {a.name}
          /\ d.flags = c.flags /\ d.plan = c.plan /\ d.semantic = c.semantic /\ d.decision = c.decision
        BY <2>1 DEF Shape
    <2> QED
        BY <1>5, <2>2 DEF Follows, Shape, Binds, IsAction, Writes, Clamps
<1>6. CASE a.type = "strip_task_type"
    <2>1. d = [c EXCEPT !.plan = IF @ = NoPlan THEN @ ELSE @ \ {a.name}]
        BY <1>6 DEF apply_action
    <2>2. /\ DOMAIN d = DOMAIN c /\ d.plan = IF c.plan = NoPlan THEN c.plan ELSE c.plan \ {a.name}
          /\ d.flags = c.flags /\ d.toolset = c.toolset /\ d.semantic = c.semantic /\ d.decision = c.decision
        BY <2>1 DEF Shape
    <2> QED
        BY <1>6, <2>2 DEF Follows, Shape, Binds, IsAction, Writes, Clamps
<1>7. CASE a.type \in Clamps
    <2> DEFINE key == ClampKey(a)
               w == clamp(num(c.flags[key]), Upper(a, c.flags), Lower(a, c.flags))
    <2>1. d = [c EXCEPT !.flags[key] = w]
        BY <1>7 DEF apply_action, Clamps
    <2>2. key \in DOMAIN c.flags /\ w \in Nat /\ Clamped([c.flags EXCEPT ![key] = w], a)
        BY <1>7, ClampClamps DEF IsAction, Shape
    <2> HIDE DEF w
    <2>3. /\ DOMAIN d = DOMAIN c /\ d.flags = [c.flags EXCEPT ![key] = w]
          /\ d.toolset = c.toolset /\ d.plan = c.plan /\ d.semantic = c.semantic /\ d.decision = c.decision
        BY <2>1, <2>2 DEF Shape
    <2>4. Follows(c, d) /\ Binds(a, d)
        BY <1>7, <2>2, <2>3 DEF Follows, Shape, Binds, FlagValues, Clamps
    <2>5. \A other \in DOMAIN c.flags : ~Writes(a, other) => d.flags[other] = c.flags[other]
        BY <1>7, <2>3 DEF Writes
    <2> QED
        BY <2>2, <2>3, <2>4, <2>5
<1> QED
    BY <1>1, <1>2, <1>3, <1>4, <1>5, <1>6, <1>7 DEF IsAction, ActionTypes

\* The actions of a rule, one after the other: all of them bind, a flag that none of them
\* writes is as it was, and the last clamp of a flag keeps its promise.
LEMMA AllActions ==
    ASSUME NEW c, NEW actions, Shape(c), Len(actions) \in Nat,
           \A k \in 1..Len(actions) : IsAction(actions[k], DOMAIN c.flags)
    PROVE  LET d == apply_actions(c, actions)
               Final(k) == \A l \in 1..Len(actions) : l > k => Spares(actions[l], actions[k])
           IN  /\ Follows(c, d) /\ d.decision.trace = c.decision.trace
               /\ \A k \in 1..Len(actions) : Binds(actions[k], d)
               /\ \A key \in DOMAIN c.flags :
                     (\A k \in 1..Len(actions) : ~Writes(actions[k], key)) => d.flags[key] = c.flags[key]
               /\ \A k \in 1..Len(actions) : actions[k].type \in Clamps /\ Final(k) =>
                     Clamped(d.flags, actions[k])
<1> DEFINE N == Len(actions)
           f == AfterActions(c, actions)
           Kept(n) == /\ Follows(c, f[n]) /\ f[n].decision.trace = c.decision.trace
                      /\ \A k \in 1..n : Binds(actions[k], f[n])
           Untouched(n) == \A key \in DOMAIN c.flags :
                               (\A k \in 1..n : ~Writes(actions[k], key)) => f[n].flags[key] = c.flags[key]
           Bounded(n) == \A k \in 1..n :
                             actions[k].type \in Clamps /\ (\A l \in 1..n : l > k => Spares(actions[l], actions[k])) =>
                                 Clamped(f[n].flags, actions[k])
           G == {n \in 0..N : Kept(n) /\ Untouched(n) /\ Bounded(n)}
<1>1. f[0] = c /\ \A n \in 1..N : f[n] = apply_action(f[n - 1], actions[n])
    BY ActionsInTurn
<1> HIDE DEF f
<1>2. 0 \in G
    BY <1>1 DEF Follows
<1>3. ASSUME NEW n \in 0..N, n \in G, n < N PROVE n + 1 \in G
    <2> DEFINE m == n + 1
               a == actions[m]
    <2>1. m \in 1..N /\ f[m] = apply_action(f[n], a) /\ Kept(n) /\ Untouched(n) /\ Bounded(n)
        BY <1>1, <1>3
    <2>2. Shape(f[n]) /\ DOMAIN f[n].flags = DOMAIN c.flags
        BY <2>1 DEF Follows
    <2>3. /\ Follows(f[n], f[m]) /\ Binds(a, f[m]) /\ f[m].decision.trace = f[n].decision.trace
          /\ \A key \in DOMAIN c.flags : ~Writes(a, key) => f[m].flags[key] = f[n].flags[key]
          /\ a.type \in Clamps => Clamped(f[m].flags, a)
        BY <2>1, <2>2, OneAction
    <2>4. \A k \in 1..m : k \in 1..n \/ k = m
        OBVIOUS
    <2>5. Kept(m)
        <3>1. Follows(c, f[m])
            BY <2>1, <2>3, FollowsOn
        <3>2. \A k \in 1..n : Binds(actions[k], f[m])
            BY <2>1, <2>3, StaysBound
        <3> QED
            BY <2>1, <2>3, <2>4, <3>1, <3>2
    <2>6. Untouched(m)
        <3> SUFFICES ASSUME NEW key \in DOMAIN c.flags, \A k \in 1..m : ~Writes(actions[k], key)
                     PROVE  f[m].flags[key] = c.flags[key]
            OBVIOUS
        <3>1. ~Writes(a, key) /\ \A k \in 1..n : ~Writes(actions[k], key)
            OBVIOUS
        <3> QED
            BY <2>1, <2>3, <3>1
    <2>7. Bounded(m)
        <3> SUFFICES ASSUME NEW k \in 1..m, actions[k].type \in Clamps,
                            \A l \in 1..m : l > k => Spares(actions[l], actions[k])
                     PROVE  Clamped(f[m].flags, actions[k])
            OBVIOUS
        <3>1. CASE k = m
            BY <2>3, <3>1
        <3>2. CASE k \in 1..n
            <4>1. Spares(a, actions[k]) /\ \A l \in 1..n : l > k => Spares(actions[l], actions[k])
                BY <3>2
            <4>2. ClampFlags(actions[k]) \subseteq DOMAIN c.flags
                BY <2>1, <3>2 DEF IsAction
            <4>3. Clamped(f[n].flags, actions[k])
                BY <2>1, <3>2, <4>1
            <4>4. \A key \in ClampFlags(actions[k]) : f[m].flags[key] = f[n].flags[key]
                BY <2>3, <4>1, <4>2 DEF Spares
            <4> QED
                BY <4>3, <4>4, ClampedAlike
        <3> QED
            BY <2>4, <3>1, <3>2
    <2> QED
        BY <2>1, <2>5, <2>6, <2>7
<1>4. N \in G
    <2>1. N \in Nat
        OBVIOUS
    <2> HIDE DEF G, N
    <2>2. \A n \in 0..N : n \in G
        BY <1>2, <1>3, <2>1, EveryPlace
    <2> QED
        BY <2>1, <2>2
<1>5. apply_actions(c, actions) = f[N]
    BY DEF apply_actions, f
<1> QED
    BY <1>4, <1>5

\* The rule of an id, and the actions that a trace stands for.
RuleOf(rules, id) == CHOOSE i \in DOMAIN rules : rules[i].rule_id = id
Traced(rules, trace) == [t \in DOMAIN trace |-> rules[RuleOf(rules, trace[t])].actions]

\* The context of an evaluation agrees with its trace: what the traced rules did is in
\* force, and no clamp was undone but by a later write.
Governed(rules, c) ==
    LET done == Traced(rules, c.decision.trace)
    IN  /\ \A t \in DOMAIN c.decision.trace : \E i \in DOMAIN rules : rules[i].rule_id = c.decision.trace[t]
        /\ \A t \in DOMAIN done : \A k \in DOMAIN done[t] : Binds(done[t][k], c)
        /\ \A t \in DOMAIN done : \A k \in DOMAIN done[t] :
              (/\ done[t][k].type \in Clamps
               /\ \A l \in DOMAIN done[t] : l > k => Spares(done[t][l], done[t][k])
               /\ \A u \in DOMAIN done : u > t => \A l \in DOMAIN done[u] : Spares(done[u][l], done[t][k])) =>
                  Clamped(c.flags, done[t][k])

\* A traced id names one rule.
LEMMA OneRuleOf ==
    ASSUME NEW rules, NEW keys, IsRuleset(rules, keys), NEW i \in DOMAIN rules
    PROVE  RuleOf(rules, rules[i].rule_id) = i
BY DEF RuleOf, IsRuleset

\* One rule: the context goes on, agrees with its trace again, and if the rule matches
\* its actions bind.
LEMMA OneRule ==
    ASSUME NEW c, NEW rules, NEW stage, NEW i \in DOMAIN rules, Shape(c),
           IsRuleset(rules, DOMAIN c.flags), Governed(rules, c)
    PROVE  LET d == ApplyRule(c, rules[i], stage)
           IN  /\ Follows(c, d) /\ Governed(rules, d)
               /\ Matches(rules[i], stage, c) =>
                     \A k \in DOMAIN rules[i].actions : Binds(rules[i].actions[k], d)
<1> DEFINE actions == rules[i].actions
           id == rules[i].rule_id
           e == apply_actions(c, actions)
           d == ApplyRule(c, rules[i], stage)
           trace == c.decision.trace
<1>1. CASE ~Matches(rules[i], stage, c)
    <2>1. d = c
        BY <1>1 DEF ApplyRule
    <2> QED
        BY <1>1, <2>1 DEF Follows
<1>2. CASE Matches(rules[i], stage, c)
    <2>1. /\ Len(actions) \in Nat /\ DOMAIN actions = 1..Len(actions) /\ id \in STRING
          /\ \A k \in 1..Len(actions) : IsAction(actions[k], DOMAIN c.flags)
        BY DEF IsRuleset
    <2> HIDE DEF actions
    <2>2. /\ Follows(c, e) /\ e.decision.trace = trace
          /\ \A k \in 1..Len(actions) : Binds(actions[k], e)
          /\ \A key \in DOMAIN c.flags :
                (\A k \in 1..Len(actions) : ~Writes(actions[k], key)) => e.flags[key] = c.flags[key]
          /\ \A k \in 1..Len(actions) :
                actions[k].type \in Clamps /\ (\A l \in 1..Len(actions) : l > k => Spares(actions[l], actions[k])) =>
                    Clamped(e.flags, actions[k])
        BY <2>1, AllActions
    <2>3. d = [e EXCEPT !.decision.trace = Append(@, id)]
        BY <1>2 DEF ApplyRule, actions
    <2> HIDE DEF e, d
    <2>4. /\ DOMAIN d = DOMAIN e /\ d.flags = e.flags /\ d.toolset = e.toolset /\ d.plan = e.plan
          /\ d.semantic = e.semantic /\ d.decision = [e.decision EXCEPT !.trace = Append(trace, id)]
        BY <2>2, <2>3 DEF Follows, Shape
    <2>5. /\ DOMAIN d.decision = DOMAIN e.decision /\ d.decision.trace = Append(trace, id)
          /\ d.decision.require_approval = e.decision.require_approval /\ d.decision.denied = e.decision.denied
        BY <2>2, <2>4 DEF Follows, Shape
    <2>6. trace \in Seq(STRING) /\ Append(trace, id) \in Seq(STRING)
        BY <2>1 DEF Shape
    <2>7. Follows(e, d)
        BY <2>2, <2>4, <2>5, <2>6 DEF Follows, Shape
    <2>8. Follows(c, d) /\ \A k \in DOMAIN actions : Binds(actions[k], d)
        BY <2>1, <2>2, <2>7, FollowsOn, StaysBound
    <2> DEFINE old == Traced(rules, trace)
               new == Traced(rules, Append(trace, id))
               n == Len(trace) + 1
    <2>9. /\ n \in Nat /\ DOMAIN old = 1..(n - 1) /\ DOMAIN new = 1..n
          /\ DOMAIN trace = 1..(n - 1) /\ DOMAIN Append(trace, id) = 1..n
          /\ \A t \in 1..(n - 1) : Append(trace, id)[t] = trace[t]
          /\ Append(trace, id)[n] = id
        BY <2>6 DEF Traced
    <2>10. new[n] = actions
        BY <2>9, OneRuleOf DEF Traced, actions
    <2>11. \A t \in 1..(n - 1) : new[t] = old[t]
        BY <2>9 DEF Traced
    <2>12. \A t \in 1..n : t \in 1..(n - 1) \/ t = n
        BY <2>9
    <2> HIDE DEF old, new, n
    <2>13. \A t \in DOMAIN Append(trace, id) : \E j \in DOMAIN rules : rules[j].rule_id = Append(trace, id)[t]
        BY <2>9, <2>12 DEF Governed
    <2>14. \A t \in DOMAIN new : \A k \in DOMAIN new[t] : Binds(new[t][k], d)
        <3>1. \A t \in DOMAIN old : \A k \in DOMAIN old[t] : Binds(old[t][k], c)
            BY DEF Governed, old
        <3> QED
            BY <2>8, <2>9, <2>10, <2>11, <2>12, <3>1, StaysBound
    <2>15. ASSUME NEW t \in DOMAIN new, NEW k \in DOMAIN new[t], new[t][k].type \in Clamps,
                  \A l \in DOMAIN new[t] : l > k => Spares(new[t][l], new[t][k]),
                  \A u \in DOMAIN new : u > t => \A l \in DOMAIN new[u] : Spares(new[u][l], new[t][k])
           PROVE  Clamped(d.flags, new[t][k])
        <3>1. CASE t = n
            BY <2>1, <2>2, <2>4, <2>10, <2>15, <3>1
        <3>2. CASE t \in 1..(n - 1)
            <4> DEFINE a == old[t][k]
            <4>1. t \in DOMAIN old /\ k \in DOMAIN old[t] /\ new[t] = old[t] /\ a.type \in Clamps
                BY <2>9, <2>11, <2>15, <3>2
            <4>2. Clamped(c.flags, a)
                <5>1. \A l \in DOMAIN old[t] : l > k => Spares(old[t][l], a)
                    BY <2>15, <4>1
                <5>2. \A u \in DOMAIN old : u > t => \A l \in DOMAIN old[u] : Spares(old[u][l], a)
                    <6>1. \A u \in DOMAIN old : u \in DOMAIN new /\ new[u] = old[u]
                        BY <2>9, <2>11
                    <6> QED
                        BY <2>15, <4>1, <6>1
                <5> QED
                    BY <4>1, <5>1, <5>2 DEF Governed, old
            <4>3. \A l \in 1..Len(actions) : Spares(actions[l], a)
                <5>1. n \in DOMAIN new /\ n > t
                    BY <2>9, <3>2
                <5> QED
                    BY <2>1, <2>10, <2>15, <4>1, <5>1
            <4>4. ClampFlags(a) \subseteq DOMAIN c.flags
                <5>1. PICK j \in DOMAIN rules : rules[j].rule_id = trace[t]
                    BY <2>9, <3>2 DEF Governed
                <5>2. old[t] = rules[j].actions
                    BY <2>9, <3>2, <5>1, OneRuleOf DEF Traced, old
                <5>3. IsAction(a, DOMAIN c.flags)
                    BY <4>1, <5>2 DEF IsRuleset
                <5> QED
                    BY <4>1, <5>3 DEF IsAction
            <4>5. \A key \in ClampFlags(a) : d.flags[key] = c.flags[key]
                BY <2>2, <2>4, <4>3, <4>4 DEF Spares
            <4> QED
                BY <4>1, <4>2, <4>5, ClampedAlike
        <3> QED
            BY <2>9, <2>12, <2>15, <3>1, <3>2
    <2>16. Governed(rules, d)
        BY <2>5, <2>13, <2>14, <2>15 DEF Governed, new
    <2> QED
        BY <2>8, <2>16 DEF d, actions
<1> QED
    BY <1>1, <1>2

\* AfterRules is what its definition says.
LEMMA RulesInTurn ==
    ASSUME NEW ctx, NEW rules, NEW stage, NEW callable, NEW priority, Len(rules) \in Nat
    PROVE  LET after == AfterRules(ctx, rules, stage, callable, priority)
           IN  /\ after[0] = ctx
               /\ \A n \in 1..Len(rules) : after[n] =
                     IF rules[n].callable = callable /\ rules[n].priority = priority
                     THEN ApplyRule(after[n - 1], rules[n], stage) ELSE after[n - 1]
<1> DEFINE N == Len(rules)
           Turn(acc, n) == IF rules[n].callable = callable /\ rules[n].priority = priority
                           THEN ApplyRule(acc, rules[n], stage) ELSE acc
           Runs(g, n) == g = [i \in 0..n |-> IF i = 0 THEN ctx ELSE Turn(g[i - 1], i)]
           G == {n \in 0..N : \E g : Runs(g, n)}
<1>1. 0 \in G
    <2>1. Runs([i \in 0..0 |-> ctx], 0)
        OBVIOUS
    <2> HIDE DEF Runs
    <2> QED
        BY <2>1
<1>2. ASSUME NEW n \in 0..N, n \in G, n < N PROVE n + 1 \in G
    <2>1. PICK g : Runs(g, n)
        BY <1>2
    <2> HIDE DEF Turn
    <2> DEFINE h == [i \in 0..(n + 1) |-> IF i = n + 1 THEN Turn(g[n], n + 1) ELSE g[i]]
    <2>2. ASSUME NEW i \in 0..(n + 1)
          PROVE  h[i] = IF i = 0 THEN ctx ELSE Turn(h[i - 1], i)
        <3>1. CASE i = n + 1
            BY <3>1
        <3>2. CASE i \in 0..n
            <4>1. h[i] = g[i] /\ g[i] = IF i = 0 THEN ctx ELSE Turn(g[i - 1], i)
                BY <2>1, <3>2
            <4>2. i # 0 => h[i - 1] = g[i - 1]
                BY <3>2
            <4> QED
                BY <4>1, <4>2
        <3> QED
            BY <3>1, <3>2
    <2>3. Runs(h, n + 1)
        BY <2>2
    <2>4. n + 1 \in 0..N
        BY <1>2
    <2> HIDE DEF Runs, h
    <2> QED
        BY <2>3, <2>4
<1>3. N \in G
    <2>1. N \in Nat
        OBVIOUS
    <2> HIDE DEF G, N
    <2>2. \A n \in 0..N : n \in G
        BY <1>1, <1>2, <2>1, EveryPlace
    <2> QED
        BY <2>1, <2>2
<1>4. PICK g : Runs(g, N)
    BY <1>3
<1> DEFINE f == AfterRules(ctx, rules, stage, callable, priority)
<1>5. f = [n \in 0..N |-> IF n = 0 THEN ctx ELSE Turn(f[n - 1], n)]
    BY <1>4 DEF AfterRules
<1> QED
    <2> HIDE DEF f
    <2> QED
        BY <1>5 DEF f

\* One pass: the context goes on and agrees with its trace, and a rule that has its turn
\* in this pass has met a context of it; if it matched, its actions bind.
LEMMA OnePass ==
    ASSUME NEW c, NEW rules, NEW stage, NEW callable, NEW priority, Shape(c),
           IsRuleset(rules, DOMAIN c.flags), Governed(rules, c)
    PROVE  LET d == Pass(c, rules, stage, callable, priority)
           IN  /\ Follows(c, d) /\ Governed(rules, d)
               /\ \A i \in DOMAIN rules : rules[i].callable = callable /\ rules[i].priority = priority =>
                     \E e : /\ Follows(c, e)
                            /\ Matches(rules[i], stage, e) =>
                                  \A k \in DOMAIN rules[i].actions : Binds(rules[i].actions[k], d)
<1> DEFINE N == Len(rules)
           f == AfterRules(c, rules, stage, callable, priority)
           d == Pass(c, rules, stage, callable, priority)
           InTurn(i) == rules[i].callable = callable /\ rules[i].priority = priority
           Met(i, b) == \E e : /\ Follows(c, e)
                               /\ Matches(rules[i], stage, e) =>
                                     \A k \in DOMAIN rules[i].actions : Binds(rules[i].actions[k], b)
           G == {n \in 0..N : /\ Follows(c, f[n]) /\ Governed(rules, f[n])
                              /\ \A i \in 1..n : InTurn(i) => Met(i, f[n])}
<1>1. N \in Nat /\ DOMAIN rules = 1..N
    BY DEF IsRuleset
<1>2. f[0] = c /\ \A n \in 1..N : f[n] = IF InTurn(n) THEN ApplyRule(f[n - 1], rules[n], stage) ELSE f[n - 1]
    BY <1>1, RulesInTurn
<1> HIDE DEF f
<1>3. 0 \in G
    BY <1>1, <1>2 DEF Follows
<1>4. ASSUME NEW n \in 0..N, n \in G, n < N PROVE n + 1 \in G
    <2> DEFINE m == n + 1
    <2>1. /\ m \in 1..N /\ f[m] = IF InTurn(m) THEN ApplyRule(f[n], rules[m], stage) ELSE f[n]
          /\ Follows(c, f[n]) /\ Governed(rules, f[n]) /\ \A i \in 1..n : InTurn(i) => Met(i, f[n])
        BY <1>2, <1>4
    <2>2. Shape(f[n]) /\ IsRuleset(rules, DOMAIN f[n].flags) /\ m \in DOMAIN rules
        BY <1>1, <2>1 DEF Follows
    <2>3. /\ Follows(f[n], f[m]) /\ Governed(rules, f[m])
          /\ InTurn(m) /\ Matches(rules[m], stage, f[n]) =>
                \A k \in DOMAIN rules[m].actions : Binds(rules[m].actions[k], f[m])
        <3>1. CASE InTurn(m)
            BY <2>1, <2>2, <3>1, OneRule
        <3>2. CASE ~InTurn(m)
            BY <2>1, <2>2, <3>2 DEF Follows
        <3> QED
            BY <3>1, <3>2
    <2>4. Follows(c, f[m])
        BY <2>1, <2>3, FollowsOn
    <2>5. ASSUME NEW i \in 1..m, InTurn(i) PROVE Met(i, f[m])
        <3>1. CASE i = m
            BY <2>1, <2>3, <2>5, <3>1
        <3>2. CASE i \in 1..n
            <4>1. PICK e : /\ Follows(c, e)
                           /\ Matches(rules[i], stage, e) =>
                                 \A k \in DOMAIN rules[i].actions : Binds(rules[i].actions[k], f[n])
                BY <2>1, <2>5, <3>2
            <4> QED
                BY <2>3, <4>1, StaysBound
        <3> QED
            BY <3>1, <3>2
    <2> HIDE DEF Met
    <2> QED
        BY <2>1, <2>3, <2>4, <2>5
<1>5. N \in G
    <2> HIDE DEF G, N
    <2>1. \A n \in 0..N : n \in G
        BY <1>1, <1>3, <1>4, EveryPlace
    <2> QED
        BY <1>1, <2>1
<1>6. d = f[N]
    BY DEF Pass, f
<1> QED
    BY <1>1, <1>5, <1>6

\* Passes is what its definition says.
LEMMA PassesInTurn ==
    ASSUME NEW ctx, NEW rules, NEW stage, NEW callable
    PROVE  LET after == Passes(ctx, rules, stage, callable)
           IN  /\ after[0] = ctx
               /\ \A n \in 1..MaxPriority : after[n] = Pass(after[n - 1], rules, stage, callable, n)
<1> DEFINE N == MaxPriority
           Turn(acc, n) == Pass(acc, rules, stage, callable, n)
           Runs(g, n) == g = [i \in 0..n |-> IF i = 0 THEN ctx ELSE Turn(g[i - 1], i)]
           G == {n \in 0..N : \E g : Runs(g, n)}
<1>0. N \in Nat
    BY GovernanceAssumption
<1>1. 0 \in G
    <2>1. Runs([i \in 0..0 |-> ctx], 0)
        OBVIOUS
    <2> HIDE DEF Runs
    <2> QED
        BY <1>0, <2>1
<1>2. ASSUME NEW n \in 0..N, n \in G, n < N PROVE n + 1 \in G
    <2>1. PICK g : Runs(g, n)
        BY <1>2
    <2> HIDE DEF Turn
    <2> DEFINE h == [i \in 0..(n + 1) |-> IF i = n + 1 THEN Turn(g[n], n + 1) ELSE g[i]]
    <2>2. ASSUME NEW i \in 0..(n + 1)
          PROVE  h[i] = IF i = 0 THEN ctx ELSE Turn(h[i - 1], i)
        <3>1. CASE i = n + 1
            BY <3>1
        <3>2. CASE i \in 0..n
            <4>1. h[i] = g[i] /\ g[i] = IF i = 0 THEN ctx ELSE Turn(g[i - 1], i)
                BY <2>1, <3>2
            <4>2. i # 0 => h[i - 1] = g[i - 1]
                BY <3>2
            <4> QED
                BY <4>1, <4>2
        <3> QED
            BY <3>1, <3>2
    <2>3. Runs(h, n + 1)
        BY <2>2
    <2>4. n + 1 \in 0..N
        BY <1>0, <1>2
    <2> HIDE DEF Runs, h
    <2> QED
        BY <2>3, <2>4
<1>3. N \in G
    <2> HIDE DEF G, N
    <2>1. \A n \in 0..N : n \in G
        BY <1>0, <1>1, <1>2, EveryPlace
    <2> QED
        BY <1>0, <2>1
<1>4. PICK g : Runs(g, N)
    BY <1>3
<1> DEFINE f == Passes(ctx, rules, stage, callable)
<1>5. f = [n \in 0..N |-> IF n = 0 THEN ctx ELSE Turn(f[n - 1], n)]
    BY <1>4 DEF Passes
<1>6. f[0] = ctx /\ \A n \in 1..N : f[n] = Turn(f[n - 1], n)
    <2>1. 0 \in 0..N /\ \A n \in 1..N : n \in 0..N /\ n # 0
        BY <1>0
    <2> HIDE DEF f, Turn, N
    <2>2. \A n \in 0..N : f[n] = IF n = 0 THEN ctx ELSE Turn(f[n - 1], n)
        BY <1>5
    <2> QED
        BY <2>1, <2>2
<1> QED
    BY <1>6

\* The rules of one kind by priority: the context goes on and agrees with its trace, and
\* no rule of that kind is passed over.
LEMMA AllPriorities ==
    ASSUME NEW c, NEW rules, NEW stage, NEW callable, Shape(c),
           IsRuleset(rules, DOMAIN c.flags), Governed(rules, c)
    PROVE  LET d == ByPriority(c, rules, stage, callable)
           IN  /\ Follows(c, d) /\ Governed(rules, d)
               /\ \A i \in DOMAIN rules : rules[i].callable = callable =>
                     \E e : /\ Follows(c, e)
                            /\ Matches(rules[i], stage, e) =>
                                  \A k \in DOMAIN rules[i].actions : Binds(rules[i].actions[k], d)
<1> DEFINE N == MaxPriority
           f == Passes(c, rules, stage, callable)
           d == ByPriority(c, rules, stage, callable)
           Met(i, from, to) ==
               \E e : /\ Follows(from, e)
                      /\ Matches(rules[i], stage, e) =>
                            \A k \in DOMAIN rules[i].actions : Binds(rules[i].actions[k], to)
           G == {n \in 0..N : /\ Follows(c, f[n]) /\ Governed(rules, f[n])
                              /\ \A i \in DOMAIN rules :
                                    rules[i].callable = callable /\ rules[i].priority \in 1..n => Met(i, c, f[n])}
<1>1. N \in Nat
    BY GovernanceAssumption
<1>2. f[0] = c /\ \A n \in 1..N : f[n] = Pass(f[n - 1], rules, stage, callable, n)
    BY PassesInTurn
<1>3. d = f[N]
    BY DEF ByPriority
<1> HIDE DEF f, d
<1>4. 0 \in G
    <2>1. 1..0 = {} /\ 0 \in 0..N
        BY <1>1
    <2>2. Follows(c, c)
        BY DEF Follows
    <2> HIDE DEF Met
    <2> QED
        BY <1>2, <2>1, <2>2
<1>5. ASSUME NEW n \in 0..N, n \in G, n < N PROVE n + 1 \in G
    <2> DEFINE m == n + 1
    <2>1. m \in 1..N /\ m \in 0..N /\ m - 1 = n /\ \A p \in 1..m : p \in 1..n \/ p = m
        BY <1>1, <1>5
    <2>2. f[m] = Pass(f[n], rules, stage, callable, m)
        BY <1>2, <2>1
    <2>3. /\ Follows(c, f[n]) /\ Governed(rules, f[n])
          /\ \A i \in DOMAIN rules :
                rules[i].callable = callable /\ rules[i].priority \in 1..n => Met(i, c, f[n])
        BY <1>5
    <2> HIDE DEF m
    <2>4. Shape(f[n]) /\ IsRuleset(rules, DOMAIN f[n].flags)
        BY <2>3 DEF Follows
    <2>5. /\ Follows(f[n], f[m]) /\ Governed(rules, f[m])
          /\ \A i \in DOMAIN rules :
                rules[i].callable = callable /\ rules[i].priority = m => Met(i, f[n], f[m])
        BY <2>2, <2>3, <2>4, OnePass
    <2>6. Follows(c, f[m])
        BY <2>3, <2>5, FollowsOn
    <2>7. ASSUME NEW i \in DOMAIN rules, rules[i].callable = callable, rules[i].priority \in 1..m
          PROVE  Met(i, c, f[m])
        <3>1. CASE rules[i].priority \in 1..n
            BY <2>3, <2>5, <2>7, <3>1, StaysBound
        <3>2. CASE rules[i].priority = m
            BY <2>3, <2>5, <2>7, <3>2, FollowsOn
        <3> QED
            BY <2>1, <2>7, <3>1, <3>2
    <2> HIDE DEF Met
    <2>8. m \in G
        BY <2>1, <2>5, <2>6, <2>7
    <2> QED
        BY <2>8 DEF m
<1>6. N \in G
    <2> HIDE DEF G, N
    <2>1. \A n \in 0..N : n \in G
        BY <1>1, <1>4, <1>5, EveryPlace
    <2> QED
        BY <1>1, <2>1
<1>7. \A i \in DOMAIN rules : rules[i].priority \in 1..N
    BY DEF IsRuleset
<1> HIDE DEF Met
<1>8. \A i \in DOMAIN rules : rules[i].callable = callable => Met(i, c, d)
    BY <1>3, <1>6, <1>7
<1>9. Follows(c, d) /\ Governed(rules, d)
    BY <1>3, <1>6
<1> QED
    BY <1>8, <1>9 DEF Met, d

\* A fresh decision has no trace to agree with.
LEMMA FreshDecision ==
    ASSUME NEW c, NEW rules, c.decision = Undecided, DOMAIN c = {"flags", "toolset", "plan", "semantic", "decision"},
           c.flags \in [DOMAIN c.flags -> FlagValues]
    PROVE  Shape(c) /\ Governed(rules, c)
<1>1. DOMAIN Undecided = {"require_approval", "parties", "denied", "nudges", "trace"} /\ Undecided.trace = <<>>
    BY DEF Undecided
<1>2. DOMAIN Undecided.trace = {} /\ Undecided.trace \in Seq(STRING)
    BY <1>1
<1>3. Shape(c)
    BY <1>1, <1>2 DEF Shape
<1>4. DOMAIN Traced(rules, c.decision.trace) = {} /\ DOMAIN c.decision.trace = {}
    BY <1>2 DEF Traced
<1>5. Governed(rules, c)
    BY <1>4 DEF Governed
<1> QED
    BY <1>3, <1>5

\* _evaluate: what it returns agrees with its trace.
LEMMA EvaluationGoverned ==
    ASSUME NEW c, NEW rules, NEW stage, Shape(c), IsRuleset(rules, DOMAIN c.flags)
    PROVE  LET d == Evaluate(rules, stage, c)
           IN  /\ Shape(d) /\ DOMAIN d.flags = DOMAIN c.flags /\ Governed(rules, d)
               /\ d.plan \subseteq c.plan /\ (c.plan = NoPlan => d.plan = NoPlan)
<1> DEFINE a == [c EXCEPT !.decision = Undecided]
           b == ByPriority(a, rules, stage, FALSE)
           d == ByPriority(b, rules, stage, TRUE)
<1>1. DOMAIN a = DOMAIN c /\ a.decision = Undecided /\ a.flags = c.flags /\ a.plan = c.plan
    BY DEF Shape
<1> HIDE DEF a
<1>2. Shape(a) /\ Governed(rules, a)
    BY <1>1, FreshDecision DEF Shape
<1>3. Follows(a, b) /\ Governed(rules, b)
    BY <1>1, <1>2, AllPriorities
<1>4. Shape(b) /\ IsRuleset(rules, DOMAIN b.flags)
    BY <1>1, <1>3 DEF Follows
<1> HIDE DEF b
<1>5. Follows(b, d) /\ Governed(rules, d)
    BY <1>3, <1>4, AllPriorities
<1>6. Evaluate(rules, stage, c) = d
    BY DEF Evaluate, a, b
<1> HIDE DEF d
<1> QED
    BY <1>1, <1>3, <1>5, <1>6 DEF Follows

\* A condition on the result alone is the same in every context with that result.
LEMMA AtomOfResult ==
    ASSUME NEW w, NEW c, NEW d, AtomOnResult(w), c.semantic = d.semantic
    PROVE  Atom(w, c) <=> Atom(w, d)
<1>1. CASE w.op = "always"
    BY <1>1 DEF Atom
<1>2. CASE w.op = "exists" /\ w.lhs[1] = "semantic"
    <2>1. resolve_path(w.lhs, c) = resolve_path(w.lhs, d)
        BY <1>2 DEF resolve_path
    <2> QED
        BY <1>2, <2>1 DEF Atom
<1>3. CASE w.op \in {"flag_eq", "eq", "gt", "lt"} /\ {w.lhs[1], w.rhs[1]} \subseteq {"semantic", "literal"}
    <2>1. operand(w.lhs, c) = operand(w.lhs, d) /\ operand(w.rhs, c) = operand(w.rhs, d)
        BY <1>3 DEF operand, resolve_path
    <2>2. CASE w.op \in {"flag_eq", "eq"}
        BY <2>1, <2>2 DEF Atom
    <2>3. CASE w.op = "gt"
        BY <2>1, <2>3 DEF Atom
    <2>4. CASE w.op = "lt"
        BY <2>1, <2>4 DEF Atom
    <2> QED
        BY <1>3, <2>2, <2>3, <2>4
<1> QED
    BY <1>1, <1>2, <1>3 DEF AtomOnResult

LEMMA ConditionOfResult ==
    ASSUME NEW w, NEW c, NEW d, OnResult(w), c.semantic = d.semantic
    PROVE  evaluate(w, c) <=> evaluate(w, d)
<1>1. CASE w.op = "and"
    <2>1. \A clause \in w.clauses : Atom(clause, c) <=> Atom(clause, d)
        BY <1>1, AtomOfResult DEF OnResult
    <2> QED
        BY <1>1, <2>1 DEF evaluate
<1>2. CASE w.op = "or"
    <2>1. \A clause \in w.clauses : Atom(clause, c) <=> Atom(clause, d)
        BY <1>2, AtomOfResult DEF OnResult
    <2> QED
        BY <1>2, <2>1 DEF evaluate
<1>3. CASE w.op = "not"
    <2>1. Atom(w.clause, c) <=> Atom(w.clause, d)
        BY <1>3, AtomOfResult DEF OnResult
    <2> QED
        BY <1>3, <2>1 DEF evaluate
<1>4. CASE w.op \notin {"and", "or", "not"}
    <2>1. Atom(w, c) <=> Atom(w, d)
        BY <1>4, AtomOfResult DEF OnResult
    <2> QED
        BY <1>4, <2>1 DEF evaluate
<1> QED
    BY <1>1, <1>2, <1>3, <1>4

\* A result that passes matches no result rule that denies it.
Denies(rule) ==
    /\ rule.enabled /\ ~rule.callable /\ stage_match(rule, "post_result") /\ OnResult(rule.when)
    /\ \E a \in ToSet(rule.actions) : a.type = "deny_plan"

\* post_result: each DSL rule has its turn, and the result is in every context it may meet.
LEMMA ResultJudged ==
    ASSUME NEW c, NEW rules, NEW result, Shape(c), IsRuleset(rules, DOMAIN c.flags),
           ~post_result(rules, c, result).decision.denied,
           NEW i \in DOMAIN rules, Denies(rules[i]),
           NEW e, e.semantic = result
    PROVE  ~evaluate(rules[i].when, e)
<1> DEFINE a == [c EXCEPT !.flags = [k \in DOMAIN @ |-> Null], !.toolset = {}, !.plan = NoPlan,
                          !.semantic = result, !.decision = Undecided]
           d == ByPriority(a, rules, "post_result", FALSE)
<1>1. /\ DOMAIN a = DOMAIN c /\ a.flags = [k \in DOMAIN c.flags |-> Null] /\ a.semantic = result
      /\ a.decision = Undecided
    BY DEF Shape
<1> HIDE DEF a
<1>2. a.flags \in [DOMAIN a.flags -> FlagValues] /\ DOMAIN a.flags = DOMAIN c.flags
    BY <1>1 DEF Null, FlagValues
<1>3. Shape(a) /\ Governed(rules, a)
    BY <1>1, <1>2, FreshDecision DEF Shape
<1>5. PICK f : /\ Follows(a, f)
               /\ Matches(rules[i], "post_result", f) =>
                     \A k \in DOMAIN rules[i].actions : Binds(rules[i].actions[k], d)
    BY <1>2, <1>3, AllPriorities DEF Denies, IsRuleset
<1>6. ~d.decision.denied
    BY DEF post_result, a
<1> HIDE DEF d
<1>7. \E k \in DOMAIN rules[i].actions : rules[i].actions[k].type = "deny_plan"
    BY DEF Denies, ToSet
<1>8. ~Matches(rules[i], "post_result", f)
    BY <1>5, <1>6, <1>7 DEF Binds
<1>9. ~evaluate(rules[i].when, f)
    BY <1>8 DEF Matches, Denies
<1>10. f.semantic = e.semantic
    BY <1>1, <1>5 DEF Follows
<1> QED
    BY <1>9, <1>10, ConditionOfResult DEF Denies

-----------------------------------------------------------------------------
(* The stages. *)

\* The stages that the checkpoint of an approved plan covers.
Releasing == {"publish", "completed"}

\* The checkpointed plan may go out: nobody asked for an approval, the gate was granted
\* for this draft, or the deployment has no gate and chose the advisory fallback.
MayPublish ==
    ckpt.sc.policy.post.require_approval =>
        IF case.gate THEN signedOff = ckpt.sc.draft ELSE case.fallback = "allow"

\* From the approval on the run goes on with the checkpointed context, and what it has
\* published is of that context's draft.
Released ==
    /\ pc \in Releasing => ckpt.pc = pc /\ sc = ckpt.sc
    /\ ckpt.pc \in Releasing => pc \in Releasing \cup {"raised"} /\ MayPublish
    /\ published # {} => ckpt.pc \in Releasing
    /\ \A m \in published : m.draft = ckpt.sc.draft /\ m.flags = ckpt.sc.env.flags

\* A step before the publish stage finds nothing published.
LEMMA NotReleasing ==
    ASSUME Released, pc \notin Releasing \cup {"raised"}
    PROVE  published = {} /\ ckpt.pc \notin Releasing
BY DEF Released, Releasing

\* The stages before the publish stage, and an approval that lets the plan through.
LEMMA ReleasedByStages ==
    ASSUME Released,
           ChatStage \/ IntentStage \/ BuildContext \/ PrePrompt \/ PostPlan
           \/ (\E plan \in case.plans : PlannerDrafts(plan))
           \/ (\E granted \in BOOLEAN : ApprovalStage(granted))
    PROVE  Released'
<1>1. published = {} /\ ckpt.pc \notin Releasing /\ published' = published
    <2>1. pc \notin Releasing \cup {"raised"}
        BY DEF ChatStage, IntentStage, BuildContext, PrePrompt, PostPlan, PlannerDrafts,
               ApprovalStage, At, Releasing
    <2>2. published' = published
        BY DEF ChatStage, IntentStage, BuildContext, PrePrompt, PostPlan, PlannerDrafts, ApprovalStage
    <2> QED
        BY <2>1, <2>2, NotReleasing
<1>2. CASE ckpt' = ckpt /\ pc' \notin Releasing
    BY <1>1, <1>2 DEF Released, Releasing
<1>3. ASSUME NEW next, EndStage(next), next \notin Releasing PROVE Released'
    <2>1. pc' = next /\ ckpt'.pc = next
        BY <1>3 DEF EndStage, Goto
    <2> QED
        BY <1>1, <1>3, <2>1 DEF Released, Releasing
<1>4. CASE ChatStage \/ IntentStage
    BY <1>3, <1>4 DEF ChatStage, IntentStage, Releasing
<1>5. CASE BuildContext \/ PrePrompt \/ (\E plan \in case.plans : PlannerDrafts(plan))
    BY <1>2, <1>5 DEF BuildContext, PrePrompt, PlannerDrafts, Goto, Releasing
<1>6. CASE PostPlan
    BY <1>2, <1>3, <1>6 DEF PostPlan, Goto, Releasing
<1>7. ASSUME NEW granted \in BOOLEAN, ApprovalStage(granted) PROVE Released'
    <2> DEFINE required == sc.policy.post.require_approval
               passes == ~required \/ (IF case.gate THEN granted ELSE case.fallback = "allow")
    <2>1. CASE passes
        <3>1. /\ pc' = "publish" /\ ckpt' = [pc |-> "publish", sc |-> sc'] /\ sc' = sc /\ case' = case
              /\ signedOff' = IF required /\ case.gate THEN sc.draft ELSE signedOff
            BY <1>7, <2>1 DEF ApprovalStage, EndStage, Goto
        <3>2. ckpt'.pc = "publish" /\ ckpt'.sc = sc
            BY <3>1
        <3>3. MayPublish'
            BY <2>1, <3>1, <3>2 DEF MayPublish
        <3> QED
            BY <1>1, <3>1, <3>2, <3>3 DEF Released, Releasing
    <2>2. CASE ~passes
        BY <1>2, <1>7, <2>2 DEF ApprovalStage, Goto, Releasing
    <2> QED
        BY <2>1, <2>2
<1> QED
    BY <1>4, <1>5, <1>6, <1>7

\* The publish stage, and a resume into whichever stage the checkpoint is at.
LEMMA ReleasedByPublish ==
    ASSUME Released, (\E type \in TaskTypes : PublishTask(type)) \/ PublishEnds \/ ResumeRun
    PROVE  Released'
<1>1. ASSUME NEW type \in TaskTypes, PublishTask(type) PROVE Released'
    <2>1. /\ pc = "publish" /\ UNCHANGED <<sc, ckpt, case, signedOff>> /\ ckpt.pc = "publish" /\ sc = ckpt.sc
          /\ pc' \in {"publish", "raised"}
        BY <1>1 DEF PublishTask, At, Goto, Released, Releasing
    <2>2. published' \subseteq published \cup {Message(type)}
        BY <1>1 DEF PublishTask
    <2>3. Message(type).draft = ckpt.sc.draft /\ Message(type).flags = ckpt.sc.env.flags
        BY <2>1 DEF Message
    <2>4. \A m \in published' : m.draft = ckpt'.sc.draft /\ m.flags = ckpt'.sc.env.flags
        BY <2>1, <2>2, <2>3 DEF Released
    <2> QED
        BY <2>1, <2>4 DEF Released, Releasing, MayPublish
<1>2. CASE PublishEnds
    <2>1. /\ pc = "publish" /\ sc' = sc /\ sc = ckpt.sc /\ pc' = "completed"
          /\ ckpt'.pc = "completed" /\ ckpt'.sc = sc' /\ UNCHANGED <<published, case, signedOff>>
        BY <1>2 DEF PublishEnds, At, EndStage, Goto, Released, Releasing
    <2> QED
        BY <2>1 DEF Released, Releasing, MayPublish
<1>3. CASE ResumeRun
    <2>1. pc' = ckpt.pc /\ sc' = ckpt.sc /\ UNCHANGED <<ckpt, published, case, signedOff>>
        BY <1>3 DEF ResumeRun, Goto
    <2> QED
        BY <2>1 DEF Released, Releasing, MayPublish
<1> QED
    BY <1>1, <1>2, <1>3

\* Results, rulesets and the agents behind context sources leave the driver alone.
LEMMA ReleasedFrame ==
    ASSUME Released, UNCHANGED <<pc, sc, ckpt, published, case, signedOff>>
    PROVE  Released'
BY DEF Released, MayPublish

\* Every state of a run is one where only the checkpointed, approved draft is out.
THEOREM OnlyReleased == Spec => []Released
<1>1. Init => Released
    <2> SUFFICES ASSUME Init PROVE Released
        OBVIOUS
    <2>1. pc = "chat" /\ published = {} /\ ckpt.pc = "chat"
        BY DEF Init
    <2> QED
        BY <2>1 DEF Released, Releasing
<1>2. Released /\ [Next]_vars => Released'
    <2> SUFFICES ASSUME Released, [Next]_vars PROVE Released'
        OBVIOUS
    <2>1. CASE Step
        BY <2>1, ReleasedByStages, ReleasedByPublish DEF Step
    <2>2. CASE ResumeRun
        BY <2>2, ReleasedByPublish
    <2>3. ASSUME NEW m, NEW figure, CollectResult(m, figure) PROVE Released'
        BY <2>3, ReleasedFrame DEF CollectResult
    <2>4. ASSUME NEW h, SaveRuleset(h) PROVE Released'
        BY <2>4, ReleasedFrame DEF SaveRuleset
    <2>5. ASSUME NEW id, NEW answer, RemoteChanges(id, answer) PROVE Released'
        BY <2>5, ReleasedFrame DEF RemoteChanges
    <2>6. CASE UNCHANGED vars
        BY <2>6, ReleasedFrame DEF vars
    <2> QED
        BY <2>1, <2>2, <2>3, <2>4, <2>5, <2>6 DEF Next
<1> QED
    BY <1>1, <1>2, PTL DEF Spec

\* Tasks of two drafts are never both published, whatever the planner drafts after a
\* resume and whichever ruleset is saved meanwhile: _drive checkpoints the context with
\* the plan before the publish stage.
THEOREM DraftsDoNotMix == Spec => []OneDraft
<1>1. Released => OneDraft
    BY DEF Released, OneDraft
<1> QED
    BY <1>1, OnlyReleased, PTL

\* A task is published only if the decision on its very draft asks for no approval, or
\* the gate was granted for that draft, or there is no gate and the fallback allows it
\* (ApprovalStage), however often the run was resumed and planned anew.
THEOREM ApprovedDraftOnly ==
    Spec => [](\A m \in published : ckpt.sc.policy.post.require_approval =>
                  IF case.gate THEN signedOff = m.draft ELSE case.fallback = "allow")
<1>1. Released => \A m \in published : ckpt.sc.policy.post.require_approval =>
                     IF case.gate THEN signedOff = m.draft ELSE case.fallback = "allow"
    BY DEF Released, MayPublish
<1> QED
    BY <1>1, OnlyReleased, PTL

-----------------------------------------------------------------------------
(* What is published, and which results are accepted, under the rules. *)

Points == {"chat", "intent_synthesis", "action_plan", "pre_prompt", "planner", "post_plan",
           "approval", "publish"} \cup Outcomes

\* A StageContext has these parts.
Frame(s) ==
    /\ DOMAIN s = {"dialogue", "intent", "text", "seen", "env", "sources", "asOf", "draft", "policy"}
    /\ DOMAIN s.policy = {"version", "pre", "post"} /\ s.policy.version \in {0} \cup DOMAIN Rulesets
    /\ Shape(s.env) /\ DOMAIN s.env.flags = DOMAIN case.flags
    /\ s.env.plan = NoPlan \/ s.env.plan \subseteq TaskTypes
    /\ s.draft \in 0..(MaxResumes + 1)

\* The planner has drafted a plan.
Drafted(s) == s.env.plan \subseteq TaskTypes /\ s.draft # 0

\* The context is what post_plan made of a draft, and it was not denied.
Judged(s) ==
    /\ Drafted(s)
    /\ s.policy.version \in DOMAIN Rulesets /\ s.policy.post = s.env.decision
    /\ Governed(Rulesets[s.policy.version], s.env) /\ ~s.env.decision.denied

\* An accepted result is one that no rule denies.
Accepted(r) ==
    /\ r.version \in DOMAIN Rulesets
    /\ \A i \in DOMAIN Rulesets[r.version] : Denies(Rulesets[r.version][i]) =>
          \A e : e.semantic = r.figure => ~evaluate(Rulesets[r.version][i].when, e)

\* The rulesets that may be in force.
HeadsKnown ==
    /\ [tenant |-> "global", version |-> 1] \in heads
    /\ \A h \in heads : h.version \in DOMAIN Rulesets

\* The driver and its checkpoint hold judged contexts from the approval stage on.
Governing ==
    /\ pc \in Points /\ resumes \in 0..MaxResumes /\ signedOff \in 0..(MaxResumes + 1)
    /\ Frame(sc) /\ Frame(ckpt.sc)
    /\ pc = "post_plan" => Drafted(sc)
    /\ pc \in {"approval", "publish"} => Judged(sc)
    /\ ckpt.pc \in {"chat", "intent_synthesis", "action_plan", "approval"} \cup Releasing
    /\ ckpt.pc \in {"approval"} \cup Releasing => Judged(ckpt.sc)
    /\ todo \subseteq TaskTypes /\ (pc = "publish" => todo \subseteq sc.env.plan)

\* Messages carry the judged context.
Carried == \A m \in published : m.type \in ckpt.sc.env.plan /\ m.toolset = ckpt.sc.env.toolset

GovernanceInv ==
    /\ case \in Cases /\ HeadsKnown /\ Governing /\ Carried
    /\ \A r \in results : Accepted(r)

\* load_ruleset finds a version, and one that exists.
LEMMA RulesetInForce ==
    ASSUME HeadsKnown
    PROVE  Ruleset.version \in DOMAIN Rulesets
<1> DEFINE L == Len(Rulesets)
           own == {h \in heads : h.tenant = Tenant}
           pool == IF own # {} THEN own ELSE {h \in heads : h.tenant = "global"}
           newest == {h \in pool : \A g \in pool : g.version <= h.version}
           G == {n \in 0..L : \E h \in pool : h.version >= n}
<1>1. L \in Nat /\ DOMAIN Rulesets = 1..L
    BY GovernanceAssumption
<1>2. pool # {} /\ pool \subseteq heads /\ \A h \in pool : h.version \in 1..L
    <2>1. [tenant |-> "global", version |-> 1].tenant = "global"
        OBVIOUS
    <2> QED
        BY <1>1, <2>1 DEF HeadsKnown
<1> HIDE DEF pool, L
<1>3. newest # {}
    <2> SUFFICES ASSUME newest = {} PROVE FALSE
        OBVIOUS
    <2>1. \A h \in pool : \E g \in pool : g.version > h.version
        BY <1>2
    <2>2. 0 \in G
        BY <1>1, <1>2
    <2>3. ASSUME NEW n \in 0..L, n \in G, n < L PROVE n + 1 \in G
        <3>1. PICK h \in pool : h.version >= n
            BY <2>3
        <3>2. PICK g \in pool : g.version > h.version
            BY <2>1
        <3>3. g.version >= n + 1 /\ n + 1 \in 0..L
            BY <1>1, <1>2, <2>3, <3>1, <3>2
        <3> QED
            BY <3>3
    <2>4. L \in G
        <3> HIDE DEF G
        <3>1. \A n \in 0..L : n \in G
            BY <1>1, <2>2, <2>3, EveryPlace
        <3> QED
            BY <1>1, <3>1
    <2>5. PICK h \in pool : h.version >= L
        BY <2>4
    <2>6. PICK g \in pool : g.version > h.version
        BY <2>1
    <2> QED
        BY <1>1, <1>2, <2>5, <2>6
<1>4. load_ruleset(heads, Tenant) = newest
    BY DEF load_ruleset, pool
<1>5. Ruleset \in newest
    <2> HIDE DEF newest
    <2> QED
        BY <1>3, <1>4 DEF Ruleset
<1> QED
    BY <1>1, <1>2, <1>5

\* A ruleset is one for the flags of this run.
LEMMA RulesetFits ==
    ASSUME case \in Cases, NEW v \in DOMAIN Rulesets
    PROVE  IsRuleset(Rulesets[v], DOMAIN case.flags)
BY GovernanceAssumption

\* The first two stages.
LEMMA GovernedByFirstStages ==
    ASSUME GovernanceInv, Released, ChatStage \/ IntentStage
    PROVE  GovernanceInv'
<1>1. /\ DOMAIN sc' = DOMAIN sc /\ sc'.env = sc.env /\ sc'.policy = sc.policy /\ sc'.draft = sc.draft
    BY DEF ChatStage, IntentStage, GovernanceInv, Governing, Frame
<1>2. UNCHANGED <<case, heads, todo, published, signedOff, results, resumes>>
    BY DEF ChatStage, IntentStage
<1>3. Frame(sc')
    BY <1>1 DEF GovernanceInv, Governing, Frame
<1>4. /\ pc \notin Releasing \cup {"raised"} /\ pc' \in {"intent_synthesis", "action_plan"}
      /\ ckpt'.pc = pc' /\ ckpt'.sc = sc'
    <2>1. pc \in {"chat", "intent_synthesis"}
        BY DEF ChatStage, IntentStage, At
    <2>2. EndStage("intent_synthesis") \/ EndStage("action_plan")
        BY DEF ChatStage, IntentStage
    <2> QED
        BY <2>1, <2>2 DEF EndStage, Goto, Releasing
<1>5. published = {}
    BY <1>4, NotReleasing
<1>6. Governing'
    <2>1. Frame(sc)' /\ Frame(ckpt.sc)'
        BY <1>2, <1>3, <1>4 DEF Frame
    <2> QED
        BY <1>2, <1>4, <2>1 DEF GovernanceInv, Governing, Points, Releasing
<1>7. HeadsKnown' /\ Carried'
    BY <1>2, <1>5 DEF GovernanceInv, HeadsKnown, Carried
<1> QED
    BY <1>2, <1>6, <1>7 DEF GovernanceInv, Accepted

\* The context is built, or a required source ends the stage.
LEMMA GovernedByBuild ==
    ASSUME GovernanceInv, Released, BuildContext
    PROVE  GovernanceInv'
<1>1. UNCHANGED <<case, heads, ckpt, todo, published, signedOff, results, resumes>>
    BY DEF BuildContext
<1>2. pc \notin Releasing \cup {"raised"} /\ pc' \in {"raised", "pre_prompt"}
    BY DEF BuildContext, Goto, At, Releasing
<1>3. Frame(sc')
    <2>1. CASE sc' = sc
        BY <2>1 DEF GovernanceInv, Governing, Frame
    <2>2. CASE sc' # sc
        <3>1. PICK data, fresh : sc' = [sc EXCEPT !.env.flags = case.flags, !.env.toolset = case.toolset,
                                       !.seen = contribute, !.sources = data, !.asOf = remote,
                                       !.text = fresh]
            BY <2>2 DEF BuildContext
        <3>2. /\ DOMAIN sc' = DOMAIN sc /\ sc'.policy = sc.policy /\ sc'.draft = sc.draft
              /\ sc'.env = [sc.env EXCEPT !.flags = case.flags, !.toolset = case.toolset]
            BY <3>1 DEF GovernanceInv, Governing, Frame
        <3>3. /\ DOMAIN sc'.env = DOMAIN sc.env /\ sc'.env.flags = case.flags /\ sc'.env.plan = sc.env.plan
              /\ sc'.env.decision = sc.env.decision
            BY <3>2 DEF GovernanceInv, Governing, Frame, Shape
        <3>4. case.flags \in [DOMAIN case.flags -> FlagValues]
            BY GovernanceAssumption DEF GovernanceInv
        <3> QED
            BY <3>2, <3>3, <3>4 DEF GovernanceInv, Governing, Frame, Shape
    <2> QED
        BY <2>1, <2>2
<1>4. Governing'
    <2>1. Frame(sc)' /\ Frame(ckpt.sc)'
        BY <1>1, <1>3 DEF GovernanceInv, Governing, Frame
    <2> QED
        BY <1>1, <1>2, <2>1 DEF GovernanceInv, Governing, Points, Outcomes, Judged, Drafted
<1>5. HeadsKnown' /\ Carried'
    BY <1>1 DEF GovernanceInv, HeadsKnown, Carried
<1> QED
    BY <1>1, <1>4, <1>5 DEF GovernanceInv, Accepted

\* The pre_prompt hook.
LEMMA GovernedByPrePrompt ==
    ASSUME GovernanceInv, Released, PrePrompt
    PROVE  GovernanceInv'
<1> DEFINE start == [sc.env EXCEPT !.plan = NoPlan]
           rules == Rulesets[Ruleset.version]
           after == pre_prompt(rules, sc.env)
<1>1. UNCHANGED <<case, heads, ckpt, todo, published, signedOff, results, resumes>>
    BY DEF PrePrompt
<1>2. pc' \in {"denied", "planner"} /\ sc' = [sc EXCEPT !.env = after, !.policy.pre = after.decision]
    BY DEF PrePrompt, Goto
<1>3. /\ DOMAIN start = DOMAIN sc.env /\ start.flags = sc.env.flags /\ start.plan = NoPlan
      /\ start.decision = sc.env.decision
    BY DEF GovernanceInv, Governing, Frame, Shape
<1>4. Shape(start) /\ IsRuleset(rules, DOMAIN start.flags) /\ after = Evaluate(rules, "action_plan", start)
    BY <1>3, RulesetInForce, RulesetFits DEF GovernanceInv, Governing, Frame, Shape, pre_prompt
<1> HIDE DEF start, rules, after
<1>5. Shape(after) /\ DOMAIN after.flags = DOMAIN sc.env.flags /\ after.plan = NoPlan
    BY <1>3, <1>4, EvaluationGoverned
<1>6. /\ DOMAIN sc' = DOMAIN sc /\ sc'.env = after /\ sc'.draft = sc.draft
      /\ sc'.policy = [sc.policy EXCEPT !.pre = after.decision]
    BY <1>2 DEF GovernanceInv, Governing, Frame
<1>7. Frame(sc')
    BY <1>5, <1>6 DEF GovernanceInv, Governing, Frame
<1>8. Governing'
    <2>1. Frame(sc)' /\ Frame(ckpt.sc)'
        BY <1>1, <1>7 DEF GovernanceInv, Governing, Frame
    <2> QED
        BY <1>1, <1>2, <2>1 DEF GovernanceInv, Governing, Points, Outcomes, Judged, Drafted
<1>9. HeadsKnown' /\ Carried'
    BY <1>1 DEF GovernanceInv, HeadsKnown, Carried
<1> QED
    BY <1>1, <1>8, <1>9 DEF GovernanceInv, Accepted

\* The planner's draft.
LEMMA GovernedByPlanner ==
    ASSUME GovernanceInv, Released, NEW plan \in case.plans, PlannerDrafts(plan)
    PROVE  GovernanceInv'
<1>1. UNCHANGED <<case, heads, ckpt, todo, published, signedOff, results, resumes>>
    BY DEF PlannerDrafts
<1>2. pc' = "post_plan" /\ sc' = [sc EXCEPT !.env.plan = plan, !.draft = resumes + 1]
    BY DEF PlannerDrafts, Goto
<1>3. /\ DOMAIN sc' = DOMAIN sc /\ sc'.policy = sc.policy /\ sc'.draft = resumes + 1
      /\ sc'.env = [sc.env EXCEPT !.plan = plan]
    BY <1>2 DEF GovernanceInv, Governing, Frame
<1>4. /\ DOMAIN sc'.env = DOMAIN sc.env /\ sc'.env.flags = sc.env.flags /\ sc'.env.plan = plan
      /\ sc'.env.decision = sc.env.decision
    BY <1>3 DEF GovernanceInv, Governing, Frame, Shape
<1>5. plan \subseteq TaskTypes /\ MaxResumes \in Nat
    BY GovernanceAssumption DEF GovernanceInv
<1>6. resumes + 1 \in 1..(MaxResumes + 1)
    BY <1>5 DEF GovernanceInv, Governing
<1>7. Frame(sc') /\ Drafted(sc')
    BY <1>3, <1>4, <1>5, <1>6 DEF GovernanceInv, Governing, Frame, Shape, Drafted
<1>8. Governing'
    <2>1. Frame(sc)' /\ Frame(ckpt.sc)' /\ Drafted(sc)'
        BY <1>1, <1>7 DEF GovernanceInv, Governing, Frame, Drafted
    <2> QED
        BY <1>1, <1>2, <2>1 DEF GovernanceInv, Governing, Points, Outcomes, Judged, Drafted
<1>9. HeadsKnown' /\ Carried'
    BY <1>1 DEF GovernanceInv, HeadsKnown, Carried
<1> QED
    BY <1>1, <1>8, <1>9 DEF GovernanceInv, Accepted

\* The post_plan hook: what goes on to the approval stage is judged.
LEMMA GovernedByPostPlan ==
    ASSUME GovernanceInv, Released, PostPlan
    PROVE  GovernanceInv'
<1> DEFINE start == [sc.env EXCEPT !.plan = sc.env.plan]
           v == Ruleset.version
           rules == Rulesets[v]
           after == post_plan(rules, sc.env, sc.env.plan)
<1>1. UNCHANGED <<case, heads, todo, published, signedOff, results, resumes>>
    BY DEF PostPlan
<1>2. /\ pc = "post_plan"
      /\ sc' = [sc EXCEPT !.env = after, !.policy.post = after.decision, !.policy.version = v]
      /\ \/ after.decision.denied /\ pc' = "denied" /\ ckpt' = ckpt
         \/ ~after.decision.denied /\ EndStage("approval")
    BY DEF PostPlan, Goto, At
<1>3. /\ DOMAIN start = DOMAIN sc.env /\ start.flags = sc.env.flags /\ start.plan = sc.env.plan
      /\ start.decision = sc.env.decision
    BY DEF GovernanceInv, Governing, Frame, Shape
<1>4. v \in DOMAIN Rulesets
    BY RulesetInForce DEF GovernanceInv
<1>5. Shape(start) /\ IsRuleset(rules, DOMAIN start.flags) /\ after = Evaluate(rules, "action_plan", start)
    BY <1>3, <1>4, RulesetFits DEF GovernanceInv, Governing, Frame, Shape, post_plan
<1> HIDE DEF start, v, rules, after
<1>6. /\ Shape(after) /\ DOMAIN after.flags = DOMAIN sc.env.flags /\ after.plan \subseteq sc.env.plan
      /\ Governed(rules, after)
    BY <1>3, <1>5, EvaluationGoverned
<1>7. /\ DOMAIN sc' = DOMAIN sc /\ sc'.env = after /\ sc'.draft = sc.draft
      /\ sc'.policy = [sc.policy EXCEPT !.post = after.decision, !.version = v]
    BY <1>2 DEF GovernanceInv, Governing, Frame
<1>8. DOMAIN sc'.policy = DOMAIN sc.policy /\ sc'.policy.post = after.decision /\ sc'.policy.version = v
    BY <1>7 DEF GovernanceInv, Governing, Frame
<1>9. Frame(sc') /\ Drafted(sc')
    BY <1>2, <1>4, <1>6, <1>7, <1>8 DEF GovernanceInv, Governing, Frame, Drafted
<1>10. ~after.decision.denied => Judged(sc')
    BY <1>4, <1>6, <1>7, <1>8, <1>9 DEF Judged, rules
<1>11. published = {} /\ ckpt.pc \notin Releasing
    BY <1>2, NotReleasing DEF Releasing
<1>12. Governing'
    <2>1. Frame(sc)' /\ Frame(ckpt.sc)'
        <3>1. ckpt' = ckpt \/ ckpt'.sc = sc'
            BY <1>2 DEF EndStage
        <3> QED
            BY <1>1, <1>9, <3>1 DEF GovernanceInv, Governing, Frame
    <2>2. CASE after.decision.denied
        BY <1>1, <1>2, <2>1, <2>2 DEF GovernanceInv, Governing, Points, Outcomes, Judged, Drafted, Releasing
    <2>3. CASE ~after.decision.denied
        <3>1. pc' = "approval" /\ ckpt'.pc = "approval" /\ ckpt'.sc = sc'
            BY <1>2, <2>3 DEF EndStage, Goto
        <3>2. Judged(sc)' /\ Judged(ckpt.sc)'
            BY <1>10, <2>3, <3>1 DEF Judged, Drafted
        <3> QED
            BY <1>1, <2>1, <3>1, <3>2 DEF GovernanceInv, Governing, Points, Releasing
    <2> QED
        BY <2>2, <2>3
<1>13. HeadsKnown' /\ Carried'
    BY <1>1, <1>11 DEF GovernanceInv, HeadsKnown, Carried
<1> QED
    BY <1>1, <1>12, <1>13 DEF GovernanceInv, Accepted

\* The approval stage passes the judged context on.
LEMMA GovernedByApproval ==
    ASSUME GovernanceInv, Released, NEW granted \in BOOLEAN, ApprovalStage(granted)
    PROVE  GovernanceInv'
<1>1. UNCHANGED <<case, heads, sc, published, results, resumes>> /\ pc = "approval"
    BY DEF ApprovalStage, At
<1>2. \/ EndStage("publish") /\ todo' = sc.env.plan
      \/ pc' \in {"approval_denied", "denied"} /\ UNCHANGED <<ckpt, todo>>
    BY DEF ApprovalStage, Goto
<1>3. signedOff' \in {sc.draft, signedOff}
    BY DEF ApprovalStage
<1>4. Frame(sc) /\ Judged(sc) /\ sc.env.plan \subseteq TaskTypes
    BY <1>1 DEF GovernanceInv, Governing, Judged, Drafted
<1>5. published = {}
    BY <1>1, NotReleasing DEF Releasing
<1>6. Governing'
    <2>1. CASE EndStage("publish") /\ todo' = sc.env.plan
        <3>1. pc' = "publish" /\ ckpt'.pc = "publish" /\ ckpt'.sc = sc
            BY <1>1, <2>1 DEF EndStage, Goto
        <3>2. Frame(sc)' /\ Frame(ckpt.sc)' /\ Judged(sc)' /\ Judged(ckpt.sc)'
            BY <1>1, <1>4, <3>1 DEF Frame, Judged, Drafted
        <3> QED
            BY <1>1, <1>3, <1>4, <2>1, <3>1, <3>2 DEF GovernanceInv, Governing, Points, Releasing, Frame
    <2>2. CASE pc' \in {"approval_denied", "denied"} /\ UNCHANGED <<ckpt, todo>>
        <3>1. Frame(sc)' /\ Frame(ckpt.sc)'
            BY <1>1, <2>2 DEF GovernanceInv, Governing, Frame
        <3> QED
            BY <1>1, <1>3, <2>2, <3>1 DEF GovernanceInv, Governing, Points, Outcomes, Releasing, Frame, Judged, Drafted
    <2> QED
        BY <1>2, <2>1, <2>2
<1>7. HeadsKnown' /\ Carried'
    BY <1>1, <1>5 DEF GovernanceInv, HeadsKnown, Carried
<1> QED
    BY <1>1, <1>6, <1>7 DEF GovernanceInv, Accepted

\* The publish stage.
LEMMA GovernedByPublish ==
    ASSUME GovernanceInv, Released, (\E type \in TaskTypes : PublishTask(type)) \/ PublishEnds
    PROVE  GovernanceInv'
<1>1. ASSUME NEW type \in TaskTypes, PublishTask(type) PROVE GovernanceInv'
    <2>1. /\ UNCHANGED <<case, heads, sc, ckpt, signedOff, results, resumes>> /\ pc = "publish"
          /\ pc' \in {"publish", "raised"} /\ todo' \subseteq todo /\ type \in todo
          /\ published' \subseteq published \cup {Message(type)}
        BY <1>1 DEF PublishTask, Goto, At
    <2>2. Message(type).type = type /\ Message(type).toolset = ckpt.sc.env.toolset /\ type \in ckpt.sc.env.plan
        BY <2>1 DEF Message, Released, Releasing, GovernanceInv, Governing
    <2>3. HeadsKnown' /\ Carried'
        BY <2>1, <2>2 DEF GovernanceInv, HeadsKnown, Carried
    <2>4. Governing'
        BY <2>1 DEF GovernanceInv, Governing, Points, Outcomes, Frame, Judged, Drafted
    <2> QED
        BY <2>1, <2>3, <2>4 DEF GovernanceInv, Accepted
<1>2. CASE PublishEnds
    <2>1. /\ UNCHANGED <<case, heads, sc, todo, published, signedOff, results, resumes>> /\ pc = "publish"
          /\ pc' = "completed" /\ ckpt'.pc = "completed" /\ ckpt'.sc = sc
        BY <1>2 DEF PublishEnds, EndStage, Goto, At
    <2>2. ckpt.sc = sc
        BY <2>1 DEF Released, Releasing
    <2>3. HeadsKnown' /\ Carried'
        BY <2>1, <2>2 DEF GovernanceInv, HeadsKnown, Carried
    <2>4. Governing'
        BY <2>1 DEF GovernanceInv, Governing, Points, Outcomes, Releasing, Frame, Judged, Drafted
    <2> QED
        BY <2>1, <2>3, <2>4 DEF GovernanceInv, Accepted
<1> QED
    BY <1>1, <1>2

\* A resume takes the judged context of its checkpoint, or one that is judged anew.
LEMMA GovernedByResume ==
    ASSUME GovernanceInv, Released, ResumeRun
    PROVE  GovernanceInv'
<1>1. /\ UNCHANGED <<case, heads, ckpt, published, signedOff, results>> /\ pc' = ckpt.pc /\ sc' = ckpt.sc
      /\ todo' = (IF ckpt.pc = "publish" THEN ckpt.sc.env.plan ELSE {})
      /\ resumes < MaxResumes /\ resumes' = resumes + 1
    BY DEF ResumeRun, Goto
<1>2. resumes' \in 0..MaxResumes
    <2>1. MaxResumes \in Nat
        BY GovernanceAssumption
    <2>2. resumes \in 0..MaxResumes
        BY DEF GovernanceInv, Governing
    <2> QED
        BY <1>1, <2>1, <2>2
<1>3. Governing'
    BY <1>1, <1>2 DEF GovernanceInv, Governing, Points, Outcomes, Releasing, Frame, Judged, Drafted
<1>4. HeadsKnown' /\ Carried'
    BY <1>1 DEF GovernanceInv, HeadsKnown, Carried
<1> QED
    BY <1>1, <1>3, <1>4 DEF GovernanceInv, Accepted

\* Results are judged, rulesets are known, and the rest leaves the run alone.
LEMMA GovernedByOthers ==
    ASSUME GovernanceInv,
           \/ \E m \in published, figure \in 0..1 : CollectResult(m, figure)
           \/ \E h \in case.heads : SaveRuleset(h)
           \/ UNCHANGED <<case, heads, pc, sc, ckpt, todo, published, signedOff, results, resumes>>
    PROVE  GovernanceInv'
<1>1. ASSUME UNCHANGED <<case, pc, sc, ckpt, todo, published, signedOff, resumes>> PROVE Governing' /\ Carried' /\ case' \in Cases
    BY <1>1 DEF GovernanceInv, Governing, Frame, Judged, Drafted, Carried
<1>2. ASSUME NEW m \in published, NEW figure \in 0..1, CollectResult(m, figure) PROVE GovernanceInv'
    <2> DEFINE v == Ruleset.version
               r == [message |-> m, figure |-> figure, version |-> v]
    <2>1. v \in DOMAIN Rulesets
        BY RulesetInForce DEF GovernanceInv
    <2>2. Shape(sc.env) /\ IsRuleset(Rulesets[v], DOMAIN sc.env.flags)
        BY <2>1, RulesetFits DEF GovernanceInv, Governing, Frame
    <2>3. ~post_result(Rulesets[v], sc.env, figure).decision.denied /\ results' = results \cup {r}
        BY <1>2 DEF CollectResult
    <2> HIDE DEF v
    <2>4. r.version = v /\ r.figure = figure
        OBVIOUS
    <2> HIDE DEF r
    <2>5. Accepted(r)
        BY <2>1, <2>2, <2>3, <2>4, ResultJudged DEF Accepted
    <2>6. UNCHANGED <<case, heads, pc, sc, ckpt, todo, published, signedOff, resumes>>
        BY <1>2 DEF CollectResult
    <2> QED
        BY <1>1, <2>3, <2>5, <2>6 DEF GovernanceInv, HeadsKnown
<1>3. ASSUME NEW h \in case.heads, SaveRuleset(h) PROVE GovernanceInv'
    <2>1. h.version \in DOMAIN Rulesets
        BY GovernanceAssumption DEF GovernanceInv
    <2>2. heads' = heads \cup {h} /\ UNCHANGED <<case, pc, sc, ckpt, todo, published, signedOff, results, resumes>>
        BY <1>3 DEF SaveRuleset
    <2> QED
        BY <1>1, <2>1, <2>2 DEF GovernanceInv, HeadsKnown, Accepted
<1>4. CASE UNCHANGED <<case, heads, pc, sc, ckpt, todo, published, signedOff, results, resumes>>
    BY <1>1, <1>4 DEF GovernanceInv, HeadsKnown, Accepted
<1> QED
    BY <1>2, <1>3, <1>4

\* Every state of a run is governed, for every ruleset, planner and order of saves.
THEOREM GovernanceHolds == Spec => []GovernanceInv
<1>1. Init => GovernanceInv
    <2> SUFFICES ASSUME Init PROVE GovernanceInv
        OBVIOUS
    <2> DEFINE env == [flags |-> case.flags, toolset |-> {}, plan |-> NoPlan,
                       semantic |-> 0, decision |-> Undecided]
    <2>1. case \in Cases /\ heads = {[tenant |-> "global", version |-> 1]} /\ pc = "chat"
        BY DEF Init
    <2>2. todo = {} /\ published = {} /\ signedOff = 0 /\ results = {} /\ resumes = 0
        BY DEF Init
    <2>3. ckpt.pc = "chat" /\ ckpt.sc = sc
        BY DEF Init
    <2>4. case.flags \in [DOMAIN case.flags -> FlagValues] /\ MaxResumes \in Nat /\ 1 \in DOMAIN Rulesets
        <3>1. /\ MaxResumes \in Nat /\ Len(Rulesets) \in Nat \ {0} /\ DOMAIN Rulesets = 1..Len(Rulesets)
              /\ case.flags \in [DOMAIN case.flags -> FlagValues]
            BY <2>1, GovernanceAssumption
        <3> QED
            BY <3>1
    <2>5. /\ DOMAIN sc = {"dialogue", "intent", "text", "seen", "env", "sources", "asOf", "draft", "policy"}
          /\ sc.env = env /\ sc.policy = NoPolicy /\ sc.draft = 0
        BY DEF Init
    <2>6. /\ DOMAIN env = {"flags", "toolset", "plan", "semantic", "decision"} /\ env.flags = case.flags
          /\ env.plan = NoPlan /\ env.decision = Undecided
        OBVIOUS
    <2> HIDE DEF env
    <2>7. Shape(env)
        BY <2>4, <2>6, FreshDecision
    <2>8. DOMAIN NoPolicy = {"version", "pre", "post"} /\ NoPolicy.version = 0
        BY DEF NoPolicy
    <2>9. Frame(sc)
        BY <2>4, <2>5, <2>6, <2>7, <2>8 DEF Frame
    <2>10. Governing
        BY <2>1, <2>2, <2>3, <2>4, <2>9 DEF Governing, Points, Releasing
    <2>11. HeadsKnown
        BY <2>1, <2>4 DEF HeadsKnown
    <2> QED
        BY <2>1, <2>2, <2>10, <2>11 DEF GovernanceInv, Carried
<1>2. GovernanceInv /\ Released /\ [Next]_vars => GovernanceInv'
    <2> SUFFICES ASSUME GovernanceInv, Released, [Next]_vars PROVE GovernanceInv'
        OBVIOUS
    <2>1. CASE Step
        BY <2>1, GovernedByFirstStages, GovernedByBuild, GovernedByPrePrompt, GovernedByPlanner,
           GovernedByPostPlan, GovernedByApproval, GovernedByPublish DEF Step
    <2>2. CASE ResumeRun
        BY <2>2, GovernedByResume
    <2>3. ASSUME NEW id, NEW answer, RemoteChanges(id, answer) PROVE GovernanceInv'
        BY <2>3, GovernedByOthers DEF RemoteChanges
    <2>4. CASE UNCHANGED vars
        BY <2>4, GovernedByOthers DEF vars
    <2> QED
        BY <2>1, <2>2, <2>3, <2>4, GovernedByOthers DEF Next
<1> QED
    BY <1>1, <1>2, OnlyReleased, PTL DEF Spec

\* What the traced actions mean for a message that is out.
LEMMA MessagesBound ==
    ASSUME GovernanceInv, Released, NEW m \in published
    PROVE  /\ \A n \in DOMAIN Fired : \A k \in DOMAIN Fired[n] : Binds(Fired[n][k], ckpt.sc.env)
           /\ ClampHolds
           /\ Judged(ckpt.sc) /\ m.type \in ckpt.sc.env.plan /\ ckpt.sc.env.plan \subseteq TaskTypes
           /\ m.toolset = ckpt.sc.env.toolset
<1> DEFINE rules == Rulesets[ckpt.sc.policy.version]
           env == ckpt.sc.env
<1>1. /\ Judged(ckpt.sc) /\ Governed(rules, env) /\ env.plan \subseteq TaskTypes
      /\ ckpt.sc.policy.post = env.decision
    BY DEF Released, GovernanceInv, Governing, Judged, Drafted
<1>2. m.type \in env.plan /\ m.toolset = env.toolset
    BY DEF GovernanceInv, Carried
<1>3. \A q \in published : q.flags = env.flags
    BY DEF Released
<1>4. Fired = Traced(rules, env.decision.trace)
    BY <1>1 DEF Fired, Traced, RuleOf
<1> HIDE DEF rules, env
<1>5. \A n \in DOMAIN Fired : \A k \in DOMAIN Fired[n] : Binds(Fired[n][k], env)
    BY <1>1, <1>4 DEF Governed
<1>6. ClampHolds
    BY <1>1, <1>3, <1>4 DEF Governed, ClampHolds
<1> QED
    BY <1>1, <1>2, <1>5, <1>6 DEF env

\* A plan that post_plan sent to a human is published only with a grant for this very
\* draft, or where the deployment chose the advisory fallback (ApprovalStage).
THEOREM ApprovalsHonoured == Spec => []ApprovalHonoured
<1>1. GovernanceInv /\ Released => ApprovalHonoured
    <2> SUFFICES ASSUME GovernanceInv, Released, NEW m \in published, FiredOf("require_approval") # {}
                 PROVE  IF case.gate THEN signedOff = m.draft ELSE case.fallback = "allow"
        BY DEF ApprovalHonoured
    <2>1. PICK n \in DOMAIN Fired : \E k \in DOMAIN Fired[n] : Fired[n][k].type = "require_approval"
        BY DEF FiredOf, ToSet
    <2>2. ckpt.sc.env.decision.require_approval /\ Judged(ckpt.sc)
        BY <2>1, MessagesBound DEF Binds
    <2>3. ckpt.sc.policy.post.require_approval
        BY <2>2 DEF Judged
    <2> QED
        BY <2>3 DEF Released, MayPublish
<1> QED
    BY <1>1, GovernanceHolds, OnlyReleased, PTL

\* Nothing leaves the run or enters it against the rules that were in force: no denied or
\* stripped task, no stripped tool, no flag beyond a clamp or cap that still stands, no result that a
\* result rule denies (NativePolicyEngine, PublishStage, make_post_result_validator).
THEOREM RunIsGoverned == Spec => []GovernedInv
<1>1. GovernanceInv /\ Released => GovernedInv
    <2> SUFFICES ASSUME GovernanceInv, Released PROVE GovernedInv
        OBVIOUS
    <2>1. TypeOK
        <3>1. ASSUME NEW m \in published PROVE m.type \in TaskTypes /\ m.draft \in 1..(MaxResumes + 1)
            <4>1. ckpt.sc.draft \in 0..(MaxResumes + 1) /\ ckpt.sc.draft # 0 /\ m.draft = ckpt.sc.draft /\ m.type \in TaskTypes
                BY MessagesBound DEF Judged, Drafted, Released, GovernanceInv, Governing, Frame
            <4> QED
                BY <4>1
        <3> QED
            BY <3>1 DEF TypeOK, GovernanceInv, Governing, Points, Frame
    <2>2. ASSUME NEW m \in published
          PROVE  /\ FiredOf("deny_plan") = {}
                 /\ \A a \in FiredOf("strip_task_type") : a.name # m.type
                 /\ \A a \in FiredOf("strip_tool") : a.name \notin m.toolset
        <3>1. ASSUME NEW type, NEW a \in FiredOf(type) PROVE a.type = type /\ Binds(a, ckpt.sc.env)
            <4>1. PICK n \in DOMAIN Fired : \E k \in DOMAIN Fired[n] : a = Fired[n][k]
                BY DEF FiredOf, ToSet
            <4> QED
                BY <4>1, MessagesBound DEF FiredOf
        <3>2. /\ ~ckpt.sc.env.decision.denied /\ m.type \in ckpt.sc.env.plan /\ m.toolset = ckpt.sc.env.toolset
              /\ ckpt.sc.env.plan \subseteq TaskTypes
            BY MessagesBound DEF Judged
        <3>3. ckpt.sc.env.plan # NoPlan
            BY <3>2, GovernanceAssumption DEF NoPlan
        <3> QED
            BY <3>1, <3>2, <3>3 DEF Binds
    <2>3. ClampHolds
        <3>1. CASE published = {}
            BY <3>1 DEF ClampHolds
        <3>2. CASE published # {}
            BY <3>2, MessagesBound
        <3> QED
            BY <3>1, <3>2
    <2>4. ResultsGoverned
        <3>1. \A f : [sc.env EXCEPT !.semantic = f].semantic = f
            BY DEF GovernanceInv, Governing, Frame, Shape
        <3> QED
            BY <3>1 DEF ResultsGoverned, GovernanceInv, Accepted, Denies
    <2> QED
        BY <2>1, <2>2, <2>3, <2>4 DEF GovernedInv, PublishedWasGoverned
<1> QED
    BY <1>1, GovernanceHolds, OnlyReleased, PTL

-----------------------------------------------------------------------------
(* What the planner is shown. *)

\* Selecting is what its definition says.
LEMMA SelectingInTurn ==
    ASSUME NEW seq, NEW places, Len(seq) \in Nat
    PROVE  LET kept == Selecting(seq, places)
           IN  kept[0] = <<>> /\ \A n \in 1..Len(seq) : kept[n] = 
                   IF n \in places THEN Append(kept[n - 1], seq[n]) ELSE kept[n - 1]
<1> DEFINE N == Len(seq)
           base == <<>>
           Turn(acc, n) == IF n \in places THEN Append(acc, seq[n]) ELSE acc
           Runs(g, n) == g = [i \in 0..n |-> IF i = 0 THEN base ELSE Turn(g[i - 1], i)]
           G == {n \in 0..N : \E g : Runs(g, n)}
<1>1. 0 \in G
    <2>1. Runs([i \in 0..0 |-> base], 0)
        OBVIOUS
    <2> HIDE DEF Runs
    <2> QED
        BY <2>1
<1>2. ASSUME NEW n \in 0..N, n \in G, n < N PROVE n + 1 \in G
    <2>1. PICK g : Runs(g, n)
        BY <1>2
    <2> HIDE DEF Turn, base
    <2> DEFINE h == [i \in 0..(n + 1) |-> IF i = n + 1 THEN Turn(g[n], n + 1) ELSE g[i]]
    <2>2. ASSUME NEW i \in 0..(n + 1)
          PROVE  h[i] = IF i = 0 THEN base ELSE Turn(h[i - 1], i)
        <3>1. CASE i = n + 1
            BY <3>1
        <3>2. CASE i \in 0..n
            <4>1. h[i] = g[i] /\ g[i] = IF i = 0 THEN base ELSE Turn(g[i - 1], i)
                BY <2>1, <3>2
            <4>2. i # 0 => h[i - 1] = g[i - 1]
                BY <3>2
            <4> QED
                BY <4>1, <4>2
        <3> QED
            BY <3>1, <3>2
    <2>3. Runs(h, n + 1)
        BY <2>2
    <2>4. n + 1 \in 0..N
        BY <1>2
    <2> HIDE DEF Runs, h
    <2> QED
        BY <2>3, <2>4
<1>3. N \in G
    <2>1. N \in Nat
        OBVIOUS
    <2> HIDE DEF G, N
    <2>2. \A n \in 0..N : n \in G
        BY <1>1, <1>2, <2>1, EveryPlace
    <2> QED
        BY <2>1, <2>2
<1>4. PICK g : Runs(g, N)
    BY <1>3
<1> DEFINE f == Selecting(seq, places)
<1>5. f = [n \in 0..N |-> IF n = 0 THEN base ELSE Turn(f[n - 1], n)]
    BY <1>4 DEF Selecting
<1>6. f[0] = base /\ \A n \in 1..N : f[n] = Turn(f[n - 1], n)
    <2> HIDE DEF f, Turn, base
    <2> QED
        BY <1>5
<1> QED
    BY <1>6

\* Lengths is what its definition says.
LEMMA LengthsInTurn ==
    ASSUME NEW texts, Len(texts) \in Nat
    PROVE  LET total == Lengths(texts)
           IN  total[0] = 0 /\ \A n \in 1..Len(texts) : total[n] = total[n - 1] + texts[n].len
<1> DEFINE N == Len(texts)
           base == 0
           Turn(acc, n) == acc + texts[n].len
           Runs(g, n) == g = [i \in 0..n |-> IF i = 0 THEN base ELSE Turn(g[i - 1], i)]
           G == {n \in 0..N : \E g : Runs(g, n)}
<1>1. 0 \in G
    <2>1. Runs([i \in 0..0 |-> base], 0)
        OBVIOUS
    <2> HIDE DEF Runs
    <2> QED
        BY <2>1
<1>2. ASSUME NEW n \in 0..N, n \in G, n < N PROVE n + 1 \in G
    <2>1. PICK g : Runs(g, n)
        BY <1>2
    <2> HIDE DEF Turn, base
    <2> DEFINE h == [i \in 0..(n + 1) |-> IF i = n + 1 THEN Turn(g[n], n + 1) ELSE g[i]]
    <2>2. ASSUME NEW i \in 0..(n + 1)
          PROVE  h[i] = IF i = 0 THEN base ELSE Turn(h[i - 1], i)
        <3>1. CASE i = n + 1
            BY <3>1
        <3>2. CASE i \in 0..n
            <4>1. h[i] = g[i] /\ g[i] = IF i = 0 THEN base ELSE Turn(g[i - 1], i)
                BY <2>1, <3>2
            <4>2. i # 0 => h[i - 1] = g[i - 1]
                BY <3>2
            <4> QED
                BY <4>1, <4>2
        <3> QED
            BY <3>1, <3>2
    <2>3. Runs(h, n + 1)
        BY <2>2
    <2>4. n + 1 \in 0..N
        BY <1>2
    <2> HIDE DEF Runs, h
    <2> QED
        BY <2>3, <2>4
<1>3. N \in G
    <2>1. N \in Nat
        OBVIOUS
    <2> HIDE DEF G, N
    <2>2. \A n \in 0..N : n \in G
        BY <1>1, <1>2, <2>1, EveryPlace
    <2> QED
        BY <2>1, <2>2
<1>4. PICK g : Runs(g, N)
    BY <1>3
<1> DEFINE f == Lengths(texts)
<1>5. f = [n \in 0..N |-> IF n = 0 THEN base ELSE Turn(f[n - 1], n)]
    BY <1>4 DEF Lengths
<1>6. f[0] = base /\ \A n \in 1..N : f[n] = Turn(f[n - 1], n)
    <2> HIDE DEF f, Turn, base
    <2> QED
        BY <1>5
<1> QED
    BY <1>6

\* Contributed is what its definition says.
LEMMA SourcesInTurn ==
    ASSUME NEW sources, NEW cached, NEW answers, Len(sources) \in Nat
    PROVE  LET built == Contributed(sources, cached, answers)
           IN  built[0] = [data |-> [id \in {} |-> 0], cache |-> cached, failed |-> FALSE] /\ \A n \in 1..Len(sources) : built[n] = RegistryContribute(built[n - 1], sources[n], answers)
<1> DEFINE N == Len(sources)
           base == [data |-> [id \in {} |-> 0], cache |-> cached, failed |-> FALSE]
           Turn(acc, n) == RegistryContribute(acc, sources[n], answers)
           Runs(g, n) == g = [i \in 0..n |-> IF i = 0 THEN base ELSE Turn(g[i - 1], i)]
           G == {n \in 0..N : \E g : Runs(g, n)}
<1>1. 0 \in G
    <2>1. Runs([i \in 0..0 |-> base], 0)
        OBVIOUS
    <2> HIDE DEF Runs
    <2> QED
        BY <2>1
<1>2. ASSUME NEW n \in 0..N, n \in G, n < N PROVE n + 1 \in G
    <2>1. PICK g : Runs(g, n)
        BY <1>2
    <2> HIDE DEF Turn, base
    <2> DEFINE h == [i \in 0..(n + 1) |-> IF i = n + 1 THEN Turn(g[n], n + 1) ELSE g[i]]
    <2>2. ASSUME NEW i \in 0..(n + 1)
          PROVE  h[i] = IF i = 0 THEN base ELSE Turn(h[i - 1], i)
        <3>1. CASE i = n + 1
            BY <3>1
        <3>2. CASE i \in 0..n
            <4>1. h[i] = g[i] /\ g[i] = IF i = 0 THEN base ELSE Turn(g[i - 1], i)
                BY <2>1, <3>2
            <4>2. i # 0 => h[i - 1] = g[i - 1]
                BY <3>2
            <4> QED
                BY <4>1, <4>2
        <3> QED
            BY <3>1, <3>2
    <2>3. Runs(h, n + 1)
        BY <2>2
    <2>4. n + 1 \in 0..N
        BY <1>2
    <2> HIDE DEF Runs, h
    <2> QED
        BY <2>3, <2>4
<1>3. N \in G
    <2>1. N \in Nat
        OBVIOUS
    <2> HIDE DEF G, N
    <2>2. \A n \in 0..N : n \in G
        BY <1>1, <1>2, <2>1, EveryPlace
    <2> QED
        BY <2>1, <2>2
<1>4. PICK g : Runs(g, N)
    BY <1>3
<1> DEFINE f == Contributed(sources, cached, answers)
<1>5. f = [n \in 0..N |-> IF n = 0 THEN base ELSE Turn(f[n - 1], n)]
    BY <1>4 DEF Contributed
<1>6. f[0] = base /\ \A n \in 1..N : f[n] = Turn(f[n - 1], n)
    <2> HIDE DEF f, Turn, base
    <2> QED
        BY <1>5
<1> QED
    BY <1>6

\* Declared is what its definition says.
LEMMA DeclarationsInTurn ==
    ASSUME NEW env, NEW decls, Len(decls) \in Nat
    PROVE  LET out == Declared(env, decls)
           IN  out[0] = [env |-> env, refused |-> FALSE] /\ \A n \in 1..Len(decls) : out[n] = Declare(out[n - 1], decls[n], available_context_keys(env))
<1> DEFINE N == Len(decls)
           base == [env |-> env, refused |-> FALSE]
           Turn(acc, n) == Declare(acc, decls[n], available_context_keys(env))
           Runs(g, n) == g = [i \in 0..n |-> IF i = 0 THEN base ELSE Turn(g[i - 1], i)]
           G == {n \in 0..N : \E g : Runs(g, n)}
<1>1. 0 \in G
    <2>1. Runs([i \in 0..0 |-> base], 0)
        OBVIOUS
    <2> HIDE DEF Runs
    <2> QED
        BY <2>1
<1>2. ASSUME NEW n \in 0..N, n \in G, n < N PROVE n + 1 \in G
    <2>1. PICK g : Runs(g, n)
        BY <1>2
    <2> HIDE DEF Turn, base
    <2> DEFINE h == [i \in 0..(n + 1) |-> IF i = n + 1 THEN Turn(g[n], n + 1) ELSE g[i]]
    <2>2. ASSUME NEW i \in 0..(n + 1)
          PROVE  h[i] = IF i = 0 THEN base ELSE Turn(h[i - 1], i)
        <3>1. CASE i = n + 1
            BY <3>1
        <3>2. CASE i \in 0..n
            <4>1. h[i] = g[i] /\ g[i] = IF i = 0 THEN base ELSE Turn(g[i - 1], i)
                BY <2>1, <3>2
            <4>2. i # 0 => h[i - 1] = g[i - 1]
                BY <3>2
            <4> QED
                BY <4>1, <4>2
        <3> QED
            BY <3>1, <3>2
    <2>3. Runs(h, n + 1)
        BY <2>2
    <2>4. n + 1 \in 0..N
        BY <1>2
    <2> HIDE DEF Runs, h
    <2> QED
        BY <2>3, <2>4
<1>3. N \in G
    <2>1. N \in Nat
        OBVIOUS
    <2> HIDE DEF G, N
    <2>2. \A n \in 0..N : n \in G
        BY <1>1, <1>2, <2>1, EveryPlace
    <2> QED
        BY <2>1, <2>2
<1>4. PICK g : Runs(g, N)
    BY <1>3
<1> DEFINE f == Declared(env, decls)
<1>5. f = [n \in 0..N |-> IF n = 0 THEN base ELSE Turn(f[n - 1], n)]
    BY <1>4 DEF Declared
<1>6. f[0] = base /\ \A n \in 1..N : f[n] = Turn(f[n - 1], n)
    <2> HIDE DEF f, Turn, base
    <2> QED
        BY <1>5
<1> QED
    BY <1>6

\* A sequence is one of its own items.
LEMMA OwnItems ==
    ASSUME NEW X, NEW s \in Seq(X)
    PROVE  s \in Seq(ToSet(s)) /\ ToSet(s) \subseteq X
BY DEF ToSet

\* What Append adds to a sequence.
LEMMA AppendedItem ==
    ASSUME NEW X, NEW s \in Seq(X), NEW x \in X
    PROVE  /\ Append(s, x) \in Seq(X) /\ Len(Append(s, x)) = Len(s) + 1
           /\ ToSet(Append(s, x)) = ToSet(s) \cup {x}
<1> DEFINE t == Append(s, x)
<1>1. /\ t \in Seq(X) /\ Len(t) = Len(s) + 1 /\ t[Len(s) + 1] = x
      /\ \A i \in 1..Len(s) : t[i] = s[i]
    OBVIOUS
<1>2. DOMAIN s = 1..Len(s) /\ DOMAIN t = 1..(Len(s) + 1) /\ Len(s) \in Nat
    BY <1>1
<1> HIDE DEF t
<1>3. ToSet(t) = ToSet(s) \cup {x}
    <2>1. \A i \in 1..(Len(s) + 1) : i \in 1..Len(s) \/ i = Len(s) + 1
        BY <1>2
    <2> QED
        BY <1>1, <1>2, <2>1 DEF ToSet
<1> QED
    BY <1>1, <1>3 DEF t

\* Select takes the items at the places it is given.
LEMMA SelectedItems ==
    ASSUME NEW X, NEW s \in Seq(X), NEW P \in SUBSET (1..Len(s))
    PROVE  Select(s, P) \in Seq(X) /\ ToSet(Select(s, P)) = {s[i] : i \in P}
<1> DEFINE N == Len(s)
           f == Selecting(s, P)
           G == {n \in 0..N : f[n] \in Seq(X) /\ ToSet(f[n]) = {s[i] : i \in {j \in P : j <= n}}}
<1>1. N \in Nat /\ f[0] = <<>> /\ \A n \in 1..N : f[n] = IF n \in P THEN Append(f[n - 1], s[n]) ELSE f[n - 1]
    BY SelectingInTurn
<1> HIDE DEF f
<1>7. \A j \in P : j \in Nat /\ j > 0 /\ j <= N
    BY <1>1
<1>2. 0 \in G
    <2>1. <<>> \in Seq(X) /\ ToSet(<<>>) = {}
        BY DEF ToSet
    <2>2. {j \in P : j <= 0} = {}
        <3>1. \A j \in P : ~(j <= 0)
            BY <1>7
        <3> QED
            BY <3>1
    <2>3. {s[i] : i \in {j \in P : j <= 0}} = {}
        BY <2>2
    <2>4. f[0] = <<>> /\ 0 \in 0..N
        BY <1>1
    <2> QED
        BY <2>1, <2>3, <2>4
<1>3. ASSUME NEW n \in 0..N, n \in G, n < N PROVE n + 1 \in G
    <2> DEFINE m == n + 1
               old == {j \in P : j <= n}
               new == {j \in P : j <= m}
    <2>1. m \in 1..N /\ f[m] = (IF m \in P THEN Append(f[n], s[m]) ELSE f[n]) /\ s[m] \in X
        BY <1>1, <1>3
    <2>2. f[n] \in Seq(X) /\ ToSet(f[n]) = {s[i] : i \in old}
        BY <1>3
    <2>3. CASE m \in P
        <3>1. new = old \cup {m}
            <4>1. \A j \in P : j <= m <=> j <= n \/ j = m
                BY <1>7
            <4> QED
                BY <2>3, <4>1
        <3>2. f[m] \in Seq(X) /\ ToSet(f[m]) = ToSet(f[n]) \cup {s[m]}
            BY <2>1, <2>2, <2>3, AppendedItem
        <3>3. {s[i] : i \in new} = {s[i] : i \in old} \cup {s[m]}
            <4> HIDE DEF old, new
            <4> QED
                BY <3>1
        <3>4. m \in 0..N
            BY <2>1
        <3> QED
            BY <2>2, <3>2, <3>3, <3>4
    <2>4. CASE m \notin P
        <3>1. new = old
            <4>1. \A j \in P : j <= m <=> j <= n \/ j = m
                BY <1>7
            <4> QED
                BY <2>4, <4>1
        <3> QED
            BY <2>1, <2>2, <2>4, <3>1
    <2> QED
        BY <2>3, <2>4
<1>4. N \in G
    <2> HIDE DEF G, N
    <2>1. \A n \in 0..N : n \in G
        BY <1>1, <1>2, <1>3, EveryPlace
    <2> QED
        BY <1>1, <2>1
<1>5. {j \in P : j <= N} = P
    BY <1>7
<1>6. Select(s, P) = f[N]
    BY DEF Select, f
<1> QED
    BY <1>4, <1>5, <1>6

\* Texts of the same lengths.
Alike(s, t) == Len(s) = Len(t) /\ \A i \in 1..Len(s) : s[i].len = t[i].len

\* Selections of alike texts are alike.
LEMMA SelectedAlike ==
    ASSUME NEW X, NEW s \in Seq(X), NEW t \in Seq(X), Alike(s, t), NEW P
    PROVE  Alike(Select(s, P), Select(t, P)) /\ Select(s, P) \in Seq(X) /\ Select(t, P) \in Seq(X)
<1> DEFINE N == Len(s)
           f == Selecting(s, P)
           g == Selecting(t, P)
           G == {n \in 0..N : f[n] \in Seq(X) /\ g[n] \in Seq(X) /\ Alike(f[n], g[n])}
<1>1. N \in Nat /\ N = Len(t)
    BY DEF Alike
<1>2. /\ f[0] = <<>> /\ \A n \in 1..N : f[n] = IF n \in P THEN Append(f[n - 1], s[n]) ELSE f[n - 1]
      /\ g[0] = <<>> /\ \A n \in 1..N : g[n] = IF n \in P THEN Append(g[n - 1], t[n]) ELSE g[n - 1]
    BY <1>1, SelectingInTurn
<1> HIDE DEF f, g
<1>3. 0 \in G
    <2>1. <<>> \in Seq(X) /\ Len(<<>>) = 0
        OBVIOUS
    <2>2. Alike(<<>>, <<>>)
        BY DEF Alike
    <2>3. f[0] = <<>> /\ g[0] = <<>> /\ 0 \in 0..N
        BY <1>1, <1>2
    <2>4. f[0] \in Seq(X) /\ g[0] \in Seq(X) /\ Alike(f[0], g[0])
        BY <2>1, <2>2, <2>3, Zenon
    <2> QED
        BY <2>3, <2>4
<1>4. ASSUME NEW n \in 0..N, n \in G, n < N PROVE n + 1 \in G
    <2> DEFINE m == n + 1
    <2>1. /\ m \in 1..N /\ s[m] \in X /\ t[m] \in X /\ s[m].len = t[m].len
          /\ f[m] = (IF m \in P THEN Append(f[n], s[m]) ELSE f[n])
          /\ g[m] = (IF m \in P THEN Append(g[n], t[m]) ELSE g[n])
        BY <1>1, <1>2, <1>4 DEF Alike
    <2>2. f[n] \in Seq(X) /\ g[n] \in Seq(X) /\ Alike(f[n], g[n])
        BY <1>4
    <2>3. Alike(Append(f[n], s[m]), Append(g[n], t[m]))
        BY <2>1, <2>2 DEF Alike
    <2>4. Append(f[n], s[m]) \in Seq(X) /\ Append(g[n], t[m]) \in Seq(X)
        BY <2>1, <2>2
    <2>5. f[m] \in Seq(X) /\ g[m] \in Seq(X) /\ Alike(f[m], g[m])
        BY <2>1, <2>2, <2>3, <2>4
    <2>6. m \in 0..N
        BY <1>4
    <2> QED
        BY <2>5, <2>6
<1>5. N \in G
    <2> HIDE DEF G, N
    <2>1. \A n \in 0..N : n \in G
        BY <1>1, <1>3, <1>4, EveryPlace
    <2> QED
        BY <1>1, <2>1
<1>6. Select(s, P) = f[N] /\ Select(t, P) = g[N]
    BY <1>1 DEF Select, f, g
<1> QED
    BY <1>5, <1>6

\* Alike texts are joined to the same length.
LEMMA JoinedAlike ==
    ASSUME NEW X, NEW s \in Seq(X), NEW t \in Seq(X), Alike(s, t)
    PROVE  JoinLen(s) = JoinLen(t)
<1> DEFINE N == Len(s)
           f == Lengths(s)
           g == Lengths(t)
           G == {n \in 0..N : f[n] = g[n]}
<1>1. N \in Nat /\ N = Len(t)
    BY DEF Alike
<1>2. /\ f[0] = 0 /\ \A n \in 1..N : f[n] = f[n - 1] + s[n].len
      /\ g[0] = 0 /\ \A n \in 1..N : g[n] = g[n - 1] + t[n].len
    BY <1>1, LengthsInTurn
<1> HIDE DEF f, g
<1>3. 0 \in G
    BY <1>1, <1>2
<1>4. ASSUME NEW n \in 0..N, n \in G, n < N PROVE n + 1 \in G
    <2>1. n + 1 \in 1..N /\ (n + 1) - 1 = n
        BY <1>1, <1>4
    <2> QED
        BY <1>1, <1>2, <1>4, <2>1 DEF Alike
<1>5. N \in G
    <2> HIDE DEF G, N
    <2>1. \A n \in 0..N : n \in G
        BY <1>1, <1>3, <1>4, EveryPlace
    <2> QED
        BY <1>1, <2>1
<1>6. s = <<>> <=> t = <<>>
    BY <1>1
<1> QED
    BY <1>1, <1>5, <1>6 DEF JoinLen, f, g

\* The length of texts is a number.
LEMMA JoinedIsNat ==
    ASSUME NEW s, IsTexts(s)
    PROVE  JoinLen(s) \in Nat
<1> DEFINE N == Len(s)
           f == Lengths(s)
           G == {n \in 0..N : f[n] \in Nat}
<1>1. N \in Nat /\ s \in Seq(ToSet(s)) /\ DOMAIN s = 1..N
    BY DEF IsTexts
<1>2. \A n \in 1..N : s[n].len \in Nat
    BY <1>1 DEF IsTexts, IsText, ToSet
<1>3. f[0] = 0 /\ \A n \in 1..N : f[n] = f[n - 1] + s[n].len
    BY <1>1, LengthsInTurn
<1> HIDE DEF f
<1>4. 0 \in G
    BY <1>1, <1>3
<1>5. ASSUME NEW n \in 0..N, n \in G, n < N PROVE n + 1 \in G
    <2>1. n + 1 \in 1..N /\ (n + 1) - 1 = n
        BY <1>1, <1>5
    <2> QED
        BY <1>2, <1>3, <1>5, <2>1
<1>6. N \in G
    <2> HIDE DEF G, N
    <2>1. \A n \in 0..N : n \in G
        BY <1>1, <1>4, <1>5, EveryPlace
    <2> QED
        BY <1>1, <2>1
<1>7. s = <<>> \/ N - 1 \in Nat
    BY <1>1
<1> QED
    BY <1>6, <1>7 DEF JoinLen, f

\* Texts are alike piece by piece.
LEMMA ConcatAlike ==
    ASSUME NEW X, NEW a \in Seq(X), NEW b \in Seq(X), NEW c \in Seq(X), NEW d \in Seq(X),
           Alike(a, b), Alike(c, d)
    PROVE  Alike(a \o c, b \o d) /\ a \o c \in Seq(X) /\ b \o d \in Seq(X)
<1>1. /\ Len(a) = Len(b) /\ Len(c) = Len(d) /\ Len(a) \in Nat /\ Len(c) \in Nat
      /\ Len(a \o c) = Len(a) + Len(c) /\ Len(b \o d) = Len(a) + Len(c)
    <2>1. Len(a) = Len(b) /\ Len(c) = Len(d)
        BY DEF Alike
    <2>2. Len(a \o c) = Len(a) + Len(c) /\ Len(b \o d) = Len(b) + Len(d)
        OBVIOUS
    <2>3. Len(a) \in Nat /\ Len(c) \in Nat
        OBVIOUS
    <2> QED
        BY <2>1, <2>2, <2>3
<1>2. ASSUME NEW i \in 1..(Len(a) + Len(c)) PROVE (a \o c)[i].len = (b \o d)[i].len
    <2>1. CASE i <= Len(a)
        <3>1. (a \o c)[i] = a[i] /\ (b \o d)[i] = b[i] /\ i \in 1..Len(a)
            BY <1>1, <2>1
        <3> QED
            BY <3>1 DEF Alike
    <2>2. CASE i > Len(a)
        <3>1. (a \o c)[i] = c[i - Len(a)] /\ (b \o d)[i] = d[i - Len(a)] /\ i - Len(a) \in 1..Len(c)
            BY <1>1, <2>2
        <3> QED
            BY <3>1 DEF Alike
    <2> QED
        BY <1>1, <2>1, <2>2
<1> QED
    BY <1>1, <1>2 DEF Alike

\* A text, or two, joined.
LEMMA FewJoined ==
    ASSUME NEW t, NEW u, IsText(t), IsText(u)
    PROVE  JoinLen(<<>>) = 0 /\ JoinLen(<<t>>) = t.len /\ JoinLen(<<t, u>>) = t.len + 1 + u.len
<1>1. t.len \in Nat /\ u.len \in Nat
    BY DEF IsText
<1>2. JoinLen(<<>>) = 0
    <2>1. Len(<<>>) = 0
        OBVIOUS
    <2>2. Lengths(<<>>)[0] = 0
        BY <2>1, LengthsInTurn
    <2> QED
        BY <2>1, <2>2 DEF JoinLen
<1>3. JoinLen(<<t>>) = t.len
    <2> DEFINE s == <<t>>
               f == Lengths(s)
    <2>1. Len(s) = 1 /\ s[1] = t /\ s # <<>>
        OBVIOUS
    <2> HIDE DEF s
    <2>2. f[0] = 0 /\ \A n \in 1..1 : f[n] = f[n - 1] + s[n].len
        BY <2>1, LengthsInTurn
    <2>3. JoinLen(s) = f[1] + 0
        BY <2>1 DEF JoinLen
    <2> HIDE DEF f
    <2>4. f[1] = 0 + t.len
        BY <2>1, <2>2
    <2> QED
        BY <1>1, <2>3, <2>4 DEF s
<1>4. JoinLen(<<t, u>>) = t.len + 1 + u.len
    <2> DEFINE s == <<t, u>>
               f == Lengths(s)
    <2>1. Len(s) = 2 /\ s[1] = t /\ s[2] = u /\ s # <<>>
        OBVIOUS
    <2> HIDE DEF s
    <2>2. f[0] = 0 /\ \A n \in 1..2 : f[n] = f[n - 1] + s[n].len
        BY <2>1, LengthsInTurn
    <2>3. JoinLen(s) = f[2] + 1
        BY <2>1 DEF JoinLen
    <2> HIDE DEF f
    <2>4. f[1] = 0 + t.len
        BY <2>1, <2>2
    <2>5. f[2] = f[1] + u.len
        BY <2>1, <2>2
    <2> QED
        BY <1>1, <2>3, <2>4, <2>5 DEF s
<1> QED
    BY <1>2, <1>3, <1>4

\* Leaving empty lines out makes a text, or two, no longer.
LEMMA LinesOfFew ==
    ASSUME NEW t, NEW u, IsText(t), IsText(u)
    PROVE  /\ JoinLen(Lines(<<t>>)) \in 0..t.len
           /\ JoinLen(Lines(<<t, u>>)) \in 0..(t.len + 1 + u.len)
<1>1. t.len \in Nat /\ u.len \in Nat
    BY DEF IsText
<1>2. Lines(<<t>>) \in {<<>>, <<t>>}
    <2> DEFINE s == <<t>>
               P == {i \in DOMAIN s : s[i].len > 0}
               f == Selecting(s, P)
    <2>1. Len(s) = 1 /\ s[1] = t
        OBVIOUS
    <2>2. Lines(s) = f[1]
        BY <2>1 DEF Lines, Select
    <2> HIDE DEF s, P
    <2>3. f[0] = <<>> /\ \A n \in 1..1 : f[n] = IF n \in P THEN Append(f[n - 1], s[n]) ELSE f[n - 1]
        BY <2>1, SelectingInTurn
    <2>31. f[1] = IF 1 \in P THEN Append(f[1 - 1], s[1]) ELSE f[1 - 1]
        <3>1. 1 \in 1..1
            OBVIOUS
        <3> QED
            BY <2>3, <3>1, Zenon
    <2>32. 1 - 1 = 0
        OBVIOUS
    <2> HIDE DEF f
    <2>4. f[1] = IF 1 \in P THEN Append(<<>>, t) ELSE <<>>
        BY <2>1, <2>3, <2>32, <2>31, Zenon
    <2>5. Append(<<>>, t) = <<t>>
        OBVIOUS
    <2> QED
        BY <2>2, <2>4, <2>5 DEF s
<1>3. Lines(<<t, u>>) \in {<<>>, <<t>>, <<u>>, <<t, u>>}
    <2> DEFINE s == <<t, u>>
               P == {i \in DOMAIN s : s[i].len > 0}
               f == Selecting(s, P)
    <2>1. Len(s) = 2 /\ s[1] = t /\ s[2] = u
        OBVIOUS
    <2>2. Lines(s) = f[2]
        BY <2>1 DEF Lines, Select
    <2> HIDE DEF s, P
    <2>3. f[0] = <<>> /\ \A n \in 1..2 : f[n] = IF n \in P THEN Append(f[n - 1], s[n]) ELSE f[n - 1]
        BY <2>1, SelectingInTurn
    <2>31. 1 \in 1..2 /\ 2 \in 1..2 /\ 1 - 1 = 0 /\ 2 - 1 = 1
        OBVIOUS
    <2> HIDE DEF f
    <2>4. f[1] = IF 1 \in P THEN Append(<<>>, t) ELSE <<>>
        <3>1. f[1] = IF 1 \in P THEN Append(f[1 - 1], s[1]) ELSE f[1 - 1]
            BY <2>3, <2>31, Zenon
        <3> QED
            BY <2>1, <2>3, <2>31, <3>1, Zenon
    <2>5. f[2] = IF 2 \in P THEN Append(f[1], u) ELSE f[1]
        <3>1. f[2] = IF 2 \in P THEN Append(f[2 - 1], s[2]) ELSE f[2 - 1]
            BY <2>3, <2>31, Zenon
        <3> QED
            BY <2>1, <2>31, <3>1, Zenon
    <2>6. Append(<<>>, t) = <<t>> /\ Append(<<>>, u) = <<u>> /\ Append(<<t>>, u) = <<t, u>>
        <3>1. Append(<<>>, t) = <<t>>
            OBVIOUS
        <3>2. Append(<<>>, u) = <<u>>
            OBVIOUS
        <3>3. Append(<<t>>, u) = <<t, u>>
            <4> DEFINE a == Append(<<t>>, u)
                       b == <<t, u>>
            <4>1. a \in Seq({t, u}) /\ Len(a) = 2 /\ a[1] = t /\ a[2] = u
                OBVIOUS
            <4>2. b \in Seq({t, u}) /\ Len(b) = 2 /\ b[1] = t /\ b[2] = u
                OBVIOUS
            <4> HIDE DEF a, b
            <4>3. a = [i \in 1..2 |-> a[i]] /\ b = [i \in 1..2 |-> b[i]]
                BY <4>1, <4>2
            <4>4. \A i \in 1..2 : a[i] = b[i]
                BY <4>1, <4>2
            <4>5. a = b
                BY <4>3, <4>4
            <4> QED
                BY <4>5 DEF a, b
        <3> QED
            BY <3>1, <3>2, <3>3
    <2>7. f[1] \in {<<>>, <<t>>}
        BY <2>4, <2>6, Zenon
    <2>8. f[2] \in {<<>>, <<t>>, <<u>>, <<t, u>>}
        BY <2>5, <2>6, <2>7, Zenon
    <2> QED
        BY <2>2, <2>8 DEF s
<1>4. /\ JoinLen(<<>>) = 0 /\ JoinLen(<<t>>) = t.len /\ JoinLen(<<u>>) = u.len
      /\ JoinLen(<<t, u>>) = t.len + 1 + u.len
    BY FewJoined
<1>5. JoinLen(Lines(<<t>>)) \in {0, t.len}
    BY <1>2, <1>4, Zenon
<1>6. JoinLen(Lines(<<t, u>>)) \in {0, t.len, u.len, t.len + 1 + u.len}
    BY <1>3, <1>4, Zenon
<1> QED
    BY <1>1, <1>5, <1>6

\* Envelopes of texts of the same lengths have the same count.
LEMMA CountedAlike ==
    ASSUME NEW e, NEW d, IsEnvelope(e), IsEnvelope(d), e.goal.len = d.goal.len,
           Alike(e.dialogue, d.dialogue), Alike(e.memories, d.memories), Alike(e.notes, d.notes)
    PROVE  count(e) = count(d)
<1> DEFINE X == Texts(e) \cup Texts(d)
           s == <<e.goal>> \o e.dialogue \o e.memories \o e.notes
           t == <<d.goal>> \o d.dialogue \o d.memories \o d.notes
           P == {i \in DOMAIN s : s[i].len > 0}
           Q == {i \in DOMAIN t : t[i].len > 0}
<1>1. /\ <<e.goal>> \in Seq(X) /\ <<d.goal>> \in Seq(X) /\ e.dialogue \in Seq(X) /\ d.dialogue \in Seq(X)
      /\ e.memories \in Seq(X) /\ d.memories \in Seq(X) /\ e.notes \in Seq(X) /\ d.notes \in Seq(X)
    BY DEF IsEnvelope, IsTexts, Texts
<1>2. Alike(<<e.goal>>, <<d.goal>>)
    BY DEF Alike
<1> HIDE DEF X
<1>3. /\ Alike(<<e.goal>> \o e.dialogue, <<d.goal>> \o d.dialogue)
      /\ <<e.goal>> \o e.dialogue \in Seq(X) /\ <<d.goal>> \o d.dialogue \in Seq(X)
    BY <1>1, <1>2, ConcatAlike
<1>4. /\ Alike(<<e.goal>> \o e.dialogue \o e.memories, <<d.goal>> \o d.dialogue \o d.memories)
      /\ <<e.goal>> \o e.dialogue \o e.memories \in Seq(X) /\ <<d.goal>> \o d.dialogue \o d.memories \in Seq(X)
    BY <1>1, <1>3, ConcatAlike
<1>5. Alike(s, t) /\ s \in Seq(X) /\ t \in Seq(X)
    <2> DEFINE a == <<e.goal>> \o e.dialogue \o e.memories
               b == <<d.goal>> \o d.dialogue \o d.memories
    <2>1. a \in Seq(X) /\ b \in Seq(X) /\ Alike(a, b)
        BY <1>4
    <2>2. s = a \o e.notes /\ t = b \o d.notes
        OBVIOUS
    <2> HIDE DEF a, b, s, t
    <2>3. /\ Alike(a \o e.notes, b \o d.notes) /\ a \o e.notes \in Seq(X)
          /\ b \o d.notes \in Seq(X)
        BY <1>1, <2>1, ConcatAlike
    <2> QED
        BY <2>2, <2>3
<1> HIDE DEF s, t
<1>6. P = Q
    <2>1. DOMAIN s = 1..Len(s) /\ DOMAIN t = 1..Len(s)
        BY <1>5 DEF Alike
    <2> QED
        BY <1>5, <2>1 DEF Alike
<1> HIDE DEF P, Q
<1>7. JoinLen(Select(s, P)) = JoinLen(Select(t, P))
    BY <1>5, SelectedAlike, JoinedAlike
<1>8. Lines(s) = Select(s, P) /\ Lines(t) = Select(t, P)
    BY <1>6 DEF Lines, P, Q
<1> QED
    BY <1>7, <1>8 DEF count, s, t


\* Items that are texts make texts.
LEMMA TextsAre ==
    ASSUME NEW X, NEW s \in Seq(X), \A x \in X : IsText(x)
    PROVE  IsTexts(s)
BY OwnItems DEF IsTexts

\* The items of texts.
LEMMA TextAt ==
    ASSUME NEW s, IsTexts(s)
    PROVE  /\ s \in Seq(ToSet(s)) /\ Len(s) \in Nat /\ DOMAIN s = 1..Len(s)
           /\ \A i \in 1..Len(s) : s[i] \in ToSet(s) /\ IsText(s[i])
           /\ \A t \in ToSet(s) : \E i \in 1..Len(s) : t = s[i]
<1>1. s \in Seq(ToSet(s)) /\ \A t \in ToSet(s) : IsText(t)
    BY DEF IsTexts
<1>2. Len(s) \in Nat /\ DOMAIN s = 1..Len(s)
    BY <1>1
<1>3. \A t \in ToSet(s) : \E i \in 1..Len(s) : t = s[i]
    BY <1>2 DEF ToSet
<1>4. \A i \in 1..Len(s) : s[i] \in ToSet(s)
    BY <1>2 DEF ToSet
<1> QED
    BY <1>1, <1>2, <1>3, <1>4

\* Redaction changes nothing of a text but its personal data.
LEMMA Scrubbed ==
    ASSUME NEW t, IsText(t)
    PROVE  /\ IsText(scrub(t)) /\ scrub(t).len = t.len /\ scrub(t).decisions = t.decisions
           /\ ~scrub(t).pii
BY DEF IsText, scrub

\* The same for the texts of a part of an envelope.
ScrubbedTexts(s) == [i \in DOMAIN s |-> scrub(s[i])]
LEMMA AllScrubbed ==
    ASSUME NEW s, IsTexts(s)
    PROVE  /\ IsTexts(ScrubbedTexts(s)) /\ Len(ScrubbedTexts(s)) = Len(s)
           /\ \A i \in 1..Len(s) : ScrubbedTexts(s)[i] = scrub(s[i])
           /\ \A t \in ToSet(ScrubbedTexts(s)) : ~t.pii
<1> DEFINE r == ScrubbedTexts(s)
           X == {scrub(t) : t \in ToSet(s)}
<1>1. Len(s) \in Nat /\ DOMAIN s = 1..Len(s) /\ \A i \in 1..Len(s) : s[i] \in ToSet(s)
    BY TextAt
<1>2. r = [i \in 1..Len(s) |-> scrub(s[i])]
    BY <1>1 DEF ScrubbedTexts
<1>3. \A x \in X : IsText(x) /\ ~x.pii
    BY Scrubbed DEF IsTexts
<1>4. \A i \in 1..Len(s) : scrub(s[i]) \in X
    BY <1>1
<1> HIDE DEF X, r
<1>5. r \in Seq(X) /\ Len(r) = Len(s)
    BY <1>1, <1>2, <1>4
<1>6. IsTexts(r) /\ ToSet(r) \subseteq X
    BY <1>3, <1>5, TextsAre, OwnItems
<1> QED
    BY <1>2, <1>3, <1>5, <1>6 DEF r

\* A redacted envelope: nothing is left of the personal data, nothing else is lost.
LEMMA Redacted ==
    ASSUME NEW e, NEW flagged \in BOOLEAN, IsEnvelope(e)
    PROVE  LET red == redact(e, flagged)
           IN  /\ IsEnvelope(red) /\ count(red) = count(e) /\ red.goal.len = e.goal.len
               /\ flagged => \A t \in Texts(red) : ~t.pii
               /\ Len(red.dialogue) = Len(e.dialogue) /\ Alike(e.dialogue, red.dialogue)
               /\ \A i \in 1..Len(e.dialogue) : red.dialogue[i].decisions = e.dialogue[i].decisions
<1>1. /\ DOMAIN e = {"goal", "dialogue", "memories", "notes"} /\ IsText(e.goal)
      /\ IsTexts(e.dialogue) /\ IsTexts(e.memories) /\ IsTexts(e.notes)
    BY DEF IsEnvelope
<1>2. CASE ~flagged
    BY <1>2 DEF redact, Alike
<1>3. CASE flagged
    <2> DEFINE red == redact(e, flagged)
    <2>1. red = [goal |-> scrub(e.goal), dialogue |-> ScrubbedTexts(e.dialogue),
                 memories |-> ScrubbedTexts(e.memories), notes |-> ScrubbedTexts(e.notes)]
        BY <1>3 DEF redact, ScrubbedTexts
    <2>2. /\ red.goal = scrub(e.goal) /\ red.dialogue = ScrubbedTexts(e.dialogue)
          /\ red.memories = ScrubbedTexts(e.memories) /\ red.notes = ScrubbedTexts(e.notes)
          /\ DOMAIN red = {"goal", "dialogue", "memories", "notes"}
        BY <2>1
    <2> HIDE DEF red
    <2>3. IsText(red.goal) /\ red.goal.len = e.goal.len /\ ~red.goal.pii
        BY <1>1, <2>2, Scrubbed
    <2>4. /\ IsTexts(red.dialogue) /\ IsTexts(red.memories) /\ IsTexts(red.notes)
          /\ \A t \in ToSet(red.dialogue) \cup ToSet(red.memories) \cup ToSet(red.notes) : ~t.pii
        BY <1>1, <2>2, AllScrubbed
    <2>5. ASSUME NEW s, IsTexts(s)
          PROVE  /\ Alike(s, ScrubbedTexts(s)) /\ Len(ScrubbedTexts(s)) = Len(s)
                 /\ \A i \in 1..Len(s) : ScrubbedTexts(s)[i].decisions = s[i].decisions
        <3>1. \A i \in 1..Len(s) : /\ scrub(s[i]).len = s[i].len 
                                   /\ scrub(s[i]).decisions = s[i].decisions
            BY <2>5, TextAt, Scrubbed
        <3> QED
            BY <2>5, <3>1, AllScrubbed DEF Alike
    <2>6. /\ Alike(e.dialogue, red.dialogue) /\ Alike(e.memories, red.memories) /\ Alike(e.notes, red.notes)
          /\ Len(red.dialogue) = Len(e.dialogue)
          /\ \A i \in 1..Len(e.dialogue) : red.dialogue[i].decisions = e.dialogue[i].decisions
        BY <1>1, <2>2, <2>5
    <2>7. IsEnvelope(red)
        BY <2>2, <2>3, <2>4 DEF IsEnvelope
    <2>8. count(red) = count(e)
        BY <2>3, <2>6, <2>7, CountedAlike
    <2>9. \A t \in Texts(red) : ~t.pii
        BY <2>3, <2>4 DEF Texts
    <2> QED
        BY <2>3, <2>6, <2>7, <2>8, <2>9 DEF red
<1> QED
    BY <1>2, <1>3

\* A cut text: no longer than asked, no personal data of its own, whole when it fits.
LEMMA CutText ==
    ASSUME NEW s, IsTexts(s), NEW n \in Nat
    PROVE  /\ IsText(Cut(s, n)) /\ Cut(s, n).len <= n
           /\ (\A t \in ToSet(s) : ~t.pii) => ~Cut(s, n).pii
           /\ JoinLen(s) <= n => Cut(s, n).decisions = UNION {t.decisions : t \in ToSet(s)}
           /\ Cut(s, n).decisions \subseteq UNION {t.decisions : t \in ToSet(s)}
<1>1. JoinLen(s) \in Nat
    BY JoinedIsNat
<1>2. (\E t \in ToSet(s) : t.pii) \in BOOLEAN
    OBVIOUS
<1>3. CASE JoinLen(s) <= n
    BY <1>1, <1>3 DEF Cut, Join, IsText
<1>4. CASE ~(JoinLen(s) <= n)
    <2> DEFINE P == {j \in 1..Len(s) : JoinLen(SubSeq(s, 1, j)) <= n}
    <2>1. Cut(s, n) = [len |-> n, decisions |-> UNION {t.decisions : t \in {s[i] : i \in P}},
                       pii |-> \E t \in ToSet(s) : t.pii]
        BY <1>4 DEF Cut
    <2>2. {s[i] : i \in P} \subseteq ToSet(s)
        BY TextAt DEF ToSet
    <2> HIDE DEF P
    <2> QED
        BY <1>4, <2>1, <2>2 DEF IsText
<1> QED
    BY <1>3, <1>4

\* Joined texts.
LEMMA JoinedText ==
    ASSUME NEW s, IsTexts(s)
    PROVE  /\ IsText(Join(s)) /\ Join(s).decisions = UNION {t.decisions : t \in ToSet(s)}
           /\ (\A t \in ToSet(s) : ~t.pii) => ~Join(s).pii
<1>1. JoinLen(s) \in Nat
    BY JoinedIsNat
<1> QED
    BY <1>1 DEF Join, IsText

\* The digest of a compaction holds the decisions when they fit the target.
LEMMA FitText ==
    ASSUME NEW s, IsTexts(s), NEW summary, IsText(summary), NEW target \in Nat
    PROVE  LET digest == fit(s, summary, target)
           IN  /\ IsText(digest)
               /\ (~summary.pii /\ \A t \in ToSet(s) : ~t.pii) => ~digest.pii
               /\ estimate_tokens(JoinLen(s)) <= target =>
                      UNION {t.decisions : t \in ToSet(s)} \subseteq digest.decisions
<1> DEFINE both == Append(s, summary)
           X == ToSet(s) \cup {summary}
           n == IF estimate_tokens(JoinLen(s)) <= target THEN JoinLen(s) ELSE target * CharsPerToken
<1>1. s \in Seq(X) /\ summary \in X /\ \A x \in X : IsText(x)
    <2>1. s \in Seq(ToSet(s)) /\ \A x \in ToSet(s) : IsText(x)
        BY DEF IsTexts
    <2> QED
        BY <2>1
<1> HIDE DEF X
<1>2. both \in Seq(X) /\ ToSet(both) = ToSet(s) \cup {summary}
    BY <1>1, AppendedItem
<1> HIDE DEF both
<1>3. IsTexts(both)
    BY <1>1, <1>2, TextsAre
<1>4. n \in Nat
    BY JoinedIsNat DEF CharsPerToken
<1>5. JoinLen(s) \in Nat
    BY JoinedIsNat
<1>6. fit(s, summary, target) = IF estimate_tokens(JoinLen(both)) <= target THEN Join(both) ELSE Cut(s, n)
    BY DEF fit, both, n
<1>7. estimate_tokens(JoinLen(s)) <= target => JoinLen(s) <= n
    BY <1>5
<1> HIDE DEF n
<1>8. CASE fit(s, summary, target) = Join(both)
    <2>1. UNION {t.decisions : t \in ToSet(s)} \subseteq UNION {t.decisions : t \in ToSet(both)}
        BY <1>2
    <2> QED
        BY <1>2, <1>3, <1>8, <2>1, JoinedText
<1>9. CASE fit(s, summary, target) = Cut(s, n)
    BY <1>4, <1>7, <1>9, CutText
<1> QED
    BY <1>6, <1>8, <1>9

\* The last item of a sequence is one of its items.
LEMMA LastItem ==
    ASSUME NEW X, NEW s \in Seq(X), s # <<>>
    PROVE  Last(s) = s[Len(s)] /\ Len(s) \in Nat \ {0} /\ Last(s) \in ToSet(s)
<1>1. Len(s) \in Nat \ {0} /\ DOMAIN s = 1..Len(s)
    OBVIOUS
<1> QED
    BY <1>1 DEF Last, ToSet

\* The end of a sequence.
LEMMA EndOfSeq ==
    ASSUME NEW X, NEW s \in Seq(X), NEW k \in 1..Len(s)
    PROVE  LET end == SubSeq(s, k, Len(s))
           IN  /\ end \in Seq(X) /\ Len(end) = Len(s) - k + 1 /\ end # <<>>
               /\ \A i \in 1..(Len(s) - k + 1) : end[i] = s[k + i - 1]
               /\ Last(end) = Last(s) /\ ToSet(end) \subseteq ToSet(s)
<1> DEFINE end == SubSeq(s, k, Len(s))
           N == Len(s) - k + 1
<1>1. Len(s) \in Nat /\ k \in 1..Len(s) /\ N \in 1..Len(s) /\ DOMAIN s = 1..Len(s)
    OBVIOUS
<1>2. end \in Seq(X) /\ Len(end) = N
    OBVIOUS
<1>3. \A i \in 1..N : end[i] = s[k + i - 1]
    OBVIOUS
<1> HIDE DEF end
<1>4. end # <<>>
    BY <1>1, <1>2
<1>5. Last(end) = Last(s)
    <2>1. Last(end) = end[N] /\ k + N - 1 = Len(s)
        BY <1>1, <1>2 DEF Last
    <2> QED
        BY <1>1, <1>3, <2>1 DEF Last
<1>6. ToSet(end) \subseteq ToSet(s)
    <2>1. DOMAIN end = 1..N
        BY <1>2
    <2>2. \A i \in 1..N : k + i - 1 \in 1..Len(s)
        BY <1>1
    <2> QED
        BY <1>1, <1>3, <2>1, <2>2 DEF ToSet
<1> QED
    BY <1>2, <1>3, <1>4, <1>5, <1>6 DEF end

\* The decision lines of a dialogue hold its decisions, and nothing else.
LEMMA AllDecisions ==
    ASSUME NEW d, IsTexts(d)
    PROVE  /\ IsTexts(DecisionLines(d)) /\ ToSet(DecisionLines(d)) \subseteq ToSet(d)
           /\ UNION {t.decisions : t \in ToSet(DecisionLines(d))} = UNION {t.decisions : t \in ToSet(d)}
<1> DEFINE X == ToSet(d)
           P == {i \in DOMAIN d : d[i].decisions # {}}
<1>1. d \in Seq(X) /\ \A x \in X : IsText(x)
    BY DEF IsTexts
<1>2. DOMAIN d = 1..Len(d)
    BY <1>1
<1>3. P \in SUBSET (1..Len(d))
    BY <1>2
<1>4. DecisionLines(d) = Select(d, P)
    BY DEF DecisionLines
<1>5. ToSet(d) = {d[i] : i \in 1..Len(d)}
    BY <1>2 DEF ToSet
<1> HIDE DEF X
<1>6. DecisionLines(d) \in Seq(X) /\ ToSet(DecisionLines(d)) = {d[i] : i \in P}
    BY <1>1, <1>3, <1>4, SelectedItems
<1>7. IsTexts(DecisionLines(d))
    BY <1>1, <1>6, TextsAre
<1>8. {d[i] : i \in P} = {t \in ToSet(d) : t.decisions # {}}
    BY <1>2, <1>5
<1> HIDE DEF P
<1> QED
    BY <1>6, <1>7, <1>8

\* A compacted dialogue: the newest line stays, personal data does not come from
\* anywhere else, and the decisions are kept when their lines fit the target.
LEMMA CompactedDialogue ==
    ASSUME NEW d, IsTexts(d), d # <<>>, NEW summary, IsText(summary), NEW target \in Nat
    PROVE  LET c == compact(d, summary, target)
           IN  /\ IsTexts(c) /\ c # <<>> /\ Last(c) = Last(d)
               /\ (~summary.pii /\ \A t \in ToSet(d) : ~t.pii) => \A t \in ToSet(c) : ~t.pii
               /\ estimate_tokens(JoinLen(DecisionLines(d))) <= target =>
                      UNION {t.decisions : t \in ToSet(d)} \subseteq UNION {t.decisions : t \in ToSet(c)}
               /\ Len(c) > 1 /\ DecisionsFrom(c, 2) \subseteq DecisionsFrom(d, Len(d) - 1)
<1> DEFINE digest == fit(DecisionLines(d), summary, target)
           k == IF Len(d) > 1 THEN Len(d) - 1 ELSE 1
           end == SubSeq(d, k, Len(d))
           c == compact(d, summary, target)
           X == ToSet(d) \cup {digest}
<1>1. d \in Seq(ToSet(d)) /\ Len(d) \in Nat \ {0} /\ \A x \in ToSet(d) : IsText(x)
    BY LastItem DEF IsTexts
<1>2. k \in 1..Len(d)
    BY <1>1
<1>3. c = <<digest>> \o end
    BY DEF compact
<1>4. IsText(digest) /\ ((~summary.pii /\ \A t \in ToSet(d) : ~t.pii) => ~digest.pii)
    BY AllDecisions, FitText
<1>5. estimate_tokens(JoinLen(DecisionLines(d))) <= target =>
          UNION {t.decisions : t \in ToSet(d)} \subseteq digest.decisions
    BY AllDecisions, FitText
<1> HIDE DEF digest, k, c
<1>6. /\ end \in Seq(ToSet(d)) /\ end # <<>> /\ Last(end) = Last(d) /\ ToSet(end) \subseteq ToSet(d)
      /\ Len(end) = Len(d) - k + 1 /\ \A i \in 1..(Len(d) - k + 1) : end[i] = d[k + i - 1]
    BY <1>1, <1>2, EndOfSeq
<1> HIDE DEF end
<1>7. end \in Seq(X) /\ digest \in X /\ Len(end) \in Nat \ {0} /\ \A x \in X : IsText(x)
    BY <1>1, <1>4, <1>6
<1> HIDE DEF X
<1>8. /\ c \in Seq(X) /\ Len(c) = Len(end) + 1 /\ c[1] = digest
      /\ \A i \in 1..Len(end) : c[i + 1] = end[i]
    BY <1>3, <1>7
<1>9. IsTexts(c) /\ c # <<>>
    BY <1>7, <1>8, TextsAre
<1>10. Last(c) = Last(end)
    BY <1>7, <1>8 DEF Last
<1>11. ToSet(c) \subseteq ToSet(d) \cup {digest} /\ digest \in ToSet(c)
    <2>1. DOMAIN c = 1..Len(c) /\ Len(c) \in Nat \ {0}
        BY <1>7, <1>8
    <2>2. digest \in ToSet(c)
        BY <1>8, <2>1 DEF ToSet
    <2> QED
        BY <1>8, <2>2, OwnItems DEF X
<1>12. digest.decisions \subseteq UNION {t.decisions : t \in ToSet(c)}
    BY <1>11
<1>13. Len(c) > 1
    BY <1>7, <1>8
<1>14. DecisionsFrom(c, 2) \subseteq DecisionsFrom(d, Len(d) - 1)
    <2>1. DOMAIN c = 1..Len(c) /\ DOMAIN d = 1..Len(d) /\ k >= Len(d) - 1
        BY <1>1, <1>7, <1>8 DEF k
    <2>2. ASSUME NEW i \in DOMAIN c, i >= 2
          PROVE  \E j \in DOMAIN d : j >= Len(d) - 1 /\ c[i] = d[j]
        <3> DEFINE j == k + (i - 1) - 1
        <3>1. i - 1 \in 1..Len(end) /\ (i - 1) + 1 = i
            BY <1>7, <1>8, <2>1, <2>2
        <3>2. c[i] = end[i - 1]
            BY <1>8, <3>1
        <3>3. end[i - 1] = d[j]
            BY <1>6, <3>1
        <3>4. j \in DOMAIN d /\ j >= Len(d) - 1
            BY <1>1, <1>2, <1>6, <2>1, <3>1
        <3> QED
            BY <3>2, <3>3, <3>4
    <2> QED
        BY <2>2 DEF DecisionsFrom
<1> QED
    BY <1>4, <1>5, <1>6, <1>9, <1>10, <1>11, <1>12, <1>13, <1>14 DEF c

\* The beginning of a sequence.
LEMMA StartOfSeq ==
    ASSUME NEW X, NEW s \in Seq(X), NEW k \in 0..Len(s)
    PROVE  LET start == SubSeq(s, 1, Len(s) - k)
           IN  start \in Seq(X) /\ ToSet(start) \subseteq ToSet(s) /\ (k = Len(s) => start = <<>>)
<1> DEFINE start == SubSeq(s, 1, Len(s) - k)
           N == Len(s) - k
<1>1. Len(s) \in Nat /\ N \in 0..Len(s) /\ DOMAIN s = 1..Len(s)
    OBVIOUS
<1>2. start \in Seq(X) /\ Len(start) = N /\ \A i \in 1..N : start[i] = s[i]
    OBVIOUS
<1> HIDE DEF start
<1>3. ToSet(start) \subseteq ToSet(s)
    <2>1. DOMAIN start = 1..N /\ \A i \in 1..N : i \in 1..Len(s)
        BY <1>1, <1>2
    <2> QED
        BY <1>1, <1>2, <2>1 DEF ToSet
<1>4. k = Len(s) => start = <<>>
    BY <1>1, <1>2
<1> QED
    BY <1>2, <1>3, <1>4 DEF start

\* An envelope with fewer memories.
LEMMA FewerMemories ==
    ASSUME NEW e, IsEnvelope(e), NEW k \in 0..Len(e.memories)
    PROVE  LET d == DropMemories(e, k)
           IN  /\ IsEnvelope(d) /\ d.goal = e.goal /\ d.dialogue = e.dialogue /\ d.notes = e.notes
               /\ Texts(d) \subseteq Texts(e) /\ (k = Len(e.memories) => d.memories = <<>>)
<1> DEFINE d == DropMemories(e, k)
           m == SubSeq(e.memories, 1, Len(e.memories) - k)
<1>1. /\ DOMAIN e = {"goal", "dialogue", "memories", "notes"} /\ IsText(e.goal)
      /\ IsTexts(e.dialogue) /\ IsTexts(e.memories) /\ IsTexts(e.notes)
    BY DEF IsEnvelope
<1>2. e.memories \in Seq(ToSet(e.memories)) /\ \A t \in ToSet(e.memories) : IsText(t)
    BY <1>1 DEF IsTexts
<1>3. /\ m \in Seq(ToSet(e.memories)) /\ ToSet(m) \subseteq ToSet(e.memories)
      /\ k = Len(e.memories) => m = <<>>
    BY <1>2, StartOfSeq
<1>4. d = [e EXCEPT !.memories = m]
    BY DEF DropMemories
<1> HIDE DEF m, d
<1>5. /\ DOMAIN d = DOMAIN e /\ d.goal = e.goal /\ d.dialogue = e.dialogue /\ d.notes = e.notes
      /\ d.memories = m
    BY <1>1, <1>4
<1>6. IsTexts(m)
    BY <1>2, <1>3, TextsAre
<1>7. IsEnvelope(d)
    BY <1>1, <1>5, <1>6 DEF IsEnvelope
<1>8. Texts(d) \subseteq Texts(e)
    BY <1>3, <1>5 DEF Texts
<1> QED
    BY <1>3, <1>5, <1>7, <1>8 DEF d

\* An envelope with less dialogue, the newest line included.
LEMMA LessDialogue ==
    ASSUME NEW e, IsEnvelope(e), e.dialogue # <<>>, NEW k \in 0..(Len(e.dialogue) - 1)
    PROVE  LET d == DropDialogue(e, k)
           IN  /\ IsEnvelope(d) /\ d.goal = e.goal /\ d.memories = e.memories /\ d.notes = e.notes
               /\ Texts(d) \subseteq Texts(e) /\ d.dialogue # <<>> /\ Last(d.dialogue) = Last(e.dialogue)
               /\ Len(d.dialogue) = Len(e.dialogue) - k /\ (k = 0 => d.dialogue = e.dialogue)
               /\ k # 0 => DecisionsIn(d) \subseteq DecisionsFrom(e.dialogue, 2)
<1> DEFINE d == DropDialogue(e, k)
           s == e.dialogue
           m == SubSeq(s, k + 1, Len(s))
<1>1. /\ DOMAIN e = {"goal", "dialogue", "memories", "notes"} /\ IsText(e.goal)
      /\ IsTexts(s) /\ IsTexts(e.memories) /\ IsTexts(e.notes)
    BY DEF IsEnvelope
<1>2. s \in Seq(ToSet(s)) /\ Len(s) \in Nat /\ \A t \in ToSet(s) : IsText(t)
    BY <1>1 DEF IsTexts
<1>3. k + 1 \in 1..Len(s)
    BY <1>2
<1>4. /\ m \in Seq(ToSet(s)) /\ Len(m) = Len(s) - (k + 1) + 1 /\ m # <<>> /\ Last(m) = Last(s)
      /\ ToSet(m) \subseteq ToSet(s) /\ \A i \in 1..(Len(s) - (k + 1) + 1) : m[i] = s[k + 1 + i - 1]
    BY <1>2, <1>3, EndOfSeq
<1>5. d = [e EXCEPT !.dialogue = m]
    BY DEF DropDialogue
<1> HIDE DEF m, d
<1>6. /\ DOMAIN d = DOMAIN e /\ d.goal = e.goal /\ d.dialogue = m /\ d.notes = e.notes
      /\ d.memories = e.memories
    BY <1>1, <1>5
<1>7. IsTexts(m)
    BY <1>2, <1>4, TextsAre
<1>8. IsEnvelope(d)
    BY <1>1, <1>6, <1>7 DEF IsEnvelope
<1>9. Texts(d) \subseteq Texts(e)
    BY <1>4, <1>6 DEF Texts
<1>10. Len(m) = Len(s) - k
    BY <1>2, <1>3, <1>4
<1>11. ASSUME k = 0 PROVE m = s
    <2>1. \A i \in 1..Len(s) : m[i] = s[i]
        BY <1>2, <1>4, <1>11
    <2>2. Len(m) = Len(s)
        BY <1>2, <1>10, <1>11
    <2>3. m = [i \in 1..Len(s) |-> m[i]] /\ s = [i \in 1..Len(s) |-> s[i]]
        <3>1. m \in Seq(ToSet(s)) /\ s \in Seq(ToSet(s))
            BY <1>2, <1>4
        <3> HIDE DEF s
        <3> QED
            BY <2>2, <3>1
    <2> QED
        BY <2>1, <2>3
<1>12. ASSUME k # 0 PROVE DecisionsIn(d) \subseteq DecisionsFrom(s, 2)
    <2>1. DOMAIN m = 1..Len(m) /\ DOMAIN s = 1..Len(s)
        BY <1>2, <1>4
    <2>2. ASSUME NEW t \in ToSet(m) PROVE \E j \in DOMAIN s : j >= 2 /\ t = s[j]
        <3>1. PICK i \in 1..Len(m) : t = m[i]
            BY <2>1, <2>2 DEF ToSet
        <3>2. i \in 1..(Len(s) - (k + 1) + 1) /\ t = s[k + 1 + i - 1]
            BY <1>4, <3>1
        <3>3. k + 1 + i - 1 \in DOMAIN s /\ k + 1 + i - 1 >= 2
            BY <1>2, <1>3, <1>12, <2>1, <3>2
        <3> QED
            BY <3>2, <3>3
    <2> QED
        BY <1>6, <2>2 DEF DecisionsIn, DecisionsFrom
<1> QED
    BY <1>4, <1>6, <1>8, <1>9, <1>10, <1>11, <1>12 DEF d

\* The fewest drops that are enough, when some are.
LEMMA FewestDrops ==
    ASSUME NEW limit \in Nat, NEW enough \in SUBSET (0..limit)
    PROVE  /\ Fewest(enough, limit) \in 0..limit
           /\ Fewest(enough, limit) \in enough \/ (enough = {} /\ Fewest(enough, limit) = limit)
           /\ 0 \in enough => Fewest(enough, limit) = 0
<1>1. CASE enough = {}
    BY <1>1 DEF Fewest
<1>2. CASE enough # {}
    <2>1. \E x \in enough : \A y \in enough : x <= y
        <3>1. enough \in SUBSET Nat
            OBVIOUS
        <3>2. PICK x \in enough : \A y \in enough : ~(<<y, x>> \in OpToRel(<, Nat))
            BY <1>2, <3>1, NatLessThanWellFounded, WFMin
        <3>3. \A y \in enough : ~(y < x)
            BY <3>1, <3>2 DEF OpToRel
        <3> QED
            BY <3>1, <3>3
    <2>2. Min(enough) \in enough /\ \A y \in enough : Min(enough) <= y
        BY <2>1 DEF Min
    <2>3. Fewest(enough, limit) = Min(enough)
        BY <1>2 DEF Fewest
    <2>4. 0 \in enough => Min(enough) = 0
        <3>1. \A x \in 0..limit : x <= 0 => x = 0
            OBVIOUS
        <3> QED
            BY <2>2, <3>1
    <2> QED
        BY <1>2, <2>2, <2>3, <2>4
<1> QED
    BY <1>1, <1>2

\* An envelope without the memories it has no room for.
LEMMA LeanEnvelope ==
    ASSUME NEW e, IsEnvelope(e), NEW max \in Nat
    PROVE  LET lean == Lean(e, max)
           IN  /\ IsEnvelope(lean) /\ lean.goal = e.goal /\ lean.dialogue = e.dialogue
               /\ lean.notes = e.notes /\ Texts(lean) \subseteq Texts(e)
               /\ count(lean) <= max \/ lean.memories = <<>>
<1> DEFINE limit == Len(e.memories)
           enough == {k \in 0..limit : count(DropMemories(e, k)) <= max}
           k == Fewest(enough, limit)
<1>1. limit \in Nat
    BY DEF IsEnvelope, IsTexts
<1>2. Lean(e, max) = DropMemories(e, k)
    BY DEF Lean
<1>3. enough \in SUBSET (0..limit)
    OBVIOUS
<1> HIDE DEF enough
<1>4. k \in 0..limit /\ (k \in enough \/ (enough = {} /\ k = limit))
    BY <1>1, <1>3, FewestDrops
<1> HIDE DEF k
<1>5. k \in enough => count(Lean(e, max)) <= max
    BY <1>2 DEF enough
<1> QED
    BY <1>2, <1>4, <1>5, FewerMemories

\* An envelope without the older dialogue it has no room for.
LEMMA ShortEnvelope ==
    ASSUME NEW e, IsEnvelope(e), NEW max \in Nat
    PROVE  LET short == Short(e, max)
           IN  /\ IsEnvelope(short) /\ short.goal = e.goal /\ short.memories = e.memories
               /\ short.notes = e.notes /\ Texts(short) \subseteq Texts(e)
               /\ e.dialogue # <<>> => /\ short.dialogue # <<>> /\ Last(short.dialogue) = Last(e.dialogue)
                                       /\ count(short) <= max \/ Len(short.dialogue) = 1
               /\ count(e) <= max => short.dialogue = e.dialogue /\ count(short) <= max
               /\ ~(count(e) <= max) /\ Len(e.dialogue) > 1 =>
                      DecisionsIn(short) \subseteq DecisionsFrom(e.dialogue, 2)
<1>1. CASE e.dialogue = <<>>
    BY <1>1 DEF Short
<1>2. CASE e.dialogue # <<>>
    <2> DEFINE limit == Len(e.dialogue) - 1
               enough == {k \in 0..limit : count(DropDialogue(e, k)) <= max}
               k == Fewest(enough, limit)
    <2>1. e.dialogue \in Seq(ToSet(e.dialogue)) /\ DOMAIN e = {"goal", "dialogue", "memories", "notes"}
        BY DEF IsEnvelope, IsTexts
    <2>2. limit \in Nat
        BY <1>2, <2>1
    <2>3. Short(e, max) = DropDialogue(e, k)
        BY <1>2 DEF Short
    <2>4. enough \in SUBSET (0..limit) /\ 0 \in 0..limit
        BY <2>2
    <2>5. count(DropDialogue(e, 0)) = count(e) /\ DropDialogue(e, 0).dialogue = e.dialogue
        BY <1>2, <2>2, <2>4, LessDialogue DEF count
    <2>6. count(e) <= max <=> 0 \in enough
        BY <2>4, <2>5
    <2> HIDE DEF enough
    <2>7. k \in 0..limit /\ (k \in enough \/ k = limit) /\ (0 \in enough => k = 0)
        BY <2>2, <2>4, FewestDrops
    <2> HIDE DEF k
    <2>8. k \in enough => count(Short(e, max)) <= max
        BY <2>3 DEF enough
    <2>9. Len(e.dialogue) - limit = 1
        BY <2>1
    <2>10. /\ IsEnvelope(Short(e, max)) /\ Short(e, max).goal = e.goal
           /\ Short(e, max).memories = e.memories /\ Short(e, max).notes = e.notes
           /\ Texts(Short(e, max)) \subseteq Texts(e)
           /\ Short(e, max).dialogue # <<>> /\ Last(Short(e, max).dialogue) = Last(e.dialogue)
           /\ Len(Short(e, max).dialogue) = Len(e.dialogue) - k
           /\ k # 0 => DecisionsIn(Short(e, max)) \subseteq DecisionsFrom(e.dialogue, 2)
        BY <1>2, <2>3, <2>7, LessDialogue
    <2>11. ~(count(e) <= max) /\ Len(e.dialogue) > 1 => k # 0
        BY <2>6, <2>7
    <2> QED
        BY <2>3, <2>5, <2>6, <2>7, <2>8, <2>9, <2>10, <2>11
<1> QED
    BY <1>1, <1>2

\* One text.
LEMMA OneText ==
    ASSUME NEW t, IsText(t)
    PROVE  IsTexts(<<t>>) /\ ToSet(<<t>>) = {t}
<1>1. <<t>> \in Seq({t})
    OBVIOUS
<1>2. IsTexts(<<t>>)
    <2> DEFINE X == {t}
               s == <<t>>
    <2>1. s \in Seq(X) /\ \A x \in X : IsText(x)
        BY <1>1
    <2> HIDE DEF X, s
    <2>2. IsTexts(s)
        BY <2>1, TextsAre
    <2> QED
        BY <2>2 DEF s
<1>3. DOMAIN <<t>> = {1} /\ <<t>>[1] = t
    OBVIOUS
<1> QED
    BY <1>2, <1>3 DEF ToSet

\* Two texts, one after the other.
LEMMA TwoTexts ==
    ASSUME NEW t, NEW u
    PROVE  <<t>> \o <<u>> \o <<>> \o <<>> = <<t, u>>
<1> DEFINE a == <<t>> \o <<u>>
           b == <<t, u>>
<1>1. a \in Seq({t, u}) /\ Len(a) = 2 /\ a[1] = t /\ a[2] = u
    OBVIOUS
<1>2. b \in Seq({t, u}) /\ Len(b) = 2 /\ b[1] = t /\ b[2] = u
    OBVIOUS
<1>3. a \o <<>> = a
    BY <1>1
<1> HIDE DEF a, b
<1>4. a = [i \in 1..2 |-> a[i]] /\ b = [i \in 1..2 |-> b[i]]
    BY <1>1, <1>2
<1>5. \A i \in 1..2 : a[i] = b[i]
    BY <1>1, <1>2
<1>6. a = b
    BY <1>4, <1>5
<1> QED
    BY <1>3, <1>6 DEF a, b

\* The last resort: goal and last line are cut to the allowed characters.
LEMMA TrimmedEnvelope ==
    ASSUME NEW e, IsEnvelope(e), NEW max \in Nat
    PROVE  LET trim == HardTrim(e, max)
           IN  /\ trim.notes = e.notes /\ trim.memories = e.memories
               /\ (\A t \in Texts(e) : ~t.pii) => \A t \in Texts(trim) : ~t.pii
               /\ e.memories = <<>> /\ e.notes = <<>> => count(trim) <= max
               /\ DecisionsIn(trim) \subseteq DecisionsIn(e)
<1> DEFINE allowed == max * CharsPerToken
           goal == Cut(<<e.goal>>, allowed)
           remaining == IF allowed > goal.len + 1 THEN allowed - goal.len - 1 ELSE 0
           line == Cut(<<Last(e.dialogue)>>, remaining)
           d == IF e.dialogue # <<>> /\ remaining > 0 THEN <<line>> ELSE <<>>
           trim == HardTrim(e, max)
<1>1. /\ DOMAIN e = {"goal", "dialogue", "memories", "notes"} /\ IsText(e.goal)
      /\ IsTexts(e.dialogue)
    BY DEF IsEnvelope
<1>2. allowed \in Nat /\ allowed = 4 * max
    BY DEF CharsPerToken
<1>3. trim = [e EXCEPT !.goal = goal, !.dialogue = d]
    BY <1>1 DEF HardTrim
<1> HIDE DEF allowed
<1>4. IsText(goal) /\ goal.len <= allowed /\ (~e.goal.pii => ~goal.pii)
    BY <1>1, <1>2, OneText, CutText
<1> HIDE DEF goal
<1>5. goal.len \in Nat /\ remaining \in Nat /\ (remaining > 0 => goal.len + 1 + remaining = allowed)
    <2>1. goal.len \in Nat
        BY <1>4 DEF IsText
    <2> QED
        BY <1>2, <2>1
<1> HIDE DEF remaining
<1>6. e.dialogue # <<>> => /\ IsText(Last(e.dialogue)) /\ Last(e.dialogue) \in ToSet(e.dialogue)
                           /\ IsText(line) /\ line.len <= remaining
                           /\ (~Last(e.dialogue).pii => ~line.pii)
                           /\ line.decisions \subseteq Last(e.dialogue).decisions
    <2>1. e.dialogue # <<>> => Last(e.dialogue) \in ToSet(e.dialogue)
        BY <1>1, LastItem DEF IsTexts
    <2>2. e.dialogue # <<>> => IsText(Last(e.dialogue))
        BY <1>1, <2>1 DEF IsTexts
    <2> QED
        BY <1>5, <2>1, <2>2, OneText, CutText
<1> HIDE DEF line
<1>7. d = <<>> \/ (d = <<line>> /\ e.dialogue # <<>> /\ remaining > 0)
    OBVIOUS
<1> HIDE DEF d, trim
<1>8. trim.goal = goal /\ trim.dialogue = d /\ trim.memories = e.memories /\ trim.notes = e.notes
    BY <1>1, <1>3
<1>9. ASSUME \A t \in Texts(e) : ~t.pii PROVE \A t \in Texts(trim) : ~t.pii
    <2>1. ~goal.pii
        BY <1>4, <1>9 DEF Texts
    <2>2. \A t \in ToSet(d) : ~t.pii
        <3>1. CASE d = <<>>
            BY <3>1 DEF ToSet
        <3>2. CASE d # <<>>
            <4>1. ToSet(d) = {line} /\ e.dialogue # <<>>
                BY <1>6, <1>7, <3>2, OneText
            <4> QED
                BY <1>6, <1>9, <4>1 DEF Texts
        <3> QED
            BY <3>1, <3>2
    <2> QED
        BY <1>8, <1>9, <2>1, <2>2 DEF Texts
<1>10. ASSUME e.memories = <<>>, e.notes = <<>> PROVE count(trim) <= max
    <2> DEFINE s == <<trim.goal>> \o trim.dialogue \o trim.memories \o trim.notes
               n == JoinLen(Lines(s))
    <2>1. n \in 0..(4 * max)
        <3>1. CASE d = <<>>
            <4>1. s = <<goal>>
                BY <1>8, <1>10, <3>1
            <4>2. n \in 0..goal.len
                BY <1>4, <4>1, LinesOfFew
            <4> HIDE DEF n
            <4> QED
                BY <1>2, <1>4, <1>5, <4>2
        <3>2. CASE d # <<>>
            <4>1. d = <<line>> /\ IsText(line) /\ line.len <= remaining /\ remaining > 0
                BY <1>6, <1>7, <3>2
            <4>2. s = <<goal, line>>
                <5>1. s = <<goal>> \o <<line>> \o <<>> \o <<>>
                    BY <1>8, <1>10, <4>1
                <5> QED
                    BY <5>1, TwoTexts
            <4>3. n \in 0..(goal.len + 1 + line.len)
                BY <1>4, <4>1, <4>2, LinesOfFew
            <4>4. line.len \in Nat
                BY <4>1 DEF IsText
            <4> HIDE DEF n
            <4> QED
                BY <1>2, <1>5, <4>1, <4>3, <4>4
        <3> QED
            BY <3>1, <3>2
    <2>2. count(trim) = n \div 4
        BY DEF count, estimate_tokens, CharsPerToken
    <2> HIDE DEF n
    <2> QED
        BY <2>1, <2>2
<1>11. DecisionsIn(trim) \subseteq DecisionsIn(e)
    <2>1. CASE d = <<>>
        <3>1. ToSet(d) = {}
            BY <2>1 DEF ToSet
        <3> QED
            BY <1>8, <3>1 DEF DecisionsIn
    <2>2. CASE d # <<>>
        <3>1. ToSet(d) = {line} /\ e.dialogue # <<>>
            BY <1>6, <1>7, <2>2, OneText
        <3> QED
            BY <1>6, <1>8, <3>1 DEF DecisionsIn
    <2> QED
        BY <2>1, <2>2
<1> QED
    BY <1>8, <1>9, <1>10, <1>11 DEF trim

\* A count is a number.
LEMMA CountIsNat ==
    ASSUME NEW e, IsEnvelope(e)
    PROVE  count(e) \in Nat
<1> DEFINE X == Texts(e)
           s == <<e.goal>> \o e.dialogue \o e.memories \o e.notes
           P == {i \in DOMAIN s : s[i].len > 0}
<1>1. /\ IsText(e.goal) /\ IsTexts(e.dialogue) /\ IsTexts(e.memories) /\ IsTexts(e.notes)
    BY DEF IsEnvelope
<1>2. <<e.goal>> \in Seq(X) /\ e.dialogue \in Seq(X) /\ e.memories \in Seq(X) /\ e.notes \in Seq(X)
    BY <1>1 DEF IsTexts, Texts
<1>3. \A x \in X : IsText(x)
    BY <1>1 DEF IsTexts, Texts
<1> HIDE DEF X
<1>4. s \in Seq(X)
    BY <1>2
<1>5. Lines(s) = Select(s, P)
    BY DEF Lines
<1> HIDE DEF s
<1>6. P \in SUBSET (1..Len(s))
    BY <1>4
<1> HIDE DEF P
<1>7. IsTexts(Select(s, P))
    BY <1>3, <1>4, <1>6, SelectedItems, TextsAre
<1>8. JoinLen(Lines(s)) \in Nat
    BY <1>5, <1>7, JoinedIsNat
<1>9. count(e) = JoinLen(Lines(s)) \div 4
    BY DEF count, estimate_tokens, CharsPerToken, s
<1> QED
    BY <1>8, <1>9

\* The count of a goal and a single line.
LEMMA CountOfTwo ==
    ASSUME NEW e, IsEnvelope(e), Len(e.dialogue) = 1, e.memories = <<>>, e.notes = <<>>
    PROVE  count(e) <= estimate_tokens(JoinLen(<<e.goal, Last(e.dialogue)>>))
<1> DEFINE l == Last(e.dialogue)
           n == JoinLen(Lines(<<e.goal, l>>))
           m == JoinLen(<<e.goal, l>>)
<1>1. IsText(e.goal) /\ IsTexts(e.dialogue)
    BY DEF IsEnvelope
<1>2. e.dialogue = <<l>> /\ l \in ToSet(e.dialogue)
    <2>1. e.dialogue \in Seq(ToSet(e.dialogue)) /\ e.dialogue # <<>>
        <3>1. Len(<<>>) = 0
            OBVIOUS
        <3>2. e.dialogue # <<>>
            BY <3>1
        <3> QED
            BY <1>1, <3>2 DEF IsTexts
    <2>2. Last(e.dialogue) = e.dialogue[1] /\ Last(e.dialogue) \in ToSet(e.dialogue)
        BY <2>1, LastItem
    <2> HIDE DEF l
    <2>3. e.dialogue = [i \in 1..1 |-> e.dialogue[i]]
        BY <2>1
    <2>4. e.dialogue = <<e.dialogue[1]>>
        BY <2>3
    <2> QED
        BY <2>2, <2>4 DEF l
<1>3. IsText(l)
    BY <1>1, <1>2 DEF IsTexts
<1> HIDE DEF l
<1>4. <<e.goal>> \o e.dialogue \o e.memories \o e.notes = <<e.goal, l>>
    BY <1>2, TwoTexts
<1>5. count(e) = n \div 4 /\ estimate_tokens(m) = m \div 4
    BY <1>4 DEF count, estimate_tokens, CharsPerToken
<1>6. n \in 0..(e.goal.len + 1 + l.len) /\ m = e.goal.len + 1 + l.len
    BY <1>1, <1>3, LinesOfFew, FewJoined
<1>7. e.goal.len \in Nat /\ l.len \in Nat
    BY <1>1, <1>3 DEF IsText
<1> HIDE DEF n, m
<1>8. n \div 4 <= m \div 4
    BY <1>6, <1>7
<1> QED
    BY <1>5, <1>8 DEF l, m

\* A fitted envelope: within the budget, but for the notes of the data pointers; the
\* dialogue is whole if it fits once memories are dropped, and loses its first line if it
\* does not; the newest line is kept when it fits with the goal alone.
LEMMA FittedEnvelope ==
    ASSUME NEW e, IsEnvelope(e), e.dialogue # <<>>, NEW max \in Nat
    PROVE  LET f == fit_envelope(e, max)
           IN  /\ f.notes = e.notes
               /\ (\A t \in Texts(e) : ~t.pii) => \A t \in Texts(f) : ~t.pii
               /\ e.notes = <<>> => count(f) <= max
               /\ count(Lean(e, max)) <= max => f.dialogue = e.dialogue
               /\ ~(count(Lean(e, max)) <= max) /\ Len(e.dialogue) > 1 =>
                      DecisionsIn(f) \subseteq DecisionsFrom(e.dialogue, 2)
               /\ (/\ e.notes = <<>>
                   /\ estimate_tokens(JoinLen(<<e.goal, Last(e.dialogue)>>)) <= max) =>
                      Last(e.dialogue) \in ToSet(f.dialogue)
<1> DEFINE lean == Lean(e, max)
           short == Short(lean, max)
           f == fit_envelope(e, max)
           two == estimate_tokens(JoinLen(<<e.goal, Last(e.dialogue)>>))
<1>1. f = IF count(short) > max THEN HardTrim(short, max) ELSE short
    BY DEF fit_envelope
<1>2. /\ IsEnvelope(lean) /\ lean.goal = e.goal /\ lean.dialogue = e.dialogue
      /\ lean.notes = e.notes /\ Texts(lean) \subseteq Texts(e)
      /\ count(lean) <= max \/ lean.memories = <<>>
    BY LeanEnvelope
<1> HIDE DEF lean
<1>3. /\ IsEnvelope(short) /\ short.goal = lean.goal /\ short.memories = lean.memories
      /\ short.notes = lean.notes /\ Texts(short) \subseteq Texts(lean)
      /\ short.dialogue # <<>> /\ Last(short.dialogue) = Last(lean.dialogue)
      /\ count(short) <= max \/ Len(short.dialogue) = 1
      /\ count(lean) <= max => short.dialogue = lean.dialogue /\ count(short) <= max
      /\ ~(count(lean) <= max) /\ Len(lean.dialogue) > 1 =>
             DecisionsIn(short) \subseteq DecisionsFrom(lean.dialogue, 2)
    BY <1>2, ShortEnvelope
<1> HIDE DEF short, f
<1>4. count(short) \in Nat
    BY <1>3, CountIsNat
<1>5. count(short) <= max \/ (short.memories = <<>> /\ Len(short.dialogue) = 1)
    BY <1>2, <1>3
<1>6. CASE count(short) <= max
    <2>1. f = short
        BY <1>1, <1>4, <1>6
    <2>2. Last(e.dialogue) \in ToSet(f.dialogue)
        <3>1. IsTexts(short.dialogue)
            BY <1>3 DEF IsEnvelope
        <3>2. Last(short.dialogue) \in ToSet(short.dialogue)
            BY <1>3, <3>1, LastItem DEF IsTexts
        <3> QED
            BY <1>2, <1>3, <2>1, <3>2
    <2> QED
        BY <1>2, <1>3, <1>6, <2>1, <2>2 DEF f, lean
<1>7. CASE ~(count(short) <= max)
    <2>1. f = HardTrim(short, max)
        BY <1>1, <1>4, <1>7
    <2>2. /\ f.notes = short.notes
          /\ (\A t \in Texts(short) : ~t.pii) => \A t \in Texts(f) : ~t.pii
          /\ short.notes = <<>> => count(f) <= max
          /\ DecisionsIn(f) \subseteq DecisionsIn(short)
        BY <1>3, <1>5, <1>7, <2>1, TrimmedEnvelope
    <2>3. ~(count(lean) <= max)
        BY <1>3, <1>7
    <2>4. ~(e.notes = <<>> /\ two <= max)
        <3> SUFFICES ASSUME e.notes = <<>> PROVE ~(two <= max)
            OBVIOUS
        <3>1. Len(short.dialogue) = 1 /\ short.memories = <<>> /\ short.notes = <<>>
            BY <1>2, <1>3, <1>5, <1>7
        <3>2. count(short) <= estimate_tokens(JoinLen(<<short.goal, Last(short.dialogue)>>))
            BY <1>3, <3>1, CountOfTwo
        <3>3. short.goal = e.goal /\ Last(short.dialogue) = Last(e.dialogue)
            BY <1>2, <1>3
        <3>4. count(short) <= two
            BY <3>2, <3>3
        <3>5. two \in Nat
            <4>1. IsText(e.goal) /\ IsTexts(e.dialogue)
                BY DEF IsEnvelope
            <4>2. IsText(Last(e.dialogue))
                BY <4>1, LastItem DEF IsTexts
            <4>3. e.goal.len \in Nat /\ Last(e.dialogue).len \in Nat
                BY <4>1, <4>2 DEF IsText
            <4>4. JoinLen(<<e.goal, Last(e.dialogue)>>) = e.goal.len + 1 + Last(e.dialogue).len
                BY <4>1, <4>2, FewJoined
            <4> HIDE DEF Last
            <4> QED
                BY <4>3, <4>4 DEF estimate_tokens, CharsPerToken
        <3> HIDE DEF two
        <3> QED
            BY <1>4, <1>7, <3>4, <3>5
    <2> QED
        BY <1>2, <1>3, <2>2, <2>3, <2>4 DEF f, lean
<1> QED
    BY <1>6, <1>7

\* Dialogues that differ in their personal data only have the same decisions, in lines
\* of the same lengths.
LEMMA SameDecisions ==
    ASSUME NEW s, IsTexts(s), NEW r, IsTexts(r), Alike(s, r),
           \A i \in 1..Len(s) : r[i].decisions = s[i].decisions
    PROVE  /\ JoinLen(DecisionLines(s)) = JoinLen(DecisionLines(r))
           /\ UNION {t.decisions : t \in ToSet(s)} = UNION {t.decisions : t \in ToSet(r)}
           /\ \A k : DecisionsFrom(s, k) = DecisionsFrom(r, k)
<1> DEFINE X == ToSet(s) \cup ToSet(r)
           P == {i \in DOMAIN s : s[i].decisions # {}}
           Q == {i \in DOMAIN r : r[i].decisions # {}}
<1>1. s \in Seq(X) /\ r \in Seq(X)
    <2>1. s \in Seq(ToSet(s)) /\ r \in Seq(ToSet(r))
        BY DEF IsTexts
    <2> QED
        BY <2>1
<1>2. DOMAIN s = 1..Len(s) /\ DOMAIN r = 1..Len(s)
    <2>1. Len(r) = Len(s)
        BY DEF Alike
    <2> QED
        BY <2>1, TextAt
<1>3. P = Q
    BY <1>2
<1>4. DecisionLines(s) = Select(s, P) /\ DecisionLines(r) = Select(r, P)
    BY <1>3 DEF DecisionLines
<1> HIDE DEF X, P, Q
<1>5. JoinLen(Select(s, P)) = JoinLen(Select(r, P))
    BY <1>1, SelectedAlike, JoinedAlike
<1>6. UNION {t.decisions : t \in ToSet(s)} = UNION {t.decisions : t \in ToSet(r)}
    <2>1. ToSet(s) = {s[i] : i \in 1..Len(s)} /\ ToSet(r) = {r[i] : i \in 1..Len(s)}
        BY <1>2 DEF ToSet
    <2>2. {t.decisions : t \in ToSet(s)} = {t.decisions : t \in ToSet(r)}
        BY <2>1
    <2> QED
        BY <2>2
<1>7. ASSUME NEW k PROVE DecisionsFrom(s, k) = DecisionsFrom(r, k)
    BY <1>2 DEF DecisionsFrom
<1> QED
    BY <1>4, <1>5, <1>6, <1>7

\* What ContextBuilder.build makes of an envelope.
LEMMA BuiltEnvelope ==
    ASSUME NEW e, IsEnvelope(e), e.dialogue # <<>>, NEW flagged \in BOOLEAN, NEW compactor,
           NEW summary, IsText(summary), NEW max \in Nat
    PROVE  LET f == build(e, flagged, compactor, summary, max)
               com == [redact(e, flagged) EXCEPT !.dialogue = compact(@, summary, max)]
           IN  /\ f.notes = <<>> => count(f) <= max
               /\ flagged /\ ~summary.pii => \A t \in Texts(f) : ~t.pii
               /\ (/\ compactor /\ count(e) > max /\ count(Lean(com, max)) <= max
                   /\ estimate_tokens(JoinLen(DecisionLines(e.dialogue))) <= max) =>
                      DecisionsIn(e) \subseteq DecisionsIn(f)
               /\ compactor /\ count(e) > max /\ ~(count(Lean(com, max)) <= max) =>
                      DecisionsIn(f) \subseteq DecisionsFrom(e.dialogue, Len(e.dialogue) - 1)
               /\ (/\ f.notes = <<>>
                   /\ estimate_tokens(JoinLen(<<e.goal, Last(e.dialogue)>>)) <= max) =>
                      Last(e.dialogue).decisions \subseteq DecisionsIn(f)
<1> DEFINE red == redact(e, flagged)
           dig == compact(red.dialogue, summary, max)
           over == compactor /\ count(red) > max
           mid == IF over THEN [red EXCEPT !.dialogue = dig] ELSE red
           com == [red EXCEPT !.dialogue = compact(@, summary, max)]
           f == build(e, flagged, compactor, summary, max)
<1>1. f = fit_envelope(mid, max)
    BY DEF build
<1>2. /\ IsEnvelope(red) /\ count(red) = count(e) /\ red.goal.len = e.goal.len
      /\ flagged => \A t \in Texts(red) : ~t.pii
      /\ Len(red.dialogue) = Len(e.dialogue) /\ Alike(e.dialogue, red.dialogue)
      /\ \A i \in 1..Len(e.dialogue) : red.dialogue[i].decisions = e.dialogue[i].decisions
    BY Redacted
<1> HIDE DEF red
<1>3. /\ DOMAIN red = {"goal", "dialogue", "memories", "notes"} /\ IsText(red.goal)
      /\ IsTexts(red.dialogue) /\ IsTexts(red.memories) /\ IsTexts(red.notes)
    BY <1>2 DEF IsEnvelope
<1>4. IsText(e.goal) /\ IsTexts(e.dialogue)
    BY DEF IsEnvelope
<1>5. red.dialogue # <<>> /\ Len(e.dialogue) \in Nat \ {0}
    <2>1. Len(e.dialogue) \in Nat \ {0} /\ Len(<<>>) = 0
        BY <1>4, LastItem DEF IsTexts
    <2>2. red.dialogue # <<>>
        BY <1>2, <2>1
    <2> QED
        BY <2>1, <2>2
<1>6. /\ IsTexts(dig) /\ dig # <<>> /\ Last(dig) = Last(red.dialogue)
      /\ (~summary.pii /\ \A t \in ToSet(red.dialogue) : ~t.pii) => \A t \in ToSet(dig) : ~t.pii
      /\ estimate_tokens(JoinLen(DecisionLines(red.dialogue))) <= max =>
            UNION {t.decisions : t \in ToSet(red.dialogue)} \subseteq UNION {t.decisions : t \in ToSet(dig)}
      /\ Len(dig) > 1 /\ DecisionsFrom(dig, 2) \subseteq DecisionsFrom(red.dialogue, Len(red.dialogue) - 1)
    BY <1>3, <1>5, CompactedDialogue
<1>7. over => mid = com
    OBVIOUS
<1> HIDE DEF dig, com, f
<1>8. /\ DOMAIN mid = DOMAIN red /\ mid.goal = red.goal /\ mid.memories = red.memories
      /\ mid.notes = red.notes /\ mid.dialogue = IF over THEN dig ELSE red.dialogue
    BY <1>3
<1> HIDE DEF mid, over
<1>9. IsEnvelope(mid) /\ mid.dialogue # <<>> /\ Last(mid.dialogue) = Last(red.dialogue)
    <2>1. IsTexts(mid.dialogue) /\ mid.dialogue # <<>> /\ Last(mid.dialogue) = Last(red.dialogue)
        BY <1>3, <1>5, <1>6, <1>8
    <2> QED
        BY <1>3, <1>8, <2>1 DEF IsEnvelope
<1>10. /\ f.notes = mid.notes
       /\ (\A t \in Texts(mid) : ~t.pii) => \A t \in Texts(f) : ~t.pii
       /\ mid.notes = <<>> => count(f) <= max
       /\ count(Lean(mid, max)) <= max => f.dialogue = mid.dialogue
       /\ ~(count(Lean(mid, max)) <= max) /\ Len(mid.dialogue) > 1 =>
              DecisionsIn(f) \subseteq DecisionsFrom(mid.dialogue, 2)
       /\ (/\ mid.notes = <<>>
           /\ estimate_tokens(JoinLen(<<mid.goal, Last(mid.dialogue)>>)) <= max) =>
              Last(mid.dialogue) \in ToSet(f.dialogue)
    BY <1>1, <1>9, FittedEnvelope
<1>11. f.notes = <<>> => count(f) <= max
    BY <1>10
<1>12. ASSUME flagged, ~summary.pii PROVE \A t \in Texts(f) : ~t.pii
    <2>1. \A t \in Texts(mid) : ~t.pii
        BY <1>2, <1>6, <1>8, <1>12 DEF Texts
    <2> QED
        BY <1>10, <2>1
<1>13. /\ JoinLen(DecisionLines(e.dialogue)) = JoinLen(DecisionLines(red.dialogue))
       /\ DecisionsIn(e) = UNION {t.decisions : t \in ToSet(red.dialogue)}
       /\ \A k : DecisionsFrom(e.dialogue, k) = DecisionsFrom(red.dialogue, k)
    BY <1>2, <1>3, <1>4, SameDecisions DEF DecisionsIn
<1>14. ASSUME compactor, count(e) > max PROVE mid = com /\ mid.dialogue = dig
    BY <1>2, <1>7, <1>8, <1>14 DEF over
<1>15. ASSUME compactor, count(e) > max, count(Lean(com, max)) <= max,
              estimate_tokens(JoinLen(DecisionLines(e.dialogue))) <= max
       PROVE  DecisionsIn(e) \subseteq DecisionsIn(f)
    <2>1. f.dialogue = dig
        BY <1>10, <1>14, <1>15
    <2>2. UNION {t.decisions : t \in ToSet(red.dialogue)} \subseteq UNION {t.decisions : t \in ToSet(dig)}
        BY <1>6, <1>13, <1>15
    <2> QED
        BY <1>13, <2>1, <2>2 DEF DecisionsIn
<1>16. ASSUME compactor, count(e) > max, ~(count(Lean(com, max)) <= max)
       PROVE  DecisionsIn(f) \subseteq DecisionsFrom(e.dialogue, Len(e.dialogue) - 1)
    <2>1. DecisionsIn(f) \subseteq DecisionsFrom(dig, 2)
        BY <1>6, <1>10, <1>14, <1>16
    <2> QED
        BY <1>2, <1>6, <1>13, <2>1
<1>17. ASSUME f.notes = <<>>, estimate_tokens(JoinLen(<<e.goal, Last(e.dialogue)>>)) <= max
       PROVE  Last(e.dialogue).decisions \subseteq DecisionsIn(f)
    <2>1. /\ Last(e.dialogue) = e.dialogue[Len(e.dialogue)] /\ Last(e.dialogue) \in ToSet(e.dialogue)
          /\ Last(red.dialogue) = red.dialogue[Len(e.dialogue)] /\ Last(red.dialogue) \in ToSet(red.dialogue)
        BY <1>2, <1>3, <1>4, <1>5, LastItem DEF IsTexts
    <2>2. /\ Last(red.dialogue).decisions = Last(e.dialogue).decisions
          /\ Last(red.dialogue).len = Last(e.dialogue).len
        BY <1>2, <1>5, <2>1 DEF Alike
    <2>3. IsText(Last(e.dialogue)) /\ IsText(Last(red.dialogue))
        BY <1>3, <1>4, <2>1 DEF IsTexts
    <2>4. JoinLen(<<red.goal, Last(red.dialogue)>>) = JoinLen(<<e.goal, Last(e.dialogue)>>)
        <3>1. JoinLen(<<e.goal, Last(e.dialogue)>>) = e.goal.len + 1 + Last(e.dialogue).len
            BY <1>4, <2>3, FewJoined
        <3>2. JoinLen(<<red.goal, Last(red.dialogue)>>) = red.goal.len + 1 + Last(red.dialogue).len
            BY <1>3, <2>3, FewJoined
        <3> QED
            BY <1>2, <2>2, <3>1, <3>2
    <2>5. Last(red.dialogue) \in ToSet(f.dialogue)
        BY <1>8, <1>9, <1>10, <1>17, <2>4
    <2> QED
        BY <2>2, <2>5 DEF DecisionsIn
<1> QED
    BY <1>11, <1>12, <1>15, <1>16, <1>17 DEF f, com, red

\* One source in turn: what it adds to the data, and when it ends the build.
LEMMA OneSource ==
    ASSUME NEW b, DOMAIN b = {"data", "cache", "failed"}, NEW m, m.required \in BOOLEAN, NEW answers
    PROVE  LET c == RegistryContribute(b, m, answers)
           IN  /\ DOMAIN c = {"data", "cache", "failed"}
               /\ ~c.failed =>
                     /\ ~b.failed
                     /\ DOMAIN c.data = DOMAIN b.data \cup (IF m.id \in DOMAIN c.data THEN {m.id} ELSE {})
                     /\ m.required => m.id \in DOMAIN c.data
                     /\ \A id \in DOMAIN c.data :
                           \/ id \in DOMAIN b.data /\ c.data[id] = b.data[id]
                           \/ id = m.id /\ (m.mutable => c.data[id] = answers[id])
<1> DEFINE c == RegistryContribute(b, m, answers)
           datum == IF Cached(m, b.cache) THEN b.cache[m.id] ELSE answers[m.id]
           kept == IF cacheable(m) THEN Put(b.cache, m.id, datum) ELSE b.cache
           added == Put(b.data, m.id, datum)
<1>1. CASE b.failed
    BY <1>1 DEF RegistryContribute
<1>2. CASE ~b.failed /\ ~Cached(m, b.cache) /\ answers[m.id] = Down
    <2>1. c = [b EXCEPT !.failed = m.required]
        BY <1>2 DEF RegistryContribute
    <2> HIDE DEF c
    <2>2. DOMAIN c = DOMAIN b /\ c.failed = m.required /\ c.data = b.data
        BY <2>1
    <2> QED
        BY <1>2, <2>2 DEF c
<1>3. CASE ~b.failed /\ ~(~Cached(m, b.cache) /\ answers[m.id] = Down)
    <2>1. c = [b EXCEPT !.data = added, !.cache = kept]
        BY <1>3 DEF RegistryContribute
    <2>2. m.mutable => datum = answers[m.id]
        BY DEF Cached, cacheable
    <2> HIDE DEF c, datum, kept
    <2>3. added = [x \in DOMAIN b.data \cup {m.id} |-> IF x = m.id THEN datum ELSE b.data[x]]
        BY DEF Put
    <2> HIDE DEF added
    <2>4. /\ DOMAIN added = {m.id} \cup DOMAIN b.data /\ added[m.id] = datum
          /\ \A x \in DOMAIN b.data : x # m.id => added[x] = b.data[x]
        BY <2>3
    <2>5. DOMAIN c = DOMAIN b /\ c.data = added /\ c.failed = b.failed
        BY <2>1
    <2> QED
        BY <1>3, <2>2, <2>4, <2>5 DEF c
<1> QED
    BY <1>1, <1>2, <1>3

\* The sources in turn.  A build that does not fail has every required source, nothing of
\* any other source than those, and of a mutable one what its agent answers now.
LEMMA AllSources ==
    ASSUME NEW X, \A m \in X : m.required \in BOOLEAN, NEW s \in Seq(X), NEW cached, NEW answers,
           ~Assemble(s, cached, answers).failed
    PROVE  LET data == Assemble(s, cached, answers).data
           IN  /\ \A i \in 1..Len(s) : s[i].required => s[i].id \in DOMAIN data
               /\ \A id \in DOMAIN data : \E i \in 1..Len(s) :
                     s[i].id = id /\ (s[i].mutable => data[id] = answers[id])
<1> DEFINE N == Len(s)
           f == Contributed(s, cached, answers)
           Has(n) == \A i \in 1..n : s[i].required => s[i].id \in DOMAIN f[n].data
           From(n) == \A id \in DOMAIN f[n].data : \E i \in 1..n :
                          s[i].id = id /\ (s[i].mutable => f[n].data[id] = answers[id])
           G == {n \in 0..N : /\ DOMAIN f[n] = {"data", "cache", "failed"}
                              /\ ~f[n].failed => Has(n) /\ From(n)}
<1>1. N \in Nat
    OBVIOUS
<1>2. /\ f[0] = [data |-> [id \in {} |-> 0], cache |-> cached, failed |-> FALSE]
      /\ \A n \in 1..N : f[n] = RegistryContribute(f[n - 1], s[n], answers)
    BY <1>1, SourcesInTurn
<1>3. Assemble(s, cached, answers) = f[N]
    BY DEF Assemble
<1> HIDE DEF f
<1>4. 0 \in G
    <2>1. DOMAIN f[0] = {"data", "cache", "failed"} /\ DOMAIN f[0].data = {}
        BY <1>2
    <2> QED
        BY <1>1, <2>1
<1>5. \A n \in 0..N : n \in G /\ n < N => n + 1 \in G
    <2> SUFFICES ASSUME NEW n \in 0..N, n \in G, n < N PROVE n + 1 \in G
        OBVIOUS
    <2> DEFINE m == s[n + 1]
               b == f[n]
               c == f[n + 1]
    <2>1. n \in Nat /\ n + 1 \in 1..N /\ n + 1 \in 0..N /\ n + 1 - 1 = n
        BY <1>1
    <2>2. c = RegistryContribute(b, m, answers)
        BY <1>2, <2>1
    <2>3. m \in X /\ m.required \in BOOLEAN /\ DOMAIN b = {"data", "cache", "failed"}
        BY <2>1
    <2>4. /\ DOMAIN c = {"data", "cache", "failed"}
          /\ ~c.failed =>
                /\ ~b.failed
                /\ DOMAIN c.data = DOMAIN b.data \cup (IF m.id \in DOMAIN c.data THEN {m.id} ELSE {})
                /\ m.required => m.id \in DOMAIN c.data
                /\ \A id \in DOMAIN c.data :
                      \/ id \in DOMAIN b.data /\ c.data[id] = b.data[id]
                      \/ id = m.id /\ (m.mutable => c.data[id] = answers[id])
        <3> HIDE DEF m, b, c
        <3> QED
            BY <2>2, <2>3, OneSource
    <2>5. ~b.failed => Has(n) /\ From(n)
        OBVIOUS
    <2>6. \A i \in 1..(n + 1) : i \in 1..n \/ i = n + 1
        BY <2>1
    <2>7. \A i \in 1..n : i \in 1..(n + 1)
        BY <2>1
    <2>8. n + 1 \in 1..(n + 1)
        BY <2>1
    <2> HIDE DEF m, b, c, G
    <2>9. ASSUME ~c.failed PROVE Has(n + 1)
        BY <2>4, <2>5, <2>6, <2>9 DEF m, b, c
    <2>10. ASSUME ~c.failed PROVE From(n + 1)
        BY <2>4, <2>5, <2>7, <2>8, <2>10 DEF m, b, c
    <2> HIDE DEF Has, From
    <2> QED
        BY <2>1, <2>4, <2>9, <2>10 DEF c, G
<1>6. N \in G
    <2> HIDE DEF G, N
    <2>1. \A n \in 0..N : n \in G
        BY <1>1, <1>4, <1>5, EveryPlace
    <2> QED
        BY <1>1, <2>1
<1> QED
    BY <1>3, <1>6

\* An envelope with other pointers and another semantic model.
Carrying(flags, tools, pointers, semantic) ==
    [flags |-> flags, tools |-> tools, pointers |-> pointers, semantic |-> semantic]
Recarried(env, v, w) == [env EXCEPT !.pointers = v, !.semantic = w]
LEMMA OtherEnvelope ==
    ASSUME NEW flags, NEW tools, NEW pointers, NEW semantic, NEW v, NEW w
    PROVE  Recarried(Carrying(flags, tools, pointers, semantic), v, w) = Carrying(flags, tools, v, w)
<1> DEFINE a == [flags |-> flags, tools |-> tools, pointers |-> pointers, semantic |-> semantic]
           b == [a EXCEPT !.pointers = v, !.semantic = w]
           c == [flags |-> flags, tools |-> tools, pointers |-> v, semantic |-> w]
           D == {"flags", "tools", "pointers", "semantic"}
<1>1. DOMAIN b = D /\ b.flags = flags /\ b.tools = tools /\ b.pointers = v /\ b.semantic = w
    OBVIOUS
<1>2. DOMAIN c = D /\ c.flags = flags /\ c.tools = tools /\ c.pointers = v /\ c.semantic = w
    OBVIOUS
<1>3. b = [x \in D |-> b[x]]
    BY <1>1
<1>4. c = [x \in D |-> c[x]]
    BY <1>2
<1> HIDE DEF b, c
<1>5. \A x \in D : b[x] = c[x]
    BY <1>1, <1>2
<1>6. b = c
    BY <1>3, <1>4, <1>5
<1>7. Carrying(flags, tools, v, w) = c /\ Carrying(flags, tools, pointers, semantic) = a
    BY DEF c, Carrying
<1> HIDE DEF a
<1>8. Recarried(a, v, w) = b
    BY DEF b, Recarried
<1> QED
    BY <1>6, <1>7, <1>8

\* The declarations in turn: a delegation is refused exactly when something required is
\* not there, and what is supplied is no longer carried.
LEMMA AllDeclarations ==
    ASSUME NEW flags, NEW tools, NEW pointers, NEW semantic, NEW env, NEW decls,
           decls \in Seq(ToSet(decls)),
           env = [flags |-> flags, tools |-> tools, pointers |-> pointers, semantic |-> semantic]
    PROVE  LET out == process_context_delegations(env, decls)
               supplied == UNION {d.supplies : d \in ToSet(decls)}
           IN  /\ out.refused <=> \E d \in ToSet(decls) :
                                      ~(d.requires_from_l1 \subseteq available_context_keys(env))
               /\ ~out.refused => out.env = [env EXCEPT !.pointers = @ \ supplied, !.semantic = @ \ supplied]
<1> DEFINE N == Len(decls)
           K == available_context_keys(env)
           f == Declared(env, decls)
           S(n) == UNION {decls[i].supplies : i \in 1..n}
           Lacks(n) == \E i \in 1..n : ~(decls[i].requires_from_l1 \subseteq K)
           Left(n) == [flags |-> flags, tools |-> tools,
                       pointers |-> pointers \ S(n), semantic |-> semantic \ S(n)]
           Turned(n) == [env |-> Left(n), refused |-> FALSE]
           G == {n \in 0..N : \/ Lacks(n) /\ "refused" \in DOMAIN f[n] /\ f[n].refused
                              \/ ~Lacks(n) /\ f[n] = Turned(n)}
<1>1. N \in Nat /\ DOMAIN decls = 1..N
    OBVIOUS
<1>2. /\ f[0] = [env |-> env, refused |-> FALSE]
      /\ \A n \in 1..N : f[n] = Declare(f[n - 1], decls[n], K)
    BY <1>1, DeclarationsInTurn
<1>3. process_context_delegations(env, decls) = f[N]
    BY DEF process_context_delegations
<1> HIDE DEF f, K
<1>4. 0 \in G
    <2>1. S(0) = {} /\ ~Lacks(0)
        OBVIOUS
    <2> HIDE DEF S, Lacks
    <2>2. Left(0) = env
        BY <2>1
    <2>3. Turned(0) = [env |-> env, refused |-> FALSE]
        BY <2>2
    <2>4. f[0] = Turned(0) /\ 0 \in 0..N
        BY <1>1, <1>2, <2>3
    <2> HIDE DEF Turned
    <2> QED
        BY <2>1, <2>4
<1>5. \A n \in 0..N : n \in G /\ n < N => n + 1 \in G
    <2> SUFFICES ASSUME NEW n \in 0..N, n \in G, n < N PROVE n + 1 \in G
        OBVIOUS
    <2> DEFINE d == decls[n + 1]
    <2>1. n \in Nat /\ n + 1 \in 1..N /\ n + 1 \in 0..N /\ n + 1 - 1 = n
        BY <1>1
    <2>2. f[n + 1] = Declare(f[n], d, K)
        BY <1>2, <2>1
    <2>3. 1..(n + 1) = 1..n \cup {n + 1}
        BY <2>1
    <2>4. S(n + 1) = S(n) \cup d.supplies
        BY <2>3
    <2>5. Lacks(n + 1) <=> Lacks(n) \/ ~(d.requires_from_l1 \subseteq K)
        BY <2>3
    <2> HIDE DEF S, Lacks, d
    <2>6. CASE Lacks(n)
        <3>1. "refused" \in DOMAIN f[n] /\ f[n].refused
            BY <2>6
        <3>2. f[n + 1] = [f[n] EXCEPT !.refused = TRUE]
            BY <2>2, <3>1 DEF Declare
        <3>3. "refused" \in DOMAIN f[n + 1] /\ f[n + 1].refused
            BY <3>1, <3>2
        <3> QED
            BY <2>1, <2>5, <2>6, <3>3
    <2>7. CASE ~Lacks(n) /\ Lacks(n + 1)
        <3>1. f[n] = [env |-> Left(n), refused |-> FALSE]
            BY <2>7
        <3>2. f[n + 1] = [f[n] EXCEPT !.refused = TRUE]
            BY <2>2, <2>5, <2>7 DEF Declare
        <3> HIDE DEF Left
        <3>3. "refused" \in DOMAIN f[n + 1] /\ f[n + 1].refused
            BY <3>1, <3>2
        <3> QED
            BY <2>1, <2>7, <3>3
    <2>8. CASE ~Lacks(n) /\ ~Lacks(n + 1)
        <3>1. f[n] = [env |-> Left(n), refused |-> FALSE]
            BY <2>8
        <3>2. f[n + 1] = [f[n] EXCEPT !.env.pointers = @ \ d.supplies, !.env.semantic = @ \ d.supplies]
            BY <2>2, <2>5, <2>8, <3>1 DEF Declare
        <3>3. f[n + 1] = [env |-> [Left(n) EXCEPT !.pointers = @ \ d.supplies, !.semantic = @ \ d.supplies],
                          refused |-> FALSE]
            <4> DEFINE D == {"env", "refused"}
                       b == f[n + 1]
                       c == [env |-> [Left(n) EXCEPT !.pointers = @ \ d.supplies,
                                                     !.semantic = @ \ d.supplies],
                             refused |-> FALSE]
            <4>0. Left(n).pointers = pointers \ S(n) /\ Left(n).semantic = semantic \ S(n)
                OBVIOUS
            <4> HIDE DEF Left
            <4>1. DOMAIN b = D /\ b.env = c.env /\ b.refused = FALSE
                BY <3>1, <3>2
            <4>2. DOMAIN c = D /\ c.refused = FALSE
                OBVIOUS
            <4>3. b = [x \in D |-> b[x]]
                BY <3>1, <3>2, <4>1
            <4>4. c = [x \in D |-> c[x]]
                BY <4>2
            <4> HIDE DEF b, c
            <4>5. \A x \in D : b[x] = c[x]
                BY <4>1, <4>2
            <4>6. b = c
                BY <4>3, <4>4, <4>5
            <4> QED
                BY <4>6 DEF b, c
        <3>4. [Left(n) EXCEPT !.pointers = @ \ d.supplies, !.semantic = @ \ d.supplies] = Left(n + 1)
            <4>1. /\ (pointers \ S(n)) \ d.supplies = pointers \ S(n + 1)
                  /\ (semantic \ S(n)) \ d.supplies = semantic \ S(n + 1)
                BY <2>4
            <4>2. Left(n).pointers = pointers \ S(n) /\ Left(n).semantic = semantic \ S(n)
                OBVIOUS
            <4> DEFINE v == Left(n).pointers \ d.supplies
                       w == Left(n).semantic \ d.supplies
            <4>3. v = pointers \ S(n + 1) /\ w = semantic \ S(n + 1)
                BY <4>1, <4>2
            <4> HIDE DEF v, w
            <4>4. [Left(n) EXCEPT !.pointers = v, !.semantic = w] =
                      [flags |-> flags, tools |-> tools, pointers |-> v, semantic |-> w]
                <5>1. Left(n) = Carrying(flags, tools, pointers \ S(n), semantic \ S(n))
                    BY DEF Carrying
                <5>2. Recarried(Left(n), v, w) = [Left(n) EXCEPT !.pointers = v, !.semantic = w]
                    <6> HIDE DEF Left
                    <6> QED
                        BY DEF Recarried
                <5>3. Carrying(flags, tools, v, w) = [flags |-> flags, tools |-> tools,
                                                      pointers |-> v, semantic |-> w]
                    BY DEF Carrying
                <5> HIDE DEF Left
                <5>4. Recarried(Left(n), v, w) = Carrying(flags, tools, v, w)
                    BY <5>1, OtherEnvelope
                <5> QED
                    BY <5>2, <5>3, <5>4
            <4>5. [flags |-> flags, tools |-> tools, pointers |-> v, semantic |-> w] = Left(n + 1)
                BY <4>3
            <4> HIDE DEF Left
            <4> QED
                BY <4>4, <4>5 DEF v, w
        <3> HIDE DEF Left
        <3> QED
            BY <2>1, <2>8, <3>3, <3>4
    <2> QED
        BY <2>5, <2>6, <2>7, <2>8
<1>6. N \in G
    <2> HIDE DEF G, N
    <2>1. \A n \in 0..N : n \in G
        BY <1>1, <1>4, <1>5, EveryPlace
    <2> QED
        BY <1>1, <2>1
<1>7. ToSet(decls) = {decls[i] : i \in 1..N}
    BY <1>1 DEF ToSet
<1> DEFINE supplied == UNION {d.supplies : d \in ToSet(decls)}
<1>8. S(N) = supplied /\ (Lacks(N) <=> \E d \in ToSet(decls) : ~(d.requires_from_l1 \subseteq K))
    BY <1>7
<1>9. Left(N) = [env EXCEPT !.pointers = @ \ S(N), !.semantic = @ \ S(N)]
    <2> HIDE DEF S
    <2>1. env.pointers = pointers /\ env.semantic = semantic
        OBVIOUS
    <2> DEFINE v == pointers \ S(N)
               w == semantic \ S(N)
    <2>2. Left(N) = Carrying(flags, tools, v, w) /\ env = Carrying(flags, tools, pointers, semantic)
        BY DEF Carrying
    <2> HIDE DEF v, w, Left
    <2>3. Recarried(env, v, w) = Left(N)
        BY <2>2, OtherEnvelope
    <2>4. Recarried(env, v, w) = [env EXCEPT !.pointers = v, !.semantic = w]
        BY DEF Recarried
    <2> QED
        BY <2>1, <2>3, <2>4 DEF v, w
<1> HIDE DEF S, Lacks, supplied
<1>10. f[N].refused <=> Lacks(N)
    <2> HIDE DEF Left
    <2> QED
        BY <1>6
<1>11. ~f[N].refused => f[N].env = Left(N)
    <2> HIDE DEF Left
    <2> QED
        BY <1>6
<1> HIDE DEF Left
<1> QED
    BY <1>3, <1>8, <1>9, <1>10, <1>11 DEF supplied, K

-----------------------------------------------------------------------------
(* The context of a run. *)

\* The dialogue is made of lines, and the goal is one of them once the chat has ended.
Spoken(point, s) ==
    IsTexts(s.dialogue) /\ (point \in {"intent_synthesis", "action_plan"} => s.dialogue # <<>>)

\* The planner is shown what the builder made of the envelope that the sources filled.
Shown(s) ==
    /\ IsEnvelope(s.seen) /\ s.seen.dialogue # <<>>
    /\ s.text = build(s.seen, case.flags["pii"] = 1, case.compactor, case.summary, case.max)

ContextInv ==
    /\ Spoken(pc, sc) /\ Spoken(ckpt.pc, ckpt.sc)
    /\ Built => Shown(sc)
    /\ SourcesSound

\* A longer dialogue.
LEMMA LongerDialogue ==
    ASSUME NEW a, IsTexts(a), NEW t, IsText(t), NEW r, IsTexts(r)
    PROVE  IsTexts(a \o <<t>> \o r) /\ a \o <<t>> \o r # <<>>
<1> DEFINE X == ToSet(a) \cup {t} \cup ToSet(r)
           s == a \o <<t>> \o r
<1>1. a \in Seq(X) /\ <<t>> \in Seq(X) /\ r \in Seq(X) /\ \A x \in X : IsText(x)
    <2>1. a \in Seq(ToSet(a)) /\ r \in Seq(ToSet(r))
        BY DEF IsTexts
    <2>2. \A x \in X : IsText(x)
        BY DEF IsTexts
    <2> QED
        BY <2>1, <2>2
<1> HIDE DEF X
<1>2. s \in Seq(X) /\ Len(s) = Len(a) + 1 + Len(r) /\ Len(a) \in Nat /\ Len(r) \in Nat
    BY <1>1
<1> HIDE DEF s
<1>3. s # <<>>
    BY <1>2
<1>4. IsTexts(s)
    BY <1>1, <1>2, TextsAre
<1> QED
    BY <1>3, <1>4 DEF s

\* Steps that leave what the planner is shown alone.
LEMMA ShownKept ==
    ASSUME ContextInv, UNCHANGED case, Built' => Built,
           sc'.seen = sc.seen, sc'.text = sc.text, sc'.sources = sc.sources, sc'.asOf = sc.asOf
    PROVE  (Built => Shown(sc))' /\ SourcesSound'
<1>1. Attached' = Attached
    BY DEF Attached
<1>2. Built' => Shown(sc)'
    <2> SUFFICES ASSUME Built' PROVE Shown(sc)'
        OBVIOUS
    <2>1. Shown(sc)
        BY DEF ContextInv
    <2> QED
        BY <2>1 DEF Shown
<1>3. SourcesSound'
    <2> SUFFICES ASSUME Built' PROVE SourcesSound'
        BY DEF SourcesSound
    <2>1. Built /\ SourcesSound
        BY DEF ContextInv
    <2> QED
        BY <1>1, <2>1 DEF SourcesSound
<1> QED
    BY <1>2, <1>3

\* Where nothing has been built there is nothing to show.
LEMMA NothingShown ==
    ASSUME ~Built'
    PROVE  (Built => Shown(sc))' /\ SourcesSound'
<1> HIDE DEF Built
<1> QED
    BY DEF SourcesSound

\* The sources that the builder asks, and what a build that does not fail has of them.
LEMMA SourcesOfBuild ==
    ASSUME case \in Cases, NEW cached, NEW answers, ~Assemble(Attached, cached, answers).failed
    PROVE  LET data == Assemble(Attached, cached, answers).data
           IN  \A m \in ToSet(case.registry) :
                  /\ m.required /\ m \in ToSet(Attached) => m.id \in DOMAIN data
                  /\ m.id \in DOMAIN data =>
                        /\ m.rbac_scopes \subseteq case.scopes
                        /\ m.mutable => data[m.id] = answers[m.id]
<1> DEFINE r == case.registry
           P == {i \in DOMAIN r : r[i].kind = "context_source" /\ r[i].rbac_scopes \subseteq case.scopes}
           a == Attached
           data == Assemble(a, cached, answers).data
<1>1. /\ r \in Seq(ToSet(r)) /\ \A i, j \in DOMAIN r : r[i].id = r[j].id => i = j
      /\ \A i \in DOMAIN r : r[i].required \in BOOLEAN
    BY ContextAssumption
<1>2. a = Select(r, P)
    BY DEF Attached, attach_registry_context_sources
<1> HIDE DEF r
<1>3. DOMAIN r = 1..Len(r) /\ ToSet(r) = {r[i] : i \in DOMAIN r}
    BY <1>1 DEF ToSet
<1>4. P \in SUBSET (1..Len(r)) /\ \A i \in P : r[i].rbac_scopes \subseteq case.scopes /\ i \in DOMAIN r
    BY <1>3
<1> HIDE DEF P, a, data
<1>5. a \in Seq(ToSet(r)) /\ ToSet(a) = {r[i] : i \in P}
    <2> DEFINE X == ToSet(r)
    <2>1. r \in Seq(X) /\ P \in SUBSET (1..Len(r))
        BY <1>1, <1>4
    <2> HIDE DEF X
    <2>2. Select(r, P) \in Seq(X) /\ ToSet(Select(r, P)) = {r[i] : i \in P}
        BY <2>1, SelectedItems
    <2> QED
        BY <1>2, <2>2 DEF X
<1>6. \A m \in ToSet(r) : m.required \in BOOLEAN
    BY <1>1, <1>3
<1>7. /\ \A i \in 1..Len(a) : a[i].required => a[i].id \in DOMAIN data
      /\ \A id \in DOMAIN data : \E i \in 1..Len(a) :
            a[i].id = id /\ (a[i].mutable => data[id] = answers[id])
    <2>1. ~Assemble(a, cached, answers).failed
        BY DEF a
    <2> DEFINE X == ToSet(r)
    <2>2. a \in Seq(X) /\ \A m \in X : m.required \in BOOLEAN
        BY <1>5, <1>6
    <2> HIDE DEF X
    <2> QED
        BY <2>1, <2>2, AllSources DEF data
<1>8. ToSet(a) = {a[i] : i \in 1..Len(a)}
    BY <1>5 DEF ToSet
<1>9. ASSUME NEW m \in ToSet(r), m.required, m \in ToSet(a) PROVE m.id \in DOMAIN data
    BY <1>7, <1>8, <1>9
<1>10. ASSUME NEW m \in ToSet(r), m.id \in DOMAIN data
       PROVE  m.rbac_scopes \subseteq case.scopes /\ (m.mutable => data[m.id] = answers[m.id])
    <2>1. PICK i \in 1..Len(a) : a[i].id = m.id /\ (a[i].mutable => data[m.id] = answers[m.id])
        BY <1>7, <1>10
    <2>2. PICK j \in P : a[i] = r[j]
        BY <1>5, <1>8
    <2>3. PICK k \in DOMAIN r : m = r[k]
        BY <1>3
    <2>4. m = a[i]
        BY <1>1, <1>4, <2>1, <2>2, <2>3
    <2> QED
        BY <1>4, <2>1, <2>2, <2>4
<1> QED
    BY <1>9, <1>10 DEF r, a, data

\* The stages before the plan.
LEMMA ContextOfFirstStages ==
    ASSUME GovernanceInv, ContextInv, ChatStage \/ IntentStage
    PROVE  ContextInv'
<1>1. Frame(sc) /\ case \in Cases
    BY DEF GovernanceInv, Governing
<1>2. "dialogue" \in DOMAIN sc /\ "intent" \in DOMAIN sc
    BY <1>1 DEF Frame
<1>3. Spoken(pc, sc)
    BY DEF ContextInv
<1>4. CASE ChatStage
    <2> DEFINE d == sc.dialogue \o <<case.envelope.goal>> \o case.reply
    <2>1. pc' = "intent_synthesis" /\ ckpt' = [pc |-> "intent_synthesis", sc |-> sc']
        BY <1>4 DEF ChatStage, EndStage, Goto
    <2>2. sc' = [sc EXCEPT !.dialogue = d]
        BY <1>4 DEF ChatStage
    <2>3. IsTexts(d) /\ d # <<>>
        <3>1. IsText(case.envelope.goal) /\ IsTexts(case.reply) /\ IsTexts(sc.dialogue)
            BY <1>1, <1>3, ContextAssumption DEF IsEnvelope, Spoken
        <3> QED
            BY <3>1, LongerDialogue
    <2> HIDE DEF d
    <2>4. sc'.dialogue = d
        BY <1>2, <2>2
    <2>5. Spoken(pc', sc') /\ Spoken(ckpt'.pc, ckpt'.sc)
        BY <2>1, <2>3, <2>4 DEF Spoken
    <2>6. ~Built'
        BY <2>1 DEF Built
    <2> QED
        BY <2>5, <2>6, NothingShown DEF ContextInv, Spoken
<1>5. CASE IntentStage
    <2>1. /\ pc' = "action_plan" /\ ckpt' = [pc |-> "action_plan", sc |-> sc']
          /\ pc = "intent_synthesis" /\ sc' = [sc EXCEPT !.intent = TRUE]
        BY <1>5 DEF IntentStage, EndStage, Goto, At
    <2>2. sc'.dialogue = sc.dialogue
        BY <1>2, <2>1
    <2>3. Spoken(pc', sc') /\ Spoken(ckpt'.pc, ckpt'.sc)
        BY <1>3, <2>1, <2>2 DEF Spoken
    <2>4. ~Built'
        BY <2>1 DEF Built
    <2> QED
        BY <2>3, <2>4, NothingShown DEF ContextInv, Spoken
<1> QED
    BY <1>4, <1>5

\* The build.
LEMMA ContextOfBuild ==
    ASSUME GovernanceInv, ContextInv, BuildContext
    PROVE  ContextInv'
<1> DEFINE built == Assemble(Attached, cache, remote)
           pii == case.flags["pii"] = 1
           text == build(contribute, pii, case.compactor, case.summary, case.max)
<1>1. case \in Cases /\ UNCHANGED case /\ UNCHANGED ckpt /\ pc = "action_plan"
    BY DEF GovernanceInv, BuildContext, At
<1>2. DOMAIN sc = {"dialogue", "intent", "text", "seen", "env", "sources", "asOf", "draft", "policy"}
    BY DEF GovernanceInv, Governing, Frame
<1>3. IsTexts(sc.dialogue) /\ sc.dialogue # <<>> /\ Spoken(ckpt.pc, ckpt.sc)
    BY <1>1 DEF ContextInv, Spoken
<1>4. \/ built.failed /\ pc' = "raised" /\ sc' = sc
      \/ /\ ~built.failed /\ pc' = "pre_prompt"
         /\ sc' = [sc EXCEPT !.env.flags = case.flags, !.env.toolset = case.toolset,
                             !.seen = contribute, !.sources = built.data, !.asOf = remote, !.text = text]
    BY DEF BuildContext, Goto
<1> HIDE DEF built, text, pii
<1>5. Spoken(ckpt'.pc, ckpt'.sc)
    BY <1>1, <1>3
<1>6. CASE built.failed /\ pc' = "raised" /\ sc' = sc
    <2>1. ~Built' /\ Spoken(pc', sc')
        BY <1>3, <1>6 DEF Built, Spoken
    <2> QED
        BY <1>5, <2>1, NothingShown DEF ContextInv, Spoken
<1>7. CASE /\ ~built.failed /\ pc' = "pre_prompt"
           /\ sc' = [sc EXCEPT !.env.flags = case.flags, !.env.toolset = case.toolset,
                               !.seen = contribute, !.sources = built.data, !.asOf = remote, !.text = text]
    <2>1. /\ sc'.dialogue = sc.dialogue /\ sc'.seen = contribute /\ sc'.sources = built.data
          /\ sc'.asOf = remote /\ sc'.text = text
        BY <1>2, <1>7
    <2>2. Spoken(pc', sc')
        BY <1>3, <1>7, <2>1 DEF Spoken
    <2>3. IsEnvelope(contribute) /\ contribute.dialogue # <<>>
        <3>1. /\ DOMAIN case.envelope = {"goal", "dialogue", "memories", "notes"} /\ IsText(case.envelope.goal)
              /\ IsTexts(case.envelope.memories) /\ IsTexts(case.envelope.notes)
            BY <1>1, ContextAssumption DEF IsEnvelope
        <3>2. /\ DOMAIN contribute = {"goal", "dialogue", "memories", "notes"}
              /\ contribute.dialogue = sc.dialogue /\ contribute.goal = case.envelope.goal
              /\ contribute.memories = case.envelope.memories /\ contribute.notes = case.envelope.notes
            BY <3>1 DEF contribute
        <3> QED
            BY <1>3, <3>1, <3>2 DEF IsEnvelope
    <2>4. Shown(sc)'
        BY <1>1, <2>1, <2>3 DEF Shown, text, pii
    <2>5. SourcesSound'
        <3>1. \A m \in ToSet(case.registry) :
                  /\ m.required /\ m \in ToSet(Attached) => m.id \in DOMAIN built.data
                  /\ m.id \in DOMAIN built.data =>
                        /\ m.rbac_scopes \subseteq case.scopes
                        /\ m.mutable => built.data[m.id] = remote[m.id]
            BY <1>1, <1>7, SourcesOfBuild DEF built
        <3>2. Attached' = Attached
            BY <1>1 DEF Attached
        <3> QED
            BY <1>1, <2>1, <3>1, <3>2 DEF SourcesSound
    <2> QED
        BY <1>5, <2>2, <2>4, <2>5 DEF ContextInv, Spoken
<1> QED
    BY <1>4, <1>6, <1>7

\* The rest of action_plan keeps what the planner is shown.
LEMMA ContextOfPlan ==
    ASSUME GovernanceInv, ContextInv, PrePrompt \/ (\E plan \in case.plans : PlannerDrafts(plan)) \/ PostPlan
    PROVE  ContextInv'
<1>1. DOMAIN sc = {"dialogue", "intent", "text", "seen", "env", "sources", "asOf", "draft", "policy"}
    BY DEF GovernanceInv, Governing, Frame
<1>2. Spoken(pc, sc) /\ Spoken(ckpt.pc, ckpt.sc)
    BY DEF ContextInv
<1>3. /\ UNCHANGED case /\ Built
      /\ sc'.dialogue = sc.dialogue /\ sc'.seen = sc.seen /\ sc'.text = sc.text
      /\ sc'.sources = sc.sources /\ sc'.asOf = sc.asOf
      /\ pc' \in {"planner", "post_plan", "approval", "denied"}
      /\ UNCHANGED ckpt \/ ckpt' = [pc |-> "approval", sc |-> sc']
    <2>1. CASE PrePrompt
        <3> DEFINE after == pre_prompt(Rulesets[Ruleset.version], sc.env)
        <3>1. /\ sc' = [sc EXCEPT !.env = after, !.policy.pre = after.decision] /\ UNCHANGED <<case, ckpt>>
              /\ pc' = IF after.decision.denied THEN "denied" ELSE "planner"
              /\ pc = "pre_prompt"
            BY <2>1 DEF PrePrompt, Goto, At
        <3> HIDE DEF after
        <3> QED
            BY <1>1, <3>1 DEF Built
    <2>2. ASSUME NEW plan, PlannerDrafts(plan)
          PROVE  /\ UNCHANGED case /\ Built /\ sc'.dialogue = sc.dialogue /\ sc'.seen = sc.seen
                 /\ sc'.text = sc.text /\ sc'.sources = sc.sources /\ sc'.asOf = sc.asOf
                 /\ pc' = "post_plan" /\ UNCHANGED ckpt
        BY <1>1, <2>2 DEF PlannerDrafts, Goto, At, Built
    <2>3. CASE PostPlan
        <3> DEFINE after == post_plan(Rulesets[Ruleset.version], sc.env, sc.env.plan)
        <3>1. /\ sc' = [sc EXCEPT !.env = after, !.policy.post = after.decision,
                                  !.policy.version = Ruleset.version]
              /\ UNCHANGED case /\ pc = "post_plan"
            BY <2>3 DEF PostPlan, At
        <3>2. \/ pc' = "denied" /\ UNCHANGED ckpt
              \/ pc' = "approval" /\ ckpt' = [pc |-> "approval", sc |-> sc']
            BY <2>3 DEF PostPlan, Goto, EndStage
        <3> HIDE DEF after
        <3> QED
            BY <1>1, <3>1, <3>2 DEF Built
    <2> QED
        BY <2>1, <2>2, <2>3
<1>4. Spoken(pc', sc')
    BY <1>2, <1>3 DEF Spoken
<1>5. Spoken(ckpt'.pc, ckpt'.sc)
    BY <1>2, <1>3 DEF Spoken
<1> QED
    BY <1>3, <1>4, <1>5, ShownKept DEF ContextInv, Spoken

\* From the approval stage on, and when the run is resumed, nothing is shown.
LEMMA ContextOfOthers ==
    ASSUME GovernanceInv, ContextInv,
           \/ \E granted \in BOOLEAN : ApprovalStage(granted)
           \/ \E type \in TaskTypes : PublishTask(type)
           \/ PublishEnds \/ ResumeRun
    PROVE  ContextInv'
<1>1. Spoken(pc, sc) /\ Spoken(ckpt.pc, ckpt.sc)
    BY DEF ContextInv
<1>2. ckpt.pc \in {"chat", "intent_synthesis", "action_plan", "approval", "publish", "completed"}
    BY DEF GovernanceInv, Governing, Releasing
<1>3. \/ /\ pc' \in {"publish", "approval_denied", "denied", "raised", "completed"} /\ sc' = sc
         /\ UNCHANGED ckpt \/ (ckpt' = [pc |-> pc', sc |-> sc'])
      \/ pc' = ckpt.pc /\ sc' = ckpt.sc /\ UNCHANGED ckpt
    <2>1. ASSUME NEW granted \in BOOLEAN, ApprovalStage(granted) PROVE <1>3!1
        BY <2>1 DEF ApprovalStage, Goto, EndStage
    <2>2. ASSUME NEW type \in TaskTypes, PublishTask(type) PROVE <1>3!1
        BY <2>2 DEF PublishTask, Goto, At
    <2>3. CASE PublishEnds
        BY <2>3 DEF PublishEnds, Goto, EndStage
    <2>4. CASE ResumeRun
        BY <2>4 DEF ResumeRun, Goto
    <2> QED
        BY <2>1, <2>2, <2>3, <2>4
<1>4. ~Built'
    BY <1>2, <1>3 DEF Built
<1>5. Spoken(pc', sc') /\ Spoken(ckpt'.pc, ckpt'.sc)
    BY <1>1, <1>3 DEF Spoken
<1> QED
    BY <1>4, <1>5, NothingShown DEF ContextInv, Spoken

\* Whenever the planner may be asked, it is shown what the builder made of this
\* run's dialogue, goal and sources, across resumes (action_plan.py, builder.py).
THEOREM ContextHolds == Spec => []ContextInv
<1>1. Init => ContextInv
    <2> SUFFICES ASSUME Init PROVE ContextInv
        OBVIOUS
    <2>1. case \in Cases /\ pc = "chat" /\ sc.dialogue = case.dialogue /\ ckpt.pc = "chat" /\ ckpt.sc = sc
        BY DEF Init
    <2>2. IsTexts(case.dialogue)
        BY <2>1, ContextAssumption
    <2>3. ~Built
        BY <2>1 DEF Built
    <2> QED
        BY <2>1, <2>2, <2>3 DEF ContextInv, Spoken, SourcesSound
<1>2. GovernanceInv /\ ContextInv /\ [Next]_vars => ContextInv'
    <2> SUFFICES ASSUME GovernanceInv, ContextInv, [Next]_vars PROVE ContextInv'
        OBVIOUS
    <2>1. CASE Step
        BY <2>1, ContextOfFirstStages, ContextOfBuild, ContextOfPlan, ContextOfOthers DEF Step
    <2>2. CASE ResumeRun
        BY <2>2, ContextOfOthers
    <2>3. ASSUME UNCHANGED <<case, pc, sc, ckpt>> PROVE ContextInv'
        <3>1. Built' => Built
            BY <2>3 DEF Built
        <3>2. Spoken(pc, sc)' /\ Spoken(ckpt.pc, ckpt.sc)'
            BY <2>3 DEF ContextInv, Spoken
        <3> QED
            BY <2>3, <3>1, <3>2, ShownKept DEF ContextInv
    <2>4. ASSUME NEW m, NEW figure, CollectResult(m, figure) PROVE ContextInv'
        BY <2>3, <2>4 DEF CollectResult
    <2>5. ASSUME NEW h, SaveRuleset(h) PROVE ContextInv'
        BY <2>3, <2>5 DEF SaveRuleset
    <2>6. ASSUME NEW id, NEW answer, RemoteChanges(id, answer) PROVE ContextInv'
        BY <2>3, <2>6 DEF RemoteChanges
    <2>7. CASE UNCHANGED vars
        BY <2>3, <2>7 DEF vars
    <2> QED
        BY <2>1, <2>2, <2>4, <2>5, <2>6, <2>7 DEF Next
<1> QED
    BY <1>1, <1>2, GovernanceHolds, PTL DEF Spec

\* What the builder guarantees of what the planner is shown.
LEMMA PromptOfBuild ==
    ASSUME GovernanceInv, ContextInv, Built
    PROVE  /\ sc.text.notes = <<>> => count(sc.text) <= case.max
           /\ case.flags["pii"] = 1 /\ ~case.summary.pii => \A t \in Texts(sc.text) : ~t.pii
           /\ DigestKeepsDecisions /\ DigestDroppedFirst
           /\ (/\ sc.text.notes = <<>>
               /\ estimate_tokens(JoinLen(<<sc.seen.goal, Last(sc.seen.dialogue)>>)) <= case.max) =>
                  Last(sc.seen.dialogue).decisions \subseteq DecisionsIn(sc.text)
<1> DEFINE pii == case.flags["pii"] = 1
           com == [redact(sc.seen, pii) EXCEPT !.dialogue = compact(@, case.summary, case.max)]
<1>1. IsText(case.summary) /\ case.max \in Nat
    BY ContextAssumption DEF GovernanceInv
<1>2. /\ IsEnvelope(sc.seen) /\ sc.seen.dialogue # <<>>
      /\ sc.text = build(sc.seen, pii, case.compactor, case.summary, case.max)
    BY DEF ContextInv, Shown
<1>3. Compacted = com
    BY DEF Compacted
<1>4. pii \in BOOLEAN
    OBVIOUS
<1> HIDE DEF pii
<1>5. /\ sc.text.notes = <<>> => count(sc.text) <= case.max
      /\ pii /\ ~case.summary.pii => \A t \in Texts(sc.text) : ~t.pii
      /\ (/\ case.compactor /\ count(sc.seen) > case.max /\ count(Lean(com, case.max)) <= case.max
          /\ estimate_tokens(JoinLen(DecisionLines(sc.seen.dialogue))) <= case.max) =>
             DecisionsIn(sc.seen) \subseteq DecisionsIn(sc.text)
      /\ case.compactor /\ count(sc.seen) > case.max /\ ~(count(Lean(com, case.max)) <= case.max) =>
             DecisionsIn(sc.text) \subseteq DecisionsFrom(sc.seen.dialogue, Len(sc.seen.dialogue) - 1)
      /\ (/\ sc.text.notes = <<>>
          /\ estimate_tokens(JoinLen(<<sc.seen.goal, Last(sc.seen.dialogue)>>)) <= case.max) =>
             Last(sc.seen.dialogue).decisions \subseteq DecisionsIn(sc.text)
    BY <1>1, <1>2, <1>4, BuiltEnvelope
<1> HIDE DEF com
<1>6. DigestKeepsDecisions /\ DigestDroppedFirst
    BY <1>3, <1>5 DEF DigestKeepsDecisions, DigestDroppedFirst, Compacting, DigestFits
<1> QED
    BY <1>5, <1>6 DEF pii

\* Under the pii flag the envelope built for the planner holds no raw personal data (redactor.py,
\* builder.py).
THEOREM RedactionHolds == Spec => []PromptIsRedacted
<1>1. GovernanceInv /\ ContextInv => PromptIsRedacted
    BY PromptOfBuild DEF PromptIsRedacted
<1> QED
    BY <1>1, GovernanceHolds, ContextHolds, PTL

\* Without data pointer notes the prompt is within the budget (budget.py).
THEOREM BudgetHolds == Spec => []PromptFits
<1>1. GovernanceInv /\ ContextInv => PromptFits
    BY PromptOfBuild DEF PromptFits
<1> QED
    BY <1>1, GovernanceHolds, ContextHolds, PTL

\* Which decisions reach the planner, for every dialogue, summary and budget: all of them
\* if the digest survives the trim, none older than the last two lines if it does
\* not, and those of the newest line if it fits (compaction.py, budget.py).
THEOREM DecisionsSurvive == Spec => []DecisionsFollowDigest
<1>1. GovernanceInv /\ ContextInv => DigestKeepsDecisions /\ DigestDroppedFirst
    <2>1. CASE Built
        BY <2>1, PromptOfBuild
    <2>2. CASE ~Built
        <3> HIDE DEF Built
        <3> QED
            BY <2>2 DEF DigestKeepsDecisions, DigestDroppedFirst, Compacting
    <2> QED
        BY <2>1, <2>2
<1>2. GovernanceInv /\ ContextInv => NewestLineKept
    BY PromptOfBuild DEF NewestLineKept
<1>3. GovernanceInv /\ ContextInv => DecisionsFollowDigest
    BY <1>1, <1>2 DEF DecisionsFollowDigest
<1> QED
    BY <1>3, GovernanceHolds, ContextHolds, PTL

\* The context of registry agents is sound: required sources are there, sources
\* beyond the tenant's scopes are not, mutable ones are fresh, and a delegation does not
\* depend on the order of its declarations (client.py,
\* context_delegation.py).
THEOREM AgentContextHolds == Spec => []AgentContextSound
<1>1. GovernanceInv /\ ContextInv => AgentContextSound
    <2> SUFFICES ASSUME GovernanceInv, ContextInv PROVE AgentContextSound
        OBVIOUS
    <2>1. case \in Cases
        BY DEF GovernanceInv
    <2>2. DelegationOrderFree
        <3> SUFFICES ASSUME NEW env \in case.envelopes, NEW decls \in case.declared
                     PROVE  LET out == process_context_delegations(env, decls)
                                supplied == UNION {d.supplies : d \in ToSet(decls)}
                            IN  /\ out.refused <=> \E d \in ToSet(decls) :
                                       ~(d.requires_from_l1 \subseteq available_context_keys(env))
                                /\ ~out.refused => out.env = [env EXCEPT !.pointers = @ \ supplied,
                                                                        !.semantic = @ \ supplied]
            BY DEF DelegationOrderFree
        <3>1. /\ decls \in Seq(ToSet(decls))
              /\ env = [flags |-> env.flags, tools |-> env.tools,
                        pointers |-> env.pointers, semantic |-> env.semantic]
            BY <2>1, ContextAssumption, Zenon
        <3> QED
            BY <3>1, AllDeclarations
    <2>3. SourcesSound
        BY DEF ContextInv
    <2> QED
        BY <2>2, <2>3 DEF AgentContextSound
<1> QED
    BY <1>1, GovernanceHolds, ContextHolds, PTL
=============================================================================
