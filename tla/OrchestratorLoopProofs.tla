----------------------- MODULE OrchestratorLoopProofs -----------------------
(***************************************************************************)
(* The budgets, the routing, the pins and the access checks of autonomous  *)
(* mode hold for every deployment, registry and plan.                      *)
(***************************************************************************)
EXTENDS OrchestratorLoop, FiniteSetTheorems, NaturalsInduction, TLAPS

-----------------------------------------------------------------------------
(* Facts about numbers and sequences.                                      *)

\* A set of places has a first one, which is what Min chooses.
LEMMA FirstPlace ==
    ASSUME NEW S \in SUBSET Nat, S # {}
    PROVE  Min(S) \in S /\ \A i \in S : Min(S) <= i
<1>1. IsWellFoundedOn(OpToRel(<, Nat), Nat)
    BY NatLessThanWellFounded
<1>2. PICK x \in S : \A y \in S : ~ (<<y, x>> \in OpToRel(<, Nat))
    BY <1>1, WFMin
<1>3. \A y \in S : x <= y
    <2> SUFFICES ASSUME NEW y \in S, y < x PROVE FALSE
        OBVIOUS
    <2> DEFINE pair == <<y, x>>
    <2>1. pair \in Nat \X Nat /\ pair[1] < pair[2]
        OBVIOUS
    <2>2. pair \in OpToRel(<, Nat)
        <3> HIDE DEF pair
        <3> QED
            BY <2>1, Zenon DEF OpToRel
    <2> QED
        BY <1>2, <2>2
<1> QED
    BY <1>3 DEF Min

\* A set of places that ends has a last one, which is what Max chooses.
LEMMA LastPlace ==
    ASSUME NEW n \in Nat, NEW S \in SUBSET (1..n), S # {}
    PROVE  Max(S) \in S
<1> DEFINE T == {k \in Nat : n - k \in S}
<1>1. T # {}
    <2>1. PICK i \in S : TRUE
        OBVIOUS
    <2>2. n - i \in Nat /\ n - (n - i) = i
        OBVIOUS
    <2> QED
        BY <2>1, <2>2
<1>2. Min(T) \in T /\ \A k \in T : Min(T) <= k
    <2> HIDE DEF T
    <2>1. T \in SUBSET Nat
        BY DEF T
    <2> QED
        BY <1>1, <2>1, FirstPlace
<1>3. \A i \in S : n - i \in T
    <2>1. \A i \in S : n - i \in Nat /\ n - (n - i) = i
        OBVIOUS
    <2> QED
        BY <2>1
<1>4. n - Min(T) \in S /\ Min(T) \in Nat
    BY <1>2
<1>5. \A i \in S : n - Min(T) >= i
    BY <1>2, <1>3, <1>4
<1> QED
    BY <1>4, <1>5 DEF Max

\* What Append does to a sequence of whatever it holds.
LEMMA Appended ==
    ASSUME NEW s, NEW x, s \in Seq(ToSet(s))
    PROVE  /\ Append(s, x) \in Seq(ToSet(Append(s, x)))
           /\ ToSet(Append(s, x)) = ToSet(s) \cup {x}
<1> DEFINE S == ToSet(s) \cup {x}
           t == Append(s, x)
<1>1. s \in Seq(S) /\ x \in S
    OBVIOUS
<1>2. /\ t \in Seq(S) /\ Len(t) = Len(s) + 1 /\ t[Len(s) + 1] = x
      /\ \A i \in 1..Len(s) : t[i] = s[i]
    <2> HIDE DEF S
    <2> QED
        BY <1>1
<1>3. DOMAIN s = 1..Len(s) /\ DOMAIN t = 1..(Len(s) + 1) /\ Len(s) \in Nat
    BY <1>1, <1>2
<1>4. ToSet(t) = S
    <2>1. ToSet(t) \subseteq S
        BY <1>2, <1>3 DEF ToSet
    <2>2. x \in ToSet(t)
        BY <1>2, <1>3 DEF ToSet
    <2>3. ASSUME NEW y \in ToSet(s) PROVE y \in ToSet(t)
        <3>1. PICK i \in 1..Len(s) : y = s[i]
            BY <1>3 DEF ToSet
        <3>2. t[i] = y /\ i \in DOMAIN t
            BY <1>2, <1>3, <3>1
        <3> QED
            BY <3>2 DEF ToSet
    <2> QED
        BY <2>1, <2>2, <2>3
<1> QED
    BY <1>2, <1>4

\* An element of a sequence is at one of its places.
LEMMA InSequence ==
    ASSUME NEW s, NEW x \in ToSet(s)
    PROVE  \E i \in DOMAIN s : s[i] = x
BY DEF ToSet

-----------------------------------------------------------------------------
(* Facts about the operators of the model.                                 *)

\* A slice of a plan is a plan that fits into what is left of the effort budget.
LEMMA SliceFits ==
    ASSUME NEW plan \in Seq(Delegations), loop.n \in 0..MaxSubagents
    PROVE  /\ Slice(plan) \in Seq(Delegations)
           /\ loop.n + Len(Slice(plan)) <= MaxSubagents
<1> DEFINE m == IF Len(plan) < MaxSubagents - loop.n THEN Len(plan) ELSE MaxSubagents - loop.n
<1>1. MaxSubagents \in Nat
    BY LoopAssumption
<1>2. m \in 0..Len(plan) /\ loop.n + m <= MaxSubagents
    BY <1>1
<1>3. SubSeq(plan, 1, m) \in Seq(Delegations) /\ Len(SubSeq(plan, 1, m)) = m
    <2> HIDE DEF m
    <2> QED
        BY <1>2
<1> QED
    BY <1>2, <1>3 DEF Slice

\* The lead agent asks for delegations.
LEMMA PlansTyped ==
    ASSUME case \in Cases, loop.n \in 0..MaxSubagents, NEW plan \in Plans
    PROVE  plan \in Seq(Delegations)
BY LoopAssumption DEF Plans

\* A task that is not refused goes to a manifest of the pinned version whose queue is open
\* to the run, or over the naming convention if there is none; a pin without a match is
\* refused.
LEMMA Resolved ==
    ASSUME NEW d, NEW ms, NEW r, DOMAIN ms \subseteq Nat, resolve_queue(d, ms, r) # Refused
    PROVE  /\ \/ /\ resolve_queue(d, ms, r) = NoManifest
                 /\ bound(pinned(d, ms, r), ms, r) = {}
              \/ \E i \in bound(pinned(d, ms, r), ms, r) : resolve_queue(d, ms, r) = ms[i]
           /\ candidates(d, ms, r) # {} => pinned(d, ms, r) # {}
<1> DEFINE open == bound(pinned(d, ms, r), ms, r)
<1>1. open \subseteq pinned(d, ms, r)
    BY DEF bound
<1>2. pinned(d, ms, r) \subseteq DOMAIN ms
    BY DEF pinned, candidates, agents_for_task_type
<1>3. CASE open = {}
    BY <1>3 DEF resolve_queue
<1>4. CASE open # {}
    <2> HIDE DEF open
    <2>1. Min(open) \in open
        BY <1>1, <1>2, <1>4, FirstPlace
    <2> QED
        BY <1>1, <1>4, <2>1 DEF resolve_queue, open
<1> QED
    BY <1>3, <1>4

\* The pinned candidates are agents that the tenant may use, of the version asked for.
LEMMA PinnedGranted ==
    ASSUME NEW d, NEW ms, NEW r, NEW i \in pinned(d, ms, r)
    PROVE  /\ i \in DOMAIN ms
           /\ scopes_granted(ms[i], r.tenant, NoPrincipal)
           /\ d.pin \in {Unset, ms[i].version}
BY DEF pinned, candidates, agents_for_task_type

\* A worker that requires signatures and has started holds no empty secret.
LEMMA SecretsHeld ==
    ASSUME NEW s, NEW headers, s.provider \in {"env", "file", "vault"}, s.require_signature,
           ensure_signing_configured(s), build_signer(s) # Refused,
           VerifyHeaders(build_signer(s), headers)
    PROVE  headers.secret # Unset
<1> DEFINE signer == build_signer(s)
<1>0. ASSUME NEW keys, NEW active, Signer(keys, active) # Refused
      PROVE  Signer(keys, active).keys = keys
    BY <1>0 DEF Signer
<1>1. headers.kid \in DOMAIN signer.keys /\ signer.keys[headers.kid] = headers.secret
    BY DEF VerifyHeaders
<1>2. CASE s.provider = "env"
    <2>1. s.secret # Unset
        BY <1>2 DEF ensure_signing_configured
    <2>2. signer.keys = [k \in {s.kid} |-> s.secret]
        BY <1>2 DEF build_signer, EnvKeyProvider, Signer
    <2> QED
        BY <1>1, <2>1, <2>2
<1>3. CASE s.provider = "file"
    <2>1. signer = FileKeyProvider(s.file)
        BY <1>3 DEF build_signer
    <2>2. signer.keys = s.file.keys /\ \A k \in DOMAIN s.file.keys : s.file.keys[k] # Unset
        <3>1. signer # Refused
            OBVIOUS
        <3>2. \E active : signer = Signer(s.file.keys, active)
            BY <2>1, <3>1, Zenon DEF FileKeyProvider
        <3>3. \A k \in DOMAIN s.file.keys : s.file.keys[k] # Unset
            BY <2>1, <3>1, Zenon DEF FileKeyProvider
        <3> HIDE DEF signer
        <3> QED
            BY <1>0, <3>1, <3>2, <3>3
    <2> QED
        BY <1>1, <2>2
<1>4. CASE s.provider = "vault"
    <2> DEFINE usable == {k \in DOMAIN s.file.keys : s.file.keys[k] # Unset}
    <2>1. signer = VaultKeyProvider(s.file)
        BY <1>4 DEF build_signer
    <2>2. signer.keys = [k \in usable |-> s.file.keys[k]]
        <3>1. signer # Refused
            OBVIOUS
        <3>2. \E active : signer = Signer([k \in usable |-> s.file.keys[k]], active)
            BY <2>1, <3>1, Zenon DEF VaultKeyProvider
        <3> HIDE DEF signer, usable
        <3> QED
            BY <1>0, <3>1, <3>2
    <2> QED
        BY <1>1, <2>2
<1> QED
    BY <1>2, <1>3, <1>4

-----------------------------------------------------------------------------
(* The loop and its brakes.                                                *)

\* What an update of the frame of run() leaves as it was, and that it is a frame.
LEMMA Moved ==
    ASSUME NEW f \in FrameType, NEW p \in Points
    PROVE  LET g == [f EXCEPT !.pc = p]
           IN  /\ g \in FrameType /\ g.pc = p
               /\ g.iteration = f.iteration /\ g.index = f.index /\ g.plan = f.plan
               /\ g.n = f.n /\ g.lines = f.lines /\ g.version = f.version
BY DEF FrameType

\* The same, with one more line of the dialogue.
LEMMA MovedWithLine ==
    ASSUME NEW f \in FrameType, NEW p \in Points
    PROVE  LET g == [f EXCEPT !.pc = p, !.lines = @ + 1]
           IN  /\ g \in FrameType /\ g.pc = p
               /\ g.iteration = f.iteration /\ g.index = f.index /\ g.plan = f.plan
               /\ g.n = f.n /\ g.version = f.version
<1>1. f.lines + 1 \in Nat
    BY DEF FrameType
<1>2. ASSUME NEW l \in Nat
      PROVE  LET g == [f EXCEPT !.pc = p, !.lines = l]
             IN  /\ g \in FrameType /\ g.pc = p
                 /\ g.iteration = f.iteration /\ g.index = f.index /\ g.plan = f.plan
                 /\ g.n = f.n /\ g.version = f.version
    BY DEF FrameType
<1> QED
    BY <1>1, <1>2

\* The frame after a plan.
LEMMA Planned ==
    ASSUME NEW f \in FrameType, NEW plan \in Seq(Delegations)
    PROVE  LET g == [f EXCEPT !.pc = "gate", !.plan = plan, !.index = 0]
           IN  /\ g \in FrameType /\ g.pc = "gate" /\ g.plan = plan /\ g.index = 0
               /\ g.iteration = f.iteration /\ g.n = f.n /\ g.version = f.version
BY DEF FrameType, Points

\* The frame after an iteration.
LEMMA NextIteration ==
    ASSUME NEW f \in FrameType, f.iteration < MaxIterations
    PROVE  LET g == [f EXCEPT !.pc = "check", !.iteration = @ + 1, !.plan = <<>>, !.index = 0]
           IN  /\ g \in FrameType /\ g.pc = "check" /\ g.plan = <<>> /\ g.index = 0
               /\ g.iteration = f.iteration + 1 /\ g.n = f.n /\ g.version = f.version
<1>1. f.iteration + 1 \in 0..MaxIterations /\ "check" \in Points /\ <<>> \in Seq(Delegations)
    BY LoopAssumption DEF FrameType, Points
<1>2. ASSUME NEW i \in 0..MaxIterations
      PROVE  LET g == [f EXCEPT !.pc = "check", !.iteration = i, !.plan = <<>>, !.index = 0]
             IN  /\ g \in FrameType /\ g.pc = "check" /\ g.plan = <<>> /\ g.index = 0
                 /\ g.iteration = i /\ g.n = f.n /\ g.version = f.version
    BY <1>1 DEF FrameType
<1> QED
    BY <1>1, <1>2

\* The frame after a subresult.
LEMMA CollectedFrame ==
    ASSUME loop \in FrameType, loop.n < MaxSubagents
    PROVE  /\ Collected \in FrameType /\ Collected.pc = "gate"
           /\ Collected.index = loop.index + 1 /\ Collected.n = loop.n + 1
           /\ Collected.plan = loop.plan /\ Collected.iteration = loop.iteration
<1>1. /\ "gate" \in Points /\ Unset \in Versions
    BY DEF Points, Versions
<1>2. MaxSubagents \in Nat /\ loop.index \in Nat /\ loop.n \in 0..MaxSubagents /\ loop.lines \in Nat
    BY LoopAssumption DEF FrameType
<1>3. PICK i \in Nat, n \in 0..MaxSubagents, l \in Nat :
          i = loop.index + 1 /\ n = loop.n + 1 /\ l = loop.lines + 1
    <2>1. loop.index + 1 \in Nat /\ loop.n + 1 \in 0..MaxSubagents /\ loop.lines + 1 \in Nat
        BY <1>2
    <2> QED
        BY <2>1
<1> DEFINE g == [loop EXCEPT !.pc = "gate", !.index = i, !.n = n, !.lines = l, !.version = Unset]
<1>4. Collected = g
    BY <1>3, Zenon DEF Collected
<1>5. /\ g \in FrameType /\ g.pc = "gate" /\ g.index = i /\ g.n = n
      /\ g.plan = loop.plan /\ g.iteration = loop.iteration
    BY <1>1 DEF FrameType
<1> HIDE DEF g
<1> QED
    BY <1>3, <1>4, <1>5

\* The frame of a life of the driver that finds l lines of dialogue saved.
LEMMA FirstFrameTyped ==
    ASSUME NEW l \in Nat
    PROVE  LET g == [FirstFrame EXCEPT !.lines = l]
           IN  /\ g \in FrameType /\ g.pc = "check" /\ g.plan = <<>> /\ g.index = 0
               /\ g.iteration = 0 /\ g.n = 0 /\ g.lines = l
<1>1. Unset \in Versions /\ <<>> \in Seq(Delegations) /\ 0 \in 0..MaxIterations /\ 0 \in 0..MaxSubagents
    BY LoopAssumption DEF Versions
<1> QED
    BY <1>1 DEF FirstFrame, FrameType, Points

\* The plans asked for stay within what the lives of the driver may ask for.
LEMMA AskedKept ==
    ASSUME NEW a \in Nat, NEW c \in Nat, NEW h \in Nat, NEW k \in Nat,
           a <= MaxIterations * c + h, h <= k
    PROVE  a <= MaxIterations * c + k
<1> DEFINE base == MaxIterations * c
<1>1. base \in Nat
    BY LoopAssumption
<1> HIDE DEF base
<1>2. a <= base + h => a <= base + k
    BY <1>1
<1> QED
    BY <1>2 DEF base

\* The part of the invariant about the frame of the loop and its two brakes.
Core == TypeOK /\ SpendCapped /\ CancelStops /\ Frames /\ Brakes

\* One life of the driver asks for at most max_iterations plans.
LEMMA OneLife ==
    ASSUME Core
    PROVE  /\ asked \in Nat /\ crashes \in Nat /\ MaxIterations \in Nat
           /\ AskedHere \in 0..MaxIterations
           /\ asked <= MaxIterations * crashes + AskedHere
           /\ asked <= MaxIterations * crashes + MaxIterations
<1>1. /\ asked \in Nat /\ crashes \in Nat /\ MaxIterations \in Nat
      /\ loop.iteration \in 0..MaxIterations /\ loop.pc \in Points
    BY LoopAssumption DEF Core, TypeOK, FrameType
<1>2. AskedHere \in 0..MaxIterations
    BY <1>1 DEF Core, Frames, AskedHere, Points
<1>3. asked <= MaxIterations * crashes + AskedHere
    BY DEF Core, Brakes
<1>4. AskedHere \in Nat /\ AskedHere <= MaxIterations
    BY <1>1, <1>2
<1> HIDE DEF AskedHere
<1> QED
    BY <1>1, <1>2, <1>3, <1>4, AskedKept

\* What a step of the loop need not touch.
LEMMA CoreFrame ==
    ASSUME Core, UNCHANGED <<case, run, crashes, worker, trace, results>>,
           loop' \in FrameType, loop'.index \in 0..Len(loop'.plan), saved' \in Nat,
           ledger' \in Nat, asked' \in Nat, late' \in Nat, SpendCapped', CancelStops', Frames', Brakes'
    PROVE  Core'
<1>1. trace' \in Seq(ToSet(trace')) /\ results' \in Seq(ToSet(results'))
    BY DEF Core, TypeOK
<1>2. TypeOK'
    BY <1>1 DEF Core, TypeOK
<1> QED
    BY <1>2 DEF Core

\* The cancel check: it leaves the iteration open only below max_iterations.
LEMMA CheckCancelStep == ASSUME Core, CheckCancel PROVE Core'
<1>1. /\ At("check") /\ UNCHANGED <<case, run, saved, ledger, asked, late, crashes, worker, trace, results>>
      /\ loop \in FrameType /\ loop.index \in 0..Len(loop.plan)
    BY DEF CheckCancel, coreVars, historyVars, hostVars, Core, TypeOK
<1>2. SpendCapped' /\ CancelStops' /\ saved' \in Nat /\ ledger' \in Nat /\ asked' \in Nat /\ late' \in Nat
    BY <1>1 DEF Core, TypeOK, SpendCapped, PlanCost, cost_for, CancelStops, Margin
<1>3. CASE loop' \in {[loop EXCEPT !.pc = "done"], [loop EXCEPT !.pc = "done", !.lines = @ + 1]}
    <2>1. /\ loop' \in FrameType /\ loop'.pc = "done" /\ loop'.index = loop.index
          /\ loop'.plan = loop.plan
        <3>1. CASE loop' = [loop EXCEPT !.pc = "done"]
            BY <1>1, <3>1, Moved DEF Points
        <3>2. CASE loop' = [loop EXCEPT !.pc = "done", !.lines = @ + 1]
            BY <1>1, <3>2, MovedWithLine DEF Points
        <3> QED
            BY <1>3, <3>1, <3>2
    <2>2. Frames'
        BY <1>1, <2>1 DEF Core, Frames, At
    <2>3. asked <= MaxIterations * crashes + MaxIterations
        BY OneLife
    <2>4. Brakes'
        BY <1>1, <2>1, <2>3 DEF Core, Brakes, AskedHere, At
    <2> QED
        BY <1>1, <1>2, <2>1, <2>2, <2>4, CoreFrame
<1>4. CASE loop.iteration < MaxIterations /\ ~cancelled /\ loop' = [loop EXCEPT !.pc = "plan"]
    <2>1. /\ loop' \in FrameType /\ loop'.pc = "plan" /\ loop'.index = loop.index
          /\ loop'.plan = loop.plan /\ loop'.iteration = loop.iteration
        BY <1>1, <1>4, Moved DEF Points
    <2>2. Frames' /\ Brakes'
        BY <1>1, <1>4, <2>1 DEF Core, Frames, Brakes, AskedHere, At, cancelled
    <2> QED
        BY <1>1, <1>2, <2>1, <2>2, CoreFrame
<1>5. loop.iteration \in Nat /\ MaxIterations \in Nat
    BY <1>1, LoopAssumption DEF FrameType
<1> QED
    BY <1>3, <1>4, <1>5 DEF CheckCancel

\* A plan: late counts it only when the flag came after the check, and the slice fits.
LEMMA PlanStep == ASSUME Core, NEW plan \in Plans, NEW reported \in BOOLEAN, Plan(plan, reported) PROVE Core'
<1> DEFINE cost == cost_for(Usage(reported, case.lead))
<1>1. /\ At("plan") /\ UNCHANGED <<case, run, saved, crashes, worker, trace, results>>
      /\ ledger' = ledger + cost /\ asked' = asked + 1
      /\ loop \in FrameType /\ loop.index \in 0..Len(loop.plan) /\ case \in Cases
      /\ late' = IF run.cancel THEN late + 1 ELSE late
    BY DEF Plan, record, hostVars, Core, TypeOK
<1>2. late = 0 /\ late' \in 0..1 /\ (late' # 0 => run.cancel)
    BY <1>1 DEF Core, Brakes, AskedHere, At
<1>0. PlanCost \in Nat /\ cost \in 0..PlanCost /\ PlanCost' = PlanCost /\ Margin \in Nat /\ Margin' = Margin
    <2>1. case.lead \in Nat /\ Projected \in Nat
        BY <1>1, LoopAssumption
    <2> QED
        BY <1>1, <2>1 DEF PlanCost, cost_for, Usage, Margin
<1> HIDE DEF cost
<1>3. SpendCapped' /\ CancelStops' /\ saved' \in Nat /\ ledger' \in Nat /\ asked' \in Nat /\ late' \in Nat
    <2>0. ledger \in Nat /\ asked \in Nat
        BY DEF Core, TypeOK
    <2>1. ledger \in Nat /\ asked \in Nat /\ ledger' \in Nat /\ asked' \in Nat
        BY <1>0, <1>1, <2>0
    <2>2. PlanCost * asked' = PlanCost * asked + PlanCost /\ PlanCost * asked \in Nat
        BY <1>0, <1>1, <2>1
    <2> DEFINE before == PlanCost * asked
               after == PlanCost * asked'
    <2>3. case.gate => ledger <= CostCap + MaxSpend - Margin + before
        BY DEF Core, SpendCapped
    <2>4. after = before + PlanCost /\ before \in Nat
        BY <2>2
    <2>5. CostCap \in Nat /\ MaxSpend \in Nat
        BY LoopAssumption
    <2> HIDE DEF before, after
    <2>6. case.gate => ledger' <= CostCap + MaxSpend - Margin + after
        BY <1>0, <1>1, <2>1, <2>3, <2>4, <2>5
    <2> QED
        BY <1>0, <1>1, <1>2, <2>1, <2>6 DEF Core, TypeOK, SpendCapped, CancelStops, after
<1>A. asked' <= MaxIterations * crashes' + (loop.iteration + 1)
    <2>1. asked <= MaxIterations * crashes + loop.iteration
        BY <1>1 DEF Core, Brakes, AskedHere, At
    <2>2. asked \in Nat /\ loop.iteration \in Nat /\ MaxIterations \in Nat /\ crashes \in Nat
        BY <1>1, LoopAssumption DEF Core, TypeOK, FrameType
    <2> DEFINE base == MaxIterations * crashes
    <2>3. base \in Nat
        BY <2>2
    <2> HIDE DEF base
    <2> QED
        BY <1>1, <2>1, <2>2, <2>3 DEF base
<1>B. loop.iteration + 1 <= MaxIterations
    BY <1>1, LoopAssumption DEF Core, Frames, At, FrameType
<1>4. CASE loop' \in {[loop EXCEPT !.pc = "done"], [loop EXCEPT !.pc = "done", !.lines = @ + 1]}
    <2>1. /\ loop' \in FrameType /\ loop'.pc = "done" /\ loop'.index = loop.index
          /\ loop'.plan = loop.plan
        <3>1. CASE loop' = [loop EXCEPT !.pc = "done"]
            BY <1>1, <3>1, Moved DEF Points
        <3>2. CASE loop' = [loop EXCEPT !.pc = "done", !.lines = @ + 1]
            BY <1>1, <3>2, MovedWithLine DEF Points
        <3> QED
            BY <1>4, <3>1, <3>2
    <2>2. Frames'
        BY <1>1, <2>1 DEF Core, Frames, At
    <2>3. asked' \in Nat /\ crashes' \in Nat /\ loop.iteration + 1 \in Nat /\ MaxIterations \in Nat
        <3>1. crashes \in Nat /\ MaxIterations \in Nat
            BY OneLife
        <3>2. loop.iteration \in Nat
            BY <1>1, <3>1 DEF FrameType
        <3> QED
            BY <1>1, <1>3, <3>1, <3>2
    <2>4. asked' <= MaxIterations * crashes' + MaxIterations
        BY <1>A, <1>B, <2>3, AskedKept
    <2>5. Brakes'
        BY <1>2, <2>1, <2>4, <1>1 DEF Brakes, AskedHere
    <2> QED
        BY <1>1, <1>3, <2>1, <2>2, <2>5, CoreFrame
<1>5. CASE loop' = [loop EXCEPT !.pc = "gate", !.plan = Slice(plan), !.index = 0]
    <2> DEFINE slice == Slice(plan)
    <2>1. loop.n \in 0..MaxSubagents /\ loop.iteration \in Nat /\ MaxIterations \in Nat
        BY <1>1, LoopAssumption DEF FrameType
    <2>2. slice \in Seq(Delegations) /\ loop.n + Len(slice) <= MaxSubagents
        BY <1>1, <2>1, PlansTyped, SliceFits
    <2> HIDE DEF slice
    <2>3. /\ loop' \in FrameType /\ loop'.pc = "gate" /\ loop'.index = 0 /\ loop'.plan = slice
          /\ loop'.n = loop.n /\ loop'.iteration = loop.iteration
        BY <1>1, <1>5, <2>2, Planned DEF slice
    <2>4. Len(slice) \in Nat
        BY <2>2
    <2>5. loop'.n + (Len(loop'.plan) - loop'.index) <= MaxSubagents /\ loop'.index \in 0..Len(loop'.plan)
        BY <2>1, <2>2, <2>3, <2>4
    <2>6. Frames' /\ Brakes'
        BY <1>1, <1>2, <1>A, <2>3, <2>5 DEF Core, Frames, Brakes, AskedHere, At
    <2> QED
        BY <1>1, <1>3, <2>3, <2>5, <2>6, CoreFrame
<1> QED
    BY <1>4, <1>5 DEF Plan

\* The gate: what it lets through still fits below the cost cap.
LEMMA GateStep == ASSUME Core, Gate PROVE Core'
<1>1. /\ At("gate") /\ UNCHANGED <<case, run, saved, ledger, asked, late, crashes, worker, trace, results>>
      /\ loop \in FrameType /\ loop.index \in 0..Len(loop.plan)
    BY DEF Gate, coreVars, historyVars, hostVars, Core, TypeOK
<1>2. SpendCapped' /\ CancelStops' /\ saved' \in Nat /\ ledger' \in Nat /\ asked' \in Nat /\ late' \in Nat
    BY <1>1 DEF Core, TypeOK, SpendCapped, PlanCost, cost_for, CancelStops, Margin
<1>3. CASE loop' \in {[loop EXCEPT !.pc = "save"], [loop EXCEPT !.pc = "save", !.lines = @ + 1]}
    <2>1. /\ loop' \in FrameType /\ loop'.pc = "save" /\ loop'.index = loop.index
          /\ loop'.plan = loop.plan /\ loop'.iteration = loop.iteration
        <3>1. CASE loop' = [loop EXCEPT !.pc = "save"]
            BY <1>1, <3>1, Moved DEF Points
        <3>2. CASE loop' = [loop EXCEPT !.pc = "save", !.lines = @ + 1]
            BY <1>1, <3>2, MovedWithLine DEF Points
        <3> QED
            BY <1>3, <3>1, <3>2
    <2>2. Frames' /\ Brakes'
        BY <1>1, <2>1 DEF Core, Frames, Brakes, AskedHere, At
    <2> QED
        BY <1>1, <1>2, <2>1, <2>2, CoreFrame
<1>4. CASE loop.index # Len(loop.plan) /\ worth_it /\ loop' = [loop EXCEPT !.pc = "dispatch"]
    <2>1. /\ loop' \in FrameType /\ loop'.pc = "dispatch" /\ loop'.index = loop.index
          /\ loop'.plan = loop.plan /\ loop'.iteration = loop.iteration /\ loop'.n = loop.n
        BY <1>1, <1>4, Moved DEF Points
    <2>2. case.gate => ~(ledger + Margin > CostCap)
        BY <1>4 DEF worth_it, over_budget
    <2>3. ledger \in Nat /\ Margin \in Nat /\ CostCap \in Nat /\ Margin' = Margin
        BY <1>1, LoopAssumption DEF Core, TypeOK, Margin
    <2>4. case.gate => ledger + Margin <= CostCap
        BY <2>2, <2>3
    <2>5. Brakes'
        BY <1>1, <2>1, <2>3, <2>4 DEF Core, Brakes, AskedHere, At
    <2>6. loop.plan \in Seq(Delegations)
        BY <1>1 DEF FrameType
    <2>7. loop.index < Len(loop.plan)
        BY <1>1, <1>4, <2>6
    <2>8. Frames'
        BY <1>1, <2>1, <2>7 DEF Core, Frames, At
    <2> QED
        BY <1>1, <1>2, <2>1, <2>5, <2>8, CoreFrame
<1> QED
    BY <1>3, <1>4 DEF Gate

\* The end of an iteration.
LEMMA IteratedStep == ASSUME Core, Iterated PROVE Core'
<1>1. /\ At("save") /\ UNCHANGED <<case, run, ledger, asked, late, crashes, worker, trace, results>>
      /\ loop' = [loop EXCEPT !.pc = "check", !.iteration = @ + 1, !.plan = <<>>, !.index = 0]
      /\ saved' = loop.lines /\ loop \in FrameType
    BY DEF Iterated, coreVars, historyVars, hostVars, Core, TypeOK
<1>2. saved' \in Nat /\ loop.iteration < MaxIterations
    BY <1>1 DEF Core, Frames, At, FrameType
<1>3. SpendCapped' /\ CancelStops' /\ ledger' \in Nat /\ asked' \in Nat /\ late' \in Nat
    BY <1>1 DEF Core, TypeOK, SpendCapped, PlanCost, cost_for, CancelStops, Margin
<1>4. loop' \in FrameType /\ loop'.pc = "check" /\ loop'.index = 0 /\ loop'.plan = <<>>
    BY <1>1, <1>2, NextIteration
<1>5. Frames' /\ Brakes' /\ loop'.index \in 0..Len(loop'.plan)
    BY <1>1, <1>4 DEF Core, Frames, Brakes, AskedHere, At
<1> QED
    BY <1>1, <1>2, <1>3, <1>4, <1>5, CoreFrame

\* A manifest that the registry has now is permitted as registered, if it is granted now.
LEMMA StillPermitted ==
    ASSUME RegistryKept, NEW i \in DOMAIN manifests,
           scopes_granted(manifests[i], case.tenant, NoPrincipal)
    PROVE  /\ case.manifests[i] \in ToSet(case.manifests)
           /\ Permits(case.manifests[i], manifests[i].id)
           /\ manifests[i].version = case.manifests[i].version
           /\ manifests[i].queue \in {Unset, case.manifests[i].queue}
<1> DEFINE m == manifests[i]
           reg == case.manifests[i]
<1>1. /\ reg \in ToSet(case.manifests) /\ m.version = reg.version /\ m.queue \in {Unset, reg.queue}
      /\ \/ m.id = reg.id /\ m.rbac_scopes = reg.rbac_scopes
         \/ moved /\ Overwrites(reg) /\ m.id \in {reg.id, reg.metadata.maof_id}
    BY DEF RegistryKept, ToSet
<1>2. scopes_granted(m, case.tenant, NoPrincipal)
    OBVIOUS
<1> HIDE DEF m, reg
<1>3. Permits(reg, m.id)
    <2>1. CASE m.id = reg.id /\ m.rbac_scopes = reg.rbac_scopes
        BY <1>2, <2>1 DEF Permits, scopes_granted
    <2>2. CASE moved /\ Overwrites(reg) /\ m.id \in {reg.id, reg.metadata.maof_id}
        BY <2>2 DEF Permits
    <2> QED
        BY <1>1, <2>1, <2>2
<1> QED
    BY <1>1, <1>3 DEF m, reg

\* Where the registry as it is now sends a delegation: to an agent of the registry as it
\* was, which the tenant may use and the pin names.
LEMMA Routes ==
    ASSUME case \in Cases, RegistryKept, NEW d, resolve_queue(d, manifests, case) # Refused
    PROVE  LET m == resolve_queue(d, manifests, case)
           IN  /\ m.version \in Versions
               /\ \/ m.id = Unset /\ m.version = Unset
                  \/ \E a \in ToSet(case.manifests) :
                        a.version = m.version /\ a.queue = m.queue /\ Permits(a, m.id)
               /\ d.pin # Unset => m.version \in {Unset, d.pin}
               /\ ~moved => /\ d.pin # Unset => (m.version = Unset <=> Eligible(d) = {})
                            /\ candidates(d, case.manifests, case) # {}
                                  => pinned(d, case.manifests, case) # {}
<1> DEFINE m == resolve_queue(d, manifests, case)
           open == bound(pinned(d, manifests, case), manifests, case)
<1>1. /\ DOMAIN manifests \subseteq DOMAIN case.manifests /\ DOMAIN case.manifests \subseteq Nat
      /\ ~moved => manifests = case.manifests
    BY LoopAssumption DEF RegistryKept
<1>2. /\ (m = NoManifest /\ open = {}) \/ \E i \in open : m = manifests[i]
      /\ candidates(d, manifests, case) # {} => pinned(d, manifests, case) # {}
    BY <1>1, Resolved
<1>3. ~moved => /\ open = Eligible(d)
                /\ candidates(d, case.manifests, case) # {} => pinned(d, case.manifests, case) # {}
    BY <1>1, <1>2 DEF Eligible
<1>4. \A i \in open : i \in pinned(d, manifests, case) /\ manifests[i].queue # Unset
    BY DEF bound
<1> HIDE DEF m, open
<1>5. CASE m = NoManifest /\ open = {}
    <2>1. m.id = Unset /\ m.version = Unset /\ Unset \in Versions
        BY <1>5 DEF NoManifest, Versions
    <2> QED
        BY <1>3, <1>5, <2>1 DEF m
<1>6. ASSUME NEW i \in open, m = manifests[i]
      PROVE  /\ m.version \in Versions
             /\ \E a \in ToSet(case.manifests) :
                   a.version = m.version /\ a.queue = m.queue /\ Permits(a, m.id)
             /\ d.pin # Unset => m.version = d.pin
    <2> DEFINE reg == case.manifests[i]
    <2>1. /\ i \in DOMAIN manifests /\ scopes_granted(m, case.tenant, NoPrincipal)
          /\ d.pin \in {Unset, m.version} /\ m.queue # Unset
        BY <1>4, <1>6, PinnedGranted
    <2>2. /\ reg \in ToSet(case.manifests) /\ m.version = reg.version
          /\ m.queue \in {Unset, reg.queue} /\ Permits(reg, m.id)
        BY <1>6, <2>1, StillPermitted
    <2> HIDE DEF reg
    <2>3. m.version \in Versions
        <3>1. reg.version \in {x.version : x \in ToSet(case.manifests)}
            BY <2>2
        <3>2. reg.version \in UNION {{x.version : x \in ToSet(c.manifests)} : c \in Cases}
            BY <3>1, Zenon
        <3> QED
            BY <2>2, <3>2 DEF Versions
    <2> QED
        BY <2>1, <2>2, <2>3
<1>7. open # {} => (d.pin # Unset => m.version # Unset)
    BY <1>2, <1>6
<1> QED
    BY <1>2, <1>3, <1>5, <1>6, <1>7 DEF m

\* The frame after a task was published.
LEMMA Dispatched ==
    ASSUME NEW f \in FrameType, NEW v \in Versions
    PROVE  LET g == [f EXCEPT !.pc = "trace", !.version = v]
           IN  /\ g \in FrameType /\ g.pc = "trace" /\ g.version = v
               /\ g.iteration = f.iteration /\ g.index = f.index /\ g.plan = f.plan /\ g.n = f.n
BY DEF FrameType, Points

\* What a step must keep of Core, whatever it touches.
LEMMA CoreIntro ==
    ASSUME Core, UNCHANGED <<case, worker>>, crashes' \in Nat,
           run' \in [status: {"running", "completed", "cancelled"}, cancel: BOOLEAN],
           trace' \in Seq(ToSet(trace')), results' \in Seq(ToSet(results')),
           loop' \in FrameType, loop'.index \in 0..Len(loop'.plan), saved' \in Nat,
           ledger' \in Nat, asked' \in Nat, late' \in Nat, SpendCapped', CancelStops', Frames', Brakes'
    PROVE  Core'
<1>1. TypeOK'
    BY DEF Core, TypeOK
<1> QED
    BY <1>1 DEF Core

\* A subresult takes one of the subagents that the slice reserved.
LEMMA CollectedCore ==
    ASSUME Core, loop.pc \in {"trace", "generated"}, loop' = Collected,
           UNCHANGED <<case, run, ledger, asked, late, crashes>>
    PROVE  /\ loop' \in FrameType /\ loop'.index \in 0..Len(loop'.plan) /\ Frames' /\ Brakes'
           /\ SpendCapped' /\ CancelStops'
           /\ loop'.pc = "gate" /\ loop'.iteration = loop.iteration /\ loop'.index = loop.index + 1
<1>1. /\ loop \in FrameType /\ loop.index < Len(loop.plan)
      /\ loop.n + (Len(loop.plan) - loop.index) <= MaxSubagents
    BY DEF Core, TypeOK, Frames
<1>2. loop.n \in Nat /\ loop.index \in Nat /\ MaxSubagents \in Nat /\ Len(loop.plan) \in Nat
    BY <1>1, LoopAssumption DEF FrameType
<1>3. loop.n < MaxSubagents
    BY <1>1, <1>2
<1>4. /\ loop' \in FrameType /\ loop'.pc = "gate" /\ loop'.index = loop.index + 1
      /\ loop'.n = loop.n + 1 /\ loop'.plan = loop.plan /\ loop'.iteration = loop.iteration
    BY <1>1, <1>3, CollectedFrame
<1>5. loop'.index \in 0..Len(loop'.plan) /\ loop'.n + (Len(loop'.plan) - loop'.index) <= MaxSubagents
    BY <1>1, <1>2, <1>4
<1>6. Frames'
    BY <1>4, <1>5 DEF Core, Frames
<1>7. Brakes' /\ SpendCapped' /\ CancelStops'
    BY <1>4 DEF Core, Brakes, AskedHere, SpendCapped, PlanCost, cost_for, CancelStops, Margin
<1> QED
    BY <1>4, <1>5, <1>6, <1>7

\* A dispatch: a refused pin leaves the loop, a resolved one goes on to its trace entry.
LEMMA DispatchQueueStep == ASSUME Core, RegistryKept, DispatchQueue PROVE Core'
<1>1. /\ At("dispatch") /\ UNCHANGED <<case, run, saved, ledger, asked, late, crashes, worker, trace, results>>
      /\ loop \in FrameType /\ loop.index \in 0..Len(loop.plan) /\ case \in Cases
    BY DEF DispatchQueue, historyVars, Core, TypeOK
<1>2. SpendCapped' /\ CancelStops' /\ saved' \in Nat /\ ledger' \in Nat /\ asked' \in Nat /\ late' \in Nat
    BY <1>1 DEF Core, TypeOK, SpendCapped, PlanCost, cost_for, CancelStops, Margin
<1> DEFINE manifest == resolve_queue(Delegation, manifests, case)
<1>3. CASE manifest = Refused
    <2>1. loop' = [loop EXCEPT !.pc = "raised"]
        BY <1>3 DEF DispatchQueue
    <2>2. /\ loop' \in FrameType /\ loop'.pc = "raised" /\ loop'.index = loop.index
          /\ loop'.plan = loop.plan
        BY <1>1, <2>1, Moved DEF Points
    <2>3. asked <= MaxIterations * crashes + MaxIterations
        BY OneLife
    <2>4. Frames' /\ Brakes'
        BY <1>1, <2>2, <2>3 DEF Core, Frames, Brakes, AskedHere, At
    <2> QED
        BY <1>1, <1>2, <2>2, <2>4, CoreFrame
<1>4. CASE manifest # Refused
    <2>1. loop' = [loop EXCEPT !.pc = "trace", !.version = manifest.version]
        BY <1>4 DEF DispatchQueue
    <2>2. manifest.version \in Versions
        BY <1>1, <1>4, Routes
    <2> HIDE DEF manifest
    <2>3. /\ loop' \in FrameType /\ loop'.pc = "trace" /\ loop'.index = loop.index
          /\ loop'.plan = loop.plan /\ loop'.n = loop.n /\ loop'.iteration = loop.iteration
        BY <1>1, <2>1, <2>2, Dispatched
    <2>4. Frames' /\ Brakes'
        BY <1>1, <2>3 DEF Core, Frames, Brakes, AskedHere, At
    <2> QED
        BY <1>1, <1>2, <2>3, <2>4, CoreFrame
<1> QED
    BY <1>3, <1>4

\* The trace entry of a published task, and its subresult.
LEMMA AppendTraceStep == ASSUME Core, AppendTrace PROVE Core'
<1>1. /\ At("trace") /\ loop' = Collected
      /\ UNCHANGED <<case, run, saved, ledger, asked, late, crashes, worker, results>>
      /\ trace' = Append(trace, [step |-> step_ref, version |-> loop.version])
    BY DEF AppendTrace, hostVars, historyVars
<1>2. trace' \in Seq(ToSet(trace')) /\ results' \in Seq(ToSet(results'))
    BY <1>1, Appended DEF Core, TypeOK
<1>3. /\ loop' \in FrameType /\ loop'.index \in 0..Len(loop'.plan) /\ Frames' /\ Brakes'
      /\ SpendCapped' /\ CancelStops'
    BY <1>1, CollectedCore DEF At
<1>4. /\ run' \in [status: {"running", "completed", "cancelled"}, cancel: BOOLEAN]
      /\ saved' \in Nat /\ ledger' \in Nat /\ asked' \in Nat /\ late' \in Nat /\ crashes' \in Nat
    BY <1>1 DEF Core, TypeOK
<1> QED
    BY <1>1, <1>2, <1>3, <1>4, CoreIntro

\* The spend: at most MaxSpend on top of what the gate saw.
LEMMA GenerateStep == ASSUME Core, NEW reported \in BOOLEAN, Generate(reported) PROVE Core'
<1> DEFINE cost == cost_for(Usage(reported, MaxSpend))
<1>1. /\ At("dispatch") /\ loop' = [loop EXCEPT !.pc = "generated"] /\ ledger' = ledger + cost
      /\ UNCHANGED <<case, run, saved, asked, late, crashes, worker, trace, results>>
      /\ loop \in FrameType /\ loop.index \in 0..Len(loop.plan)
    BY DEF Generate, record, hostVars, historyVars, Core, TypeOK
<1>2. cost \in 0..MaxSpend
    BY LoopAssumption DEF cost_for, Usage
<1> HIDE DEF cost
<1>3. ledger \in Nat /\ Margin \in Nat /\ CostCap \in Nat /\ MaxSpend \in Nat /\ Margin' = Margin
    BY <1>1, LoopAssumption DEF Core, TypeOK, Margin
<1>4. case.gate => ledger + Margin <= CostCap
    BY <1>1 DEF Core, Brakes, AskedHere, At
<1>5. ledger' \in Nat /\ (case.gate => ledger' <= CostCap + MaxSpend - Margin)
    BY <1>1, <1>2, <1>3, <1>4
<1>6. SpendCapped' /\ CancelStops' /\ saved' \in Nat /\ asked' \in Nat /\ late' \in Nat
    <2>1. CancelStops' /\ saved' \in Nat /\ asked' \in Nat /\ late' \in Nat
        BY <1>1 DEF Core, TypeOK, CancelStops
    <2> DEFINE plans == PlanCost' * asked'
    <2>2. plans \in Nat
        <3>1. case.lead \in Nat
            BY LoopAssumption DEF Core, TypeOK
        <3>2. PlanCost' \in Nat
            BY <1>1, <3>1 DEF PlanCost, cost_for
        <3>3. ASSUME NEW a \in Nat, NEW b \in Nat PROVE a * b \in Nat
            OBVIOUS
        <3> HIDE DEF PlanCost
        <3> QED
            BY <2>1, <3>2, <3>3
    <2> HIDE DEF plans
    <2>3. case'.gate => ledger' <= CostCap + MaxSpend - Margin' + plans
        BY <1>1, <1>3, <1>5, <2>2
    <2> QED
        BY <2>1, <2>3 DEF SpendCapped, plans
<1>7. /\ loop' \in FrameType /\ loop'.pc = "generated" /\ loop'.index = loop.index
      /\ loop'.plan = loop.plan /\ loop'.n = loop.n /\ loop'.iteration = loop.iteration
    BY <1>1, Moved DEF Points
<1>8. Frames' /\ Brakes'
    BY <1>1, <1>7 DEF Core, Frames, Brakes, AskedHere, At
<1> QED
    BY <1>1, <1>5, <1>6, <1>7, <1>8, CoreFrame

\* The reply of a subagent in process.
LEMMA KeepReplyStep == ASSUME Core, KeepReply PROVE Core'
<1>1. /\ At("generated") /\ loop' = Collected
      /\ UNCHANGED <<case, run, saved, ledger, asked, late, crashes, worker, trace, results>>
    BY DEF KeepReply, coreVars, hostVars, historyVars
<1>2. /\ loop' \in FrameType /\ loop'.index \in 0..Len(loop'.plan) /\ Frames' /\ Brakes'
      /\ SpendCapped' /\ CancelStops'
    BY <1>1, CollectedCore DEF At
<1>3. saved' \in Nat /\ ledger' \in Nat /\ asked' \in Nat /\ late' \in Nat
    BY <1>1 DEF Core, TypeOK
<1> QED
    BY <1>1, <1>2, <1>3, CoreFrame

\* The outcome, the death of the driver, the cancel flag and the worker's results.
LEMMA CompleteStep == ASSUME Core, Complete PROVE Core'
<1>1. /\ At("done") /\ UNCHANGED <<case, loop, saved, ledger, asked, late, crashes, worker, trace, results>>
      /\ run' = [run EXCEPT !.status = IF run.cancel THEN "cancelled" ELSE "completed"]
    BY DEF Complete, coreVars, historyVars, hostVars
<1>2. /\ run' \in [status: {"running", "completed", "cancelled"}, cancel: BOOLEAN]
      /\ run'.cancel = run.cancel
    BY <1>1 DEF Core, TypeOK
<1>3. /\ saved' \in Nat /\ ledger' \in Nat /\ asked' \in Nat /\ late' \in Nat /\ crashes' \in Nat
      /\ trace' \in Seq(ToSet(trace')) /\ results' \in Seq(ToSet(results'))
      /\ loop' \in FrameType /\ loop'.index \in 0..Len(loop'.plan)
    BY <1>1 DEF Core, TypeOK
<1>4. SpendCapped' /\ CancelStops' /\ Frames' /\ Brakes'
    BY <1>1, <1>2 DEF Core, Frames, Brakes, AskedHere, SpendCapped, PlanCost, cost_for, CancelStops, Margin, At
<1> QED
    BY <1>1, <1>2, <1>3, <1>4, CoreIntro

\* The death of the driver: the ledger and the flag outlive it.
LEMMA CrashStep == ASSUME Core, Crash PROVE Core'
<1>1. /\ UNCHANGED <<case, run, saved, ledger, asked, late, worker, trace, results>>
      /\ run.status = "running" /\ crashes' = crashes + 1
      /\ loop' = [FirstFrame EXCEPT !.lines = saved]
    BY DEF Crash, coreVars, historyVars, hostVars
<1>2. loop' \in FrameType /\ loop'.pc = "check" /\ loop'.plan = <<>> /\ loop'.index = 0
    BY <1>1, FirstFrameTyped DEF Core, TypeOK
<1>3. /\ saved' \in Nat /\ ledger' \in Nat /\ asked' \in Nat /\ late' \in Nat /\ crashes' \in Nat
      /\ trace' \in Seq(ToSet(trace')) /\ results' \in Seq(ToSet(results'))
      /\ run' \in [status: {"running", "completed", "cancelled"}, cancel: BOOLEAN]
    BY <1>1 DEF Core, TypeOK
<1>4. SpendCapped' /\ CancelStops' /\ Frames' /\ loop'.index \in 0..Len(loop'.plan)
    BY <1>1, <1>2 DEF Core, Frames, SpendCapped, PlanCost, cost_for, CancelStops, Margin
<1>5. asked' <= MaxIterations * crashes'
    <2>1. /\ asked <= MaxIterations * crashes + MaxIterations
          /\ MaxIterations \in Nat /\ crashes \in Nat
        BY OneLife
    <2>2. MaxIterations * (crashes + 1) = MaxIterations * crashes + MaxIterations
        BY <2>1
    <2> QED
        BY <1>1, <2>1, <2>2
<1>6. Brakes'
    <2>1. asked' <= MaxIterations * crashes' + 0
        <3>1. MaxIterations * crashes' \in Nat
            BY <1>3, LoopAssumption
        <3> QED
            BY <1>3, <1>5, <3>1
    <2>2. AskedHere' = 0
        BY <1>1, <1>2 DEF AskedHere, FirstFrame
    <2> HIDE DEF AskedHere
    <2> QED
        BY <1>1, <1>2, <2>1, <2>2 DEF Core, Brakes
<1> QED
    BY <1>1, <1>2, <1>3, <1>4, <1>6, CoreIntro

\* The cancel flag may be set anywhere in the loop.
LEMMA CancelStep == ASSUME Core, NEW principal, Cancel(principal) PROVE Core'
<1>1. /\ UNCHANGED <<case, loop, saved, ledger, asked, late, crashes, worker, trace, results>>
      /\ run.status = "running" /\ run' = [run EXCEPT !.cancel = TRUE]
    BY DEF Cancel, coreVars, historyVars, hostVars
<1>2. /\ run' \in [status: {"running", "completed", "cancelled"}, cancel: BOOLEAN]
      /\ run'.cancel = TRUE /\ run'.status = "running"
    BY <1>1 DEF Core, TypeOK
<1>3. /\ saved' \in Nat /\ ledger' \in Nat /\ asked' \in Nat /\ late' \in Nat /\ crashes' \in Nat
      /\ trace' \in Seq(ToSet(trace')) /\ results' \in Seq(ToSet(results'))
      /\ loop' \in FrameType /\ loop'.index \in 0..Len(loop'.plan)
    BY <1>1 DEF Core, TypeOK
<1>4. SpendCapped' /\ CancelStops' /\ Frames' /\ Brakes'
    BY <1>1, <1>2 DEF Core, Frames, Brakes, AskedHere, SpendCapped, PlanCost, cost_for, CancelStops, Margin
<1> QED
    BY <1>1, <1>2, <1>3, <1>4, CoreIntro

\* A step that moves neither the loop nor its budgets.
LEMMA WorkerStep ==
    ASSUME Core, UNCHANGED <<case, loop, run, saved, ledger, asked, late, crashes, worker, trace>>,
           results' \in Seq(ToSet(results'))
    PROVE  Core'
<1>1. /\ saved' \in Nat /\ ledger' \in Nat /\ asked' \in Nat /\ late' \in Nat /\ crashes' \in Nat
      /\ trace' \in Seq(ToSet(trace'))
      /\ run' \in [status: {"running", "completed", "cancelled"}, cancel: BOOLEAN]
      /\ loop' \in FrameType /\ loop'.index \in 0..Len(loop'.plan)
    BY DEF Core, TypeOK
<1>2. SpendCapped' /\ CancelStops' /\ Frames' /\ Brakes'
    BY DEF Core, Frames, Brakes, AskedHere, SpendCapped, PlanCost, cost_for, CancelStops, Margin
<1> QED
    BY <1>1, <1>2, CoreIntro

\* The agent that a worker process picks is one of those it was started with.
LEMMA Picked ==
    ASSUME NEW agents, NEW type, agents \in Seq(ToSet(agents)),
           agent_for_task_type(agents, type) # NoAgent
    PROVE  agent_for_task_type(agents, type) \in ToSet(agents)
<1> DEFINE serving == {i \in DOMAIN agents : type \in agents[i].accepted_task_types}
<1>1. serving # {} /\ agent_for_task_type(agents, type) = agents[Max(serving)]
    BY DEF agent_for_task_type
<1>2. DOMAIN agents = 1..Len(agents) /\ Len(agents) \in Nat
    OBVIOUS
<1>3. serving \in SUBSET (1..Len(agents))
    BY <1>2
<1> HIDE DEF serving
<1>4. Max(serving) \in 1..Len(agents)
    BY <1>1, <1>2, <1>3, LastPlace
<1> QED
    BY <1>1, <1>2, <1>4 DEF ToSet

\* The result that the agent of the message's worker process gives.
Result(message) ==
    [step |-> message.key.step,
     version |-> agent_for_task_type(case.agents[message.queue], message.key.task_type).version,
     task_type |-> message.key.task_type, message |-> message]

\* A worker leaves the results as they are, or appends one for the message it took.
LEMMA Handled ==
    ASSUME Core, NEW message \in queue, NEW reply, WorkerHandles(message, reply)
    PROVE  \/ results' = results
           \/ /\ results' = Append(results, Result(message))
              /\ ToSet(results') = ToSet(results) \cup {Result(message)}
              /\ results' \in Seq(ToSet(results'))
              /\ case.worker.require_signature =>
                    VerifyHeaders(build_signer(case.worker), message.headers)
              /\ Served(Result(message))
<1> DEFINE result == Result(message)
           agents == case.agents[message.queue]
           agent == agent_for_task_type(agents, message.key.task_type)
<1>1. results \in Seq(ToSet(results))
    BY DEF Core, TypeOK
<1>2. CASE results' # results
    <2>1. /\ results' = Append(results, result) /\ message.queue \in DOMAIN case.agents
          /\ case.worker.require_signature =>
                VerifyHeaders(build_signer(case.worker), message.headers)
          /\ agent # NoAgent
        BY <1>2 DEF WorkerHandles, Result
    <2>2. ToSet(results') = ToSet(results) \cup {result} /\ results' \in Seq(ToSet(results'))
        <3> HIDE DEF result
        <3> QED
            BY <1>1, <2>1, Appended
    <2>3. agents \in Seq(ToSet(agents))
        BY <2>1, LoopAssumption DEF Core, TypeOK
    <2>4. agent \in ToSet(agents)
        <3> HIDE DEF agents
        <3> QED
            BY <2>1, <2>3, Picked
    <2>5. Served(result)
        <3>1. result.version = agent.version /\ result.step = message.key.step /\ result.message = message
            BY DEF Result
        <3> HIDE DEF result, agent
        <3> QED
            BY <2>1, <2>4, <3>1 DEF Served
    <2> QED
        BY <2>1, <2>2, <2>5
<1> QED
    BY <1>2

\* Every step keeps the loop within its budgets.
LEMMA CoreStep == ASSUME Core, RegistryKept, [Next]_vars PROVE Core'
<1>1. CASE LoopStep
    BY <1>1, CheckCancelStep, PlanStep, GateStep, IteratedStep, DispatchQueueStep, AppendTraceStep,
       GenerateStep, KeepReplyStep, CompleteStep DEF LoopStep
<1>2. CASE Crash
    BY <1>2, CrashStep
<1>3. ASSUME NEW message \in queue, NEW reply \in case.replies, WorkerHandles(message, reply)
      PROVE  Core'
    <2>1. UNCHANGED <<case, loop, run, saved, ledger, asked, late, crashes, worker, trace>>
        BY <1>3 DEF WorkerHandles, coreVars, historyVars
    <2>2. results' \in Seq(ToSet(results'))
        <3>1. CASE results' = results
            BY <3>1 DEF Core, TypeOK
        <3> QED
            BY <1>3, <3>1, Handled
    <2> QED
        BY <2>1, <2>2, WorkerStep
<1>4. ASSUME UNCHANGED <<case, loop, run, saved, ledger, asked, late, crashes, worker, trace, results>>
      PROVE  Core'
    <2>1. results' \in Seq(ToSet(results'))
        BY <1>4 DEF Core, TypeOK
    <2> QED
        BY <1>4, <2>1, WorkerStep
<1>5. ASSUME NEW id, Revoke(id) \/ Reimport(id) PROVE Core'
    BY <1>4, <1>5 DEF Revoke, Reimport, coreVars, historyVars, hostVars
<1>6. ASSUME NEW id, Consult(id) PROVE Core'
    BY <1>4, <1>6 DEF Consult, coreVars, historyVars
<1>7. ASSUME NEW principal, Cancel(principal) PROVE Core'
    BY <1>7, CancelStep
<1>8. CASE List \/ Show \/ Promote
    BY <1>4, <1>8 DEF List, Show, Promote, coreVars, historyVars, hostVars
<1>9. CASE UNCHANGED vars
    BY <1>4, <1>9 DEF vars, coreVars, historyVars, hostVars
<1> QED
    BY <1>1, <1>2, <1>3, <1>5, <1>6, <1>7, <1>8, <1>9 DEF Next

-----------------------------------------------------------------------------
(* The registry.                                                           *)

\* A revocation takes a manifest away; an import gives it back with its scopes.
LEMMA RegistryStep == ASSUME Core, RegistryKept, [Next]_vars PROVE RegistryKept'
<1>1. CASE UNCHANGED <<case, manifests, moved>>
    BY <1>1 DEF RegistryKept
<1>2. CASE LoopStep
    BY <1>1, <1>2 DEF LoopStep, CheckCancel, Plan, Gate, Iterated, DispatchQueue, AppendTrace,
                      Generate, KeepReply, Complete
<1>3. CASE Crash \/ List \/ Show \/ Promote
    BY <1>1, <1>3 DEF Crash, List, Show, Promote
<1>4. ASSUME NEW message, NEW reply, WorkerHandles(message, reply) PROVE RegistryKept'
    BY <1>1, <1>4 DEF WorkerHandles
<1>5. ASSUME NEW id, Consult(id) \/ Cancel(id) PROVE RegistryKept'
    BY <1>1, <1>5 DEF Consult, Cancel
<1>6. ASSUME NEW id, Revoke(id) PROVE RegistryKept'
    <2>1. /\ manifests' = [i \in {i \in DOMAIN manifests : manifests[i].id # id} |-> manifests[i]]
          /\ moved' = TRUE /\ case' = case
        BY <1>6 DEF Revoke, Restrict
    <2> QED
        BY <2>1 DEF RegistryKept
<1>7. ASSUME NEW id, Reimport(id) PROVE RegistryKept'
    <2>1. /\ DOMAIN manifests' = DOMAIN manifests /\ moved' = TRUE /\ case' = case
          /\ \A i \in DOMAIN manifests : manifests'[i] =
                IF manifests[i].id # id THEN manifests[i]
                ELSE agent_card_to_manifest(manifest_to_agent_card(manifests[i]))
        BY <1>7 DEF Reimport
    <2>2. ASSUME NEW m
          PROVE  LET n == agent_card_to_manifest(manifest_to_agent_card(m))
                 IN  /\ n.version = m.version /\ n.queue = Unset
                     /\ n.metadata.maof_id = Unset /\ ~Overwrites(n)
                     /\ n.id \in {m.id, m.metadata.maof_id}
                     /\ Overwrites(m) \/ (n.id = m.id /\ n.rbac_scopes = m.rbac_scopes)
        BY DEF agent_card_to_manifest, manifest_to_agent_card, NoMetadata, Overwrites
    <2>3. ASSUME NEW i \in DOMAIN manifests'
          PROVE  LET m == case.manifests[i]
                     n == manifests'[i]
                 IN  /\ n.version = m.version /\ n.queue \in {Unset, m.queue}
                     /\ \/ /\ n.id = m.id /\ n.rbac_scopes = m.rbac_scopes
                           /\ Overwrites(n) => Overwrites(m)
                           /\ n.metadata.maof_id \in {Unset, m.metadata.maof_id}
                        \/ Overwrites(m) /\ n.id \in {m.id, m.metadata.maof_id}
        <3> DEFINE m == case.manifests[i]
                   old == manifests[i]
                   n == manifests'[i]
        <3>1. /\ old.version = m.version /\ old.queue \in {Unset, m.queue}
              /\ \/ /\ old.id = m.id /\ old.rbac_scopes = m.rbac_scopes
                    /\ Overwrites(old) => Overwrites(m)
                    /\ old.metadata.maof_id \in {Unset, m.metadata.maof_id}
                 \/ Overwrites(m) /\ old.id \in {m.id, m.metadata.maof_id}
            BY <2>1 DEF RegistryKept
        <3>2. CASE n = old
            BY <3>1, <3>2
        <3>3. CASE n = agent_card_to_manifest(manifest_to_agent_card(old))
            <4>1. ~moved => old = m
                BY <2>1 DEF RegistryKept
            <4>2. ~moved
                BY <1>7 DEF Reimport
            <4>3. /\ n.version = m.version /\ n.queue = Unset
                  /\ n.metadata.maof_id = Unset /\ ~Overwrites(n)
                  /\ n.id \in {m.id, m.metadata.maof_id}
                  /\ Overwrites(m) \/ (n.id = m.id /\ n.rbac_scopes = m.rbac_scopes)
                BY <2>2, <3>3, <4>1, <4>2
            <4> QED
                BY <4>3
        <3> QED
            BY <2>1, <3>2, <3>3
    <2> QED
        BY <2>1, <2>3 DEF RegistryKept, Overwrites
<1>8. CASE UNCHANGED vars
    BY <1>1, <1>8 DEF vars
<1> QED
    BY <1>2, <1>3, <1>4, <1>5, <1>6, <1>7, <1>8 DEF Next

-----------------------------------------------------------------------------
(* The tasks that were sent.                                               *)

\* Only a dispatch sends a task; a worker moves one from the queue to the results.
LEMMA SentFrame ==
    ASSUME Core, [Next]_vars, ~DispatchQueue
    PROVE  /\ Sent' \subseteq Sent /\ UNCHANGED <<case, worker>> /\ (moved => moved')
           /\ \A r \in ToSet(results') : r \in ToSet(results) \/ Served(r)
<1>1. CASE UNCHANGED <<queue, results, case, worker>> /\ (moved => moved')
    <2>1. Sent' = Sent
        BY <1>1 DEF Sent
    <2>2. ToSet(results') = ToSet(results)
        BY <1>1
    <2> QED
        BY <1>1, <2>1, <2>2
<1>2. CASE LoopStep
    BY <1>1, <1>2 DEF LoopStep, CheckCancel, Plan, Gate, Iterated, AppendTrace, Generate,
                      KeepReply, Complete, hostVars
<1>3. CASE Crash \/ List \/ Show \/ Promote
    BY <1>1, <1>3 DEF Crash, List, Show, Promote, hostVars
<1>4. ASSUME NEW message \in queue, NEW reply, WorkerHandles(message, reply)
      PROVE  /\ Sent' \subseteq Sent /\ UNCHANGED <<case, worker, moved>>
             /\ \A r \in ToSet(results') : r \in ToSet(results) \/ Served(r)
    <2> DEFINE result == Result(message)
    <2>1. queue' \subseteq queue /\ UNCHANGED <<case, worker, moved>>
        BY <1>4 DEF WorkerHandles
    <2>2. CASE results' = results
        <3>1. Sent' \subseteq Sent
            BY <2>1, <2>2 DEF Sent
        <3>2. ToSet(results') = ToSet(results)
            BY <2>2
        <3> QED
            BY <2>1, <3>1, <3>2
    <2>3. CASE ToSet(results') = ToSet(results) \cup {result} /\ Served(result)
        <3>1. result.message = message
            BY DEF Result
        <3> HIDE DEF result
        <3>2. Sent' \subseteq Sent
            <4>1. ASSUME NEW r \in ToSet(results') PROVE r.message \in Sent
                BY <2>3, <3>1 DEF Sent
            <4> QED
                BY <2>1, <4>1 DEF Sent
        <3> QED
            BY <2>1, <2>3, <3>1, <3>2
    <2> QED
        BY <1>4, <2>2, <2>3, Handled
<1>5. ASSUME NEW id, Revoke(id) \/ Reimport(id) \/ Cancel(id)
      PROVE  UNCHANGED <<queue, results, case, worker>> /\ (moved => moved')
    BY <1>5 DEF Revoke, Reimport, Cancel, hostVars
<1>6. ASSUME NEW id, Consult(id) PROVE UNCHANGED <<queue, results, case, worker, moved>>
    BY <1>6 DEF Consult
<1>7. CASE UNCHANGED vars
    BY <1>1, <1>7 DEF vars, hostVars
<1> QED
    BY <1>1, <1>2, <1>3, <1>4, <1>5, <1>6, <1>7 DEF Next

\* The message of a dispatch.
Message == LET manifest == resolve_queue(Delegation, manifests, case)
           IN  [key |-> make_idempotency_key, id |-> manifest.id, queue |-> manifest.queue,
                version |-> manifest.version, headers |-> Headers(build_signer(case.l1)),
                delegation |-> Delegation]

\* A dispatch sends nothing, or one task.
LEMMA SentByDispatch ==
    ASSUME Core, DispatchQueue
    PROVE  /\ UNCHANGED <<case, worker, moved, results, clients, crashes, trace>>
           /\ \/ Sent' \subseteq Sent
              \/ /\ resolve_queue(Delegation, manifests, case) # Refused
                 /\ loop' = [loop EXCEPT !.pc = "trace", !.version = Message.version]
                 /\ Sent' \subseteq Sent \cup {Message}
<1> DEFINE manifest == resolve_queue(Delegation, manifests, case)
<1>1. UNCHANGED <<case, worker, moved, results, clients, crashes, trace>>
    BY DEF DispatchQueue
<1>2. CASE manifest = Refused
    BY <1>1, <1>2 DEF DispatchQueue, Sent
<1>3. CASE manifest # Refused
    <2>1. /\ loop' = [loop EXCEPT !.pc = "trace", !.version = manifest.version]
          /\ queue' \subseteq queue \cup {Message}
        BY <1>3 DEF DispatchQueue, Message
    <2>2. Message.version = manifest.version
        BY DEF Message
    <2> HIDE DEF manifest
    <2> QED
        BY <1>1, <1>3, <2>1, <2>2 DEF Sent, manifest
<1> QED
    BY <1>2, <1>3

\* A task stays routed: the registry only ever moves on.
LEMMA RoutedTaskFrame ==
    ASSUME case' = case, moved => moved', NEW m, RoutedTask(m)
    PROVE  RoutedTask(m)'
BY DEF RoutedTask, Permits, Eligible

\* So do the results.
LEMMA ServedFrame ==
    ASSUME case' = case, NEW r, Served(r)
    PROVE  Served(r)'
BY DEF Served

\* Every step keeps what was sent within the registry, the pins and the scopes.
LEMMA RoutedStep == ASSUME Core, RegistryKept, Routed, [Next]_vars PROVE Routed'
<1>1. ASSUME ~DispatchQueue, UNCHANGED clients PROVE Routed'
    <2>1. /\ Sent' \subseteq Sent /\ UNCHANGED <<case, worker>> /\ (moved => moved')
          /\ \A r \in ToSet(results') : r \in ToSet(results) \/ Served(r)
        BY <1>1, SentFrame
    <2>2. \A m \in Sent' : RoutedTask(m)'
        BY <2>1, RoutedTaskFrame DEF Routed
    <2>3. \A r \in ToSet(results') : Served(r)'
        BY <2>1, ServedFrame DEF Routed
    <2>4. \A id \in clients' : (\E m \in ToSet(case.manifests) : Permits(m, id))'
        BY <1>1, <2>1 DEF Routed, Permits
    <2>5. worker' = StartWorker'
        BY <2>1 DEF Routed, StartWorker
    <2> QED
        BY <2>2, <2>3, <2>4, <2>5 DEF Routed
<1>2. CASE DispatchQueue
    <2>1. UNCHANGED <<case, worker, moved, results, clients>>
        BY <1>2, SentByDispatch
    <2>2. \A m \in Sent' : RoutedTask(m)'
        <3>1. ASSUME NEW m \in Sent PROVE RoutedTask(m)'
            BY <2>1, RoutedTaskFrame DEF Routed
        <3>2. ASSUME resolve_queue(Delegation, manifests, case) # Refused, NEW m, m = Message
              PROVE  RoutedTask(m)'
            <4> DEFINE manifest == resolve_queue(Delegation, manifests, case)
                       d == Delegation
            <4>1. /\ \/ manifest.id = Unset /\ manifest.version = Unset
                     \/ \E a \in ToSet(case.manifests) : /\ a.version = manifest.version
                                                          /\ a.queue = manifest.queue
                                                          /\ Permits(a, manifest.id)
                  /\ d.pin # Unset => manifest.version \in {Unset, d.pin}
                  /\ ~moved => /\ d.pin # Unset => (manifest.version = Unset <=> Eligible(d) = {})
                               /\ candidates(d, case.manifests, case) # {}
                                     => pinned(d, case.manifests, case) # {}
                BY <3>2, Routes DEF Core, TypeOK
            <4>2. /\ m.id = manifest.id /\ m.version = manifest.version
                  /\ m.queue = manifest.queue /\ m.delegation = d
                BY <3>2 DEF Message
            <4> HIDE DEF d
            <4> HIDE DEF manifest
            <4>3. RoutedTask(m)
                BY <4>1, <4>2 DEF RoutedTask
            <4> QED
                BY <2>1, <4>3, RoutedTaskFrame
        <3> QED
            BY <1>2, <3>1, <3>2, SentByDispatch
    <2>3. \A r \in ToSet(results') : Served(r)'
        BY <2>1, ServedFrame DEF Routed
    <2>4. \A id \in clients' : (\E m \in ToSet(case.manifests) : Permits(m, id))'
        BY <2>1 DEF Routed, Permits
    <2>5. worker' = StartWorker'
        BY <2>1 DEF Routed, StartWorker
    <2> QED
        BY <2>2, <2>3, <2>4, <2>5 DEF Routed
<1>3. ASSUME NEW id, Consult(id) PROVE Routed'
    <2>1. UNCHANGED <<case, worker, moved, results, queue>> /\ clients' = clients \cup {id}
        BY <1>3 DEF Consult, coreVars, historyVars
    <2>2. \E m \in ToSet(case.manifests) : Permits(m, id)
        <3>1. CASE id \in clients
            BY <3>1 DEF Routed
        <3>2. ASSUME NEW m \in ToSet(manifests), m.id = id, scopes_granted(m, case.tenant, NoPrincipal)
              PROVE  \E n \in ToSet(case.manifests) : Permits(n, id)
            <4>1. PICK i \in DOMAIN manifests : m = manifests[i]
                BY DEF ToSet
            <4> QED
                BY <3>2, <4>1, StillPermitted
        <3> QED
            BY <1>3, <3>1, <3>2 DEF Consult
    <2>3. \A m \in Sent' : RoutedTask(m)'
        BY <2>1, RoutedTaskFrame DEF Routed, Sent
    <2>4. \A r \in ToSet(results') : Served(r)'
        BY <2>1, ServedFrame DEF Routed
    <2>5. \A c \in clients' : (\E m \in ToSet(case.manifests) : Permits(m, c))'
        BY <2>1, <2>2 DEF Routed, Permits
    <2>6. worker' = StartWorker'
        BY <2>1 DEF Routed, StartWorker
    <2> QED
        BY <2>3, <2>4, <2>5, <2>6 DEF Routed
<1> QED
    <2>1. CASE DispatchQueue
        BY <1>2, <2>1
    <2>2. CASE ~DispatchQueue
        <3>1. CASE LoopStep \/ Crash \/ List \/ Show \/ Promote
            BY <1>1, <2>2, <3>1 DEF LoopStep, CheckCancel, Plan, Gate, Iterated, AppendTrace,
               Generate, KeepReply, Complete, Crash, List, Show, Promote, hostVars
        <3>2. ASSUME NEW message \in queue, NEW reply, WorkerHandles(message, reply) PROVE Routed'
            BY <1>1, <2>2, <3>2 DEF WorkerHandles
        <3>3. ASSUME NEW id, Revoke(id) \/ Reimport(id) \/ Cancel(id) PROVE Routed'
            BY <1>1, <2>2, <3>3 DEF Revoke, Reimport, Cancel, hostVars
        <3>4. CASE UNCHANGED vars
            BY <1>1, <2>2, <3>4 DEF vars, hostVars
        <3> QED
            BY <1>3, <3>1, <3>2, <3>3, <3>4 DEF Next
    <2> QED
        BY <2>1, <2>2

\* The loop never goes back in its first life: what was earlier stays earlier.
LEMMA EarlierKept ==
    ASSUME loop.iteration \in Nat, loop.index \in Nat, loop'.iteration \in Nat, loop'.index \in Nat,
           \/ loop'.iteration = loop.iteration /\ loop'.index >= loop.index
           \/ loop'.iteration > loop.iteration,
           NEW step, Earlier(step)
    PROVE  Earlier(step)'
<1>1. step \in {Unset} \X Nat \X Nat /\ step[2] \in Nat /\ step[3] \in Nat
    BY DEF Earlier
<1> QED
    BY <1>1 DEF Earlier

\* The step that the loop is at is not an earlier one, and is one after the next result.
LEMMA StepRef ==
    ASSUME Core
    PROVE  /\ loop.iteration \in Nat /\ loop.index \in Nat
           /\ step_ref[1] = Unset =>
                 /\ step_ref \in {Unset} \X Nat \X Nat
                 /\ step_ref[2] = loop.iteration /\ step_ref[3] = loop.index
           /\ ~Earlier(step_ref)
<1>1. loop.iteration \in Nat /\ loop.index \in Nat
    BY LoopAssumption DEF Core, TypeOK, FrameType
<1>2. CASE Delegation.step_ref = Unset
    <2>1. step_ref = <<Unset, loop.iteration, loop.index>>
        BY <1>2 DEF step_ref
    <2> QED
        BY <1>1, <2>1 DEF Earlier
<1>3. CASE Delegation.step_ref # Unset
    <2>1. step_ref = <<Delegation.step_ref, 0, 0>>
        BY <1>3 DEF step_ref
    <2>2. step_ref[1] # Unset
        BY <1>3, <2>1
    <2> QED
        BY <1>1, <2>2 DEF Earlier
<1> QED
    BY <1>2, <1>3

\* A step that sends no task and writes no trace entry keeps the agreement of the two.
LEMMA TraceFrame ==
    ASSUME Core, TraceAgrees, Sent' \subseteq Sent, UNCHANGED <<trace, crashes>>,
           loop' = loop \/ loop.pc # "trace", loop'.iteration \in Nat, loop'.index \in Nat,
           \/ loop'.iteration = loop.iteration /\ loop'.index >= loop.index
           \/ loop'.iteration > loop.iteration
    PROVE  TraceAgrees'
<1> SUFFICES ASSUME crashes = 0
             PROVE  /\ \A t \in ToSet(trace') : t.step[1] = Unset => Earlier(t.step)'
                    /\ \A m \in Sent' : m.key.step[1] = Unset => Traced(m)'
    BY DEF TraceAgrees
<1>1. ASSUME NEW step, Earlier(step) PROVE Earlier(step)'
    BY <1>1, EarlierKept, StepRef
<1>2. ToSet(trace') = ToSet(trace)
    OBVIOUS
<1>3. \A t \in ToSet(trace) : t.step[1] = Unset => Earlier(t.step)'
    BY <1>1 DEF TraceAgrees
<1>4. ASSUME NEW m \in Sent, m.key.step[1] = Unset PROVE Traced(m)'
    <2>1. Traced(m)
        BY <1>4 DEF TraceAgrees
    <2>2. CASE Earlier(m.key.step) /\ \E t \in ToSet(trace) : t.step = m.key.step
        <3>1. Earlier(m.key.step)'
            BY <1>1, <2>2
        <3> QED
            BY <1>2, <2>1, <2>2, <3>1 DEF Traced
    <2>3. CASE loop.pc = "trace" /\ m.key.step = step_ref /\ m.version = loop.version
        <3>1. loop' = loop /\ step_ref' = step_ref
            BY <2>3 DEF step_ref, Delegation
        <3> QED
            BY <1>2, <2>1, <2>3, <3>1 DEF Traced
    <2> QED
        BY <2>1, <2>2, <2>3 DEF Traced
<1> QED
    BY <1>2, <1>3, <1>4

\* A task is sent under a step that no entry of the trace has.
LEMMA TraceDispatch == ASSUME Core, RegistryKept, TraceAgrees, DispatchQueue PROVE TraceAgrees'
<1>1. /\ UNCHANGED <<trace, crashes>> /\ loop.pc = "dispatch"
      /\ loop.iteration \in Nat /\ loop.index \in Nat
    BY StepRef DEF DispatchQueue, At
<1>2. loop \in FrameType /\ case \in Cases
    BY DEF Core, TypeOK
<1>3. loop'.iteration = loop.iteration /\ loop'.index = loop.index /\ loop'.plan = loop.plan
    <2> DEFINE manifest == resolve_queue(Delegation, manifests, case)
    <2>1. CASE manifest = Refused
        <3>1. loop' = [loop EXCEPT !.pc = "raised"]
            BY <2>1 DEF DispatchQueue
        <3> QED
            BY <1>2, <3>1, Moved DEF Points
    <2>2. CASE manifest # Refused
        <3>1. manifest.version \in Versions /\ loop' = [loop EXCEPT !.pc = "trace", !.version = manifest.version]
            BY <1>2, <2>2, Routes DEF DispatchQueue
        <3> HIDE DEF manifest
        <3> QED
            BY <1>2, <3>1, Dispatched
    <2> QED
        BY <2>1, <2>2
<1>4. CASE Sent' \subseteq Sent
    BY <1>1, <1>3, <1>4, TraceFrame
<1>5. ASSUME resolve_queue(Delegation, manifests, case) # Refused,
             loop' = [loop EXCEPT !.pc = "trace", !.version = Message.version],
             Sent' \subseteq Sent \cup {Message}
      PROVE  TraceAgrees'
    <2> SUFFICES ASSUME crashes = 0
                 PROVE  /\ \A t \in ToSet(trace') : t.step[1] = Unset => Earlier(t.step)'
                        /\ \A m \in Sent' : m.key.step[1] = Unset => Traced(m)'
        BY <1>1 DEF TraceAgrees
    <2>1. ASSUME NEW step, Earlier(step) PROVE Earlier(step)'
        BY <1>3, <2>1 DEF Earlier
    <2>2. ToSet(trace') = ToSet(trace)
        BY <1>1
    <2>3. \A t \in ToSet(trace) : t.step[1] = Unset => Earlier(t.step)'
        BY <2>1 DEF TraceAgrees
    <2>4. ASSUME NEW m \in Sent, m.key.step[1] = Unset PROVE Traced(m)'
        <3>1. /\ Earlier(m.key.step) /\ \E t \in ToSet(trace) : t.step = m.key.step
              /\ \A t \in ToSet(trace) : t.step = m.key.step => t.version = m.version
            BY <1>1, <2>4 DEF TraceAgrees, Traced
        <3>2. Earlier(m.key.step)'
            BY <2>1, <3>1
        <3> QED
            BY <2>2, <3>1, <3>2 DEF Traced
    <2>5. ASSUME NEW m, m = Message, m.key.step[1] = Unset PROVE Traced(m)'
        <3>1. m.key.step = step_ref
            BY <2>5 DEF Message, make_idempotency_key
        <3>2. step_ref' = step_ref
            BY <1>3 DEF step_ref, Delegation
        <3>3. Message.version \in Versions
            BY <1>2, <1>5, Routes DEF Message
        <3>4. loop'.pc = "trace" /\ loop'.version = m.version
            BY <1>2, <1>5, <2>5, <3>3, Dispatched
        <3>5. \A t \in ToSet(trace) : t.step # m.key.step
            BY <2>5, <3>1, StepRef DEF TraceAgrees
        <3> QED
            BY <2>2, <3>1, <3>2, <3>4, <3>5 DEF Traced
    <2> QED
        BY <1>5, <2>2, <2>3, <2>4, <2>5
<1> QED
    BY <1>4, <1>5, SentByDispatch

\* The entry of the task just sent is written before the loop leaves its step.
LEMMA TraceAppend == ASSUME Core, TraceAgrees, AppendTrace PROVE TraceAgrees'
<1> DEFINE entry == [step |-> step_ref, version |-> loop.version]
<1>1. /\ loop' = Collected /\ loop.pc = "trace" /\ UNCHANGED <<queue, results, crashes, case, run, ledger, asked, late>>
      /\ trace' = Append(trace, entry)
    BY DEF AppendTrace, At, hostVars, historyVars
<1>2. ToSet(trace') = ToSet(trace) \cup {entry}
    BY <1>1, Appended DEF Core, TypeOK
<1>3. loop'.iteration = loop.iteration /\ loop'.index = loop.index + 1
    BY <1>1, CollectedCore
<1>4. /\ entry.step = step_ref /\ entry.version = loop.version /\ ~Earlier(step_ref)
      /\ loop.iteration \in Nat /\ loop.index \in Nat
      /\ step_ref[1] = Unset => /\ step_ref \in {Unset} \X Nat \X Nat
                                /\ step_ref[2] = loop.iteration /\ step_ref[3] = loop.index
    BY StepRef
<1> HIDE DEF entry
<1>5. Sent' = Sent
    BY <1>1 DEF Sent
<1>6. ASSUME NEW step, Earlier(step) \/ (step = step_ref /\ step[1] = Unset) PROVE Earlier(step)'
    <2>1. CASE Earlier(step)
        <3>1. step[2] \in Nat /\ step[3] \in Nat /\ step \in {Unset} \X Nat \X Nat
            BY <2>1 DEF Earlier
        <3> QED
            BY <1>3, <1>4, <2>1, <3>1 DEF Earlier
    <2>2. CASE step = step_ref /\ step[1] = Unset
        BY <1>3, <1>4, <2>2 DEF Earlier
    <2> QED
        BY <1>6, <2>1, <2>2
<1> SUFFICES ASSUME crashes = 0
             PROVE  /\ \A t \in ToSet(trace') : t.step[1] = Unset => Earlier(t.step)'
                    /\ \A m \in Sent' : m.key.step[1] = Unset => Traced(m)'
    BY <1>1 DEF TraceAgrees
<1>7. \A t \in ToSet(trace') : t.step[1] = Unset => Earlier(t.step)'
    BY <1>2, <1>4, <1>6 DEF TraceAgrees
<1>8. ASSUME NEW m \in Sent, m.key.step[1] = Unset PROVE Traced(m)'
    <2>1. Traced(m)
        BY <1>8 DEF TraceAgrees
    <2>2. CASE Earlier(m.key.step) /\ \E t \in ToSet(trace) : t.step = m.key.step
        <3>1. Earlier(m.key.step)' /\ m.key.step # step_ref
            BY <1>4, <1>6, <2>2
        <3> QED
            BY <1>2, <1>4, <2>1, <2>2, <3>1 DEF Traced
    <2>3. CASE m.key.step = step_ref /\ m.version = loop.version
        <3>1. Earlier(m.key.step)'
            BY <1>6, <1>8, <2>3
        <3> QED
            BY <1>2, <1>4, <2>1, <2>3, <3>1 DEF Traced
    <2> QED
        BY <2>1, <2>2, <2>3 DEF Traced
<1> QED
    BY <1>5, <1>7, <1>8

\* Every step keeps the trace of a first life in agreement with what it sent.
LEMMA TraceStep == ASSUME Core, RegistryKept, TraceAgrees, [Next]_vars PROVE TraceAgrees'
<1>1. loop \in FrameType /\ loop.iteration \in Nat /\ loop.index \in Nat
    BY StepRef DEF Core, TypeOK
<1>2. CASE DispatchQueue
    BY <1>2, TraceDispatch
<1>3. CASE AppendTrace
    BY <1>3, TraceAppend
<1>4. CASE Crash
    <2>1. crashes' # 0
        BY <1>4 DEF Crash, Core, TypeOK
    <2> QED
        BY <2>1 DEF TraceAgrees
<1>5. ASSUME ~DispatchQueue, UNCHANGED <<trace, crashes>>, loop.pc # "trace",
             loop'.iteration \in Nat, loop'.index \in Nat,
             \/ loop'.iteration = loop.iteration /\ loop'.index >= loop.index
             \/ loop'.iteration > loop.iteration
      PROVE  TraceAgrees'
    BY <1>5, SentFrame, TraceFrame
<1>6. ASSUME ~DispatchQueue, UNCHANGED <<trace, crashes>>, loop.pc # "trace", NEW p \in Points,
             loop' \in {[loop EXCEPT !.pc = p], [loop EXCEPT !.pc = p, !.lines = @ + 1]}
      PROVE  TraceAgrees'
    <2>1. loop'.iteration = loop.iteration /\ loop'.index = loop.index
        <3>1. CASE loop' = [loop EXCEPT !.pc = p]
            BY <1>1, <3>1, Moved
        <3>2. CASE loop' = [loop EXCEPT !.pc = p, !.lines = @ + 1]
            BY <1>1, <3>2, MovedWithLine
        <3> QED
            BY <1>6, <3>1, <3>2
    <2> QED
        BY <1>1, <1>5, <1>6, <2>1
<1>7. ASSUME ~DispatchQueue, UNCHANGED <<trace, crashes, loop>> PROVE TraceAgrees'
    <2>1. Sent' \subseteq Sent
        BY <1>7, SentFrame
    <2> QED
        BY <1>1, <1>7, <2>1, TraceFrame
<1> SUFFICES ASSUME ~DispatchQueue, ~AppendTrace, ~Crash PROVE TraceAgrees'
    BY <1>2, <1>3, <1>4
<1>8. CASE CheckCancel
    <2>1. /\ loop.pc = "check" /\ UNCHANGED <<trace, crashes>>
          /\ \E p \in {"done", "plan"} :
                loop' \in {[loop EXCEPT !.pc = p], [loop EXCEPT !.pc = p, !.lines = @ + 1]}
        BY <1>8 DEF CheckCancel, At, coreVars, historyVars
    <2> QED
        BY <1>6, <2>1 DEF Points
<1>9. CASE Gate
    <2>1. /\ loop.pc = "gate" /\ UNCHANGED <<trace, crashes>>
          /\ \E p \in {"save", "dispatch"} :
                loop' \in {[loop EXCEPT !.pc = p], [loop EXCEPT !.pc = p, !.lines = @ + 1]}
        BY <1>9 DEF Gate, At, coreVars, historyVars
    <2> QED
        BY <1>6, <2>1 DEF Points
<1>10. ASSUME NEW plan \in Plans, NEW reported \in BOOLEAN, Plan(plan, reported) PROVE TraceAgrees'
    <2>1. loop.pc = "plan" /\ UNCHANGED <<trace, crashes>> /\ loop.index = 0 /\ case \in Cases
        BY <1>10 DEF Plan, At, coreVars, historyVars, Core, Frames, TypeOK
    <2>2. CASE loop' \in {[loop EXCEPT !.pc = "done"], [loop EXCEPT !.pc = "done", !.lines = @ + 1]}
        BY <1>6, <2>1, <2>2 DEF Points
    <2>3. CASE loop' = [loop EXCEPT !.pc = "gate", !.plan = Slice(plan), !.index = 0]
        <3>1. Slice(plan) \in Seq(Delegations)
            BY <1>1, <2>1, PlansTyped, SliceFits DEF FrameType
        <3>2. loop'.iteration = loop.iteration /\ loop'.index = 0
            BY <1>1, <2>3, <3>1, Planned
        <3> QED
            BY <1>1, <1>5, <2>1, <3>2
    <2> QED
        BY <1>10, <2>2, <2>3 DEF Plan
<1>11. CASE Iterated
    <2>1. /\ loop.pc = "save" /\ UNCHANGED <<trace, crashes>> /\ loop.iteration < MaxIterations
          /\ loop' = [loop EXCEPT !.pc = "check", !.iteration = @ + 1, !.plan = <<>>, !.index = 0]
        BY <1>11 DEF Iterated, At, coreVars, historyVars, Core, Frames
    <2>2. loop'.iteration = loop.iteration + 1 /\ loop'.index = 0
        BY <1>1, <2>1, NextIteration
    <2> QED
        BY <1>1, <1>5, <2>1, <2>2
<1>12. ASSUME NEW reported \in BOOLEAN, Generate(reported) PROVE TraceAgrees'
    <2>1. loop.pc = "dispatch" /\ UNCHANGED <<trace, crashes>> /\ loop' = [loop EXCEPT !.pc = "generated"]
        BY <1>12 DEF Generate, At
    <2> QED
        BY <1>6, <2>1 DEF Points
<1>13. ASSUME KeepReply PROVE TraceAgrees'
    <2>1. /\ loop.pc = "generated" /\ UNCHANGED <<trace, crashes, case, run, ledger, asked, late>>
          /\ loop' = Collected
        BY <1>13 DEF KeepReply, At, coreVars, historyVars
    <2>2. loop'.iteration = loop.iteration /\ loop'.index = loop.index + 1
        BY <2>1, CollectedCore
    <2> QED
        BY <1>1, <1>5, <2>1, <2>2
<1>14. CASE Complete \/ List \/ Show \/ Promote
    BY <1>7, <1>14 DEF Complete, List, Show, Promote, coreVars, historyVars
<1>15. ASSUME NEW message \in queue, NEW reply, WorkerHandles(message, reply) PROVE TraceAgrees'
    BY <1>7, <1>15 DEF WorkerHandles, coreVars, historyVars
<1>16. ASSUME NEW id, Revoke(id) \/ Reimport(id) \/ Cancel(id) \/ Consult(id) PROVE TraceAgrees'
    BY <1>7, <1>16 DEF Revoke, Reimport, Cancel, Consult, coreVars, historyVars
<1>17. CASE UNCHANGED vars
    BY <1>7, <1>17 DEF vars, coreVars, historyVars
<1> QED
    BY <1>8, <1>9, <1>10, <1>11, <1>12, <1>13, <1>14, <1>15, <1>16, <1>17 DEF Next, LoopStep

-----------------------------------------------------------------------------
(* The theorems.                                                           *)

\* The run starts within all its limits.
LEMMA InitHolds == Init => LoopInv
<1> SUFFICES ASSUME Init PROVE LoopInv
    OBVIOUS
<1>1. /\ case \in Cases /\ loop = FirstFrame /\ run = [status |-> "running", cancel |-> FALSE]
      /\ saved = 0 /\ ledger = 0 /\ queue = {} /\ trace = <<>> /\ results = <<>>
      /\ manifests = case.manifests /\ clients = {}
      /\ worker = StartWorker /\ asked = 0 /\ late = 0 /\ crashes = 0
    BY DEF Init
<1>2. /\ loop \in FrameType /\ loop.pc = "check" /\ loop.index = 0 /\ loop.plan = <<>>
    <2>1. Unset \in Versions /\ <<>> \in Seq(Delegations) /\ 0 \in 0..MaxIterations /\ 0 \in 0..MaxSubagents
        BY LoopAssumption DEF Versions
    <2> QED
        BY <1>1, <2>1 DEF FirstFrame, FrameType, Points
<1>3. ToSet(trace) = {} /\ ToSet(results) = {}
    BY <1>1 DEF ToSet
<1>4. TypeOK
    <2>1. trace \in Seq(ToSet(trace)) /\ results \in Seq(ToSet(results))
        BY <1>1
    <2>2. worker \in {"up", "refused"}
        BY <1>1 DEF StartWorker
    <2>3. run \in [status: {"running", "completed", "cancelled"}, cancel: BOOLEAN]
        BY <1>1
    <2> QED
        BY <1>1, <1>2, <2>1, <2>2, <2>3 DEF TypeOK
<1>5. SpendBounded /\ CancelStops
    <2>1. case.lead \in Nat /\ MaxIterations \in Nat
        BY <1>1, LoopAssumption
    <2>2. PlanCost \in Nat
        BY <2>1 DEF PlanCost, cost_for
    <2>3. PlanCost * 0 = 0 /\ MaxIterations * 1 = MaxIterations /\ MaxIterations * 0 = 0
        <3>1. ASSUME NEW a \in Nat PROVE a * 0 = 0 /\ a * 1 = a
            OBVIOUS
        <3> HIDE DEF PlanCost
        <3> QED
            BY <2>1, <2>2, <3>1
    <2>4. Margin \in 0..CostCap /\ CostCap \in Nat /\ MaxSpend \in Nat
        BY LoopAssumption DEF Margin
    <2> HIDE DEF PlanCost, Margin
    <2> QED
        BY <1>1, <2>1, <2>3, <2>4 DEF SpendBounded, SpendCapped, PlansBounded, CancelStops
<1>6. Frames /\ Brakes
    <2>1. AskedHere = 0 /\ MaxIterations \in Nat
        BY <1>1, LoopAssumption DEF AskedHere, FirstFrame
    <2>2. MaxIterations * 0 = 0
        BY <2>1
    <2> HIDE DEF AskedHere
    <2> QED
        BY <1>1, <1>2, <2>1, <2>2 DEF Frames, Brakes
<1>8. RegistryKept
    BY <1>1 DEF RegistryKept
<1>9. Sent = {}
    BY <1>1, <1>3 DEF Sent
<1>10. Routed /\ TraceAgrees
    BY <1>1, <1>3, <1>9 DEF Routed, TraceAgrees
<1> QED
    BY <1>4, <1>5, <1>6, <1>8, <1>10 DEF LoopInv

\* Every life of the driver asks for at most max_iterations plans.
LEMMA PlansInCore == Core => PlansBounded
<1> SUFFICES ASSUME Core PROVE PlansBounded
    OBVIOUS
<1>1. /\ asked <= MaxIterations * crashes + MaxIterations
      /\ MaxIterations \in Nat /\ crashes \in Nat
    BY OneLife
<1>2. MaxIterations * (crashes + 1) = MaxIterations * crashes + MaxIterations
    BY <1>1
<1> QED
    BY <1>1, <1>2 DEF PlansBounded

\* Both brakes of OrchestratorLoop.run work in every deployment: beside its plans, which
\* max_iterations limits in every life, the ledger passes the cap by no more than one
\* subagent, and a cancelled run plans at most once more.
THEOREM BrakesWork == Spec => []LoopInv
<1> DEFINE Inductive == Core /\ RegistryKept /\ Routed /\ TraceAgrees
<1>1. Inductive /\ [Next]_vars => Inductive'
    <2> SUFFICES ASSUME Inductive, [Next]_vars PROVE Inductive'
        OBVIOUS
    <2>1. Core'
        BY CoreStep
    <2>2. RegistryKept'
        BY RegistryStep
    <2>3. Routed'
        BY RoutedStep
    <2>4. TraceAgrees'
        BY TraceStep
    <2> QED
        BY <2>1, <2>2, <2>3, <2>4
<1>2. LoopInv <=> Inductive
    BY PlansInCore DEF LoopInv, Core, SpendBounded
<1> HIDE DEF Inductive
<1> QED
    BY <1>1, <1>2, InitHolds, PTL DEF Spec

\* What promote_run reads of a finished first life: the trace has for every step that the
\* loop named the version that its task was sent to.
LEMMA VersionRecorded ==
    ASSUME LoopInv, crashes = 0, run.status = "completed", NEW r \in ToSet(results),
           r.step[1] = Unset
    PROVE  resolved_version(trace, r.step) = r.message.version
<1> DEFINE hits == {i \in DOMAIN trace : trace[i].step = r.step /\ trace[i].version # Unset}
<1>1. r.message \in Sent /\ r.step = r.message.key.step /\ loop.pc = "done"
    BY DEF LoopInv, Routed, Served, Sent, Frames
<1>2. /\ \E t \in ToSet(trace) : t.step = r.step
      /\ \A t \in ToSet(trace) : t.step = r.step => t.version = r.message.version
    BY <1>1 DEF LoopInv, TraceAgrees, Traced
<1>3. \A i \in DOMAIN trace : trace[i] \in ToSet(trace)
    BY DEF ToSet
<1>4. DOMAIN trace = 1..Len(trace) /\ Len(trace) \in Nat
    BY DEF LoopInv, TypeOK
<1>5. CASE hits = {}
    <2>1. PICK i \in DOMAIN trace : trace[i].step = r.step
        BY <1>2, InSequence
    <2>2. trace[i].version = r.message.version
        BY <1>2, <1>3, <2>1
    <2>3. trace[i].version = Unset
        BY <1>5, <2>1
    <2> QED
        BY <1>5, <2>2, <2>3 DEF resolved_version
<1>6. CASE hits # {}
    <2>1. hits \in SUBSET (1..Len(trace))
        BY <1>4
    <2> HIDE DEF hits
    <2>2. Max(hits) \in hits
        BY <1>4, <1>6, <2>1, LastPlace
    <2>3. trace[Max(hits)].version = r.message.version
        BY <1>2, <1>3, <2>2 DEF hits
    <2> QED
        BY <1>6, <2>3 DEF resolved_version, hits
<1> QED
    BY <1>5, <1>6

\* Without an identity in a multi-tenant deployment the operator holds no scope.
LEMMA NoIdentityNoScope ==
    ASSUME case.l1.tenancy_mode = "multi", case.l1.principal = NoPrincipal
    PROVE  Operator.scopes = {}
BY DEF Operator, resolve_operator_principal, service_principal

\* Access is checked before a run is shown, promoted, served or a client is built.
THEOREM AccessIsChecked == Spec => []AccessHolds
<1>1. LoopInv => ServedWithinScopes
    <2> SUFFICES ASSUME LoopInv, case.tenant # NoTenant PROVE ServedWithinScopes
        BY DEF ServedWithinScopes
    <2>1. ASSUME NEW m, scopes_granted(m, case.tenant, NoPrincipal)
          PROVE  m.rbac_scopes \subseteq case.tenant.scopes
        BY <2>1 DEF scopes_granted, held_scopes, NoPrincipal
    <2>2. ASSUME NEW m, NEW id, Permits(m, id) PROVE WithinScopes(m, id)
        BY <2>1, <2>2 DEF Permits, WithinScopes
    <2>3. ASSUME NEW id \in clients PROVE \E m \in ToSet(case.manifests) : WithinScopes(m, id)
        BY <2>2 DEF LoopInv, Routed
    <2>4. ASSUME NEW r \in ToSet(results), r.message.id # Unset
          PROVE  \E m \in ToSet(case.manifests) :
                    m.version = r.message.version /\ WithinScopes(m, r.message.id)
        <3>1. r.message \in Sent
            BY DEF Sent
        <3>2. \E m \in ToSet(case.manifests) :
                 m.version = r.message.version /\ Permits(m, r.message.id)
            BY <2>4, <3>1 DEF LoopInv, Routed, RoutedTask
        <3> QED
            BY <2>2, <3>2
    <2> QED
        BY <2>3, <2>4 DEF ServedWithinScopes
<1>2. Init => FailsClosed /\ SignedIntake
    BY DEF Init, FailsClosed, SignedIntake, ToSet
<1>3. FailsClosed /\ [Next]_vars => FailsClosed'
    <2> SUFFICES ASSUME FailsClosed, [Next]_vars, case'.l1.tenancy_mode = "multi",
                        case'.l1.principal = NoPrincipal
                 PROVE  "show" \notin shown' /\ draft' = <<>>
        BY DEF FailsClosed
    <2>1. CASE UNCHANGED <<case, shown, draft>>
        BY <2>1 DEF FailsClosed
    <2>2. CASE LoopStep \/ Crash
        BY <2>1, <2>2 DEF LoopStep, CheckCancel, Plan, Gate, Iterated, DispatchQueue, AppendTrace,
                          Generate, KeepReply, Complete, Crash, operatorVars
    <2>3. ASSUME NEW message, NEW reply, WorkerHandles(message, reply) PROVE UNCHANGED <<case, shown, draft>>
        BY <2>3 DEF WorkerHandles, operatorVars
    <2>4. ASSUME NEW id, Revoke(id) \/ Reimport(id) \/ Cancel(id) \/ Consult(id)
          PROVE  UNCHANGED <<case, shown, draft>>
        BY <2>4 DEF Revoke, Reimport, Cancel, Consult, operatorVars
    <2>5. CASE Show
        <3>1. case' = case /\ case.l1.tenancy_mode = "multi" /\ case.l1.principal = NoPrincipal
            BY <2>5 DEF Show
        <3> DEFINE tenant == resolve_tenant(case.l1, case.as_tenant)
        <3>2. tenant # Refused /\ "runs:read" \in Operator.scopes \cup tenant.scopes
            BY <2>5 DEF Show, require_run_read, require_scopes, held_scopes
        <3>3. tenant.scopes = {}
            BY <3>1, <3>2 DEF resolve_tenant
        <3> QED
            BY <3>1, <3>2, <3>3, NoIdentityNoScope
    <2>6. CASE Promote
        <3>1. case' = case /\ case.l1.tenancy_mode = "multi" /\ case.l1.principal = NoPrincipal
            BY <2>6 DEF Promote
        <3>2. "workflow:author" \in Operator.scopes \cup NoTenant.scopes
            BY <2>6 DEF Promote, require_scopes, held_scopes
        <3> QED
            BY <3>1, <3>2, NoIdentityNoScope DEF NoTenant
    <2>7. CASE List
        BY <2>7 DEF List, FailsClosed
    <2>8. CASE UNCHANGED vars
        BY <2>1, <2>8 DEF vars, operatorVars
    <2> QED
        BY <2>1, <2>2, <2>3, <2>4, <2>5, <2>6, <2>7, <2>8 DEF Next
<1>4. LoopInv /\ SignedIntake /\ [Next]_vars => SignedIntake'
    <2> SUFFICES ASSUME LoopInv, SignedIntake, [Next]_vars, case'.worker.require_signature,
                        NEW r \in ToSet(results')
                 PROVE  /\ r.message.headers.secret # Unset
                        /\ VerifyHeaders(build_signer(case'.worker), r.message.headers)
        BY DEF SignedIntake
    <2>0. Core
        BY DEF LoopInv, Core, SpendBounded
    <2>1. CASE UNCHANGED <<case, results>>
        BY <2>1 DEF SignedIntake
    <2>2. CASE LoopStep \/ Crash \/ List \/ Show \/ Promote
        BY <2>1, <2>2 DEF LoopStep, CheckCancel, Plan, Gate, Iterated, DispatchQueue, AppendTrace,
                          Generate, KeepReply, Complete, Crash, List, Show, Promote, hostVars
    <2>3. ASSUME NEW message \in queue, NEW reply, WorkerHandles(message, reply)
          PROVE  /\ r.message.headers.secret # Unset
                 /\ VerifyHeaders(build_signer(case'.worker), r.message.headers)
        <3>1. case' = case /\ worker = "up" /\ worker = StartWorker /\ case \in Cases
            BY <2>3 DEF WorkerHandles, LoopInv, Routed, TypeOK
        <3>2. CASE r \in ToSet(results)
            BY <3>1, <3>2 DEF SignedIntake
        <3>3. CASE r \notin ToSet(results)
            <4> DEFINE result == Result(message)
            <4>0. case.worker.require_signature
                BY <3>1
            <4>1. r.message = message /\ VerifyHeaders(build_signer(case.worker), message.headers)
                <5>1. results' # results
                    BY <3>3
                <5>2. /\ ToSet(results') = ToSet(results) \cup {result}
                      /\ VerifyHeaders(build_signer(case.worker), message.headers)
                    BY <2>0, <2>3, <4>0, <5>1, Handled, Zenon
                <5>3. result.message = message
                    BY DEF Result
                <5> HIDE DEF result
                <5> QED
                    BY <3>3, <5>2, <5>3
            <4>2. ensure_signing_configured(case.worker) /\ build_signer(case.worker) # Refused
                BY <3>1 DEF StartWorker
            <4>3. case.worker.provider \in {"env", "file", "vault"}
                BY <3>1, LoopAssumption
            <4>4. message.headers.secret # Unset
                <5> DEFINE settings == case.worker
                           headers == message.headers
                <5>1. /\ settings.provider \in {"env", "file", "vault"}
                      /\ settings.require_signature
                      /\ ensure_signing_configured(settings) /\ build_signer(settings) # Refused
                      /\ VerifyHeaders(build_signer(settings), headers)
                    BY <4>0, <4>1, <4>2, <4>3
                <5> HIDE DEF settings, headers
                <5>2. headers.secret # Unset
                    BY <5>1, SecretsHeld
                <5> QED
                    BY <5>2 DEF headers
            <4> QED
                BY <3>1, <4>1, <4>4
        <3> QED
            BY <3>2, <3>3
    <2>4. ASSUME NEW id, Revoke(id) \/ Reimport(id) \/ Cancel(id) \/ Consult(id)
          PROVE  UNCHANGED <<case, results>>
        BY <2>4 DEF Revoke, Reimport, Cancel, Consult, hostVars
    <2>5. CASE UNCHANGED vars
        BY <2>1, <2>5 DEF vars, hostVars
    <2> QED
        BY <2>1, <2>2, <2>3, <2>4, <2>5 DEF Next
<1>5. ServedWithinScopes /\ FailsClosed /\ SignedIntake => AccessHolds
    BY DEF AccessHolds
<1> QED
    BY <1>1, <1>2, <1>3, <1>4, <1>5, BrakesWork, PTL DEF Spec

-----------------------------------------------------------------------------
(* Replays of a steady plan.  A lead agent that plans by the number of its *)
(* subresults dispatches along a tape: its n-th dispatch of any life is    *)
(* made at the same step for the same delegation, because a life that the  *)
(* gate stalls makes no further dispatch.                                  *)

\* The slice of the script after n subresults.
ScriptSlice(n) ==
    LET plan == case.script[n + 1]
    IN  SubSeq(plan, 1, IF Len(plan) < MaxSubagents - n THEN Len(plan) ELSE MaxSubagents - n)

Origin == [iteration |-> 0, index |-> 0, plan |-> ScriptSlice(0)]

\* Where the dispatch after the n-th is made.
Onward(n, t) ==
    IF t.index + 1 < Len(t.plan)
    THEN [iteration |-> t.iteration, index |-> t.index + 1, plan |-> t.plan]
    ELSE [iteration |-> t.iteration + 1, index |-> 0, plan |-> ScriptSlice(n + 1)]

IsTape(T, k) == T[0] = Origin /\ \A n \in 0..(k - 1) : T[n + 1] = Onward(n, T[n])

\* The delegation of the n-th dispatch, its step and its publish key.
DelegationAt(T, n) == T[n].plan[T[n].index + 1]
StepAt(T, n) == IF DelegationAt(T, n).step_ref = Unset THEN <<Unset, T[n].iteration, T[n].index>>
                ELSE <<DelegationAt(T, n).step_ref, 0, 0>>
KeyAt(T, n) == [step |-> StepAt(T, n), task_type |-> DelegationAt(T, n).task_type,
                body |-> DelegationAt(T, n).body]

\* The gate has halted this life for good: nothing lowers the ledger or the fan-out.
Sending == loop.pc \in {"dispatch", "trace", "generated"}
Stalled == case.gate /\ over_budget /\ ~Sending

\* The loop is about to make the dispatch that the tape has next.
AtPlace(t, iteration, index, plan) == t.iteration = iteration /\ t.index = index /\ t.plan = plan
Along(t) ==
    /\ loop.pc \in {"check", "plan"} => AtPlace(t, loop.iteration, 0, ScriptSlice(loop.n))
    /\ Sending \/ (loop.pc = "gate" /\ loop.index < Len(loop.plan)) =>
          AtPlace(t, loop.iteration, loop.index, loop.plan)
    /\ loop.pc = "save" \/ (loop.pc = "gate" /\ loop.index = Len(loop.plan)) =>
          AtPlace(t, loop.iteration + 1, 0, ScriptSlice(loop.n))

OnTape(T) ==
    /\ IsTape(T, MaxSubagents)
    /\ guard \subseteq {KeyAt(T, n) : n \in 0..(MaxSubagents - 1)}
    /\ Stalled \/ Along(T[loop.n])

\* Every script has a tape, as long as the effort budget.
LEMMA TapeExists == \E T : IsTape(T, MaxSubagents)
<1> DEFINE S == {k \in Nat : ~\E T : IsTape(T, k)}
<1>1. MaxSubagents \in Nat
    BY LoopAssumption
<1> SUFFICES ASSUME S # {} PROVE FALSE
    BY <1>1
<1> DEFINE k == Min(S)
<1>2. k \in S /\ \A i \in S : k <= i
    <2> HIDE DEF S
    <2>1. S \in SUBSET Nat
        BY DEF S
    <2> QED
        BY <2>1, FirstPlace
<1> HIDE DEF k
<1>3. CASE k = 0
    <2> DEFINE T == [n \in {0} |-> Origin]
    <2>1. IsTape(T, 0)
        BY DEF IsTape
    <2> QED
        BY <1>2, <1>3, <2>1
<1>4. CASE k # 0
    <2>1. k \in Nat /\ k - 1 \in Nat /\ k - 1 \notin S
        BY <1>2, <1>4
    <2>2. PICK T : IsTape(T, k - 1)
        BY <2>1
    <2> DEFINE U == [n \in 0..k |-> IF n < k THEN T[n] ELSE Onward(k - 1, T[k - 1])]
    <2>3. U[0] = Origin
        BY <1>4, <2>1, <2>2 DEF IsTape
    <2>4. ASSUME NEW n \in 0..(k - 1) PROVE U[n + 1] = Onward(n, U[n])
        <3>1. U[n] = T[n]
            BY <2>1
        <3>2. CASE n = k - 1
            BY <2>1, <3>1, <3>2
        <3>3. CASE n # k - 1
            <4>1. n \in 0..((k - 1) - 1) /\ n + 1 < k /\ n + 1 \in 0..k
                BY <2>1, <3>3
            <4>2. T[n + 1] = Onward(n, T[n])
                BY <2>2, <4>1 DEF IsTape
            <4> QED
                BY <3>1, <4>1, <4>2
        <3> QED
            BY <3>2, <3>3
    <2>5. IsTape(U, k)
        <3> HIDE DEF U
        <3> QED
            BY <2>3, <2>4 DEF IsTape
    <2> QED
        BY <1>2, <2>5
<1> QED
    BY <1>3, <1>4

\* A step that leaves the frame, the ledger and the publish keys alone stays on the tape.
LEMMA TapeFrame ==
    ASSUME NEW T, OnTape(T), UNCHANGED <<case, loop, ledger, guard>>
    PROVE  OnTape(T)'
BY DEF OnTape, IsTape, Origin, Onward, ScriptSlice, KeyAt, StepAt, DelegationAt, Stalled, Sending,
       over_budget, Margin, Along, AtPlace

\* The tape depends on the deployment only.
LEMMA SameTape ==
    ASSUME NEW T, IsTape(T, MaxSubagents), UNCHANGED case
    PROVE  IsTape(T, MaxSubagents)'
BY DEF IsTape, Origin, Onward, ScriptSlice

\* A life that the gate has halted stays halted while its frame keeps its fan-out: what the
\* lead agent spends on its plans only adds to the ledger.
LEMMA StillStalled ==
    ASSUME Stalled, UNCHANGED case, ledger \in Nat, ledger' \in Nat, ledger' >= ledger,
           loop'.n = loop.n, ~Sending'
    PROVE  Stalled'
<1>1. Margin' = Margin /\ Margin \in Nat /\ CostCap \in Nat
    BY LoopAssumption DEF Margin
<1> HIDE DEF Margin
<1>2. ASSUME NEW a \in Nat, NEW b \in Nat, b >= a, NEW m \in Nat, NEW c \in Nat, a + m > c
      PROVE  b + m > c
    BY <1>2
<1>3. ledger + Margin > CostCap => ledger' + Margin > CostCap
    BY <1>1, <1>2
<1> QED
    BY <1>1, <1>3 DEF Stalled, over_budget

\* Checking the flag, planning, gating and closing an iteration stay on the tape.
LEMMA TapePlanned ==
    ASSUME Core, case.steady, NEW T, OnTape(T),
           CheckCancel \/ (\E plan \in Plans, reported \in BOOLEAN : Plan(plan, reported)) \/ Gate \/ Iterated
    PROVE  OnTape(T)'
<1>1. /\ UNCHANGED <<case, guard>> /\ loop \in FrameType /\ loop.index \in 0..Len(loop.plan)
      /\ case \in Cases /\ ledger \in Nat /\ ledger' \in Nat /\ ledger' >= ledger
    <2>1. loop \in FrameType /\ loop.index \in 0..Len(loop.plan) /\ case \in Cases /\ ledger \in Nat
        BY DEF Core, TypeOK
    <2>2. CASE CheckCancel \/ Gate \/ Iterated
        BY <2>1, <2>2 DEF CheckCancel, Gate, Iterated, coreVars
    <2>3. ASSUME NEW plan \in Plans, NEW reported \in BOOLEAN, Plan(plan, reported)
          PROVE  UNCHANGED <<case, guard>> /\ ledger' \in Nat /\ ledger' >= ledger
        <3>1. case.lead \in Nat
            BY <2>1, LoopAssumption
        <3>2. PICK cost \in Nat : ledger' = ledger + cost
            BY <2>3, <3>1 DEF Plan, record, cost_for, Usage
        <3>3. ASSUME NEW a \in Nat, NEW b \in Nat PROVE a + b \in Nat /\ a + b >= a
            OBVIOUS
        <3>4. UNCHANGED <<case, guard>>
            BY <2>3 DEF Plan
        <3> QED
            BY <2>1, <3>2, <3>3, <3>4
    <2> QED
        BY <2>1, <2>2, <2>3
<1>2. IsTape(T, MaxSubagents)' /\ guard' \subseteq {KeyAt(T, n) : n \in 0..(MaxSubagents - 1)}
    BY <1>1, SameTape DEF OnTape
<1> DEFINE t == T[loop.n]
<1> SUFFICES loop'.n = loop.n /\ (Stalled' \/ Along(t)')
    BY <1>2 DEF OnTape, KeyAt, StepAt, DelegationAt
<1>3. \A n : ScriptSlice(n)' = ScriptSlice(n)
    BY <1>1 DEF ScriptSlice
<1>4. ASSUME loop' \in {[loop EXCEPT !.pc = "done"], [loop EXCEPT !.pc = "done", !.lines = @ + 1]}
      PROVE  loop'.n = loop.n /\ (Stalled' \/ Along(t)')
    <2>1. loop'.n = loop.n /\ loop'.pc = "done"
        <3>1. CASE loop' = [loop EXCEPT !.pc = "done"]
            BY <1>1, <3>1, Moved DEF Points
        <3>2. CASE loop' = [loop EXCEPT !.pc = "done", !.lines = @ + 1]
            BY <1>1, <3>2, MovedWithLine DEF Points
        <3> QED
            BY <1>4, <3>1, <3>2
    <2> QED
        BY <2>1 DEF Along, Sending
<1>5. CASE CheckCancel
    <2>1. CASE loop' = [loop EXCEPT !.pc = "plan"]
        <3>1. loop'.pc = "plan" /\ loop'.n = loop.n /\ loop'.iteration = loop.iteration
            BY <1>1, <2>1, Moved DEF Points
        <3>2. At("check")
            BY <1>5 DEF CheckCancel
        <3> QED
            BY <1>1, <1>3, <3>1, <3>2, StillStalled DEF OnTape, Along, AtPlace, At, Sending
    <2> QED
        BY <1>4, <1>5, <2>1 DEF CheckCancel
<1>6. ASSUME NEW plan \in Plans, NEW reported \in BOOLEAN, Plan(plan, reported) PROVE loop'.n = loop.n /\ (Stalled' \/ Along(t)')
    <2>1. CASE plan # <<>> /\ loop.n < MaxSubagents
        <3>1. loop.n \in 0..MaxSubagents /\ MaxSubagents \in Nat
            BY <1>1, LoopAssumption DEF FrameType
        <3>2. plan = case.script[loop.n + 1] /\ plan \in Seq(Delegations)
            BY <1>1, <1>6, <3>1, PlansTyped DEF Plans
        <3>3. Slice(plan) = ScriptSlice(loop.n) /\ Slice(plan) \in Seq(Delegations)
            BY <3>1, <3>2, SliceFits DEF Slice, ScriptSlice
        <3>4. 0 < Len(Slice(plan))
            <4> DEFINE m == IF Len(plan) < MaxSubagents - loop.n THEN Len(plan)
                            ELSE MaxSubagents - loop.n
            <4>1. Len(plan) \in Nat /\ Len(plan) # 0
                BY <2>1, <3>2
            <4>2. m \in 1..Len(plan)
                BY <2>1, <3>1, <4>1
            <4>3. Len(SubSeq(plan, 1, m)) = m
                <5> HIDE DEF m
                <5> QED
                    BY <3>2, <4>2
            <4> QED
                BY <4>2, <4>3 DEF Slice
        <3>5. loop' = [loop EXCEPT !.pc = "gate", !.plan = Slice(plan), !.index = 0] /\ At("plan")
            <4>1. ~(loop.n >= MaxSubagents)
                BY <2>1, <3>1
            <4> QED
                BY <1>6, <2>1, <4>1, Zenon DEF Plan
        <3>6. /\ loop'.pc = "gate" /\ loop'.plan = ScriptSlice(loop.n) /\ loop'.index = 0
              /\ loop'.iteration = loop.iteration /\ loop'.n = loop.n
            BY <1>1, <3>3, <3>5, Planned
        <3>7. ~Sending'
            BY <3>6 DEF Sending
        <3>8. CASE Stalled
            BY <1>1, <3>6, <3>7, <3>8, StillStalled
        <3>9. CASE Along(t)
            <4>1. AtPlace(t, loop'.iteration, loop'.index, loop'.plan)
                BY <3>5, <3>6, <3>9 DEF Along, At, AtPlace
            <4>2. 0 < Len(loop'.plan)
                BY <3>3, <3>4, <3>6
            <4>3. loop'.index # Len(loop'.plan)
                BY <3>6, <4>2
            <4> QED
                BY <3>6, <3>7, <4>1, <4>3 DEF Along, AtPlace
        <3> QED
            BY <3>6, <3>8, <3>9 DEF OnTape
    <2>2. CASE ~(plan # <<>> /\ loop.n < MaxSubagents)
        <3>1. loop.n \in Nat /\ MaxSubagents \in Nat
            BY <1>1, LoopAssumption DEF FrameType
        <3>2. plan = <<>> \/ loop.n >= MaxSubagents
            BY <2>2, <3>1
        <3>3. loop' \in {[loop EXCEPT !.pc = "done"], [loop EXCEPT !.pc = "done", !.lines = @ + 1]}
            BY <1>6, <3>2, Zenon DEF Plan
        <3> QED
            BY <1>4, <3>3
    <2> QED
        BY <2>1, <2>2
<1>7. CASE Gate
    <2>1. At("gate") /\ ~Sending /\ loop.plan \in Seq(Delegations)
        BY <1>1, <1>7 DEF Gate, At, Sending, FrameType
    <2>2. CASE loop.index = Len(loop.plan)
        <3>1. loop' = [loop EXCEPT !.pc = "save"]
            BY <1>7, <2>2 DEF Gate
        <3>2. /\ loop'.pc = "save" /\ loop'.n = loop.n /\ loop'.iteration = loop.iteration
              /\ ~Sending'
            BY <1>1, <3>1, Moved DEF Points, Sending
        <3> QED
            BY <1>1, <1>3, <2>1, <2>2, <3>2, StillStalled DEF OnTape, Along, AtPlace, At
    <2>3. CASE loop.index # Len(loop.plan) /\ worth_it
        <3>1. loop' = [loop EXCEPT !.pc = "dispatch"]
            BY <1>7, <2>3 DEF Gate
        <3>2. /\ loop'.pc = "dispatch" /\ loop'.n = loop.n /\ loop'.iteration = loop.iteration
              /\ loop'.index = loop.index /\ loop'.plan = loop.plan
            BY <1>1, <3>1, Moved DEF Points
        <3>3. ~Stalled /\ loop.index < Len(loop.plan)
            BY <1>1, <2>1, <2>3 DEF Stalled, worth_it
        <3> QED
            BY <2>1, <3>2, <3>3 DEF OnTape, Along, AtPlace, At
    <2>4. CASE loop.index # Len(loop.plan) /\ ~worth_it
        <3>1. loop' = [loop EXCEPT !.pc = "save", !.lines = @ + 1]
            BY <1>7, <2>4 DEF Gate
        <3>2. loop'.pc = "save" /\ loop'.n = loop.n /\ ~Sending'
            BY <1>1, <3>1, MovedWithLine DEF Points, Sending
        <3>3. Stalled
            BY <2>1, <2>4 DEF Stalled, worth_it
        <3> QED
            BY <1>1, <3>2, <3>3, StillStalled
    <2> QED
        BY <2>2, <2>3, <2>4
<1>8. CASE Iterated
    <2>1. loop.iteration < MaxIterations /\ At("save")
        BY <1>8 DEF Core, Frames, Iterated, At
    <2>2. /\ loop'.pc = "check" /\ loop'.n = loop.n /\ loop'.iteration = loop.iteration + 1
          /\ ~Sending'
        BY <1>1, <1>8, <2>1, NextIteration DEF Iterated, Sending
    <2> QED
        BY <1>1, <1>3, <2>1, <2>2, StillStalled DEF OnTape, Along, AtPlace, At
<1> QED
    BY <1>5, <1>6, <1>7, <1>8

\* A dispatch publishes the key that the tape has next, and stays there until it is collected.
LEMMA TapeDispatched ==
    ASSUME Core, RegistryKept, NEW T, OnTape(T),
           DispatchQueue \/ (\E reported \in BOOLEAN : Generate(reported))
    PROVE  OnTape(T)'
<1>1. UNCHANGED case /\ loop \in FrameType /\ At("dispatch") /\ case \in Cases
    BY DEF DispatchQueue, Generate, Core, TypeOK
<1>2. IsTape(T, MaxSubagents)'
    BY <1>1, SameTape DEF OnTape
<1>3. AtPlace(T[loop.n], loop.iteration, loop.index, loop.plan)
    BY <1>1 DEF OnTape, Stalled, Sending, Along, At
<1>4. make_idempotency_key = KeyAt(T, loop.n)
    BY <1>3 DEF AtPlace, KeyAt, StepAt, DelegationAt, make_idempotency_key, step_ref, Delegation
<1>5. loop.n \in 0..(MaxSubagents - 1)
    <2>1. loop.n \in 0..MaxSubagents /\ loop.index \in Nat /\ Len(loop.plan) \in Nat /\ MaxSubagents \in Nat
        BY <1>1, LoopAssumption DEF FrameType
    <2>2. loop.n + (Len(loop.plan) - loop.index) <= MaxSubagents /\ loop.index < Len(loop.plan)
        BY <1>1 DEF Core, Frames, At
    <2> QED
        BY <2>1, <2>2
<1>6. guard' \subseteq {KeyAt(T, n) : n \in 0..(MaxSubagents - 1)}
    <2>1. guard' \subseteq guard \cup {make_idempotency_key}
        BY DEF DispatchQueue, Generate
    <2> QED
        BY <1>4, <1>5, <2>1 DEF OnTape
<1>7. loop'.n = loop.n /\ Along(T[loop.n])'
    <2>1. CASE loop'.pc = "raised" /\ loop'.n = loop.n
        BY <2>1 DEF Along, Sending
    <2>2. CASE /\ loop'.pc \in {"trace", "generated"} /\ loop'.n = loop.n
               /\ loop'.iteration = loop.iteration /\ loop'.index = loop.index /\ loop'.plan = loop.plan
        BY <1>3, <2>2 DEF Along, AtPlace
    <2>3. ASSUME NEW reported \in BOOLEAN, Generate(reported)
          PROVE  /\ loop'.pc = "generated" /\ loop'.n = loop.n
                 /\ loop'.iteration = loop.iteration /\ loop'.index = loop.index /\ loop'.plan = loop.plan
        BY <1>1, <2>3, Moved DEF Generate, Points
    <2>4. CASE DispatchQueue
        <3> DEFINE manifest == resolve_queue(Delegation, manifests, case)
        <3>1. CASE manifest = Refused
            <4>1. loop' = [loop EXCEPT !.pc = "raised"]
                BY <2>4, <3>1 DEF DispatchQueue
            <4> QED
                BY <1>1, <2>1, <4>1, Moved DEF Points
        <3>2. CASE manifest # Refused
            <4>1. loop' = [loop EXCEPT !.pc = "trace", !.version = manifest.version]
                BY <2>4, <3>2 DEF DispatchQueue
            <4>2. manifest.version \in Versions
                BY <1>1, <3>2, Routes
            <4> HIDE DEF manifest
            <4> QED
                BY <1>1, <2>2, <4>1, <4>2, Dispatched
        <3> QED
            BY <3>1, <3>2
    <2> QED
        BY <2>2, <2>3, <2>4
<1> QED
    BY <1>2, <1>6, <1>7 DEF OnTape, KeyAt, StepAt, DelegationAt

\* A subresult moves the loop to the next place of the tape.
LEMMA TapeCollected ==
    ASSUME Core, NEW T, OnTape(T), AppendTrace \/ KeepReply
    PROVE  OnTape(T)'
<1>1. /\ UNCHANGED <<case, guard>> /\ loop' = Collected /\ loop \in FrameType
      /\ loop.pc \in {"trace", "generated"}
    BY DEF AppendTrace, KeepReply, coreVars, Core, TypeOK, At
<1>2. IsTape(T, MaxSubagents)' /\ guard' \subseteq {KeyAt(T, n) : n \in 0..(MaxSubagents - 1)}
    BY <1>1, SameTape DEF OnTape
<1>3. AtPlace(T[loop.n], loop.iteration, loop.index, loop.plan)
    BY <1>1 DEF OnTape, Stalled, Sending, Along
<1>4. /\ loop.n \in 0..MaxSubagents /\ loop.index \in Nat /\ Len(loop.plan) \in Nat /\ MaxSubagents \in Nat
      /\ loop.n + (Len(loop.plan) - loop.index) <= MaxSubagents /\ loop.index < Len(loop.plan)
    BY <1>1, LoopAssumption DEF FrameType, Core, Frames
<1>5. loop.n \in 0..(MaxSubagents - 1) /\ loop.n < MaxSubagents
    BY <1>4
<1>6. /\ loop'.pc = "gate" /\ loop'.index = loop.index + 1 /\ loop'.n = loop.n + 1
      /\ loop'.plan = loop.plan /\ loop'.iteration = loop.iteration
    BY <1>1, <1>5, CollectedFrame
<1>7. PICK t : t = Onward(loop.n, T[loop.n]) /\ t = T[loop'.n]
    BY <1>5, <1>6 DEF OnTape, IsTape
<1>8. ~Sending' /\ ScriptSlice(loop.n)' = ScriptSlice(loop.n + 1)
    BY <1>1, <1>6 DEF Sending, ScriptSlice
<1>9. Along(t)'
    <2>1. CASE loop.index + 1 < Len(loop.plan)
        <3>1. AtPlace(t, loop'.iteration, loop'.index, loop'.plan)
            BY <1>3, <1>6, <1>7, <2>1 DEF Onward, AtPlace
        <3>2. loop'.index # Len(loop'.plan)
            BY <1>4, <1>6, <2>1
        <3> QED
            BY <1>6, <1>8, <3>1, <3>2 DEF Along, AtPlace
    <2>2. CASE loop.index + 1 = Len(loop.plan)
        <3>1. AtPlace(t, loop.iteration + 1, 0, ScriptSlice(loop.n + 1))
            BY <1>3, <1>4, <1>7, <2>2 DEF Onward, AtPlace
        <3>2. ~(loop'.index < Len(loop'.plan))
            BY <1>4, <1>6, <2>2
        <3> QED
            BY <1>6, <1>8, <3>1, <3>2 DEF Along, AtPlace
    <2> QED
        BY <1>4, <2>1, <2>2
<1> QED
    BY <1>2, <1>7, <1>9 DEF OnTape, KeyAt, StepAt, DelegationAt

\* A replay starts where every life of the driver starts.
LEMMA TapeRestarted ==
    ASSUME Core, NEW T, OnTape(T), Crash
    PROVE  OnTape(T)'
<1>1. UNCHANGED <<case, guard>> /\ loop' = [FirstFrame EXCEPT !.lines = saved] /\ saved \in Nat
    BY DEF Crash, coreVars, historyVars, Core, TypeOK
<1>2. loop'.pc = "check" /\ loop'.iteration = 0 /\ loop'.n = 0
    BY <1>1, FirstFrameTyped
<1>3. IsTape(T, MaxSubagents)' /\ guard' \subseteq {KeyAt(T, n) : n \in 0..(MaxSubagents - 1)}
    BY <1>1, SameTape DEF OnTape
<1>4. T[0] = Origin'
    BY <1>3 DEF IsTape
<1>5. Along(T[0])'
    BY <1>2, <1>4 DEF Along, AtPlace, Origin, Sending
<1> QED
    BY <1>2, <1>3, <1>5 DEF OnTape, KeyAt, StepAt, DelegationAt

\* Every step of a steady deployment stays on the tape it is on.
LEMMA TapeStep ==
    ASSUME Core, RegistryKept, case.steady, NEW T, OnTape(T), [Next]_vars
    PROVE  OnTape(T)' /\ case' = case
<1>1. CASE LoopStep
    <2>1. CASE Complete
        BY <2>1, TapeFrame DEF Complete, coreVars, historyVars
    <2>2. case' = case
        BY <1>1 DEF LoopStep, CheckCancel, Plan, Gate, Iterated, DispatchQueue, AppendTrace, Generate,
                    KeepReply, Complete
    <2> QED
        BY <1>1, <2>1, <2>2, TapePlanned, TapeDispatched, TapeCollected DEF LoopStep
<1>2. CASE Crash
    BY <1>2, TapeRestarted DEF Crash
<1>3. ASSUME UNCHANGED <<case, loop, ledger, guard>> PROVE OnTape(T)' /\ case' = case
    BY <1>3, TapeFrame
<1>4. ASSUME NEW message, NEW reply, WorkerHandles(message, reply) PROVE OnTape(T)' /\ case' = case
    BY <1>3, <1>4 DEF WorkerHandles, coreVars, historyVars
<1>5. ASSUME NEW id, Revoke(id) \/ Reimport(id) \/ Consult(id) \/ Cancel(id)
      PROVE  OnTape(T)' /\ case' = case
    BY <1>3, <1>5 DEF Revoke, Reimport, Consult, Cancel, coreVars, historyVars
<1>6. CASE List \/ Show \/ Promote
    BY <1>3, <1>6 DEF List, Show, Promote, coreVars, historyVars
<1>7. CASE UNCHANGED vars
    BY <1>3, <1>7 DEF vars, coreVars, historyVars
<1> QED
    BY <1>1, <1>2, <1>4, <1>5, <1>6, <1>7 DEF Next

\* A tape has no more publish keys than the effort budget has subagents.
LEMMA TapeKeys ==
    ASSUME NEW T, OnTape(T)
    PROVE  Cardinality(guard) <= MaxSubagents
<1> DEFINE keys == {KeyAt(T, n) : n \in 0..(MaxSubagents - 1)}
           f == [n \in 0..(MaxSubagents - 1) |-> KeyAt(T, n)]
<1>1. MaxSubagents \in Nat
    BY LoopAssumption
<1>2. f \in Surjection(0..(MaxSubagents - 1), keys)
    BY DEF Surjection
<1>3. /\ IsFiniteSet(0..(MaxSubagents - 1)) /\ Cardinality(0..(MaxSubagents - 1)) = MaxSubagents
    BY <1>1, FS_Interval
<1>4. guard \subseteq keys
    BY DEF OnTape
<1> HIDE DEF keys, f
<1>5. IsFiniteSet(keys) /\ Cardinality(keys) <= MaxSubagents
    BY <1>2, <1>3, FS_Surjection
<1>6. IsFiniteSet(guard) /\ Cardinality(guard) <= Cardinality(keys)
    BY <1>4, <1>5, FS_Subset
<1>7. Cardinality(guard) \in Nat /\ Cardinality(keys) \in Nat
    BY <1>5, <1>6, FS_CardinalityType
<1> QED
    BY <1>1, <1>5, <1>6, <1>7

-----------------------------------------------------------------------------
(* Pins, from the plan to the promoted workflow.  Over deaths of the       *)
(* driver, a step that the loop names stands for one place of the tape,    *)
(* and so for one delegation and, while the registry stays, one version.   *)

\* The order of places on the tape.
Before(t, u) == t.iteration < u.iteration \/ (t.iteration = u.iteration /\ t.index < u.index)

\* The tape never comes back to an iteration and index.
LEMMA TapeClimbs ==
    ASSUME NEW T, IsTape(T, MaxSubagents), NEW k \in 0..MaxSubagents
    PROVE  /\ T[k].iteration \in Nat /\ T[k].index \in Nat
           /\ \A n \in 0..(k - 1) : Before(T[n], T[k])
<1> DEFINE P(i) == /\ T[i].iteration \in Nat /\ T[i].index \in Nat
                   /\ \A n \in 0..(i - 1) : Before(T[n], T[i])
           S == {i \in 0..MaxSubagents : ~P(i)}
<1>1. MaxSubagents \in Nat
    BY LoopAssumption
<1> SUFFICES ASSUME S # {} PROVE FALSE
    OBVIOUS
<1> DEFINE j == Min(S)
<1>2. j \in S /\ \A i \in S : j <= i
    <2>1. S \in SUBSET Nat
        BY <1>1
    <2> HIDE DEF S
    <2> QED
        BY <2>1, FirstPlace
<1>3. j \in 0..MaxSubagents /\ ~P(j)
    BY <1>2
<1> HIDE DEF j
<1>4. CASE j = 0
    <2>1. T[0].iteration = 0 /\ T[0].index = 0
        BY DEF IsTape, Origin
    <2>2. 0..(0 - 1) = {}
        OBVIOUS
    <2> QED
        BY <1>3, <1>4, <2>1, <2>2
<1>5. CASE j # 0
    <2>1. j - 1 \in 0..MaxSubagents /\ j - 1 \in 0..(MaxSubagents - 1) /\ j - 1 + 1 = j
        BY <1>1, <1>3, <1>5
    <2>2. ~(j - 1 \in S)
        BY <1>2, <1>3
    <2>3. P(j - 1)
        BY <2>1, <2>2
    <2>4. T[j] = Onward(j - 1, T[j - 1])
        BY <2>1 DEF IsTape
    <2> DEFINE t == T[j - 1]
               u == T[j]
    <2>5. /\ t.iteration \in Nat /\ t.index \in Nat
          /\ u.iteration \in Nat /\ u.index \in Nat /\ Before(t, u)
        <3>1. t.iteration \in Nat /\ t.index \in Nat
            BY <2>3
        <3>2. CASE t.index + 1 < Len(t.plan)
            <4>1. u.iteration = t.iteration /\ u.index = t.index + 1
                BY <2>4, <3>2 DEF Onward
            <4> HIDE DEF t, u
            <4> QED
                BY <3>1, <4>1 DEF Before
        <3>3. CASE ~(t.index + 1 < Len(t.plan))
            <4>1. u.iteration = t.iteration + 1 /\ u.index = 0
                BY <2>4, <3>3 DEF Onward
            <4> HIDE DEF t, u
            <4> QED
                BY <3>1, <4>1 DEF Before
        <3> QED
            BY <3>2, <3>3
    <2>6. ASSUME NEW n \in 0..(j - 1) PROVE Before(T[n], u)
        <3>1. CASE n = j - 1
            BY <2>5, <3>1
        <3>2. CASE n # j - 1
            <4>1. n \in 0..((j - 1) - 1) /\ n \in 0..MaxSubagents /\ n < j
                BY <1>1, <1>3, <2>6, <3>2
            <4>2. Before(T[n], t)
                BY <2>3, <4>1
            <4>3. ~(n \in S)
                BY <1>2, <1>3, <4>1
            <4>4. T[n].iteration \in Nat /\ T[n].index \in Nat
                BY <4>1, <4>3
            <4> HIDE DEF t, u
            <4> QED
                BY <2>5, <4>2, <4>4 DEF Before
        <3> QED
            BY <3>1, <3>2
    <2> QED
        BY <1>3, <2>5, <2>6
<1> QED
    BY <1>4, <1>5

\* A step that the loop named is one place of the tape.
LEMMA OnePlace ==
    ASSUME NEW T, IsTape(T, MaxSubagents),
           NEW n \in 0..(MaxSubagents - 1), NEW k \in 0..(MaxSubagents - 1),
           StepAt(T, n) = StepAt(T, k), StepAt(T, n)[1] = Unset
    PROVE  n = k
<1>1. MaxSubagents \in Nat /\ n \in 0..MaxSubagents /\ k \in 0..MaxSubagents
    BY LoopAssumption
<1>2. ASSUME NEW i \in {n, k}, StepAt(T, i)[1] = Unset
      PROVE  StepAt(T, i) = <<Unset, T[i].iteration, T[i].index>>
    <2>1. CASE DelegationAt(T, i).step_ref # Unset
        <3>1. StepAt(T, i) = <<DelegationAt(T, i).step_ref, 0, 0>>
            BY <2>1 DEF StepAt
        <3> QED
            BY <1>2, <2>1, <3>1
    <2> QED
        BY <2>1 DEF StepAt
<1>3. T[n].iteration = T[k].iteration /\ T[n].index = T[k].index
    BY <1>2
<1>4. ASSUME NEW i \in {n, k}
      PROVE  /\ T[i].iteration \in Nat /\ T[i].index \in Nat
             /\ \A l \in 0..(i - 1) : Before(T[l], T[i])
    BY <1>1, TapeClimbs
<1>5. ~Before(T[n], T[k]) /\ ~Before(T[k], T[n])
    BY <1>3, <1>4 DEF Before
<1>6. ~(n < k) /\ ~(k < n)
    BY <1>1, <1>4, <1>5
<1> QED
    BY <1>1, <1>6

\* The version that the registry as it was has for the n-th dispatch.
VersionAt(T, n) == resolve_queue(DelegationAt(T, n), case.manifests, case).version

\* What was sent and traced, in all lives of the driver, is what the tape has.
FromTape(T, step, version) ==
    \E n \in 0..(MaxSubagents - 1) : step = StepAt(T, n) /\ version = VersionAt(T, n)
Recorded(T) == ~moved =>
    /\ \A t \in ToSet(trace) : FromTape(T, t.step, t.version)
    /\ \A m \in Sent : FromTape(T, m.key.step, m.version)
    /\ loop.pc = "trace" => loop.version = VersionAt(T, loop.n)

\* The loop sends what the tape has at its place.
LEMMA SendingPlace ==
    ASSUME Core, NEW T, OnTape(T), Sending
    PROVE  /\ loop.n \in 0..(MaxSubagents - 1)
           /\ Delegation = DelegationAt(T, loop.n) /\ step_ref = StepAt(T, loop.n)
<1>1. loop \in FrameType /\ loop.pc \in {"dispatch", "trace", "generated"}
    BY DEF Core, TypeOK, Sending
<1>2. AtPlace(T[loop.n], loop.iteration, loop.index, loop.plan)
    BY DEF OnTape, Stalled, Along
<1>3. /\ loop.n \in 0..MaxSubagents /\ loop.index \in Nat /\ Len(loop.plan) \in Nat /\ MaxSubagents \in Nat
      /\ loop.n + (Len(loop.plan) - loop.index) <= MaxSubagents /\ loop.index < Len(loop.plan)
    BY <1>1, LoopAssumption DEF FrameType, Core, Frames
<1>4. loop.n \in 0..(MaxSubagents - 1)
    BY <1>3
<1> QED
    BY <1>2, <1>4 DEF AtPlace, StepAt, DelegationAt, step_ref, Delegation

\* Only a dispatch and its trace entry touch what is recorded.
LEMMA RecordFrame ==
    ASSUME Core, [Next]_vars, ~DispatchQueue, ~AppendTrace
    PROVE  trace' = trace /\ (loop'.pc = "trace" => loop' = loop)
<1>1. loop \in FrameType /\ saved \in Nat
    BY DEF Core, TypeOK
<1>2. CASE LoopStep
    BY <1>1, <1>2 DEF LoopStep, CheckCancel, Plan, Gate, Iterated, Generate, KeepReply, Complete,
                      Collected, FrameType, coreVars
<1>3. CASE Crash
    <2>1. trace' = trace /\ loop' = [FirstFrame EXCEPT !.lines = saved]
        BY <1>3 DEF Crash, coreVars
    <2> QED
        BY <1>1, <2>1, FirstFrameTyped
<1>4. ASSUME NEW message, NEW reply, WorkerHandles(message, reply) PROVE UNCHANGED <<trace, loop>>
    BY <1>4 DEF WorkerHandles, coreVars
<1>5. ASSUME NEW id, Revoke(id) \/ Reimport(id) \/ Cancel(id) \/ Consult(id)
      PROVE  UNCHANGED <<trace, loop>>
    BY <1>5 DEF Revoke, Reimport, Cancel, Consult, coreVars
<1>6. CASE List \/ Show \/ Promote
    BY <1>6 DEF List, Show, Promote, coreVars
<1>7. CASE UNCHANGED vars
    BY <1>7 DEF vars, coreVars
<1> QED
    BY <1>2, <1>3, <1>4, <1>5, <1>6, <1>7 DEF Next

\* Every step of a steady deployment keeps to what the tape has.
LEMMA RecordedStep ==
    ASSUME Core, RegistryKept, NEW T, OnTape(T), Recorded(T), [Next]_vars
    PROVE  Recorded(T)'
<1>1. case' = case /\ (moved => moved')
    <2>1. CASE DispatchQueue
        BY <2>1 DEF DispatchQueue
    <2> QED
        BY <2>1, SentFrame
<1> SUFFICES ASSUME ~moved'
             PROVE  /\ \A t \in ToSet(trace') : FromTape(T, t.step, t.version)'
                    /\ \A m \in Sent' : FromTape(T, m.key.step, m.version)'
                    /\ loop'.pc = "trace" => loop'.version = VersionAt(T, loop'.n)
    BY <1>1 DEF Recorded, VersionAt, DelegationAt
<1>2. \A n : VersionAt(T, n)' = VersionAt(T, n)
    BY <1>1 DEF VersionAt
<1>3. \A step, version : FromTape(T, step, version) => FromTape(T, step, version)'
    BY <1>2 DEF FromTape
<1>4. /\ \A t \in ToSet(trace) : FromTape(T, t.step, t.version)
      /\ \A m \in Sent : FromTape(T, m.key.step, m.version)
      /\ loop.pc = "trace" => loop.version = VersionAt(T, loop.n)
      /\ manifests = case.manifests
    BY <1>1 DEF Recorded, RegistryKept
<1>5. CASE DispatchQueue
    <2> DEFINE manifest == resolve_queue(Delegation, manifests, case)
    <2>1. /\ loop.n \in 0..(MaxSubagents - 1) /\ manifest.version = VersionAt(T, loop.n)
          /\ step_ref = StepAt(T, loop.n)
        BY <1>4, <1>5, SendingPlace DEF DispatchQueue, At, Sending, VersionAt
    <2>2. trace' = trace /\ ToSet(trace') = ToSet(trace)
        BY <1>5 DEF DispatchQueue
    <2>3. FromTape(T, Message.key.step, Message.version)
        <3>1. Message.version = manifest.version /\ Message.key.step = step_ref
            BY DEF Message, make_idempotency_key
        <3> HIDE DEF manifest
        <3> QED
            BY <2>1, <3>1 DEF FromTape
    <2>4. Sent' \subseteq Sent \cup {Message}
        BY <1>5, SentByDispatch
    <2>5. loop'.pc = "trace" => loop'.version = VersionAt(T, loop'.n)
        <3>1. loop \in FrameType /\ case \in Cases
            BY DEF Core, TypeOK
        <3>2. CASE manifest = Refused
            <4>1. loop' = [loop EXCEPT !.pc = "raised"]
                BY <1>5, <3>2 DEF DispatchQueue
            <4> QED
                BY <3>1, <4>1, Moved DEF Points
        <3>3. CASE manifest # Refused
            <4>1. loop' = [loop EXCEPT !.pc = "trace", !.version = manifest.version]
                BY <1>5, <3>3 DEF DispatchQueue
            <4>2. manifest.version \in Versions
                BY <3>1, <3>3, Routes
            <4> HIDE DEF manifest
            <4>3. loop'.version = manifest.version /\ loop'.n = loop.n
                BY <3>1, <4>1, <4>2, Dispatched
            <4> QED
                BY <1>2, <2>1, <4>3
        <3> QED
            BY <3>2, <3>3
    <2> QED
        BY <1>3, <1>4, <2>2, <2>3, <2>4, <2>5
<1>6. CASE AppendTrace
    <2> DEFINE entry == [step |-> step_ref, version |-> loop.version]
    <2>1. /\ loop.pc = "trace" /\ loop' = Collected /\ trace' = Append(trace, entry)
          /\ UNCHANGED <<queue, results, case, run, ledger, asked, late, crashes>>
        BY <1>6 DEF AppendTrace, At, hostVars, historyVars
    <2>2. ToSet(trace') = ToSet(trace) \cup {entry}
        BY <2>1, Appended DEF Core, TypeOK
    <2>3. FromTape(T, entry.step, entry.version)
        BY <1>4, <2>1, SendingPlace DEF Sending, FromTape
    <2>4. Sent' = Sent
        BY <2>1 DEF Sent
    <2>5. loop'.pc = "gate"
        BY <2>1, CollectedCore
    <2> HIDE DEF entry
    <2> QED
        BY <1>3, <1>4, <2>2, <2>3, <2>4, <2>5
<1>7. CASE ~DispatchQueue /\ ~AppendTrace
    <2>1. Sent' \subseteq Sent /\ trace' = trace /\ (loop'.pc = "trace" => loop' = loop)
        BY <1>7, SentFrame, RecordFrame
    <2>2. ToSet(trace') = ToSet(trace)
        BY <2>1
    <2> QED
        BY <1>2, <1>3, <1>4, <2>1, <2>2
<1> QED
    BY <1>5, <1>6, <1>7

\* A steady deployment follows a tape, and records what the tape has.
Steady == case.steady => \E T : OnTape(T) /\ Recorded(T)
LEMMA SteadyHolds == Spec => []Steady
<1>1. Init => Steady
    <2> SUFFICES ASSUME Init, case.steady PROVE \E T : OnTape(T) /\ Recorded(T)
        BY DEF Steady
    <2>1. PICK T : IsTape(T, MaxSubagents)
        BY TapeExists
    <2>2. loop.pc = "check" /\ loop.n = 0 /\ loop.iteration = 0 /\ guard = {}
        BY DEF Init, FirstFrame
    <2>3. Along(T[0])
        BY <2>1, <2>2 DEF IsTape, Origin, Along, AtPlace, Sending
    <2>4. ToSet(trace) = {} /\ Sent = {}
        BY DEF Init, Sent, ToSet
    <2> QED
        BY <2>1, <2>2, <2>3, <2>4 DEF OnTape, Recorded
<1>2. Steady /\ LoopInv /\ [Next]_vars => Steady'
    <2> SUFFICES ASSUME Steady, LoopInv, [Next]_vars, case'.steady
                 PROVE  \E T : OnTape(T)' /\ Recorded(T)'
        BY DEF Steady
    <2>1. case' = case
        BY DEF Next, LoopStep, CheckCancel, Plan, Gate, Iterated, DispatchQueue, AppendTrace, Generate,
               KeepReply, Complete, Crash, WorkerHandles, Revoke, Reimport, Consult, Cancel, List,
               Show, Promote, vars
    <2>2. PICK T : OnTape(T) /\ Recorded(T)
        BY <2>1 DEF Steady
    <2>3. Core /\ RegistryKept /\ case.steady
        BY <2>1 DEF LoopInv, Core, SpendBounded
    <2>4. OnTape(T)'
        BY <2>2, <2>3, TapeStep
    <2>5. Recorded(T)'
        BY <2>2, <2>3, RecordedStep
    <2> QED
        BY <2>4, <2>5
<1> QED
    BY <1>1, <1>2, BrakesWork, PTL DEF Spec

\* A lead agent that plans the same again publishes no task twice, in all lives of its
\* driver together: OrchestratorLoop names a step after its iteration and its index.
THEOREM ReplayIsSteady == Spec => []SteadyReplay
<1>1. Steady => SteadyReplay
    BY TapeKeys DEF Steady, SteadyReplay
<1> QED
    BY <1>1, SteadyHolds, PTL

\* Promotion is the only thing that writes the draft, from results that stay.
LEMMA DraftFrame ==
    ASSUME Core, [Next]_vars, ~Promote
    PROVE  /\ UNCHANGED <<draft, case>>
           /\ \A i \in DOMAIN results : i \in DOMAIN results' /\ results'[i] = results[i]
           /\ crashes' = 0 => crashes = 0
<1>1. CASE UNCHANGED <<draft, case, results, crashes>>
    BY <1>1
<1>2. CASE LoopStep
    BY <1>1, <1>2 DEF LoopStep, CheckCancel, Plan, Gate, Iterated, DispatchQueue, AppendTrace,
                      Generate, KeepReply, Complete, hostVars, operatorVars
<1>3. CASE Crash
    <2>1. UNCHANGED <<draft, case, results>> /\ crashes' # 0
        BY <1>3 DEF Crash, hostVars, operatorVars, Core, TypeOK
    <2> QED
        BY <2>1
<1>4. ASSUME NEW message \in queue, NEW reply, WorkerHandles(message, reply)
      PROVE  /\ UNCHANGED <<draft, case, crashes>>
             /\ \A i \in DOMAIN results : i \in DOMAIN results' /\ results'[i] = results[i]
    <2>1. UNCHANGED <<draft, case, crashes>>
        BY <1>4 DEF WorkerHandles, operatorVars
    <2>2. CASE results' = results
        BY <2>1, <2>2
    <2>3. CASE results' = Append(results, Result(message))
        <3>1. results \in Seq(ToSet(results))
            BY DEF Core, TypeOK
        <3> DEFINE result == Result(message)
                   S == ToSet(results) \cup {result}
        <3>2. results \in Seq(S) /\ result \in S
            BY <3>1
        <3> HIDE DEF result, S
        <3>3. \A i \in DOMAIN results : /\ i \in DOMAIN Append(results, result)
                                         /\ Append(results, result)[i] = results[i]
            BY <3>2
        <3> QED
            BY <2>1, <2>3, <3>3 DEF result
    <2> QED
        BY <1>4, <2>1, <2>2, <2>3, Handled
<1>5. ASSUME NEW id, Revoke(id) \/ Reimport(id) \/ Cancel(id) \/ Consult(id)
      PROVE  UNCHANGED <<draft, case, results, crashes>>
    BY <1>5 DEF Revoke, Reimport, Cancel, Consult, hostVars, operatorVars
<1>6. CASE List \/ Show
    BY <1>1, <1>6 DEF List, Show, hostVars
<1>7. CASE UNCHANGED vars
    BY <1>1, <1>7 DEF vars, hostVars, operatorVars
<1> QED
    BY <1>1, <1>2, <1>3, <1>4, <1>5, <1>6, <1>7 DEF Next

\* What promote_run reads of a steady planner's run in an unchanged registry: a step that
\* the loop named has no version, or the one that its task was sent to.
LEMMA VersionOnTape ==
    ASSUME LoopInv, Steady, case.steady, ~moved, NEW r \in ToSet(results), r.step[1] = Unset
    PROVE  resolved_version(trace, r.step) \in {Unset, r.message.version}
<1> DEFINE hits == {i \in DOMAIN trace : trace[i].step = r.step /\ trace[i].version # Unset}
<1>1. PICK T : OnTape(T) /\ Recorded(T)
    BY DEF Steady
<1>2. r.message \in Sent /\ r.step = r.message.key.step
    BY DEF LoopInv, Routed, Served, Sent
<1>3. PICK n \in 0..(MaxSubagents - 1) : r.step = StepAt(T, n) /\ r.message.version = VersionAt(T, n)
    BY <1>1, <1>2 DEF Recorded, FromTape
<1>4. DOMAIN trace = 1..Len(trace) /\ Len(trace) \in Nat
    BY DEF LoopInv, TypeOK
<1>5. CASE hits = {}
    BY <1>5 DEF resolved_version
<1>6. CASE hits # {}
    <2>1. hits \in SUBSET (1..Len(trace))
        BY <1>4
    <2> HIDE DEF hits
    <2>2. Max(hits) \in hits
        BY <1>4, <1>6, <2>1, LastPlace
    <2> DEFINE t == trace[Max(hits)]
    <2>3. t \in ToSet(trace) /\ t.step = r.step
        BY <2>2 DEF hits, ToSet
    <2>4. resolved_version(trace, r.step) = t.version
        BY <1>6 DEF resolved_version, hits
    <2> HIDE DEF t
    <2>5. PICK k \in 0..(MaxSubagents - 1) : t.step = StepAt(T, k) /\ t.version = VersionAt(T, k)
        BY <1>1, <2>3 DEF Recorded, FromTape
    <2>6. StepAt(T, n) = StepAt(T, k) /\ StepAt(T, n)[1] = Unset
        BY <1>3, <2>3, <2>5
    <2>7. n = k
        BY <1>1, <2>6, OnePlace DEF OnTape
    <2> QED
        BY <1>3, <2>4, <2>5, <2>7
<1> QED
    BY <1>5, <1>6

\* A pin routes a task to its version or over the convention, exactly when the registry has
\* nothing better; a deployment that hosts what it registers serves it by its version; and
\* promote_run pins a step to the version its task was sent to, over deaths of the driver
\* as far as the plan and the registry stay the same.
THEOREM PinsAreServed == Spec => []PinsHold
<1> DEFINE Kept == /\ \A i \in DOMAIN draft : i \in DOMAIN results
                   /\ PromotedAsSent
<1>1. LoopInv => PinsRouted
    <2> SUFFICES ASSUME LoopInv PROVE PinsRouted
        OBVIOUS
    <2>1. \A m \in Sent : RoutedTask(m)
        BY DEF LoopInv, Routed
    <2> QED
        BY <2>1 DEF PinsRouted, RoutedTask
<1>2. LoopInv => PinsServed
    <2> SUFFICES ASSUME LoopInv, HostedAsRegistered, NEW r \in ToSet(results),
                        r.message.delegation.pin # Unset, r.message.version # Unset
                 PROVE  r.version = r.message.delegation.pin
        BY DEF PinsServed
    <2> DEFINE m == r.message
    <2>1. m \in Sent /\ Served(r) /\ RoutedTask(m)
        BY DEF LoopInv, Routed, Sent
    <2> HIDE DEF m
    <2>2. m = r.message
        BY DEF m
    <2>3. PICK a \in ToSet(case.manifests) : a.version = m.version /\ a.queue = m.queue
        BY <2>1, <2>2 DEF RoutedTask
    <2>4. m.version = m.delegation.pin
        BY <2>1, <2>2 DEF RoutedTask
    <2>5. m.queue \in DOMAIN case.agents /\ \E g \in ToSet(case.agents[m.queue]) : r.version = g.version
        BY <2>1, <2>2 DEF Served
    <2>6. \A g \in ToSet(case.agents[a.queue]) : g.version = a.version
        BY <2>3, <2>5 DEF HostedAsRegistered
    <2> QED
        BY <2>2, <2>3, <2>4, <2>5, <2>6
<1>3. Init => Kept
    BY DEF Init, PromotedAsSent
<1>4. LoopInv /\ Steady /\ Kept /\ [Next]_vars => Kept'
    <2> SUFFICES ASSUME LoopInv, Steady, Kept, [Next]_vars, NEW i \in DOMAIN draft'
                 PROVE  /\ i \in DOMAIN results'
                        /\ draft'[i].step[1] = Unset =>
                              /\ crashes' = 0 => draft'[i].pin = results'[i].message.version
                              /\ case'.steady /\ ~moved' =>
                                    draft'[i].pin \in {Unset, results'[i].message.version}
        BY DEF PromotedAsSent
    <2>0. Core /\ RegistryKept
        BY DEF LoopInv, Core, SpendBounded
    <2>1. CASE ~Promote
        <3>1. /\ UNCHANGED <<draft, case>> /\ (crashes' = 0 => crashes = 0)
              /\ \A k \in DOMAIN results : k \in DOMAIN results' /\ results'[k] = results[k]
            BY <2>0, <2>1, DraftFrame
        <3>2. moved => moved'
            <4>1. CASE DispatchQueue
                BY <4>1 DEF DispatchQueue
            <4> QED
                BY <2>0, <4>1, SentFrame
        <3> QED
            BY <3>1, <3>2 DEF PromotedAsSent
    <2>2. CASE Promote
        <3>1. /\ run.status = "completed" /\ draft' = promote_run(results, trace)
              /\ UNCHANGED <<results, crashes, case, moved>>
            BY <2>2 DEF Promote, hostVars
        <3>2. i \in DOMAIN results
            BY <3>1 DEF promote_run, FirstResults
        <3> DEFINE r == results[i]
        <3>3. r \in ToSet(results)
            BY <3>2 DEF ToSet
        <3>4. draft'[i].step = r.step /\ draft'[i].pin = resolved_version(trace, r.step)
            BY <3>1 DEF promote_run
        <3>5. r = results'[i] /\ i \in DOMAIN results'
            BY <3>1, <3>2
        <3> HIDE DEF r
        <3>6. r.step[1] = Unset /\ crashes = 0 => resolved_version(trace, r.step) = r.message.version
            BY <3>1, <3>3, VersionRecorded
        <3>7. r.step[1] = Unset /\ case.steady /\ ~moved =>
                 resolved_version(trace, r.step) \in {Unset, r.message.version}
            BY <3>3, VersionOnTape
        <3> QED
            BY <3>1, <3>4, <3>5, <3>6, <3>7
    <2> QED
        BY <2>1, <2>2
<1>5. PinsRouted /\ PinsServed /\ Kept => PinsHold
    BY DEF PinsHold
<1> HIDE DEF Kept
<1> QED
    BY <1>1, <1>2, <1>3, <1>4, <1>5, BrakesWork, SteadyHolds, PTL DEF Spec

-----------------------------------------------------------------------------
(* The safety side of LoopEnds: every life of the loop comes nearer to its end.  *)

\* The parts of an iteration that are ahead of a point of run(), what is left of the slice,
\* and what is left to do for one delegation.
PartsAhead(point) ==
    CASE point = "check" -> 4 [] point = "plan" -> 3
      [] point \in {"gate", "dispatch", "trace", "generated"} -> 2
      [] point = "save" -> 1 [] OTHER -> 0
Unsent(frame) == Len(frame.plan) - frame.index
Turn(point) == CASE point = "gate" -> 2 [] point = "dispatch" -> 1 [] OTHER -> 0

Nearer(f, g) ==
    \/ g.iteration > f.iteration
    \/ /\ g.iteration = f.iteration
       /\ \/ PartsAhead(g.pc) < PartsAhead(f.pc)
          \/ PartsAhead(g.pc) = PartsAhead(f.pc) /\ Unsent(g) < Unsent(f)
          \/ PartsAhead(g.pc) = PartsAhead(f.pc) /\ Unsent(g) = Unsent(f) /\ Turn(g.pc) < Turn(f.pc)

\* Every step of run() takes an iteration, a part of one, a delegation of the slice or a
\* part of a delegation off what is left, all of them bounded from the start, and nothing
\* but a new life of the driver gives any of it back.
LoopShortens ==
    [][/\ LoopStep /\ ~At("done") => Nearer(loop, loop')
       /\ loop'.iteration <= MaxIterations /\ Unsent(loop') \in Nat
       /\ loop' # loop => LoopStep \/ Crash]_vars

\* A frame that moves to an earlier rank, within its iteration.
LEMMA PartDone ==
    ASSUME Core, loop'.iteration = loop.iteration, PartsAhead(loop'.pc) < PartsAhead(loop.pc)
    PROVE  Nearer(loop, loop')
BY DEF Nearer

\* Every step of OrchestratorLoop.run.
LEMMA StepNearer ==
    ASSUME Core, LoopStep, ~At("done")
    PROVE  Nearer(loop, loop')
<1>1. /\ loop \in FrameType /\ loop.index \in 0..Len(loop.plan) /\ loop.plan \in Seq(Delegations)
      /\ loop.iteration \in Nat
    BY DEF Core, TypeOK, FrameType
<1>2. CASE CheckCancel
    <2>1. loop'.pc \in {"done", "plan"} /\ loop'.iteration = loop.iteration /\ loop.pc = "check"
        BY <1>1, <1>2 DEF CheckCancel, At, FrameType
    <2>2. PartsAhead(loop'.pc) < PartsAhead(loop.pc)
        BY <2>1 DEF PartsAhead
    <2> QED
        BY <2>1, <2>2, PartDone
<1>3. ASSUME NEW plan \in Plans, NEW reported \in BOOLEAN, Plan(plan, reported) PROVE Nearer(loop, loop')
    <2>1. loop'.iteration = loop.iteration /\ loop'.pc \in {"done", "gate"} /\ loop.pc = "plan"
        BY <1>1, <1>3 DEF Plan, At, FrameType
    <2>2. PartsAhead(loop'.pc) < PartsAhead(loop.pc)
        BY <2>1 DEF PartsAhead
    <2> QED
        BY <2>1, <2>2, PartDone
<1>4. CASE Gate
    <2>1. CASE loop' \in {[loop EXCEPT !.pc = "save"], [loop EXCEPT !.pc = "save", !.lines = @ + 1]}
        <3>1. loop'.iteration = loop.iteration /\ loop'.pc = "save" /\ loop.pc = "gate"
            BY <1>1, <1>4, <2>1 DEF Gate, At, FrameType
        <3>2. PartsAhead(loop'.pc) < PartsAhead(loop.pc)
            BY <3>1 DEF PartsAhead
        <3> QED
            BY <3>1, <3>2, PartDone
    <2>2. CASE loop' = [loop EXCEPT !.pc = "dispatch"]
        <3>1. /\ loop'.iteration = loop.iteration /\ loop'.pc = "dispatch" /\ loop.pc = "gate"
              /\ Unsent(loop') = Unsent(loop)
            BY <1>1, <1>4, <2>2 DEF Gate, At, FrameType, Unsent
        <3> QED
            BY <3>1 DEF Nearer, PartsAhead, Turn
    <2> QED
        BY <1>4, <2>1, <2>2 DEF Gate
<1>5. CASE Iterated
    <2>1. loop' = [loop EXCEPT !.pc = "check", !.iteration = @ + 1, !.plan = <<>>, !.index = 0]
        BY <1>5 DEF Iterated
    <2>2. loop'.iteration = loop.iteration + 1
        BY <1>1, <2>1 DEF FrameType
    <2> QED
        BY <1>1, <2>2 DEF Nearer
<1>6. CASE DispatchQueue
    <2>1. loop'.iteration = loop.iteration /\ loop.pc = "dispatch" /\ Unsent(loop') = Unsent(loop)
        BY <1>1, <1>6 DEF DispatchQueue, At, FrameType, Unsent
    <2>2. loop'.pc \in {"raised", "trace"}
        BY <1>1, <1>6 DEF DispatchQueue, FrameType
    <2> QED
        BY <2>1, <2>2 DEF Nearer, PartsAhead, Turn
<1>7. ASSUME NEW reported \in BOOLEAN, Generate(reported) PROVE Nearer(loop, loop')
    <2>1. /\ loop'.iteration = loop.iteration /\ loop.pc = "dispatch" /\ loop'.pc = "generated"
          /\ Unsent(loop') = Unsent(loop)
        BY <1>1, <1>7, Moved DEF Generate, At, Points, Unsent
    <2> QED
        BY <2>1 DEF Nearer, PartsAhead, Turn
<1>8. CASE AppendTrace \/ KeepReply
    <2>1. loop.pc \in {"trace", "generated"} /\ loop' = Collected
        BY <1>8 DEF AppendTrace, KeepReply, At
    <2>2. loop.n < MaxSubagents
        <3>1. loop.index < Len(loop.plan) /\ loop.n + (Len(loop.plan) - loop.index) <= MaxSubagents
            BY <2>1 DEF Core, Frames
        <3>2. loop.n \in Nat /\ MaxSubagents \in Nat /\ Len(loop.plan) \in Nat
            BY <1>1, LoopAssumption DEF FrameType
        <3> QED
            BY <1>1, <3>1, <3>2
    <2>3. /\ loop'.pc = "gate" /\ loop'.iteration = loop.iteration /\ loop'.index = loop.index + 1
          /\ loop'.plan = loop.plan
        BY <1>1, <2>1, <2>2, CollectedFrame
    <2>4. Unsent(loop') < Unsent(loop)
        BY <1>1, <2>3 DEF Unsent
    <2> QED
        BY <2>1, <2>3, <2>4 DEF Nearer, PartsAhead
<1>9. ~Complete
    BY DEF Complete
<1> QED
    BY <1>2, <1>3, <1>4, <1>5, <1>6, <1>7, <1>8, <1>9 DEF LoopStep

\* OrchestratorLoop.run comes nearer to its end with every step, whatever its lead agent
\* plans, the gate refuses and the registry resolves.
THEOREM LoopNears == Spec => LoopShortens
<1>1. LoopInv => Core
    BY DEF LoopInv, Core, SpendBounded
<1>2. Core' => loop'.iteration <= MaxIterations /\ Unsent(loop') \in Nat
    <2> SUFFICES ASSUME Core' PROVE loop'.iteration <= MaxIterations /\ Unsent(loop') \in Nat
        OBVIOUS
    <2>1. loop'.iteration \in 0..MaxIterations /\ loop'.plan \in Seq(Delegations)
          /\ loop'.index \in 0..Len(loop'.plan)
        BY DEF Core, TypeOK, FrameType
    <2>2. Len(loop'.plan) \in Nat /\ MaxIterations \in Nat
        BY <2>1, LoopAssumption
    <2> QED
        BY <2>1, <2>2 DEF Unsent
<1>3. [Next]_vars /\ loop' # loop => LoopStep \/ Crash
    BY DEF Next, WorkerHandles, Revoke, Reimport, Consult, Cancel, List, Show, Promote, vars
<1> QED
    BY <1>1, <1>2, <1>3, BrakesWork, StepNearer, PTL DEF Spec, LoopShortens
=============================================================================
