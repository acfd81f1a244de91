------------------------- MODULE ApprovalGateProofs -------------------------
(***************************************************************************)
(* ApprovalInv is inductive for any number of principals, any roles and any *)
(* quorum; QuorumGrants, VerdictIsGrounded and the refinement of            *)
(* ApprovalContract follow from it.                                         *)
(***************************************************************************)
EXTENDS ApprovalGate, FiniteSetTheorems, TLAPS

\* Every approval asks for a natural number of parties.
LEMMA RequestType == TypeOK => request.parties \in Nat
    BY ApprovalAssumption DEF TypeOK

\* A backed approval stays backed: approvals are only ever added.
LEMMA BackedStays ==
    ASSUME ApprovalInv, resolutions' \subseteq Principals, request' = request,
           resolutions \subseteq resolutions', single \subseteq single', Backed
    PROVE  Backed'
<1>1. IsFiniteSet(resolutions')
    BY FS_Subset, ApprovalAssumption
<1>2. Cardinality(resolutions) <= Cardinality(resolutions')
    BY <1>1, FS_Subset
<1>3. Cardinality(resolutions') \in Nat /\ Cardinality(resolutions) \in Nat
    BY <1>1, FS_CardinalityType, FS_Subset
<1>4. request.parties \in Nat
    BY RequestType DEF ApprovalInv
<1> QED
    BY <1>2, <1>3, <1>4 DEF Backed

\* A step of the stage only moves the waiter on what the gate and the row say.
LEMMA WaitStep ==
    ASSUME ApprovalInv, Wait \/ Expire
    PROVE  ApprovalInv'
<1> USE DEF ApprovalInv, TypeOK, Verdicts, Outcomes, Blocked, Calls, gateVars,
            resolverVars, Backed, Qualified, RoleBound
<1>1. CASE Request
    BY <1>1 DEF Request, create
<1>2. CASE Register
    BY <1>2 DEF Register
<1>3. CASE CheckEvent
    BY <1>3 DEF CheckEvent
<1>4. CASE Poll
    BY <1>4 DEF Poll, Outcome
<1>5. CASE WakeUp
    BY <1>5 DEF WakeUp
<1>6. CASE Settle
    BY <1>6 DEF Settle
<1>7. CASE Expire
    BY <1>7 DEF Expire
<1> QED
    BY <1>1, <1>2, <1>3, <1>4, <1>5, <1>6, <1>7 DEF Wait

\* A role-bound verdict: an approval enters the gate with its quorum.
LEMMA BoundStep ==
    ASSUME ApprovalInv, NEW p \in Principals, NEW v \in Verdicts, ResolveBound(p, v)
    PROVE  ApprovalInv'
<1> USE DEF Verdicts
<1>1. TypeOK'
    <2>2. call' \in [Principals -> Calls]
        BY DEF ApprovalInv, TypeOK, ResolveBound, Calls
    <2>3. resolutions' \subseteq Principals /\ opposed' \subseteq Principals /\ calls' \in Nat /\ verdicts' \subseteq Verdicts
        BY DEF ApprovalInv, TypeOK, ResolveBound, Called
    <2>5. event' \in BOOLEAN /\ approved' \in BOOLEAN
        BY DEF ApprovalInv, TypeOK, ResolveBound
    <2>4. UNCHANGED <<request, row, registered, waiter, expired, status, single>>
        BY DEF ResolveBound
    <2> QED
        BY <2>2, <2>3, <2>4, <2>5 DEF ApprovalInv, TypeOK
<1>2. resolutions \subseteq resolutions' /\ single \subseteq single' /\ verdicts \subseteq verdicts'
    BY DEF ResolveBound, Called
<1>3. Backed => Backed'
    BY <1>1, <1>2, BackedStays DEF TypeOK, ResolveBound
<1>4. \A q \in resolutions' : Qualified(q)
    BY DEF ApprovalInv, ResolveBound, Qualified
<1>5. v = "approved" /\ ~(Cardinality(resolutions') < request.parties) => Backed'
    <2>1. Cardinality(resolutions') \in Nat
        BY <1>1, FS_Subset, FS_CardinalityType, ApprovalAssumption DEF TypeOK
    <2> QED
        BY <2>1, <1>1, RequestType DEF Backed, ResolveBound, ApprovalInv
<1>6. RoleBound =>
          /\ row' = "approved" \/ approved' \/ waiter' = "granted" => Backed'
          /\ \A q \in Principals :
                call'[q].next # "none" /\ call'[q].verdict = "approved" => Backed'
    BY <1>3, <1>5 DEF ApprovalInv, TypeOK, ResolveBound
<1>7. \A q \in Principals : call'[q].next # "none" => call'[q].verdict \in verdicts'
    BY <1>2 DEF ApprovalInv, TypeOK, ResolveBound, Called
<1>8. event' => (IF approved' THEN "approved" ELSE "denied") \in verdicts'
    BY DEF ApprovalInv, TypeOK, ResolveBound, Called
<1>9. /\ row' \in Verdicts => row' \in verdicts'
      /\ waiter' = "granted" => "approved" \in verdicts'
      /\ waiter' = "denied" => "denied" \in verdicts'
    BY <1>2 DEF ApprovalInv, ResolveBound
<1>10. request' = request
    BY DEF ResolveBound
<1> QED
    BY <1>10, <1>1, <1>4, <1>6, <1>7, <1>8, <1>9 DEF ApprovalInv, Backed, Qualified, RoleBound

\* The other steps of resolve carry a verdict from the call to the row or the gate.
LEMMA CarryStep ==
    ASSUME ApprovalInv, NEW p \in Principals,
           \/ Persist(p) \/ Notify(p)
           \/ \E v \in Verdicts : ResolveRow(p, v)
    PROVE  ApprovalInv'
<1> USE DEF Verdicts
<1>1. CASE Persist(p)
    BY <1>1 DEF ApprovalInv, TypeOK, Persist, resolve, gateVars, Calls, Idle, Backed, Qualified, RoleBound
<1>2. CASE Notify(p)
    <2>1. TypeOK'
        BY <1>2 DEF ApprovalInv, TypeOK, Notify, Calls, Idle
    <2>2. approved' <=> call[p].verdict = "approved"
        BY <1>2 DEF Notify
    <2>3. call[p].verdict \in Verdicts /\ call[p].verdict \in verdicts
        BY <1>2 DEF ApprovalInv, TypeOK, Notify, Calls
    <2>4. RoleBound /\ approved' => Backed
        BY <1>2, <2>2 DEF ApprovalInv, Notify
    <2>5. event' => (IF approved' THEN "approved" ELSE "denied") \in verdicts'
        BY <1>2, <2>2, <2>3 DEF Notify
    <2>6. \A q \in Principals : q # p => call'[q] = call[q]
        BY <1>2 DEF ApprovalInv, TypeOK, Notify
    <2>7. call'[p].next = "none"
        BY <1>2 DEF ApprovalInv, TypeOK, Notify, Idle
    <2>8. UNCHANGED <<request, row, resolutions, waiter, verdicts, single>>
        BY <1>2 DEF Notify
    <2> QED
        BY <2>1, <2>4, <2>5, <2>6, <2>7, <2>8 DEF ApprovalInv, Backed, Qualified, RoleBound
<1>3. ASSUME NEW v \in Verdicts, ResolveRow(p, v) PROVE ApprovalInv'
    <2>1. TypeOK'
        BY <1>3 DEF ApprovalInv, TypeOK, ResolveRow, resolve, Called, gateVars, Calls, Idle
    <2>2. v = "approved" => Backed'
        BY <1>3 DEF ResolveRow, Backed
    <2>3. Backed => Backed'
        BY <1>3, <2>1, BackedStays DEF ResolveRow, gateVars, TypeOK
    <2>4. RoleBound =>
              /\ row' = "approved" \/ approved' \/ waiter' = "granted" => Backed'
              /\ \A q \in Principals :
                    call'[q].next # "none" /\ call'[q].verdict = "approved" => Backed'
        BY <1>3, <2>2, <2>3 DEF ApprovalInv, TypeOK, ResolveRow, resolve, gateVars, Idle
    <2>5. \A q \in Principals : call'[q].next # "none" => call'[q].verdict \in verdicts'
        BY <1>3 DEF ApprovalInv, TypeOK, ResolveRow, resolve, Called, Idle
    <2>6. /\ \A q \in resolutions' : Qualified(q)
          /\ row' \in Verdicts => row' \in verdicts'
          /\ event' => (IF approved' THEN "approved" ELSE "denied") \in verdicts'
          /\ waiter' = "granted" => "approved" \in verdicts'
          /\ waiter' = "denied" => "denied" \in verdicts'
        BY <1>3 DEF ApprovalInv, ResolveRow, resolve, Called, gateVars
    <2>7. request' = request
        BY <1>3 DEF ResolveRow
    <2> QED
        BY <2>1, <2>4, <2>5, <2>6, <2>7 DEF ApprovalInv, Backed, Qualified, RoleBound
<1> QED
    BY <1>1, <1>2, <1>3

\* ApprovalGate keeps its invariant, however the calls of resolve interleave with
\* the polling stage.
THEOREM ApprovalHolds == Spec => []ApprovalInv
<1>1. Init => ApprovalInv
    <2> SUFFICES ASSUME Init PROVE ApprovalInv
        OBVIOUS
    <2>1. TypeOK
        BY DEF Init, TypeOK, Verdicts, Outcomes, Blocked, Calls, Idle
    <2>2. ~approved /\ ~event /\ resolutions = {} /\ row = "none" /\ waiter = "idle"
        BY DEF Init
    <2>3. \A p \in Principals : call[p].next = "none"
        BY DEF Init, Idle
    <2> QED
        BY <2>1, <2>2, <2>3 DEF ApprovalInv, Verdicts
<1>2. ApprovalInv /\ [Next]_vars => ApprovalInv'
    <2> SUFFICES ASSUME ApprovalInv, [Next]_vars PROVE ApprovalInv'
        OBVIOUS
    <2>1. CASE UNCHANGED vars
        BY <2>1 DEF vars, ApprovalInv, TypeOK, Backed, Qualified, RoleBound
    <2>2. CASE Next
        BY <2>2, WaitStep, BoundStep, CarryStep DEF Next
    <2> QED
        BY <2>1, <2>2
<1> QED
    BY <1>1, <1>2, PTL DEF Spec

\* N-of-M: wait returns for a role-bound approval only with N distinct principals
\* of a matching role, unless the row was resolved single-handedly.
THEOREM NOfM == Spec => []QuorumGrants
<1>1. ApprovalInv => QuorumGrants
    <2> SUFFICES ASSUME ApprovalInv, waiter = "granted", RoleBound, "approved" \notin single
                 PROVE  Cardinality({p \in resolutions : Qualified(p)}) >= request.parties
        BY DEF QuorumGrants
    <2>1. {p \in resolutions : Qualified(p)} = resolutions
        BY DEF ApprovalInv
    <2>2. Cardinality(resolutions) >= request.parties
        BY DEF ApprovalInv, Backed
    <2> QED
        BY <2>1, <2>2
<1> QED
    BY <1>1, ApprovalHolds, PTL

\* wait ends on a verdict somebody gave to resolve.
THEOREM Grounded == Spec => []VerdictIsGrounded
<1>1. ApprovalInv => VerdictIsGrounded
    BY DEF ApprovalInv, VerdictIsGrounded
<1> QED
    BY <1>1, ApprovalHolds, PTL

\* A resolver that told the gate first still owes the row its verdict, and the row is
\* never taken back.
LEMMA RecordedStep == ApprovalInv /\ Recorded /\ [Next]_vars => Recorded'
<1> SUFFICES ASSUME ApprovalInv, Recorded, [Next]_vars PROVE Recorded'
    OBVIOUS
<1> USE DEF Recorded, Verdicts
<1>1. CASE Request
    BY <1>1 DEF Request, create, gateVars, resolverVars
<1>2. CASE Register
    BY <1>2 DEF Register, resolverVars
<1>3. CASE CheckEvent
    BY <1>3 DEF CheckEvent, gateVars, resolverVars
<1>4. CASE Poll
    BY <1>4 DEF Poll, Outcome, gateVars, resolverVars
<1>5. CASE WakeUp
    BY <1>5 DEF WakeUp, gateVars, resolverVars
<1>6. CASE Settle \/ Expire
    BY <1>6 DEF Settle, Expire, gateVars, resolverVars
<1>7. ASSUME NEW p \in Principals, NEW v \in Verdicts, ResolveBound(p, v) PROVE Recorded'
    <2>1. registered /\ waiter \notin {"idle", "created"} /\ call[p] = Idle
        BY <1>7 DEF ResolveBound, Known, Called
    <2>2. UNCHANGED <<row, registered, waiter>>
        BY <1>7 DEF ResolveBound
    <2>3. CASE UNCHANGED <<event, approved, call>>
        BY <2>1, <2>2, <2>3
    <2>4. CASE call' = [call EXCEPT ![p] = [next |-> "persist", verdict |-> v]]
        <3>1. call'[p].next = "persist" /\ \A q \in Principals \ {p} : call'[q] = call[q]
            BY <2>4 DEF ApprovalInv, TypeOK
        <3> QED
            BY <2>1, <2>2, <3>1
    <2> QED
        BY <1>7, <2>3, <2>4 DEF ResolveBound
<1>8. ASSUME NEW p \in Principals, NEW v \in Verdicts, ResolveRow(p, v) PROVE Recorded'
    <2>1. row' \in Verdicts /\ row # "none" /\ UNCHANGED <<event, registered, waiter>>
        BY <1>8 DEF ResolveRow, resolve, gateVars
    <2> QED
        BY <2>1
<1>9. ASSUME NEW p \in Principals, Persist(p) PROVE Recorded'
    <2>1. call[p].verdict \in Verdicts
        BY DEF ApprovalInv, TypeOK, Calls
    <2>2. row' \in Verdicts /\ UNCHANGED <<event, registered, waiter>>
        BY <1>9, <2>1 DEF Persist, resolve, gateVars
    <2>3. waiter # "idle"
        BY <1>9 DEF Persist, Idle
    <2> QED
        BY <2>2, <2>3
<1>10. ASSUME NEW p \in Principals, Notify(p) PROVE Recorded'
    <2>1. row \in Verdicts /\ UNCHANGED <<row, registered, waiter>>
        BY <1>10 DEF Notify
    <2> QED
        BY <2>1
<1>11. CASE UNCHANGED vars
    BY <1>11 DEF vars
<1> QED
    BY <1>1, <1>2, <1>3, <1>4, <1>5, <1>6, <1>7, <1>8, <1>9, <1>10, <1>11 DEF Next, Wait

\* When nobody disagreed and every resolve has returned, the approvals row says what
\* the stage acted on, whichever of the two signals reached it first.
THEOREM RowRecordsOutcome == Spec => []RowAgrees
<1>1. Init => Recorded
    BY DEF Init, Recorded, Idle
<1>2. ApprovalInv /\ Recorded /\ [Next]_vars => Recorded'
    BY RecordedStep
<1>3. ApprovalInv /\ Recorded => RowAgrees
    <2> SUFFICES ASSUME ApprovalInv, Recorded, waiter \in {"granted", "denied"},
                        verdicts # Verdicts, \A p \in Principals : call[p] = Idle
                 PROVE  row \in Verdicts /\ Outcome(row) = waiter
        BY DEF RowAgrees
    <2>1. row \in Verdicts
        BY DEF Recorded, Idle
    <2>2. row \in verdicts /\ verdicts \subseteq Verdicts
        BY <2>1 DEF ApprovalInv, TypeOK
    <2>3. /\ waiter = "granted" => "approved" \in verdicts
          /\ waiter = "denied" => "denied" \in verdicts
        BY DEF ApprovalInv
    <2> QED
        BY <2>1, <2>2, <2>3 DEF Verdicts, Outcome
<1> QED
    BY <1>1, <1>2, <1>3, ApprovalHolds, PTL DEF Spec

-----------------------------------------------------------------------------
(* The refinement of ApprovalContract.                                      *)

\* A deadline passes only for a gate that has one.
LEMMA DeadlineStep == DeadlineInv /\ [Next]_vars => DeadlineInv'
<1> USE DEF DeadlineInv, gateVars, resolverVars
<1> QED
    BY DEF Next, Wait, Request, Register, CheckEvent, Poll, WakeUp, Settle, Expire, ResolveBound, ResolveRow,
           Persist, Notify, vars

\* The waiter's steps: the question is put, the wait ends, or it goes on.
LEMMA WaiterContract ==
    ASSUME ApprovalInv, DeadlineInv, Wait \/ Expire
    PROVE  Contract!Next \/ UNCHANGED <<request, Stage, resolutions, opposed, verdicts, single, status>>
<1> USE DEF gateVars, resolverVars, Stage, Blocked
<1>1. CASE Request
    BY <1>1 DEF Request, Contract!Next, Contract!Ask
<1>2. CASE Register \/ WakeUp \/ Expire
    BY <1>2 DEF Register, WakeUp, Expire
<1>3. CASE CheckEvent \/ Poll
    <2>1. Stage = "asked" /\ UNCHANGED <<request, resolutions, opposed, verdicts, single, status>>
        BY <1>3 DEF CheckEvent, Poll
    <2>2. CASE waiter' \in Blocked
        BY <2>1, <2>2
    <2>3. CASE waiter' = "granted"
        <3>1. "approved" \in verdicts /\ (RoleBound => Backed)
            BY <1>3, <2>3 DEF CheckEvent, Poll, ApprovalInv, Verdicts, Outcome
        <3>2. Contract!Mandate
            BY <3>1 DEF Contract!Mandate, Contract!RoleBound, RoleBound, Backed, Cardinality, Contract!Cardinality
        <3> QED
            BY <2>1, <2>3, <3>2 DEF Contract!Next, Contract!Close, Contract!Overrule
    <2>4. CASE waiter' = "denied"
        <3>1. "denied" \in verdicts
            BY <1>3, <2>4 DEF CheckEvent, Poll, ApprovalInv, Verdicts, Outcome
        <3> QED
            BY <2>1, <2>4, <3>1 DEF Contract!Next, Contract!Close
    <2>5. CASE waiter' = "timeout"
        <3>1. request.timeout
            BY <1>3, <2>5 DEF CheckEvent, Poll, DeadlineInv, Outcome
        <3> QED
            BY <2>1, <2>5, <3>1 DEF Contract!Next, Contract!Close
    <2> QED
        BY <1>3, <2>2, <2>3, <2>4, <2>5 DEF CheckEvent, Poll, Outcome
<1>4. CASE Settle
    BY <1>4 DEF Settle, Contract!Next, Contract!Fail
<1> QED
    BY <1>1, <1>2, <1>3, <1>4 DEF Wait

\* The resolvers' steps: somebody speaks, or a verdict is carried on.
LEMMA ResolverContract ==
    ASSUME ApprovalInv, Recorded, NEW p \in Principals,
           \/ Persist(p) \/ Notify(p)
           \/ \E v \in Verdicts : ResolveBound(p, v) \/ ResolveRow(p, v)
    PROVE  Contract!Next \/ UNCHANGED <<request, Stage, resolutions, opposed, verdicts, single, status>>
<1> USE DEF gateVars, Stage, Blocked
<1>1. CASE Persist(p) \/ Notify(p)
    BY <1>1 DEF Persist, Notify
<1>2. ASSUME NEW v \in Verdicts, ResolveBound(p, v) PROVE Contract!Next
    <2>1. Stage # "idle" /\ RolesOf[p] \cap request.roles # {}
        BY <1>2 DEF ResolveBound, Known, Qualified, Recorded
    <2>2. /\ verdicts' = verdicts \cup {v}
          /\ resolutions' = IF v = "approved" THEN resolutions \cup {p} ELSE resolutions
          /\ opposed' = IF v = "denied" THEN opposed \cup {p} ELSE opposed
          /\ UNCHANGED <<request, Stage, single, status>>
        BY <1>2 DEF ResolveBound, Called
    <2>3. CASE v = "approved"
        BY <2>1, <2>2, <2>3 DEF Contract!Next, Contract!Support
    <2>4. CASE v = "denied"
        BY <2>1, <2>2, <2>4 DEF Contract!Next, Contract!Object
    <2> QED
        BY <2>3, <2>4 DEF Verdicts
<1>3. ASSUME NEW v \in Verdicts, ResolveRow(p, v) PROVE Contract!Next
    <2>1. Stage # "idle"
        BY <1>3 DEF ResolveRow, Recorded
    <2>2. /\ verdicts' = verdicts \cup {v} /\ single' = single \cup {v}
          /\ UNCHANGED <<request, Stage, resolutions, opposed, status>>
        BY <1>3 DEF ResolveRow, Called
    <2> QED
        BY <2>1, <2>2 DEF Contract!Next, Contract!Decide, Verdicts
<1> QED
    BY <1>1, <1>2, <1>3

\* The gate implements ApprovalContract, for any principals, roles and quorum and however the
\* two signals of a verdict, the deadline and the polling waiter interleave.  The contract
\* has the grant against a qualified denial as an action of its own.
THEOREM GateRefines == Spec => ImplementsApprovalContract
<1>1. Init => Contract!Init
    BY DEF Init, Contract!Init, Stage, Blocked
<1>2. Init => DeadlineInv /\ Recorded
    BY DEF Init, DeadlineInv, Recorded, Idle
<1>3. ApprovalInv /\ Recorded /\ DeadlineInv /\ [Next]_vars => [Contract!Next]_(Contract!vars)
    <2> SUFFICES ASSUME ApprovalInv, Recorded, DeadlineInv, [Next]_vars
                 PROVE  Contract!Next \/ UNCHANGED <<request, Stage, resolutions, opposed, verdicts, single, status>>
        BY DEF Contract!vars
    <2>1. CASE UNCHANGED vars
        BY <2>1 DEF vars, Stage
    <2>2. CASE Next
        BY <2>2, WaiterContract, ResolverContract DEF Next
    <2> QED
        BY <2>1, <2>2
<1> QED
    BY <1>1, <1>2, <1>3, ApprovalHolds, RecordedStep, DeadlineStep, PTL DEF Spec, Contract!Spec, ImplementsApprovalContract

-----------------------------------------------------------------------------
(* The safety side of VerdictUnblocks.                                      *)

Signalled == event \/ row \in Verdicts

\* Steps that the waiter needs at most to act on a signal: one that reads the row just
\* before the verdict gets there sleeps once more, and then finds the event.
Distance ==
    CASE waiter = "created" -> 4 [] waiter = "sleep" -> 3 [] waiter = "check" -> 2
      [] waiter = "poll" -> (IF row \in Verdicts THEN 1 ELSE 5)
      [] OTHER -> 0

\* A signal, in the gate or in the row, is never taken back; from then on every step of
\* the waiter brings it nearer to the end of the wait, and nobody else's step takes it back.
SignalIsHeard ==
    [][Signalled =>
          /\ Signalled'
          /\ Distance' <= Distance
          /\ Wait /\ waiter \in Blocked => Distance' < Distance]_vars

\* No verdict is lost between the event and the row: wait_for acts on it within a bounded
\* number of its own steps, however the resolvers and the deadline interleave with them.
THEOREM VerdictIsHeard == Spec => SignalIsHeard
<1>1. ASSUME ApprovalInv, Recorded, Next, Signalled
      PROVE  /\ Signalled'
             /\ Distance' <= Distance
             /\ Wait /\ waiter \in Blocked => Distance' < Distance
    <2>1. waiter # "idle"
        BY <1>1 DEF Recorded, Signalled, Verdicts
    <2>2. CASE Wait
        <3>1. Signalled'
            BY <1>1, <2>1, <2>2 DEF Wait, Request, Register, CheckEvent, Poll, WakeUp, Settle, gateVars, Signalled
        <3>2. CASE Register \/ WakeUp
            BY <3>1, <3>2 DEF Register, WakeUp, Distance, gateVars
        <3>3. CASE CheckEvent
            BY <1>1, <3>1, <3>3 DEF CheckEvent, Distance, gateVars, Signalled
        <3>4. CASE Poll
            BY <1>1, <3>1, <3>4 DEF Poll, Outcome, Distance, gateVars, Signalled
        <3>5. CASE Settle
            BY <3>1, <3>5 DEF Settle, Distance, Blocked, gateVars
        <3> QED
            BY <2>1, <2>2, <3>2, <3>3, <3>4, <3>5 DEF Wait, Request
    <2>3. CASE Expire
        <3>1. ~Wait
            BY <2>3 DEF Expire, Wait, Request, Register, CheckEvent, Poll, WakeUp, Settle
        <3>2. UNCHANGED <<event, row, waiter>>
            BY <2>3 DEF Expire, gateVars
        <3> QED
            BY <1>1, <3>1, <3>2 DEF Distance, Signalled
    <2>4. CASE ~Wait /\ ~Expire
        <3>1. waiter' = waiter /\ (event => event') /\ (row' = row \/ row' \in Verdicts)
            <4>1. \A p \in Principals : call[p].verdict \in Verdicts
                BY <1>1 DEF ApprovalInv, TypeOK, Calls
            <4> QED
                BY <1>1, <2>4, <4>1 DEF Next, ResolveBound, ResolveRow, Persist, Notify, resolve, gateVars
        <3> QED
            BY <1>1, <2>4, <3>1 DEF Signalled, Distance
    <2> QED
        BY <2>2, <2>3, <2>4
<1>2. Init => Recorded
    BY DEF Init, Recorded, Idle
<1> QED
    BY <1>1, <1>2, ApprovalHolds, RecordedStep, PTL DEF Spec, SignalIsHeard

=============================================================================
