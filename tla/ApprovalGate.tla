---------------------------- MODULE ApprovalGate ----------------------------
(***************************************************************************)
(* ApprovalGate (approval/service.py): a stage blocks on one approval while *)
(* humans resolve it.  The waiter honours two signals, the in-process event *)
(* and the approvals row, which it polls; a resolver writes both, one after *)
(* the other, with an await in between.  A resolver in another process (the *)
(* approval service) has only the row.                                      *)
(*                                                                          *)
(* The gate is the one DefaultL1 uses with a repository; what becomes of    *)
(* the run when the stage raises is _drive's part (orchestrator/l1.py).     *)
(***************************************************************************)
EXTENDS Integers, FiniteSets

CONSTANTS
    Principals,     \* humans who may resolve the approval
    Roles,
    RolesOf,        \* principal.roles
    Remote,         \* principals who go through the approval service
    TokenOf,        \* whose approval the token of a remote principal was minted for
    Requests,       \* approvals that may be asked for (see Requested)
    MaxCalls        \* bound on the calls of resolve

ASSUME ApprovalAssumption ==
    /\ IsFiniteSet(Principals)
    /\ RolesOf \in [Principals -> SUBSET Roles]
    /\ Remote \subseteq Principals
    /\ TokenOf \in [Remote -> {"this", "other", "none"}]
    /\ Requests \subseteq [roles: SUBSET Roles, parties: Nat \ {0},
                           timeout: BOOLEAN, secured: BOOLEAN]
    /\ MaxCalls \in Nat

VARIABLES
    request,      \* required_roles, parties, whether the gate has a timeout and the
                  \* service a signing secret
    row,          \* approvals.status, "none" before the INSERT
    registered,   \* whether _pending holds the approval
    event,        \* _Pending.event
    approved,     \* _Pending.approved
    resolutions,  \* principals in _Pending.resolutions
    waiter,       \* where wait() is
    expired,      \* whether the deadline has passed
    status,       \* runs.status
    call,         \* what each principal's resolve() still has to do
    calls,        \* calls of resolve so far
    verdicts,     \* verdicts given so far (history)
    single,       \* verdicts that went straight to the row (history)
    opposed       \* principals with a required role who denied (history)

vars == <<request, row, registered, event, approved, resolutions, waiter, expired, status,
          call, calls, verdicts, single, opposed>>
gateVars == <<registered, event, approved, resolutions>>
resolverVars == <<call, calls, verdicts, single, opposed>>

Verdicts == {"approved", "denied"}
Outcomes == {"granted", "denied", "timeout"}
Blocked == {"created", "check", "poll", "sleep"}
Idle == [next |-> "none", verdict |-> "denied"]
Calls == [next: {"none", "persist", "notify"}, verdict: Verdicts]

RoleBound == request.roles # {}
Qualified(p) == RolesOf[p] \cap request.roles # {}
Outcome(verdict) == IF verdict = "approved" THEN "granted" ELSE "denied"

\* Whether the gate that p resolves through has the approval in _pending: the service
\* of maof run-approval has a gate of its own, over the same table.
Known(p) == registered /\ p \notin Remote

\* The approval service: a token for another approval, or none, is refused when the
\* service has a signing secret.
verify_approval_token(p) == TokenOf[p] = "this"
Admitted(p) == p \in Remote /\ request.secured => verify_approval_token(p)

\* The approvals table.
create == row' = "pending"
resolve(verdict) == row' = verdict

-----------------------------------------------------------------------------
(* The stage: wait, request and wait_for.                                  *)

\* request: the row is inserted.
Request ==
    /\ waiter = "idle"
    /\ create
    /\ waiter' = "created"
    /\ UNCHANGED <<request, gateVars, expired, status, resolverVars>>

\* request goes on: the approval is entered in _pending.
Register ==
    /\ waiter = "created"
    /\ registered' = TRUE
    /\ waiter' = "check"
    /\ UNCHANGED <<request, row, event, approved, resolutions, expired, status, resolverVars>>

CheckEvent ==
    /\ waiter = "check"
    /\ waiter' = IF ~event THEN "poll" ELSE IF approved THEN "granted" ELSE "denied"
    /\ UNCHANGED <<request, row, gateVars, expired, status, resolverVars>>

\* Mutant of Poll: the row is not looked at.
PollDeadlineOnly ==
    /\ waiter = "poll"
    /\ waiter' = IF expired THEN "timeout" ELSE "sleep"
    /\ UNCHANGED <<request, row, gateVars, expired, status, resolverVars>>

\* Mutant of Poll: the deadline is not looked at.
PollForEver ==
    /\ waiter = "poll"
    /\ waiter' = IF row \in Verdicts THEN Outcome(row) ELSE "sleep"
    /\ UNCHANGED <<request, row, gateVars, expired, status, resolverVars>>

\* The row is read; without a verdict the deadline is checked.
Poll ==
    /\ waiter = "poll"
    /\ waiter' = IF row \in Verdicts THEN Outcome(row)
                 ELSE IF expired THEN "timeout" ELSE "sleep"
    /\ UNCHANGED <<request, row, gateVars, expired, status, resolverVars>>

\* The event is set or the poll interval is over.
WakeUp ==
    /\ waiter = "sleep"
    /\ waiter' = "check"
    /\ UNCHANGED <<request, row, gateVars, expired, status, resolverVars>>

Expire ==
    /\ request.timeout
    /\ ~expired
    /\ waiter \in {"check", "poll", "sleep"}
    /\ expired' = TRUE
    /\ UNCHANGED <<request, row, gateVars, waiter, status, resolverVars>>

\* A denial raises ApprovalRequired, which _drive turns into FAILED; the
\* TimeoutError of wait_for is none of the exceptions _drive handles.
Settle ==
    /\ waiter = "denied"
    /\ status = "running"
    /\ status' = "failed"
    /\ UNCHANGED <<request, row, gateVars, waiter, expired, resolverVars>>

-----------------------------------------------------------------------------
(* The humans: resolve.                                                    *)

Called(p, verdict) ==
    /\ call[p] = Idle
    /\ calls < MaxCalls
    /\ calls' = calls + 1
    /\ verdicts' = verdicts \cup {verdict}

\* Mutant of ResolveBound: the second approval of the same principal counts.
ResolveBoundTwice(p, verdict) ==
    /\ RoleBound /\ Known(p) /\ Qualified(p)
    /\ Called(p, verdict)
    /\ IF verdict = "approved"
       THEN /\ resolutions' = resolutions \cup {p}
            /\ IF calls' < request.parties
               THEN UNCHANGED <<event, approved, call>>
               ELSE /\ approved' = TRUE
                    /\ event' = TRUE
                    /\ call' = [call EXCEPT ![p] = [next |-> "persist", verdict |-> verdict]]
       ELSE /\ approved' = FALSE
            /\ event' = TRUE
            /\ call' = [call EXCEPT ![p] = [next |-> "persist", verdict |-> verdict]]
            /\ UNCHANGED resolutions
    /\ opposed' = IF verdict = "denied" THEN opposed \cup {p} ELSE opposed
    /\ UNCHANGED <<request, row, registered, waiter, expired, status, single>>

\* A role-bound approval: only a matching role counts, every principal once, and
\* the verdict is in the gate before it is in the row.
ResolveBound(p, verdict) ==
    /\ RoleBound /\ Known(p) /\ Qualified(p)
    /\ Called(p, verdict)
    /\ IF verdict = "approved"
       THEN /\ resolutions' = resolutions \cup {p}
            /\ IF Cardinality(resolutions') < request.parties
               THEN UNCHANGED <<event, approved, call>>
               ELSE /\ approved' = TRUE
                    /\ event' = TRUE
                    /\ call' = [call EXCEPT ![p] = [next |-> "persist", verdict |-> verdict]]
       ELSE /\ approved' = FALSE
            /\ event' = TRUE
            /\ call' = [call EXCEPT ![p] = [next |-> "persist", verdict |-> verdict]]
            /\ UNCHANGED resolutions
    /\ opposed' = IF verdict = "denied" THEN opposed \cup {p} ELSE opposed
    /\ UNCHANGED <<request, row, registered, waiter, expired, status, single>>

\* Mutant of Persist: the row always says approved.
PersistApproved(p) ==
    /\ call[p].next = "persist"
    /\ resolve("approved")
    /\ call' = [call EXCEPT ![p] = Idle]
    /\ UNCHANGED <<request, gateVars, waiter, expired, status, calls, verdicts, single, opposed>>

Persist(p) ==
    /\ call[p].next = "persist"
    /\ resolve(call[p].verdict)
    /\ call' = [call EXCEPT ![p] = Idle]
    /\ UNCHANGED <<request, gateVars, waiter, expired, status, calls, verdicts, single, opposed>>

\* An approval that is not role-bound, or that this process does not know (yet):
\* the verdict is in the row first, and then in the gate if it was known.
ResolveRow(p, verdict) ==
    /\ ~RoleBound \/ ~Known(p)
    /\ row # "none" /\ Admitted(p)
    /\ Called(p, verdict)
    /\ resolve(verdict)
    /\ single' = single \cup {verdict}
    /\ call' = [call EXCEPT ![p] = IF Known(p)
                                   THEN [next |-> "notify", verdict |-> verdict]
                                   ELSE Idle]
    /\ UNCHANGED <<request, gateVars, waiter, expired, status, opposed>>

Notify(p) ==
    /\ call[p].next = "notify"
    /\ approved' = (call[p].verdict = "approved")
    /\ event' = TRUE
    /\ call' = [call EXCEPT ![p] = Idle]
    /\ UNCHANGED <<request, row, registered, resolutions, waiter, expired, status,
                   calls, verdicts, single, opposed>>

-----------------------------------------------------------------------------
Init ==
    /\ request \in Requests
    /\ row = "none"
    /\ registered = FALSE
    /\ event = FALSE
    /\ approved = FALSE
    /\ resolutions = {}
    /\ waiter = "idle"
    /\ expired = FALSE
    /\ status = "running"
    /\ call = [p \in Principals |-> Idle]
    /\ calls = 0
    /\ verdicts = {}
    /\ single = {}
    /\ opposed = {}

Wait == Request \/ Register \/ CheckEvent \/ Poll \/ WakeUp \/ Settle

Next ==
    \/ Wait
    \/ Expire
    \/ \E p \in Principals, v \in Verdicts : ResolveBound(p, v) \/ ResolveRow(p, v)
    \/ \E p \in Principals : Persist(p) \/ Notify(p)

Spec == Init /\ [][Next]_vars

\* The event loop schedules the waiter and a resolver that has begun, and time
\* passes; nobody owes the run a verdict.
FairSpec ==
    /\ Spec
    /\ WF_vars(Wait)
    /\ WF_vars(Expire)
    /\ \A p \in Principals : WF_vars(Persist(p) \/ Notify(p))

-----------------------------------------------------------------------------
\* The type of every variable.
TypeOK ==
    /\ request \in Requests
    /\ row \in {"none", "pending"} \cup Verdicts
    /\ registered \in BOOLEAN
    /\ event \in BOOLEAN
    /\ approved \in BOOLEAN
    /\ resolutions \subseteq Principals
    /\ waiter \in {"idle"} \cup Blocked \cup Outcomes
    /\ expired \in BOOLEAN
    /\ status \in {"running", "failed"}
    /\ call \in [Principals -> Calls]
    /\ calls \in Nat
    /\ verdicts \subseteq Verdicts
    /\ single \subseteq Verdicts
    /\ opposed \subseteq Principals

\* A role-bound stage goes on only with the approval of as many distinct
\* principals with a matching role as the approval asks for, unless somebody
\* resolved it single-handedly through the row.
QuorumGrants ==
    waiter = "granted" /\ RoleBound /\ "approved" \notin single =>
        Cardinality({p \in resolutions : Qualified(p)}) >= request.parties

\* The stage never ends on a verdict that nobody gave.
VerdictIsGrounded ==
    /\ waiter = "granted" => "approved" \in verdicts
    /\ waiter = "denied" => "denied" \in verdicts

\* When nobody disagreed and every call has returned, the row records the verdict
\* the stage acted on.
RowAgrees ==
    waiter \in {"granted", "denied"} /\ verdicts # Verdicts
            /\ (\A p \in Principals : call[p] = Idle)
        => row \in Verdicts /\ Outcome(row) = waiter

\* A verdict reaches the blocked stage, whichever of the two signals carries it.
VerdictUnblocks == (event \/ row \in Verdicts) ~> waiter \in Outcomes

\* A gate with a timeout never blocks a run for ever.
StageReturns == request.timeout => <>(waiter \in Outcomes)

\* wait_for blocks the stage no longer than its verdict or its deadline takes.
StageUnblocks == VerdictUnblocks /\ StageReturns

-----------------------------------------------------------------------------
(* The gate implements ApprovalContract, with the wait as one state until it ends.  *)

Stage == IF waiter \in Blocked THEN "asked" ELSE waiter

Contract == INSTANCE ApprovalContract WITH stage <- Stage, supporters <- resolutions, said <- verdicts

\* Whichever of event and row the stage hears first, and whoever resolves at the same time:
\* it ends once, goes on only with a quorum of distinct principals in a required role or a
\* single-handed approval, is denied only by a denial and times out only with a deadline.
\* resolve() says that one qualified deny fails the approval; the gate does not keep that
\* while the stage has not heard the denial, and the contract shows it as Overrule.
ImplementsApprovalContract == Contract!Spec

-----------------------------------------------------------------------------
\* The inductive invariant behind QuorumGrants and VerdictIsGrounded: every place
\* an approval can be read from is backed by a quorum.
Backed == "approved" \in single \/ Cardinality(resolutions) >= request.parties

ApprovalInv ==
    /\ TypeOK
    /\ \A p \in resolutions : Qualified(p)
    /\ RoleBound =>
          /\ row = "approved" \/ approved \/ waiter = "granted" => Backed
          /\ \A p \in Principals :
                call[p].next # "none" /\ call[p].verdict = "approved" => Backed
    /\ row \in Verdicts => row \in verdicts
    /\ event => (IF approved THEN "approved" ELSE "denied") \in verdicts
    /\ \A p \in Principals : call[p].next # "none" => call[p].verdict \in verdicts
    /\ waiter = "granted" => "approved" \in verdicts
    /\ waiter = "denied" => "denied" \in verdicts

\* The inductive invariant behind RowAgrees: a signal the stage may act on is in the
\* row, or on its way there in a call that has not returned.
Recorded ==
    /\ waiter = "idle" => row = "none" /\ ~event /\ \A p \in Principals : call[p] = Idle
    /\ registered => waiter \notin {"idle", "created"}
    /\ \A p \in Principals : call[p].next = "notify" => row \in Verdicts
    /\ event \/ waiter \in {"granted", "denied"} =>
          row \in Verdicts \/ \E p \in Principals : call[p].next = "persist"

\* Only a gate with a timeout has a deadline to miss.
DeadlineInv == expired => request.timeout

=============================================================================
