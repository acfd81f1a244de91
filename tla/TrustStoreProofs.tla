-------------------------- MODULE TrustStoreProofs --------------------------
(***************************************************************************)
(* Proofs, for every set of agents, versions, contents, keys and clients   *)
(* and every bound, of the trust properties of TrustStore.                 *)
(***************************************************************************)
EXTENDS TrustStore, TLAPS

-----------------------------------------------------------------------------
(* Time stamps, rows and frames. *)

\* Reading a time stamp back to whole seconds is idempotent, and stays in range.
LEMMA WholeSeconds ==
    ASSUME NEW t \in Times
    PROVE  /\ canonical_rfc3339(t) \in Times
           /\ canonical_rfc3339(canonical_rfc3339(t)) = canonical_rfc3339(t)
  BY TrustAssumption DEF canonical_rfc3339, Times

LEMMA NoTimeStays == canonical_rfc3339(NoTime) = NoTime
  BY DEF canonical_rfc3339, NoTime

LEMMA NowIsWhole ==
    ASSUME clock \in Times
    PROVE  utcnow \in Times /\ canonical_rfc3339(utcnow) = utcnow
  BY WholeSeconds DEF utcnow, canonical_rfc3339

\* A row is not the absence of one, and a frame is not idle.
LEMMA RowIsThere == ASSUME NEW r \in Rows PROVE r # NoRow
  <1>1. r.status # "none"
    BY DEF Rows
  <1> QED
    BY <1>1 DEF NoRow

LEMMA FrameIsBusy == ASSUME NEW f \in Frames PROVE f # Idle /\ f.op # "idle"
  <1>1. f.op # "idle"
    BY DEF Frames
  <1> QED
    BY <1>1 DEF Idle

\* What is read back from the database is a row.
LEMMA EntryIsRow ==
    ASSUME NEW r \in Rows
    PROVE  /\ to_entry(r) \in Rows /\ workflow_to_entry(r) \in Rows
           /\ to_entry(r).content = r.content /\ workflow_to_entry(r).content = r.content
           /\ to_entry(r).status = r.status /\ workflow_to_entry(r).status = r.status
           /\ to_entry(r).signature = r.signature /\ workflow_to_entry(r).signature = r.signature
           /\ to_entry(r).approved_at = canonical_rfc3339(r.approved_at)
           /\ workflow_to_entry(r).approved_at = canonical_rfc3339(r.approved_at)
  <1>1. r.approved_at \in Times \cup {NoTime}
    BY DEF Rows
  <1>2. canonical_rfc3339(r.approved_at) \in Times \cup {NoTime}
    BY <1>1, WholeSeconds, NoTimeStays
  <1> QED
    BY <1>2 DEF Rows, to_entry, workflow_to_entry

\* A signed entry: what approve puts.
SignedAs(signed, content) ==
    /\ signed \in Rows
    /\ signed.content = content /\ signed.status = "approved"
    /\ signed.approved_at = utcnow
    /\ signed.signature # NoSignature
    /\ signed.signature.bytes = canonical_bytes(content, "approved", utcnow)

LEMMA SigningSigns ==
    ASSUME TypeOK, NEW e \in Rows
    PROVE  SignedAs(sign_entry(e), e.content) /\ SignedAs(sign_workflow(e), e.content)
  <1> DEFINE sig == [bytes |-> canonical_bytes(e.content, "approved", utcnow),
                     kid |-> active_kid]
  <1>1. utcnow \in Times /\ active_kid \in Kids /\ active_kid # 0
    BY NowIsWhole, TrustAssumption DEF TypeOK
  <1>2. e.content \in Contents
    BY DEF Rows
  <1>3. sig \in Signatures /\ sig # NoSignature
    BY <1>1, <1>2 DEF Signatures, canonical_bytes, NoSignature
  <1>4. sign_entry(e) = [e EXCEPT !.status = "approved", !.approved_at = utcnow,
                                  !.signature = sig]
    BY DEF sign_entry, Sign
  <1>5. sign_workflow(e) = [e EXCEPT !.status = "approved", !.approved_at = utcnow,
                                     !.signature = sig]
    BY DEF sign_workflow, Sign, canonical_workflow_bytes, canonical_bytes
  <1>6. sig.bytes = canonical_bytes(e.content, "approved", utcnow)
    OBVIOUS
  <1> HIDE DEF sig
  <1>7. LET s == [e EXCEPT !.status = "approved", !.approved_at = utcnow, !.signature = sig]
        IN  SignedAs(s, e.content)
    BY <1>1, <1>3, <1>6 DEF Rows, SignedAs
  <1> QED
    BY <1>4, <1>5, <1>7

LEMMA RevokedIsRow ==
    ASSUME NEW e \in Rows
    PROVE  Revoked(e) \in Rows /\ Revoked(e).signature = NoSignature /\ Revoked(e).status # "approved"
  BY DEF Revoked, Rows

LEMMA PendingIsRow ==
    ASSUME NEW x \in Contents
    PROVE  Pending(x) \in Rows /\ Pending(x).signature = NoSignature /\ Pending(x).status # "approved"
  BY DEF Pending, Rows

-----------------------------------------------------------------------------
(* The steps of the clients. *)

LEMMA BusyFrame ==
    ASSUME TypeOK, NEW c \in Clients, client[c].op # "idle"
    PROVE  /\ client[c] # Idle /\ client[c] \in Frames
           /\ client[c].key \in Keys /\ client[c].entry \in Rows /\ client[c].by \in Callers
  <1>1. client[c] # Idle
    BY DEF Idle
  <1>2. client[c] \in Frames
    BY <1>1 DEF TypeOK
  <1> QED
    BY <1>1, <1>2 DEF Frames

\* The first await of approve and revoke, by a caller who may approve.
LEMMA ReadForms ==
    ASSUME TypeOK, NEW c \in Clients, NEW key \in Keys, NEW caller \in Callers,
           \/ RegistryApproveRead(c, key, caller) \/ RegistryRevokeRead(c, key, caller)
           \/ WorkflowApproveRead(c, key, caller) \/ WorkflowRevokeRead(c, key, caller)
    PROVE  \E op \in {"certify", "sign", "revoke"} : \E entry \in Rows :
              Read(c, op, key, caller, entry) /\ caller # "author"
  <1>1. rows[key] # NoRow => rows[key] \in Rows
    BY DEF TypeOK
  <1>2. rows[key] # NoRow
    BY DEF RegistryApproveRead, RegistryRevokeRead, WorkflowApproveRead, WorkflowRevokeRead, Read
  <1>3. to_entry(rows[key]) \in Rows /\ workflow_to_entry(rows[key]) \in Rows
    BY <1>1, <1>2, EntryIsRow
  <1>4. caller # "author"
    BY DEF RegistryApproveRead, RegistryRevokeRead, WorkflowApproveRead, WorkflowRevokeRead,
           require_scopes
  <1>5. CASE RegistryApproveRead(c, key, caller)
    BY <1>3, <1>4, <1>5 DEF RegistryApproveRead
  <1>6. CASE RegistryRevokeRead(c, key, caller)
    BY <1>3, <1>4, <1>6 DEF RegistryRevokeRead
  <1>7. CASE WorkflowApproveRead(c, key, caller)
    BY <1>3, <1>4, <1>7 DEF WorkflowApproveRead
  <1>8. CASE WorkflowRevokeRead(c, key, caller)
    BY <1>3, <1>4, <1>8 DEF WorkflowRevokeRead
  <1> QED
    BY <1>5, <1>6, <1>7, <1>8

\* The put of approve: the signed row, and the indexing still to do where the caller's
\* store has an index.
ApproveForm(c, signed, next) ==
    /\ client[c] \in Frames /\ client[c].op = "sign"
    /\ SignedAs(signed, client[c].entry.content)
    /\ Approve(c, signed, next)
    /\ next \in Frames \cup {Idle}
    /\ next # Idle => next.by = client[c].by /\ next.op = "index" /\ next.key \in Agents
    /\ client[c].key \in Agents =>
          \/ ~Indexes(client[c].by)
          \/ next.op = "index" /\ next.key = client[c].key /\ next.entry = client[c].entry

LEMMA ApproveForms ==
    ASSUME TypeOK, NEW c \in Clients, RegistryApprovePut(c) \/ WorkflowApprovePut(c)
    PROVE  \E signed \in Rows, next \in Frames \cup {Idle} : ApproveForm(c, signed, next)
  <1> DEFINE f == client[c]
  <1>1. f.op = "sign"
    BY DEF RegistryApprovePut, WorkflowApprovePut
  <1>2. f \in Frames /\ f.entry \in Rows
    BY <1>1, BusyFrame
  <1>3. /\ SignedAs(sign_entry(f.entry), f.entry.content)
        /\ SignedAs(sign_workflow(f.entry), f.entry.content)
    BY <1>2, SigningSigns
  <1>4. CASE RegistryApprovePut(c)
    <2> DEFINE next == IF Indexes(f.by) THEN [f EXCEPT !.op = "index"] ELSE Idle
    <2>1. [f EXCEPT !.op = "index"] \in Frames
      BY <1>2 DEF Frames
    <2>2. /\ [f EXCEPT !.op = "index"].op = "index"
          /\ [f EXCEPT !.op = "index"].by = f.by
          /\ [f EXCEPT !.op = "index"].key = f.key
          /\ [f EXCEPT !.op = "index"].entry = f.entry
      BY <1>2 DEF Frames
    <2>3. /\ next \in Frames \cup {Idle}
          /\ next # Idle => next.by = f.by /\ next.op = "index" /\ next.key \in Agents
          /\ ~Indexes(f.by) \/ (next.op = "index" /\ next.key = f.key /\ next.entry = f.entry)
      BY <1>4, <2>1, <2>2 DEF RegistryApprovePut
    <2>4. Approve(c, sign_entry(f.entry), next)
      BY <1>4 DEF RegistryApprovePut
    <2> HIDE DEF next
    <2>5. ApproveForm(c, sign_entry(f.entry), next)
      BY <1>1, <1>2, <1>3, <2>3, <2>4 DEF ApproveForm
    <2> QED
      BY <1>3, <2>3, <2>5 DEF SignedAs
  <1>5. CASE WorkflowApprovePut(c)
    <2>1. f.key \notin Agents /\ Approve(c, sign_workflow(f.entry), Idle)
      BY <1>5, TrustAssumption DEF WorkflowApprovePut
    <2>2. ApproveForm(c, sign_workflow(f.entry), Idle)
      BY <1>1, <1>2, <1>3, <2>1 DEF ApproveForm
    <2> QED
      BY <1>3, <2>2 DEF SignedAs
  <1> QED
    BY <1>4, <1>5

\* The next-state relation, by kind of step.
LEMMA Steps ==
    ASSUME TypeOK, [Next]_vars
    PROVE  \/ \E key \in Keys, x \in Contents, caller \in Callers : Submit(key, x, caller)
           \/ \E c \in Clients, key \in Keys, caller \in Callers :
                 \E op \in {"certify", "sign", "revoke"} : \E entry \in Rows :
                     /\ Read(c, op, key, caller, entry)
                     /\ caller # "author"
                     /\ op = "sign" => key \notin Agents
           \/ \E c \in Clients : Certify(c) \/ Index(c) \/ IndexFails(c) \/ Revoke(c)
           \/ \E c \in Clients : \E signed \in Rows, next \in Frames \cup {Idle} :
                 ApproveForm(c, signed, next)
           \/ \E key \in Keys : Tamper(key)
           \/ Rotate \/ Retire \/ Tick \/ UNCHANGED vars
  <1>0. Agents \subseteq Keys /\ Versions \subseteq Keys
    BY DEF Keys
  <1>1. ASSUME NEW x \in Contents, NEW caller \in Callers,
               \/ \E a \in Agents : RegistrySubmit(a, x, caller)
               \/ \E v \in Versions : WorkflowSubmit(v, x, caller)
        PROVE  \E key \in Keys : Submit(key, x, caller)
    BY <1>0, <1>1 DEF RegistrySubmit, WorkflowSubmit
  <1>2. ASSUME NEW c \in Clients, NEW a \in Agents, NEW caller \in Callers,
               RegistryApproveRead(c, a, caller) \/ RegistryRevokeRead(c, a, caller)
        PROVE  \E op \in {"certify", "sign", "revoke"} : \E entry \in Rows :
                     /\ Read(c, op, a, caller, entry)
                     /\ caller # "author"
                     /\ op = "sign" => a \notin Agents
    <2>1. caller # "author" /\ rows[a] \in Rows
      BY <1>0, <1>2 DEF RegistryApproveRead, RegistryRevokeRead, require_scopes, Read, TypeOK
    <2>2. to_entry(rows[a]) \in Rows
      BY <2>1, EntryIsRow
    <2> QED
      BY <1>2, <2>1, <2>2 DEF RegistryApproveRead, RegistryRevokeRead
  <1>3. ASSUME NEW c \in Clients, NEW v \in Versions, NEW caller \in Callers,
               WorkflowApproveRead(c, v, caller) \/ WorkflowRevokeRead(c, v, caller)
        PROVE  \E op \in {"certify", "sign", "revoke"} : \E entry \in Rows :
                     /\ Read(c, op, v, caller, entry)
                     /\ caller # "author"
                     /\ op = "sign" => v \notin Agents
    <2>1. v \notin Agents
      BY TrustAssumption
    <2> QED
      BY <1>0, <1>3, <2>1, ReadForms
  <1>4. ASSUME NEW c \in Clients, RegistryApprovePut(c) \/ WorkflowApprovePut(c)
        PROVE  \E signed \in Rows, next \in Frames \cup {Idle} : ApproveForm(c, signed, next)
    BY <1>4, ApproveForms
  <1>5. ASSUME NEW c \in Clients, RegistryRevokePut(c) \/ WorkflowRevokePut(c)
        PROVE  Revoke(c)
    BY <1>5 DEF RegistryRevokePut, WorkflowRevokePut
  <1>6. CASE UNCHANGED vars
    BY <1>6
  <1>7. CASE Next
    <2>1. CASE \E x \in Contents, caller \in Callers :
                  \/ \E a \in Agents : RegistrySubmit(a, x, caller)
                  \/ \E v \in Versions : WorkflowSubmit(v, x, caller)
      BY <1>1, <2>1
    <2>2. CASE \E c \in Clients, a \in Agents, caller \in Callers :
                  RegistryApproveRead(c, a, caller) \/ RegistryRevokeRead(c, a, caller)
      BY <1>0, <1>2, <2>2
    <2>3. CASE \E c \in Clients, v \in Versions, caller \in Callers :
                  WorkflowApproveRead(c, v, caller) \/ WorkflowRevokeRead(c, v, caller)
      BY <1>0, <1>3, <2>3
    <2>4. CASE \E c \in Clients :
                  \/ Certify(c) \/ RegistryApprovePut(c) \/ WorkflowApprovePut(c) \/ Index(c) \/ IndexFails(c)
                  \/ RegistryRevokePut(c) \/ WorkflowRevokePut(c)
      BY <1>4, <1>5, <2>4
    <2> QED
      BY <1>7, <2>1, <2>2, <2>3, <2>4 DEF Next
  <1> QED
    BY <1>6, <1>7

LEMMA PutEffect ==
    ASSUME TypeOK, NEW key \in Keys, NEW row \in Rows,
           NEW op \in {"submit", "approve", "revoke"}, Put(key, row, op)
    PROVE  /\ rows' \in [Keys -> Rows \cup {NoRow}]
           /\ rows'[key] = row
           /\ lastOp' \in [Keys -> {"none", "submit", "approve", "revoke"}]
           /\ lastOp'[key] = op
           /\ tampered' \subseteq tampered /\ tampered' = tampered \ {key}
           /\ \A k \in Keys \ {key} : rows'[k] = rows[k] /\ lastOp'[k] = lastOp[k]
  BY DEF Put, TypeOK

\* A column changes, the signature does not.
LEMMA TamperEffect ==
    ASSUME TypeOK, NEW key \in Keys, Tamper(key)
    PROVE  /\ rows' \in [Keys -> Rows \cup {NoRow}]
           /\ rows[key] # NoRow /\ rows'[key] \in Rows
           /\ rows'[key].signature = rows[key].signature
           /\ \A k \in Keys \ {key} : rows'[k] = rows[k]
           /\ tampered' = tampered \cup {key}
           /\ UNCHANGED <<client, index, unindexed, keys, active_kid, certifier, clock, approvals, lastOp>>
  <1>1. rows[key] # NoRow /\ rows[key] \in Rows
    BY DEF Tamper, TypeOK
  <1>2. utcnow \in Times
    BY NowIsWhole DEF TypeOK
  <1>3. PICK r : /\ rows' = [rows EXCEPT ![key] = r]
                 /\ \/ r = [rows[key] EXCEPT !.status = "approved"]
                    \/ \E x \in Contents : r = [rows[key] EXCEPT !.content = x]
                    \/ r = [rows[key] EXCEPT !.approved_at = utcnow]
    BY DEF Tamper
  <1>4. r \in Rows /\ r.signature = rows[key].signature
    BY <1>1, <1>2, <1>3 DEF Rows
  <1>5. /\ rows' \in [Keys -> Rows \cup {NoRow}] /\ rows'[key] = r
        /\ \A k \in Keys \ {key} : rows'[k] = rows[k]
    BY <1>3, <1>4 DEF TypeOK
  <1> QED
    BY <1>1, <1>4, <1>5 DEF Tamper

\* A frame a client is given.
LEMMA FrameSet ==
    ASSUME TypeOK, NEW c \in Clients, NEW f \in Frames \cup {Idle},
           client' = [client EXCEPT ![c] = f]
    PROVE  /\ client' \in [Clients -> Frames \cup {Idle}]
           /\ client'[c] = f
           /\ \A d \in Clients \ {c} : client'[d] = client[d]
  BY DEF TypeOK

LEMMA ReadFrame ==
    ASSUME NEW key \in Keys, NEW caller \in Callers,
           NEW op \in {"certify", "sign", "revoke"}, NEW entry \in Rows
    PROVE  [op |-> op, key |-> key, by |-> caller, entry |-> entry] \in Frames
  BY DEF Frames

\* The gate: either the frame goes, or it may sign what it read.
LEMMA CertifyEffect ==
    ASSUME TypeOK, NEW c \in Clients, Certify(c)
    PROVE  /\ client[c] \in Frames /\ client[c] # Idle
           /\ client' \in [Clients -> Frames \cup {Idle}]
           /\ \A d \in Clients \ {c} : client'[d] = client[d]
           /\ \/ client'[c] = Idle
              \/ /\ client'[c] \in Frames /\ client'[c].op = "sign"
                 /\ client'[c].key = client[c].key /\ client'[c].by = client[c].by
                 /\ client'[c].entry = client[c].entry
                 /\ client[c].entry.content \in NeedsCert /\ Certifies(client[c].by)
                        => client[c].entry.content \in Passes
  <1> DEFINE f == [client[c] EXCEPT !.op = "sign"]
  <1>1. client[c] \in Frames /\ client[c] # Idle
    BY BusyFrame DEF Certify
  <1>2. /\ f \in Frames /\ f.op = "sign" /\ f.key = client[c].key /\ f.by = client[c].by
        /\ f.entry = client[c].entry
    BY <1>1 DEF Frames
  <1>3. \/ client' = [client EXCEPT ![c] = Idle]
        \/ /\ client' = [client EXCEPT ![c] = f]
           /\ client[c].entry.content \in NeedsCert /\ Certifies(client[c].by)
                  => client[c].entry.content \in Passes
    BY DEF Certify
  <1> HIDE DEF f
  <1> QED
    BY <1>1, <1>2, <1>3, FrameSet

-----------------------------------------------------------------------------
(* The inductive invariant, one conjunct at a time. *)

LEMMA TypeStep == TypeOK /\ GatesPassed /\ [Next]_vars => TypeOK'
  <1> SUFFICES ASSUME TypeOK, GatesPassed, [Next]_vars PROVE TypeOK'
    OBVIOUS
  <1>1. ASSUME NEW key \in Keys, NEW x \in Contents, NEW caller \in Callers,
               Submit(key, x, caller)
        PROVE  TypeOK'
    BY <1>1, PendingIsRow, PutEffect DEF Submit, TypeOK
  <1>2. ASSUME NEW c \in Clients, NEW key \in Keys, NEW caller \in Callers,
               NEW op \in {"certify", "sign", "revoke"}, NEW entry \in Rows,
               Read(c, op, key, caller, entry)
        PROVE  TypeOK'
    <2>1. client' \in [Clients -> Frames \cup {Idle}]
      BY <1>2, ReadFrame, FrameSet DEF Read
    <2> QED
      BY <1>2, <2>1 DEF Read, TypeOK
  <1>3. ASSUME NEW c \in Clients, Certify(c) PROVE TypeOK'
    BY <1>3, CertifyEffect DEF Certify, TypeOK
  <1>4. ASSUME NEW c \in Clients, Index(c) \/ IndexFails(c) PROVE TypeOK'
    <2>1. client' \in [Clients -> Frames \cup {Idle}]
      BY <1>4, FrameSet DEF Index, IndexFails
    <2>2. client[c].key \in Agents
      BY <1>4, BusyFrame DEF Index, IndexFails, GatesPassed
    <2>3. index' \subseteq Agents /\ unindexed' \subseteq Agents
      BY <1>4, <2>2 DEF Index, IndexFails, TypeOK
    <2> QED
      BY <1>4, <2>1, <2>3 DEF Index, IndexFails, TypeOK
  <1>5. ASSUME NEW c \in Clients, Revoke(c) PROVE TypeOK'
    <2>1. client[c].key \in Keys /\ client[c].entry \in Rows
      BY <1>5, BusyFrame DEF Revoke
    <2>2. /\ rows' \in [Keys -> Rows \cup {NoRow}]
          /\ lastOp' \in [Keys -> {"none", "submit", "approve", "revoke"}]
          /\ tampered' \subseteq tampered
      BY <1>5, <2>1, RevokedIsRow, PutEffect DEF Revoke
    <2>3. client' \in [Clients -> Frames \cup {Idle}]
      BY <1>5, FrameSet DEF Revoke
    <2> QED
      BY <1>5, <2>2, <2>3 DEF Revoke, TypeOK
  <1>6. ASSUME NEW c \in Clients, NEW signed \in Rows, NEW next \in Frames \cup {Idle},
               ApproveForm(c, signed, next)
        PROVE  TypeOK'
    <2>1. client[c].key \in Keys /\ client[c].by \in Callers
      BY <1>6 DEF ApproveForm, Frames
    <2>2. /\ rows' \in [Keys -> Rows \cup {NoRow}]
          /\ lastOp' \in [Keys -> {"none", "submit", "approve", "revoke"}]
          /\ tampered' \subseteq tampered
      BY <1>6, <2>1, PutEffect DEF ApproveForm, Approve
    <2>3. client' \in [Clients -> Frames \cup {Idle}]
      BY <1>6, FrameSet DEF ApproveForm, Approve
    <2>4. signed.content \in Contents /\ signed.approved_at \in Times
      BY <1>6, NowIsWhole DEF ApproveForm, SignedAs, TypeOK, Rows
    <2>5. approvals' \subseteq [content : Contents, at : Times, by : Callers]
      BY <1>6, <2>1, <2>4 DEF ApproveForm, Approve, TypeOK
    <2> QED
      BY <1>6, <2>2, <2>3, <2>5 DEF ApproveForm, Approve, TypeOK
  <1>7. ASSUME NEW key \in Keys, Tamper(key) PROVE TypeOK'
    BY <1>7, TamperEffect DEF TypeOK
  <1>8. CASE Rotate \/ Retire
    BY <1>8 DEF Rotate, Retire, TypeOK
  <1>9. CASE Tick
    BY <1>9, TrustAssumption DEF Tick, TypeOK, Times
  <1>10. CASE UNCHANGED vars
    BY <1>10 DEF vars, TypeOK
  <1> QED
    BY Steps, <1>1, <1>2, <1>3, <1>4, <1>5, <1>6, <1>7, <1>8, <1>9, <1>10

\* The right to approve depends on nothing that changes.
LEMMA RightIsStable ==
    ASSUME NEW key, NEW x, NEW by, certifier' = certifier
    PROVE  MayApprove(key, x, by)' <=> MayApprove(key, x, by)
  BY DEF MayApprove, Certifies

LEMMA CertifierIsFixed == TypeOK /\ [Next]_vars => certifier' = certifier
  BY Steps DEF Submit, Read, Certify, Index, IndexFails, Revoke, ApproveForm, Approve, Tamper, Rotate,
     Retire, Tick, vars

\* A client is about to sign only what passed the certification gate and the scopes.
LEMMA GatesStep == TypeOK /\ GatesPassed /\ [Next]_vars => GatesPassed'
  <1> SUFFICES ASSUME TypeOK, GatesPassed, [Next]_vars, certifier' = certifier
               PROVE  GatesPassed'
    BY CertifierIsFixed
  <1> DEFINE Good(f) == f # Idle =>
                /\ f.by # "author"
                /\ f.op = "sign" => MayApprove(f.key, f.entry.content, f.by)
                /\ f.op = "index" => f.key \in Agents
  <1>a. \A d \in Clients : Good(client[d])
    BY DEF GatesPassed
  <1>b. ASSUME \A d \in Clients : Good(client'[d]) PROVE GatesPassed'
    BY <1>b DEF GatesPassed, MayApprove, Certifies
  <1>c. ASSUME NEW c \in Clients, NEW f, Good(f), client'[c] = f,
               \A d \in Clients \ {c} : client'[d] = client[d]
        PROVE  GatesPassed'
    BY <1>a, <1>b, <1>c
  <1>d. UNCHANGED client => GatesPassed'
    BY <1>a, <1>b
  <1>e. Good(Idle)
    OBVIOUS
  <1>1. ASSUME NEW c \in Clients, NEW key \in Keys, NEW caller \in Callers,
               NEW op \in {"certify", "sign", "revoke"}, NEW entry \in Rows,
               Read(c, op, key, caller, entry), caller # "author", op = "sign" => key \notin Agents
        PROVE  GatesPassed'
    <2> DEFINE f == [op |-> op, key |-> key, by |-> caller, entry |-> entry]
    <2>1. client'[c] = f /\ \A d \in Clients \ {c} : client'[d] = client[d]
      BY <1>1, ReadFrame, FrameSet DEF Read
    <2>2. Good(f)
      BY <1>1 DEF MayApprove
    <2> QED
      BY <1>c, <2>1, <2>2
  <1>2. ASSUME NEW c \in Clients, Certify(c) PROVE GatesPassed'
    <2>1. /\ client[c] # Idle /\ \A d \in Clients \ {c} : client'[d] = client[d]
          /\ \/ client'[c] = Idle
             \/ /\ client'[c].op = "sign"
                /\ client'[c].key = client[c].key /\ client'[c].by = client[c].by
                /\ client'[c].entry = client[c].entry
                /\ client[c].entry.content \in NeedsCert /\ Certifies(client[c].by)
                       => client[c].entry.content \in Passes
      BY <1>2, CertifyEffect
    <2>2. client[c].by # "author"
      BY <1>a, <2>1
    <2>3. Good(client'[c])
      BY <2>1, <2>2 DEF MayApprove
    <2> QED
      BY <1>c, <2>1, <2>3
  <1>3. ASSUME NEW c \in Clients, Index(c) \/ IndexFails(c) \/ Revoke(c) PROVE GatesPassed'
    <2>1. client' = [client EXCEPT ![c] = Idle]
      BY <1>3 DEF Index, IndexFails, Revoke
    <2>2. client'[c] = Idle /\ \A d \in Clients \ {c} : client'[d] = client[d]
      BY <2>1, FrameSet
    <2> QED
      BY <1>c, <1>e, <2>2
  <1>4. ASSUME NEW c \in Clients, NEW signed \in Rows, NEW next \in Frames \cup {Idle},
               ApproveForm(c, signed, next)
        PROVE  GatesPassed'
    <2>1. client' = [client EXCEPT ![c] = next]
      BY <1>4 DEF ApproveForm, Approve
    <2>2. client'[c] = next /\ \A d \in Clients \ {c} : client'[d] = client[d]
      BY <2>1, FrameSet
    <2>3. client[c] # Idle
      BY <1>4, FrameIsBusy DEF ApproveForm
    <2>4. Good(next)
      BY <1>4, <1>a, <2>3 DEF ApproveForm
    <2> QED
      BY <1>c, <2>2, <2>4
  <1>5. ASSUME \/ \E key \in Keys, x \in Contents, caller \in Callers : Submit(key, x, caller)
               \/ \E key \in Keys : Tamper(key)
               \/ Rotate \/ Retire \/ Tick \/ UNCHANGED vars
        PROVE  GatesPassed'
    BY <1>5, <1>d DEF Submit, Tamper, Rotate, Retire, Tick, vars
  <1> QED
    BY Steps, <1>1, <1>2, <1>3, <1>4, <1>5

\* Which steps write rows, and what: the other invariants are about these.
LEMMA RowSteps ==
    ASSUME TypeOK, GatesPassed, [Next]_vars
    PROVE  \/ /\ UNCHANGED <<rows, lastOp, tampered, approvals>>
           \/ \E key \in Keys, row \in Rows, op \in {"submit", "revoke"} :
                 /\ Put(key, row, op) /\ row.signature = NoSignature /\ row.status # "approved"
                 /\ UNCHANGED approvals
           \/ \E key \in Keys, row \in Rows, x \in Contents, by \in Callers :
                 /\ Put(key, row, "approve") /\ SignedAs(row, x) /\ MayApprove(key, x, by)
                 /\ approvals' = approvals \cup {[content |-> x, at |-> utcnow, by |-> by]}
           \/ \E key \in Keys : Tamper(key)
  <1>1. ASSUME NEW key \in Keys, NEW x \in Contents, NEW caller \in Callers,
               Submit(key, x, caller)
        PROVE  \E row \in Rows, op \in {"submit", "revoke"} :
                 /\ Put(key, row, op) /\ row.signature = NoSignature /\ row.status # "approved"
                 /\ UNCHANGED approvals
    BY <1>1, PendingIsRow DEF Submit
  <1>2. ASSUME NEW c \in Clients, Revoke(c)
        PROVE  \E key \in Keys, row \in Rows, op \in {"submit", "revoke"} :
                 /\ Put(key, row, op) /\ row.signature = NoSignature /\ row.status # "approved"
                 /\ UNCHANGED approvals
    <2>1. client[c].key \in Keys /\ client[c].entry \in Rows
      BY <1>2, BusyFrame DEF Revoke
    <2> QED
      BY <1>2, <2>1, RevokedIsRow DEF Revoke
  <1>3. ASSUME NEW c \in Clients, NEW signed \in Rows, NEW next \in Frames \cup {Idle},
               ApproveForm(c, signed, next)
        PROVE  \E key \in Keys, row \in Rows, x \in Contents, by \in Callers :
                 /\ Put(key, row, "approve") /\ SignedAs(row, x) /\ MayApprove(key, x, by)
                 /\ approvals' = approvals \cup {[content |-> x, at |-> utcnow, by |-> by]}
    <2>1. /\ client[c].key \in Keys /\ client[c].by \in Callers /\ client[c].entry \in Rows
          /\ client[c].op = "sign"
      BY <1>3 DEF ApproveForm, Frames
    <2>2. client[c].entry.content \in Contents /\ client[c] # Idle
      BY <1>3, <2>1, FrameIsBusy DEF Rows, ApproveForm
    <2>3. MayApprove(client[c].key, client[c].entry.content, client[c].by)
      BY <2>1, <2>2 DEF GatesPassed
    <2>4. /\ SignedAs(signed, client[c].entry.content) /\ Put(client[c].key, signed, "approve")
          /\ approvals' = approvals \cup {[content |-> client[c].entry.content,
                                           at |-> utcnow, by |-> client[c].by]}
      BY <1>3 DEF ApproveForm, Approve, SignedAs
    <2> QED
      BY <2>1, <2>2, <2>3, <2>4
  <1>4. ASSUME \/ \E c \in Clients, key \in Keys, caller \in Callers :
                     \E op \in {"certify", "sign", "revoke"} : \E entry \in Rows :
                         Read(c, op, key, caller, entry)
               \/ \E c \in Clients : Certify(c) \/ Index(c) \/ IndexFails(c)
               \/ Rotate \/ Retire \/ Tick \/ UNCHANGED vars
        PROVE  UNCHANGED <<rows, lastOp, tampered, approvals>>
    BY <1>4 DEF Read, Certify, Index, IndexFails, Rotate, Retire, Tick, vars
  <1> QED
    BY Steps, <1>1, <1>2, <1>3, <1>4

\* Every signature in a row is a rightful approval's; only an approval leaves one; and
\* what an approval leaves stays as it is until somebody changes the row.
RowInv == SignaturesEarned /\ UnsignedUnlessApproved /\ UnapprovedStatus /\ ApprovedIntact

LEMMA RowStep == TypeOK /\ GatesPassed /\ RowInv /\ [Next]_vars => RowInv'
  <1> SUFFICES ASSUME TypeOK, GatesPassed, RowInv, [Next]_vars, certifier' = certifier, TypeOK'
               PROVE  RowInv'
    BY CertifierIsFixed, TypeStep
  <1> DEFINE Backs(a, key, sig) == /\ a.content = sig.bytes.content /\ a.at = sig.bytes.at
                                   /\ MayApprove(key, a.content, a.by)
             Earned(key, row) == row # NoRow /\ row.signature # NoSignature =>
                                    \E a \in approvals' : Backs(a, key, row.signature)
             Unsigned(row) == row = NoRow \/ row.signature = NoSignature
             Unlisted(row) == row = NoRow \/ row.status # "approved"
             Intact(row) == /\ row \in Rows /\ row.status = "approved"
                            /\ row.signature # NoSignature
                            /\ row.signature.bytes =
                                  canonical_bytes(row.content, "approved", row.approved_at)
                            /\ canonical_rfc3339(row.approved_at) = row.approved_at
             Fine(key) == /\ Earned(key, rows'[key])
                          /\ lastOp'[key] # "approve" => Unsigned(rows'[key])
                          /\ lastOp'[key] # "approve" /\ key \notin tampered' => Unlisted(rows'[key])
                          /\ lastOp'[key] = "approve" /\ key \notin tampered' => Intact(rows'[key])
  <1>a. ASSUME \A key \in Keys : Fine(key) PROVE RowInv'
    BY <1>a DEF RowInv, SignaturesEarned, UnsignedUnlessApproved, UnapprovedStatus, ApprovedIntact, MayApprove,
       Certifies, canonical_bytes, canonical_rfc3339
  <1>b. ASSUME NEW key \in Keys
        PROVE  /\ rows[key] # NoRow /\ rows[key].signature # NoSignature =>
                      \E a \in approvals : Backs(a, key, rows[key].signature)
               /\ lastOp[key] # "approve" => Unsigned(rows[key])
               /\ lastOp[key] # "approve" /\ key \notin tampered => Unlisted(rows[key])
               /\ lastOp[key] = "approve" /\ key \notin tampered => Intact(rows[key])
    BY DEF RowInv, SignaturesEarned, UnsignedUnlessApproved, UnapprovedStatus, ApprovedIntact
  \* A key that is not written keeps its row.
  <1>c. ASSUME NEW key \in Keys, rows'[key] = rows[key], lastOp'[key] = lastOp[key],
               key \in tampered => key \in tampered', approvals \subseteq approvals'
        PROVE  Fine(key)
    BY <1>b, <1>c
  <1>1. CASE UNCHANGED <<rows, lastOp, tampered, approvals>>
    BY <1>1, <1>a, <1>c
  <1>2. ASSUME NEW key \in Keys, NEW row \in Rows, NEW op \in {"submit", "revoke"},
               Put(key, row, op), row.signature = NoSignature, row.status # "approved",
               UNCHANGED approvals
        PROVE  RowInv'
    <2>1. /\ rows'[key] = row /\ lastOp'[key] = op /\ tampered' = tampered \ {key}
          /\ \A k \in Keys \ {key} : rows'[k] = rows[k] /\ lastOp'[k] = lastOp[k]
      BY <1>2, PutEffect
    <2>2. Fine(key)
      BY <1>2, <2>1
    <2>3. ASSUME NEW k \in Keys \ {key} PROVE Fine(k)
      BY <1>2, <1>c, <2>1
    <2> QED
      BY <1>a, <2>2, <2>3
  <1>3. ASSUME NEW key \in Keys, NEW row \in Rows, NEW x \in Contents, NEW by \in Callers,
               Put(key, row, "approve"), SignedAs(row, x), MayApprove(key, x, by),
               approvals' = approvals \cup {[content |-> x, at |-> utcnow, by |-> by]}
        PROVE  RowInv'
    <2>1. /\ rows'[key] = row /\ lastOp'[key] = "approve" /\ tampered' = tampered \ {key}
          /\ \A k \in Keys \ {key} : rows'[k] = rows[k] /\ lastOp'[k] = lastOp[k]
      BY <1>3, PutEffect
    <2> DEFINE a == [content |-> x, at |-> utcnow, by |-> by]
    <2>2. /\ row.signature.bytes = canonical_bytes(x, "approved", utcnow)
          /\ row.content = x /\ row.status = "approved" /\ row.approved_at = utcnow
          /\ row.signature # NoSignature
      BY <1>3 DEF SignedAs
    <2>3. Backs(a, key, row.signature)
      BY <1>3, <2>2 DEF canonical_bytes
    <2>4. Earned(key, row)
      BY <1>3, <2>3
    <2>5. Intact(row)
      BY <2>2, NowIsWhole DEF TypeOK
    <2>6. Fine(key)
      BY <2>1, <2>4, <2>5
    <2>7. ASSUME NEW k \in Keys \ {key} PROVE Fine(k)
      BY <1>3, <1>c, <2>1
    <2> QED
      BY <1>a, <2>6, <2>7
  <1>4. ASSUME NEW key \in Keys, Tamper(key) PROVE RowInv'
    <2>1. /\ rows[key] # NoRow /\ rows'[key] \in Rows
          /\ rows'[key].signature = rows[key].signature
          /\ \A k \in Keys \ {key} : rows'[k] = rows[k]
          /\ tampered' = tampered \cup {key} /\ UNCHANGED <<approvals, lastOp>>
      BY <1>4, TamperEffect
    <2>2. Fine(key)
      BY <1>b, <2>1
    <2>3. ASSUME NEW k \in Keys \ {key} PROVE Fine(k)
      BY <1>c, <2>1
    <2> QED
      BY <1>a, <2>2, <2>3
  <1> QED
    BY RowSteps, <1>1, <1>2, <1>3, <1>4

\* An approved agent can be found, as far as its store has an index and its manifest a text.
Indexed == \A key \in Agents : (lastOp[key] = "approve" /\ key \notin tampered) => Findable(key)

LEMMA IndexedStep == TypeOK /\ GatesPassed /\ Indexed /\ [Next]_vars => Indexed'
  <1> SUFFICES ASSUME TypeOK, GatesPassed, Indexed, [Next]_vars,
                      NEW key \in Agents, lastOp'[key] = "approve", key \notin tampered'
               PROVE  Findable(key)'
    BY DEF Indexed
  <1> DEFINE Indexing(d) == /\ d.op = "index" /\ d.key = key
                            /\ d.entry.content = rows'[key].content
             Goal == \/ key \in index'
                     \/ \E c \in Clients : Indexing(client'[c])
                     \/ \E a \in ApprovalsOf(key)' : ~Indexes(a.by)
                     \/ rows'[key].content \notin Described
                     \/ key \in unindexed'
  <1>0. key \in Keys
    BY DEF Keys
  \* A step that writes another key or none, and takes no frame away that is indexing.
  <1>a. ASSUME rows'[key] = rows[key], lastOp'[key] = lastOp[key], key \in tampered => key \in tampered',
               approvals \subseteq approvals', index \subseteq index',
               key \in unindexed => key \in unindexed' \cup index',
               \A c \in Clients : Indexing(client[c]) =>
                   \/ Indexing(client'[c]) \/ key \in index' \cup unindexed'
                   \/ rows'[key].content \notin Described
        PROVE  Goal
    <2>1. ApprovalsOf(key) \subseteq ApprovalsOf(key)'
      BY <1>a DEF ApprovalsOf, canonical_rfc3339
    <2> QED
      BY <1>a, <2>1 DEF Indexed, Findable
  <1>1. ASSUME NEW k \in Keys, NEW x \in Contents, NEW caller \in Callers, Submit(k, x, caller)
        PROVE  Goal
    <2>1. /\ lastOp'[k] = "submit"
          /\ tampered' = tampered \ {k}
          /\ \A j \in Keys \ {k} : rows'[j] = rows[j] /\ lastOp'[j] = lastOp[j]
      BY <1>1, PendingIsRow, PutEffect DEF Submit
    <2> QED
      BY <1>0, <1>1, <1>a, <2>1 DEF Submit
  <1>2. ASSUME NEW c \in Clients, NEW k \in Keys, NEW caller \in Callers,
               NEW op \in {"certify", "sign", "revoke"}, NEW entry \in Rows,
               Read(c, op, k, caller, entry)
        PROVE  Goal
    <2>1. client[c].op = "idle" /\ \A d \in Clients \ {c} : client'[d] = client[d]
      BY <1>2, ReadFrame, FrameSet DEF Read, Idle
    <2> QED
      BY <1>2, <1>a, <2>1 DEF Read
  <1>3. ASSUME NEW c \in Clients, Certify(c) PROVE Goal
    <2>1. client[c].op = "certify" /\ \A d \in Clients \ {c} : client'[d] = client[d]
      BY <1>3, CertifyEffect DEF Certify
    <2> QED
      BY <1>3, <1>a, <2>1 DEF Certify
  <1>4. ASSUME NEW c \in Clients, Index(c) \/ IndexFails(c) PROVE Goal
    <2>1. \A d \in Clients \ {c} : client'[d] = client[d]
      BY <1>4, FrameSet DEF Index, IndexFails
    <2>2. /\ UNCHANGED <<rows, lastOp, tampered, approvals>> /\ index \subseteq index'
          /\ unindexed \subseteq unindexed' \cup index'
      BY <1>4 DEF Index, IndexFails
    <2>3. Indexing(client[c]) => key \in index' \cup unindexed' \/ rows'[key].content \notin Described
      BY <1>4, <2>2 DEF Index, IndexFails
    <2> QED
      BY <1>a, <2>1, <2>2, <2>3
  <1>5. ASSUME NEW c \in Clients, Revoke(c) PROVE Goal
    <2>1. client[c].key \in Keys /\ client[c].entry \in Rows
      BY <1>5, BusyFrame DEF Revoke
    <2>2. /\ lastOp'[client[c].key] = "revoke"
          /\ tampered' = tampered \ {client[c].key}
          /\ \A j \in Keys \ {client[c].key} : rows'[j] = rows[j] /\ lastOp'[j] = lastOp[j]
      BY <1>5, <2>1, RevokedIsRow, PutEffect DEF Revoke
    <2>3. client[c].op = "revoke" /\ \A d \in Clients \ {c} : client'[d] = client[d]
      BY <1>5, FrameSet DEF Revoke
    <2> QED
      BY <1>0, <1>5, <1>a, <2>2, <2>3 DEF Revoke
  <1>6. ASSUME NEW c \in Clients, NEW signed \in Rows, NEW next \in Frames \cup {Idle},
               ApproveForm(c, signed, next)
        PROVE  Goal
    <2>1. client[c].key \in Keys
      BY <1>6 DEF ApproveForm, Frames
    <2>2. /\ rows'[client[c].key] = signed /\ tampered' = tampered \ {client[c].key}
          /\ \A j \in Keys \ {client[c].key} : rows'[j] = rows[j] /\ lastOp'[j] = lastOp[j]
      BY <1>6, <2>1, PutEffect DEF ApproveForm, Approve
    <2>3. /\ client[c].op = "sign" /\ client'[c] = next
          /\ \A d \in Clients \ {c} : client'[d] = client[d]
      BY <1>6, FrameSet DEF ApproveForm, Approve
    <2>4. CASE key # client[c].key
      BY <1>0, <1>6, <1>a, <2>2, <2>3, <2>4 DEF ApproveForm, Approve
    <2>5. CASE key = client[c].key /\ ~Indexes(client[c].by)
      <3> DEFINE a == [content |-> signed.content, at |-> signed.approved_at, by |-> client[c].by]
      <3>1. a \in approvals'
        BY <1>6 DEF ApproveForm, Approve
      <3>2. canonical_rfc3339(signed.approved_at) = signed.approved_at
        BY <1>6, NowIsWhole DEF ApproveForm, SignedAs, TypeOK
      <3>3. a \in ApprovalsOf(key)'
        BY <2>2, <2>5, <3>1, <3>2 DEF ApprovalsOf, canonical_rfc3339
      <3> QED
        BY <2>5, <3>3
    <2>6. CASE key = client[c].key /\ Indexes(client[c].by)
      <3>1. next.op = "index" /\ next.key = key /\ next.entry.content = signed.content
        BY <1>6, <2>6 DEF ApproveForm, SignedAs
      <3> QED
        BY <2>2, <2>3, <2>6, <3>1
    <2> QED
      BY <2>4, <2>5, <2>6
  <1>7. ASSUME NEW k \in Keys, Tamper(k) PROVE Goal
    <2>1. /\ tampered' = tampered \cup {k}
          /\ \A j \in Keys \ {k} : rows'[j] = rows[j]
          /\ UNCHANGED <<client, index, unindexed, approvals, lastOp>>
      BY <1>7, TamperEffect
    <2> QED
      BY <1>0, <1>a, <2>1
  <1>8. ASSUME Rotate \/ Retire \/ Tick \/ UNCHANGED vars PROVE Goal
    <2>1. UNCHANGED <<rows, client, index, unindexed, approvals, lastOp, tampered>>
      BY <1>8 DEF Rotate, Retire, Tick, vars
    <2> QED
      BY <1>a, <2>1
  <1> HIDE DEF Goal
  <1>9. Goal
    BY Steps, <1>1, <1>2, <1>3, <1>4, <1>5, <1>6, <1>7, <1>8
  <1> QED
    BY <1>9 DEF Goal, Findable, Indexes

-----------------------------------------------------------------------------
(* The theorems. *)

Core == TypeOK /\ GatesPassed /\ RowInv /\ Indexed

LEMMA InitCore == Init => Core
  <1> SUFFICES ASSUME Init PROVE Core
    OBVIOUS
  <1>1. TypeOK
    BY TrustAssumption DEF Init, TypeOK, Times
  <1>2. GatesPassed /\ RowInv /\ Indexed
    BY DEF Init, GatesPassed, RowInv, SignaturesEarned, UnsignedUnlessApproved, UnapprovedStatus, ApprovedIntact,
       Indexed, Keys
  <1> QED
    BY <1>1, <1>2 DEF Core

LEMMA CoreStep == Core /\ [Next]_vars => Core'
  BY TypeStep, GatesStep, RowStep, IndexedStep DEF Core

LEMMA CoreHolds == Spec => []Core
  BY InitCore, CoreStep, PTL DEF Spec

\* What the two loaders accept: an approved row with a signature over its content and
\* its time read back to whole seconds, made with a key that is still held.
LEMMA Loadable ==
    ASSUME TypeOK, NEW key \in Keys
    PROVE  Trusted(key) <=>
              /\ rows[key] \in Rows /\ rows[key].status = "approved"
              /\ rows[key].signature # NoSignature /\ rows[key].signature.kid \in keys
              /\ rows[key].signature.bytes =
                    canonical_bytes(rows[key].content, "approved",
                                    canonical_rfc3339(rows[key].approved_at))
  <1>1. rows[key] # NoRow <=> rows[key] \in Rows
    BY RowIsThere DEF TypeOK
  <1>2. key \in Agents \/ key \in Versions
    BY DEF Keys
  <1>3. CASE key \in Agents
    BY <1>1, <1>3, EntryIsRow DEF Trusted, approved_entries, verify_entry, Verify
  <1>4. CASE key \notin Agents
    BY <1>1, <1>4, EntryIsRow DEF Trusted, load, verify_workflow, Verify, canonical_bytes,
       canonical_workflow_bytes
  <1> QED
    BY <1>3, <1>4

\* Whatever the clients interleave and whatever is changed in the rows, an agent or a
\* workflow version that loads was approved in exactly that form by a caller who may
\* approve, and certified where its manifest and the approving store ask for it.
THEOREM NothingUnapprovedLoads == Spec => []TrustInv
  <1>1. Core => TrustInv
    <2> SUFFICES ASSUME Core PROVE TrustInv
      OBVIOUS
    <2>1. /\ TypeOK /\ GatesPassed /\ SignaturesEarned /\ UnsignedUnlessApproved
          /\ UnapprovedStatus /\ ApprovedIntact
      BY DEF Core, RowInv
    <2>2. TrustIsEarned
      <3> SUFFICES ASSUME NEW key \in Keys, Trusted(key)
                   PROVE  \E a \in ApprovalsOf(key) : MayApprove(key, a.content, a.by)
        BY DEF TrustIsEarned
      <3>1. /\ rows[key] \in Rows /\ rows[key].signature # NoSignature
            /\ rows[key].signature.bytes =
                  canonical_bytes(rows[key].content, "approved",
                                  canonical_rfc3339(rows[key].approved_at))
        BY <2>1, Loadable
      <3>2. PICK a \in approvals : /\ a.content = rows[key].signature.bytes.content
                                   /\ a.at = rows[key].signature.bytes.at
                                   /\ MayApprove(key, a.content, a.by)
        BY <2>1, <3>1, RowIsThere DEF SignaturesEarned
      <3>3. a \in ApprovalsOf(key)
        BY <3>1, <3>2 DEF ApprovalsOf, canonical_bytes
      <3> QED
        BY <3>2, <3>3
    <2> QED
      BY <2>1, <2>2 DEF TrustInv
  <1> QED
    BY <1>1, CoreHolds, PTL

\* A key whose last operation through the store is not an approval does not load, and
\* no change of its status, content or time in the database makes it load.
THEOREM RevocationKills == Spec => []RevokedIsDead
  <1>1. Core => RevokedIsDead
    <2> SUFFICES ASSUME Core, NEW key \in Keys, lastOp[key] # "approve", Trusted(key)
                 PROVE  FALSE
      BY DEF RevokedIsDead
    <2>1. rows[key] \in Rows /\ rows[key].signature # NoSignature
      BY Loadable DEF Core
    <2> QED
      BY <2>1, RowIsThere DEF Core, RowInv, UnsignedUnlessApproved
  <1> QED
    BY <1>1, CoreHolds, PTL

\* An approval takes effect and lasts: the entry verifies after its round trip through
\* the database until its row is changed or its key is taken out of the signers, a run by
\* name gets the newest approved version, and an agent is indexed or one of the four reasons
\* holds for which RegistryStore.approve leaves it out.
THEOREM ApprovalsLoad == Spec => []ApprovedLoads
  <1>1. ASSUME Core, NEW key \in Keys, lastOp[key] = "approve", key \notin tampered
        PROVE  /\ rows[key] \in Rows /\ rows[key].status = "approved"
               /\ Trusted(key) \/ rows[key].signature.kid \notin keys
    <2>1. /\ rows[key] \in Rows /\ rows[key].status = "approved"
          /\ rows[key].signature # NoSignature
          /\ rows[key].signature.bytes =
                canonical_bytes(rows[key].content, "approved", rows[key].approved_at)
          /\ canonical_rfc3339(rows[key].approved_at) = rows[key].approved_at
      BY <1>1 DEF Core, RowInv, ApprovedIntact
    <2> QED
      BY <1>1, <2>1, Loadable DEF Core
  <1>2. ASSUME Core, Versions \cap tampered = {}, NEW v \in Versions, NewestApproved(v)
        PROVE  v \in Executable \/ rows[v].signature.kid \notin keys
    <2>1. v \in Keys /\ v \notin Agents /\ v \notin tampered /\ lastOp[v] = "approve"
      BY <1>2, TrustAssumption DEF Keys, NewestApproved
    <2>2. /\ rows[v] \in Rows /\ rows[v].status = "approved"
          /\ Trusted(v) \/ rows[v].signature.kid \notin keys
      BY <1>1, <1>2, <2>1
    <2>3. ASSUME NEW w \in Versions, rows[w] # NoRow, rows[w].status = "approved" PROVE w <= v
      <3>1. w \in Keys /\ w \notin tampered
        BY <1>2 DEF Keys
      <3>2. lastOp[w] = "approve"
        BY <1>2, <2>3, <3>1 DEF Core, RowInv, UnapprovedStatus
      <3>3. w \in Nat /\ v \in Nat
        BY TrustAssumption
      <3> QED
        BY <1>2, <3>2, <3>3 DEF NewestApproved
    <2>4. v \in latest_approved
      BY <2>2, <2>3, RowIsThere DEF latest_approved
    <2> QED
      BY <2>1, <2>2, <2>4 DEF Executable, Trusted
  <1>3. Core => ApprovedLoads
    BY <1>1, <1>2 DEF ApprovedLoads, Core, Indexed
  <1> QED
    BY <1>3, CoreHolds, PTL
=============================================================================
