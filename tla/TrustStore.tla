----------------------------- MODULE TrustStore -----------------------------
(***************************************************************************)
(* The trust lifecycle shared by the discovery registry (agent manifests)  *)
(* and the workflow store (versioned definitions): submit, approve, load   *)
(* and revoke over Postgres rows, with a signer whose keys rotate.         *)
(*                                                                         *)
(* approve and revoke read a row, await, and put back what they read: each *)
(* is a client with one step per await, so the operations of two clients   *)
(* on one key interleave.  A signature is the record of what it covers; it *)
(* is made only by Signer.headers.  Tamper changes one column of a row     *)
(* behind the store's back; copying a whole signed row back from a backup  *)
(* is the limitation docs/deployment.md states and is left out.            *)
(***************************************************************************)
EXTENDS Naturals

CONSTANTS
    Agents,        \* ids of registry entries
    Versions,      \* versions of one workflow name
    Contents,      \* manifests and definitions, as far as they differ
    NeedsCert,     \* the manifests with a certification block
    Passes,        \* the manifests whose evaluation reaches min_pass_rate
    Described,     \* the manifests with a text to embed
    Searches,      \* whether the registry store is built with a search index
    Kids,          \* signing key ids, in the order they are introduced
    Clients,       \* concurrent operators
    MaxClock, MaxOps, MaxTampers     \* bounds

ASSUME TrustAssumption ==
    /\ Kids \subseteq Nat \ {0} /\ Versions \subseteq Nat /\ Agents \cap Versions = {}
    /\ NeedsCert \subseteq Contents /\ Passes \subseteq Contents /\ Described \subseteq Contents
    /\ Searches \in BOOLEAN
    /\ MaxClock \in Nat /\ MaxClock >= 2 /\ MaxOps \in Nat /\ MaxTampers \in Nat

VARIABLES
    rows,         \* registry_entries and workflows: [Keys -> Rows \cup {NoRow}]
    client,       \* the operation each client is in
    index,        \* ids embedded in the capability index
    keys,         \* key ids every signer holds
    active_kid,   \* the one that signs
    certifier,    \* whether a certifier is wired
    clock,        \* half seconds, from 2; 0 is NULL in a row
    ops, tampers, \* operations begun, columns changed (bounds)
    approvals,    \* approvals granted (history)
    lastOp,       \* the last put on a key through the store (history)
    tampered,     \* keys changed behind the store since then (history)
    unindexed     \* agents whose last indexing raised (history)

vars == <<rows, client, index, keys, active_kid, certifier, clock, ops, tampers,
          approvals, lastOp, tampered, unindexed>>

Keys == Agents \cup Versions
Times == 2..MaxClock
NoRow == [status |-> "none"]
NoTime == 0
NoSignature == [kid |-> 0]
Idle == [op |-> "idle"]
Signatures == [bytes : [content : Contents, status : {"approved"}, at : Times], kid : Kids]
\* RegistryEntry and WorkflowEntry; kid is part of the signature.
Rows == [content : Contents, status : {"pending", "approved", "revoked"},
         signature : Signatures \cup {NoSignature}, approved_at : Times \cup {NoTime}]

-----------------------------------------------------------------------------
(* Time, signing and the repositories. *)

\* Mutation: a time stamp with its fraction.
UtcnowPrecise == clock
\* The current time as a string of whole seconds.
utcnow == (clock \div 2) * 2
\* The string in the row's column is read back to whole seconds.
canonical_rfc3339(at) == (at \div 2) * 2

\* What is signed: the manifest plus its trust state.
canonical_bytes(content, status, at) == [content |-> content, status |-> status, at |-> at]
canonical_workflow_bytes(content, status, at) ==
    [content |-> content, status |-> status, at |-> at]

\* Signer.headers and Signer.verify: sign with the active key, verify with any held.
Sign(bytes) == [bytes |-> bytes, kid |-> active_kid]
Verify(bytes, signature) == signature.kid \in keys /\ signature.bytes = bytes

\* PostgresRegistryRepo.get and PostgresWorkflowRepo.get.
to_entry(row) == [row EXCEPT !.approved_at = canonical_rfc3339(@)]
workflow_to_entry(row) == [row EXCEPT !.approved_at = canonical_rfc3339(@)]

Pending(content) ==
    [content |-> content, status |-> "pending", signature |-> NoSignature, approved_at |-> NoTime]

sign_entry(entry) ==
    [entry EXCEPT !.status = "approved", !.approved_at = utcnow,
                  !.signature = Sign(canonical_bytes(entry.content, "approved", utcnow))]
sign_workflow(entry) ==
    [entry EXCEPT !.status = "approved", !.approved_at = utcnow,
                  !.signature = Sign(canonical_workflow_bytes(entry.content, "approved", utcnow))]

\* Mutation: revocation is a status flag only.
RevokeStatusOnly(entry) == [entry EXCEPT !.status = "revoked"]
\* Revocation destroys the signature.
Revoked(entry) == [entry EXCEPT !.status = "revoked", !.signature = NoSignature]

\* verify_entry: approved, signed, and signed over exactly this state.
verify_entry(entry) ==
    /\ entry.status = "approved" /\ entry.signature # NoSignature
    /\ Verify(canonical_bytes(entry.content, entry.status, entry.approved_at), entry.signature)
verify_workflow(entry) ==
    /\ entry.status = "approved" /\ entry.signature # NoSignature
    /\ Verify(canonical_workflow_bytes(entry.content, entry.status, entry.approved_at),
              entry.signature)

\* RegistryLoader.approved_entries: what L1 may route to.
approved_entries ==
    {a \in Agents : rows[a] # NoRow /\ rows[a].status = "approved" /\ verify_entry(to_entry(rows[a]))}

\* Mutation: the oldest approved version.
OldestApproved ==
    LET approved == {v \in Versions : rows[v] # NoRow /\ rows[v].status = "approved"}
    IN  {v \in approved : \A w \in approved : v <= w}
\* WorkflowStore.load without a version takes the highest approved one, and fails
\* if that one does not verify: it does not fall back to an older version.
latest_approved ==
    LET approved == {v \in Versions : rows[v] # NoRow /\ rows[v].status = "approved"}
    IN  {v \in approved : \A w \in approved : w <= v}
load(v) == rows[v] # NoRow /\ verify_workflow(workflow_to_entry(rows[v]))

Executable == {v \in latest_approved : load(v)}

Trusted(key) == IF key \in Agents THEN key \in approved_entries ELSE load(key)

-----------------------------------------------------------------------------
(* The callers.  The admin API and code that embeds the store pass the principal  *)
(* they resolved, or none, and then nothing is checked; the command line passes   *)
(* the local operator, who holds the admin scopes in a single-tenant deployment,  *)
(* and builds its registry store without a certifier and without a search index.  *)

AdminApi == {"in_process", "author", "approver"}
RegistryCli == {"operator"}
Callers == AdminApi \cup RegistryCli
require_scopes(caller, scope) == caller \in {"in_process", "operator", scope}

\* Whether the store a caller goes through has a certifier, and a search index.
Certifies(caller) == certifier /\ caller \notin RegistryCli
Indexes(caller) == Searches /\ caller \notin RegistryCli

Init ==
    /\ rows = [k \in Keys |-> NoRow]
    /\ client = [c \in Clients |-> Idle]
    /\ index = {} /\ unindexed = {}
    /\ active_kid \in Kids /\ \A kid \in Kids : active_kid <= kid
    /\ keys = {active_kid}
    /\ certifier \in BOOLEAN
    /\ clock = 2 /\ ops = 0 /\ tampers = 0
    /\ approvals = {}
    /\ lastOp = [k \in Keys |-> "none"]
    /\ tampered = {}

Begin == ops < MaxOps /\ ops' = ops + 1

\* The upsert: the whole row, whatever is in it.
Put(key, row, op) ==
    /\ rows' = [rows EXCEPT ![key] = row]
    /\ lastOp' = [lastOp EXCEPT ![key] = op]
    /\ tampered' = tampered \ {key}

Submit(key, content, caller) ==
    /\ require_scopes(caller, "author")
    /\ Begin
    /\ Put(key, Pending(content), "submit")
    /\ UNCHANGED <<client, index, unindexed, keys, active_kid, certifier, clock, tampers, approvals>>

RegistrySubmit(a, content, caller) == Submit(a, content, caller)
WorkflowSubmit(v, content, caller) == Submit(v, content, caller)

\* The first await of approve and revoke: the row is read.
Read(c, op, key, caller, entry) ==
    /\ client[c] = Idle /\ rows[key] # NoRow
    /\ Begin
    /\ client' = [client EXCEPT ![c] = [op |-> op, key |-> key, by |-> caller, entry |-> entry]]
    /\ UNCHANGED <<rows, index, unindexed, keys, active_kid, certifier, clock, tampers, approvals,
                   lastOp, tampered>>

RegistryApproveRead(c, a, caller) ==
    require_scopes(caller, "approver") /\ Read(c, "certify", a, caller, to_entry(rows[a]))
WorkflowApproveRead(c, v, caller) ==
    require_scopes(caller, "approver") /\ Read(c, "sign", v, caller, workflow_to_entry(rows[v]))
RegistryRevokeRead(c, a, caller) ==
    require_scopes(caller, "approver") /\ Read(c, "revoke", a, caller, to_entry(rows[a]))
WorkflowRevokeRead(c, v, caller) ==
    require_scopes(caller, "approver") /\ Read(c, "revoke", v, caller, workflow_to_entry(rows[v]))

\* Mutation: after the evaluation the row is read again.
CertifyThenReread(c) ==
    /\ client[c].op = "certify"
    /\ IF /\ client[c].entry.content \in NeedsCert /\ Certifies(client[c].by)
          /\ client[c].entry.content \notin Passes
          THEN client' = [client EXCEPT ![c] = Idle]
          ELSE client' = [client EXCEPT ![c].op = "sign", ![c].entry = to_entry(rows[client[c].key])]
    /\ UNCHANGED <<rows, index, unindexed, keys, active_kid, certifier, clock, ops, tampers, approvals,
                   lastOp, tampered>>
\* The certification gate: the evaluation of the manifest that was read.
Certify(c) ==
    /\ client[c].op = "certify"
    /\ IF /\ client[c].entry.content \in NeedsCert /\ Certifies(client[c].by)
          /\ client[c].entry.content \notin Passes
          THEN client' = [client EXCEPT ![c] = Idle]
          ELSE client' = [client EXCEPT ![c].op = "sign"]
    /\ UNCHANGED <<rows, index, unindexed, keys, active_kid, certifier, clock, ops, tampers, approvals,
                   lastOp, tampered>>

\* The entry that was read is signed and put, over whatever is there by now.
Approve(c, signed, next) ==
    /\ client[c].op = "sign"
    /\ Put(client[c].key, signed, "approve")
    /\ approvals' = approvals \cup {[content |-> signed.content, at |-> signed.approved_at,
                                     by |-> client[c].by]}
    /\ client' = [client EXCEPT ![c] = next]
    /\ UNCHANGED <<index, unindexed, keys, active_kid, certifier, clock, ops, tampers>>

RegistryApprovePut(c) ==
    /\ client[c].op = "sign" /\ client[c].key \in Agents
    /\ Approve(c, sign_entry(client[c].entry),
               IF Indexes(client[c].by) THEN [client[c] EXCEPT !.op = "index"] ELSE Idle)
WorkflowApprovePut(c) ==
    /\ client[c].op = "sign" /\ client[c].key \in Versions
    /\ Approve(c, sign_workflow(client[c].entry), Idle)

\* RegistrySearch.index, after the put: a manifest without a text is left out.
Index(c) ==
    /\ client[c].op = "index"
    /\ IF client[c].entry.content \in Described
       THEN /\ index' = index \cup {client[c].key}
            /\ unindexed' = unindexed \ {client[c].key}
       ELSE UNCHANGED <<index, unindexed>>
    /\ client' = [client EXCEPT ![c] = Idle]
    /\ UNCHANGED <<rows, keys, active_kid, certifier, clock, ops, tampers, approvals,
                   lastOp, tampered>>

\* embed or upsert raises: approve fails although the entry is signed and in the store.
IndexFails(c) ==
    /\ client[c].op = "index" /\ client[c].entry.content \in Described
    /\ unindexed' = unindexed \cup {client[c].key}
    /\ client' = [client EXCEPT ![c] = Idle]
    /\ UNCHANGED <<rows, index, keys, active_kid, certifier, clock, ops, tampers, approvals,
                   lastOp, tampered>>

Revoke(c) ==
    /\ client[c].op = "revoke"
    /\ Put(client[c].key, Revoked(client[c].entry), "revoke")
    /\ client' = [client EXCEPT ![c] = Idle]
    /\ UNCHANGED <<index, unindexed, keys, active_kid, certifier, clock, ops, tampers, approvals>>

RegistryRevokePut(c) == client[c].op = "revoke" /\ client[c].key \in Agents /\ Revoke(c)
WorkflowRevokePut(c) == client[c].op = "revoke" /\ client[c].key \in Versions /\ Revoke(c)

-----------------------------------------------------------------------------
(* Outside the store. *)

Tamper(key) ==
    /\ tampers < MaxTampers /\ rows[key] # NoRow
    /\ \/ rows' = [rows EXCEPT ![key].status = "approved"]
       \/ \E x \in Contents : rows' = [rows EXCEPT ![key].content = x]
       \/ rows' = [rows EXCEPT ![key].approved_at = utcnow]
    /\ rows' # rows
    /\ tampers' = tampers + 1
    /\ tampered' = tampered \cup {key}
    /\ UNCHANGED <<client, index, unindexed, keys, active_kid, certifier, clock, ops, approvals, lastOp>>

\* The signing key rotates: a new key is introduced and signs; old ones still verify.
Rotate ==
    /\ \E kid \in Kids : kid > active_kid /\ active_kid' = kid /\ keys' = keys \cup {kid}
    /\ UNCHANGED <<rows, client, index, unindexed, certifier, clock, ops, tampers, approvals, lastOp, tampered>>

\* A hard revocation: every key but the active one is taken out of the signers.
Retire ==
    /\ keys # {active_kid} /\ keys' = {active_kid}
    /\ UNCHANGED <<rows, client, index, unindexed, active_kid, certifier, clock, ops, tampers, approvals,
                   lastOp, tampered>>

Tick ==
    /\ clock < MaxClock /\ clock' = clock + 1
    /\ UNCHANGED <<rows, client, index, unindexed, keys, active_kid, certifier, ops, tampers, approvals,
                   lastOp, tampered>>

Next ==
    \/ \E x \in Contents, caller \in Callers :
          \/ \E a \in Agents : RegistrySubmit(a, x, caller)
          \/ \E v \in Versions : WorkflowSubmit(v, x, caller)
    \/ \E c \in Clients, a \in Agents, caller \in Callers :
          RegistryApproveRead(c, a, caller) \/ RegistryRevokeRead(c, a, caller)
    \/ \E c \in Clients, v \in Versions, caller \in Callers :
          WorkflowApproveRead(c, v, caller) \/ WorkflowRevokeRead(c, v, caller)
    \/ \E c \in Clients :
          \/ Certify(c) \/ RegistryApprovePut(c) \/ WorkflowApprovePut(c) \/ Index(c) \/ IndexFails(c)
          \/ RegistryRevokePut(c) \/ WorkflowRevokePut(c)
    \/ \E key \in Keys : Tamper(key)
    \/ Rotate \/ Retire \/ Tick

Spec == Init /\ [][Next]_vars

-----------------------------------------------------------------------------
(* Properties. *)

Frames == [op : {"certify", "sign", "index", "revoke"}, key : Keys, by : Callers, entry : Rows]

\* The type of the rows, the keys, the callers' frames and the history.
TypeOK ==
    /\ rows \in [Keys -> Rows \cup {NoRow}]
    /\ client \in [Clients -> Frames \cup {Idle}]
    /\ index \subseteq Agents /\ unindexed \subseteq Agents
    /\ active_kid \in keys /\ keys \subseteq Kids
    /\ certifier \in BOOLEAN /\ clock \in Times
    /\ approvals \subseteq [content : Contents, at : Times, by : Callers]
    /\ lastOp \in [Keys -> {"none", "submit", "approve", "revoke"}]
    /\ tampered \subseteq Keys

\* The approvals that gave a row its form.
ApprovalsOf(key) == {a \in approvals : /\ a.content = rows[key].content
                                       /\ a.at = canonical_rfc3339(rows[key].approved_at)}

\* An approval the rules allow: by a caller who may approve, of a manifest that passed
\* its certification if it asks for one and the approving store has a certifier, as
\* that of the command line has not.
MayApprove(key, content, by) ==
    /\ by # "author"
    /\ key \in Agents /\ Certifies(by) /\ content \in NeedsCert => content \in Passes

\* Whatever is loadable was approved in exactly that form, and rightly: whatever was
\* resubmitted, revoked or changed in the row meanwhile.
TrustIsEarned == \A key \in Keys : Trusted(key) =>
    \E a \in ApprovalsOf(key) : MayApprove(key, a.content, a.by)

\* Behind it: a signature in a row is some rightful approval's, whatever the columns
\* beside it say; a client about to sign passed the gates for what it read; and only
\* an approval leaves a signature in a row.
SignaturesEarned == \A key \in Keys :
    (rows[key] # NoRow /\ rows[key].signature # NoSignature) =>
        \E a \in approvals : /\ a.content = rows[key].signature.bytes.content
                             /\ a.at = rows[key].signature.bytes.at
                             /\ MayApprove(key, a.content, a.by)
GatesPassed == \A c \in Clients : client[c] # Idle =>
    /\ client[c].by # "author"
    /\ client[c].op = "sign" => MayApprove(client[c].key, client[c].entry.content, client[c].by)
    /\ client[c].op = "index" => client[c].key \in Agents
UnsignedUnlessApproved == \A key \in Keys : lastOp[key] # "approve" =>
    rows[key] = NoRow \/ rows[key].signature = NoSignature

\* Without one, and if nobody changed the row, it does not say approved.
UnapprovedStatus == \A key \in Keys : (lastOp[key] # "approve" /\ key \notin tampered) =>
    rows[key] = NoRow \/ rows[key].status # "approved"

\* And an approved row that nobody changed is still the row that was signed.
ApprovedIntact == \A key \in Keys : (lastOp[key] = "approve" /\ key \notin tampered) =>
    /\ rows[key] \in Rows /\ rows[key].status = "approved"
    /\ rows[key].signature # NoSignature
    /\ rows[key].signature.bytes =
          canonical_bytes(rows[key].content, "approved", rows[key].approved_at)
    /\ canonical_rfc3339(rows[key].approved_at) = rows[key].approved_at

\* The state is well formed and nothing loads but what was approved.
TrustInv ==
    /\ TypeOK /\ TrustIsEarned
    /\ SignaturesEarned /\ GatesPassed /\ UnsignedUnlessApproved /\ UnapprovedStatus
    /\ ApprovedIntact

\* A key whose last operation was a submission or a revocation is not loadable, and
\* no change of its status, content or time in the database makes it so.
RevokedIsDead == \A key \in Keys : lastOp[key] # "approve" => ~Trusted(key)

\* An approved agent can be found by a search: it is in the capability index or about to be
\* put there, unless its approver's store has no index (the command line's never has one), it
\* has no text to embed, or the indexing raised.
Findable(a) ==
    \/ a \in index
    \/ \E c \in Clients : /\ client[c].op = "index" /\ client[c].key = a
                          /\ client[c].entry.content = rows[a].content
    \/ \E p \in ApprovalsOf(a) : ~Indexes(p.by)
    \/ rows[a].content \notin Described
    \/ a \in unindexed

\* The newest version that was approved, by the operations on the store.
NewestApproved(v) ==
    lastOp[v] = "approve" /\ \A w \in Versions : w > v => lastOp[w] # "approve"

\* An approval takes effect: the entry verifies after the round trip through the database
\* until somebody changes its row or its key is taken out of the signers, an agent can be
\* found, and a run by name gets the newest version that was approved as long as nobody
\* changed a row.
ApprovedLoads ==
    /\ \A key \in Keys : (lastOp[key] = "approve" /\ key \notin tampered) =>
          /\ Trusted(key) \/ rows[key].signature.kid \notin keys
          /\ key \in Agents => Findable(key)
    /\ Versions \cap tampered = {} => \A v \in Versions :
          NewestApproved(v) => v \in Executable \/ rows[v].signature.kid \notin keys

\* ARCHITECTURE.md: a revoked definition never executes.  So a revoked entry becomes
\* loadable again only by an approval that saw the revocation.
RevocationSticks == [][\A key \in Keys :
    (lastOp[key] = "revoke" /\ lastOp'[key] = "approve")
        => \E c \in Clients : client[c] # Idle /\ client[c].key = key
                                 /\ client[c].entry.status = "revoked"]_vars
=============================================================================
