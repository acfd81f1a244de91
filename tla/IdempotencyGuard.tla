-------------------------- MODULE IdempotencyGuard --------------------------
(***************************************************************************)
(* PostgresIdempotencyGuard.once (runs/idempotency.py): run a side effect   *)
(* at most once per key.  Callers are coroutines of any number of processes *)
(* that share the database; a call takes a pool connection, opens a         *)
(* transaction, takes the advisory lock of the key's hash, looks the key up,*)
(* runs fn and records its result.                                          *)
(*                                                                          *)
(* The transaction is what a crash undoes: the lock goes, the row is not    *)
(* inserted.  What fn did outside of the database stays done.  The value fn *)
(* returns is abstracted to the number of the execution it comes from.      *)
(***************************************************************************)
EXTENDS Integers, FiniteSets

CONSTANTS
    Keys,        \* idempotency keys
    Callers,     \* coroutines that call once
    Locks,       \* advisory locks
    Hash,        \* hashtext: the lock of each key; keys may collide
    PoolSize,    \* max_size of the connection pool
    FnUsesPool,  \* whether fn itself takes a pool connection
    MaxCrashes,  \* bound on process deaths and on exceptions out of fn
    MaxPrunes    \* bound on the rows that outlive their retention window

ASSUME GuardAssumption ==
    /\ Hash \in [Keys -> Locks]
    /\ PoolSize \in Nat \ {0}
    /\ FnUsesPool \in BOOLEAN
    /\ MaxCrashes \in Nat
    /\ MaxPrunes \in Nat

VARIABLES
    row,      \* idempotency_keys: the recorded result of each key, 0 if none
    lock,     \* holders of the advisory locks: lock[l] has at most one element
    pc, key,  \* program point and argument of each caller
    result,   \* what fn returned to the caller
    fired,    \* times the side effect of a key was executed (history)
    lost,     \* executions whose transaction did not commit (history)
    expired,  \* rows of a key that were pruned (history)
    answers,  \* results returned for a key since its row was last pruned (history)
    crashes   \* crashes and exceptions so far

vars == <<row, lock, pc, key, result, fired, lost, expired, answers, crashes>>

Points == {"idle", "locking", "checking", "calling", "recording"}
Busy == {c \in Callers : pc[c] # "idle"}

\* The caller's connection goes back to the pool, its transaction is over.
Release(c) ==
    /\ pc' = [pc EXCEPT ![c] = "idle"]
    /\ lock' = [l \in Locks |-> lock[l] \ {c}]

-----------------------------------------------------------------------------
\* pool.acquire() and BEGIN.
Acquire(c, k) ==
    /\ pc[c] = "idle"
    /\ Cardinality(Busy) < PoolSize
    /\ pc' = [pc EXCEPT ![c] = "locking"]
    /\ key' = [key EXCEPT ![c] = k]
    /\ UNCHANGED <<row, lock, result, fired, lost, expired, answers, crashes>>

\* Mutant of Lock: the lock is not exclusive.
LockShared(c) ==
    /\ pc[c] = "locking"
    /\ lock' = [lock EXCEPT ![Hash[key[c]]] = @ \cup {c}]
    /\ pc' = [pc EXCEPT ![c] = "checking"]
    /\ UNCHANGED <<row, key, result, fired, lost, expired, answers, crashes>>

\* pg_advisory_xact_lock(hashtext(key)): blocks while another transaction holds it.
Lock(c) ==
    /\ pc[c] = "locking"
    /\ lock[Hash[key[c]]] = {}
    /\ lock' = [lock EXCEPT ![Hash[key[c]]] = {c}]
    /\ pc' = [pc EXCEPT ![c] = "checking"]
    /\ UNCHANGED <<row, key, result, fired, lost, expired, answers, crashes>>

\* Mutant of Check: the recorded result is not looked up.
CheckNothing(c) ==
    /\ pc[c] = "checking"
    /\ pc' = [pc EXCEPT ![c] = "calling"]
    /\ UNCHANGED <<row, lock, key, result, fired, lost, expired, answers, crashes>>

\* Mutant of Check: a replay tries again instead of returning the prior result.
CheckRetries(c) ==
    /\ pc[c] = "checking"
    /\ IF row[key[c]] # 0
       THEN /\ pc' = [pc EXCEPT ![c] = "locking"]
            /\ lock' = [l \in Locks |-> lock[l] \ {c}]
       ELSE /\ pc' = [pc EXCEPT ![c] = "calling"]
            /\ UNCHANGED lock
    /\ UNCHANGED <<row, key, result, fired, lost, expired, answers, crashes>>

\* The lookup: a recorded key returns the prior result and commits.
Check(c) ==
    /\ pc[c] = "checking"
    /\ IF row[key[c]] # 0
       THEN /\ answers' = [answers EXCEPT ![key[c]] = @ \cup {row[key[c]]}]
            /\ Release(c)
       ELSE /\ pc' = [pc EXCEPT ![c] = "calling"]
            /\ UNCHANGED <<answers, lock>>
    /\ UNCHANGED <<row, key, result, fired, lost, expired, crashes>>

\* fn runs, with the connection, the transaction and the lock held.
Call(c) ==
    /\ pc[c] = "calling"
    /\ FnUsesPool => Cardinality(Busy) < PoolSize
    /\ fired' = [fired EXCEPT ![key[c]] = @ + 1]
    /\ result' = [result EXCEPT ![c] = fired[key[c]] + 1]
    /\ pc' = [pc EXCEPT ![c] = "recording"]
    /\ UNCHANGED <<row, lock, key, lost, expired, answers, crashes>>

\* INSERT ... ON CONFLICT DO NOTHING, COMMIT, and the return of fn's result.
Record(c) ==
    /\ pc[c] = "recording"
    /\ row' = [row EXCEPT ![key[c]] = IF @ = 0 THEN result[c] ELSE @]
    /\ answers' = [answers EXCEPT ![key[c]] = @ \cup {result[c]}]
    /\ Release(c)
    /\ UNCHANGED <<key, result, fired, lost, expired, crashes>>

\* The process dies, fn raises (before or after its effect), or the INSERT fails.
Crash(c) ==
    /\ pc[c] # "idle"
    /\ crashes < MaxCrashes
    /\ crashes' = crashes + 1
    /\ lost' = IF pc[c] = "recording" THEN [lost EXCEPT ![key[c]] = @ + 1] ELSE lost
    /\ Release(c)
    /\ UNCHANGED <<row, key, result, fired, expired, answers>>

\* maof prune deletes the rows that are older than idempotency_key_ttl_s.
Prune(k) ==
    /\ row[k] # 0
    /\ expired[k] < MaxPrunes
    /\ row' = [row EXCEPT ![k] = 0]
    /\ expired' = [expired EXCEPT ![k] = @ + 1]
    /\ answers' = [answers EXCEPT ![k] = {}]
    /\ UNCHANGED <<lock, pc, key, result, fired, lost, crashes>>

-----------------------------------------------------------------------------
Init ==
    /\ row = [k \in Keys |-> 0]
    /\ lock = [l \in Locks |-> {}]
    /\ pc = [c \in Callers |-> "idle"]
    /\ key \in [Callers -> Keys]
    /\ result = [c \in Callers |-> 0]
    /\ fired = [k \in Keys |-> 0]
    /\ lost = [k \in Keys |-> 0]
    /\ expired = [k \in Keys |-> 0]
    /\ answers = [k \in Keys |-> {}]
    /\ crashes = 0

Next ==
    \/ \E c \in Callers :
          \/ \E k \in Keys : Acquire(c, k)
          \/ Lock(c) \/ Check(c) \/ Call(c) \/ Record(c) \/ Crash(c)
    \/ \E k \in Keys : Prune(k)

Spec == Init /\ [][Next]_vars

\* The advisory lock and the pool serve their waiters in turn; a coroutine that
\* waits for neither is scheduled.
Fairness ==
    \A c \in Callers :
        /\ SF_vars(Lock(c))
        /\ SF_vars(Call(c))
        /\ WF_vars(Check(c))
        /\ WF_vars(Record(c))

FairSpec == Spec /\ Fairness

-----------------------------------------------------------------------------
\* The type of every variable.
TypeOK ==
    /\ row \in [Keys -> Nat]
    /\ lock \in [Locks -> SUBSET Callers]
    /\ pc \in [Callers -> Points]
    /\ key \in [Callers -> Keys]
    /\ result \in [Callers -> Nat]
    /\ fired \in [Keys -> Nat]
    /\ lost \in [Keys -> Nat]
    /\ expired \in [Keys -> Nat]
    /\ answers \in [Keys -> SUBSET Nat]
    /\ crashes \in 0..MaxCrashes

Recording(k) == \E c \in Callers : pc[c] = "recording" /\ key[c] = k

\* Every execution of a side effect is accounted for: it is recorded, or about to
\* be, or its transaction died with its process, or its row was pruned.  A death after
\* the effect and a pruned row are thus the only ways to a second execution, and each
\* costs exactly one; racing callers and colliding locks cost none.  That these two
\* ways exist is what AtMostOnce shows.
Accounting ==
    \A k \in Keys :
        fired[k] = lost[k] + expired[k] + (IF row[k] # 0 THEN 1 ELSE 0)
                                        + (IF Recording(k) THEN 1 ELSE 0)

\* All the calls of a key that return, return the same result, even if a process
\* died between the effect and its record; only pruning makes them forget it.
Agreement ==
    \A k \in Keys : \A a, b \in answers[k] : a = b

\* What the module's docstring promises: once() runs fn at most once per key, which makes
\* resumed runs safe.  The code does not keep it: a process that dies after fn's effect and
\* before the COMMIT leaves no row, and the redelivered call runs fn again.
AtMostOnce == \A k \in Keys : fired[k] <= 1

\* A call ends, also when every other coroutine calls at the same time and fn
\* needs a connection of its own.
EveryCallReturns == \A c \in Callers : pc[c] # "idle" ~> pc[c] = "idle"

-----------------------------------------------------------------------------
(* The inductive invariant: who holds a lock, and what that excludes.        *)

InCritical(c) == pc[c] \in {"checking", "calling", "recording"}

LockInv ==
    /\ \A c \in Callers : InCritical(c) => lock[Hash[key[c]]] = {c}
    /\ \A c \in Callers : pc[c] \in {"calling", "recording"} => row[key[c]] = 0
    /\ \A c \in Callers : pc[c] = "recording" => result[c] # 0

AnswersInv == \A k \in Keys : \A a \in answers[k] : a = row[k] /\ a # 0

\* The conjunction is inductive (see IdempotencyGuardProofs).
GuardInv == TypeOK /\ LockInv /\ AnswersInv /\ Accounting

=============================================================================
