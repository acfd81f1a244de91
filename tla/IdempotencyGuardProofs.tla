----------------------- MODULE IdempotencyGuardProofs -----------------------
(***************************************************************************)
(* Proofs, for every set of keys, callers and locks and every hash, of the *)
(* safety properties of IdempotencyGuard.                                  *)
(***************************************************************************)
EXTENDS IdempotencyGuard, TLAPS

\* Nothing has fired and nobody holds a lock.
LEMMA InitGuard == Init => GuardInv
  <1> SUFFICES ASSUME Init PROVE GuardInv
    OBVIOUS
  <1>1. TypeOK
    BY GuardAssumption DEF Init, TypeOK, Points
  <1>2. LockInv /\ AnswersInv /\ Accounting
    BY DEF Init, LockInv, InCritical, AnswersInv, Accounting, Recording
  <1> QED
    BY <1>1, <1>2 DEF GuardInv

\* Every action keeps the variables in their types.
LEMMA TypeStep == TypeOK /\ [Next]_vars => TypeOK'
  <1> SUFFICES ASSUME TypeOK, [Next]_vars PROVE TypeOK'
    OBVIOUS
  <1> USE GuardAssumption DEF TypeOK, Points, Release
  <1>1. ASSUME NEW c \in Callers, NEW k \in Keys, Acquire(c, k) PROVE TypeOK'
    BY <1>1 DEF Acquire
  <1>2. ASSUME NEW c \in Callers, Lock(c) PROVE TypeOK'
    BY <1>2 DEF Lock
  <1>3. ASSUME NEW c \in Callers, Check(c) PROVE TypeOK'
    BY <1>3 DEF Check
  <1>4. ASSUME NEW c \in Callers, Call(c) PROVE TypeOK'
    BY <1>4 DEF Call
  <1>5. ASSUME NEW c \in Callers, Record(c) PROVE TypeOK'
    BY <1>5 DEF Record
  <1>6. ASSUME NEW c \in Callers, Crash(c) PROVE TypeOK'
    BY <1>6 DEF Crash
  <1>7. ASSUME NEW k \in Keys, Prune(k) PROVE TypeOK'
    BY <1>7 DEF Prune
  <1>8. CASE UNCHANGED vars
    BY <1>8 DEF vars
  <1> QED
    BY <1>1, <1>2, <1>3, <1>4, <1>5, <1>6, <1>7, <1>8 DEF Next

\* The lock of a key's hash is held by one caller from the lookup to the commit,
\* so the row it looked up cannot appear behind its back.
LEMMA LockStep == TypeOK /\ LockInv /\ [Next]_vars => LockInv'
  <1> SUFFICES ASSUME TypeOK, LockInv, [Next]_vars PROVE LockInv'
    OBVIOUS
  <1> USE GuardAssumption DEF TypeOK, LockInv, InCritical, Release
  <1>1. ASSUME NEW c \in Callers, NEW k \in Keys, Acquire(c, k) PROVE LockInv'
    BY <1>1 DEF Acquire
  <1>2. ASSUME NEW c \in Callers, Lock(c) PROVE LockInv'
    BY <1>2 DEF Lock
  <1>3. ASSUME NEW c \in Callers, Check(c) PROVE LockInv'
    BY <1>3 DEF Check
  <1>4. ASSUME NEW c \in Callers, Call(c) PROVE LockInv'
    BY <1>4 DEF Call
  <1>5. ASSUME NEW c \in Callers, Record(c) PROVE LockInv'
    BY <1>5 DEF Record
  <1>6. ASSUME NEW c \in Callers, Crash(c) PROVE LockInv'
    BY <1>6 DEF Crash
  <1>7. ASSUME NEW k \in Keys, Prune(k) PROVE LockInv'
    BY <1>7 DEF Prune
  <1>8. CASE UNCHANGED vars
    BY <1>8 DEF vars
  <1> QED
    BY <1>1, <1>2, <1>3, <1>4, <1>5, <1>6, <1>7, <1>8 DEF Next

\* What is returned for a key is what its row says.
LEMMA AnswersStep == TypeOK /\ LockInv /\ AnswersInv /\ [Next]_vars => AnswersInv'
  <1> SUFFICES ASSUME TypeOK, LockInv, AnswersInv, [Next]_vars PROVE AnswersInv'
    OBVIOUS
  <1> USE GuardAssumption DEF TypeOK, AnswersInv, Release
  <1>1. ASSUME NEW c \in Callers, NEW k \in Keys, Acquire(c, k) PROVE AnswersInv'
    BY <1>1 DEF Acquire
  <1>2. ASSUME NEW c \in Callers, Lock(c) PROVE AnswersInv'
    BY <1>2 DEF Lock
  <1>3. ASSUME NEW c \in Callers, Check(c) PROVE AnswersInv'
    BY <1>3 DEF Check
  <1>4. ASSUME NEW c \in Callers, Call(c) PROVE AnswersInv'
    BY <1>4 DEF Call
  <1>5. ASSUME NEW c \in Callers, Record(c) PROVE AnswersInv'
    BY <1>5 DEF Record, LockInv
  <1>6. ASSUME NEW c \in Callers, Crash(c) PROVE AnswersInv'
    BY <1>6 DEF Crash
  <1>7. ASSUME NEW k \in Keys, Prune(k) PROVE AnswersInv'
    BY <1>7 DEF Prune
  <1>8. CASE UNCHANGED vars
    BY <1>8 DEF vars
  <1> QED
    BY <1>1, <1>2, <1>3, <1>4, <1>5, <1>6, <1>7, <1>8 DEF Next

\* One caller at a time is between the lookup and the commit of a key.
LEMMA Exclusive ==
    ASSUME LockInv, NEW c \in Callers, NEW d \in Callers,
           InCritical(c), InCritical(d), key[c] = key[d]
    PROVE  c = d
  <1>1. lock[Hash[key[c]]] = {c} /\ lock[Hash[key[d]]] = {d}
    BY DEF LockInv
  <1>2. {c} = {d}
    BY <1>1
  <1> QED
    BY <1>2

\* Each execution of fn becomes a record, a loss or an expired row, exactly once.
LEMMA AccountingStep == TypeOK /\ LockInv /\ Accounting /\ [Next]_vars => Accounting'
  <1> SUFFICES ASSUME TypeOK, LockInv, Accounting, [Next]_vars PROVE Accounting'
    OBVIOUS
  <1> USE GuardAssumption DEF TypeOK, Accounting, Recording, Release
  \* A caller that records a key is the only one to do so.
  <1>a. \A c, d \in Callers :
           pc[c] = "recording" /\ pc[d] = "recording" /\ key[c] = key[d] => c = d
    BY Exclusive DEF InCritical
  <1>1. ASSUME NEW c \in Callers, NEW k \in Keys, Acquire(c, k) PROVE Accounting'
    BY <1>1 DEF Acquire
  <1>2. ASSUME NEW c \in Callers, Lock(c) PROVE Accounting'
    BY <1>2 DEF Lock
  <1>3. ASSUME NEW c \in Callers, Check(c) PROVE Accounting'
    BY <1>3 DEF Check
  <1>4. ASSUME NEW c \in Callers, Call(c) PROVE Accounting'
    <2>1. ~Recording(key[c])
      BY <1>4, Exclusive DEF Call, InCritical
    <2>2. Recording(key[c])'
      BY <1>4 DEF Call
    <2>3. \A k \in Keys \ {key[c]} : Recording(k)' <=> Recording(k)
      BY <1>4 DEF Call
    <2> QED
      BY <1>4, <2>1, <2>2, <2>3 DEF Call
  <1>5. ASSUME NEW c \in Callers, Record(c) PROVE Accounting'
    <2>1. Recording(key[c]) /\ ~Recording(key[c])'
      BY <1>5, <1>a DEF Record
    <2>2. \A k \in Keys \ {key[c]} : Recording(k)' <=> Recording(k)
      BY <1>5 DEF Record
    <2>3. row[key[c]] = 0 /\ row'[key[c]] # 0
      BY <1>5 DEF Record, LockInv
    <2> QED
      BY <1>5, <2>1, <2>2, <2>3 DEF Record
  <1>6. ASSUME NEW c \in Callers, Crash(c) PROVE Accounting'
    <2>1. CASE pc[c] = "recording"
      <3>1. Recording(key[c]) /\ ~Recording(key[c])'
        BY <1>6, <1>a, <2>1 DEF Crash
      <3>2. \A k \in Keys \ {key[c]} : Recording(k)' <=> Recording(k)
        BY <1>6 DEF Crash
      <3> QED
        BY <1>6, <2>1, <3>1, <3>2 DEF Crash
    <2>2. CASE pc[c] # "recording"
      BY <1>6, <2>2 DEF Crash
    <2> QED
      BY <2>1, <2>2
  <1>7. ASSUME NEW k \in Keys, Prune(k) PROVE Accounting'
    BY <1>7 DEF Prune
  <1>8. CASE UNCHANGED vars
    BY <1>8 DEF vars
  <1> QED
    BY <1>1, <1>2, <1>3, <1>4, <1>5, <1>6, <1>7, <1>8 DEF Next

\* The inductive invariant of the guard.
THEOREM GuardHolds == Spec => []GuardInv
  <1>1. GuardInv /\ [Next]_vars => GuardInv'
    BY TypeStep, LockStep, AnswersStep, AccountingStep DEF GuardInv
  <1> QED
    BY InitGuard, <1>1, PTL DEF Spec

\* However its callers race, a side effect runs once, plus once for each time its
\* process died before the record and for each time its record was pruned.
THEOREM OncePerRecord == Spec => []Accounting
  <1>1. GuardInv => Accounting
    BY DEF GuardInv
  <1> QED
    BY GuardHolds, <1>1, PTL

\* The calls of a key that return agree on its result.
THEOREM SameAnswer == Spec => []Agreement
  <1>1. GuardInv => Agreement
    BY DEF GuardInv, AnswersInv, Agreement
  <1> QED
    BY GuardHolds, <1>1, PTL

\* With no crash and no pruning, once() keeps its promise: fn runs at most once.
THEOREM AtMostOnceUndisturbed ==
    Spec => [](crashes = 0 /\ (\A k \in Keys : expired[k] = 0) => AtMostOnce)
  <1> DEFINE NoLoss == crashes = 0 => \A k \in Keys : lost[k] = 0
             Undisturbed == crashes = 0 /\ (\A k \in Keys : expired[k] = 0) => AtMostOnce
  <1>1. Init => NoLoss
    BY DEF Init
  <1>2. GuardInv /\ NoLoss /\ [Next]_vars => NoLoss'
    BY GuardAssumption
       DEF GuardInv, TypeOK, Next, Acquire, Lock, Check, Call, Record, Crash, Prune, vars
  <1>3. GuardInv /\ NoLoss => Undisturbed
    <2> SUFFICES ASSUME GuardInv, NoLoss, crashes = 0, \A k \in Keys : expired[k] = 0,
                        NEW k \in Keys
                 PROVE  fired[k] <= 1
      BY DEF AtMostOnce
    <2>1. Recording(k) => row[k] = 0
      BY DEF GuardInv, LockInv, Recording
    <2> QED
      BY <2>1 DEF GuardInv, TypeOK, Accounting
  <1> QED
    BY GuardHolds, <1>1, <1>2, <1>3, PTL DEF Spec

-----------------------------------------------------------------------------
(* The safety side of EveryCallReturns: the calls never wait for each other. *)

\* A lock is held by a transaction that is open, and for the key of its call.
LocksHeld == \A l \in Locks : \A c \in lock[l] : InCritical(c) /\ Hash[key[c]] = l

LEMMA LocksHeldStep == TypeOK /\ LockInv /\ LocksHeld /\ [Next]_vars => LocksHeld'
  <1> SUFFICES ASSUME TypeOK, LockInv, LocksHeld, [Next]_vars PROVE LocksHeld'
    OBVIOUS
  <1> USE GuardAssumption DEF TypeOK, LocksHeld, InCritical, Release
  <1>1. ASSUME NEW c \in Callers, NEW k \in Keys, Acquire(c, k) PROVE LocksHeld'
    BY <1>1 DEF Acquire
  <1>2. ASSUME NEW c \in Callers, Lock(c) PROVE LocksHeld'
    BY <1>2 DEF Lock
  <1>3. ASSUME NEW c \in Callers, Check(c) PROVE LocksHeld'
    BY <1>3 DEF Check
  <1>4. ASSUME NEW c \in Callers, Call(c) PROVE LocksHeld'
    BY <1>4 DEF Call
  <1>5. ASSUME NEW c \in Callers, Record(c) PROVE LocksHeld'
    BY <1>5 DEF Record
  <1>6. ASSUME NEW c \in Callers, Crash(c) PROVE LocksHeld'
    BY <1>6 DEF Crash
  <1>7. ASSUME NEW k \in Keys, Prune(k) PROVE LocksHeld'
    BY <1>7 DEF Prune
  <1>8. CASE UNCHANGED vars
    BY <1>8 DEF vars
  <1> QED
    BY <1>1, <1>2, <1>3, <1>4, <1>5, <1>6, <1>7, <1>8 DEF Next

\* What a call waits for is there: the lock of its key, the connection that fn takes.
CanGoOn(c) ==
    /\ pc[c] = "locking" => lock[Hash[key[c]]] = {}
    /\ pc[c] = "calling" /\ FnUsesPool => Cardinality(Busy) < PoolSize

\* As long as the pool keeps a connection for fn, where fn takes one, some call that is
\* under way can go on.
NoCircularWait ==
    Busy # {} /\ (FnUsesPool => Cardinality(Busy) < PoolSize) => \E c \in Busy : CanGoOn(c)

\* once() never deadlocks on its advisory locks, whichever keys collide in hashtext and
\* whatever dies: no lock outlives its transaction, and its holder waits for no other.
THEOREM CallsGoOn == Spec => []NoCircularWait
  <1>1. Init => LocksHeld
    BY DEF Init, LocksHeld
  <1>2. GuardInv /\ LocksHeld => NoCircularWait
    <2> SUFFICES ASSUME GuardInv, LocksHeld, Busy # {}, FnUsesPool => Cardinality(Busy) < PoolSize
                 PROVE  \E c \in Busy : CanGoOn(c)
      BY DEF NoCircularWait
    <2>1. CASE \E c \in Busy : pc[c] # "locking"
      BY <2>1 DEF CanGoOn
    <2>2. CASE \A c \in Busy : pc[c] = "locking"
      <3>1. PICK c \in Busy : pc[c] = "locking"
        BY <2>2
      <3>2. Hash[key[c]] \in Locks /\ c \in Callers
        BY GuardAssumption DEF GuardInv, TypeOK, Busy
      <3>3. \A d \in lock[Hash[key[c]]] : d \in Callers /\ InCritical(d)
        BY <3>2 DEF GuardInv, TypeOK, LocksHeld
      <3>4. lock[Hash[key[c]]] = {}
        BY <2>2, <3>2, <3>3 DEF Busy, InCritical
      <3> QED
        BY <3>1, <3>4 DEF CanGoOn
    <2> QED
      BY <2>1, <2>2
  <1>3. GuardInv => TypeOK /\ LockInv
    BY DEF GuardInv
  <1> QED
    BY GuardHolds, LocksHeldStep, <1>1, <1>2, <1>3, PTL DEF Spec

=============================================================================
