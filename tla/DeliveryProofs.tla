--------------------------- MODULE DeliveryProofs ---------------------------
(***************************************************************************)
(* Proofs, for every set of messages, consumers and settings, every retry  *)
(* schedule and every number of faults, of the safety properties of        *)
(* Delivery.                                                               *)
(***************************************************************************)
EXTENDS Delivery, FiniteSetTheorems, TLAPS

-----------------------------------------------------------------------------
(* The copies of a message, and the consumers that carry it, counted. *)

\* A copy is the pair of a message and an attempt.
LEMMA CopyParts ==
    ASSUME NEW k \in Copies
    PROVE  /\ k[1] \in Messages /\ k[2] \in Attempts /\ k[2] \in Nat /\ k[2] >= 1
           /\ k[2] <= RetrySteps + 1
           /\ k = <<k[1], k[2]>>
           /\ k # NoCopy
  BY DeliveryAssumption DEF Copies, Attempts, NoCopy

LEMMA PairIsCopy ==
    ASSUME NEW m \in Messages, NEW a \in Attempts
    PROVE  <<m, a>> \in Copies
  BY DEF Copies

\* A delivery in progress is not idle, and has a copy.
LEMMA Delivering ==
    ASSUME TypeOK, NEW c \in Consumers
    PROVE  /\ consumer[c] = Idle \/ consumer[c] \in Deliveries
           /\ consumer[c] = Idle <=> consumer[c].pc = "idle"
           /\ consumer[c] # Idle => /\ consumer[c].copy \in Copies
                                    /\ consumer[c].copy # NoCopy
                                    /\ consumer[c].held \in BOOLEAN
           /\ consumer[c] = Idle => consumer[c].copy = NoCopy /\ consumer[c].held = FALSE
  <1>1. consumer[c] \in {Idle} \cup Deliveries
    BY DEF TypeOK
  <1>2. CASE consumer[c] = Idle
    BY <1>2 DEF Idle
  <1>3. CASE consumer[c] \in Deliveries
    <2>1. consumer[c].pc # "idle" /\ consumer[c].copy \in Copies
      BY <1>3 DEF Deliveries
    <2>2. consumer[c] # Idle
      BY <2>1 DEF Idle
    <2> QED
      BY <1>3, <2>1, <2>2, CopyParts DEF Deliveries
  <1> QED
    BY <1>1, <1>2, <1>3

\* What the two ways to move a consumer on do to it.
LEMMA GotoMoves ==
    ASSUME TypeOK, NEW c \in Consumers, consumer[c] # Idle,
           NEW pc \in {"handling", "acking", "failing", "settling"}, Goto(c, pc)
    PROVE  /\ consumer' \in [Consumers -> {Idle} \cup Deliveries]
           /\ consumer'[c] # Idle
           /\ consumer'[c].pc = pc
           /\ consumer'[c].copy = consumer[c].copy
           /\ consumer'[c].held = consumer[c].held
           /\ \A d \in Consumers \ {c} : consumer'[d] = consumer[d]
  <1>1. consumer[c] \in Deliveries
    BY Delivering
  <1>2. consumer' = [consumer EXCEPT ![c] = [consumer[c] EXCEPT !.pc = pc]]
    BY DEF Goto
  <1>3. [consumer[c] EXCEPT !.pc = pc] \in Deliveries
    BY <1>1 DEF Deliveries
  <1>4. /\ [consumer[c] EXCEPT !.pc = pc].pc = pc
        /\ [consumer[c] EXCEPT !.pc = pc].copy = consumer[c].copy
        /\ [consumer[c] EXCEPT !.pc = pc].held = consumer[c].held
    BY <1>1 DEF Deliveries
  <1>5. [consumer[c] EXCEPT !.pc = pc] # Idle
    BY <1>4 DEF Idle
  <1> QED
    BY <1>2, <1>3, <1>4, <1>5 DEF TypeOK

LEMMA FreeMoves ==
    ASSUME TypeOK, NEW c \in Consumers, Free(c)
    PROVE  /\ consumer' \in [Consumers -> {Idle} \cup Deliveries]
           /\ consumer'[c] = Idle
           /\ \A d \in Consumers \ {c} : consumer'[d] = consumer[d]
  BY DEF Free, TypeOK

\* One more copy in a queue, and one fewer.
LEMMA WithType ==
    ASSUME NEW q \in [Copies -> Nat], NEW k \in Copies
    PROVE  /\ With(q, k) \in [Copies -> Nat]
           /\ With(q, k)[k] = q[k] + 1
           /\ \A j \in Copies \ {k} : With(q, k)[j] = q[j]
  BY DEF With

LEMMA WithoutType ==
    ASSUME NEW q \in [Copies -> Nat], NEW k \in Copies, q[k] > 0
    PROVE  /\ Without(q, k) \in [Copies -> Nat]
           /\ Without(q, k)[k] = q[k] - 1
           /\ \A j \in Copies \ {k} : Without(q, k)[j] = q[j]
  BY DEF Without

LEMMA WithPositive ==
    ASSUME NEW q \in [Copies -> Nat], NEW k \in Copies, NEW j \in Copies, With(q, k)[j] > 0
    PROVE  q[j] > 0 \/ j = k
  BY WithType

\* Two sets of consumers that differ in one consumer at most.
LEMMA CountChange ==
    ASSUME NEW S \in SUBSET Consumers, NEW T \in SUBSET Consumers, NEW c \in Consumers,
           S \ {c} = T \ {c}
    PROVE  /\ Cardinality(S) \in Nat /\ Cardinality(T) \in Nat
           /\ c \in S <=> c \in T => Cardinality(T) = Cardinality(S)
           /\ c \in S /\ c \notin T => Cardinality(T) = Cardinality(S) - 1
           /\ c \notin S /\ c \in T => Cardinality(T) = Cardinality(S) + 1
  <1>1. IsFiniteSet(S) /\ IsFiniteSet(T)
    BY FS_Subset, DeliveryAssumption
  <1>2. Cardinality(S) \in Nat /\ Cardinality(T) \in Nat
    BY <1>1, FS_CardinalityType
  <1>3. Cardinality(S \ {c}) = IF c \in S THEN Cardinality(S) - 1 ELSE Cardinality(S)
    BY <1>1, FS_RemoveElement
  <1>4. Cardinality(T \ {c}) = IF c \in T THEN Cardinality(T) - 1 ELSE Cardinality(T)
    BY <1>1, FS_RemoveElement
  <1> QED
    BY <1>2, <1>3, <1>4

\* The copies of a message in a queue are finitely many.
LEMMA CopiesFinite ==
    ASSUME NEW q \in [Copies -> Nat], NEW m \in Messages
    PROVE  IsFiniteSet(CopiesIn(q, m)) /\ CopiesOf(q, m) \in Nat
  <1> DEFINE f == [a \in Attempts |-> {a} \X (1..q[<<m, a>>])]
             R == {f[a] : a \in Attempts}
  <1>1. IsFiniteSet(Attempts)
    BY FS_Interval, DeliveryAssumption DEF Attempts
  <1>2. f \in Surjection(Attempts, R)
    BY DEF Surjection
  <1>3. IsFiniteSet(R)
    BY <1>1, <1>2, FS_Surjection
  <1>4. \A T \in R : IsFiniteSet(T)
    <2> SUFFICES ASSUME NEW a \in Attempts PROVE IsFiniteSet({a} \X (1..q[<<m, a>>]))
      OBVIOUS
    <2>1. q[<<m, a>>] \in Nat
      BY PairIsCopy
    <2>2. IsFiniteSet(1..q[<<m, a>>])
      BY <2>1, FS_Interval
    <2>3. IsFiniteSet({a})
      BY FS_Singleton
    <2> QED
      BY <2>2, <2>3, FS_Product
  <1>5. IsFiniteSet(UNION R)
    BY <1>3, <1>4, FS_UNION
  <1>6. UNION R = CopiesIn(q, m)
    BY DEF CopiesIn
  <1> QED
    BY <1>5, <1>6, FS_CardinalityType DEF CopiesOf

\* A member of CopiesIn is an attempt and a number up to the count.
LEMMA CopiesInParts ==
    ASSUME NEW q \in [Copies -> Nat], NEW m \in Messages, NEW t \in CopiesIn(q, m)
    PROVE  \E a \in Attempts, i \in Nat : 1 <= i /\ i <= q[<<m, a>>] /\ t = <<a, i>>
  <1>1. PICK a \in Attempts : t \in {a} \X (1..q[<<m, a>>])
    BY DEF CopiesIn
  <1>2. q[<<m, a>>] \in Nat
    BY PairIsCopy
  <1>3. \E i \in Nat : 1 <= i /\ i <= q[<<m, a>>] /\ t = <<a, i>>
    BY <1>1, <1>2
  <1> QED
    BY <1>3

LEMMA CopiesInMember ==
    ASSUME NEW q \in [Copies -> Nat], NEW m \in Messages,
           NEW a \in Attempts, NEW i \in Nat, 1 <= i, i <= q[<<m, a>>]
    PROVE  <<a, i>> \in CopiesIn(q, m)
  <1>1. q[<<m, a>>] \in Nat
    BY PairIsCopy
  <1>2. <<a, i>> \in {a} \X (1..q[<<m, a>>])
    BY <1>1
  <1> QED
    BY <1>2 DEF CopiesIn

LEMMA CopiesWith ==
    ASSUME NEW q \in [Copies -> Nat], NEW k \in Copies, NEW m \in Messages
    PROVE  CopiesOf(With(q, k), m) = CopiesOf(q, m) + (IF k[1] = m THEN 1 ELSE 0)
  <1> DEFINE r == With(q, k)
             new == <<k[2], q[k] + 1>>
  <1> HIDE DEF r
  <1>0. r \in [Copies -> Nat] /\ r[k] = q[k] + 1 /\ \A j \in Copies \ {k} : r[j] = q[j]
    BY WithType DEF r
  <1>1. CASE k[1] = m
    <2>1. k = <<m, k[2]>> /\ k[2] \in Attempts
      BY <1>1, CopyParts
    <2>2. \A a \in Attempts : <<m, a>> \in Copies /\ (a # k[2] => <<m, a>> # k)
      BY <2>1, PairIsCopy
    <2>3. new \notin CopiesIn(q, m)
      <3> SUFFICES ASSUME new \in CopiesIn(q, m) PROVE FALSE
        OBVIOUS
      <3>1. PICK a \in Attempts, i \in Nat : i <= q[<<m, a>>] /\ new = <<a, i>>
        BY CopiesInParts
      <3>2. a = k[2] /\ i = q[k] + 1
        BY <3>1
      <3>3. i <= q[k] /\ q[k] \in Nat
        BY <2>1, <3>1, <3>2
      <3> QED
        BY <3>2, <3>3
    <2>4. ASSUME NEW t PROVE t \in CopiesIn(r, m) <=> t \in CopiesIn(q, m) \cup {new}
      <3>1. ASSUME t \in CopiesIn(r, m) PROVE t \in CopiesIn(q, m) \cup {new}
        <4>1. PICK a \in Attempts, i \in Nat :
                 1 <= i /\ i <= r[<<m, a>>] /\ t = <<a, i>>
          BY <1>0, <3>1, CopiesInParts
        <4>2. CASE a = k[2]
          <5>1. i <= q[k] + 1 /\ q[k] \in Nat
            BY <1>0, <2>1, <4>1, <4>2
          <5>2. i <= q[k] \/ i = q[k] + 1
            BY <5>1
          <5> QED
            BY <2>1, <4>1, <4>2, <5>2, CopiesInMember
        <4>3. CASE a # k[2]
          BY <1>0, <2>2, <4>1, <4>3, CopiesInMember
        <4> QED
          BY <4>2, <4>3
      <3>2. ASSUME t \in CopiesIn(q, m) PROVE t \in CopiesIn(r, m)
        <4>1. PICK a \in Attempts, i \in Nat :
                 1 <= i /\ i <= q[<<m, a>>] /\ t = <<a, i>>
          BY <3>2, CopiesInParts
        <4>2. q[<<m, a>>] \in Nat /\ r[<<m, a>>] \in Nat /\ q[<<m, a>>] <= r[<<m, a>>]
          BY <1>0, <2>1, <2>2
        <4>3. i <= r[<<m, a>>]
          BY <4>1, <4>2
        <4> QED
          BY <1>0, <4>1, <4>3, CopiesInMember
      <3>3. new \in CopiesIn(r, m)
        <4>1. q[k] + 1 <= r[<<m, k[2]>>] /\ q[k] \in Nat
          BY <1>0, <2>1
        <4>2. q[k] + 1 \in Nat /\ 1 <= q[k] + 1
          BY <4>1
        <4> QED
          BY <1>0, <2>1, <4>1, <4>2, CopiesInMember
      <3> QED
        BY <3>1, <3>2, <3>3
    <2>5. CopiesIn(r, m) = CopiesIn(q, m) \cup {new}
      BY <2>4
    <2> QED
      <3>1. IsFiniteSet(CopiesIn(q, m)) /\ CopiesOf(q, m) \in Nat
        BY CopiesFinite
      <3>2. Cardinality(CopiesIn(q, m) \cup {new}) = Cardinality(CopiesIn(q, m)) + 1
        BY <2>3, <3>1, FS_AddElement
      <3> QED
        BY <1>1, <2>5, <3>2 DEF CopiesOf, r
  <1>2. CASE k[1] # m
    <2>1. \A a \in Attempts : r[<<m, a>>] = q[<<m, a>>]
      BY <1>0, <1>2, PairIsCopy
    <2>2. CopiesIn(r, m) = CopiesIn(q, m)
      BY <2>1 DEF CopiesIn
    <2> QED
      BY <1>2, <2>2, CopiesFinite DEF CopiesOf, r
  <1> QED
    BY <1>1, <1>2

LEMMA CopiesWithout ==
    ASSUME NEW q \in [Copies -> Nat], NEW k \in Copies, q[k] > 0, NEW m \in Messages
    PROVE  CopiesOf(q, m) = CopiesOf(Without(q, k), m) + (IF k[1] = m THEN 1 ELSE 0)
  <1>1. Without(q, k) \in [Copies -> Nat]
    BY WithoutType
  <1>2. With(Without(q, k), k) = q
    <2>1. With(Without(q, k), k) \in [Copies -> Nat]
      BY <1>1, WithType
    <2>2. \A j \in Copies : With(Without(q, k), k)[j] = q[j]
      BY <1>1, WithType, WithoutType
    <2> QED
      BY <2>1, <2>2
  <1> QED
    BY <1>1, <1>2, CopiesWith

-----------------------------------------------------------------------------
(* What the actions of a consumer do, adapter by adapter. *)

\* A copy is taken: Redis parks it, the in-memory broker forgets it, the others
\* keep the claim.
Taken(c, copy, held) ==
    /\ Take(c, copy, held)
    /\ \/ broker = "redis" /\ held = FALSE /\ parked' = With(parked, copy)
       \/ broker # "redis" /\ UNCHANGED parked /\ (held = TRUE \/ broker = "memory")

LEMMA ReceiveTakes ==
    ASSUME NEW c \in Consumers, Receive(c)
    PROVE  \E copy \in Copies, held \in BOOLEAN : Taken(c, copy, held)
  <1>1. PICK copy \in Copies :
            \/ RabbitConsume(c, copy) \/ RedisConsume(c, copy) \/ KafkaConsume(c, copy)
            \/ SqsConsume(c, copy) \/ MemoryConsume(c, copy)
    BY DEF Receive
  <1>2. Taken(c, copy, TRUE) \/ Taken(c, copy, FALSE)
    <2>1. CASE RabbitConsume(c, copy)
      BY <2>1 DEF RabbitConsume, Taken
    <2>2. CASE RedisConsume(c, copy)
      BY <2>2 DEF RedisConsume, Taken
    <2>3. CASE KafkaConsume(c, copy)
      BY <2>3 DEF KafkaConsume, Taken
    <2>4. CASE SqsConsume(c, copy)
      BY <2>4 DEF SqsConsume, Taken
    <2>5. CASE MemoryConsume(c, copy)
      BY <2>5 DEF MemoryConsume, Taken
    <2> QED
      BY <1>1, <2>1, <2>2, <2>3, <2>4, <2>5
  <1> QED
    BY <1>2

LEMMA TakeMoves ==
    ASSUME TypeOK, NEW c \in Consumers, NEW copy \in Copies, NEW held \in BOOLEAN,
           Take(c, copy, held)
    PROVE  /\ consumer[c] = Idle /\ ready[copy] > 0
           /\ consumer' \in [Consumers -> {Idle} \cup Deliveries]
           /\ consumer'[c] # Idle
           /\ consumer'[c].pc = "handling"
           /\ consumer'[c].copy = copy
           /\ consumer'[c].held = held
           /\ \A d \in Consumers \ {c} : consumer'[d] = consumer[d]
           /\ ready' = Without(ready, copy)
           /\ ready' \in [Copies -> Nat]
  <1> DEFINE r == [pc |-> "handling", copy |-> copy, held |-> held]
  <1>1. r \in Deliveries /\ r # Idle
    BY DEF Deliveries, Idle
  <1>2. ready \in [Copies -> Nat] /\ ready[copy] > 0 /\ ready' = Without(ready, copy)
    BY DEF TypeOK, Take
  <1>3. ready' \in [Copies -> Nat]
    BY <1>2, WithoutType
  <1>4. consumer' = [consumer EXCEPT ![c] = r] /\ consumer[c] = Idle
    BY DEF Take
  <1>5. consumer' \in [Consumers -> {Idle} \cup Deliveries] /\ consumer'[c] = r
    BY <1>1, <1>4 DEF TypeOK
  <1>6. \A d \in Consumers \ {c} : consumer'[d] = consumer[d]
    BY <1>4 DEF TypeOK
  <1> QED
    BY <1>1, <1>2, <1>3, <1>4, <1>5, <1>6

\* c is done with its copy, or has only the final acknowledgement left.
Moved(c) ==
    /\ consumer' \in [Consumers -> {Idle} \cup Deliveries]
    /\ \A d \in Consumers \ {c} : consumer'[d] = consumer[d]
    /\ \/ consumer'[c] = Idle
       \/ /\ consumer'[c] # Idle
          /\ consumer'[c].pc = "settling"
          /\ consumer'[c].copy = consumer[c].copy
          /\ consumer'[c].held = consumer[c].held

\* Where the except branch leaves the copy: the next attempt is queued or delayed,
\* the copy is dead-lettered, dropped, or hidden until its visibility timeout; or
\* the broker had taken it back before.
Outcome(c) == LET k == consumer[c].copy IN
    \/ /\ k[2] <= spec.steps
       /\ \/ ready' = With(ready, Next1(k)) /\ UNCHANGED delayed
          \/ delayed' = With(delayed, Next1(k)) /\ UNCHANGED ready
       /\ UNCHANGED <<dead, dropped>>
    \/ /\ k[2] > spec.steps
       /\ dead' = With(dead, k)
       /\ UNCHANGED <<ready, delayed, dropped>>
    \/ /\ k[2] > spec.steps /\ ~spec.dlq
       /\ dropped' = dropped \cup {k[1]}
       /\ UNCHANGED <<ready, delayed, dead>>
    \/ /\ consumer[c].held
       /\ delayed' = With(delayed, k)
       /\ UNCHANGED <<ready, dead, dropped>>
    \/ /\ ~consumer[c].held /\ broker \in {"rabbitmq", "sqs"} /\ consumer'[c] = Idle
       /\ UNCHANGED <<ready, delayed, dead, dropped>>

LEMMA FailureForms ==
    ASSUME TypeOK, NEW c \in Consumers, Failure(c)
    PROVE  /\ consumer[c] # Idle /\ consumer[c].pc = "failing"
           /\ consumer[c].copy \in Copies
           /\ Moved(c) /\ Outcome(c)
           /\ UNCHANGED <<broker, spec, parked, published, handled, failures, faults>>
  <1>1. consumer[c] # Idle /\ consumer[c].pc = "failing" /\ consumer[c].copy \in Copies
    BY Delivering DEF Failure
  <1>2. spec.steps \in Nat /\ consumer[c].copy[2] \in Nat /\ consumer[c].copy[2] >= 1
    BY <1>1, CopyParts, DeliveryAssumption DEF TypeOK
  <1>3. delay_for_attempt(consumer[c].copy[2]) <=> consumer[c].copy[2] <= spec.steps
    BY <1>2 DEF delay_for_attempt
  <1>4. ~(consumer[c].copy[2] <= spec.steps) <=> consumer[c].copy[2] > spec.steps
    BY <1>2
  <1>5. Goto(c, "settling") => Moved(c)
    BY <1>1, GotoMoves DEF Moved
  <1>6. Free(c) => Moved(c) /\ consumer'[c] = Idle
    BY FreeMoves DEF Moved
  <1>7. UNCHANGED <<broker, spec, published, handled, failures, faults>>
    BY DEF Failure
  <1>8. ASSUME RabbitFailure(c) PROVE Moved(c) /\ Outcome(c) /\ UNCHANGED parked
    BY <1>3, <1>4, <1>5, <1>6, <1>8 DEF RabbitFailure, Outcome, Discard, retry_queues
  <1>9. ASSUME RequeueOrBury(consumer[c].copy) PROVE Outcome(c) /\ UNCHANGED parked
    BY <1>3, <1>4, <1>9 DEF RequeueOrBury, Outcome, Discard
  <1>10. ASSUME RedisFailure(c) PROVE Moved(c) /\ Outcome(c) /\ UNCHANGED parked
    BY <1>5, <1>9, <1>10 DEF RedisFailure
  <1>11. ASSUME KafkaFailure(c) PROVE Moved(c) /\ Outcome(c) /\ UNCHANGED parked
    BY <1>5, <1>9, <1>11 DEF KafkaFailure
  <1>12. ASSUME MemoryFailure(c) PROVE Moved(c) /\ Outcome(c) /\ UNCHANGED parked
    BY <1>6, <1>9, <1>12 DEF MemoryFailure
  <1>13. ASSUME SqsFailure(c) PROVE Moved(c) /\ Outcome(c) /\ UNCHANGED parked
    BY <1>3, <1>4, <1>5, <1>6, <1>13 DEF SqsFailure, Outcome
  <1> QED
    BY <1>1, <1>7, <1>8, <1>10, <1>11, <1>12, <1>13 DEF Failure

\* The next attempt of a copy that may be retried is a copy.
LEMMA NextAttempt ==
    ASSUME TypeOK, NEW k \in Copies, k[2] <= spec.steps
    PROVE  /\ Next1(k) \in Copies
           /\ Next1(k)[1] = k[1] /\ Next1(k)[2] = k[2] + 1
  <1>1. spec.steps \in {0, RetrySteps}
    BY DEF TypeOK
  <1>2. k[2] + 1 \in Attempts /\ k[1] \in Messages
    BY <1>1, CopyParts, DeliveryAssumption DEF Attempts
  <1> QED
    BY <1>2, PairIsCopy DEF Next1

\* A message is handed to its handler only once it was taken.
LEMMA ReturnMoves ==
    ASSUME TypeOK, NEW c \in Consumers, HandlerReturns(c)
    PROVE  /\ consumer[c] # Idle /\ consumer[c].pc = "handling"
           /\ consumer[c].copy \in Copies
           /\ consumer' \in [Consumers -> {Idle} \cup Deliveries]
           /\ \A d \in Consumers \ {c} : consumer'[d] = consumer[d]
           /\ \/ consumer'[c] = Idle
              \/ /\ consumer'[c] # Idle
                 /\ consumer'[c].pc \in {"acking", "settling"}
                 /\ consumer'[c].copy = consumer[c].copy
                 /\ consumer'[c].held = consumer[c].held
           /\ handled' = handled \cup {consumer[c].copy[1]}
           /\ UNCHANGED <<broker, spec, queues, published, dropped, failures, faults>>
  <1>1. consumer[c] # Idle /\ consumer[c].pc = "handling" /\ consumer[c].copy \in Copies
    BY Delivering DEF HandlerReturns
  <1>2. Goto(c, "acking") \/ Goto(c, "settling") \/ Free(c)
    BY DEF HandlerReturns, TypeOK
  <1>3. /\ handled' = handled \cup {consumer[c].copy[1]}
        /\ UNCHANGED <<broker, spec, queues, published, dropped, failures, faults>>
    BY DEF HandlerReturns
  <1> QED
    BY <1>1, <1>2, <1>3, GotoMoves, FreeMoves

\* The except branch is entered with the copy, and the claim on it, as they were.
LEMMA ExceptMoves ==
    ASSUME TypeOK, NEW c \in Consumers, consumer[c] # Idle, EnterExcept(c)
    PROVE  /\ consumer[c].copy \in Copies
           /\ consumer' \in [Consumers -> {Idle} \cup Deliveries]
           /\ \A d \in Consumers \ {c} : consumer'[d] = consumer[d]
           /\ consumer'[c] # Idle
           /\ consumer'[c].pc = "failing"
           /\ consumer'[c].copy = consumer[c].copy
           /\ consumer'[c].held = consumer[c].held
           /\ failures' \in [Messages -> 0..MaxFailures]
           /\ \A m \in Messages : failures'[m] >= failures[m]
           /\ \A a \in Attempts :
                 failures[consumer[c].copy[1]] >= a - 1 => failures'[consumer[c].copy[1]] >= a
           /\ UNCHANGED <<broker, spec, queues, published, handled, dropped>>
  <1>1. consumer[c].copy \in Copies
    BY Delivering
  <1> DEFINE m == consumer[c].copy[1]
  <1>2. m \in Messages
    BY <1>1, CopyParts
  <1>3. failures \in [Messages -> 0..MaxFailures] /\ MaxFailures \in Nat
    BY DeliveryAssumption DEF TypeOK, MaxFailures
  <1>4. failures' = [failures EXCEPT ![m] = IF failures[m] < MaxFailures
                                               THEN failures[m] + 1 ELSE failures[m]]
    BY DEF EnterExcept
  <1> HIDE DEF m
  <1>5. failures' \in [Messages -> 0..MaxFailures]
    BY <1>2, <1>3, <1>4
  <1>6. \A n \in Messages : failures'[n] >= failures[n]
    BY <1>2, <1>3, <1>4
  <1>7. ASSUME NEW a \in Attempts, failures[m] >= a - 1 PROVE failures'[m] >= a
    <2>1. a \in Nat /\ a <= RetrySteps + 1 /\ RetrySteps \in Nat
      BY DeliveryAssumption DEF Attempts
    <2>2. failures'[m] = IF failures[m] < MaxFailures THEN failures[m] + 1 ELSE failures[m]
      BY <1>2, <1>3, <1>4
    <2>3. failures[m] \in 0..MaxFailures
      BY <1>2, <1>3
    <2> QED
      BY <1>7, <2>1, <2>2, <2>3, DeliveryAssumption DEF MaxFailures
  <1>8. Goto(c, "failing") /\ UNCHANGED <<broker, spec, queues, published, handled, dropped>>
    BY DEF EnterExcept
  <1> QED
    BY <1>1, <1>5, <1>6, <1>7, <1>8, GotoMoves DEF m

-----------------------------------------------------------------------------
(* The inductive invariant, one conjunct at a time. *)

\* The last broker call of a Redis delivery finds its own entry on the list.
LEMMA OwnEntry ==
    ASSUME TypeOK, ClaimsParked, broker = "redis", NEW c \in Consumers, consumer[c] # Idle
    PROVE  consumer[c].copy \in Copies /\ parked[consumer[c].copy] > 0
  <1> DEFINE k == consumer[c].copy
  <1>1. k \in Copies
    BY Delivering
  <1>2. c \in Carriers(k) /\ Carriers(k) \subseteq Consumers
    BY DEF Carriers
  <1>3. IsFiniteSet(Carriers(k))
    BY <1>2, FS_Subset, DeliveryAssumption
  <1>4. Cardinality(Carriers(k)) # 0 /\ Cardinality(Carriers(k)) \in Nat
    BY <1>2, <1>3, FS_EmptySet, FS_CardinalityType
  <1>5. parked[k] \in Nat
    BY <1>1 DEF TypeOK
  <1> QED
    BY <1>1, <1>4, <1>5 DEF ClaimsParked

LEMMA TypeStep == TypeOK /\ ClaimsParked /\ [Next]_vars => TypeOK'
  <1> SUFFICES ASSUME TypeOK, ClaimsParked, [Next]_vars PROVE TypeOK'
    OBVIOUS
  <1> DEFINE Queue == [Copies -> Nat]
  <1>0. ready \in Queue /\ delayed \in Queue /\ dead \in Queue /\ parked \in Queue
    BY DEF TypeOK
  <1>1. ASSUME NEW m \in Messages, publish(m) PROVE TypeOK'
    <2>1. <<m, 1>> \in Copies
      BY DeliveryAssumption, PairIsCopy DEF Attempts
    <2>2. ready' \in Queue
      BY <1>0, <1>1, <2>1, WithType DEF publish
    <2> QED
      BY <1>1, <2>2 DEF publish, TypeOK
  <1>2. ASSUME NEW c \in Consumers, Receive(c) PROVE TypeOK'
    <2>1. PICK copy \in Copies, held \in BOOLEAN : Taken(c, copy, held)
      BY <1>2, ReceiveTakes
    <2>2. /\ ready' \in Queue
          /\ consumer' \in [Consumers -> {Idle} \cup Deliveries]
      BY <2>1, TakeMoves DEF Taken
    <2>3. parked' \in Queue
      BY <1>0, <2>1, WithType DEF Taken
    <2> QED
      BY <2>1, <2>2, <2>3 DEF Taken, Take, TypeOK
  <1>3. ASSUME NEW c \in Consumers, HandlerReturns(c) PROVE TypeOK'
    <2>1. consumer[c].copy[1] \in Messages
      BY <1>3, ReturnMoves, CopyParts
    <2> QED
      BY <1>3, <2>1, ReturnMoves DEF TypeOK, queues
  <1>4. ASSUME NEW c \in Consumers, HandlerRaises(c) PROVE TypeOK'
    <2>1. consumer[c] # Idle
      BY <1>4, Delivering DEF HandlerRaises
    <2> QED
      BY <1>4, <2>1, ExceptMoves DEF HandlerRaises, TypeOK, queues
  <1>5. ASSUME NEW c \in Consumers, Ack(c) PROVE TypeOK'
    BY <1>5, FreeMoves DEF Ack, TypeOK, queues
  <1>6. ASSUME NEW c \in Consumers, AckRaises(c) PROVE TypeOK'
    <2>1. consumer[c] # Idle
      BY <1>6, Delivering DEF AckRaises
    <2>2. faults' \in 0..MaxFaults
      BY <1>6, DeliveryAssumption DEF AckRaises, TypeOK
    <2> QED
      BY <1>6, <2>1, <2>2, ExceptMoves DEF AckRaises, TypeOK, queues
  <1>7. ASSUME NEW c \in Consumers, Failure(c) PROVE TypeOK'
    <2> DEFINE k == consumer[c].copy
    <2>1. /\ k \in Copies /\ Moved(c) /\ Outcome(c)
          /\ UNCHANGED <<broker, spec, parked, published, handled, failures, faults>>
      BY <1>7, FailureForms
    <2>2. k[1] \in Messages
      BY <2>1, CopyParts
    <2>3. k[2] <= spec.steps => Next1(k) \in Copies
      BY <2>1, NextAttempt
    <2>4. ready' \in Queue /\ delayed' \in Queue /\ dead' \in Queue
      BY <1>0, <2>1, <2>3, WithType DEF Outcome
    <2>5. dropped' \in SUBSET Messages
      BY <2>1, <2>2 DEF Outcome, TypeOK
    <2> QED
      BY <2>1, <2>4, <2>5 DEF TypeOK, Moved
  <1>8. ASSUME NEW c \in Consumers, Settle(c) PROVE TypeOK'
    <2>1. consumer[c] # Idle
      BY <1>8, Delivering DEF Settle
    <2>2. parked' \in Queue
      BY <1>0, <1>8, <2>1, OwnEntry, WithoutType DEF Settle
    <2> QED
      BY <1>8, <2>2, FreeMoves DEF Settle, TypeOK
  <1>9. CASE Release
    <2>1. ready' \in Queue /\ delayed' \in Queue
      BY <1>0, <1>9, WithType, WithoutType DEF Release
    <2> QED
      BY <1>9, <2>1 DEF Release, TypeOK
  <1>10. ASSUME NEW c \in Consumers, Crash(c) PROVE TypeOK'
    <2>1. ready' \in Queue
      BY <1>0, <1>10, Delivering, WithType DEF Crash
    <2>2. faults' \in 0..MaxFaults
      BY <1>10, DeliveryAssumption DEF Crash, Fault, TypeOK
    <2> QED
      BY <1>10, <2>1, <2>2, FreeMoves DEF Crash, TypeOK
  <1>11. ASSUME NEW c \in Consumers, LoseClaim(c) PROVE TypeOK'
    <2>1. consumer[c] \in Deliveries /\ consumer[c].copy \in Copies
      BY <1>11, Delivering DEF LoseClaim
    <2>2. ready' \in Queue
      BY <1>0, <1>11, <2>1, WithType DEF LoseClaim
    <2>3. faults' \in 0..MaxFaults
      BY <1>11, DeliveryAssumption DEF LoseClaim, Fault, TypeOK
    <2>4. consumer' \in [Consumers -> {Idle} \cup Deliveries]
      BY <1>11, <2>1 DEF LoseClaim, TypeOK, Deliveries
    <2> QED
      BY <1>11, <2>2, <2>3, <2>4 DEF LoseClaim, TypeOK
  <1>12. CASE UNCHANGED vars
    BY <1>12 DEF vars, queues, TypeOK
  <1> QED
    BY <1>1, <1>2, <1>3, <1>4, <1>5, <1>6, <1>7, <1>8, <1>9, <1>10, <1>11, <1>12
       DEF Next, Work

\* How a step of one consumer changes who carries a copy, who is settling it, and
\* who is still undecided about a message.
LEMMA CarriersChange ==
    ASSUME NEW c \in Consumers, NEW k, \A d \in Consumers \ {c} : consumer'[d] = consumer[d]
    PROVE  LET was == consumer[c].copy = k
               is == consumer'[c].copy = k
               n == Cardinality(Carriers(k))
               n1 == Cardinality(Carriers(k)')
           IN  /\ n \in Nat /\ n1 \in Nat
               /\ (was <=> is) => n1 = n
               /\ was /\ ~is => n1 = n - 1
               /\ ~was /\ is => n1 = n + 1
  <1>1. Carriers(k) \in SUBSET Consumers /\ Carriers(k)' \in SUBSET Consumers
    BY DEF Carriers
  <1>2. Carriers(k) \ {c} = Carriers(k)' \ {c}
    BY DEF Carriers
  <1>3. c \in Carriers(k) <=> consumer[c].copy = k
    BY DEF Carriers
  <1>4. c \in Carriers(k)' <=> consumer'[c].copy = k
    BY DEF Carriers
  <1> QED
    BY <1>1, <1>2, <1>3, <1>4, CountChange

LEMMA SettlingChange ==
    ASSUME NEW c \in Consumers, NEW k, \A d \in Consumers \ {c} : consumer'[d] = consumer[d]
    PROVE  LET was == consumer[c].copy = k /\ consumer[c].pc = "settling"
               is == consumer'[c].copy = k /\ consumer'[c].pc = "settling"
               n == Cardinality(Settling(k))
               n1 == Cardinality(Settling(k)')
           IN  /\ n \in Nat /\ n1 \in Nat
               /\ (was <=> is) => n1 = n
               /\ was /\ ~is => n1 = n - 1
               /\ ~was /\ is => n1 = n + 1
  <1>1. Settling(k) \in SUBSET Consumers /\ Settling(k)' \in SUBSET Consumers
    BY DEF Settling, Carriers
  <1>2. Settling(k) \ {c} = Settling(k)' \ {c}
    BY DEF Settling, Carriers
  <1>3. c \in Settling(k) <=> consumer[c].copy = k /\ consumer[c].pc = "settling"
    BY DEF Settling, Carriers
  <1>4. c \in Settling(k)' <=> consumer'[c].copy = k /\ consumer'[c].pc = "settling"
    BY DEF Settling, Carriers
  <1> QED
    BY <1>1, <1>2, <1>3, <1>4, CountChange

LEMMA CarryingChange ==
    ASSUME NEW c \in Consumers, NEW m, \A d \in Consumers \ {c} : consumer'[d] = consumer[d]
    PROVE  LET was == Carries(c, m) /\ Undecided(c)
               is == (Carries(c, m) /\ Undecided(c))'
               n == Cardinality(Carrying(m))
               n1 == Cardinality(Carrying(m)')
           IN  /\ n \in Nat /\ n1 \in Nat
               /\ (was <=> is) => n1 = n
               /\ was /\ ~is => n1 = n - 1
               /\ ~was /\ is => n1 = n + 1
  <1>1. Carrying(m) \in SUBSET Consumers /\ Carrying(m)' \in SUBSET Consumers
    BY DEF Carrying
  <1>2. Carrying(m) \ {c} = Carrying(m)' \ {c}
    BY DEF Carrying, Carries, Undecided
  <1>3. c \in Carrying(m) <=> Carries(c, m) /\ Undecided(c)
    BY DEF Carrying
  <1>4. c \in Carrying(m)' <=> (Carries(c, m) /\ Undecided(c))'
    BY DEF Carrying
  <1> QED
    BY <1>1, <1>2, <1>3, <1>4, CountChange

LEMMA LoseMoves ==
    ASSUME TypeOK, NEW c \in Consumers, LoseClaim(c)
    PROVE  /\ consumer[c] # Idle /\ consumer[c].held = TRUE
           /\ consumer[c].copy \in Copies
           /\ \A d \in Consumers \ {c} : consumer'[d] = consumer[d]
           /\ consumer'[c] # Idle
           /\ consumer'[c].pc = consumer[c].pc
           /\ consumer'[c].copy = consumer[c].copy
           /\ consumer'[c].held = FALSE
           /\ ready' = With(ready, consumer[c].copy)
  <1>1. /\ consumer[c].held /\ ready' = With(ready, consumer[c].copy)
        /\ consumer' = [consumer EXCEPT ![c] = [consumer[c] EXCEPT !.held = FALSE]]
    BY DEF LoseClaim
  <1>2. consumer[c] # Idle /\ consumer[c] \in Deliveries /\ consumer[c].held \in BOOLEAN
    BY <1>1, Delivering
  <1>3. /\ consumer'[c] = [consumer[c] EXCEPT !.held = FALSE]
        /\ \A d \in Consumers \ {c} : consumer'[d] = consumer[d]
    BY <1>1 DEF TypeOK
  <1>4. /\ consumer'[c].pc = consumer[c].pc /\ consumer'[c].copy = consumer[c].copy
        /\ consumer'[c].held = FALSE
        /\ consumer[c].pc # "idle"
    BY <1>2, <1>3 DEF Deliveries
  <1>5. consumer'[c] # Idle
    BY <1>4 DEF Idle
  <1>6. consumer[c].copy \in Copies /\ consumer[c].held = TRUE
    BY <1>1, <1>2 DEF Deliveries
  <1> QED
    BY <1>1, <1>2, <1>3, <1>4, <1>5, <1>6

LEMMA ParkedStep == TypeOK /\ ClaimsParked /\ [Next]_vars => ClaimsParked'
  <1> SUFFICES ASSUME TypeOK, ClaimsParked, [Next]_vars, broker' = "redis", NEW k \in Copies
               PROVE  Cardinality(Carriers(k)') <= parked'[k]
    BY DEF ClaimsParked
  <1> DEFINE Fewer == Cardinality(Carriers(k)') <= Cardinality(Carriers(k))
  <1>a. broker = "redis"
    BY DEF Next, Work, vars, publish, Receive, RabbitConsume, RedisConsume, KafkaConsume,
       SqsConsume, MemoryConsume, Take, HandlerReturns, HandlerRaises, Ack, AckRaises,
       EnterExcept, Failure, Settle, Release, Crash, LoseClaim
  <1>b. /\ Cardinality(Carriers(k)) <= parked[k] /\ parked[k] \in Nat
        /\ parked \in [Copies -> Nat]
    BY <1>a DEF ClaimsParked, TypeOK
  <1>c. IsFiniteSet(Carriers(k)) /\ Cardinality(Carriers(k)) \in Nat
    BY FS_Subset, FS_CardinalityType, DeliveryAssumption DEF Carriers
  \* A step that leaves the list alone and gives nobody a copy.
  <1>d. ASSUME NEW c \in Consumers, parked' = parked,
               \A d \in Consumers \ {c} : consumer'[d] = consumer[d],
               consumer'[c].copy \in {consumer[c].copy, NoCopy}
        PROVE  Cardinality(Carriers(k)') <= parked'[k]
    <2>1. consumer'[c].copy = k => consumer[c].copy = k
      BY <1>d, CopyParts
    <2>2. Cardinality(Carriers(k)') \in Nat /\ Fewer
      BY <1>c, <1>d, <2>1, CarriersChange
    <2> QED
      BY <1>b, <1>c, <1>d, <2>2
  <1>e. consumer' = consumer /\ parked' = parked => Cardinality(Carriers(k)') <= parked'[k]
    BY <1>b DEF Carriers
  <1>1. ASSUME NEW m \in Messages, publish(m) PROVE Cardinality(Carriers(k)') <= parked'[k]
    BY <1>1, <1>e DEF publish
  <1>2. ASSUME NEW c \in Consumers, Receive(c) PROVE Cardinality(Carriers(k)') <= parked'[k]
    <2>1. PICK copy \in Copies, held \in BOOLEAN : Taken(c, copy, held)
      BY <1>2, ReceiveTakes
    <2>2. parked' = With(parked, copy)
      BY <1>a, <2>1 DEF Taken
    <2>3. /\ consumer[c].copy = NoCopy /\ consumer'[c].copy = copy
          /\ \A d \in Consumers \ {c} : consumer'[d] = consumer[d]
      BY <2>1, TakeMoves DEF Taken, Idle
    <2>4. consumer[c].copy # k
      BY <2>3, CopyParts
    <2>5. CASE copy = k
      <3>1. Cardinality(Carriers(k)') = Cardinality(Carriers(k)) + 1
        BY <2>3, <2>4, <2>5, CarriersChange
      <3> QED
        BY <1>b, <1>c, <2>2, <2>5, <3>1, WithType
    <2>6. CASE copy # k
      <3>1. Cardinality(Carriers(k)') = Cardinality(Carriers(k))
        BY <2>3, <2>4, <2>6, CarriersChange
      <3> QED
        BY <1>b, <2>2, <2>6, <3>1, WithType
    <2> QED
      BY <2>5, <2>6
  <1>3. ASSUME NEW c \in Consumers, HandlerReturns(c)
        PROVE  Cardinality(Carriers(k)') <= parked'[k]
    BY <1>3, <1>d, ReturnMoves DEF Idle, queues
  <1>4. ASSUME NEW c \in Consumers, HandlerRaises(c) \/ AckRaises(c)
        PROVE  Cardinality(Carriers(k)') <= parked'[k]
    <2>1. consumer[c] # Idle /\ EnterExcept(c)
      BY <1>4, Delivering DEF HandlerRaises, AckRaises
    <2> QED
      BY <1>d, <2>1, ExceptMoves DEF queues
  <1>5. ASSUME NEW c \in Consumers, Ack(c) \/ Crash(c)
        PROVE  Cardinality(Carriers(k)') <= parked'[k]
    BY <1>5, <1>d, FreeMoves DEF Ack, Crash, queues, Idle
  <1>6. ASSUME NEW c \in Consumers, Failure(c) PROVE Cardinality(Carriers(k)') <= parked'[k]
    BY <1>6, <1>d, FailureForms DEF Moved, Idle
  <1>7. ASSUME NEW c \in Consumers, Settle(c) PROVE Cardinality(Carriers(k)') <= parked'[k]
    <2> DEFINE own == consumer[c].copy
    <2>1. consumer[c] # Idle /\ parked' = Without(parked, own)
      BY <1>7, <1>a, Delivering DEF Settle
    <2>2. own \in Copies /\ parked[own] > 0
      BY <1>a, <2>1, OwnEntry
    <2>3. /\ consumer'[c].copy = NoCopy /\ consumer'[c].copy # k
          /\ \A d \in Consumers \ {c} : consumer'[d] = consumer[d]
      BY <1>7, FreeMoves, CopyParts DEF Settle, Idle
    <2>4. CASE own = k
      <3>1. Cardinality(Carriers(k)') = Cardinality(Carriers(k)) - 1
        BY <2>3, <2>4, CarriersChange
      <3> QED
        BY <1>b, <1>c, <2>1, <2>2, <2>4, <3>1, WithoutType
    <2>5. CASE own # k
      <3>1. Cardinality(Carriers(k)') = Cardinality(Carriers(k))
        BY <2>3, <2>5, CarriersChange
      <3> QED
        BY <1>b, <2>1, <2>2, <2>5, <3>1, WithoutType
    <2> QED
      BY <2>4, <2>5
  <1>8. ASSUME NEW c \in Consumers, LoseClaim(c) PROVE Cardinality(Carriers(k)') <= parked'[k]
    BY <1>8, <1>d, LoseMoves DEF LoseClaim
  <1>9. CASE Release \/ UNCHANGED vars
    BY <1>9, <1>e DEF Release, vars, queues
  <1> QED
    BY <1>1, <1>2, <1>3, <1>4, <1>5, <1>6, <1>7, <1>8, <1>9 DEF Next, Work

\* The retry schedule.  A header is only ever one ahead of a failure that happened:
\* the failure is counted before the copy with the next attempt is made.
Earned(k) == failures[k[1]] >= k[2] - 1
Budget ==
    /\ \A k \in Copies : ready[k] > 0 \/ delayed[k] > 0 \/ parked[k] > 0 => Earned(k)
    /\ \A k \in Copies : dead[k] > 0 => failures[k[1]] > spec.steps
    /\ \A m \in dropped : ~spec.dlq /\ failures[m] > spec.steps
    /\ CarriedBudget

LEMMA BudgetForm == Budget <=> BudgetSpent /\ CarriedBudget
  BY DEF Budget, BudgetSpent, Earned

LEMMA BudgetStep == TypeOK /\ ClaimsParked /\ Budget /\ [Next]_vars => Budget'
  <1> SUFFICES ASSUME TypeOK, ClaimsParked, Budget, [Next]_vars PROVE Budget'
    OBVIOUS
  <1> DEFINE Queue == [Copies -> Nat]
  <1>a. ready \in Queue /\ delayed \in Queue /\ dead \in Queue /\ parked \in Queue
    BY DEF TypeOK
  <1>b. \A k \in Copies : k[1] \in Messages /\ k[2] \in Nat /\ k[2] \in Attempts
    BY CopyParts
  <1>c. \A m \in Messages : failures[m] \in Nat
    BY DeliveryAssumption DEF TypeOK, MaxFailures
  <1>d. ASSUME NEW c \in Consumers, consumer[c] # Idle
        PROVE  consumer[c].copy \in Copies /\ Earned(consumer[c].copy)
    BY <1>d, Delivering DEF Budget, CarriedBudget, Earned
  <1>1. ASSUME NEW m \in Messages, publish(m) PROVE Budget'
    <2>1. <<m, 1>> \in Copies /\ ready' = With(ready, <<m, 1>>)
      BY <1>1, DeliveryAssumption, PairIsCopy DEF Attempts, publish
    <2>2. Earned(<<m, 1>>)
      BY <1>c DEF Earned
    <2>3. \A k \in Copies : ready'[k] > 0 => Earned(k)
      BY <1>a, <2>1, <2>2, WithPositive DEF Budget
    <2> QED
      BY <1>1, <2>3 DEF Budget, Earned, CarriedBudget, publish
  <1>2. ASSUME NEW c \in Consumers, Receive(c) PROVE Budget'
    <2>1. PICK copy \in Copies, held \in BOOLEAN : Taken(c, copy, held)
      BY <1>2, ReceiveTakes
    <2>2. /\ ready[copy] > 0 /\ ready' = Without(ready, copy)
          /\ consumer'[c].pc = "handling" /\ consumer'[c].copy = copy
          /\ \A d \in Consumers \ {c} : consumer'[d] = consumer[d]
      BY <2>1, TakeMoves DEF Taken
    <2>3. Earned(copy)
      BY <2>2 DEF Budget
    <2>4. \A k \in Copies : ready'[k] > 0 => ready[k] > 0
      BY <1>a, <2>2, WithoutType
    <2>5. \A k \in Copies : parked'[k] > 0 => parked[k] > 0 \/ k = copy
      BY <1>a, <2>1, WithType DEF Taken
    <2>6. CarriedBudget'
      BY <2>1, <2>2, <2>3 DEF Budget, CarriedBudget, Earned, Taken, Take
    <2> QED
      BY <2>1, <2>3, <2>4, <2>5, <2>6 DEF Budget, Earned, Taken, Take
  <1>3. ASSUME NEW c \in Consumers, HandlerReturns(c) PROVE Budget'
    <2>1. CarriedBudget'
      BY <1>3, ReturnMoves DEF Budget, CarriedBudget
    <2> QED
      BY <1>3, <2>1, ReturnMoves DEF Budget, Earned, queues
  <1>4. ASSUME NEW c \in Consumers, HandlerRaises(c) \/ AckRaises(c) PROVE Budget'
    <2>1. consumer[c] # Idle /\ EnterExcept(c)
      BY <1>4, Delivering DEF HandlerRaises, AckRaises
    <2>2. /\ \A m \in Messages : failures'[m] \in Nat /\ failures'[m] >= failures[m]
          /\ UNCHANGED <<spec, queues, dropped>>
      BY <2>1, ExceptMoves, DeliveryAssumption DEF MaxFailures
    <2>3. \A k \in Copies : Earned(k) => Earned(k)'
      BY <1>b, <1>c, <2>2 DEF Earned
    <2>4. spec.steps \in Nat
      BY DeliveryAssumption DEF TypeOK
    <2>5. \A m \in Messages : failures[m] > spec.steps => failures'[m] > spec.steps'
      BY <1>c, <2>2, <2>4
    <2>6. CarriedBudget'
      <3> SUFFICES ASSUME NEW d \in Consumers, consumer'[d] # Idle
                   PROVE  /\ failures'[consumer'[d].copy[1]] >= consumer'[d].copy[2] - 1
                          /\ consumer'[d].pc = "failing"
                                => failures'[consumer'[d].copy[1]] >= consumer'[d].copy[2]
        BY DEF CarriedBudget
      <3>1. CASE d = c
        <4>1. consumer[c].copy \in Copies /\ Earned(consumer[c].copy)
          BY <1>d, <2>1
        <4>2. failures'[consumer[c].copy[1]] >= consumer[c].copy[2]
          BY <1>b, <2>1, <4>1, ExceptMoves DEF Earned
        <4>3. consumer'[c].copy = consumer[c].copy
          BY <2>1, ExceptMoves
        <4> QED
          BY <1>b, <2>2, <3>1, <4>1, <4>2, <4>3
      <3>2. CASE d # c
        <4>1. consumer'[d] = consumer[d]
          BY <2>1, <3>2, ExceptMoves
        <4>2. consumer[d].copy \in Copies
          BY <4>1, Delivering
        <4>3. /\ failures[consumer[d].copy[1]] >= consumer[d].copy[2] - 1
              /\ consumer[d].pc = "failing"
                    => failures[consumer[d].copy[1]] >= consumer[d].copy[2]
          BY <4>1 DEF Budget, CarriedBudget
        <4> QED
          BY <1>b, <1>c, <2>2, <4>1, <4>2, <4>3
      <3> QED
        BY <3>1, <3>2
    <2>7. dropped \subseteq Messages
      BY DEF TypeOK
    <2> QED
      BY <1>b, <2>2, <2>3, <2>5, <2>6, <2>7 DEF Budget, queues
  <1>5. ASSUME NEW c \in Consumers, Ack(c) PROVE Budget'
    <2>1. CarriedBudget'
      BY <1>5, FreeMoves DEF Budget, CarriedBudget, Ack
    <2> QED
      BY <1>5, <2>1 DEF Budget, Earned, Ack, queues
  <1>6. ASSUME NEW c \in Consumers, Failure(c) PROVE Budget'
    <2> DEFINE k == consumer[c].copy
    <2>1. /\ k \in Copies /\ Moved(c) /\ Outcome(c)
          /\ consumer[c] # Idle /\ consumer[c].pc = "failing"
          /\ UNCHANGED <<broker, spec, parked, published, handled, failures, faults>>
      BY <1>6, FailureForms
    <2>2. failures[k[1]] >= k[2] /\ Earned(k)
      BY <1>d, <2>1 DEF Budget, CarriedBudget
    <2>3. k[2] \in Nat /\ failures[k[1]] \in Nat /\ spec.steps \in Nat
      BY <1>b, <1>c, <2>1, DeliveryAssumption DEF TypeOK
    <2>4. k[2] <= spec.steps => Next1(k) \in Copies /\ Earned(Next1(k))
      BY <2>1, <2>2, <2>3, NextAttempt DEF Earned
    <2>5. k[2] > spec.steps => failures[k[1]] > spec.steps
      BY <2>2, <2>3
    <2>6. CarriedBudget'
      BY <2>1 DEF Moved, Budget, CarriedBudget
    <2> HIDE DEF k
    <2>7. \A j \in Copies : ready'[j] > 0 => Earned(j)
      BY <1>a, <2>1, <2>4, WithPositive DEF Outcome, Budget, k
    <2>8. \A j \in Copies : delayed'[j] > 0 => Earned(j)
      BY <1>a, <2>1, <2>2, <2>4, WithPositive DEF Outcome, Budget, k
    <2>9. \A j \in Copies : dead'[j] > 0 => failures[j[1]] > spec.steps
      BY <1>a, <2>1, <2>5, WithPositive DEF Outcome, Budget, k
    <2>10. \A m \in dropped' : ~spec.dlq /\ failures[m] > spec.steps
      BY <2>1, <2>5 DEF Outcome, Budget, k
    <2> QED
      BY <2>1, <2>6, <2>7, <2>8, <2>9, <2>10 DEF Budget, Earned
  <1>7. ASSUME NEW c \in Consumers, Settle(c) PROVE Budget'
    <2>1. consumer[c] # Idle
      BY <1>7, Delivering DEF Settle
    <2>2. \A k \in Copies : parked'[k] > 0 => parked[k] > 0
      BY <1>a, <1>7, <2>1, OwnEntry, WithoutType DEF Settle
    <2>3. CarriedBudget'
      BY <1>7, FreeMoves DEF Budget, CarriedBudget, Settle
    <2> QED
      BY <1>7, <2>2, <2>3 DEF Budget, Earned, Settle
  <1>8. CASE Release
    <2>1. \A k \in Copies : delayed'[k] > 0 => Earned(k)
      BY <1>8, <1>a, WithoutType DEF Release, Budget
    <2>2. \A k \in Copies : ready'[k] > 0 => Earned(k)
      BY <1>8, <1>a, WithPositive DEF Release, Budget
    <2> QED
      BY <1>8, <2>1, <2>2 DEF Budget, Earned, CarriedBudget, Release
  <1>9. ASSUME NEW c \in Consumers, Crash(c) PROVE Budget'
    <2>1. \A k \in Copies : ready'[k] > 0 => Earned(k)
      BY <1>9, <1>a, <1>d, WithPositive DEF Crash, Budget
    <2>2. CarriedBudget'
      BY <1>9, FreeMoves DEF Budget, CarriedBudget, Crash
    <2> QED
      BY <1>9, <2>1, <2>2 DEF Budget, Earned, Crash
  <1>10. ASSUME NEW c \in Consumers, LoseClaim(c) PROVE Budget'
    <2>1. \A k \in Copies : ready'[k] > 0 => Earned(k)
      <3>1. /\ consumer[c] # Idle /\ consumer[c].copy \in Copies
            /\ ready' = With(ready, consumer[c].copy)
        BY <1>10, LoseMoves
      <3> QED
        BY <1>a, <1>d, <3>1, WithPositive DEF Budget
    <2>2. CarriedBudget'
      <3>1. UNCHANGED failures
        BY <1>10 DEF LoseClaim
      <3>2. /\ consumer[c] # Idle /\ consumer'[c].pc = consumer[c].pc
            /\ consumer'[c].copy = consumer[c].copy
            /\ \A d \in Consumers \ {c} : consumer'[d] = consumer[d]
        BY <1>10, LoseMoves
      <3> QED
        BY <3>1, <3>2 DEF Budget, CarriedBudget
    <2> QED
      BY <1>10, <2>1, <2>2 DEF Budget, Earned, LoseClaim
  <1>11. CASE UNCHANGED vars
    BY <1>11 DEF vars, queues, Budget, Earned, CarriedBudget
  <1> QED
    BY <1>1, <1>2, <1>3, <1>4, <1>5, <1>6, <1>7, <1>8, <1>9, <1>10, <1>11 DEF Next, Work

\* Nothing is in a queue, or in a consumer's hands, that was not published.
LEMMA PublishedStep == TypeOK /\ CopiesPublished /\ [Next]_vars => CopiesPublished'
  <1> SUFFICES ASSUME TypeOK, CopiesPublished, [Next]_vars PROVE CopiesPublished'
    OBVIOUS
  <1> DEFINE Queue == [Copies -> Nat]
             Sound(q) == \A k \in Copies : q[k] > 0 => k[1] \in published
             Hands == \A c \in Consumers : consumer[c] # Idle => consumer[c].copy[1] \in published
  <1>a. ready \in Queue /\ delayed \in Queue /\ dead \in Queue
    BY DEF TypeOK
  <1>b. Sound(ready) /\ Sound(delayed) /\ Sound(dead) /\ Hands
    BY DEF CopiesPublished
  <1>c. ASSUME published \subseteq published',
               \A k \in Copies : \A q \in {ready', delayed', dead'} :
                   q[k] > 0 => k[1] \in published',
               \A c \in Consumers : consumer'[c] # Idle => consumer'[c].copy[1] \in published'
        PROVE  CopiesPublished'
    BY <1>c DEF CopiesPublished
  <1>1. ASSUME NEW m \in Messages, publish(m) PROVE CopiesPublished'
    <2>1. <<m, 1>> \in Copies /\ ready' = With(ready, <<m, 1>>)
      BY <1>1, DeliveryAssumption, PairIsCopy DEF Attempts, publish
    <2>2. \A k \in Copies : ready'[k] > 0 => k[1] \in published'
      BY <1>1, <1>a, <1>b, <2>1, WithPositive DEF publish
    <2> QED
      BY <1>1, <1>b, <2>2 DEF publish, CopiesPublished
  <1>2. ASSUME NEW c \in Consumers, Receive(c) PROVE CopiesPublished'
    <2>1. PICK copy \in Copies, held \in BOOLEAN : Taken(c, copy, held)
      BY <1>2, ReceiveTakes
    <2>2. /\ ready[copy] > 0 /\ ready' = Without(ready, copy)
          /\ consumer'[c].copy = copy
          /\ \A d \in Consumers \ {c} : consumer'[d] = consumer[d]
          /\ UNCHANGED <<delayed, dead, published>>
      BY <2>1, TakeMoves DEF Taken, Take
    <2>3. \A k \in Copies : ready'[k] > 0 => ready[k] > 0
      BY <1>a, <2>2, WithoutType
    <2>4. \A d \in Consumers : consumer'[d] # Idle => consumer'[d].copy[1] \in published
      BY <1>b, <2>2
    <2> QED
      BY <1>b, <2>2, <2>3, <2>4 DEF CopiesPublished
  <1>3. ASSUME NEW c \in Consumers, HandlerReturns(c) PROVE CopiesPublished'
    BY <1>3, <1>b, ReturnMoves DEF CopiesPublished, queues
  <1>4. ASSUME NEW c \in Consumers, HandlerRaises(c) \/ AckRaises(c) PROVE CopiesPublished'
    <2>1. consumer[c] # Idle /\ EnterExcept(c)
      BY <1>4, Delivering DEF HandlerRaises, AckRaises
    <2> QED
      BY <1>b, <2>1, ExceptMoves DEF CopiesPublished, queues
  <1>5. ASSUME NEW c \in Consumers, Ack(c) \/ Settle(c) PROVE CopiesPublished'
    <2>1. Free(c) /\ UNCHANGED <<ready, delayed, dead, published>>
      BY <1>5 DEF Ack, Settle, queues
    <2> QED
      BY <1>b, <2>1, FreeMoves DEF CopiesPublished
  <1>6. ASSUME NEW c \in Consumers, Failure(c) PROVE CopiesPublished'
    <2> DEFINE k == consumer[c].copy
    <2>1. /\ k \in Copies /\ Moved(c) /\ Outcome(c) /\ consumer[c] # Idle
          /\ UNCHANGED published /\ UNCHANGED spec
      BY <1>6, FailureForms
    <2>2. k[1] \in published
      BY <1>b, <2>1
    <2>3. k[2] <= spec.steps => Next1(k) \in Copies /\ Next1(k)[1] \in published
      BY <2>1, <2>2, NextAttempt
    <2>4. \A d \in Consumers : consumer'[d] # Idle => consumer'[d].copy[1] \in published
      BY <1>b, <2>1 DEF Moved
    <2> HIDE DEF k
    <2>5. Sound(ready') /\ Sound(delayed') /\ Sound(dead')
      BY <1>a, <1>b, <2>1, <2>2, <2>3, WithPositive DEF Outcome, k
    <2> QED
      BY <2>1, <2>4, <2>5 DEF CopiesPublished
  <1>7. CASE Release
    <2>1. Sound(ready') /\ Sound(delayed')
      BY <1>7, <1>a, <1>b, WithPositive, WithoutType DEF Release
    <2> QED
      BY <1>7, <1>b, <2>1 DEF Release, CopiesPublished
  <1>8. ASSUME NEW c \in Consumers, Crash(c) PROVE CopiesPublished'
    <2>1. consumer[c].copy \in Copies /\ consumer[c].copy[1] \in published
      BY <1>8, <1>b, Delivering DEF Crash
    <2>2. Sound(ready')
      BY <1>8, <1>a, <1>b, <2>1, WithPositive DEF Crash
    <2>3. \A d \in Consumers : consumer'[d] # Idle => consumer'[d].copy[1] \in published
      BY <1>8, <1>b, FreeMoves DEF Crash
    <2> QED
      BY <1>8, <1>b, <2>2, <2>3 DEF Crash, CopiesPublished
  <1>9. ASSUME NEW c \in Consumers, LoseClaim(c) PROVE CopiesPublished'
    <2>1. /\ consumer[c] # Idle /\ consumer[c].copy \in Copies
          /\ ready' = With(ready, consumer[c].copy)
          /\ consumer'[c].copy = consumer[c].copy
          /\ \A d \in Consumers \ {c} : consumer'[d] = consumer[d]
      BY <1>9, LoseMoves
    <2>2. Sound(ready')
      BY <1>a, <1>b, <2>1, WithPositive
    <2>3. \A d \in Consumers : consumer'[d] # Idle => consumer'[d].copy[1] \in published
      BY <1>b, <2>1
    <2> QED
      BY <1>9, <1>b, <2>2, <2>3 DEF LoseClaim, CopiesPublished
  <1>10. CASE UNCHANGED vars
    BY <1>10 DEF vars, queues, CopiesPublished
  <1> QED
    BY <1>1, <1>2, <1>3, <1>4, <1>5, <1>6, <1>7, <1>8, <1>9, <1>10 DEF Next, Work

\* An acknowledgement is only sent for a message whose handler returned.
LEMMA AckedStep == TypeOK /\ AckedWasHandled /\ [Next]_vars => AckedWasHandled'
  <1> SUFFICES ASSUME TypeOK, AckedWasHandled, [Next]_vars PROVE AckedWasHandled'
    OBVIOUS
  <1> DEFINE Kept(c) == \A d \in Consumers \ {c} : consumer'[d] = consumer[d]
  <1>a. ASSUME NEW c \in Consumers, handled \subseteq handled', Kept(c),
               consumer'[c].pc = "acking" => consumer'[c].copy[1] \in handled'
        PROVE  AckedWasHandled'
    BY <1>a DEF AckedWasHandled
  <1>b. UNCHANGED <<consumer, handled>> => AckedWasHandled'
    BY DEF AckedWasHandled
  <1>1. ASSUME NEW m \in Messages, publish(m) PROVE AckedWasHandled'
    BY <1>1, <1>b DEF publish
  <1>2. ASSUME NEW c \in Consumers, Receive(c) PROVE AckedWasHandled'
    <2>1. PICK copy \in Copies, held \in BOOLEAN : Taken(c, copy, held)
      BY <1>2, ReceiveTakes
    <2>2. consumer'[c].pc = "handling" /\ Kept(c) /\ UNCHANGED handled
      BY <2>1, TakeMoves DEF Taken, Take
    <2> QED
      BY <1>a, <2>2
  <1>3. ASSUME NEW c \in Consumers, HandlerReturns(c) PROVE AckedWasHandled'
    <2>1. Kept(c) /\ handled' = handled \cup {consumer[c].copy[1]}
      BY <1>3, ReturnMoves
    <2>2. consumer'[c] = Idle \/ consumer'[c].copy = consumer[c].copy
      BY <1>3, ReturnMoves
    <2> QED
      BY <1>a, <2>1, <2>2 DEF Idle
  <1>4. ASSUME NEW c \in Consumers, HandlerRaises(c) \/ AckRaises(c) PROVE AckedWasHandled'
    <2>1. consumer[c] # Idle /\ EnterExcept(c)
      BY <1>4, Delivering DEF HandlerRaises, AckRaises
    <2>2. consumer'[c].pc = "failing" /\ Kept(c) /\ UNCHANGED handled
      BY <2>1, ExceptMoves
    <2> QED
      BY <1>a, <2>2
  <1>5. ASSUME NEW c \in Consumers, Ack(c) \/ Settle(c) \/ Crash(c) PROVE AckedWasHandled'
    <2>1. Free(c) /\ UNCHANGED handled
      BY <1>5 DEF Ack, Settle, Crash
    <2>2. consumer'[c] = Idle /\ Kept(c)
      BY <2>1, FreeMoves
    <2> QED
      BY <1>a, <2>1, <2>2 DEF Idle
  <1>6. ASSUME NEW c \in Consumers, Failure(c) PROVE AckedWasHandled'
    <2>1. Moved(c) /\ UNCHANGED handled
      BY <1>6, FailureForms
    <2> QED
      BY <1>a, <2>1 DEF Moved, Idle
  <1>7. ASSUME NEW c \in Consumers, LoseClaim(c) PROVE AckedWasHandled'
    <2>1. /\ Kept(c) /\ UNCHANGED handled
          /\ consumer'[c].pc = consumer[c].pc /\ consumer'[c].copy = consumer[c].copy
      BY <1>7, LoseMoves DEF LoseClaim
    <2> QED
      BY <1>a, <2>1 DEF AckedWasHandled
  <1>8. CASE Release \/ UNCHANGED vars
    BY <1>8, <1>b DEF Release, vars
  <1> QED
    BY <1>1, <1>2, <1>3, <1>4, <1>5, <1>6, <1>7, <1>8 DEF Next, Work

-----------------------------------------------------------------------------
(* No message is lost. *)

\* A Redis entry that no settling consumer is about to remove, and a claim of a
\* consumer that has not decided yet: what keeps a message that is in no queue.
Spare(m) == \E k \in Copies : k[1] = m /\ parked[k] > Cardinality(Settling(k))
Holder(c, m) == c \in Carrying(m) /\ (consumer[c].held \/ broker = "memory")
Safe(m) ==
    \/ m \in handled
    \/ In(ready, m) \/ In(delayed, m) \/ In(dead, m)
    \/ Spare(m)
    \/ \E c \in Consumers : Holder(c, m)
    \/ m \in dropped /\ ~spec.dlq

LEMMA SecuredForm == Secured <=> \A m \in published : Safe(m)
  BY DEF Secured, Safe, Spare, Holder

\* A copy put into a queue is in it, and one taken out is no other message's.
LEMMA InWith ==
    ASSUME NEW q \in [Copies -> Nat], NEW k \in Copies
    PROVE  /\ In(With(q, k), k[1])
           /\ \A m \in Messages : In(q, m) => In(With(q, k), m)
  <1>1. With(q, k) \in [Copies -> Nat] /\ With(q, k)[k] > 0
    BY WithType
  <1>2. k[2] \in Attempts /\ k = <<k[1], k[2]>>
    BY CopyParts
  <1>3. In(With(q, k), k[1])
    BY <1>1, <1>2 DEF In
  <1>4. ASSUME NEW m \in Messages, In(q, m) PROVE In(With(q, k), m)
    <2>1. PICK a \in Attempts : q[<<m, a>>] > 0
      BY <1>4 DEF In
    <2>2. CASE <<m, a>> = k
      BY <1>1, <2>2 DEF In
    <2>3. CASE <<m, a>> # k
      <3>1. With(q, k)[<<m, a>>] = q[<<m, a>>]
        BY <2>3, PairIsCopy, WithType
      <3> QED
        BY <2>1, <3>1 DEF In
    <2> QED
      BY <2>2, <2>3
  <1> QED
    BY <1>3, <1>4

LEMMA InWithout ==
    ASSUME NEW q \in [Copies -> Nat], NEW k \in Copies, NEW m \in Messages,
           m # k[1], In(q, m)
    PROVE  In(Without(q, k), m)
  <1>1. PICK a \in Attempts : q[<<m, a>>] > 0
    BY DEF In
  <1>2. <<m, a>> # k /\ <<m, a>> \in Copies
    BY PairIsCopy
  <1> QED
    BY <1>1, <1>2 DEF In, Without

\* A step of c that takes nothing from m keeps m safe.
LEMMA SafeKept ==
    ASSUME NEW c \in Consumers, NEW m \in Messages, Safe(m),
           \A d \in Consumers \ {c} : consumer'[d] = consumer[d],
           handled \subseteq handled', dropped \subseteq dropped', UNCHANGED <<broker, spec>>,
           In(ready, m) => In(ready, m)', In(delayed, m) => In(delayed, m)',
           In(dead, m) => In(dead, m)',
           Spare(m) => Spare(m)',
           Holder(c, m) => Holder(c, m)'
    PROVE  Safe(m)'
  <1>1. \A d \in Consumers : Holder(d, m) => Holder(d, m)'
    BY DEF Holder, Carrying, Carries, Undecided
  <1> QED
    BY <1>1 DEF Safe

\* An entry stays spare unless c starts to settle the copy, or takes the entry away.
LEMMA SpareKept ==
    ASSUME TypeOK, NEW c \in Consumers, NEW m \in Messages, Spare(m),
           \A d \in Consumers \ {c} : consumer'[d] = consumer[d],
           parked' \in [Copies -> Nat],
           \A k \in Copies : k[1] = m => parked'[k] >= parked[k],
           \A k \in Copies : k[1] = m /\ consumer'[c].copy = k /\ consumer'[c].pc = "settling"
                               => consumer[c].copy = k /\ consumer[c].pc = "settling"
    PROVE  Spare(m)'
  <1>1. PICK k \in Copies : k[1] = m /\ parked[k] > Cardinality(Settling(k))
    BY DEF Spare
  <1>2. /\ Cardinality(Settling(k)) \in Nat /\ Cardinality(Settling(k)') \in Nat
        /\ Cardinality(Settling(k)') <= Cardinality(Settling(k))
    BY <1>1, SettlingChange
  <1>3. parked[k] \in Nat /\ parked'[k] \in Nat /\ parked'[k] >= parked[k]
    BY <1>1 DEF TypeOK
  <1>4. parked'[k] > Cardinality(Settling(k)')
    BY <1>1, <1>2, <1>3
  <1> QED
    BY <1>1, <1>4 DEF Spare

LEMMA SecuredStep ==
    TypeOK /\ ClaimsParked /\ AckedWasHandled /\ CopiesPublished /\ Secured /\ [Next]_vars
        => Secured'
  <1> SUFFICES ASSUME TypeOK, ClaimsParked, AckedWasHandled, [Next]_vars, TypeOK',
                      \A m \in published : Safe(m), NEW m \in published'
               PROVE  Safe(m)'
    BY TypeStep DEF Secured, Safe, Spare, Holder
  <1> DEFINE Queue == [Copies -> Nat]
             Kept(c) == \A d \in Consumers \ {c} : consumer'[d] = consumer[d]
  <1>a. ready \in Queue /\ delayed \in Queue /\ dead \in Queue /\ parked \in Queue
    BY DEF TypeOK
  <1>b. m \in Messages /\ parked' \in Queue
    BY DEF TypeOK
  <1>c. UNCHANGED consumer /\ UNCHANGED parked => (Spare(m) => Spare(m)')
    BY DEF Spare, Settling, Carriers
  <1>d. \A c \in Consumers : UNCHANGED <<consumer, broker>> => (Holder(c, m) => Holder(c, m)')
    BY DEF Holder, Carrying, Carries, Undecided
  <1>1. ASSUME NEW n \in Messages, publish(n) PROVE Safe(m)'
    <2>1. <<n, 1>> \in Copies /\ <<n, 1>>[1] = n
      BY DeliveryAssumption, PairIsCopy DEF Attempts
    <2>2. In(ready', n) /\ (In(ready, m) => In(ready', m))
      BY <1>1, <1>a, <1>b, <2>1, InWith DEF publish
    <2>3. CASE m = n
      BY <2>2, <2>3 DEF Safe, In
    <2>4. CASE m # n
      <3>1. Safe(m)
        BY <1>1, <2>4 DEF publish
      <3> QED
        BY <1>1, <1>c, <1>d, <2>2, <3>1 DEF publish, Safe, In
    <2> QED
      BY <2>3, <2>4
  <1>2. ASSUME NEW c \in Consumers, Receive(c) PROVE Safe(m)'
    <2>1. PICK k \in Copies, held \in BOOLEAN : Taken(c, k, held)
      BY <1>2, ReceiveTakes
    <2>2. /\ consumer[c] = Idle /\ ready[k] > 0 /\ ready' = Without(ready, k)
          /\ consumer'[c] # Idle /\ consumer'[c].pc = "handling"
          /\ consumer'[c].copy = k /\ consumer'[c].held = held /\ Kept(c)
      BY <2>1, TakeMoves DEF Taken
    <2>3. /\ UNCHANGED <<broker, spec, delayed, dead, published, handled, dropped>>
          /\ Safe(m)
      BY <2>1 DEF Taken, Take
    <2>4. CASE m = k[1] /\ broker = "redis"
      <3>1. parked' = With(parked, k)
        BY <2>1, <2>4 DEF Taken
      <3>2. Cardinality(Carriers(k)) <= parked[k] /\ parked[k] \in Nat
        BY <1>a, <2>4 DEF ClaimsParked
      <3>3. Cardinality(Settling(k)) <= Cardinality(Carriers(k))
        <4>1. IsFiniteSet(Carriers(k))
          BY FS_Subset, DeliveryAssumption DEF Carriers
        <4> QED
          BY <4>1, FS_Subset DEF Settling
      <3>4. /\ Cardinality(Settling(k)') = Cardinality(Settling(k))
            /\ Cardinality(Settling(k)) \in Nat
        BY <2>2, SettlingChange DEF Idle
      <3>5. Cardinality(Carriers(k)) \in Nat
        BY <2>2, CarriersChange
      <3>6. parked'[k] > Cardinality(Settling(k)')
        BY <1>a, <3>1, <3>2, <3>3, <3>4, <3>5, WithType
      <3> QED
        BY <2>4, <3>6 DEF Safe, Spare
    <2>5. CASE m = k[1] /\ broker # "redis"
      <3>1. held = TRUE \/ broker' = "memory"
        BY <2>1, <2>3, <2>5 DEF Taken
      <3>2. Holder(c, m)'
        BY <2>2, <2>5, <3>1 DEF Holder, Carrying, Carries, Undecided
      <3> QED
        BY <3>2 DEF Safe
    <2>6. CASE m # k[1]
      <3>1. In(ready, m) => In(ready, m)'
        BY <1>a, <1>b, <2>2, <2>6, InWithout DEF In
      <3>2. \A j \in Copies : j[1] = m => parked'[j] >= parked[j]
        BY <1>a, <2>1, <2>6, WithType DEF Taken
      <3>3. Spare(m) => Spare(m)'
        BY <1>b, <2>2, <3>2, SpareKept
      <3>4. ~Holder(c, m)
        BY <2>2 DEF Holder, Carrying, Carries
      <3> QED
        BY <1>b, <2>2, <2>3, <3>1, <3>3, <3>4, SafeKept DEF In
    <2> QED
      BY <2>4, <2>5, <2>6
  \* A step of c on another message.
  <1>e. ASSUME NEW c \in Consumers, Kept(c), parked' = parked, Safe(m),
               consumer[c] # Idle, consumer[c].copy \in Copies, m # consumer[c].copy[1],
               consumer'[c] = Idle \/ consumer'[c].copy = consumer[c].copy,
               handled \subseteq handled', dropped \subseteq dropped', UNCHANGED <<broker, spec>>,
               In(ready, m) => In(ready, m)', In(delayed, m) => In(delayed, m)',
               In(dead, m) => In(dead, m)'
        PROVE  Safe(m)'
    <2>1. Spare(m) => Spare(m)'
      <3>1. \A k \in Copies : k[1] = m => parked'[k] >= parked[k]
        BY <1>a, <1>e
      <3>2. \A k \in Copies : k[1] = m => consumer'[c].copy # k \/ consumer'[c].pc # "settling"
        BY <1>e DEF Idle
      <3> QED
        BY <1>b, <1>e, <3>1, <3>2, SpareKept
    <2>2. ~Holder(c, m)
      BY <1>e DEF Holder, Carrying, Carries
    <2> QED
      BY <1>b, <1>e, <2>1, <2>2, SafeKept
  <1>3. ASSUME NEW c \in Consumers, HandlerReturns(c) PROVE Safe(m)'
    <2>1. CASE m = consumer[c].copy[1]
      BY <1>3, <2>1, ReturnMoves DEF Safe
    <2>2. CASE m # consumer[c].copy[1]
      <3>1. /\ Kept(c) /\ consumer[c] # Idle /\ consumer[c].copy \in Copies
            /\ consumer'[c] = Idle \/ consumer'[c].copy = consumer[c].copy
            /\ handled \subseteq handled'
            /\ UNCHANGED <<broker, spec, queues, published, dropped, failures, faults>>
        BY <1>3, ReturnMoves
      <3> QED
        BY <1>e, <2>2, <3>1 DEF queues, In
    <2> QED
      BY <2>1, <2>2
  <1>4. ASSUME NEW c \in Consumers, HandlerRaises(c) \/ AckRaises(c) PROVE Safe(m)'
    <2>1. /\ consumer[c] # Idle /\ EnterExcept(c) /\ Undecided(c)
      BY <1>4, Delivering DEF HandlerRaises, AckRaises, Undecided
    <2>2. /\ Kept(c) /\ consumer'[c] # Idle /\ consumer'[c].pc = "failing"
          /\ consumer'[c].copy = consumer[c].copy
          /\ consumer'[c].held = consumer[c].held
          /\ UNCHANGED <<broker, spec, queues, published, handled, dropped>>
      BY <2>1, ExceptMoves
    <2>3. Spare(m) => Spare(m)'
      <3>1. \A k \in Copies : k[1] = m => parked'[k] >= parked[k]
        BY <1>a, <2>2 DEF queues
      <3> QED
        BY <1>b, <2>2, <3>1, SpareKept
    <2>4. Holder(c, m) => Holder(c, m)'
      BY <2>1, <2>2 DEF Holder, Carrying, Carries, Undecided
    <2> QED
      BY <1>b, <2>2, <2>3, <2>4, SafeKept DEF queues, In
  <1>5. ASSUME NEW c \in Consumers, Ack(c) PROVE Safe(m)'
    <2>1. consumer[c] # Idle /\ consumer[c].copy \in Copies
      BY <1>5, Delivering DEF Ack
    <2>2. CASE m = consumer[c].copy[1]
      BY <1>5, <2>2 DEF Ack, AckedWasHandled, Safe
    <2>3. CASE m # consumer[c].copy[1]
      <3>1. Kept(c) /\ consumer'[c] = Idle
        BY <1>5, FreeMoves DEF Ack
      <3> QED
        BY <1>5, <1>e, <2>1, <2>3, <3>1 DEF Ack, queues, In
    <2> QED
      BY <2>2, <2>3
  <1>6. ASSUME NEW c \in Consumers, Failure(c) PROVE Safe(m)'
    <2> DEFINE k == consumer[c].copy
    <2>1. /\ k \in Copies /\ Moved(c) /\ Outcome(c)
          /\ consumer[c] # Idle /\ consumer[c].pc = "failing"
          /\ UNCHANGED <<broker, spec, parked, published, handled, failures, faults>>
      BY <1>6, FailureForms
    <2>2. k[2] <= spec.steps => Next1(k) \in Copies /\ Next1(k)[1] = k[1]
      BY <2>1, NextAttempt
    <2>3. /\ In(ready, m) => In(ready, m)'
          /\ In(delayed, m) => In(delayed, m)'
          /\ In(dead, m) => In(dead, m)'
      <3>1. In(ready, m) => In(ready', m)
        BY <1>a, <1>b, <2>1, <2>2, InWith DEF Outcome
      <3>2. In(delayed, m) => In(delayed', m)
        BY <1>a, <1>b, <2>1, <2>2, InWith DEF Outcome
      <3>3. In(dead, m) => In(dead', m)
        BY <1>a, <1>b, <2>1, InWith DEF Outcome
      <3> QED
        BY <3>1, <3>2, <3>3 DEF In
    <2>4. dropped \subseteq dropped' /\ Safe(m)
      BY <2>1 DEF Outcome
    <2>5. CASE m # k[1]
      BY <1>e, <2>1, <2>3, <2>4, <2>5 DEF Moved
    <2>6. CASE /\ m = k[1]
               /\ In(ready, m)' \/ In(delayed, m)' \/ In(dead, m)' \/ (m \in dropped' /\ ~spec.dlq)
      BY <2>1, <2>6 DEF Safe
    <2>7. \/ In(ready', k[1]) \/ In(delayed', k[1]) \/ In(dead', k[1])
          \/ k[1] \in dropped' /\ ~spec.dlq
          \/ /\ ~consumer[c].held /\ broker \in {"rabbitmq", "sqs"} /\ consumer'[c] = Idle
             /\ UNCHANGED <<ready, delayed, dead, dropped>>
      BY <1>a, <2>1, <2>2, InWith DEF Outcome
    <2>8. CASE /\ m = k[1]
               /\ ~consumer[c].held /\ broker \in {"rabbitmq", "sqs"} /\ consumer'[c] = Idle
      <3>1. ~Holder(c, m)
        BY <2>8 DEF Holder
      <3>2. \A j \in Copies : j[1] = m => parked'[j] >= parked[j]
        BY <1>a, <2>1
      <3>3. Kept(c) /\ consumer'[c].pc # "settling"
        BY <2>1, <2>8 DEF Moved, Idle
      <3>4. Spare(m) => Spare(m)'
        BY <1>b, <3>2, <3>3, SpareKept
      <3> QED
        BY <1>b, <2>1, <2>3, <2>4, <3>1, <3>3, <3>4, SafeKept
    <2> QED
      BY <2>5, <2>6, <2>7, <2>8 DEF In
  <1>7. ASSUME NEW c \in Consumers, Settle(c) PROVE Safe(m)'
    <2> DEFINE k == consumer[c].copy
    <2>1. /\ consumer[c] # Idle /\ consumer[c].pc = "settling" /\ k \in Copies
          /\ k # NoCopy
      BY <1>7, Delivering DEF Settle
    <2>2. Kept(c) /\ consumer'[c] = Idle
      BY <1>7, FreeMoves DEF Settle
    <2>3. UNCHANGED <<broker, spec, ready, delayed, dead, published, handled, dropped>>
      BY <1>7 DEF Settle
    <2>4. Spare(m) => Spare(m)'
      <3> SUFFICES ASSUME NEW j \in Copies, j[1] = m, parked[j] > Cardinality(Settling(j))
                   PROVE  parked'[j] > Cardinality(Settling(j)')
        BY DEF Spare
      <3>1. /\ Cardinality(Settling(j)) \in Nat
            /\ j = k => Cardinality(Settling(j)') = Cardinality(Settling(j)) - 1
            /\ j # k => Cardinality(Settling(j)') = Cardinality(Settling(j))
        BY <2>1, <2>2, SettlingChange DEF Idle
      <3>2. /\ parked[j] \in Nat
            /\ j = k => parked'[j] = parked[j] \/ parked'[j] = parked[j] - 1
            /\ j # k => parked'[j] = parked[j]
        BY <1>7, <1>a, <2>1, OwnEntry, WithoutType DEF Settle
      <3> QED
        BY <3>1, <3>2
    <2>5. ~Holder(c, m)
      BY <2>1 DEF Holder, Carrying, Undecided
    <2> QED
      BY <1>b, <2>2, <2>3, <2>4, <2>5, SafeKept DEF In
  <1>8. CASE Release
    <2>1. PICK k \in Copies : /\ delayed[k] > 0 /\ delayed' = Without(delayed, k)
                              /\ ready' = With(ready, k)
      BY <1>8 DEF Release
    <2>2. /\ UNCHANGED <<broker, spec, dead, parked, consumer, published, handled, dropped>>
          /\ Safe(m)
      BY <1>8 DEF Release
    <2>3. CASE m = k[1]
      BY <1>a, <2>1, <2>3, InWith DEF Safe, In
    <2>4. CASE m # k[1]
      <3>1. (In(ready, m) => In(ready', m)) /\ (In(delayed, m) => In(delayed', m))
        BY <1>a, <1>b, <2>1, <2>4, InWith, InWithout
      <3> QED
        BY <1>c, <1>d, <2>2, <3>1 DEF Safe, In
    <2> QED
      BY <2>3, <2>4
  <1>9. ASSUME NEW c \in Consumers, Crash(c) PROVE Safe(m)'
    <2> DEFINE k == consumer[c].copy
    <2>1. k \in Copies /\ consumer[c] # Idle /\ Kept(c) /\ consumer'[c] = Idle
      BY <1>9, Delivering, FreeMoves DEF Crash
    <2>2. /\ UNCHANGED <<broker, spec, delayed, dead, parked, published, handled, dropped>>
          /\ Safe(m) /\ broker # "memory"
      BY <1>9 DEF Crash
    <2>3. CASE consumer[c].held
      <3>1. In(ready', k[1]) /\ (In(ready, m) => In(ready', m))
        BY <1>9, <1>a, <1>b, <2>1, <2>3, InWith DEF Crash
      <3>2. CASE m = k[1]
        BY <3>1, <3>2 DEF Safe, In
      <3>3. CASE m # k[1]
        BY <1>e, <2>1, <2>2, <3>1, <3>3 DEF In
      <3> QED
        BY <3>2, <3>3
    <2>4. CASE ~consumer[c].held
      <3>1. ready' = ready /\ ~Holder(c, m)
        BY <1>9, <2>2, <2>4 DEF Crash, Holder
      <3>2. \A j \in Copies : j[1] = m => parked'[j] >= parked[j]
        BY <1>a, <2>2
      <3>3. Spare(m) => Spare(m)'
        BY <1>b, <2>1, <3>2, SpareKept DEF Idle
      <3> QED
        BY <1>b, <2>1, <2>2, <3>1, <3>3, SafeKept DEF In
    <2> QED
      BY <2>3, <2>4
  <1>10. ASSUME NEW c \in Consumers, LoseClaim(c) PROVE Safe(m)'
    <2> DEFINE k == consumer[c].copy
    <2>1. /\ k \in Copies /\ consumer[c] # Idle /\ Kept(c)
          /\ consumer'[c].copy = k /\ ready' = With(ready, k)
      BY <1>10, LoseMoves
    <2>2. /\ UNCHANGED <<broker, spec, delayed, dead, parked, published, handled, dropped>>
          /\ Safe(m)
      BY <1>10 DEF LoseClaim
    <2>3. In(ready', k[1]) /\ (In(ready, m) => In(ready', m))
      BY <1>a, <1>b, <2>1, InWith
    <2>4. CASE m = k[1]
      BY <2>3, <2>4 DEF Safe, In
    <2>5. CASE m # k[1]
      BY <1>e, <2>1, <2>2, <2>3, <2>5 DEF In
    <2> QED
      BY <2>4, <2>5
  <1>11. CASE UNCHANGED vars
    <2>1. Safe(m)
      BY <1>11 DEF vars
    <2> QED
      BY <1>11, <1>c, <1>d, <2>1 DEF vars, queues, Safe, In
  <1> QED
    BY <1>1, <1>2, <1>3, <1>4, <1>5, <1>6, <1>7, <1>8, <1>9, <1>10, <1>11 DEF Next, Work

-----------------------------------------------------------------------------
(* A message multiplies only by faults. *)

\* Nothing of a message that was not published is anywhere.
LEMMA NoneOf ==
    ASSUME NEW q \in [Copies -> Nat], NEW m \in Messages, \A a \in Attempts : q[<<m, a>>] = 0
    PROVE  CopiesOf(q, m) = 0
  <1>1. CopiesIn(q, m) = {}
    <2> SUFFICES ASSUME NEW t \in CopiesIn(q, m) PROVE FALSE
      OBVIOUS
    <2>1. PICK a \in Attempts, i \in Nat : 1 <= i /\ i <= q[<<m, a>>] /\ t = <<a, i>>
      BY CopiesInParts
    <2> QED
      BY <2>1
  <1> QED
    BY <1>1, FS_EmptySet DEF CopiesOf

LEMMA Slack ==
    ASSUME NEW n \in Nat, NEW n1 \in Nat, n1 <= n,
           NEW f \in Nat, NEW f1 \in Nat, f1 >= f, n <= 1 + f
    PROVE  n1 <= 1 + f1
  OBVIOUS

LEMMA BoundStep ==
    TypeOK /\ ClaimsParked /\ CopiesPublished /\ CopiesBounded /\ [Next]_vars => CopiesBounded'
  <1> SUFFICES ASSUME TypeOK, CopiesPublished, CopiesBounded, [Next]_vars, TypeOK',
                      NEW m \in Messages
               PROVE  CopiesOf(ready', m) + CopiesOf(delayed', m) + CopiesOf(dead', m)
                        + Cardinality(Carrying(m)') <= 1 + faults'
    BY TypeStep DEF CopiesBounded, CopiesOf, CopiesIn
  <1> DEFINE Queue == [Copies -> Nat]
             Kept(c) == \A d \in Consumers \ {c} : consumer'[d] = consumer[d]
             R == CopiesOf(ready, m)    R1 == CopiesOf(ready', m)
             D == CopiesOf(delayed, m)  D1 == CopiesOf(delayed', m)
             X == CopiesOf(dead, m)     X1 == CopiesOf(dead', m)
             U == Cardinality(Carrying(m))
             U1 == Cardinality(Carrying(m)')
             One(k) == IF k[1] = m THEN 1 ELSE 0
             \* The copy in the hands of c, while c has not decided.
             Mine(c) == IF Carries(c, m) /\ Undecided(c) THEN 1 ELSE 0
             Mine1(c) == IF (Carries(c, m) /\ Undecided(c))' THEN 1 ELSE 0
  <1>a. ready \in Queue /\ delayed \in Queue /\ dead \in Queue
    BY DEF TypeOK
  <1>b. ready' \in Queue /\ delayed' \in Queue /\ dead' \in Queue
    BY DEF TypeOK
  <1>c. R \in Nat /\ D \in Nat /\ X \in Nat /\ R1 \in Nat /\ D1 \in Nat /\ X1 \in Nat
    BY <1>a, <1>b, CopiesFinite
  <1>d. /\ U \in Nat
        /\ R + D + X + U <= 1 + faults
    <2>1. IsFiniteSet(Carrying(m))
      BY FS_Subset, DeliveryAssumption DEF Carrying
    <2> QED
      BY <2>1, FS_CardinalityType DEF CopiesBounded
  <1>e. faults \in Nat /\ faults' \in Nat
    BY DeliveryAssumption DEF TypeOK
  <1>f. ASSUME NEW c \in Consumers, Kept(c)
        PROVE  U1 \in Nat /\ U1 = U + Mine1(c) - Mine(c)
    BY <1>f, CarryingChange
  <1>g. UNCHANGED consumer => U1 = U
    BY DEF Carrying, Carries, Undecided
  <1> HIDE DEF R, R1, D, D1, X, X1, U, U1
  <1>1. ASSUME NEW n \in Messages, publish(n)
        PROVE  R1 + D1 + X1 + U1 <= 1 + faults'
    <2>1. <<n, 1>> \in Copies /\ <<n, 1>>[1] = n
      BY DeliveryAssumption, PairIsCopy DEF Attempts
    <2>2. R1 = R + One(<<n, 1>>)
      BY <1>1, <1>a, <2>1, CopiesWith DEF publish, R, R1
    <2>3. D1 = D /\ X1 = X /\ U1 = U /\ faults' = faults
      BY <1>1, <1>g DEF publish, D, D1, X, X1
    <2>4. CASE n = m
      <3>1. m \notin published
        BY <1>1, <2>4 DEF publish
      <3>2. \A a \in Attempts : <<m, a>> \in Copies /\ <<m, a>>[1] = m
        BY PairIsCopy
      <3>3. \A a \in Attempts : \A q \in {ready, delayed, dead} :
                q[<<m, a>>] \in Nat /\ ~(q[<<m, a>>] > 0)
        BY <1>a, <3>1, <3>2 DEF CopiesPublished
      <3>4. R = 0 /\ D = 0 /\ X = 0
        BY <1>a, <3>3, NoneOf DEF R, D, X
      <3>5. Carrying(m) = {}
        BY <3>1 DEF CopiesPublished, Carrying, Carries
      <3>6. U = 0
        BY <3>5, FS_EmptySet DEF U
      <3> QED
        BY <1>e, <2>1, <2>2, <2>3, <2>4, <3>4, <3>6
    <2>5. CASE n # m
      BY <1>c, <1>d, <1>e, <2>1, <2>2, <2>3, <2>5
    <2> QED
      BY <2>4, <2>5
  <1>2. ASSUME NEW c \in Consumers, Receive(c) PROVE R1 + D1 + X1 + U1 <= 1 + faults'
    <2>1. PICK k \in Copies, held \in BOOLEAN : Taken(c, k, held)
      BY <1>2, ReceiveTakes
    <2>2. /\ consumer[c] = Idle /\ ready[k] > 0 /\ ready' = Without(ready, k)
          /\ consumer'[c].pc = "handling" /\ consumer'[c] # Idle
          /\ consumer'[c].copy = k /\ Kept(c)
      BY <2>1, TakeMoves DEF Taken
    <2>3. R = R1 + One(k)
      BY <1>a, <2>2, CopiesWithout DEF R, R1
    <2>4. D1 = D /\ X1 = X /\ faults' = faults
      BY <2>1 DEF Taken, Take, D, D1, X, X1
    <2>5. Mine(c) = 0 /\ Mine1(c) = One(k)
      BY <2>2 DEF Carries, Undecided
    <2> QED
      BY <1>c, <1>d, <1>e, <1>f, <2>2, <2>3, <2>4, <2>5
  \* A step of c that touches no queue, and takes nothing new into its hands.
  <1>h. ASSUME NEW c \in Consumers, Kept(c), Mine1(c) <= Mine(c),
               UNCHANGED <<ready, delayed, dead>>, faults' >= faults
        PROVE  R1 + D1 + X1 + U1 <= 1 + faults'
    <2>1. R1 = R /\ D1 = D /\ X1 = X
      BY <1>h DEF R, R1, D, D1, X, X1
    <2>2. U1 \in Nat /\ U1 <= U
      BY <1>d, <1>f, <1>h
    <2>3. faults' >= faults
      BY <1>h
    <2>4. R1 + D1 + X1 + U1 <= R + D + X + U
      BY <1>c, <1>d, <2>1, <2>2
    <2>5. R1 + D1 + X1 + U1 \in Nat /\ R + D + X + U \in Nat
      BY <1>c, <1>d, <2>2
    <2> QED
      BY <1>d, <1>e, <2>3, <2>4, <2>5, Slack
  <1>3. ASSUME NEW c \in Consumers, HandlerReturns(c) PROVE R1 + D1 + X1 + U1 <= 1 + faults'
    <2>1. /\ Kept(c) /\ consumer[c].pc = "handling" /\ consumer[c] # Idle
          /\ consumer'[c] = Idle \/ consumer'[c].copy = consumer[c].copy
          /\ UNCHANGED <<ready, delayed, dead, faults>>
      BY <1>3, ReturnMoves DEF queues
    <2>2. Mine1(c) <= Mine(c)
      BY <2>1 DEF Carries, Undecided
    <2> QED
      BY <1>e, <1>h, <2>1, <2>2
  <1>4. ASSUME NEW c \in Consumers, HandlerRaises(c) \/ AckRaises(c)
        PROVE  R1 + D1 + X1 + U1 <= 1 + faults'
    <2>1. /\ consumer[c] # Idle /\ EnterExcept(c) /\ Undecided(c)
      BY <1>4, Delivering DEF HandlerRaises, AckRaises, Undecided
    <2>2. /\ Kept(c) /\ consumer'[c].copy = consumer[c].copy
          /\ UNCHANGED <<ready, delayed, dead>>
      BY <2>1, ExceptMoves DEF queues
    <2>3. Mine1(c) <= Mine(c)
      BY <2>1, <2>2 DEF Carries, Undecided
    <2>4. faults' >= faults
      BY <1>4, <1>e DEF HandlerRaises, AckRaises
    <2> QED
      BY <1>h, <2>2, <2>3, <2>4
  <1>5. ASSUME NEW c \in Consumers, Ack(c) \/ Settle(c) PROVE R1 + D1 + X1 + U1 <= 1 + faults'
    <2>1. Free(c) /\ UNCHANGED <<ready, delayed, dead, faults>>
      BY <1>5 DEF Ack, Settle, queues
    <2>2. Kept(c) /\ consumer'[c] = Idle
      BY <2>1, FreeMoves
    <2>3. Mine1(c) <= Mine(c)
      BY <2>2 DEF Carries
    <2> QED
      BY <1>e, <1>h, <2>1, <2>2, <2>3
  <1>6. ASSUME NEW c \in Consumers, Failure(c) PROVE R1 + D1 + X1 + U1 <= 1 + faults'
    <2> DEFINE k == consumer[c].copy
    <2>1. /\ k \in Copies /\ Moved(c) /\ Outcome(c)
          /\ consumer[c] # Idle /\ consumer[c].pc = "failing"
          /\ UNCHANGED <<broker, spec, parked, published, handled, failures, faults>>
      BY <1>6, FailureForms
    <2>2. k[2] <= spec.steps => Next1(k) \in Copies /\ Next1(k)[1] = k[1]
      BY <2>1, NextAttempt
    <2>3. Mine(c) = One(k) /\ Mine1(c) = 0
      BY <2>1 DEF Moved, Carries, Undecided
    <2>4. Kept(c)
      BY <2>1 DEF Moved
    <2> HIDE DEF k
    \* One queue takes the copy, or none.
    <2>5. \/ R1 = R + One(k) /\ D1 = D /\ X1 = X
          \/ R1 = R /\ D1 = D + One(k) /\ X1 = X
          \/ R1 = R /\ D1 = D /\ X1 = X + One(k)
          \/ R1 = R /\ D1 = D /\ X1 = X
      <3>1. CASE /\ k[2] <= spec.steps
                 /\ ready' = With(ready, Next1(k)) /\ UNCHANGED <<delayed, dead>>
        BY <1>a, <2>2, <3>1, CopiesWith DEF R, R1, D, D1, X, X1
      <3>2. CASE /\ k[2] <= spec.steps
                 /\ delayed' = With(delayed, Next1(k)) /\ UNCHANGED <<ready, dead>>
        BY <1>a, <2>2, <3>2, CopiesWith DEF R, R1, D, D1, X, X1
      <3>3. CASE dead' = With(dead, k) /\ UNCHANGED <<ready, delayed>>
        BY <1>a, <2>1, <3>3, CopiesWith DEF R, R1, D, D1, X, X1
      <3>4. CASE delayed' = With(delayed, k) /\ UNCHANGED <<ready, dead>>
        BY <1>a, <2>1, <3>4, CopiesWith DEF R, R1, D, D1, X, X1
      <3>5. CASE UNCHANGED <<ready, delayed, dead>>
        BY <3>5 DEF R, R1, D, D1, X, X1
      <3> QED
        BY <2>1, <3>1, <3>2, <3>3, <3>4, <3>5 DEF Outcome, k
    <2> QED
      BY <1>c, <1>d, <1>e, <1>f, <2>1, <2>3, <2>4, <2>5
  <1>7. CASE Release
    <2>1. PICK k \in Copies : /\ delayed[k] > 0 /\ delayed' = Without(delayed, k)
                              /\ ready' = With(ready, k)
      BY <1>7 DEF Release
    <2>2. R1 = R + One(k) /\ D = D1 + One(k)
      BY <1>a, <2>1, CopiesWith, CopiesWithout DEF R, R1, D, D1
    <2>3. X1 = X /\ U1 = U /\ faults' = faults
      BY <1>7, <1>g DEF Release, X, X1
    <2>4. R1 + D1 = R + D
      BY <1>c, <2>2
    <2> QED
      BY <1>c, <1>d, <1>e, <2>3, <2>4 DEF R1, D1, X1, U1
  \* The broker takes a copy back, at the price of a fault.
  <1>8. ASSUME NEW c \in Consumers, Crash(c) \/ LoseClaim(c)
        PROVE  R1 + D1 + X1 + U1 <= 1 + faults'
    <2>1. /\ consumer[c].copy \in Copies /\ Kept(c)
          /\ consumer'[c] = Idle \/ (/\ consumer'[c].copy = consumer[c].copy
                                      /\ consumer'[c].pc = consumer[c].pc
                                      /\ consumer[c] # Idle)
      BY <1>8, Delivering, FreeMoves, LoseMoves DEF Crash
    <2>2. ready' \in {ready, With(ready, consumer[c].copy)}
      BY <1>8 DEF Crash, LoseClaim
    <2>3. R1 <= R + 1
      BY <1>a, <1>c, <2>1, <2>2, CopiesWith DEF R, R1
    <2>4. D1 = D /\ X1 = X /\ faults' = faults + 1
      BY <1>8 DEF Crash, LoseClaim, Fault, D, D1, X, X1
    <2>5. Mine1(c) <= Mine(c)
      BY <2>1 DEF Carries, Undecided
    <2>6. U1 \in Nat /\ U1 <= U
      BY <1>d, <1>f, <2>1, <2>5
    <2> QED
      BY <1>c, <1>d, <1>e, <2>3, <2>4, <2>6
  <1>9. CASE UNCHANGED vars
    <2>1. R1 = R /\ D1 = D /\ X1 = X /\ U1 = U /\ faults' = faults
      BY <1>9, <1>g DEF vars, queues, R, R1, D, D1, X, X1
    <2> QED
      BY <1>c, <1>d, <2>1 DEF R1, D1, X1, U1
  <1> QED
    BY <1>1, <1>2, <1>3, <1>4, <1>5, <1>6, <1>7, <1>8, <1>9 DEF Next, Work, R1, D1, X1, U1

-----------------------------------------------------------------------------
(* The theorems. *)

LEMMA InitDelivery == Init => DeliveryInv /\ CopiesBounded
  <1> SUFFICES ASSUME Init PROVE DeliveryInv /\ CopiesBounded
    OBVIOUS
  <1>1. TypeOK
    <2>1. broker \in {"rabbitmq", "redis", "kafka", "sqs", "memory"}
      BY DeliveryAssumption DEF Init, build_broker
    <2>2. spec \in [dlq : BOOLEAN, steps : {0, RetrySteps}]
      BY DEF Init, to_queue_spec
    <2>3. failures \in [Messages -> 0..MaxFailures] /\ faults \in 0..MaxFaults
      BY DeliveryAssumption DEF Init, MaxFailures
    <2> QED
      BY <2>1, <2>2, <2>3 DEF Init, TypeOK
  <1>2. BudgetSpent /\ CarriedBudget /\ CopiesPublished
    BY DEF Init, BudgetSpent, CarriedBudget, CopiesPublished
  <1>3. Secured /\ AckedWasHandled
    BY DEF Init, Secured, AckedWasHandled, Idle
  <1>4. ClaimsParked
    <2> SUFFICES ASSUME NEW k \in Copies PROVE Cardinality(Carriers(k)) <= parked[k]
      BY DEF ClaimsParked
    <2>1. Carriers(k) = {}
      BY CopyParts DEF Init, Carriers, Idle
    <2> QED
      BY <2>1, FS_EmptySet DEF Init
  <1>5. CopiesBounded
    <2> SUFFICES ASSUME NEW m \in Messages
                 PROVE  CopiesOf(ready, m) + CopiesOf(delayed, m) + CopiesOf(dead, m)
                          + Cardinality(Carrying(m)) <= 1 + faults
      BY DEF CopiesBounded
    <2>1. \A a \in Attempts : <<m, a>> \in Copies
      BY PairIsCopy
    <2>2. CopiesOf(ready, m) = 0 /\ CopiesOf(delayed, m) = 0 /\ CopiesOf(dead, m) = 0
      BY <1>1, <2>1, NoneOf DEF Init, TypeOK
    <2>3. Carrying(m) = {}
      BY DEF Init, Carrying, Carries
    <2> QED
      BY <2>2, <2>3, FS_EmptySet DEF Init
  <1> QED
    BY <1>1, <1>2, <1>3, <1>4, <1>5 DEF DeliveryInv

LEMMA DeliveryStep == DeliveryInv /\ CopiesBounded /\ [Next]_vars => (DeliveryInv /\ CopiesBounded)'
  <1> SUFFICES ASSUME DeliveryInv, CopiesBounded, [Next]_vars
               PROVE  DeliveryInv' /\ CopiesBounded'
    OBVIOUS
  <1>1. /\ TypeOK /\ ClaimsParked /\ CopiesPublished /\ Secured /\ AckedWasHandled
        /\ Budget
    BY BudgetForm DEF DeliveryInv
  <1>2. TypeOK' /\ ClaimsParked'
    BY <1>1, TypeStep, ParkedStep
  <1>3. Budget'
    BY <1>1, BudgetStep
  <1>4. BudgetSpent' /\ CarriedBudget'
    BY <1>3 DEF Budget, BudgetSpent, Earned
  <1>5. CopiesPublished' /\ AckedWasHandled' /\ Secured'
    BY <1>1, PublishedStep, AckedStep, SecuredStep
  <1>6. CopiesBounded'
    BY <1>1, BoundStep
  <1> QED
    BY <1>2, <1>4, <1>5, <1>6 DEF DeliveryInv

\* The retry schedule of every adapter: a copy's attempt header never runs ahead of
\* the failures of its message, a message is dead-lettered or dropped only after the
\* whole budget failed, and dropped only where its queue names no DLQ.
THEOREM RetryBudgetKept == Spec => []DeliveryInv
  <1>1. Init => DeliveryInv /\ CopiesBounded
    BY InitDelivery
  <1>2. DeliveryInv /\ CopiesBounded /\ [Next]_vars => (DeliveryInv /\ CopiesBounded)'
    BY DeliveryStep
  <1> QED
    BY <1>1, <1>2, PTL DEF Spec

\* No crash, lost claim or failed acknowledgement loses a published message: whatever
\* the adapter, it was handled, or the broker still has a copy of it, or its budget was
\* used up on a queue without a DLQ.
THEOREM NoMessageLost == Spec => []Accounted
  <1>1. DeliveryInv => Accounted
    <2> SUFFICES ASSUME DeliveryInv, NEW m \in published,
                        ~(m \in handled), ~In(ready, m), ~In(delayed, m), ~In(dead, m),
                        ~(m \in dropped /\ ~spec.dlq)
                 PROVE  \/ In(parked, m)
                        \/ \E c \in Consumers :
                               Carries(c, m) /\ (consumer[c].held \/ broker = "memory")
      BY DEF Accounted
    <2>1. \/ \E k \in Copies : k[1] = m /\ parked[k] > Cardinality(Settling(k))
          \/ \E c \in Consumers : c \in Carrying(m) /\ (consumer[c].held \/ broker = "memory")
      BY DEF DeliveryInv, Secured
    <2>2. ASSUME NEW k \in Copies, k[1] = m, parked[k] > Cardinality(Settling(k))
          PROVE  In(parked, m)
      <3>1. IsFiniteSet(Settling(k))
        BY FS_Subset, DeliveryAssumption DEF Settling, Carriers
      <3>2. Cardinality(Settling(k)) \in Nat /\ parked[k] \in Nat
        BY <3>1, FS_CardinalityType DEF DeliveryInv, TypeOK
      <3>3. parked[k] > 0
        BY <2>2, <3>2
      <3>4. k = <<m, k[2]>> /\ k[2] \in Attempts
        BY <2>2, CopyParts
      <3> QED
        BY <3>3, <3>4 DEF In
    <2> QED
      BY <2>1, <2>2 DEF Carrying
  <1> QED
    BY <1>1, RetryBudgetKept, PTL

\* Copies of a message multiply by faults only: with no fault there is one copy in
\* play, and each crash, lost claim or failed acknowledgement adds at most one.
THEOREM DuplicatesAreFaults == Spec => []CopiesBounded
  <1>1. Init => DeliveryInv /\ CopiesBounded
    BY InitDelivery
  <1>2. DeliveryInv /\ CopiesBounded /\ [Next]_vars => (DeliveryInv /\ CopiesBounded)'
    BY DeliveryStep
  <1> QED
    BY <1>1, <1>2, PTL DEF Spec
=============================================================================
