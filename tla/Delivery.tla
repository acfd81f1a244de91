------------------------------ MODULE Delivery ------------------------------
(***************************************************************************)
(* The transport adapters: RabbitMQ, Redis lists, Kafka, SQS and the       *)
(* in-memory broker behind one Broker interface, with the retry schedule   *)
(* and the dead-letter queue of transport/retry.py.                        *)
(*                                                                         *)
(* A copy of a message is the pair <<m, attempt>>: the attempt travels in  *)
(* the message's header, and a retry is a new copy with the next attempt.  *)
(* ready, delayed, dead and parked count the copies in the queue, in a     *)
(* delay (TTL retry queue, DelaySeconds, visibility timeout), in the       *)
(* dead-letter queue and on the Redis processing list.  A consumer is a    *)
(* delivery in progress: broker calls are separate steps, so the consumer  *)
(* may die, or lose its claim on the copy, between any two of them.        *)
(***************************************************************************)
EXTENDS Naturals, FiniteSets

CONSTANTS
    Messages,        \* the messages producers publish
    Consumers,       \* deliveries that may be in progress at once
    RetrySteps,      \* length of retry_steps where a queue has a retry policy
    Settings,        \* the settings build_broker may be given
    MaxFaults        \* bound on crashes, lost claims and failed acknowledgements

ASSUME DeliveryAssumption ==
    /\ RetrySteps \in Nat \ {0}
    /\ MaxFaults \in Nat
    /\ IsFiniteSet(Consumers)
    /\ Settings \subseteq [embedded_l2 : BOOLEAN,
                           broker_kind : {"rabbitmq", "redis", "kafka", "sqs", "memory"}]

VARIABLES
    broker,     \* the adapter build_broker returned
    spec,       \* the QueueSpec of the queue: [dlq, steps]
    ready, delayed, dead, parked,    \* copies, counted
    consumer,   \* [pc, copy, held] of every consumer
    published, handled, dropped,     \* messages (history)
    failures,   \* deliveries that took the failure branch (history)
    faults      \* faults so far (history)

queues == <<ready, delayed, dead, parked>>
vars == <<broker, spec, queues, consumer, published, handled, dropped, failures, faults>>

Attempts == 1..(RetrySteps + 1)
Copies == Messages \X Attempts
NoCopy == <<>>
Idle == [pc |-> "idle", copy |-> NoCopy, held |-> FALSE]
\* The failure history saturates: beyond this the budget is spent in any case.
MaxFailures == RetrySteps + 2

With(queue, copy) == [queue EXCEPT ![copy] = @ + 1]
Without(queue, copy) == [queue EXCEPT ![copy] = @ - 1]
Next1(copy) == <<copy[1], copy[2] + 1>>

-----------------------------------------------------------------------------
(* Configuration: the adapter, and the queue's topology. *)

build_broker(settings) ==
    IF settings.embedded_l2 THEN "memory" ELSE settings.broker_kind

to_queue_spec(dlq, retry) ==
    [dlq |-> dlq, steps |-> IF retry THEN RetrySteps ELSE 0]

\* ensure_topology: one TTL retry queue per step, none without a policy.
retry_queues == spec.steps

\* Mutation: an off-by-one in the schedule's bound.
DelayOneShort(attempt) == 1 <= attempt /\ attempt < spec.steps

\* RetryPolicy.delay_for_attempt(attempt) is not None.
delay_for_attempt(attempt) == 1 <= attempt /\ attempt <= spec.steps

Init ==
    /\ \E settings \in Settings : broker = build_broker(settings)
    /\ \E dlq, retry \in BOOLEAN : spec = to_queue_spec(dlq, retry)
    /\ ready = [k \in Copies |-> 0]
    /\ delayed = [k \in Copies |-> 0]
    /\ dead = [k \in Copies |-> 0]
    /\ parked = [k \in Copies |-> 0]
    /\ consumer = [c \in Consumers |-> Idle]
    /\ published = {} /\ handled = {} /\ dropped = {}
    /\ failures = [m \in Messages |-> 0]
    /\ faults = 0

publish(m) ==
    /\ m \notin published
    /\ published' = published \cup {m}
    /\ ready' = With(ready, <<m, 1>>)
    /\ UNCHANGED <<broker, spec, delayed, dead, parked, consumer, handled, dropped,
                   failures, faults>>

-----------------------------------------------------------------------------
(* Taking a message.  RabbitMQ, Kafka and SQS keep the copy until it is     *)
(* acknowledged, committed or deleted (held); Redis moves it to the         *)
(* processing list; the in-memory broker forgets it.                        *)

Take(c, copy, held) ==
    /\ consumer[c] = Idle
    /\ ready[copy] > 0
    /\ ready' = Without(ready, copy)
    /\ consumer' = [consumer EXCEPT ![c] = [pc |-> "handling", copy |-> copy, held |-> held]]
    /\ UNCHANGED <<broker, spec, delayed, dead, published, handled, dropped, failures, faults>>

RabbitConsume(c, copy) == broker = "rabbitmq" /\ Take(c, copy, TRUE) /\ UNCHANGED parked
RedisConsume(c, copy) == broker = "redis" /\ Take(c, copy, FALSE) /\ parked' = With(parked, copy)
\* Mutation: the Kafka consumer with auto-commit, the offset past the record at once.
KafkaAutoCommit(c, copy) == broker = "kafka" /\ Take(c, copy, FALSE) /\ UNCHANGED parked
KafkaConsume(c, copy) == broker = "kafka" /\ Take(c, copy, TRUE) /\ UNCHANGED parked
SqsConsume(c, copy) == broker = "sqs" /\ Take(c, copy, TRUE) /\ UNCHANGED parked
MemoryConsume(c, copy) == broker = "memory" /\ Take(c, copy, FALSE) /\ UNCHANGED parked

Receive(c) == \E copy \in Copies :
    \/ RabbitConsume(c, copy) \/ RedisConsume(c, copy) \/ KafkaConsume(c, copy)
    \/ SqsConsume(c, copy) \/ MemoryConsume(c, copy)

Goto(c, pc) == consumer' = [consumer EXCEPT ![c].pc = pc]
Free(c) == consumer' = [consumer EXCEPT ![c] = Idle]

-----------------------------------------------------------------------------
(* The handler returns: RabbitMQ and SQS acknowledge inside the try block,   *)
(* Redis and Kafka after _dispatch, and the in-memory broker is done.        *)

HandlerReturns(c) ==
    /\ consumer[c].pc = "handling"
    /\ handled' = handled \cup {consumer[c].copy[1]}
    /\ CASE broker \in {"rabbitmq", "sqs"} -> Goto(c, "acking")
         [] broker \in {"redis", "kafka"} -> Goto(c, "settling")
         [] broker = "memory" -> Free(c)
    /\ UNCHANGED <<broker, spec, queues, published, dropped, failures, faults>>

\* The acknowledgement in the try block succeeds.  With the claim gone RabbitMQ
\* refuses it; SQS accepts the old receipt and keeps the message.
Ack(c) ==
    /\ consumer[c].pc = "acking"
    /\ consumer[c].held \/ broker = "sqs"
    /\ Free(c)
    /\ UNCHANGED <<broker, spec, queues, published, handled, dropped, failures, faults>>

\* The handler raises, or the acknowledgement of a handled message does: both
\* are the except branch, which does not know which of the two failed.
EnterExcept(c) ==
    /\ Goto(c, "failing")
    /\ failures' = [failures EXCEPT ![consumer[c].copy[1]] =
                       IF @ < MaxFailures THEN @ + 1 ELSE @]
    /\ UNCHANGED <<broker, spec, queues, published, handled, dropped>>

HandlerRaises(c) ==
    /\ consumer[c].pc = "handling"
    /\ EnterExcept(c) /\ UNCHANGED faults

AckRaises(c) ==
    /\ consumer[c].pc = "acking"
    /\ IF consumer[c].held THEN faults < MaxFaults /\ faults' = faults + 1
                           ELSE UNCHANGED faults
    /\ EnterExcept(c)

-----------------------------------------------------------------------------
(* The except branch of each adapter: retry, dead-letter, or neither. *)

Discard(m) == dropped' = dropped \cup {m}

\* Park the next attempt on its TTL queue, then acknowledge; else reject without
\* requeue, which the broker dead-letters only where the queue names a DLQ.
RabbitFailure(c) ==
    LET copy == consumer[c].copy IN
    /\ broker = "rabbitmq"
    /\ \/ /\ delay_for_attempt(copy[2]) /\ copy[2] <= retry_queues
          /\ delayed' = With(delayed, Next1(copy))
          /\ Goto(c, "settling")
          /\ UNCHANGED <<ready, dead, parked, dropped>>
       \/ /\ ~(delay_for_attempt(copy[2]) /\ copy[2] <= retry_queues)
          /\ IF spec.dlq /\ consumer[c].held
                THEN dead' = With(dead, copy) /\ UNCHANGED dropped
                ELSE /\ UNCHANGED dead
                     /\ IF consumer[c].held THEN Discard(copy[1]) ELSE UNCHANGED dropped
          /\ Free(c)
          /\ UNCHANGED <<ready, delayed, parked>>

\* Mutation: the same copy goes back with the next attempt.
RequeueBoth(copy) ==
    /\ delay_for_attempt(copy[2])
    /\ ready' = With(With(ready, copy), Next1(copy))
    /\ UNCHANGED <<dead, dropped, delayed, parked>>

\* Re-queue the next attempt, dead-letter, or let the message go.
RequeueOrBury(copy) ==
    /\ \/ /\ delay_for_attempt(copy[2])
          /\ ready' = With(ready, Next1(copy))
          /\ UNCHANGED <<dead, dropped>>
       \/ /\ ~delay_for_attempt(copy[2]) /\ spec.dlq
          /\ dead' = With(dead, copy)
          /\ UNCHANGED <<ready, dropped>>
       \/ /\ ~delay_for_attempt(copy[2]) /\ ~spec.dlq
          /\ Discard(copy[1])
          /\ UNCHANGED <<ready, dead>>
    /\ UNCHANGED <<delayed, parked>>

\* No backoff: the next attempt goes straight back to the queue, then LREM.
RedisFailure(c) ==
    broker = "redis" /\ RequeueOrBury(consumer[c].copy) /\ Goto(c, "settling")

\* The consumer sleeps through the backoff before it re-produces, then commits.
KafkaFailure(c) ==
    broker = "kafka" /\ RequeueOrBury(consumer[c].copy) /\ Goto(c, "settling")

\* _on_failure runs in the same step as the handler's exception: nothing to settle.
MemoryFailure(c) ==
    broker = "memory" /\ RequeueOrBury(consumer[c].copy) /\ Free(c)

\* Mutation: the SQS branch sleeps on an exhausted message.
SqsRetriesOnly(c) ==
    /\ broker = "sqs"
    /\ delay_for_attempt(consumer[c].copy[2])
    /\ delayed' = With(delayed, Next1(consumer[c].copy))
    /\ Goto(c, "settling")
    /\ UNCHANGED <<ready, dead, parked, dropped>>

\* Without a DLQ the message is not deleted: it reappears, with the same
\* attempt, when its visibility timeout expires.
SqsFailure(c) ==
    LET copy == consumer[c].copy IN
    /\ broker = "sqs"
    /\ \/ /\ delay_for_attempt(copy[2])
          /\ delayed' = With(delayed, Next1(copy))
          /\ Goto(c, "settling")
          /\ UNCHANGED dead
       \/ /\ ~delay_for_attempt(copy[2]) /\ spec.dlq
          /\ dead' = With(dead, copy)
          /\ Goto(c, "settling")
          /\ UNCHANGED delayed
       \/ /\ ~delay_for_attempt(copy[2]) /\ ~spec.dlq
          /\ delayed' = IF consumer[c].held THEN With(delayed, copy) ELSE delayed
          /\ Free(c)
          /\ UNCHANGED dead
    /\ UNCHANGED <<ready, parked, dropped>>

Failure(c) ==
    /\ consumer[c].pc = "failing"
    /\ RabbitFailure(c) \/ RedisFailure(c) \/ KafkaFailure(c) \/ SqsFailure(c) \/ MemoryFailure(c)
    /\ UNCHANGED <<broker, spec, published, handled, failures, faults>>

\* The last broker call of a delivery: ack, LREM, commit or delete.  A claim that
\* is gone makes it fail, and the copy that is back in the queue stays there.
Settle(c) ==
    /\ consumer[c].pc = "settling"
    /\ parked' = IF broker = "redis" THEN Without(parked, consumer[c].copy) ELSE parked
    /\ Free(c)
    /\ UNCHANGED <<broker, spec, ready, delayed, dead, published, handled, dropped,
                   failures, faults>>

-----------------------------------------------------------------------------
(* The broker, and the faults. *)

\* A TTL, a DelaySeconds or a visibility timeout expires.
Release ==
    /\ \E copy \in Copies :
          /\ delayed[copy] > 0
          /\ delayed' = Without(delayed, copy)
          /\ ready' = With(ready, copy)
    /\ UNCHANGED <<broker, spec, dead, parked, consumer, published, handled, dropped,
                   failures, faults>>

Fault == faults < MaxFaults /\ faults' = faults + 1

\* The process of c dies, or an exception leaves its consume loop: a copy it still
\* holds is delivered again; one on the Redis processing list stays there.
Crash(c) ==
    /\ Fault
    /\ broker # "memory" /\ consumer[c] # Idle
    /\ ready' = IF consumer[c].held THEN With(ready, consumer[c].copy) ELSE ready
    /\ Free(c)
    /\ UNCHANGED <<broker, spec, delayed, dead, parked, published, handled, dropped, failures>>

\* c lives but loses its claim: a dropped connection, a visibility timeout that
\* expires under a slow handler, a rebalance.
LoseClaim(c) ==
    /\ Fault
    /\ consumer[c].held
    /\ ready' = With(ready, consumer[c].copy)
    /\ consumer' = [consumer EXCEPT ![c].held = FALSE]
    /\ UNCHANGED <<broker, spec, delayed, dead, parked, published, handled, dropped, failures>>

Work(c) ==
    \/ Receive(c) \/ HandlerReturns(c) \/ HandlerRaises(c) \/ Ack(c) \/ AckRaises(c)
    \/ Failure(c) \/ Settle(c)

Next ==
    \/ \E m \in Messages : publish(m)
    \/ \E c \in Consumers : Work(c) \/ Crash(c) \/ LoseClaim(c)
    \/ Release

\* Consumers keep running and restart after a crash; timers expire.
Spec ==
    /\ Init /\ [][Next]_vars
    /\ \A c \in Consumers : WF_vars(Work(c))
    /\ WF_vars(Release)

-----------------------------------------------------------------------------
(* Properties. *)

\* A delivery in progress.
Deliveries == [pc : {"handling", "acking", "failing", "settling"},
               copy : Copies, held : BOOLEAN]

\* The type of the broker's structures, the consumers and the counters.
TypeOK ==
    /\ broker \in {"rabbitmq", "redis", "kafka", "sqs", "memory"}
    /\ spec \in [dlq : BOOLEAN, steps : {0, RetrySteps}]
    /\ {ready, delayed, dead, parked} \subseteq [Copies -> Nat]
    /\ consumer \in [Consumers -> {Idle} \cup Deliveries]
    /\ published \in SUBSET Messages /\ handled \in SUBSET Messages
    /\ dropped \in SUBSET Messages
    /\ failures \in [Messages -> 0..MaxFailures]
    /\ faults \in 0..MaxFaults

In(queue, m) == \E a \in Attempts : queue[<<m, a>>] > 0
Carries(c, m) == consumer[c] # Idle /\ consumer[c].copy[1] = m
Undecided(c) == consumer[c].pc \in {"handling", "acking", "failing"}

\* A published message is never simply gone, whatever crashes: it was handled, or
\* the broker still has a copy (queued, delayed, dead, parked or claimed), or its
\* retries were used up on a queue with no dead-letter queue.
Accounted == \A m \in published :
    \/ m \in handled
    \/ In(ready, m) \/ In(delayed, m) \/ In(dead, m) \/ In(parked, m)
    \/ \E c \in Consumers : Carries(c, m) /\ (consumer[c].held \/ broker = "memory")
    \/ m \in dropped /\ ~spec.dlq

\* The copies of m in a queue, each told apart by its attempt and a number.
CopiesIn(queue, m) == UNION {{a} \X (1..queue[<<m, a>>]) : a \in Attempts}
CopiesOf(queue, m) == Cardinality(CopiesIn(queue, m))
Carrying(m) == {c \in Consumers : Carries(c, m) /\ Undecided(c)}

\* A message multiplies only by faults: without one there is a single copy in play,
\* and every crash, lost claim or failed acknowledgement adds at most one, in the
\* window between the re-publication and the acknowledgement too.
CopiesBounded == \A m \in Messages :
    CopiesOf(ready, m) + CopiesOf(delayed, m) + CopiesOf(dead, m)
      + Cardinality(Carrying(m)) <= 1 + faults

\* A copy's attempt header never runs ahead of the failures that happened, so a
\* message is given up, to the dead-letter queue or altogether, only after the whole
\* budget failed; and it is given up altogether only where there is no DLQ.
BudgetSpent ==
    /\ \A k \in Copies :
          /\ (\E q \in {ready, delayed, parked} : q[k] > 0) => failures[k[1]] >= k[2] - 1
          /\ dead[k] > 0 => failures[k[1]] > spec.steps
    /\ \A m \in dropped : ~spec.dlq /\ failures[m] > spec.steps

\* The same of a copy in a consumer's hands, and of one whose failure was counted.
CarriedBudget == \A c \in Consumers : consumer[c] # Idle =>
    /\ failures[consumer[c].copy[1]] >= consumer[c].copy[2] - 1
    /\ consumer[c].pc = "failing" => failures[consumer[c].copy[1]] >= consumer[c].copy[2]

Carriers(k) == {c \in Consumers : consumer[c].copy = k}
Settling(k) == {c \in Carriers(k) : consumer[c].pc = "settling"}

\* Every Redis delivery in progress has its own entry on the processing list, so
\* the final LREM takes its own and not another consumer's.
ClaimsParked == broker = "redis" =>
    \A k \in Copies : Cardinality(Carriers(k)) <= parked[k]

\* A copy only exists of a message that was published.
CopiesPublished ==
    /\ \A k \in Copies : \A q \in {ready, delayed, dead} : q[k] > 0 => k[1] \in published
    /\ \A c \in Consumers : consumer[c] # Idle => consumer[c].copy[1] \in published

\* A published message is safe even with every final acknowledgement already done:
\* the claims of the consumers that are about to settle are not needed.
Secured == \A m \in published :
    \/ m \in handled
    \/ In(ready, m) \/ In(delayed, m) \/ In(dead, m)
    \/ \E k \in Copies : k[1] = m /\ parked[k] > Cardinality(Settling(k))
    \/ \E c \in Consumers : c \in Carrying(m) /\ (consumer[c].held \/ broker = "memory")
    \/ m \in dropped /\ ~spec.dlq

AckedWasHandled == \A c \in Consumers :
    consumer[c].pc = "acking" => consumer[c].copy[1] \in handled

\* The state is well formed, the retry schedule is kept for queued and carried
\* copies alike, and no message depends on a delivery that is being settled.
DeliveryInv ==
    /\ TypeOK
    /\ BudgetSpent /\ CarriedBudget
    /\ ClaimsParked /\ CopiesPublished
    /\ Secured /\ AckedWasHandled

\* A copy on the Redis processing list that no consumer is working on: only a
\* crash leaves one, and nothing in the code takes it off the list again.
Stranded(m) == \E k \in Copies :
    k[1] = m /\ parked[k] > Cardinality(Carriers(k))

\* Consumers that keep running bring every message to an end: handled, dead-lettered,
\* dropped, or stranded by a crash of a Redis consumer.  SQS without a DLQ is left
\* out: there a message that always fails is redelivered for ever.
Settles == \A m \in Messages :
    (m \in published /\ (spec.dlq \/ broker # "sqs"))
        ~> (m \in handled \/ In(dead, m) \/ m \in dropped \/ (faults > 0 /\ Stranded(m)))
=============================================================================
