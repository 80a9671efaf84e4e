------------------------------ MODULE Delivery ------------------------------
(***************************************************************************)
(* At-least-once delivery, emulated: the Idempotent Receiver and the dead  *)
(* letter channel that the adapters (packages/adapters/src/reliability.ts, *)
(* inbound messages keyed by messageId) and the notifications              *)
(* (packages/notifications/src/delivery.ts, deliveries keyed by            *)
(* notificationId) share.  The two loops are the same program; "accepted"  *)
(* is "applied" in the first and "sent" in the second, and the event       *)
(* stream is the second's.                                                 *)
(*                                                                         *)
(* The loop calls its receiver once per attempt, so an attempt is a step.  *)
(* Accepts(message, attempt) is the receiver's answer.                     *)
(***************************************************************************)
EXTENDS Integers, Sequences, FiniteSets

CONSTANTS Ids,             \* messageId, notificationId
          Accepts(_, _)    \* Receiver.handle

VARIABLES messages,      \* the input sequence of the call
          maxAttempts,
          position,      \* of the message the loop is at
          trying,        \* is the loop inside the attempts of that message?
          attempts,      \* made for that message
          seen,          \* the ids of the accepted messages
          outcome,       \* the three counters
          dispositions,
          events         \* notify.*; an event's seq is its index here

dvars == <<messages, maxAttempts, position, trying, attempts, seen, outcome,
           dispositions, events>>

R == INSTANCE DecisionRecord

Current == messages[position]
Event(type) == [type |-> type, step |-> Current.id]

NotifyEvent == [accepted |-> "notify.sent", deduped |-> "notify.deduped",
                dlq |-> "notify.dlq"]

-----------------------------------------------------------------------------

\* Count the message under `how`, record its disposition, go to the next one.
Settle(how, tried, emitted) ==
  /\ outcome' = [outcome EXCEPT ![how] = @ + 1]
  /\ dispositions' = Append(dispositions,
                            [id |-> Current.id, how |-> how, attempts |-> tried])
  /\ events' = emitted \o <<Event(NotifyEvent[how])>>
  /\ position' = position + 1
  /\ trying' = FALSE
  /\ attempts' = 0
  /\ UNCHANGED <<messages, maxAttempts>>

Dedupe ==
  /\ position <= Len(messages)
  /\ ~trying
  /\ Current.id \in seen
  /\ Settle("deduped", 0, Append(events, Event("notify.requested")))
  /\ UNCHANGED seen

Begin ==
  /\ position <= Len(messages)
  /\ ~trying
  /\ Current.id \notin seen
  /\ trying' = TRUE
  /\ events' = Append(events, Event("notify.requested"))
  /\ UNCHANGED <<messages, maxAttempts, position, attempts, seen, outcome,
                 dispositions>>

\* One turn of the inner loop: the receiver answers, and its yes is final.
Attempt ==
  /\ trying
  /\ attempts < maxAttempts
  /\ IF Accepts(Current, attempts + 1)
     THEN /\ seen' = seen \union {Current.id}
          /\ Settle("accepted", attempts + 1, events)
     ELSE /\ attempts' = attempts + 1
          /\ UNCHANGED <<messages, maxAttempts, position, trying, seen, outcome,
                         dispositions, events>>

QuarantineForGood ==   \* mutant: the id is marked as seen
  /\ trying
  /\ attempts = maxAttempts
  /\ Settle("dlq", attempts, events)
  /\ seen' = seen \union {Current.id}

\* Attempts exhausted.  The id is not marked as seen.
Quarantine ==
  /\ trying
  /\ attempts = maxAttempts
  /\ Settle("dlq", attempts, events)
  /\ UNCHANGED seen

DeliveryStart ==
  /\ position = 1
  /\ trying = FALSE
  /\ attempts = 0
  /\ seen = {}
  /\ outcome = [accepted |-> 0, deduped |-> 0, dlq |-> 0]
  /\ dispositions = <<>>
  /\ events = <<>>

Messages == Seq([id : Ids, poison : BOOLEAN])

DeliveryInit ==
  /\ messages \in Messages
  /\ maxAttempts \in Nat
  /\ DeliveryStart

DeliveryNext == Dedupe \/ Begin \/ Attempt \/ Quarantine

DeliverySpec == DeliveryInit /\ [][DeliveryNext]_dvars

-----------------------------------------------------------------------------

\* poisonAwareReceiver: a poison message fails on every attempt.
PoisonAware(m, n) == ~m.poison

\* evaluateVector: the pinned counts held.
VectorPasses(expect) == outcome = expect

-----------------------------------------------------------------------------

DeliveryTypeOK ==
  /\ messages \in Messages
  /\ maxAttempts \in Nat
  /\ position \in 1..Len(messages) + 1
  /\ trying \in BOOLEAN
  /\ attempts \in 0..maxAttempts
  /\ seen \subseteq Ids
  /\ outcome \in [{"accepted", "deduped", "dlq"} -> Nat]
  /\ dispositions \in Seq([id : Ids, how : {"accepted", "deduped", "dlq"},
                           attempts : 0..maxAttempts])
  /\ trying => position <= Len(messages)

\* Some attempt at message m, within the bound, is accepted.
Acceptable(m) == \E n \in 1..maxAttempts : Accepts(m, n)

\* What the sequence of messages promises the message at p, whatever the loop
\* did: one delivery per id, and quarantine only for want of a willing attempt.
Promised(p) ==
  IF \E q \in 1..(p - 1) : messages[q].id = messages[p].id /\ Acceptable(messages[q])
  THEN "deduped"
  ELSE IF Acceptable(messages[p]) THEN "accepted" ELSE "dlq"

\* Every message behind the loop has exactly the disposition that the sequence
\* promises it (so a resend of a quarantined message is tried again, and an
\* accepted one is never applied twice), none is dropped, and a message is
\* accepted at its first willing attempt or quarantined after all of them,
\* a bound of zero included (runReliability, runDelivery).
SettledAsPromised ==
  /\ Len(dispositions) = position - 1
  /\ \A p \in 1..(position - 1) :
       LET d == dispositions[p] IN
       /\ d.id = messages[p].id
       /\ d.how = Promised(p)
       /\ \A n \in 1..maxAttempts :
            Accepts(messages[p], n) => d.how = "deduped" \/ n >= d.attempts
       /\ d.how = "dlq" => d.attempts = maxAttempts
       /\ d.how = "accepted" => Accepts(messages[p], d.attempts)

\* The three counters, on which the reliability vectors are judged, count the
\* dispositions; and between two messages the notify.* stream is one that the
\* DecisionRecord's notification family stitches, nothing dangling.
CountedAndStitched ==
  /\ \A how \in {"accepted", "deduped", "dlq"} :
       outcome[how] = Cardinality({p \in 1..Len(dispositions) :
                                     dispositions[p].how = how})
  /\ ~trying => R!ChainComplete(events)

\* Both: what runReliability and runDelivery owe their callers.
EveryMessageSettled == SettledAsPromised /\ CountedAndStitched
=============================================================================
