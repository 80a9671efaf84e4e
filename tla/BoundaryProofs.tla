--------------------------- MODULE BoundaryProofs ---------------------------
(***************************************************************************)
(* Proofs about the loops and functions of the outer boundary: the         *)
(* delivery loop, for every sequence of messages, bound on the attempts    *)
(* and receiver; the referential integrity of CodeSets, for every set of   *)
(* documents whose windows are dates; the translation and the rendering of *)
(* messages, for every mapping, wire message, template and request of      *)
(* their types.                                                            *)
(***************************************************************************)
EXTENDS Delivery, ReferenceData, Messages, LeastNumber, FiniteSetTheorems, SequenceTheorems

-----------------------------------------------------------------------------
(* The delivery loop.                                                      *)

Hows == {"accepted", "deduped", "dlq"}
Disposition == [id : Ids, how : Hows, attempts : 0..maxAttempts]

NotifyTypes == {"notify.requested", "notify.sent", "notify.deduped", "notify.dlq"}
NotifyEvents == [type : NotifyTypes, step : Ids]
Requested(h) == R!StepsOf(h, {"notify.requested"})
Closed(h) == R!StepsOf(h, {"notify.sent", "notify.deduped", "notify.dlq"})

\* The record of message p is the one that the sequence promises it.
Settled(d, p) ==
  /\ d.id = messages[p].id
  /\ d.how = Promised(p)
  /\ \A n \in 1..maxAttempts :
       Accepts(messages[p], n) => d.how = "deduped" \/ n >= d.attempts
  /\ d.how = "dlq" => d.attempts = maxAttempts
  /\ d.how = "accepted" => Accepts(messages[p], d.attempts)

Counting(how, ds) == {p \in 1..Len(ds) : ds[p].how = how}

AllSettled == /\ Len(dispositions) = position - 1
              /\ \A p \in 1..(position - 1) : Settled(dispositions[p], p)

Counted == \A how \in Hows : outcome[how] = Cardinality(Counting(how, dispositions))

\* What the loop remembers: the ids accepted so far, and that the attempts made for
\* the current message were all refused.
Remembers ==
  /\ \A i : i \in seen <=> \E q \in 1..(position - 1) : messages[q].id = i /\ Acceptable(messages[q])
  /\ trying => Current.id \notin seen /\ \A n \in 1..attempts : ~Accepts(Current, n)
  /\ ~trying => attempts = 0

\* Only the current message's request may still be open.
Stitching ==
  /\ events \in Seq(NotifyEvents)
  /\ Closed(events) \subseteq Requested(events)
  /\ ~trying => Requested(events) \subseteq Closed(events)
  /\ trying => /\ Current.id \in Requested(events)
               /\ Requested(events) \subseteq Closed(events) \union {Current.id}

IInv == DeliveryTypeOK /\ AllSettled /\ Counted /\ Remembers /\ Stitching

-----------------------------------------------------------------------------

\* Appending an event adds its step to those of its type.
LEMMA StepsOfAppend ==
  ASSUME NEW h \in Seq(NotifyEvents), NEW e \in NotifyEvents, NEW types
  PROVE  R!StepsOf(Append(h, e), types) =
           R!StepsOf(h, types) \union (IF e.type \in types THEN {e.step} ELSE {})
<1> DEFINE g == Append(h, e)
<1>1. /\ Len(g) = Len(h) + 1 /\ Len(h) \in Nat
      /\ \A i \in 1..Len(h) : g[i] = h[i]
      /\ g[Len(h) + 1] = e
  OBVIOUS
<1>2. \A s : s \in R!StepsOf(g, types) <=> \E i \in 1..Len(g) : g[i].type \in types /\ g[i].step = s
  BY DEF R!StepsOf
<1>3. \A s : s \in R!StepsOf(h, types) <=> \E i \in 1..Len(h) : h[i].type \in types /\ h[i].step = s
  BY DEF R!StepsOf
<1>4. \A s : s \in R!StepsOf(g, types) <=> s \in R!StepsOf(h, types) \/ (e.type \in types /\ s = e.step)
  <2> HIDE DEF g
  <2>1. \A i : i \in 1..Len(g) <=> i \in 1..Len(h) \/ i = Len(h) + 1
    BY <1>1
  <2>2. Len(h) + 1 \notin 1..Len(h)
    BY <1>1
  <2> QED
    BY <1>1, <1>2, <1>3, <2>1, <2>2
<1> QED
  BY <1>4

LEMMA EventsAppend ==
  ASSUME NEW h \in Seq(NotifyEvents), NEW e \in NotifyEvents
  PROVE  /\ Append(h, e) \in Seq(NotifyEvents)
         /\ h \o <<e>> = Append(h, e)
         /\ e.type = "notify.requested" =>
              /\ Requested(Append(h, e)) = Requested(h) \union {e.step}
              /\ Closed(Append(h, e)) = Closed(h)
         /\ e.type # "notify.requested" =>
              /\ Requested(Append(h, e)) = Requested(h)
              /\ Closed(Append(h, e)) = Closed(h) \union {e.step}
<1>1. Append(h, e) \in Seq(NotifyEvents) /\ h \o <<e>> = Append(h, e)
  OBVIOUS
<1>2. e.type \in {"notify.requested", "notify.sent", "notify.deduped", "notify.dlq"}
  BY DEF NotifyEvents, NotifyTypes
<1>3. Requested(Append(h, e)) =
        Requested(h) \union (IF e.type \in {"notify.requested"} THEN {e.step} ELSE {})
  BY StepsOfAppend DEF Requested
<1>4. Closed(Append(h, e)) =
        Closed(h) \union (IF e.type \in {"notify.sent", "notify.deduped", "notify.dlq"}
                         THEN {e.step} ELSE {})
  BY StepsOfAppend DEF Closed
<1> QED
  BY <1>1, <1>2, <1>3, <1>4

\* A stream of notify.* events whose requests are exactly its closed steps is
\* complete in every family.
LEMMA StitchedIsComplete ==
  ASSUME NEW h \in Seq(NotifyEvents), Requested(h) = Closed(h)
  PROVE  R!ChainComplete(h)
<1>1. \A i \in 1..Len(h) : h[i].type \in NotifyTypes
  <2>1. \A i \in 1..Len(h) : h[i] \in NotifyEvents
    OBVIOUS
  <2> QED
    BY <2>1 DEF NotifyEvents
<1>2. ASSUME NEW types, types \cap NotifyTypes = {}
      PROVE  R!StepsOf(h, types) = {}
  <2>1. \A j \in 1..Len(h) : h[j].type \notin types
    BY <1>1, <1>2
  <2>2. {j \in 1..Len(h) : h[j].type \in types} = {}
    BY <2>1
  <2>3. {h[i].step : i \in {}} = {}
    OBVIOUS
  <2> QED
    BY <2>2, <2>3 DEF R!StepsOf
<1>3. ASSUME NEW f \in {R!TaskFamily, R!IssuanceFamily}
      PROVE  R!Unstitched(h, f) = {} /\ R!Dangling(h, f) = {}
  <2>1. f.originated \cap NotifyTypes = {} /\ f.lifecycle \cap NotifyTypes = {}
    BY DEF R!TaskFamily, R!IssuanceFamily, NotifyTypes
  <2>2. R!StepsOf(h, f.originated) = {}
    BY <1>2, <2>1
  <2> QED
    BY <1>1, <2>1, <2>2 DEF R!Unstitched, R!Dangling
<1>4. R!Unstitched(h, R!NotifyFamily) = {} /\ R!Dangling(h, R!NotifyFamily) = {}
  <2>1. /\ R!NotifyFamily.originated = {"notify.requested"}
        /\ R!NotifyFamily.lifecycle = {"notify.sent", "notify.deduped", "notify.dlq"}
        /\ R!NotifyFamily.terminal = {"notify.sent", "notify.deduped", "notify.dlq"}
    BY DEF R!NotifyFamily
  <2>2. R!Dangling(h, R!NotifyFamily) = {}
    BY <2>1 DEF R!Dangling, Requested, Closed
  <2>3. ASSUME NEW i \in 1..Len(h), h[i].type \in R!NotifyFamily.lifecycle
        PROVE  h[i].step \in Requested(h)
    BY <2>1, <2>3 DEF Closed, R!StepsOf
  <2> QED
    BY <2>1, <2>2, <2>3 DEF R!Unstitched, Requested
<1> QED
  BY <1>3, <1>4 DEF R!ChainComplete, R!Families

-----------------------------------------------------------------------------

\* Counting: a disposition that is appended is counted once.
LEMMA CountingAppend ==
  ASSUME NEW ds, ds \in Seq(Disposition), NEW d \in Disposition, NEW how \in Hows
  PROVE  Cardinality(Counting(how, Append(ds, d))) =
           Cardinality(Counting(how, ds)) + (IF d.how = how THEN 1 ELSE 0)
<1> DEFINE g == Append(ds, d)
           n == Len(ds) + 1
<1>1. /\ Len(g) = n /\ Len(ds) \in Nat
      /\ \A i \in 1..Len(ds) : g[i] = ds[i]
      /\ g[n] = d
  OBVIOUS
<1>2. IsFiniteSet(Counting(how, ds))
  <2>1. IsFiniteSet(1..Len(ds))
    BY <1>1, FS_Interval
  <2> QED
    BY <2>1, FS_Subset DEF Counting
<1>3. Cardinality(Counting(how, ds)) \in Nat
  BY <1>2, FS_CardinalityType
<1>4. CASE d.how = how
  <2>1. Counting(how, g) = Counting(how, ds) \union {n}
    BY <1>1, <1>4 DEF Counting
  <2>2. n \notin Counting(how, ds)
    BY <1>1 DEF Counting
  <2> QED
    BY <1>2, <1>4, <2>1, <2>2, FS_AddElement
<1>5. CASE d.how # how
  <2>1. Counting(how, g) = Counting(how, ds)
    BY <1>1, <1>5 DEF Counting
  <2> QED
    BY <1>3, <1>5, <2>1
<1> QED
  BY <1>4, <1>5

LEMMA CurrentType ==
  ASSUME DeliveryTypeOK, position <= Len(messages)
  PROVE  Current \in [id : Ids, poison : BOOLEAN]
<1> DEFINE M == [id : Ids, poison : BOOLEAN]
<1>1. messages \in Seq(M)
  BY DEF DeliveryTypeOK, Messages
<1>2. position \in 1..Len(messages) + 1
  BY DEF DeliveryTypeOK
<1> HIDE DEF M
<1>3. \A p \in 1..Len(messages) : messages[p] \in M
  BY <1>1
<1>4. position \in 1..Len(messages)
  BY <1>1, <1>2
<1> QED
  BY <1>3, <1>4 DEF Current, M

\* What settles a message settles it as promised, and is counted.
LEMMA SettleStep ==
  ASSUME IInv, NEW how \in Hows, NEW tried \in 0..maxAttempts, NEW emitted \in Seq(NotifyEvents),
         position <= Len(messages), Settle(how, tried, emitted),
         Settled([id |-> Current.id, how |-> how, attempts |-> tried], position)
  PROVE  /\ AllSettled' /\ Counted'
         /\ dispositions' \in Seq(Disposition)
         /\ outcome' \in [Hows -> Nat]
         /\ position' \in 1..Len(messages) + 1
<1> DEFINE d == [id |-> Current.id, how |-> how, attempts |-> tried]
<1>1. /\ messages \in Messages /\ maxAttempts \in Nat /\ position \in Nat \ {0}
      /\ outcome \in [Hows -> Nat] /\ dispositions \in Seq(Disposition)
  BY DEF IInv, DeliveryTypeOK, Hows, Disposition, Messages
<1>2. /\ position' = position + 1 /\ messages' = messages /\ maxAttempts' = maxAttempts
      /\ dispositions' = Append(dispositions, d)
      /\ outcome' = [outcome EXCEPT ![how] = @ + 1]
  BY DEF Settle
<1>3. d \in Disposition
  <2>1. Current \in [id : Ids, poison : BOOLEAN]
    BY CurrentType DEF IInv
  <2> QED
    BY <2>1 DEF Disposition
<1>4. Len(dispositions) = position - 1 /\ \A p \in 1..(position - 1) : Settled(dispositions[p], p)
  BY DEF IInv, AllSettled
<1>5. /\ Len(dispositions') = position' - 1
      /\ dispositions'[position] = d
      /\ \A p \in 1..(position - 1) : dispositions'[p] = dispositions[p]
  BY <1>1, <1>2, <1>3, <1>4
<1>6. \A p, e : Settled(e, p)' <=> Settled(e', p)
  BY <1>2 DEF Settled, Promised, Acceptable
<1>7. AllSettled'
  <2>1. position' - 1 = position
    BY <1>1, <1>2
  <2>2. ASSUME NEW p \in 1..position
        PROVE  Settled(dispositions[p], p)'
    <3>1. CASE p = position
      BY <1>5, <1>6, <3>1
    <3>2. CASE p \in 1..(position - 1)
      BY <1>4, <1>5, <1>6, <3>2
    <3> QED
      BY <1>1, <3>1, <3>2
  <2> QED
    BY <1>5, <2>1, <2>2 DEF AllSettled
<1>8. Counted'
  <2>1. ASSUME NEW h \in Hows
        PROVE  outcome'[h] = Cardinality(Counting(h, dispositions'))
    <3>1. outcome[h] = Cardinality(Counting(h, dispositions)) /\ outcome[h] \in Nat
      BY <1>1 DEF IInv, Counted
    <3>2. Cardinality(Counting(h, dispositions')) =
            outcome[h] + (IF d.how = h THEN 1 ELSE 0)
      BY <1>1, <1>2, <1>3, <3>1, CountingAppend
    <3> QED
      BY <1>1, <1>2, <3>1, <3>2
  <2> QED
    BY <2>1 DEF Counted, Counting
<1>9. /\ dispositions' \in Seq(Disposition)
      /\ outcome' \in [Hows -> Nat]
      /\ position' \in 1..Len(messages) + 1
  BY <1>1, <1>2, <1>3
<1> QED
  BY <1>7, <1>8, <1>9

LEMMA SettleType ==
  ASSUME IInv, NEW how \in Hows, NEW tried, NEW emitted, Settle(how, tried, emitted),
         dispositions' \in Seq(Disposition), outcome' \in [Hows -> Nat],
         position' \in 1..Len(messages) + 1, seen' \subseteq Ids
  PROVE  DeliveryTypeOK'
<1>1. messages' = messages /\ maxAttempts' = maxAttempts /\ trying' = FALSE /\ attempts' = 0
  BY DEF Settle
<1>2. messages \in Messages /\ maxAttempts \in Nat
  BY DEF IInv, DeliveryTypeOK
<1>3. 0 \in 0..maxAttempts
  BY <1>2
<1>4. dispositions' \in Seq([id : Ids, how : {"accepted", "deduped", "dlq"},
                             attempts : 0..maxAttempts])
  BY DEF Disposition, Hows
<1>5. outcome' \in [{"accepted", "deduped", "dlq"} -> Nat]
  BY DEF Hows
<1> QED
  BY <1>1, <1>2, <1>3, <1>4, <1>5 DEF DeliveryTypeOK, Messages

\* The loop remembers exactly the ids of the acceptable messages behind it.
LEMMA RememberStep ==
  ASSUME IInv, position <= Len(messages),
         position' = position + 1, messages' = messages, maxAttempts' = maxAttempts,
         trying' = FALSE, attempts' = 0,
         seen' = seen \union (IF Acceptable(Current) THEN {Current.id} ELSE {})
  PROVE  Remembers'
<1>1. position \in Nat \ {0} /\ position' - 1 = position
  BY DEF IInv, DeliveryTypeOK
<1>2. \A m : Acceptable(m)' <=> Acceptable(m)
  BY DEF Acceptable
<1>3. \A i : i \in seen <=> \E q \in 1..(position - 1) : messages[q].id = i /\ Acceptable(messages[q])
  BY DEF IInv, Remembers
<1>4. \A q : q \in 1..position <=> q \in 1..(position - 1) \/ q = position
  BY <1>1
<1>5. \A i : i \in seen' <=> \E q \in 1..position : messages[q].id = i /\ Acceptable(messages[q])
  BY <1>3, <1>4 DEF Current
<1> QED
  BY <1>1, <1>2, <1>5 DEF Remembers

\* Whether an earlier acceptable message has the current id decides the promise.
LEMMA PromiseKept ==
  ASSUME IInv
  PROVE  Promised(position) = IF Current.id \in seen THEN "deduped"
                              ELSE IF Acceptable(Current) THEN "accepted" ELSE "dlq"
BY DEF IInv, Remembers, Promised, Current

\* A request that is answered, at once or at last, leaves nothing open.
LEMMA StitchingStep ==
  ASSUME IInv, position <= Len(messages), NEW how \in Hows, NEW emitted,
         emitted = Append(events, Event("notify.requested")) \/ (trying /\ emitted = events),
         events' = emitted \o <<Event(NotifyEvent[how])>>, trying' = FALSE
  PROVE  emitted \in Seq(NotifyEvents) /\ Stitching'
<1> DEFINE id == Current.id
<1>1. id \in Ids
  BY CurrentType DEF IInv
<1>2. NotifyEvent[how] \in {"notify.sent", "notify.deduped", "notify.dlq"}
  BY DEF NotifyEvent, Hows
<1>3. /\ Event("notify.requested") \in NotifyEvents
      /\ Event("notify.requested").type = "notify.requested"
      /\ Event("notify.requested").step = id
      /\ Event(NotifyEvent[how]) \in NotifyEvents
      /\ Event(NotifyEvent[how]).type # "notify.requested"
      /\ Event(NotifyEvent[how]).step = id
  BY <1>1, <1>2 DEF Event, NotifyEvents, NotifyTypes
<1>4. events \in Seq(NotifyEvents) /\ Closed(events) \subseteq Requested(events)
  BY DEF IInv, Stitching
<1>5. /\ emitted \in Seq(NotifyEvents)
      /\ id \in Requested(emitted)
      /\ Closed(emitted) \subseteq Requested(emitted)
      /\ Requested(emitted) \subseteq Closed(emitted) \union {id}
  <2>1. CASE trying /\ emitted = events
    BY <1>4, <2>1 DEF IInv, Stitching
  <2>2. CASE emitted = Append(events, Event("notify.requested"))
    <3>1. /\ emitted \in Seq(NotifyEvents)
          /\ Requested(emitted) = Requested(events) \union {id}
          /\ Closed(emitted) = Closed(events)
      BY <1>3, <1>4, <2>2, EventsAppend
    <3>2. Requested(events) \subseteq Closed(events) \union {id}
      BY DEF IInv, Stitching
    <3> QED
      BY <1>4, <3>1, <3>2
  <2> QED
    BY <2>1, <2>2
<1>6. /\ events' \in Seq(NotifyEvents)
      /\ Requested(events') = Requested(emitted)
      /\ Closed(events') = Closed(emitted) \union {id}
  BY <1>3, <1>5, EventsAppend
<1>7. Stitching' <=> /\ events' \in Seq(NotifyEvents)
                     /\ Closed(events') \subseteq Requested(events')
                     /\ Requested(events') \subseteq Closed(events')
  BY DEF Stitching, Closed, Requested, NotifyEvents, NotifyTypes
<1> QED
  BY <1>5, <1>6, <1>7

-----------------------------------------------------------------------------

LEMMA DedupeStep ==
  ASSUME IInv, Dedupe
  PROVE  IInv'
<1>1. /\ position <= Len(messages) /\ Current.id \in seen /\ seen' = seen
      /\ Settle("deduped", 0, Append(events, Event("notify.requested")))
  BY DEF Dedupe
<1>2. 0 \in 0..maxAttempts /\ "deduped" \in Hows
  BY DEF IInv, DeliveryTypeOK, Hows
<1>3. Settled([id |-> Current.id, how |-> "deduped", attempts |-> 0], position)
  BY <1>1, PromiseKept DEF Settled, Current
<1>4. Append(events, Event("notify.requested")) \in Seq(NotifyEvents) /\ Stitching'
  BY <1>1, <1>2, StitchingStep DEF Settle
<1>5. /\ AllSettled' /\ Counted'
      /\ dispositions' \in Seq(Disposition)
      /\ outcome' \in [Hows -> Nat]
      /\ position' \in 1..Len(messages) + 1
  BY <1>1, <1>2, <1>3, <1>4, SettleStep
<1>6. Remembers'
  BY <1>1, RememberStep DEF Settle
<1>7. DeliveryTypeOK'
  BY <1>1, <1>2, <1>5, SettleType DEF IInv, DeliveryTypeOK
<1> QED
  BY <1>4, <1>5, <1>6, <1>7 DEF IInv

LEMMA BeginStep ==
  ASSUME IInv, Begin
  PROVE  IInv'
<1>1. /\ position <= Len(messages) /\ ~trying /\ trying' /\ Current.id \notin seen
      /\ events' = Append(events, Event("notify.requested"))
      /\ UNCHANGED <<messages, maxAttempts, position, attempts, seen, outcome, dispositions>>
  BY DEF Begin
<1>2. DeliveryTypeOK'
  BY <1>1 DEF IInv, DeliveryTypeOK, Begin, Messages
<1>3. AllSettled' /\ Counted'
  BY <1>1 DEF IInv, AllSettled, Counted, Settled, Promised, Acceptable, Counting
<1>4. Remembers'
  BY <1>1 DEF IInv, Remembers, Acceptable, Current, DeliveryTypeOK
<1>5. Stitching'
  <2>1. Current.id \in Ids
    BY <1>1, CurrentType DEF IInv
  <2>2. /\ Event("notify.requested") \in NotifyEvents
        /\ Event("notify.requested").type = "notify.requested"
        /\ Event("notify.requested").step = Current.id
    BY <2>1 DEF Event, NotifyEvents, NotifyTypes
  <2>3. /\ events \in Seq(NotifyEvents)
        /\ Closed(events) \subseteq Requested(events) /\ Requested(events) \subseteq Closed(events)
    BY <1>1 DEF IInv, Stitching
  <2>4. /\ events' \in Seq(NotifyEvents)
        /\ Requested(events') = Requested(events) \union {Current.id}
        /\ Closed(events') = Closed(events)
    BY <1>1, <2>2, <2>3, EventsAppend
  <2>5. Stitching' <=> /\ events' \in Seq(NotifyEvents)
                       /\ Closed(events') \subseteq Requested(events')
                       /\ Current.id \in Requested(events')
                       /\ Requested(events') \subseteq Closed(events') \union {Current.id}
    BY <1>1 DEF Stitching, Closed, Requested, NotifyEvents, NotifyTypes, Current
  <2> QED
    BY <2>3, <2>4, <2>5
<1> QED
  BY <1>2, <1>3, <1>4, <1>5 DEF IInv

LEMMA AttemptStep ==
  ASSUME IInv, Attempt
  PROVE  IInv'
<1>1. trying /\ attempts < maxAttempts /\ attempts \in 0..maxAttempts /\ maxAttempts \in Nat
      /\ position <= Len(messages)
  BY DEF IInv, DeliveryTypeOK, Attempt
<1>2. Current.id \notin seen /\ \A n \in 1..attempts : ~Accepts(Current, n)
  BY <1>1 DEF IInv, Remembers
<1>3. attempts + 1 \in 1..maxAttempts
  BY <1>1
<1>4. CASE Accepts(Current, attempts + 1)
  <2>1. seen' = seen \union {Current.id} /\ Settle("accepted", attempts + 1, events)
    BY <1>4 DEF Attempt
  <2>2. Acceptable(Current)
    BY <1>3, <1>4 DEF Acceptable
  <2>3. \A n \in 1..maxAttempts : Accepts(Current, n) => n >= attempts + 1
    BY <1>1, <1>2
  <2>4. Settled([id |-> Current.id, how |-> "accepted", attempts |-> attempts + 1], position)
    BY <1>2, <1>4, <2>2, <2>3, PromiseKept DEF Settled, Current
  <2>5. attempts + 1 \in 0..maxAttempts /\ "accepted" \in Hows
    BY <1>3 DEF Hows
  <2>6. events \in Seq(NotifyEvents) /\ Stitching'
    BY <1>1, <2>1, <2>5, StitchingStep DEF Settle
  <2>7. /\ AllSettled' /\ Counted'
        /\ dispositions' \in Seq(Disposition)
        /\ outcome' \in [Hows -> Nat]
        /\ position' \in 1..Len(messages) + 1
    BY <1>1, <2>1, <2>4, <2>5, <2>6, SettleStep
  <2>8. Remembers'
    BY <1>1, <2>1, <2>2, RememberStep DEF Settle
  <2>9. Current.id \in Ids
    BY <1>1, CurrentType DEF IInv
  <2>10. DeliveryTypeOK'
    BY <2>1, <2>5, <2>7, <2>9, SettleType DEF IInv, DeliveryTypeOK
  <2> QED
    BY <2>6, <2>7, <2>8, <2>10 DEF IInv
<1>5. CASE ~Accepts(Current, attempts + 1)
  <2>1. /\ attempts' = attempts + 1
        /\ UNCHANGED <<messages, maxAttempts, position, trying, seen, outcome, dispositions, events>>
    BY <1>5 DEF Attempt
  <2>2. DeliveryTypeOK'
    BY <1>3, <2>1 DEF IInv, DeliveryTypeOK, Messages
  <2>3. AllSettled' /\ Counted' /\ Stitching'
    BY <2>1 DEF IInv, AllSettled, Counted, Settled, Promised, Acceptable, Counting,
                Stitching, Closed, Requested, NotifyEvents, NotifyTypes, Current
  <2>4. \A n \in 1..attempts' : ~Accepts(Current, n)
    BY <1>1, <1>2, <1>5, <2>1
  <2>5. Remembers'
    BY <1>1, <2>1, <2>4 DEF IInv, Remembers, Acceptable, Current
  <2> QED
    BY <2>2, <2>3, <2>5 DEF IInv
<1> QED
  BY <1>4, <1>5

LEMMA QuarantineStep ==
  ASSUME IInv, Quarantine
  PROVE  IInv'
<1>1. /\ trying /\ attempts = maxAttempts /\ maxAttempts \in Nat
      /\ position <= Len(messages)
      /\ Settle("dlq", attempts, events) /\ seen' = seen
  BY DEF IInv, DeliveryTypeOK, Quarantine
<1>2. Current.id \notin seen /\ ~Acceptable(Current)
  BY <1>1 DEF IInv, Remembers, Acceptable
<1>3. Settled([id |-> Current.id, how |-> "dlq", attempts |-> attempts], position)
  BY <1>1, <1>2, PromiseKept DEF Settled, Current, Acceptable
<1>4. attempts \in 0..maxAttempts /\ "dlq" \in Hows
  BY <1>1 DEF Hows
<1>5. events \in Seq(NotifyEvents) /\ Stitching'
  BY <1>1, <1>4, StitchingStep DEF Settle
<1>6. /\ AllSettled' /\ Counted'
      /\ dispositions' \in Seq(Disposition)
      /\ outcome' \in [Hows -> Nat]
      /\ position' \in 1..Len(messages) + 1
  BY <1>1, <1>3, <1>4, <1>5, SettleStep
<1>7. Remembers'
  BY <1>1, <1>2, RememberStep DEF Settle
<1>8. DeliveryTypeOK'
  BY <1>1, <1>4, <1>6, SettleType DEF IInv, DeliveryTypeOK
<1> QED
  BY <1>5, <1>6, <1>7, <1>8 DEF IInv

-----------------------------------------------------------------------------

LEMMA DeliveryInvariant == DeliverySpec => []IInv
<1>1. DeliveryInit => IInv
  <2> SUFFICES ASSUME DeliveryInit PROVE IInv
    OBVIOUS
  <2>1. DeliveryTypeOK /\ position = 1 /\ dispositions = <<>> /\ events = <<>>
    <3>1. messages \in Messages /\ Len(messages) \in Nat /\ maxAttempts \in Nat
      BY DEF DeliveryInit, Messages
    <3>2. 1 \in 1..Len(messages) + 1 /\ 0 \in 0..maxAttempts
      BY <3>1
    <3>3. /\ outcome \in [{"accepted", "deduped", "dlq"} -> Nat]
          /\ seen \subseteq Ids
          /\ trying = FALSE /\ position = 1 /\ attempts = 0 /\ dispositions = <<>> /\ events = <<>>
      BY DEF DeliveryInit, DeliveryStart
    <3>4. <<>> \in Seq([id : Ids, how : {"accepted", "deduped", "dlq"}, attempts : 0..maxAttempts])
      OBVIOUS
    <3> QED
      BY <3>1, <3>2, <3>3, <3>4 DEF DeliveryTypeOK
  <2>2. AllSettled
    BY <2>1 DEF AllSettled
  <2>3. Counted
    <3>1. \A how \in Hows : Counting(how, dispositions) = {}
      BY <2>1 DEF Counting
    <3>2. Cardinality({}) = 0
      BY FS_EmptySet
    <3>3. outcome["accepted"] = 0 /\ outcome["deduped"] = 0 /\ outcome["dlq"] = 0
      BY DEF DeliveryInit, DeliveryStart
    <3>4. ASSUME NEW how \in Hows PROVE outcome[how] = Cardinality(Counting(how, dispositions))
      <4>1. Cardinality(Counting(how, dispositions)) = 0
        BY <3>1, <3>2
      <4> QED
        BY <3>3, <4>1 DEF Hows
    <3> QED
      BY <3>4 DEF Counted
  <2>4. Remembers
    BY <2>1 DEF Remembers, DeliveryInit, DeliveryStart
  <2>5. Stitching
    <3>1. \A types : R!StepsOf(<<>>, types) = {}
      BY DEF R!StepsOf
    <3> QED
      BY <2>1, <3>1 DEF Stitching, Requested, Closed, DeliveryInit, DeliveryStart
  <2> QED
    BY <2>1, <2>2, <2>3, <2>4, <2>5 DEF IInv
<1>2. IInv /\ [DeliveryNext]_dvars => IInv'
  <2> SUFFICES ASSUME IInv, [DeliveryNext]_dvars PROVE IInv'
    OBVIOUS
  <2>1. CASE DeliveryNext
    BY <2>1, DedupeStep, BeginStep, AttemptStep, QuarantineStep DEF DeliveryNext
  <2>2. CASE UNCHANGED dvars
    <3>1. DeliveryTypeOK'
      BY <2>2 DEF dvars, IInv, DeliveryTypeOK, Messages
    <3>2. AllSettled' /\ Counted' /\ Remembers'
      BY <2>2 DEF dvars, IInv, AllSettled, Counted, Remembers, Settled, Promised, Acceptable,
                  Counting, Current
    <3>3. Stitching'
      BY <2>2 DEF dvars, IInv, Stitching, Closed, Requested, NotifyEvents, NotifyTypes, Current
    <3> QED
      BY <3>1, <3>2, <3>3 DEF IInv
  <2> QED
    BY <2>1, <2>2
<1> QED
  BY <1>1, <1>2, PTL DEF DeliverySpec

\* Whatever the receiver answers, the loop settles every message as the sequence
\* promises it, counts it, and leaves a stream of events in which nothing dangles
\* (runReliability, runDelivery).
THEOREM DeliverySettles == DeliverySpec => []EveryMessageSettled
<1>1. IInv => EveryMessageSettled
  <2> SUFFICES ASSUME IInv PROVE EveryMessageSettled
    OBVIOUS
  <2>1. SettledAsPromised
    <3>1. /\ Len(dispositions) = position - 1
          /\ \A p \in 1..(position - 1) : Settled(dispositions[p], p)
      BY DEF IInv, AllSettled
    <3> QED
      BY <3>1, Zenon DEF Settled, SettledAsPromised
  <2>2. ASSUME ~trying PROVE R!ChainComplete(events)
    <3>1. events \in Seq(NotifyEvents) /\ Requested(events) = Closed(events)
      BY <2>2 DEF IInv, Stitching
    <3> QED
      BY <3>1, StitchedIsComplete
  <2>3. CountedAndStitched
    BY <2>2 DEF IInv, Counted, Counting, Hows, CountedAndStitched
  <2> QED
    BY <2>1, <2>3 DEF EveryMessageSettled
<1> QED
  BY <1>1, DeliveryInvariant, PTL

-----------------------------------------------------------------------------
(* References.                                                             *)

RInv == WellFormed(sets) /\ (called => report = CheckReferentialIntegrity(sets))

-----------------------------------------------------------------------------

\* Half-open windows: coverage carries over every day, and, of a window that holds
\* some day, is told by the days on which something begins or ends.
LEMMA CoverageIsContainment ==
  ASSUME NEW outer, NEW inner, Window(outer), Window(inner), WindowCovers(outer, inner),
         NEW d \in Int, InEffect(d, inner)
  PROVE  InEffect(d, outer)
BY OpenAssumption DEF Window, WindowCovers, InEffect

LEMMA ContainmentIsCoverage ==
  ASSUME NEW outer, NEW inner, Window(outer), Window(inner), NEW days \in SUBSET Int,
         {outer.from, inner.from} \subseteq days, outer.to # Open => outer.to \in days,
         \E d \in Int : InEffect(d, inner),
         \A d \in days : InEffect(d, inner) => InEffect(d, outer)
  PROVE  WindowCovers(outer, inner)
<1>1. /\ outer.from \in Int /\ inner.from \in Int
      /\ outer.to = Open \/ outer.to \in Int
      /\ inner.to = Open \/ inner.to \in Int
  BY DEF Window
<1>2. InEffect(inner.from, inner)
  BY <1>1, OpenAssumption DEF InEffect
<1>3. InEffect(inner.from, outer)
  BY <1>2
<1>4. outer.from <= inner.from
  BY <1>3 DEF InEffect
<1>5. CASE outer.to # Open
  <2>1. outer.to \in days /\ outer.to \in Int /\ ~InEffect(outer.to, outer)
    BY <1>1, <1>5 DEF InEffect
  <2>2. ~InEffect(outer.to, inner)
    BY <2>1
  <2>3. inner.from < outer.to
    BY <1>3, <1>5 DEF InEffect
  <2> QED
    BY <1>1, <1>4, <2>1, <2>2, <2>3 DEF InEffect, WindowCovers
<1> QED
  BY <1>4, <1>5 DEF WindowCovers

-----------------------------------------------------------------------------

\* Of the documents with a key, and of a document's rows with a code, one counts.
LEMMA LiveWindowUnique ==
  ASSUME NEW docs, NEW ref, Len(docs) \in Nat,
         \A i \in 1..Len(docs) : Len(docs[i].rows) \in Nat,
         NEW v \in LiveWindows(docs, ref), NEW w \in LiveWindows(docs, ref)
  PROVE  v = w
<1>1. \A a, b \in Documents(docs, ref.key) : a = b
  BY DEF Documents
<1>2. \A a \in Documents(docs, ref.key) : \A r, s \in Rows(a, ref.code) : r = s
  BY DEF Documents, Rows
<1>3. PICK a \in Documents(docs, ref.key) : \E r \in Rows(a, ref.code) : v = WindowOf(a, r)
  BY DEF LiveWindows
<1>4. PICK b \in Documents(docs, ref.key) : \E s \in Rows(b, ref.code) : w = WindowOf(b, s)
  BY DEF LiveWindows
<1>5. a = b
  BY <1>1
<1> QED
  BY <1>2, <1>3, <1>4, <1>5

\* Every window that the check compares begins and ends on the turns.
LEMMA WindowsOfDocuments ==
  ASSUME NEW docs, WellFormed(docs), NEW i \in 1..Len(docs), NEW j \in 1..Len(docs[i].rows)
  PROVE  LET w == WindowOf(docs[i], docs[i].rows[j])
         IN  Window(w) /\ w.from \in Turns(docs) /\ (w.to # Open => w.to \in Turns(docs))
<1> DEFINE w == WindowOf(docs[i], docs[i].rows[j])
<1>1. Window(w)
  BY DEF WellFormed, WindowOf
<1>2. w \in UNION {{docs[k].effective} \union {WindowOf(docs[k], docs[k].rows[l]) :
                     l \in 1..Len(docs[k].rows)} : k \in 1..Len(docs)}
  OBVIOUS
<1> HIDE DEF w
<1>3. w.from \in Turns(docs) /\ (w.to # Open => w.to \in Turns(docs))
  BY <1>2 DEF Turns
<1> QED
  BY <1>1, <1>3 DEF w

LEMMA WindowsOfLive ==
  ASSUME NEW docs, WellFormed(docs), NEW ref, NEW w \in LiveWindows(docs, ref)
  PROVE  Window(w) /\ w.from \in Turns(docs) /\ (w.to # Open => w.to \in Turns(docs))
<1>1. PICK a \in Documents(docs, ref.key) : \E r \in Rows(a, ref.code) : w = WindowOf(a, r)
  BY DEF LiveWindows
<1>2. PICK i \in 1..Len(docs) : a = docs[i]
  BY DEF Documents
<1>3. PICK j \in 1..Len(docs[i].rows) : w = WindowOf(docs[i], docs[i].rows[j])
  BY <1>1, <1>2 DEF Rows
<1> QED
  BY <1>3, WindowsOfDocuments

LEMMA WindowsOfColumns ==
  ASSUME NEW docs, WellFormed(docs), NEW c \in CodeRefs(docs)
  PROVE  Window(c.window) /\ c.window.from \in Turns(docs)
<1>1. PICK i \in 1..Len(docs) : \E j \in 1..Len(docs[i].rows) : \E ref \in docs[i].rows[j].refs :
        c = [at |-> <<i, j>>, ref |-> ref, window |-> WindowOf(docs[i], docs[i].rows[j])]
  BY DEF CodeRefs
<1>2. PICK j \in 1..Len(docs[i].rows) : c.window = WindowOf(docs[i], docs[i].rows[j])
  BY <1>1
<1> QED
  BY <1>2, WindowsOfDocuments

LEMMA ReportOfColumns ==
  ASSUME NEW docs
  PROVE  Passes(CheckReferentialIntegrity(docs)) <=>
           \A c \in CodeRefs(docs) : /\ LiveWindows(docs, c.ref) # {}
                                     /\ \E w \in LiveWindows(docs, c.ref) : WindowCovers(w, c.window)
<1> DEFINE entry(c) ==
      [at |-> c.at, ref |-> c.ref,
       resolves |-> LiveWindows(docs, c.ref) # {},
       covered |-> \E w \in LiveWindows(docs, c.ref) : WindowCovers(w, c.window)]
<1>1. CheckReferentialIntegrity(docs) = {entry(c) : c \in CodeRefs(docs)}
  BY DEF CheckReferentialIntegrity
<1>2. \A c : /\ entry(c).resolves <=> LiveWindows(docs, c.ref) # {}
             /\ entry(c).covered <=> \E w \in LiveWindows(docs, c.ref) : WindowCovers(w, c.window)
  OBVIOUS
<1> HIDE DEF entry
<1> QED
  BY <1>1, <1>2 DEF Passes

\* A column that passes has no gap, and one that is in effect on some day and has
\* none passes.
LEMMA CoveredHasNoGap ==
  ASSUME NEW docs, WellFormed(docs), NEW c \in CodeRefs(docs),
         NEW w \in LiveWindows(docs, c.ref), WindowCovers(w, c.window)
  PROVE  ~Gap(docs, c)
<1>1. Window(w) /\ Window(c.window)
  BY WindowsOfLive, WindowsOfColumns
<1>2. ASSUME NEW d \in Dates, InEffect(d, c.window) PROVE InEffect(d, w)
  BY <1>1, <1>2, DatesAssumption, CoverageIsContainment
<1> QED
  BY <1>2 DEF Gap

LEMMA NoGapIsCovered ==
  ASSUME NEW docs, WellFormed(docs), NEW c \in CodeRefs(docs), Turns(docs) \subseteq Dates,
         NEW d \in Dates, InEffect(d, c.window), ~Gap(docs, c)
  PROVE  \E w \in LiveWindows(docs, c.ref) : WindowCovers(w, c.window)
<1>1. PICK w \in LiveWindows(docs, c.ref) : InEffect(d, w)
  BY DEF Gap
<1>2. \A v \in LiveWindows(docs, c.ref) : v = w
  BY LiveWindowUnique DEF WellFormed
<1>3. \A e \in Dates : InEffect(e, c.window) => InEffect(e, w)
  BY <1>2 DEF Gap
<1>4. /\ Window(w) /\ w.from \in Dates /\ (w.to # Open => w.to \in Dates)
      /\ Window(c.window) /\ c.window.from \in Dates
  BY WindowsOfLive, WindowsOfColumns
<1>5. WindowCovers(w, c.window)
  <2>1. d \in Int /\ Dates \in SUBSET Int
    BY DatesAssumption
  <2> QED
    BY <1>3, <1>4, <2>1, ContainmentIsCoverage
<1> QED
  BY <1>5

-----------------------------------------------------------------------------

LEMMA ReferenceInvariant == ReferenceSpec => []RInv
<1>1. ReferenceInit => RInv
  BY DEF ReferenceInit, NotCalled, RInv
<1>2. RInv /\ [Call]_rvars => RInv'
  <2> SUFFICES ASSUME RInv, [Call]_rvars PROVE RInv'
    OBVIOUS
  <2>1. sets' = sets
    BY DEF Call, rvars
  <2>2. WellFormed(sets)' <=> WellFormed(sets')
    BY DEF WellFormed, Window
  <2>3. WellFormed(sets)'
    BY <2>1, <2>2 DEF RInv
  <2>4. CheckReferentialIntegrity(sets)' = CheckReferentialIntegrity(sets)
    BY <2>1, Zenon
  <2>5. CASE Call
    BY <2>3, <2>4, <2>5 DEF Call, RInv
  <2>6. CASE UNCHANGED rvars
    BY <2>3, <2>4, <2>6 DEF rvars, RInv
  <2> QED
    BY <2>5, <2>6
<1> QED
  BY <1>1, <1>2, PTL DEF ReferenceSpec

\* The scope's report passes exactly when no row is ever in effect on a day on which
\* what it names is not, for all documents and days (checkReferentialIntegrity).
THEOREM ReferentsAreAvailable == ReferenceSpec => []ReferentsAvailable
<1>1. RInv => ReferentsAvailable
  <2> SUFFICES ASSUME RInv, called PROVE ReferentsAvailable
    BY DEF ReferentsAvailable
  <2>1. WellFormed(sets) /\ report = CheckReferentialIntegrity(sets)
    BY DEF RInv
  <2>2. ASSUME Passes(report), NEW c \in CodeRefs(sets) PROVE ~Gap(sets, c)
    <3>1. PICK w \in LiveWindows(sets, c.ref) : WindowCovers(w, c.window)
      BY <2>1, <2>2, ReportOfColumns
    <3> QED
      BY <2>1, <3>1, CoveredHasNoGap
  <2>3. ASSUME Turns(sets) \subseteq Dates,
               \A c \in CodeRefs(sets) : (\E d \in Dates : InEffect(d, c.window)) /\ ~Gap(sets, c)
        PROVE  Passes(report)
    <3>1. ASSUME NEW c \in CodeRefs(sets)
          PROVE  \E w \in LiveWindows(sets, c.ref) : WindowCovers(w, c.window)
      BY <2>1, <2>3, NoGapIsCovered
    <3> QED
      BY <2>1, <3>1, ReportOfColumns
  <2> QED
    BY <2>2, <2>3 DEF ReferentsAvailable
<1> QED
  BY <1>1, ReferenceInvariant, PTL

-----------------------------------------------------------------------------
(* The walks of the translation, as functions from the number of their     *)
(* steps.                                                                  *)

\* The states of a walk and of a translation before their first steps.
Entered(heap, target) == [heap |-> heap, node |-> target]
Begun(heap) == [heap |-> Append(heap, NewObject), raised |-> FALSE]

\* The values on the way of a pointer: after none of its tokens, after one, up to n.
Following(f, heap, doc, pointer, n) ==
  f = [k \in 0..n |-> IF k = 0 THEN doc
                        ELSE Member(heap, f[k - 1], pointer[k])]

LEMMA FollowingFirst ==
  ASSUME NEW heap, NEW doc, NEW pointer, NEW n \in Nat, NEW f, Following(f, heap, doc, pointer, n)
  PROVE  f[0] = doc
<1>1. \A k \in 0..n : f[k] = IF k = 0 THEN doc
                           ELSE Member(heap, f[k - 1], pointer[k])
  BY DEF Following
<1> QED
  BY <1>1

LEMMA FollowingNext ==
  ASSUME NEW heap, NEW doc, NEW pointer, NEW n \in Nat, NEW f, Following(f, heap, doc, pointer, n)
  PROVE  \A k \in 1..n : f[k] = Member(heap, f[k - 1], pointer[k])
<1>1. \A k \in 0..n : f[k] = IF k = 0 THEN doc
                           ELSE Member(heap, f[k - 1], pointer[k])
  BY DEF Following
<1> QED
  BY <1>1

LEMMA FollowingExists ==
  ASSUME NEW heap, NEW doc, NEW pointer, NEW n \in Nat
  PROVE  \E f : Following(f, heap, doc, pointer, n)
<1> DEFINE S == {k \in Nat : \E f : Following(f, heap, doc, pointer, k)}
<1>1. 0 \in S
  <2>1. \E f : f = [k \in 0..0 |-> doc]
    OBVIOUS
  <2>2. PICK f : f = [k \in 0..0 |-> doc]
    BY <2>1
  <2>3. Following(f, heap, doc, pointer, 0)
    BY <2>2 DEF Following
  <2> QED
    BY <2>3
<1>2. ASSUME NEW m \in Nat, m \in S PROVE m + 1 \in S
  <2>1. PICK a : Following(a, heap, doc, pointer, m)
    BY <1>2
  <2>2. /\ a[0] = doc
        /\ \A k \in 1..m : a[k] = Member(heap, a[k - 1], pointer[k])
    <3>1. a[0] = doc
      BY <2>1, FollowingFirst
    <3>2. \A k \in 1..m : a[k] = Member(heap, a[k - 1], pointer[k])
      BY <2>1, FollowingNext
    <3> QED
      BY <3>1, <3>2
  <2> DEFINE b == [k \in 0..(m + 1) |->
                     IF k = m + 1 THEN Member(heap, a[m], pointer[m + 1]) ELSE a[k]]
  <2>3. ASSUME NEW k \in 0..(m + 1) 
        PROVE  b[k] = IF k = 0 THEN doc ELSE Member(heap, b[k - 1], pointer[k])
    <3>1. CASE k = 0
      BY <2>2, <3>1
    <3>2. CASE k \in 1..m
      <4>1. k - 1 \in 0..(m + 1) /\ k - 1 # m + 1 /\ k # m + 1 /\ k # 0
        BY <3>2
      <4>2. b[k] = a[k] /\ b[k - 1] = a[k - 1]
        BY <4>1
      <4> HIDE DEF b
      <4> QED
        BY <2>2, <3>2, <4>1, <4>2
    <3>3. CASE k = m + 1
      <4>1. m \in 0..(m + 1) /\ m # m + 1 /\ k # 0 /\ k - 1 = m
        BY <3>3
      <4>2. b[k] = Member(heap, a[m], pointer[m + 1]) /\ b[m] = a[m]
        BY <3>3, <4>1
      <4> HIDE DEF b
      <4> QED
        BY <3>3, <4>1, <4>2
    <3> QED
      BY <3>1, <3>2, <3>3
  <2>4. b = [k \in 0..(m + 1) |-> b[k]]
    OBVIOUS
  <2> HIDE DEF b
  <2>5. Following(b, heap, doc, pointer, m + 1)
    BY <2>3, <2>4 DEF Following
  <2> QED
    BY <2>5
<1> HIDE DEF S
<1>3. \A k \in 0..n : k \in S
  <2>1. 0 \in Nat
    OBVIOUS
  <2> QED
    BY <1>1, <1>2, <2>1, StepByStep
<1>4. n \in S
  BY <1>3
<1> QED
  BY <1>4 DEF S

\* The walk of setDotted: after none of the tokens of its path, after one, up to n.
Walking(f, heap, target, path, n) ==
  f = [k \in 0..n |-> IF k = 0 THEN Entered(heap, target)
                        ELSE Descend(f[k - 1], path[k])]

LEMMA WalkingFirst ==
  ASSUME NEW heap, NEW target, NEW path, NEW n \in Nat, NEW f, Walking(f, heap, target, path, n)
  PROVE  f[0] = Entered(heap, target)
<1>1. \A k \in 0..n : f[k] = IF k = 0 THEN Entered(heap, target)
                           ELSE Descend(f[k - 1], path[k])
  BY DEF Walking
<1> QED
  BY <1>1

LEMMA WalkingNext ==
  ASSUME NEW heap, NEW target, NEW path, NEW n \in Nat, NEW f, Walking(f, heap, target, path, n)
  PROVE  \A k \in 1..n : f[k] = Descend(f[k - 1], path[k])
<1>1. \A k \in 0..n : f[k] = IF k = 0 THEN Entered(heap, target)
                           ELSE Descend(f[k - 1], path[k])
  BY DEF Walking
<1> QED
  BY <1>1

LEMMA WalkingExists ==
  ASSUME NEW heap, NEW target, NEW path, NEW n \in Nat
  PROVE  \E f : Walking(f, heap, target, path, n)
<1> DEFINE S == {k \in Nat : \E f : Walking(f, heap, target, path, k)}
<1>1. 0 \in S
  <2>1. \E f : f = [k \in 0..0 |-> Entered(heap, target)]
    OBVIOUS
  <2>2. PICK f : f = [k \in 0..0 |-> Entered(heap, target)]
    BY <2>1
  <2>3. Walking(f, heap, target, path, 0)
    BY <2>2 DEF Walking
  <2> QED
    BY <2>3
<1>2. ASSUME NEW m \in Nat, m \in S PROVE m + 1 \in S
  <2>1. PICK a : Walking(a, heap, target, path, m)
    BY <1>2
  <2>2. /\ a[0] = Entered(heap, target)
        /\ \A k \in 1..m : a[k] = Descend(a[k - 1], path[k])
    <3>1. a[0] = Entered(heap, target)
      BY <2>1, WalkingFirst
    <3>2. \A k \in 1..m : a[k] = Descend(a[k - 1], path[k])
      BY <2>1, WalkingNext
    <3> QED
      BY <3>1, <3>2
  <2> DEFINE b == [k \in 0..(m + 1) |->
                     IF k = m + 1 THEN Descend(a[m], path[m + 1]) ELSE a[k]]
  <2>3. ASSUME NEW k \in 0..(m + 1) 
        PROVE  b[k] = IF k = 0 THEN Entered(heap, target) ELSE Descend(b[k - 1], path[k])
    <3>1. CASE k = 0
      BY <2>2, <3>1
    <3>2. CASE k \in 1..m
      <4>1. k - 1 \in 0..(m + 1) /\ k - 1 # m + 1 /\ k # m + 1 /\ k # 0
        BY <3>2
      <4>2. b[k] = a[k] /\ b[k - 1] = a[k - 1]
        BY <4>1
      <4> HIDE DEF b
      <4> QED
        BY <2>2, <3>2, <4>1, <4>2
    <3>3. CASE k = m + 1
      <4>1. m \in 0..(m + 1) /\ m # m + 1 /\ k # 0 /\ k - 1 = m
        BY <3>3
      <4>2. b[k] = Descend(a[m], path[m + 1]) /\ b[m] = a[m]
        BY <3>3, <4>1
      <4> HIDE DEF b
      <4> QED
        BY <3>3, <4>1, <4>2
    <3> QED
      BY <3>1, <3>2, <3>3
  <2>4. b = [k \in 0..(m + 1) |-> b[k]]
    OBVIOUS
  <2> HIDE DEF b
  <2>5. Walking(b, heap, target, path, m + 1)
    BY <2>3, <2>4 DEF Walking
  <2> QED
    BY <2>5
<1> HIDE DEF S
<1>3. \A k \in 0..n : k \in S
  <2>1. 0 \in Nat
    OBVIOUS
  <2> QED
    BY <1>1, <1>2, <2>1, StepByStep
<1>4. n \in S
  BY <1>3
<1> QED
  BY <1>4 DEF S

\* The translation after no rule, after one, up to n.
Applying(f, rules, heap, wire, n) ==
  f = [k \in 0..n |-> IF k = 0 THEN Begun(heap)
                        ELSE ApplyRule(rules[k], wire, Len(heap) + 1, f[k - 1])]

LEMMA ApplyingFirst ==
  ASSUME NEW rules, NEW heap, NEW wire, NEW n \in Nat, NEW f, Applying(f, rules, heap, wire, n)
  PROVE  f[0] = Begun(heap)
<1>1. \A k \in 0..n : f[k] = IF k = 0 THEN Begun(heap)
                           ELSE ApplyRule(rules[k], wire, Len(heap) + 1, f[k - 1])
  BY DEF Applying
<1> QED
  BY <1>1

LEMMA ApplyingNext ==
  ASSUME NEW rules, NEW heap, NEW wire, NEW n \in Nat, NEW f, Applying(f, rules, heap, wire, n)
  PROVE  \A k \in 1..n : f[k] = ApplyRule(rules[k], wire, Len(heap) + 1, f[k - 1])
<1>1. \A k \in 0..n : f[k] = IF k = 0 THEN Begun(heap)
                           ELSE ApplyRule(rules[k], wire, Len(heap) + 1, f[k - 1])
  BY DEF Applying
<1> QED
  BY <1>1

LEMMA ApplyingExists ==
  ASSUME NEW rules, NEW heap, NEW wire, NEW n \in Nat
  PROVE  \E f : Applying(f, rules, heap, wire, n)
<1> DEFINE S == {k \in Nat : \E f : Applying(f, rules, heap, wire, k)}
<1>1. 0 \in S
  <2>1. \E f : f = [k \in 0..0 |-> Begun(heap)]
    OBVIOUS
  <2>2. PICK f : f = [k \in 0..0 |-> Begun(heap)]
    BY <2>1
  <2>3. Applying(f, rules, heap, wire, 0)
    BY <2>2 DEF Applying
  <2> QED
    BY <2>3
<1>2. ASSUME NEW m \in Nat, m \in S PROVE m + 1 \in S
  <2>1. PICK a : Applying(a, rules, heap, wire, m)
    BY <1>2
  <2>2. /\ a[0] = Begun(heap)
        /\ \A k \in 1..m : a[k] = ApplyRule(rules[k], wire, Len(heap) + 1, a[k - 1])
    <3>1. a[0] = Begun(heap)
      BY <2>1, ApplyingFirst
    <3>2. \A k \in 1..m : a[k] = ApplyRule(rules[k], wire, Len(heap) + 1, a[k - 1])
      BY <2>1, ApplyingNext
    <3> QED
      BY <3>1, <3>2
  <2> DEFINE b == [k \in 0..(m + 1) |->
                     IF k = m + 1 THEN ApplyRule(rules[m + 1], wire, Len(heap) + 1, a[m]) ELSE a[k]]
  <2>3. ASSUME NEW k \in 0..(m + 1) 
        PROVE  b[k] = IF k = 0 THEN Begun(heap) ELSE ApplyRule(rules[k], wire, Len(heap) + 1, b[k - 1])
    <3>1. CASE k = 0
      BY <2>2, <3>1
    <3>2. CASE k \in 1..m
      <4>1. k - 1 \in 0..(m + 1) /\ k - 1 # m + 1 /\ k # m + 1 /\ k # 0
        BY <3>2
      <4>2. b[k] = a[k] /\ b[k - 1] = a[k - 1]
        BY <4>1
      <4> HIDE DEF b
      <4> QED
        BY <2>2, <3>2, <4>1, <4>2
    <3>3. CASE k = m + 1
      <4>1. m \in 0..(m + 1) /\ m # m + 1 /\ k # 0 /\ k - 1 = m
        BY <3>3
      <4>2. b[k] = ApplyRule(rules[m + 1], wire, Len(heap) + 1, a[m]) /\ b[m] = a[m]
        BY <3>3, <4>1
      <4> HIDE DEF b
      <4> QED
        BY <3>3, <4>1, <4>2
    <3> QED
      BY <3>1, <3>2, <3>3
  <2>4. b = [k \in 0..(m + 1) |-> b[k]]
    OBVIOUS
  <2> HIDE DEF b
  <2>5. Applying(b, rules, heap, wire, m + 1)
    BY <2>3, <2>4 DEF Applying
  <2> QED
    BY <2>5
<1> HIDE DEF S
<1>3. \A k \in 0..n : k \in S
  <2>1. 0 \in Nat
    OBVIOUS
  <2> QED
    BY <1>1, <1>2, <2>1, StepByStep
<1>4. n \in S
  BY <1>3
<1> QED
  BY <1>4 DEF S

\* ResolvePointer, SetDotted and Applied in the terms of these.
LEMMA Resolving ==
  ASSUME NEW heap, NEW doc, NEW pointer, Len(pointer) \in Nat
  PROVE  \E f : /\ Following(f, heap, doc, pointer, Len(pointer))
                /\ ResolvePointer(heap, doc, pointer) = f[Len(pointer)]
<1> DEFINE f == CHOOSE f : Following(f, heap, doc, pointer, Len(pointer))
<1>1. Following(f, heap, doc, pointer, Len(pointer))
  BY FollowingExists
<1>2. ResolvePointer(heap, doc, pointer) = f[Len(pointer)]
  BY DEF ResolvePointer, Following
<1> QED
  BY <1>1, <1>2

LEMMA Setting ==
  ASSUME NEW heap, NEW target, NEW path, NEW value, Len(path) \in Nat, Len(path) > 0
  PROVE  \E f : /\ Walking(f, heap, target, path, Len(path) - 1)
                /\ SetDotted(heap, target, path, value)
                     = Put(f[Len(path) - 1].heap, f[Len(path) - 1].node, path[Len(path)], value)
<1> DEFINE f == CHOOSE f : Walking(f, heap, target, path, Len(path) - 1)
<1>1. Len(path) - 1 \in Nat
  OBVIOUS
<1>2. Walking(f, heap, target, path, Len(path) - 1)
  BY <1>1, WalkingExists
<1>3. SetDotted(heap, target, path, value)
        = Put(f[Len(path) - 1].heap, f[Len(path) - 1].node, path[Len(path)], value)
  BY DEF SetDotted, Walking, Entered
<1> QED
  BY <1>2, <1>3

LEMMA ApplyingAll ==
  ASSUME NEW rules, NEW heap, NEW wire, Len(rules) \in Nat
  PROVE  \E f : /\ Applying(f, rules, heap, wire, Len(rules))
                /\ Applied(rules, heap, wire) = f[Len(rules)]
<1> DEFINE f == CHOOSE f : Applying(f, rules, heap, wire, Len(rules))
<1>1. Applying(f, rules, heap, wire, Len(rules))
  BY ApplyingExists
<1>2. Applied(rules, heap, wire) = f[Len(rules)]
  BY DEF Applied, Applying, Begun
<1> QED
  BY <1>1, <1>2

-----------------------------------------------------------------------------
(* Heaps.                                                                  *)

Path == Seq(Tokens)

LEMMA Heaps ==
  ASSUME NEW h, IsHeap(h)
  PROVE  /\ Len(h) \in Nat /\ DOMAIN h = 1..Len(h)
         /\ \A v \in Atoms \union {Undefined} : v \notin DOMAIN h
         /\ \A v, t : Member(h, v, t) \in Atoms \union DOMAIN h \union {Undefined}
         /\ \A v, t : v \notin DOMAIN h => Member(h, v, t) = Undefined
<1>1. h \in Seq(Range(h))
  BY DEF IsHeap
<1>2. Len(h) \in Nat /\ DOMAIN h = 1..Len(h)
  BY <1>1
<1>3. \A v \in Atoms \union {Undefined} : v \notin DOMAIN h
  BY <1>2, MessagesAssumption
<1>4. \A v, t : Member(h, v, t) \in Atoms \union DOMAIN h \union {Undefined}
  BY DEF Member, IsHeap
<1> QED
  BY <1>2, <1>3, <1>4 DEF Member

LEMMA IsSequence ==
  ASSUME NEW S, NEW h \in Seq(S)
  PROVE  h \in Seq(Range(h))
<1>1. \A i \in 1..Len(h) : h[i] \in Range(h)
  BY DEF Range
<1> QED
  BY <1>1

LEMMA OneMore ==
  ASSUME NEW h, h \in Seq(Range(h)), NEW object
  PROVE  LET g == Append(h, object) IN
         /\ g \in Seq(Range(g)) /\ Len(g) = Len(h) + 1 /\ DOMAIN g = 1..(Len(h) + 1)
         /\ g[Len(h) + 1] = object /\ \A o \in 1..Len(h) : g[o] = h[o]
<1> DEFINE S == Range(h) \union {object}
           g == Append(h, object)
<1>1. h \in Seq(S)
  BY SeqMonotonic
<1>2. object \in S
  OBVIOUS
<1> HIDE DEF S
<1>3. g \in Seq(S) /\ Len(g) = Len(h) + 1 /\ DOMAIN g = 1..(Len(h) + 1)
      /\ g[Len(h) + 1] = object /\ \A o \in 1..Len(h) : g[o] = h[o]
  BY <1>1, <1>2
<1>4. g \in Seq(Range(g))
  BY <1>3, IsSequence
<1> QED
  BY <1>3, <1>4

LEMMA MemberPut ==
  ASSUME NEW h, h \in Seq(Range(h)), NEW object \in DOMAIN h, NEW t, NEW v
  PROVE  LET g == Put(h, object, t, v) IN
         /\ g \in Seq(Range(g)) /\ Len(g) = Len(h) /\ DOMAIN g = DOMAIN h
         /\ \A o \in DOMAIN h \ {object} : g[o] = h[o]
         /\ \A x : x \in DOMAIN g[object] => x = t \/ x \in DOMAIN h[object]
         /\ \A u, x : Member(g, u, x) = IF u = object /\ x = t THEN v ELSE Member(h, u, x)
<1> DEFINE changed == [x \in DOMAIN h[object] \union {t} |-> IF x = t THEN v ELSE h[object][x]]
           g == Put(h, object, t, v)
           S == Range(h) \union {changed}
<1>1. g = [h EXCEPT ![object] = changed]
  BY DEF Put
<1>2. h \in Seq(S)
  BY SeqMonotonic
<1>3. changed \in S /\ object \in 1..Len(h) /\ Len(h) \in Nat /\ DOMAIN h = 1..Len(h)
  OBVIOUS
<1>4. /\ DOMAIN changed = DOMAIN h[object] \union {t}
      /\ \A x \in DOMAIN changed : changed[x] = IF x = t THEN v ELSE h[object][x]
  OBVIOUS
<1> HIDE DEF changed, S
<1>5. /\ g \in Seq(S) /\ Len(g) = Len(h) /\ DOMAIN g = DOMAIN h
      /\ g[object] = changed /\ \A o \in DOMAIN h \ {object} : g[o] = h[o]
  BY <1>1, <1>2, <1>3, ExceptSeq
<1>6. g \in Seq(Range(g))
  BY <1>5, IsSequence
<1> HIDE DEF g
<1>7. \A x : x \in DOMAIN g[object] => x = t \/ x \in DOMAIN h[object]
  BY <1>4, <1>5
<1>8. ASSUME NEW u, NEW x
      PROVE  Member(g, u, x) = IF u = object /\ x = t THEN v ELSE Member(h, u, x)
  <2>1. CASE u = object
    BY <1>4, <1>5, <2>1 DEF Member
  <2>2. CASE u # object
    BY <1>5, <2>2 DEF Member
  <2> QED
    BY <2>1, <2>2
<1> QED
  BY <1>5, <1>6, <1>8, <1>7 DEF g

LEMMA MemberNew ==
  ASSUME NEW h, h \in Seq(Range(h))
  PROVE  \A u, x : Member(Append(h, NewObject), u, x)
                     = IF u \in DOMAIN h THEN Member(h, u, x) ELSE Undefined
<1> DEFINE g == Append(h, NewObject)
<1>1. /\ Len(h) \in Nat /\ DOMAIN h = 1..Len(h) /\ DOMAIN g = 1..(Len(h) + 1)
      /\ g[Len(h) + 1] = NewObject /\ \A o \in 1..Len(h) : g[o] = h[o]
  BY OneMore
<1>2. DOMAIN NewObject = {}
  BY DEF NewObject
<1> HIDE DEF g
<1>3. ASSUME NEW u, NEW x
      PROVE  Member(g, u, x) = IF u \in DOMAIN h THEN Member(h, u, x) ELSE Undefined
  <2>1. CASE u \in DOMAIN h
    BY <1>1, <2>1 DEF Member
  <2>2. CASE u = Len(h) + 1
    BY <1>1, <1>2, <2>2 DEF Member
  <2>3. CASE u \notin DOMAIN g
    BY <1>1, <2>3 DEF Member
  <2> QED
    BY <1>1, <2>1, <2>2, <2>3
<1> QED
  BY <1>3 DEF g

-----------------------------------------------------------------------------
(* What a translation makes: objects of its own, each with the path that   *)
(* it is at in the payload.                                                *)

Fresh(source, h) == (Len(source) + 1)..Len(h)

Leads(l, path) == Len(l) <= Len(path) /\ \A i \in 1..Len(l) : l[i] = path[i]

OnTheWay(l, t, path) == Leads(l, path) /\ Len(l) < Len(path) /\ path[Len(l) + 1] = t

\* h is the source and objects made since, `at' their paths: the payload has none.
Grown(source, h, at) ==
  /\ IsHeap(h) /\ Len(source) < Len(h)
  /\ \A o \in 1..Len(source) : h[o] = source[o]
  /\ \A u \in Fresh(source, h) : at[u] \in Path
  /\ at[Len(source) + 1] = <<>>
  /\ \A u \in Fresh(source, h) : \A t :
       Member(h, u, t) \in Fresh(source, h) => at[Member(h, u, t)] = Append(at[u], t)

LEMMA OneStep ==
  ASSUME NEW l \in Path, NEW t \in Tokens
  PROVE  Append(l, t) \in Path /\ Len(Append(l, t)) = Len(l) + 1 /\ Len(l) \in Nat
BY DEF Path

LEMMA Steps ==
  ASSUME NEW l \in Path, NEW t \in Tokens, NEW path \in Path
  PROVE  /\ Append(l, t) \in Path /\ Len(Append(l, t)) = Len(l) + 1 /\ Len(l) \in Nat
         /\ OnTheWay(l, t, path) <=> Leads(Append(l, t), path)
<1>1. /\ Len(l) \in Nat /\ Len(path) \in Nat
      /\ Append(l, t) \in Path /\ Len(Append(l, t)) = Len(l) + 1
      /\ Append(l, t)[Len(l) + 1] = t /\ \A i \in 1..Len(l) : Append(l, t)[i] = l[i]
  BY DEF Path
<1>2. PICK m : m = Append(l, t)
  OBVIOUS
<1>3. OnTheWay(l, t, path) <=> Leads(m, path)
  BY <1>1, <1>2 DEF OnTheWay, Leads
<1> QED
  BY <1>1, <1>2, <1>3

\* The paths once a new object is at a path.
Settling(source, h, at, new, path) ==
  [u \in Fresh(source, h) |-> IF u = new THEN path ELSE at[u]]

\* A new object becomes member t of another.
AddsChild(source, h, at, node, t, new, h2, at2) ==
  /\ IsHeap(source) /\ Grown(source, h, at)
  /\ node \in Fresh(source, h) /\ t \in Tokens /\ new = Len(h) + 1
  /\ h2 = Append(Put(h, node, t, new), NewObject)
  /\ at2 = Settling(source, h2, at, new, Append(at[node], t))

LEMMA NewChild ==
  ASSUME NEW source, NEW h, NEW at, NEW node, NEW t, NEW new, NEW h2, NEW at2,
         AddsChild(source, h, at, node, t, new, h2, at2)
  PROVE  /\ Grown(source, h2, at2) /\ Len(h2) = new
         /\ \A u \in Fresh(source, h) : at2[u] = at[u]
         /\ at2[new] = Append(at[node], t)
         /\ \A u, x : Member(h2, u, x) = IF u = node /\ x = t THEN new ELSE Member(h, u, x)
<1> DEFINE g == Put(h, node, t, new)
<1>0. /\ IsHeap(source) /\ Grown(source, h, at)
      /\ node \in Fresh(source, h) /\ t \in Tokens /\ new = Len(h) + 1
      /\ h2 = Append(g, NewObject)
      /\ at2 = Settling(source, h2, at, new, Append(at[node], t))
  BY DEF AddsChild
<1>1. /\ IsHeap(h) /\ h \in Seq(Range(h)) /\ Len(h) \in Nat /\ DOMAIN h = 1..Len(h)
      /\ Len(source) \in Nat /\ Len(source) < Len(h)
      /\ node \in DOMAIN h /\ node > Len(source) /\ new \notin DOMAIN h
      /\ \A u, x : u \notin DOMAIN h => Member(h, u, x) = Undefined
  BY <1>0, Heaps DEF Grown, IsHeap, Fresh
<1>2. /\ g \in Seq(Range(g)) /\ Len(g) = Len(h) /\ DOMAIN g = DOMAIN h
      /\ \A o \in DOMAIN h \ {node} : g[o] = h[o]
      /\ \A x : x \in DOMAIN g[node] => x = t \/ x \in DOMAIN h[node]
      /\ \A u, x : Member(g, u, x) = IF u = node /\ x = t THEN new ELSE Member(h, u, x)
  BY <1>0, <1>1, MemberPut
<1> HIDE DEF g
<1>3. /\ h2 \in Seq(Range(h2)) /\ Len(h2) = new /\ DOMAIN h2 = 1..new
      /\ h2[new] = NewObject /\ \A o \in 1..Len(h) : h2[o] = g[o]
  BY <1>0, <1>2, OneMore
<1>4. \A u, x : Member(h2, u, x) = IF u \in DOMAIN g THEN Member(g, u, x) ELSE Undefined
  BY <1>0, <1>2, MemberNew
<1>5. \A u, x : Member(h2, u, x) = IF u = node /\ x = t THEN new ELSE Member(h, u, x)
  BY <1>1, <1>2, <1>4
<1>6. \A o \in DOMAIN h2 : \A x \in DOMAIN h2[o] : h2[o][x] \in Atoms \union DOMAIN h2
  <2> SUFFICES ASSUME NEW o \in DOMAIN h2, NEW x \in DOMAIN h2[o]
               PROVE  h2[o][x] \in Atoms \union DOMAIN h2
    OBVIOUS
  <2>1. CASE o = new
    BY <1>0, <1>3, <2>1 DEF NewObject
  <2>2. CASE o \in DOMAIN h \ {node}
    <3>1. h2[o] = h[o]
      BY <1>1, <1>2, <1>3, <2>2
    <3> QED
      BY <1>1, <1>3, <2>2, <3>1 DEF IsHeap
  <2>3. CASE o = node
    <3>1. h2[o] = g[node] /\ h2[o][x] = Member(h2, o, x)
      BY <1>1, <1>3, <2>3 DEF Member
    <3>2. CASE x = t
      BY <1>0, <1>1, <1>3, <1>5, <2>3, <3>1, <3>2
    <3>3. CASE x # t
      <4>1. x \in DOMAIN h[node] /\ Member(h2, o, x) = h[node][x]
        BY <1>1, <1>2, <1>5, <2>3, <3>1, <3>3 DEF Member
      <4> QED
        BY <1>1, <1>3, <2>3, <3>1, <4>1 DEF IsHeap
    <3> QED
      BY <3>2, <3>3
  <2> QED
    BY <1>0, <1>1, <1>3, <2>1, <2>2, <2>3
<1>7. IsHeap(h2)
  BY <1>3, <1>6 DEF IsHeap
<1>8. \A o \in 1..Len(source) : h2[o] = source[o]
  <2> SUFFICES ASSUME NEW o \in 1..Len(source) PROVE h2[o] = source[o]
    OBVIOUS
  <2>1. o \in DOMAIN h \ {node} /\ o \in 1..Len(h)
    BY <1>1
  <2> QED
    BY <1>0, <1>2, <1>3, <2>1 DEF Grown
<1>9. /\ Fresh(source, h2) = Fresh(source, h) \union {new} /\ new \notin Fresh(source, h)
      /\ Len(source) + 1 \in Fresh(source, h)
  BY <1>0, <1>1, <1>3 DEF Fresh
<1>10. /\ \A u \in Fresh(source, h) : at2[u] = at[u]
       /\ at2[new] = Append(at[node], t)
  BY <1>0, <1>9 DEF Settling
<1>11. \A u \in Fresh(source, h2) : at2[u] \in Path
  <2>1. at[node] \in Path /\ \A u \in Fresh(source, h) : at[u] \in Path
    BY <1>0 DEF Grown
  <2>2. Append(at[node], t) \in Path
    BY <1>0, <2>1, OneStep
  <2> QED
    BY <1>0, <1>9, <1>10, <2>1, <2>2
<1>12. at2[Len(source) + 1] = <<>>
  BY <1>0, <1>9, <1>10 DEF Grown
<1>13. ASSUME NEW u \in Fresh(source, h2), NEW x, Member(h2, u, x) \in Fresh(source, h2)
       PROVE  at2[Member(h2, u, x)] = Append(at2[u], x)
  <2>1. CASE u = node /\ x = t
    BY <1>0, <1>5, <1>10, <2>1
  <2>2. CASE ~(u = node /\ x = t)
    <3>1. Member(h2, u, x) = Member(h, u, x)
      BY <1>5, <2>2
    <3>2. Member(h, u, x) \in Atoms \union DOMAIN h \union {Undefined}
      BY <1>1, Heaps
    <3>3. Member(h, u, x) # new
      BY <1>0, <1>1, <3>2, MessagesAssumption
    <3>4. u # new
      <4>1. u = new => Member(h, u, x) = Undefined
        BY <1>1
      <4>2. Undefined \notin Fresh(source, h2)
        BY <1>0, <1>1, <1>3, MessagesAssumption DEF Fresh
      <4> QED
        BY <1>13, <3>1, <4>1, <4>2
    <3>5. u \in Fresh(source, h) /\ Member(h, u, x) \in Fresh(source, h)
      BY <1>9, <1>13, <3>1, <3>3, <3>4
    <3> QED
      BY <1>0, <1>10, <3>1, <3>5 DEF Grown
  <2> QED
    BY <2>1, <2>2
<1>14. Grown(source, h2, at2)
  BY <1>0, <1>1, <1>3, <1>7, <1>8, <1>11, <1>12, <1>13 DEF Grown
<1> QED
  BY <1>3, <1>5, <1>10, <1>14

LEMMA NewValue ==
  ASSUME NEW source, IsHeap(source), NEW h, NEW at, Grown(source, h, at),
         NEW node \in Fresh(source, h), NEW t, NEW v \in Atoms \union DOMAIN source,
         NEW h2, h2 = Put(h, node, t, v)
  PROVE  /\ Grown(source, h2, at) /\ Len(h2) = Len(h)
         /\ \A u, x : Member(h2, u, x) = IF u = node /\ x = t THEN v ELSE Member(h, u, x)
<1>1. /\ IsHeap(h) /\ h \in Seq(Range(h)) /\ Len(h) \in Nat /\ DOMAIN h = 1..Len(h)
      /\ Len(source) \in Nat /\ DOMAIN source = 1..Len(source) /\ Len(source) < Len(h)
      /\ node \in DOMAIN h /\ node > Len(source)
  BY Heaps DEF Grown, IsHeap, Fresh
<1>2. /\ h2 \in Seq(Range(h2)) /\ Len(h2) = Len(h) /\ DOMAIN h2 = DOMAIN h
      /\ \A o \in DOMAIN h \ {node} : h2[o] = h[o]
      /\ \A x : x \in DOMAIN h2[node] => x = t \/ x \in DOMAIN h[node]
      /\ \A u, x : Member(h2, u, x) = IF u = node /\ x = t THEN v ELSE Member(h, u, x)
  BY <1>1, MemberPut
<1>3. v \in Atoms \union DOMAIN h2 /\ v \notin Fresh(source, h2)
  BY <1>1, <1>2, MessagesAssumption DEF Fresh
<1>4. \A o \in DOMAIN h2 : \A x \in DOMAIN h2[o] : h2[o][x] \in Atoms \union DOMAIN h2
  <2> SUFFICES ASSUME NEW o \in DOMAIN h2, NEW x \in DOMAIN h2[o]
               PROVE  h2[o][x] \in Atoms \union DOMAIN h2
    OBVIOUS
  <2>1. CASE o # node
    <3>1. h2[o] = h[o]
      BY <1>2, <2>1
    <3> QED
      BY <1>1, <1>2, <3>1 DEF IsHeap
  <2>2. CASE o = node
    <3>1. h2[o][x] = Member(h2, o, x)
      BY DEF Member
    <3>2. CASE x = t
      BY <1>2, <1>3, <2>2, <3>1, <3>2
    <3>3. CASE x # t
      <4>1. x \in DOMAIN h[node] /\ Member(h2, o, x) = h[node][x]
        BY <1>1, <1>2, <2>2, <3>3 DEF Member
      <4> QED
        BY <1>1, <1>2, <3>1, <4>1 DEF IsHeap
    <3> QED
      BY <3>2, <3>3
  <2> QED
    BY <2>1, <2>2
<1>5. IsHeap(h2)
  BY <1>2, <1>4 DEF IsHeap
<1>6. \A o \in 1..Len(source) : h2[o] = source[o]
  <2> SUFFICES ASSUME NEW o \in 1..Len(source) PROVE h2[o] = source[o]
    OBVIOUS
  <2>1. o \in DOMAIN h \ {node}
    BY <1>1
  <2> QED
    BY <1>2, <2>1 DEF Grown
<1>7. Fresh(source, h2) = Fresh(source, h)
  BY <1>2 DEF Fresh
<1>8. ASSUME NEW u \in Fresh(source, h2), NEW x, Member(h2, u, x) \in Fresh(source, h2)
      PROVE  at[Member(h2, u, x)] = Append(at[u], x)
  <2>1. Member(h2, u, x) = Member(h, u, x)
    BY <1>2, <1>3, <1>8
  <2> QED
    BY <1>7, <1>8, <2>1 DEF Grown
<1>9. Grown(source, h2, at)
  BY <1>1, <1>2, <1>5, <1>6, <1>7, <1>8 DEF Grown
<1> QED
  BY <1>2, <1>9

-----------------------------------------------------------------------------
(* Writing a value at a path of the payload.                               *)

\* Nothing that the path goes through is an object of the source.
ClearWay(source, h, at, path) ==
  \A u \in Fresh(source, h) : \A t :
    OnTheWay(at[u], t, path) /\ Len(at[u]) + 1 < Len(path) =>
      Member(h, u, t) \notin 1..Len(source)

\* What writing at the path may change from h to h2.
Kept(source, h, h2, u, t) == u \in Fresh(source, h) /\ Member(h2, u, t) = Member(h, u, t)
Unset(source, h, h2, u, t) == u \notin Fresh(source, h) /\ Member(h2, u, t) = Undefined
Opened(source, h, h2, at, path, u, t) ==
  /\ OnTheWay(at[u], t, path) /\ Member(h2, u, t) \in Fresh(source, h2)
  /\ u \in Fresh(source, h) => Member(h, u, t) \notin DOMAIN h

Walked(source, h, at, path, f, k, at2) ==
  /\ Grown(source, f[k].heap, at2) /\ Len(h) <= Len(f[k].heap)
  /\ \A u \in Fresh(source, h) : at2[u] = at[u]
  /\ \A j \in 0..k : /\ f[j].node \in Fresh(source, f[k].heap)
                     /\ Len(at2[f[j].node]) = j /\ Leads(at2[f[j].node], path)
  /\ \A j \in 1..k : Member(f[k].heap, f[j - 1].node, path[j]) = f[j].node
  /\ \A u \in Fresh(source, f[k].heap) : \A t :
       \/ Kept(source, h, f[k].heap, u, t)
       \/ Unset(source, h, f[k].heap, u, t)
       \/ Opened(source, h, f[k].heap, at2, path, u, t) /\ Len(at2[u]) < k

LEMMA WalkBegins ==
  ASSUME NEW source, IsHeap(source), NEW h, NEW at, Grown(source, h, at),
         NEW path \in Path, NEW n \in Nat,
         NEW root, root = Len(source) + 1, NEW f, Walking(f, h, root, path, n)
  PROVE  Walked(source, h, at, path, f, 0, at)
<1>1. f[0] = Entered(h, root)
  BY WalkingFirst
<1>2. f[0].heap = h /\ f[0].node = Len(source) + 1
  BY <1>1 DEF Entered
<1>3. /\ Len(h) \in Nat /\ Len(source) \in Nat /\ Len(source) < Len(h)
      /\ at[Len(source) + 1] = <<>> /\ Len(path) \in Nat
  BY Heaps DEF Grown, Path
<1>4. Len(source) + 1 \in Fresh(source, h)
  BY <1>3 DEF Fresh
<1>5. Len(at[Len(source) + 1]) = 0 /\ Leads(at[Len(source) + 1], path)
  BY <1>3 DEF Leads
<1> QED
  BY <1>2, <1>3, <1>4, <1>5 DEF Walked, Kept

LEMMA WalkGoesOn ==
  ASSUME NEW source, IsHeap(source), NEW h, NEW at, Grown(source, h, at),
         NEW path \in Path, NEW n \in Nat,
         NEW root, root = Len(source) + 1, NEW f, Walking(f, h, root, path, n),
         ClearWay(source, h, at, path), n < Len(path),
         NEW k \in Nat, k < n, NEW at2, Walked(source, h, at, path, f, k, at2)
  PROVE  \E at3 : Walked(source, h, at, path, f, k + 1, at3)
<1> DEFINE heap == f[k].heap
           node == f[k].node
           t == path[k + 1]
           next == Member(heap, node, t)
<1>a. PICK new : new = Len(heap) + 1
  OBVIOUS
<1> DEFINE made == Append(Put(heap, node, t, new), NewObject)
<1>0. k \in 0..k /\ k + 1 \in 1..n /\ k + 1 \in 1..Len(path) /\ k + 1 < Len(path)
      /\ Len(path) \in Nat /\ t \in Tokens
  BY DEF Path
<1>1. f[k + 1] = Descend(f[k], t)
  <2>1. \A j \in 1..n : f[j] = Descend(f[j - 1], path[j])
    BY WalkingNext
  <2> QED
    BY <1>0, <2>1
<1>2. /\ Grown(source, heap, at2) /\ Len(h) <= Len(heap)
      /\ \A u \in Fresh(source, h) : at2[u] = at[u]
      /\ \A j \in 0..k : /\ f[j].node \in Fresh(source, heap)
                         /\ Len(at2[f[j].node]) = j /\ Leads(at2[f[j].node], path)
      /\ \A j \in 1..k : Member(heap, f[j - 1].node, path[j]) = f[j].node
      /\ \A u \in Fresh(source, heap) : \A x :
           \/ Kept(source, h, heap, u, x)
           \/ Unset(source, h, heap, u, x)
           \/ Opened(source, h, heap, at2, path, u, x) /\ Len(at2[u]) < k
  BY DEF Walked
<1>3. /\ node \in Fresh(source, heap) /\ Len(at2[node]) = k /\ Leads(at2[node], path)
      /\ at2[node] \in Path /\ OnTheWay(at2[node], t, path)
  <2>1. node \in Fresh(source, heap) /\ Len(at2[node]) = k /\ Leads(at2[node], path)
    BY <1>0, <1>2
  <2>2. at2[node] \in Path
    BY <1>2, <2>1 DEF Grown
  <2> QED
    BY <1>0, <2>1, <2>2 DEF OnTheWay
<1>4. /\ Append(at2[node], t) \in Path /\ Len(Append(at2[node], t)) = k + 1
      /\ Leads(Append(at2[node], t), path)
  BY <1>0, <1>3, Steps
<1>5. /\ IsHeap(heap) /\ IsHeap(h) /\ Len(h) \in Nat /\ Len(heap) \in Nat
      /\ Len(source) \in Nat /\ Len(source) < Len(h)
      /\ DOMAIN h = 1..Len(h) /\ DOMAIN heap = 1..Len(heap)
      /\ Undefined \notin DOMAIN heap
      /\ \A x : Member(heap, new, x) = Undefined
  <2>1. /\ IsHeap(heap) /\ IsHeap(h) /\ Len(h) \in Nat /\ Len(heap) \in Nat
        /\ Len(source) \in Nat /\ Len(source) < Len(h)
        /\ DOMAIN h = 1..Len(h) /\ DOMAIN heap = 1..Len(heap)
        /\ Undefined \notin DOMAIN heap
    BY <1>2, Heaps DEF Grown
  <2>2. new \notin DOMAIN heap
    BY <1>a, <2>1
  <2> QED
    BY <2>1, <2>2, Heaps
<1>6. \A u \in Fresh(source, h) : u \in Fresh(source, heap)
  BY <1>2, <1>5 DEF Fresh
<1>7. \/ Kept(source, h, heap, node, t)
      \/ Unset(source, h, heap, node, t)
      \/ Opened(source, h, heap, at2, path, node, t) /\ Len(at2[node]) < k
  BY <1>2, <1>3
<1>8. ~(Len(at2[node]) < k)
  BY <1>3
<1> HIDE DEF heap, node, t
<1>9. CASE next \in DOMAIN heap
  <2>1. Kept(source, h, heap, node, t)
    BY <1>5, <1>7, <1>8, <1>9 DEF Unset
  <2>2. next \notin 1..Len(source)
    <3>1. node \in Fresh(source, h) /\ next = Member(h, node, t) /\ at2[node] = at[node]
      BY <1>2, <2>1 DEF Kept
    <3> QED
      BY <1>0, <1>3, <3>1 DEF ClearWay
  <2>3. next \in Fresh(source, heap)
    BY <1>5, <1>9, <2>2 DEF Fresh
  <2>4. at2[next] = Append(at2[node], t)
    BY <1>2, <1>3, <2>3 DEF Grown
  <2>5. f[k + 1] = [heap |-> heap, node |-> next]
    BY <1>1, <1>9 DEF Descend, heap, node
  <2>6. f[k + 1].heap = heap /\ f[k + 1].node = next
    BY <2>5
  <2> HIDE DEF next
  <2>7. ASSUME NEW j \in 0..(k + 1)
        PROVE  /\ f[j].node \in Fresh(source, heap)
               /\ Len(at2[f[j].node]) = j /\ Leads(at2[f[j].node], path)
    <3>1. CASE j = k + 1
      BY <1>4, <2>3, <2>4, <2>6, <3>1
    <3>2. CASE j # k + 1
      <4>1. j \in 0..k
        BY <3>2
      <4> QED
        BY <1>2, <4>1
    <3> QED
      BY <3>1, <3>2
  <2>8. ASSUME NEW j \in 1..(k + 1) PROVE Member(heap, f[j - 1].node, path[j]) = f[j].node
    <3>1. CASE j = k + 1
      BY <2>6, <3>1 DEF next, heap, node, t
    <3>2. CASE j # k + 1
      <4>1. j \in 1..k
        BY <3>2
      <4> QED
        BY <1>2, <4>1
    <3> QED
      BY <3>1, <3>2
  <2>9. ASSUME NEW u \in Fresh(source, heap), NEW x
        PROVE  \/ Kept(source, h, heap, u, x)
               \/ Unset(source, h, heap, u, x)
               \/ Opened(source, h, heap, at2, path, u, x) /\ Len(at2[u]) < k + 1
    <3>1. Len(at2[u]) \in Nat
      BY <1>2 DEF Grown, Path
    <3> QED
      BY <1>2, <3>1
  <2>10. Walked(source, h, at, path, f, k + 1, at2)
    BY <1>2, <2>6, <2>7, <2>8, <2>9 DEF Walked
  <2> QED
    BY <2>10
<1>10. CASE next \notin DOMAIN heap
  <2>1. f[k + 1] = [heap |-> made, node |-> new]
    BY <1>1, <1>10, <1>a DEF Descend, heap, node
  <2>2. f[k + 1].heap = made /\ f[k + 1].node = new
    BY <2>1
  <2>4. PICK at3 : at3 = Settling(source, made, at2, new, Append(at2[node], t))
    OBVIOUS
  <2> HIDE DEF made
  <2>5. /\ Grown(source, made, at3) /\ Len(made) = new
        /\ \A u \in Fresh(source, heap) : at3[u] = at2[u]
        /\ at3[new] = Append(at2[node], t)
        /\ \A u, x : Member(made, u, x) = IF u = node /\ x = t THEN new ELSE Member(heap, u, x)
    <3>1. AddsChild(source, heap, at2, node, t, new, made, at3)
      BY <1>0, <1>2, <1>3, <1>a, <2>4 DEF AddsChild, made
    <3> QED
      BY <3>1, NewChild
  <2> HIDE DEF next
  <2>6. /\ Fresh(source, made) = Fresh(source, heap) \union {new}
        /\ new \notin Fresh(source, heap) /\ new \in Fresh(source, made)
        /\ new \notin Fresh(source, h)
    <3>1. Len(made) = Len(heap) + 1 /\ new = Len(heap) + 1 /\ Len(h) <= Len(heap)
      BY <1>2, <1>a, <2>5
    <3> QED
      BY <1>5, <3>1 DEF Fresh
  <2>7. ASSUME NEW j \in 0..(k + 1)
        PROVE  /\ f[j].node \in Fresh(source, made)
               /\ Len(at3[f[j].node]) = j /\ Leads(at3[f[j].node], path)
    <3>1. CASE j = k + 1
      BY <1>4, <2>2, <2>5, <2>6, <3>1
    <3>2. CASE j # k + 1
      <4>1. j \in 0..k
        BY <3>2
      <4>2. f[j].node \in Fresh(source, heap)
        BY <1>2, <4>1
      <4> QED
        BY <1>2, <2>5, <2>6, <4>1, <4>2
    <3> QED
      BY <3>1, <3>2
  <2>8. ASSUME NEW j \in 1..(k + 1) PROVE Member(made, f[j - 1].node, path[j]) = f[j].node
    <3>1. CASE j = k + 1
      <4>1. f[j - 1].node = node /\ path[j] = t /\ f[j].node = new
        BY <2>2, <3>1 DEF node, t
      <4> QED
        BY <2>5, <4>1
    <3>2. CASE j # k + 1
      <4>1. j \in 1..k /\ j - 1 \in 0..k /\ j - 1 # k
        BY <3>2
      <4>2. f[j - 1].node # node
        BY <1>2, <1>3, <4>1
      <4> QED
        BY <1>2, <2>5, <4>1, <4>2
    <3> QED
      BY <3>1, <3>2
  <2>9. ASSUME NEW u \in Fresh(source, made), NEW x
        PROVE  \/ Kept(source, h, made, u, x)
               \/ Unset(source, h, made, u, x)
               \/ Opened(source, h, made, at3, path, u, x) /\ Len(at3[u]) < k + 1
    <3>1. CASE u = node /\ x = t
      <4>1. Member(made, u, x) \in Fresh(source, made) /\ at3[u] = at2[node]
        BY <1>3, <2>5, <2>6, <3>1
      <4>2. u \in Fresh(source, h) => Member(h, u, x) \notin DOMAIN h
        <5> SUFFICES ASSUME u \in Fresh(source, h) PROVE Member(h, u, x) \notin DOMAIN h
          OBVIOUS
        <5>1. Kept(source, h, heap, node, t)
          BY <1>7, <1>8, <3>1 DEF Unset
        <5>2. Member(h, u, x) = Member(heap, node, t)
          BY <3>1, <5>1 DEF Kept
        <5>3. Member(h, u, x) \notin DOMAIN heap
          BY <1>10, <5>2 DEF next
        <5> QED
          BY <1>2, <1>5, <5>3
      <4> QED
        BY <1>3, <3>1, <4>1, <4>2 DEF Opened
    <3>2. CASE u = new
      <4>1. u # node
        BY <1>3, <2>6, <3>2
      <4>2. Member(made, u, x) = Undefined
        BY <1>5, <2>5, <3>2, <4>1
      <4> QED
        BY <2>6, <3>2, <4>2 DEF Unset
    <3>3. CASE u # new /\ ~(u = node /\ x = t)
      <4>1. u \in Fresh(source, heap) /\ Member(made, u, x) = Member(heap, u, x) /\ at3[u] = at2[u]
        BY <2>5, <2>6, <3>3
      <4>2. Len(at2[u]) \in Nat
        BY <1>2, <4>1 DEF Grown, Path
      <4>3. CASE Kept(source, h, heap, u, x)
        BY <4>1, <4>3 DEF Kept
      <4>4. CASE Unset(source, h, heap, u, x)
        BY <4>1, <4>4 DEF Unset
      <4>5. CASE Opened(source, h, heap, at2, path, u, x) /\ Len(at2[u]) < k
        BY <2>6, <4>1, <4>2, <4>5 DEF Opened
      <4> QED
        BY <1>2, <4>1, <4>3, <4>4, <4>5
    <3> QED
      BY <3>1, <3>2, <3>3
  <2>10. \A u \in Fresh(source, h) : at3[u] = at[u]
    BY <1>2, <1>6, <2>5
  <2>11. Len(h) <= Len(made)
    BY <1>a, <1>2, <1>5, <2>5
  <2>12. Walked(source, h, at, path, f, k + 1, at3)
    BY <2>2, <2>5, <2>7, <2>8, <2>9, <2>10, <2>11 DEF Walked
  <2> QED
    BY <2>12
<1> QED
  BY <1>9, <1>10

\* What writing v at the path has made of h.
Wrote(source, h, at, path, v, h2, at2) ==
  /\ Grown(source, h2, at2) /\ Len(h) <= Len(h2)
  /\ \A u \in Fresh(source, h) : at2[u] = at[u]
  /\ \A u \in Fresh(source, h2) : \A t :
       \/ Kept(source, h, h2, u, t)
       \/ Unset(source, h, h2, u, t)
       \/ Opened(source, h, h2, at2, path, u, t) /\ Len(at2[u]) + 1 < Len(path)
       \/ /\ OnTheWay(at2[u], t, path) /\ Len(at2[u]) + 1 = Len(path)
          /\ Member(h2, u, t) = v

\* The objects on the way to v, which is at the path.
Chained(source, h, at, path, v, c) ==
  /\ c[0] = Len(source) + 1
  /\ \A k \in 0..(Len(path) - 1) :
       c[k] \in Fresh(source, h) /\ Len(at[c[k]]) = k /\ Leads(at[c[k]], path)
  /\ \A k \in 1..(Len(path) - 1) : Member(h, c[k - 1], path[k]) = c[k]
  /\ Member(h, c[Len(path) - 1], path[Len(path)]) = v

LEMMA WalkEnds ==
  ASSUME NEW source, IsHeap(source), NEW h, NEW at, Grown(source, h, at),
         NEW path \in Path, NEW n \in Nat, n < Len(path), ClearWay(source, h, at, path),
         NEW root, root = Len(source) + 1, NEW f, Walking(f, h, root, path, n)
  PROVE  \E at2 : Walked(source, h, at, path, f, n, at2)
<1> DEFINE S == {k \in Nat : \E at2 : Walked(source, h, at, path, f, k, at2)}
<1>1. 0 \in S
  BY WalkBegins
<1>2. ASSUME NEW k \in Nat, k < n, k \in S PROVE k + 1 \in S
  <2>1. PICK at2 : Walked(source, h, at, path, f, k, at2)
    BY <1>2
  <2>2. \E at3 : Walked(source, h, at, path, f, k + 1, at3)
    BY <1>2, <2>1, WalkGoesOn
  <2> QED
    BY <2>2
<1> HIDE DEF S
<1>3. \A k \in 0..n : k \in S
  <2>1. 0 \in Nat
    OBVIOUS
  <2> QED
    BY <1>1, <1>2, <2>1, StepByStep
<1>4. n \in S
  BY <1>3
<1> QED
  BY <1>4 DEF S

LEMMA SetWrites ==
  ASSUME NEW source, IsHeap(source), NEW h, NEW at, Grown(source, h, at),
         NEW path \in Path, path # <<>>, ClearWay(source, h, at, path),
         NEW v \in Atoms \union DOMAIN source, NEW root, root = Len(source) + 1
  PROVE  \E at2, c : /\ Wrote(source, h, at, path, v, SetDotted(h, root, path, v), at2)
                     /\ Chained(source, SetDotted(h, root, path, v), at2, path, v, c)
<1>1. Len(path) \in Nat /\ Len(path) > 0
  BY DEF Path
<1>2. PICK n \in Nat : n = Len(path) - 1 /\ n < Len(path) /\ Len(path) = n + 1
  BY <1>1
<1>3. PICK f : /\ Walking(f, h, root, path, Len(path) - 1)
               /\ SetDotted(h, root, path, v)
                    = Put(f[Len(path) - 1].heap, f[Len(path) - 1].node, path[Len(path)], v)
  BY <1>1, Setting
<1>4. PICK h2 : h2 = SetDotted(h, root, path, v)
  OBVIOUS
<1> DEFINE heap == f[n].heap
           node == f[n].node
           t == path[n + 1]
<1>5. Walking(f, h, root, path, n) /\ h2 = Put(heap, node, t, v)
  BY <1>2, <1>3, <1>4
<1>6. PICK at2 : Walked(source, h, at, path, f, n, at2)
  BY <1>2, <1>5, WalkEnds
<1>7. /\ Grown(source, heap, at2) /\ Len(h) <= Len(heap)
      /\ \A u \in Fresh(source, h) : at2[u] = at[u]
      /\ \A j \in 0..n : /\ f[j].node \in Fresh(source, heap)
                         /\ Len(at2[f[j].node]) = j /\ Leads(at2[f[j].node], path)
      /\ \A j \in 1..n : Member(heap, f[j - 1].node, path[j]) = f[j].node
      /\ \A u \in Fresh(source, heap) : \A x :
           \/ Kept(source, h, heap, u, x)
           \/ Unset(source, h, heap, u, x)
           \/ Opened(source, h, heap, at2, path, u, x) /\ Len(at2[u]) < n
  BY <1>6 DEF Walked
<1>8. n \in 0..n /\ 0 \in 0..n
  OBVIOUS
<1>9. /\ node \in Fresh(source, heap) /\ Len(at2[node]) = n
      /\ OnTheWay(at2[node], t, path)
  BY <1>2, <1>7, <1>8 DEF OnTheWay
<1>10. f[0].node = root
  <2>1. f[0] = Entered(h, root)
    BY <1>5, WalkingFirst
  <2> QED
    BY <2>1 DEF Entered
<1> HIDE DEF heap, node, t
<1>11. /\ Grown(source, h2, at2) /\ Len(h2) = Len(heap)
       /\ \A u, x : Member(h2, u, x) = IF u = node /\ x = t THEN v ELSE Member(heap, u, x)
  BY <1>5, <1>7, <1>9, NewValue
<1>12. Fresh(source, h2) = Fresh(source, heap)
  BY <1>11 DEF Fresh
<1>13. ASSUME NEW u \in Fresh(source, h2), NEW x
       PROVE  \/ Kept(source, h, h2, u, x)
              \/ Unset(source, h, h2, u, x)
              \/ Opened(source, h, h2, at2, path, u, x) /\ Len(at2[u]) + 1 < Len(path)
              \/ /\ OnTheWay(at2[u], x, path) /\ Len(at2[u]) + 1 = Len(path)
                 /\ Member(h2, u, x) = v
  <2>1. CASE u = node /\ x = t
    BY <1>2, <1>9, <1>11, <2>1
  <2>2. CASE ~(u = node /\ x = t)
    <3>1. u \in Fresh(source, heap) /\ Member(h2, u, x) = Member(heap, u, x)
      BY <1>11, <1>12, <2>2
    <3>2. Len(at2[u]) \in Nat
      BY <1>7, <3>1 DEF Grown, Path
    <3>3. CASE Kept(source, h, heap, u, x)
      BY <3>1, <3>3 DEF Kept
    <3>4. CASE Unset(source, h, heap, u, x)
      BY <3>1, <3>4 DEF Unset
    <3>5. CASE Opened(source, h, heap, at2, path, u, x) /\ Len(at2[u]) < n
      <4>1. Opened(source, h, h2, at2, path, u, x)
        BY <1>12, <3>1, <3>5 DEF Opened
      <4> QED
        BY <1>2, <3>2, <3>5, <4>1
    <3> QED
      BY <1>7, <3>1, <3>3, <3>4, <3>5
  <2> QED
    BY <2>1, <2>2
<1>14. Wrote(source, h, at, path, v, h2, at2)
  BY <1>7, <1>11, <1>13 DEF Wrote
<1> DEFINE c == [k \in 0..n |-> f[k].node]
<1>15. \A k \in 0..n : c[k] = f[k].node
  OBVIOUS
<1> HIDE DEF c
<1>16. ASSUME NEW k \in 1..n PROVE Member(h2, c[k - 1], path[k]) = c[k]
  <2>1. k - 1 \in 0..n /\ k \in 0..n /\ k - 1 # n
    OBVIOUS
  <2>2. c[k - 1] # node /\ c[k - 1] = f[k - 1].node /\ c[k] = f[k].node
    BY <1>7, <1>9, <1>15, <2>1
  <2> QED
    BY <1>7, <1>11, <2>2
<1>17. Member(h2, c[n], path[n + 1]) = v
  BY <1>8, <1>11, <1>15 DEF node, t
<1>18. \A k \in 0..n : c[k] \in Fresh(source, h2) /\ Len(at2[c[k]]) = k /\ Leads(at2[c[k]], path)
  BY <1>7, <1>12, <1>15
<1>19. c[0] = Len(source) + 1
  BY <1>8, <1>10, <1>15
<1>20. Chained(source, h2, at2, path, v, c)
  BY <1>2, <1>16, <1>17, <1>18, <1>19 DEF Chained
<1> QED
  BY <1>4, <1>14, <1>20

-----------------------------------------------------------------------------
(* Reading.                                                                *)

LEMMA Leading ==
  ASSUME NEW p \in Path, NEW q \in Path
  PROVE  Extends(p, q) <=> Leads(q, p)
<1>0. Len(p) \in Nat /\ Len(q) \in Nat
  BY DEF Path
<1>1. CASE Len(q) <= Len(p)
  <2>1. PICK r : r = SubSeq(p, 1, Len(q))
    OBVIOUS
  <2>2. r \in Path /\ Len(r) = Len(q) /\ \A i \in 1..Len(q) : r[i] = p[i]
    BY <1>0, <1>1, <2>1 DEF Path
  <2>3. r = q <=> \A i \in 1..Len(q) : q[i] = p[i]
    BY <1>0, <2>2 DEF Path
  <2> QED
    BY <1>1, <2>1, <2>3 DEF Extends, Leads
<1>2. CASE ~(Len(q) <= Len(p))
  BY <1>2 DEF Extends, Leads
<1> QED
  BY <1>1, <1>2

LEMMA Clashing ==
  ASSUME NEW p \in Path, NEW q \in Path
  PROVE  Clash(p, q) <=> Leads(p, q) \/ Leads(q, p)
BY Leading DEF Clash

\* The values g are those on the way of pointer q from v.
Along(h, v, q, g) == g[0] = v /\ \A k \in 1..Len(q) : g[k] = Member(h, g[k - 1], q[k])

LEMMA ReadAlong ==
  ASSUME NEW h, NEW v, NEW q \in Path, NEW g, Along(h, v, q, g)
  PROVE  ResolvePointer(h, v, q) = g[Len(q)]
<1>1. Len(q) \in Nat
  BY DEF Path
<1>2. PICK f : Following(f, h, v, q, Len(q)) /\ ResolvePointer(h, v, q) = f[Len(q)]
  BY <1>1, Resolving
<1>3. f[0] = v
  BY <1>1, <1>2, FollowingFirst
<1>4. \A k \in 1..Len(q) : f[k] = Member(h, f[k - 1], q[k])
  BY <1>1, <1>2, FollowingNext
<1> DEFINE S == {k \in Nat : f[k] = g[k]}
<1>5. 0 \in S
  BY <1>3 DEF Along
<1>6. ASSUME NEW k \in Nat, k < Len(q), k \in S PROVE k + 1 \in S
  <2>1. k + 1 \in 1..Len(q) /\ (k + 1) - 1 = k
    BY <1>1, <1>6
  <2>2. f[k + 1] = Member(h, f[k], q[k + 1]) /\ g[k + 1] = Member(h, g[k], q[k + 1])
    BY <1>4, <2>1 DEF Along
  <2> QED
    BY <1>6, <2>2
<1> HIDE DEF S
<1>7. \A k \in 0..Len(q) : k \in S
  <2>1. 0 \in Nat
    OBVIOUS
  <2> QED
    BY <1>1, <1>5, <1>6, <2>1, StepByStep
<1>8. Len(q) \in S
  BY <1>1, <1>7
<1> QED
  BY <1>2, <1>8 DEF S

\* The values on the way of a pointer.
LEMMA Way ==
  ASSUME NEW h, NEW v, NEW q \in Path
  PROVE  \E g : Along(h, v, q, g) /\ ResolvePointer(h, v, q) = g[Len(q)]
<1>1. Len(q) \in Nat
  BY DEF Path
<1>2. PICK f : Following(f, h, v, q, Len(q)) /\ ResolvePointer(h, v, q) = f[Len(q)]
  BY <1>1, Resolving
<1>3. f[0] = v
  BY <1>1, <1>2, FollowingFirst
<1>4. \A k \in 1..Len(q) : f[k] = Member(h, f[k - 1], q[k])
  BY <1>1, <1>2, FollowingNext
<1> QED
  BY <1>2, <1>3, <1>4 DEF Along

\* h has grown from the source.
Keeps(source, h) ==
  /\ IsHeap(source) /\ IsHeap(h) /\ Len(source) <= Len(h)
  /\ \A o \in 1..Len(source) : h[o] = source[o]

Values(source) == Atoms \union DOMAIN source

LEMMA OldMember ==
  ASSUME NEW source, NEW h, Keeps(source, h), NEW v \in Values(source) \union {Undefined}, NEW t
  PROVE  /\ Member(h, v, t) = Member(source, v, t)
         /\ Member(source, v, t) \in Values(source) \union {Undefined}
<1>1. /\ Len(source) \in Nat /\ Len(h) \in Nat /\ Len(source) <= Len(h)
      /\ DOMAIN source = 1..Len(source) /\ DOMAIN h = 1..Len(h)
      /\ \A w \in Atoms \union {Undefined} : w \notin DOMAIN source /\ w \notin DOMAIN h
  BY Heaps DEF Keeps
<1>2. Member(source, v, t) \in Values(source) \union {Undefined}
  BY Heaps DEF Keeps, Values
<1>3. CASE v \in DOMAIN source
  <2>1. h[v] = source[v] /\ v \in DOMAIN h
    BY <1>1, <1>3 DEF Keeps
  <2>2. Member(h, v, t) = Member(source, v, t)
    BY <1>3, <2>1 DEF Member
  <2> QED
    BY <1>2, <2>2
<1>4. CASE v \notin DOMAIN source
  <2>1. v \notin DOMAIN h
    BY <1>1, <1>4 DEF Values
  <2>2. Member(h, v, t) = Member(source, v, t)
    BY <1>4, <2>1 DEF Member
  <2> QED
    BY <1>2, <2>2
<1> QED
  BY <1>3, <1>4, <1>2

LEMMA ReadOld ==
  ASSUME NEW source, NEW h, Keeps(source, h), NEW v \in Values(source) \union {Undefined},
         NEW q \in Path
  PROVE  /\ ResolvePointer(h, v, q) = ResolvePointer(source, v, q)
         /\ ResolvePointer(source, v, q) \in Values(source) \union {Undefined}
<1>1. Len(q) \in Nat
  BY DEF Path
<1>2. PICK g : Along(source, v, q, g) /\ ResolvePointer(source, v, q) = g[Len(q)]
  BY Way
<1> DEFINE S == {k \in Nat : g[k] \in Values(source) \union {Undefined}}
<1>3. 0 \in S
  BY <1>2 DEF Along
<1>4. ASSUME NEW k \in Nat, k < Len(q), k \in S PROVE k + 1 \in S
  <2>1. k + 1 \in 1..Len(q) /\ (k + 1) - 1 = k
    BY <1>1, <1>4
  <2>2. g[k + 1] = Member(source, g[k], q[k + 1]) /\ g[k] \in Values(source) \union {Undefined}
    BY <1>2, <1>4, <2>1 DEF Along
  <2>3. g[k + 1] \in Values(source) \union {Undefined}
    BY <2>2, OldMember
  <2> QED
    BY <2>3
<1> HIDE DEF S
<1>5. \A k \in 0..Len(q) : k \in S
  <2>1. 0 \in Nat
    OBVIOUS
  <2> QED
    BY <1>1, <1>3, <1>4, <2>1, StepByStep
<1>6. \A k \in 0..Len(q) : g[k] \in Values(source) \union {Undefined}
  BY <1>5 DEF S
<1>7. Along(h, v, q, g)
  <2>1. ASSUME NEW k \in 1..Len(q) PROVE g[k] = Member(h, g[k - 1], q[k])
    <3>1. k - 1 \in 0..Len(q)
      BY <1>1
    <3>2. g[k] = Member(source, g[k - 1], q[k]) /\ g[k - 1] \in Values(source) \union {Undefined}
      BY <1>2, <1>6, <3>1 DEF Along
    <3> QED
      BY <3>2, OldMember
  <2> QED
    BY <1>2, <2>1 DEF Along
<1>8. ResolvePointer(h, v, q) = g[Len(q)]
  BY <1>7, ReadAlong
<1> QED
  BY <1>1, <1>2, <1>6, <1>8

LEMMA ReadChain ==
  ASSUME NEW source, NEW h, NEW at, NEW q \in Path, q # <<>>, NEW v, NEW c,
         Chained(source, h, at, q, v, c), NEW root, root = Len(source) + 1
  PROVE  ResolvePointer(h, root, q) = v
<1> DEFINE g == [k \in 0..Len(q) |-> IF k = Len(q) THEN v ELSE c[k]]
<1>1. Len(q) \in Nat /\ Len(q) > 0 /\ Len(q) \in 0..Len(q) /\ 0 \in 0..Len(q)
  BY DEF Path
<1>2. g[Len(q)] = v /\ \A k \in 0..(Len(q) - 1) : g[k] = c[k]
  BY <1>1
<1> HIDE DEF g
<1>3. ASSUME NEW k \in 1..Len(q) PROVE g[k] = Member(h, g[k - 1], q[k])
  <2>1. k - 1 \in 0..(Len(q) - 1)
    BY <1>1
  <2>2. CASE k = Len(q)
    BY <1>2, <2>1, <2>2 DEF Chained
  <2>3. CASE k # Len(q)
    <3>1. k \in 1..(Len(q) - 1) /\ k \in 0..(Len(q) - 1)
      BY <1>1, <2>3
    <3> QED
      BY <1>2, <2>1, <3>1 DEF Chained
  <2> QED
    BY <2>2, <2>3
<1>4. g[0] = root
  <2>1. 0 \in 0..(Len(q) - 1)
    BY <1>1
  <2> QED
    BY <1>2, <2>1 DEF Chained
<1>5. Along(h, root, q, g)
  BY <1>3, <1>4 DEF Along
<1> QED
  BY <1>2, <1>5, ReadAlong

-----------------------------------------------------------------------------
(* The rules in turn.                                                      *)

RuleTyped(rule, source) ==
  /\ rule.to \in Path /\ rule.to # <<>> /\ rule.from \in Path \union {NoPointer}
  /\ rule.operation = "constant" => rule.value \in Values(source)

\* A rule makes the same of the message however the heap has grown.
LEMMA SameRule ==
  ASSUME NEW source, NEW h, Keeps(source, h), NEW wire \in DOMAIN source, NEW rule,
         RuleTyped(rule, source)
  PROVE  /\ RuleSkips(rule, h, wire) <=> RuleSkips(rule, source, wire)
         /\ RuleRaises(rule, h, wire) <=> RuleRaises(rule, source, wire)
         /\ ~RuleRaises(rule, source, wire) =>
              RuleValue(rule, h, wire) = RuleValue(rule, source, wire)
         /\ ~RuleRaises(rule, source, wire) /\ ~RuleSkips(rule, source, wire) =>
              RuleValue(rule, source, wire) \in Values(source)
<1>1. CASE rule.operation = "constant"
  BY <1>1 DEF RuleTyped, RuleSkips, RuleRaises, RuleValue
<1>2. CASE rule.operation # "constant" /\ rule.from = NoPointer
  BY <1>2 DEF RuleSkips, RuleRaises
<1>3. CASE rule.operation # "constant" /\ rule.from # NoPointer
  <2>1. /\ ResolvePointer(h, wire, rule.from) = ResolvePointer(source, wire, rule.from)
        /\ ResolvePointer(source, wire, rule.from) \in Values(source) \union {Undefined}
    <3>1. wire \in Values(source) \union {Undefined} /\ rule.from \in Path
      BY <1>3 DEF Values, RuleTyped
    <3> QED
      BY <3>1, ReadOld
  <2>2. PICK raw : raw = ResolvePointer(source, wire, rule.from)
    OBVIOUS
  <2>3. RuleSkips(rule, h, wire) <=> RuleSkips(rule, source, wire)
    BY <2>1 DEF RuleSkips
  <2>4. RuleRaises(rule, h, wire) <=> RuleRaises(rule, source, wire)
    BY <2>1 DEF RuleRaises
  <2>5. RuleValue(rule, h, wire) = RuleValue(rule, source, wire)
    BY <2>1 DEF RuleValue
  <2>6. ASSUME ~RuleRaises(rule, source, wire), ~RuleSkips(rule, source, wire)
        PROVE  RuleValue(rule, source, wire) \in Values(source)
    <3>1. raw # Undefined
      BY <1>3, <2>2, <2>6 DEF RuleRaises, RuleSkips
    <3>2. raw \in Values(source)
      BY <2>1, <2>2, <3>1
    <3>3. raw \in DOMAIN AsNumber => AsNumber[raw] \in Values(source)
      BY MessagesAssumption DEF Values, Atoms
    <3> QED
      BY <1>3, <2>2, <3>2, <3>3 DEF RuleValue
  <2> QED
    BY <2>3, <2>4, <2>5, <2>6
<1> QED
  BY <1>1, <1>2, <1>3

\* Whatever is in the objects of the payload, some rule has put there.
Backed(source, rules, wire, h, at, n) ==
  \A u \in Fresh(source, h) : \A t : Member(h, u, t) # Undefined =>
    \E i \in 1..n :
      /\ Writes(rules, i, source, wire) /\ OnTheWay(at[u], t, rules[i].to)
      /\ Member(h, u, t) \notin Fresh(source, h) =>
           /\ Len(at[u]) + 1 = Len(rules[i].to)
           /\ Member(h, u, t) = RuleValue(rules[i], source, wire)

\* No rule after the i-th, up to the n-th, writes where that one does.
Last(source, rules, wire, i, n) ==
  \A j \in (i + 1)..n : Writes(rules, j, source, wire) => ~Clash(rules[i].to, rules[j].to)

\* What the rules have written is there, where no later one has written.
Held(source, rules, wire, h, at, n) ==
  \A i \in 1..n : Writes(rules, i, source, wire) /\ Last(source, rules, wire, i, n) =>
    \E c : Chained(source, h, at, rules[i].to, RuleValue(rules[i], source, wire), c)

\* A mapping of the right type none of whose rules writes through another.
Fair(source, rules, wire) ==
  /\ IsHeap(source) /\ wire \in DOMAIN source /\ Len(rules) \in Nat
  /\ \A i \in 1..Len(rules) : RuleTyped(rules[i], source)
  /\ ~WritesThrough(rules, source, wire)

LEMMA KeepsGrown ==
  ASSUME NEW source, NEW h, NEW at, IsHeap(source), Grown(source, h, at)
  PROVE  Keeps(source, h)
<1>1. Len(source) \in Nat /\ Len(h) \in Nat
  BY Heaps DEF Grown
<1> QED
  BY <1>1 DEF Grown, Keeps

\* The way of the next rule is clear of the objects of the source.
LEMMA NextClear ==
  ASSUME NEW source, NEW rules, NEW wire, Fair(source, rules, wire),
         NEW h, NEW at, Grown(source, h, at), NEW n \in Nat, n < Len(rules),
         Backed(source, rules, wire, h, at, n), Writes(rules, n + 1, source, wire)
  PROVE  ClearWay(source, h, at, rules[n + 1].to)
<1> DEFINE path == rules[n + 1].to
<1> SUFFICES ASSUME NEW u \in Fresh(source, h), NEW t,
                    OnTheWay(at[u], t, path), Len(at[u]) + 1 < Len(path),
                    Member(h, u, t) \in 1..Len(source)
             PROVE  FALSE
  BY DEF ClearWay
<1>1. /\ Len(source) \in Nat /\ DOMAIN source = 1..Len(source)
      /\ Undefined \notin DOMAIN source
  BY Heaps DEF Fair
<1>2. Member(h, u, t) # Undefined /\ Member(h, u, t) \notin Fresh(source, h)
  BY <1>1 DEF Fresh
<1>3. PICK i \in 1..n :
        /\ Writes(rules, i, source, wire) /\ OnTheWay(at[u], t, rules[i].to)
        /\ Len(at[u]) + 1 = Len(rules[i].to)
        /\ Member(h, u, t) = RuleValue(rules[i], source, wire)
  BY <1>2 DEF Backed
<1>4. /\ i \in 1..Len(rules) /\ n + 1 \in 1..Len(rules) /\ i < n + 1
      /\ rules[i].to \in Path /\ path \in Path /\ at[u] \in Path
  BY DEF Fair, RuleTyped, Grown
<1>5. Leads(rules[i].to, path)
  <2>1. PICK l, to : l = at[u] /\ to = rules[i].to
    OBVIOUS
  <2>2. Len(l) \in Nat /\ Len(path) \in Nat /\ Len(to) = Len(l) + 1
    BY <1>3, <1>4, <2>1 DEF Path
  <2>3. ASSUME NEW k \in 1..Len(to) PROVE to[k] = path[k]
    <3>1. CASE k = Len(l) + 1
      BY <1>3, <2>1, <3>1 DEF OnTheWay
    <3>2. CASE k \in 1..Len(l)
      <4>1. to[k] = l[k] /\ path[k] = l[k]
        BY <1>3, <2>1, <3>2 DEF OnTheWay, Leads
      <4> QED
        BY <4>1
    <3> QED
      BY <2>2, <3>1, <3>2
  <2>4. Len(to) <= Len(path)
    BY <2>1, <2>2
  <2> QED
    BY <2>1, <2>3, <2>4 DEF Leads
<1>6. Extends(path, rules[i].to) /\ path # rules[i].to
  <2>1. Len(path) # Len(rules[i].to)
    BY <1>3, <1>4 DEF Path
  <2> QED
    BY <1>4, <1>5, <2>1, Leading
<1>7. RuleValue(rules[i], source, wire) \in DOMAIN source
  BY <1>1, <1>3
<1>8. WritesThrough(rules, source, wire)
  BY <1>3, <1>4, <1>6, <1>7 DEF WritesThrough
<1> QED
  BY <1>8 DEF Fair

LEMMA RuleBacked ==
  ASSUME NEW source, NEW rules, NEW wire, Fair(source, rules, wire),
         NEW h, NEW at, Grown(source, h, at), NEW n \in Nat, n < Len(rules),
         Backed(source, rules, wire, h, at, n), Writes(rules, n + 1, source, wire),
         NEW v, v = RuleValue(rules[n + 1], source, wire),
         NEW h2, NEW at2, Wrote(source, h, at, rules[n + 1].to, v, h2, at2)
  PROVE  Backed(source, rules, wire, h2, at2, n + 1)
<1> DEFINE path == rules[n + 1].to
<1> SUFFICES ASSUME NEW u \in Fresh(source, h2), NEW t, Member(h2, u, t) # Undefined
             PROVE  \E i \in 1..(n + 1) :
                      /\ Writes(rules, i, source, wire) /\ OnTheWay(at2[u], t, rules[i].to)
                      /\ Member(h2, u, t) \notin Fresh(source, h2) =>
                           /\ Len(at2[u]) + 1 = Len(rules[i].to)
                           /\ Member(h2, u, t) = RuleValue(rules[i], source, wire)
  BY DEF Backed
<1>1. /\ Grown(source, h2, at2) /\ Len(h) <= Len(h2)
      /\ \A w \in Fresh(source, h) : at2[w] = at[w]
      /\ \/ Kept(source, h, h2, u, t)
         \/ Unset(source, h, h2, u, t)
         \/ Opened(source, h, h2, at2, path, u, t) /\ Len(at2[u]) + 1 < Len(path)
         \/ /\ OnTheWay(at2[u], t, path) /\ Len(at2[u]) + 1 = Len(path)
            /\ Member(h2, u, t) = v
  BY DEF Wrote
<1>2. \A w \in Fresh(source, h) : w \in Fresh(source, h2)
  <2>1. Len(h) \in Nat /\ Len(h2) \in Nat /\ Len(source) \in Nat
    BY <1>1, Heaps DEF Grown, Fair
  <2> QED
    BY <1>1, <2>1 DEF Fresh
<1>3. n + 1 \in 1..(n + 1) /\ \A i \in 1..n : i \in 1..(n + 1)
  OBVIOUS
<1>4. CASE Kept(source, h, h2, u, t)
  <2>1. u \in Fresh(source, h) /\ Member(h, u, t) = Member(h2, u, t) /\ at2[u] = at[u]
    BY <1>1, <1>4 DEF Kept
  <2>2. PICK i \in 1..n :
          /\ Writes(rules, i, source, wire) /\ OnTheWay(at[u], t, rules[i].to)
          /\ Member(h, u, t) \notin Fresh(source, h) =>
               /\ Len(at[u]) + 1 = Len(rules[i].to)
               /\ Member(h, u, t) = RuleValue(rules[i], source, wire)
    BY <2>1 DEF Backed
  <2> QED
    BY <1>2, <1>3, <2>1, <2>2
<1>5. CASE Opened(source, h, h2, at2, path, u, t)
  BY <1>3, <1>5 DEF Opened
<1>6. CASE /\ OnTheWay(at2[u], t, path) /\ Len(at2[u]) + 1 = Len(path)
           /\ Member(h2, u, t) = v
  BY <1>3, <1>6
<1> QED
  BY <1>1, <1>4, <1>5, <1>6 DEF Unset

\* Two paths on whose way one field is clash, if it is the last of either.
LEMMA OnBoth ==
  ASSUME NEW l \in Path, NEW t, NEW p \in Path, NEW q \in Path, OnTheWay(l, t, p), OnTheWay(l, t, q),
         Len(l) + 1 \in {Len(p), Len(q)}
  PROVE  Clash(p, q)
<1>1. Len(l) \in Nat /\ Len(p) \in Nat /\ Len(q) \in Nat
  BY DEF Path
<1>2. \A k \in 1..(Len(l) + 1) : p[k] = q[k]
  <2> SUFFICES ASSUME NEW k \in 1..(Len(l) + 1) PROVE p[k] = q[k]
    OBVIOUS
  <2>1. CASE k = Len(l) + 1
    BY <2>1 DEF OnTheWay
  <2>2. CASE k \in 1..Len(l)
    <3>1. p[k] = l[k] /\ q[k] = l[k]
      BY <2>2 DEF OnTheWay, Leads
    <3> QED
      BY <3>1
  <2> QED
    BY <1>1, <2>1, <2>2
<1>3. Len(l) + 1 <= Len(p) /\ Len(l) + 1 <= Len(q)
  BY <1>1 DEF OnTheWay
<1>4. CASE Len(l) + 1 = Len(p)
  <2>1. Leads(p, q)
    BY <1>1, <1>2, <1>3, <1>4 DEF Leads
  <2> QED
    BY <2>1, Clashing
<1>5. CASE Len(l) + 1 = Len(q)
  <2>1. Leads(q, p)
    BY <1>1, <1>2, <1>3, <1>5 DEF Leads
  <2> QED
    BY <2>1, Clashing
<1> QED
  BY <1>4, <1>5

\* A field that another rule has written is still there.
LEMMA StillThere ==
  ASSUME NEW source, NEW h, NEW at, Grown(source, h, at), NEW path \in Path, NEW v,
         NEW h2, NEW at2, Wrote(source, h, at, path, v, h2, at2),
         NEW to \in Path, ~Clash(to, path), NEW u \in Fresh(source, h), NEW t,
         OnTheWay(at[u], t, to),
         Len(at[u]) + 1 = Len(to) \/ Member(h, u, t) \in Fresh(source, h)
  PROVE  Member(h2, u, t) = Member(h, u, t)
<1>1. at[u] \in Path /\ at2[u] = at[u]
  BY DEF Grown, Wrote
<1>2. Len(h) \in Nat /\ DOMAIN h = 1..Len(h)
  BY Heaps DEF Grown
<1>3. Fresh(source, h) \subseteq Fresh(source, h2)
  <2>1. IsHeap(h2) /\ Len(h) <= Len(h2)
    BY DEF Wrote, Grown
  <2>2. Len(h2) \in Nat
    BY <2>1, Heaps
  <2> QED
    BY <1>2, <2>1, <2>2 DEF Fresh
<1>4. \/ Kept(source, h, h2, u, t)
      \/ Unset(source, h, h2, u, t)
      \/ Opened(source, h, h2, at2, path, u, t) /\ Len(at2[u]) + 1 < Len(path)
      \/ /\ OnTheWay(at2[u], t, path) /\ Len(at2[u]) + 1 = Len(path)
         /\ Member(h2, u, t) = v
  BY <1>3 DEF Wrote
<1>5. CASE Opened(source, h, h2, at2, path, u, t)
  <2>1. OnTheWay(at[u], t, path) /\ Member(h, u, t) \notin DOMAIN h
    BY <1>1, <1>5 DEF Opened
  <2>2. Member(h, u, t) \in Fresh(source, h) => Member(h, u, t) \in DOMAIN h
    BY <1>2 DEF Fresh, Grown
  <2>3. Len(at[u]) + 1 \in {Len(to), Len(path)}
    BY <2>1, <2>2
  <2> QED
    BY <1>1, <2>1, <2>3, OnBoth
<1>6. CASE OnTheWay(at2[u], t, path) /\ Len(at2[u]) + 1 = Len(path)
  BY <1>1, <1>6, OnBoth
<1> QED
  BY <1>4, <1>5, <1>6 DEF Kept, Unset

LEMMA RuleHeld ==
  ASSUME NEW source, NEW rules, NEW wire, Fair(source, rules, wire),
         NEW h, NEW at, Grown(source, h, at), NEW n \in Nat, n < Len(rules),
         Held(source, rules, wire, h, at, n), Writes(rules, n + 1, source, wire),
         NEW v, v = RuleValue(rules[n + 1], source, wire),
         NEW h2, NEW at2, Wrote(source, h, at, rules[n + 1].to, v, h2, at2),
         NEW d, Chained(source, h2, at2, rules[n + 1].to, v, d)
  PROVE  Held(source, rules, wire, h2, at2, n + 1)
<1> DEFINE path == rules[n + 1].to
<1> SUFFICES ASSUME NEW i \in 1..(n + 1), Writes(rules, i, source, wire),
                    Last(source, rules, wire, i, n + 1)
             PROVE  \E c : Chained(source, h2, at2, rules[i].to,
                                   RuleValue(rules[i], source, wire), c)
  BY DEF Held
<1>1. CASE i = n + 1
  BY <1>1
<1>2. CASE i \in 1..n
  <2> DEFINE to == rules[i].to
             w == RuleValue(rules[i], source, wire)
  <2>1. Last(source, rules, wire, i, n) /\ ~Clash(to, path)
    BY <1>2 DEF Last
  <2>2. PICK c : Chained(source, h, at, to, w, c)
    BY <1>2, <2>1 DEF Held
  <2>3. to \in Path /\ to # <<>> /\ path \in Path
    BY <1>2 DEF Fair, RuleTyped
  <2> HIDE DEF path, to, w
  <2>4. Len(to) \in Nat /\ Len(to) > 0
    BY <2>3 DEF Path
  <2>5. /\ c[0] = Len(source) + 1
        /\ \A k \in 0..(Len(to) - 1) :
             c[k] \in Fresh(source, h) /\ Len(at[c[k]]) = k /\ Leads(at[c[k]], to)
        /\ \A k \in 1..(Len(to) - 1) : Member(h, c[k - 1], to[k]) = c[k]
        /\ Member(h, c[Len(to) - 1], to[Len(to)]) = w
    BY <2>2 DEF Chained
  <2>6. Wrote(source, h, at, path, v, h2, at2)
    BY DEF path
  <2>7. /\ Fresh(source, h) \subseteq Fresh(source, h2)
        /\ \A u \in Fresh(source, h) : at2[u] = at[u]
    <3>1. Len(h) \in Nat /\ Len(h2) \in Nat /\ Len(source) \in Nat /\ Len(h) <= Len(h2)
      BY <2>6, Heaps DEF Grown, Fair, Wrote
    <3> QED
      BY <2>6, <3>1 DEF Fresh, Wrote
  <2>8. ASSUME NEW k \in 1..Len(to)
        PROVE  Member(h2, c[k - 1], to[k]) = Member(h, c[k - 1], to[k])
    <3>1. k - 1 \in 0..(Len(to) - 1)
      BY <2>4
    <3>2. PICK u : u = c[k - 1]
      OBVIOUS
    <3>3. u \in Fresh(source, h) /\ Len(at[u]) = k - 1 /\ Leads(at[u], to)
      BY <2>5, <3>1, <3>2
    <3>4. OnTheWay(at[u], to[k], to) /\ Len(at[u]) + 1 = k
      BY <2>4, <3>3 DEF OnTheWay
    <3>5. CASE k = Len(to)
      <4>1. Len(at[u]) + 1 = Len(to)
        BY <3>4, <3>5
      <4> QED
        BY <2>1, <2>3, <2>6, <3>2, <3>3, <3>4, <4>1, StillThere
    <3>6. CASE k \in 1..(Len(to) - 1)
      <4>1. Member(h, u, to[k]) = c[k] /\ k \in 0..(Len(to) - 1)
        BY <2>5, <3>2, <3>6
      <4>2. Member(h, u, to[k]) \in Fresh(source, h)
        BY <2>5, <4>1
      <4> QED
        BY <2>1, <2>3, <2>6, <3>2, <3>3, <3>4, <4>2, StillThere
    <3> QED
      BY <2>4, <3>5, <3>6
  <2>9. \A k \in 0..(Len(to) - 1) :
          c[k] \in Fresh(source, h2) /\ Len(at2[c[k]]) = k /\ Leads(at2[c[k]], to)
    BY <2>5, <2>7
  <2>10. \A k \in 1..(Len(to) - 1) : Member(h2, c[k - 1], to[k]) = c[k]
    BY <2>4, <2>5, <2>8
  <2>11. Member(h2, c[Len(to) - 1], to[Len(to)]) = w
    BY <2>4, <2>5, <2>8
  <2>12. Chained(source, h2, at2, to, w, c)
    BY <2>5, <2>9, <2>10, <2>11 DEF Chained
  <2> QED
    BY <2>12 DEF to, w
<1> QED
  BY <1>1, <1>2

\* The translation after n rules.
Translating(source, rules, wire, s, at, n) ==
  /\ s = [heap |-> s.heap, raised |-> s.raised]
  /\ s.raised = (\E i \in 1..n : RuleRaises(rules[i], source, wire))
  /\ Grown(source, s.heap, at) /\ Backed(source, rules, wire, s.heap, at, n)
  /\ ~s.raised => Held(source, rules, wire, s.heap, at, n)

LEMMA TranslatingBegins ==
  ASSUME NEW source, NEW rules, NEW wire, IsHeap(source)
  PROVE  \E at : Translating(source, rules, wire, Begun(source), at, 0)
<1> DEFINE root == Len(source) + 1
           h == Append(source, NewObject)
           at == [u \in {root} |-> <<>>]
<1>1. /\ source \in Seq(Range(source)) /\ Len(source) \in Nat /\ DOMAIN source = 1..Len(source)
      /\ \A v, t : Member(source, v, t) \in Atoms \union DOMAIN source \union {Undefined}
  BY Heaps DEF IsHeap
<1>2. /\ h \in Seq(Range(h)) /\ Len(h) = root /\ DOMAIN h = 1..root
      /\ h[root] = NewObject /\ \A o \in 1..Len(source) : h[o] = source[o]
  BY <1>1, OneMore
<1>3. \A u, x : Member(h, u, x) = IF u \in DOMAIN source THEN Member(source, u, x) ELSE Undefined
  BY <1>1, MemberNew
<1>4. at[root] = <<>> /\ <<>> \in Path
  BY DEF Path
<1> HIDE DEF h, at
<1>5. Fresh(source, h) = {root} /\ root \notin DOMAIN source
  BY <1>1, <1>2 DEF Fresh
<1>6. IsHeap(h)
  <2>1. ASSUME NEW o \in DOMAIN h, NEW x \in DOMAIN h[o] PROVE h[o][x] \in Atoms \union DOMAIN h
    <3>1. CASE o = root
      BY <1>2, <2>1, <3>1 DEF NewObject
    <3>2. CASE o \in DOMAIN source
      <4>1. h[o] = source[o]
        BY <1>1, <1>2, <3>2
      <4> QED
        BY <1>1, <1>2, <3>2, <4>1 DEF IsHeap
    <3> QED
      BY <1>1, <1>2, <3>1, <3>2
  <2> QED
    BY <1>2, <2>1 DEF IsHeap
<1>7. \A u \in Fresh(source, h) : \A x : Member(h, u, x) = Undefined
  BY <1>3, <1>5
<1>8. Undefined \notin Fresh(source, h)
  BY <1>1, <1>5, MessagesAssumption
<1>9. Grown(source, h, at)
  BY <1>1, <1>2, <1>4, <1>5, <1>6, <1>7, <1>8 DEF Grown
<1>10. Backed(source, rules, wire, h, at, 0)
  BY <1>7 DEF Backed
<1>11. Held(source, rules, wire, h, at, 0)
  BY DEF Held
<1>12. Translating(source, rules, wire, Begun(source), at, 0)
  BY <1>9, <1>10, <1>11 DEF Translating, Begun, h
<1> QED
  BY <1>12

LEMMA TranslatingGoesOn ==
  ASSUME NEW source, NEW rules, NEW wire, Fair(source, rules, wire), NEW n \in Nat, n < Len(rules),
         NEW s, NEW at, Translating(source, rules, wire, s, at, n),
         NEW root, root = Len(source) + 1, NEW s2, s2 = ApplyRule(rules[n + 1], wire, root, s)
  PROVE  \E at2 : Translating(source, rules, wire, s2, at2, n + 1)
<1> DEFINE rule == rules[n + 1]
<1>1. /\ IsHeap(source) /\ n + 1 \in 1..Len(rules) /\ RuleTyped(rule, source)
      /\ Len(rules) \in Nat /\ wire \in DOMAIN source
  BY DEF Fair
<1>2. /\ s = [heap |-> s.heap, raised |-> s.raised]
      /\ s.raised <=> \E i \in 1..n : RuleRaises(rules[i], source, wire)
      /\ s.raised \in BOOLEAN
      /\ Grown(source, s.heap, at) /\ Backed(source, rules, wire, s.heap, at, n)
      /\ ~s.raised => Held(source, rules, wire, s.heap, at, n)
  BY DEF Translating
<1>3. Keeps(source, s.heap)
  BY <1>1, <1>2, KeepsGrown
<1>4. /\ RuleSkips(rule, s.heap, wire) <=> RuleSkips(rule, source, wire)
      /\ RuleRaises(rule, s.heap, wire) <=> RuleRaises(rule, source, wire)
      /\ ~RuleRaises(rule, source, wire) =>
           RuleValue(rule, s.heap, wire) = RuleValue(rule, source, wire)
      /\ ~RuleRaises(rule, source, wire) /\ ~RuleSkips(rule, source, wire) =>
           RuleValue(rule, source, wire) \in Values(source)
  BY <1>1, <1>3, SameRule
<1>5. 1..(n + 1) = 1..n \union {n + 1}
  OBVIOUS
<1>6. CASE s.raised \/ RuleRaises(rule, s.heap, wire)
  <2>1. s2 = [heap |-> s.heap, raised |-> TRUE]
    <3>1. s2 = [s EXCEPT !.raised = TRUE]
      BY <1>6 DEF ApplyRule
    <3> QED
      BY <1>2, <3>1
  <2>2. \E i \in 1..(n + 1) : RuleRaises(rules[i], source, wire)
    BY <1>2, <1>4, <1>5, <1>6
  <2>3. Backed(source, rules, wire, s.heap, at, n + 1)
    BY <1>2, <1>5 DEF Backed
  <2>4. s2.heap = s.heap /\ s2.raised = TRUE /\ s2 = [heap |-> s2.heap, raised |-> s2.raised]
    BY <2>1
  <2>5. s2.raised = (\E i \in 1..(n + 1) : RuleRaises(rules[i], source, wire))
    BY <2>2, <2>4
  <2>6. Translating(source, rules, wire, s2, at, n + 1)
    BY <1>2, <2>3, <2>4, <2>5 DEF Translating
  <2> QED
    BY <2>6
<1>7. CASE ~s.raised /\ ~RuleRaises(rule, s.heap, wire) /\ RuleSkips(rule, s.heap, wire)
  <2>1. s2 = s
    BY <1>7 DEF ApplyRule
  <2>2. s.raised = (\E i \in 1..(n + 1) : RuleRaises(rules[i], source, wire))
    <3>1. ~\E i \in 1..(n + 1) : RuleRaises(rules[i], source, wire)
      BY <1>2, <1>4, <1>5, <1>7
    <3> QED
      BY <1>2, <1>7, <3>1
  <2>3. Backed(source, rules, wire, s.heap, at, n + 1)
    BY <1>2, <1>5 DEF Backed
  <2>4. Held(source, rules, wire, s.heap, at, n + 1)
    <3>1. ~Writes(rules, n + 1, source, wire)
      BY <1>4, <1>7 DEF Writes
    <3>2. \A i \in 1..n : Last(source, rules, wire, i, n + 1) => Last(source, rules, wire, i, n)
      BY DEF Last
    <3> QED
      BY <1>2, <1>5, <1>7, <3>1, <3>2 DEF Held
  <2>5. Translating(source, rules, wire, s2, at, n + 1)
    BY <1>2, <2>1, <2>2, <2>3, <2>4 DEF Translating
  <2> QED
    BY <2>5
<1>8. CASE ~s.raised /\ ~RuleRaises(rule, s.heap, wire) /\ ~RuleSkips(rule, s.heap, wire)
  <2>1. PICK v : v = RuleValue(rule, source, wire)
    OBVIOUS
  <2>2. v \in Values(source) /\ Writes(rules, n + 1, source, wire)
    BY <1>1, <1>4, <1>8, <2>1 DEF Writes
  <2>3. PICK h2 : h2 = SetDotted(s.heap, root, rule.to, v)
    OBVIOUS
  <2>4. s2 = [heap |-> h2, raised |-> FALSE]
    <3>1. s2 = [s EXCEPT !.heap = h2]
      BY <1>4, <1>8, <2>1, <2>3 DEF ApplyRule
    <3>2. s.raised = FALSE
      BY <1>2, <1>8
    <3> QED
      BY <1>2, <3>1, <3>2
  <2>5. ClearWay(source, s.heap, at, rule.to)
    BY <1>2, <2>2, NextClear
  <2>6. rule.to \in Path /\ rule.to # <<>> /\ v \in Atoms \union DOMAIN source
    BY <1>1, <2>2 DEF RuleTyped, Values
  <2>7. PICK at2, c : /\ Wrote(source, s.heap, at, rule.to, v, h2, at2)
                      /\ Chained(source, h2, at2, rule.to, v, c)
    BY <1>1, <1>2, <2>3, <2>5, <2>6, SetWrites
  <2>8. Grown(source, h2, at2)
    BY <2>7 DEF Wrote
  <2>9. Backed(source, rules, wire, h2, at2, n + 1)
    BY <1>2, <2>1, <2>2, <2>7, RuleBacked
  <2>10. Held(source, rules, wire, h2, at2, n + 1)
    BY <1>2, <1>8, <2>1, <2>2, <2>7, RuleHeld
  <2>11. ~\E i \in 1..(n + 1) : RuleRaises(rules[i], source, wire)
    BY <1>2, <1>4, <1>5, <1>8
  <2>12. s2.heap = h2 /\ s2.raised = FALSE /\ s2 = [heap |-> s2.heap, raised |-> s2.raised]
    BY <2>4
  <2>13. s2.raised = (\E i \in 1..(n + 1) : RuleRaises(rules[i], source, wire))
    BY <2>11, <2>12
  <2>14. Translating(source, rules, wire, s2, at2, n + 1)
    BY <2>8, <2>9, <2>10, <2>12, <2>13 DEF Translating
  <2> QED
    BY <2>14
<1> QED
  BY <1>6, <1>7, <1>8

\* The whole of the translation.
LEMMA TranslatingEnds ==
  ASSUME NEW source, NEW rules, NEW wire, Fair(source, rules, wire)
  PROVE  \E at : Translating(source, rules, wire, Applied(rules, source, wire), at, Len(rules))
<1>1. IsHeap(source) /\ Len(rules) \in Nat /\ Len(source) \in Nat
  BY Heaps DEF Fair
<1>2. PICK f : /\ Applying(f, rules, source, wire, Len(rules))
               /\ Applied(rules, source, wire) = f[Len(rules)]
  BY <1>1, ApplyingAll
<1>3. PICK root : root = Len(source) + 1
  OBVIOUS
<1> DEFINE S == {k \in Nat : k <= Len(rules) => \E at : Translating(source, rules, wire, f[k], at, k)}
<1>4. 0 \in S
  <2>1. f[0] = Begun(source)
    BY <1>1, <1>2, ApplyingFirst
  <2> QED
    BY <1>1, <2>1, TranslatingBegins
<1>5. ASSUME NEW m \in Nat, m \in S PROVE m + 1 \in S
  <2> SUFFICES ASSUME m + 1 <= Len(rules)
               PROVE  \E at : Translating(source, rules, wire, f[m + 1], at, m + 1)
    OBVIOUS
  <2>1. PICK at : Translating(source, rules, wire, f[m], at, m)
    BY <1>1, <1>5
  <2>2. f[m + 1] = ApplyRule(rules[m + 1], wire, root, f[m])
    <3>1. m + 1 \in 1..Len(rules) /\ (m + 1) - 1 = m
      BY <1>1
    <3>2. \A k \in 1..Len(rules) : f[k] = ApplyRule(rules[k], wire, root, f[k - 1])
      BY <1>1, <1>2, <1>3, ApplyingNext
    <3> QED
      BY <3>1, <3>2
  <2>3. m < Len(rules)
    BY <1>1
  <2> QED
    BY <1>3, <2>1, <2>2, <2>3, TranslatingGoesOn
<1> HIDE DEF S
<1>6. \A k \in 0..Len(rules) : k \in S
  <2>1. 0 \in Nat
    OBVIOUS
  <2> QED
    BY <1>1, <1>4, <1>5, <2>1, StepByStep
<1>7. Len(rules) \in S
  BY <1>1, <1>6
<1> QED
  BY <1>1, <1>2, <1>7 DEF S

\* No rule has written where this path leads: nothing is there.
LEMMA Unread ==
  ASSUME NEW source, NEW rules, NEW wire, Fair(source, rules, wire), NEW h, NEW at,
         Grown(source, h, at), Backed(source, rules, wire, h, at, Len(rules)),
         NEW q \in Path, q # <<>>, NEW root, root = Len(source) + 1,
         \A j \in 1..Len(rules) : Writes(rules, j, source, wire) => ~Clash(q, rules[j].to)
  PROVE  ResolvePointer(h, root, q) = Undefined
<1> DEFINE Inside(u, k) == u \in Fresh(source, h) /\ Len(at[u]) = k /\ Leads(at[u], q)
<1>1. Len(q) \in Nat /\ Len(q) > 0
  BY DEF Path
<1>2. PICK g : Along(h, root, q, g) /\ ResolvePointer(h, root, q) = g[Len(q)]
  BY Way
<1>3. /\ IsHeap(h) /\ Len(source) \in Nat /\ Len(h) \in Nat /\ Len(source) < Len(h)
      /\ \A t : Member(h, Undefined, t) = Undefined
  <2>1. IsHeap(h) /\ IsHeap(source)
    BY DEF Grown, Fair
  <2>2. Len(source) \in Nat /\ Len(h) \in Nat /\ Undefined \notin DOMAIN h
    BY <2>1, Heaps
  <2> QED
    BY <2>1, <2>2 DEF Grown, Member
<1> DEFINE S == {k \in Nat : g[k] = Undefined \/ (k < Len(q) /\ Inside(g[k], k))}
<1>4. 0 \in S
  <2>1. g[0] = root /\ at[root] = <<>> /\ root \in Fresh(source, h)
    BY <1>2, <1>3 DEF Along, Grown, Fresh
  <2>2. Inside(g[0], 0)
    BY <2>1 DEF Leads
  <2> QED
    BY <1>1, <2>2
<1>5. ASSUME NEW k \in Nat, k < Len(q), k \in S PROVE k + 1 \in S
  <2> DEFINE t == q[k + 1]
             u == g[k]
  <2>1. t \in Tokens /\ k + 1 \in 1..Len(q)
    BY <1>1, <1>5 DEF Path
  <2>2. g[k + 1] = Member(h, u, t)
    <3>1. (k + 1) - 1 = k
      OBVIOUS
    <3> QED
      BY <1>2, <2>1, <3>1 DEF Along
  <2>3. CASE u = Undefined
    BY <1>3, <2>2, <2>3
  <2>4. CASE Member(h, u, t) = Undefined
    BY <2>2, <2>4
  <2>5. CASE Inside(u, k) /\ Member(h, u, t) # Undefined
    <3>1. at[u] \in Path /\ OnTheWay(at[u], t, q)
      BY <1>5, <2>5 DEF Grown, OnTheWay
    <3>2. PICK i \in 1..Len(rules) :
            /\ Writes(rules, i, source, wire) /\ OnTheWay(at[u], t, rules[i].to)
            /\ Member(h, u, t) \notin Fresh(source, h) => Len(at[u]) + 1 = Len(rules[i].to)
      BY <2>5 DEF Backed
    <3>3. rules[i].to \in Path /\ ~Clash(q, rules[i].to)
      BY <3>2 DEF Fair, RuleTyped
    <3>4. Len(at[u]) + 1 \notin {Len(q), Len(rules[i].to)}
      BY <3>1, <3>2, <3>3, OnBoth
    <3>5. Member(h, u, t) \in Fresh(source, h) /\ at[Member(h, u, t)] = Append(at[u], t)
      BY <2>5, <3>2, <3>4 DEF Grown
    <3>6. Len(Append(at[u], t)) = k + 1 /\ Leads(Append(at[u], t), q)
      BY <2>1, <2>5, <3>1, Steps
    <3>7. k + 1 < Len(q)
      BY <1>1, <1>5, <2>5, <3>4
    <3>8. Inside(Member(h, u, t), k + 1)
      BY <3>5, <3>6
    <3>9. Inside(g[k + 1], k + 1)
      BY <2>2, <3>8
    <3> HIDE DEF Inside
    <3> QED
      BY <3>7, <3>9
  <2>6. u = Undefined \/ Inside(u, k)
    BY <1>5
  <2> QED
    BY <2>3, <2>4, <2>5, <2>6
<1> HIDE DEF S
<1>6. \A k \in 0..Len(q) : k \in S
  <2>1. 0 \in Nat
    OBVIOUS
  <2> QED
    BY <1>1, <1>4, <1>5, <2>1, StepByStep
<1>7. Len(q) \in S
  BY <1>1, <1>6
<1> QED
  BY <1>1, <1>2, <1>7 DEF S

LEMMA KeepsMore ==
  ASSUME NEW a, NEW b, NEW c, Keeps(a, b), Keeps(b, c)
  PROVE  Keeps(a, c)
<1>1. Len(a) \in Nat /\ Len(b) \in Nat /\ Len(c) \in Nat
  BY Heaps DEF Keeps
<1> QED
  BY <1>1 DEF Keeps

\* Two messages of which the rules make the same.
Likewise(heap, rules, source, wire, source2, wire2) ==
  \A i \in 1..Len(rules) :
    /\ Writes(rules, i, source2, wire2) <=> Writes(rules, i, source, wire)
    /\ Writes(rules, i, source, wire) =>
         Alike(heap, RuleValue(rules[i], source2, wire2), RuleValue(rules[i], source, wire))

\* The payload of a translation that has not raised carries what the rules make of it.
LEMMA Carrying ==
  ASSUME NEW rules, NEW source2, NEW wire2, Fair(source2, rules, wire2), NEW s, NEW at,
         Translating(source2, rules, wire2, s, at, Len(rules)), ~s.raised,
         NEW heap, Keeps(s.heap, heap), NEW source, NEW wire,
         Likewise(heap, rules, source, wire, source2, wire2)
  PROVE  Carries(heap, Len(source2) + 1, rules, source, wire)
<1> SUFFICES ASSUME NEW i \in 1..Len(rules), NEW found, NEW clashing,
                    found = ResolvePointer(heap, Len(source2) + 1, rules[i].to),
                    clashing = {j \in 1..Len(rules) : /\ Writes(rules, j, source, wire)
                                                      /\ Clash(rules[i].to, rules[j].to)}
             PROVE  /\ clashing = {} => found = Undefined
                    /\ i \in clashing /\ (\A j \in clashing : j <= i) =>
                         Alike(heap, found, RuleValue(rules[i], source, wire))
  BY DEF Carries
<1>1. PICK root : root = Len(source2) + 1
  OBVIOUS
<1>2. /\ Grown(source2, s.heap, at) /\ Backed(source2, rules, wire2, s.heap, at, Len(rules))
      /\ Held(source2, rules, wire2, s.heap, at, Len(rules))
  BY DEF Translating
<1>3. rules[i].to \in Path /\ rules[i].to # <<>> /\ Len(rules) \in Nat
  BY DEF Fair, RuleTyped
<1>4. root \in Values(s.heap)
  <2>1. IsHeap(source2) /\ IsHeap(s.heap) /\ Len(source2) < Len(s.heap)
    BY <1>2 DEF Grown, Fair
  <2>2. Len(source2) \in Nat /\ Len(s.heap) \in Nat /\ DOMAIN s.heap = 1..Len(s.heap)
    BY <2>1, Heaps
  <2> QED
    BY <1>1, <2>1, <2>2 DEF Values
<1>5. found = ResolvePointer(s.heap, root, rules[i].to)
  BY <1>1, <1>3, <1>4, ReadOld
<1>6. \A j \in 1..Len(rules) : Writes(rules, j, source2, wire2) <=> Writes(rules, j, source, wire)
  BY DEF Likewise
<1>7. ASSUME clashing = {} PROVE found = Undefined
  <2>1. \A j \in 1..Len(rules) : Writes(rules, j, source2, wire2) => ~Clash(rules[i].to, rules[j].to)
    BY <1>6, <1>7
  <2> QED
    BY <1>1, <1>2, <1>3, <1>5, <2>1, Unread
<1>8. ASSUME i \in clashing, \A j \in clashing : j <= i
      PROVE  Alike(heap, found, RuleValue(rules[i], source, wire))
  <2>1. Writes(rules, i, source, wire) /\ Writes(rules, i, source2, wire2)
    BY <1>6, <1>8
  <2>2. Last(source2, rules, wire2, i, Len(rules))
    <3>1. ASSUME NEW j \in (i + 1)..Len(rules), Writes(rules, j, source2, wire2),
                 Clash(rules[i].to, rules[j].to)
          PROVE  FALSE
      <4>1. j \in 1..Len(rules) /\ ~(j <= i)
        BY <1>3
      <4> QED
        BY <1>6, <1>8, <3>1, <4>1
    <3> QED
      BY <3>1 DEF Last
  <2>3. PICK c : Chained(source2, s.heap, at, rules[i].to, RuleValue(rules[i], source2, wire2), c)
    BY <1>2, <2>1, <2>2 DEF Held
  <2>4. found = RuleValue(rules[i], source2, wire2)
    BY <1>1, <1>3, <1>5, <2>3, ReadChain
  <2> QED
    BY <2>1, <2>4 DEF Likewise
<1> QED
  BY <1>7, <1>8

-----------------------------------------------------------------------------
(* A translation, and one through the transport.                           *)

\* A translation raises: for one of its rules or one of its keys.
Fails(mapping, source, wire) ==
  \/ \E i \in 1..Len(mapping.rules) : RuleRaises(mapping.rules[i], source, wire)
  \/ \E i \in 1..Len(mapping.keys) : ResolvePointer(source, wire, mapping.keys[i]) \notin Strings

\* The envelope is made of the payload of a translation that has not raised.
Enveloped(mapping, source, wire, t) ==
  /\ t.envelope.keys = [i \in 1..Len(mapping.keys) |->
                          ResolvePointer(source, wire, mapping.keys[i])]
  /\ t.envelope.payload = Len(source) + 1
  /\ \E s, at : /\ s.heap = t.heap /\ ~s.raised
                /\ Translating(source, mapping.rules, wire, s, at, Len(mapping.rules))

LEMMA Translated ==
  ASSUME NEW mapping, NEW source, NEW wire, Fair(source, mapping.rules, wire),
         mapping.keys \in Seq(Path), NEW t, t = Translation(mapping, source, wire)
  PROVE  /\ Keeps(source, t.heap)
         /\ t.envelope = Error <=> Fails(mapping, source, wire)
         /\ t.envelope # Error => Enveloped(mapping, source, wire, t)
<1> DEFINE rules == mapping.rules
           keys == mapping.keys
           found == [i \in 1..Len(keys) |-> ResolvePointer(source, wire, keys[i])]
<1>1. PICK s, at : /\ s = Applied(rules, source, wire)
                   /\ Translating(source, rules, wire, s, at, Len(rules))
  BY TranslatingEnds
<1>2. /\ s.raised <=> \E i \in 1..Len(rules) : RuleRaises(rules[i], source, wire)
      /\ Grown(source, s.heap, at)
  BY <1>1 DEF Translating
<1>3. Keeps(source, s.heap)
  BY <1>2, KeepsGrown DEF Fair
<1>4. Len(keys) \in Nat /\ DOMAIN keys = 1..Len(keys) /\ \A i \in 1..Len(keys) : keys[i] \in Path
  OBVIOUS
<1>5. ASSUME NEW i \in 1..Len(keys)
      PROVE  ResolvePointer(s.heap, wire, keys[i]) = ResolvePointer(source, wire, keys[i])
  <2>1. wire \in Values(source) \union {Undefined}
    BY DEF Fair, Values
  <2> QED
    BY <1>3, <1>4, <2>1, ReadOld
<1>6. (\E k \in Range(keys) : KeyRaises(k, s.heap, wire))
        <=> \E i \in 1..Len(keys) : ResolvePointer(source, wire, keys[i]) \notin Strings
  BY <1>4, <1>5 DEF Range, KeyRaises
<1>7. [i \in DOMAIN keys |-> ResolvePointer(s.heap, wire, keys[i])] = found
  BY <1>4, <1>5
<1> HIDE DEF found
<1>8. /\ t.heap = s.heap
      /\ t.envelope = IF \/ s.raised
                         \/ \E k \in Range(keys) : KeyRaises(k, s.heap, wire)
                      THEN Error
                      ELSE [keys |-> found, payload |-> Len(source) + 1]
  BY <1>1, <1>7 DEF Translation
<1>9. Fails(mapping, source, wire) =>
        t.envelope = Error
  BY <1>2, <1>6, <1>8 DEF Fails
<1>10. ASSUME ~Fails(mapping, source, wire)
       PROVE  /\ t.envelope # Error /\ ~s.raised
              /\ t.envelope.keys = found /\ t.envelope.payload = Len(source) + 1
  <2>1. ~s.raised /\ t.envelope = [keys |-> found, payload |-> Len(source) + 1]
    BY <1>2, <1>6, <1>8, <1>10 DEF Fails
  <2>2. found \in Seq(Strings)
    <3>1. \A i \in 1..Len(keys) : ResolvePointer(source, wire, keys[i]) \in Strings
      BY <1>10 DEF Fails
    <3> QED
      BY <1>4, <3>1 DEF found
  <2>3. Len(source) + 1 \in Nat
    <3>1. Len(source) \in Nat
      BY Heaps DEF Fair
    <3> QED
      BY <3>1
  <2> QED
    BY <2>1, <2>2, <2>3, MessagesAssumption
<1>11. t.envelope # Error => Enveloped(mapping, source, wire, t)
  BY <1>1, <1>8, <1>9, <1>10 DEF Enveloped, found
<1> QED
  BY <1>3, <1>8, <1>9, <1>10, <1>11

IsObject(object, h) == \A x \in DOMAIN object : object[x] \in Values(h)

\* g has one more object than h.
Added(h, object, g, new) ==
  /\ Keeps(h, g) /\ Len(g) = new /\ new \in DOMAIN g /\ g[new] = object
  /\ \A x : Member(g, new, x) = IF x \in DOMAIN object THEN object[x] ELSE Undefined

LEMMA OneObject ==
  ASSUME NEW h, IsHeap(h), NEW object, IsObject(object, h),
         NEW g, g = Append(h, object), NEW new, new = Len(h) + 1
  PROVE  Added(h, object, g, new)
<1>1. /\ h \in Seq(Range(h)) /\ Len(h) \in Nat /\ DOMAIN h = 1..Len(h)
  BY Heaps DEF IsHeap
<1>2. /\ g \in Seq(Range(g)) /\ Len(g) = Len(h) + 1 /\ DOMAIN g = 1..(Len(h) + 1)
      /\ g[new] = object /\ \A o \in 1..Len(h) : g[o] = h[o]
  BY <1>1, OneMore
<1>3. ASSUME NEW o \in DOMAIN g, NEW x \in DOMAIN g[o] PROVE g[o][x] \in Atoms \union DOMAIN g
  <2>1. CASE o = new
    BY <1>1, <1>2, <1>3, <2>1 DEF Values, IsObject
  <2>2. CASE o \in DOMAIN h
    <3>1. g[o] = h[o]
      BY <1>1, <1>2, <2>2
    <3> QED
      BY <1>1, <1>2, <1>3, <2>2, <3>1 DEF IsHeap
  <2> QED
    BY <1>1, <1>2, <2>1, <2>2
<1>4. new \in DOMAIN g
  BY <1>1, <1>2
<1> QED
  BY <1>1, <1>2, <1>3, <1>4 DEF IsHeap, Keeps, Member, Added

LEMMA OneValue ==
  ASSUME NEW source, NEW h, Keeps(source, h), NEW o \in DOMAIN h, o > Len(source), NEW t,
         NEW v \in Values(h), NEW g, g = Put(h, o, t, v)
  PROVE  /\ Keeps(source, g) /\ Len(g) = Len(h) /\ DOMAIN g = DOMAIN h
         /\ \A u, x : Member(g, u, x) = IF u = o /\ x = t THEN v ELSE Member(h, u, x)
<1>1. /\ h \in Seq(Range(h)) /\ Len(h) \in Nat /\ Len(source) \in Nat /\ DOMAIN h = 1..Len(h)
      /\ IsHeap(h) /\ IsHeap(source) /\ Len(source) <= Len(h)
      /\ \A i \in 1..Len(source) : h[i] = source[i]
  BY Heaps DEF Keeps, IsHeap
<1>2. /\ g \in Seq(Range(g)) /\ Len(g) = Len(h) /\ DOMAIN g = DOMAIN h
      /\ \A i \in DOMAIN h \ {o} : g[i] = h[i]
      /\ \A x : x \in DOMAIN g[o] => x = t \/ x \in DOMAIN h[o]
      /\ \A u, x : Member(g, u, x) = IF u = o /\ x = t THEN v ELSE Member(h, u, x)
  BY <1>1, MemberPut
<1>3. ASSUME NEW i \in DOMAIN g, NEW x \in DOMAIN g[i] PROVE g[i][x] \in Atoms \union DOMAIN g
  <2>1. CASE i # o
    <3>1. g[i] = h[i]
      BY <1>2, <2>1
    <3> QED
      BY <1>1, <1>2, <1>3, <3>1 DEF IsHeap
  <2>2. CASE i = o /\ x = t
    <3>1. g[i][x] = Member(g, i, x)
      BY <1>3 DEF Member
    <3> QED
      BY <1>2, <2>2, <3>1 DEF Values
  <2>3. CASE i = o /\ x # t
    <3>1. g[i][x] = Member(g, i, x)
      BY <1>3 DEF Member
    <3>2. x \in DOMAIN h[i] /\ Member(g, i, x) = h[i][x]
      BY <1>2, <1>3, <2>3 DEF Member
    <3> QED
      BY <1>1, <1>2, <1>3, <3>1, <3>2 DEF IsHeap
  <2> QED
    BY <2>1, <2>2, <2>3
<1>4. \A i \in 1..Len(source) : i \in DOMAIN h \ {o}
  BY <1>1
<1> QED
  BY <1>1, <1>2, <1>3, <1>4 DEF IsHeap, Keeps

\* The decoded message has the members of the wire message and, of a transport with an
\* envelope, at most an object of its own without members under the envelope's key.
Framing(h, g, wire, wire2, protocol) ==
  /\ Keeps(h, g) /\ wire \in DOMAIN h /\ wire2 \in DOMAIN g
  /\ \A t : \/ Member(g, wire2, t) = Member(h, wire, t)
            \/ /\ protocol # "rest" /\ t = EnvelopeKey[protocol]
               /\ Member(h, wire, t) = Undefined
               /\ \A x : Member(g, Member(g, wire2, t), x) = Undefined

LEMMA DecodedFrame ==
  ASSUME NEW h, IsHeap(h), NEW wire \in DOMAIN h, NEW protocol \in {"rest", "broker", "webhook"},
         NEW g, g = Decode(protocol, FrameFor(protocol, h, wire))
  PROVE  Framing(h, g, wire, Len(g), protocol)
<1>1. /\ Len(h) \in Nat /\ DOMAIN h = 1..Len(h)
      /\ \A x \in DOMAIN h[wire] : h[wire][x] \in Values(h)
      /\ \A x : Member(h, wire, x) = IF x \in DOMAIN h[wire] THEN h[wire][x] ELSE Undefined
  BY Heaps DEF IsHeap, Values, Member
<1>2. Keeps(h, h)
  BY <1>1 DEF Keeps
<1>3. CASE protocol = "rest"
  <2>1. g = Append(h, h[wire])
    BY <1>3 DEF Decode, FrameFor
  <2>2. PICK new, object : new = Len(h) + 1 /\ object = h[wire]
    OBVIOUS
  <2>3. IsObject(object, h)
    BY <1>1, <2>2 DEF IsObject
  <2>4. Added(h, object, g, new)
    BY <2>1, <2>2, <2>3, OneObject
  <2> QED
    BY <1>1, <2>2, <2>4 DEF Framing, Added
<1>4. CASE protocol # "rest"
  <2> DEFINE key == EnvelopeKey[protocol]
             bare == [x \in DOMAIN h[wire] \ {key} |-> h[wire][x]]
  <2>1. PICK body : body = Append(h, bare)
    OBVIOUS
  <2>2. DOMAIN bare = DOMAIN h[wire] \ {key} /\ \A x \in DOMAIN bare : bare[x] = h[wire][x]
    OBVIOUS
  <2>3. Restrict(h[wire], DOMAIN h[wire] \ {key}) = bare
    BY DEF Restrict
  <2> HIDE DEF key, bare
  <2>4. IsObject(bare, h)
    BY <1>1, <2>2 DEF IsObject
  <2>5. PICK b : b = Len(h) + 1
    OBVIOUS
  <2>6. /\ Keeps(h, body) /\ Len(body) = b /\ b \in DOMAIN body /\ body[b] = bare
    <3>1. Added(h, bare, body, b)
      BY <2>1, <2>4, <2>5, OneObject
    <3> QED
      BY <3>1 DEF Added
  <2>7. Values(h) \subseteq Values(body) /\ IsHeap(body)
    BY <1>1, <2>6, Heaps DEF Values, Keeps
  <2>8. IsObject(bare, body)
    BY <2>4, <2>7 DEF IsObject
  <2>9. CASE Member(h, wire, key) = Undefined
    <3>1. PICK heap, e : heap = Append(body, NewObject) /\ e = Len(h) + 2
      OBVIOUS
    <3>2. FrameFor(protocol, h, wire) = [heap |-> heap, body |-> b, envelope |-> e]
      BY <1>4, <2>1, <2>3, <2>5, <2>9, <3>1 DEF FrameFor, key
    <3>3. DOMAIN NewObject = {}
      BY DEF NewObject
    <3>4. e = Len(body) + 1
      BY <1>1, <2>5, <2>6, <3>1
    <3>5. /\ Keeps(body, heap) /\ Len(heap) = e /\ e \in DOMAIN heap
          /\ \A x : Member(heap, e, x) = Undefined
      <4>1. IsObject(NewObject, body)
        BY <3>3 DEF IsObject
      <4>2. Added(body, NewObject, heap, e)
        BY <2>7, <3>1, <3>4, <4>1, OneObject
      <4> QED
        BY <3>3, <4>2 DEF Added
    <3>6. heap[b] = bare /\ Values(h) \subseteq Values(heap) /\ Keeps(h, heap)
      <4>1. b \in 1..Len(body)
        BY <1>1, <2>5, <2>6
      <4>2. Values(body) \subseteq Values(heap)
        BY <3>5, Heaps DEF Values, Keeps
      <4>3. heap[b] = bare
        BY <2>6, <3>5, <4>1 DEF Keeps
      <4> QED
        BY <2>6, <2>7, <3>5, <4>2, <4>3, KeepsMore
    <3>7. PICK copy, w : copy = Append(heap, bare) /\ w = Len(heap) + 1
      OBVIOUS
    <3>8. /\ Keeps(heap, copy) /\ Len(copy) = w /\ w \in DOMAIN copy
          /\ \A x : Member(copy, w, x) = IF x \in DOMAIN bare THEN bare[x] ELSE Undefined
      <4>1. IsObject(bare, heap) /\ IsHeap(heap)
        BY <2>4, <3>5, <3>6 DEF IsObject, Keeps
      <4>2. Added(heap, bare, copy, w)
        BY <3>7, <4>1, OneObject
      <4> QED
        BY <4>2 DEF Added
    <3>9. g = Put(copy, w, key, e)
      BY <1>4, <3>2, <3>6, <3>7, <3>8 DEF Decode, key
    <3>10. Keeps(h, copy)
      BY <3>6, <3>8, KeepsMore
    <3>11. w > Len(h) /\ e \in Values(copy) /\ e # w
      <4>1. Len(heap) \in Nat /\ Len(copy) \in Nat /\ DOMAIN copy = 1..Len(copy)
        BY <3>8, Heaps DEF Keeps
      <4> QED
        BY <1>1, <3>1, <3>5, <3>7, <3>8, <4>1 DEF Values
    <3>12. /\ Keeps(h, g) /\ Len(g) = w /\ w \in DOMAIN g
           /\ \A u, x : Member(g, u, x) = IF u = w /\ x = key THEN e ELSE Member(copy, u, x)
      BY <3>9, <3>8, <3>10, <3>11, OneValue
    <3>13. \A x : Member(g, e, x) = Undefined
      <4>1. e \in Values(heap) \union {Undefined}
        BY <3>5 DEF Values
      <4>2. \A x : Member(copy, e, x) = Undefined
        BY <3>5, <3>8, <4>1, OldMember
      <4> QED
        BY <3>11, <3>12, <4>2
    <3>14. ASSUME NEW x
           PROVE  \/ Member(g, w, x) = Member(h, wire, x)
                  \/ /\ protocol # "rest" /\ x = key /\ Member(h, wire, x) = Undefined
                     /\ \A y : Member(g, Member(g, w, x), y) = Undefined
      <4>1. CASE x = key
        BY <1>4, <2>9, <3>12, <3>13, <4>1
      <4>2. CASE x # key
        BY <1>1, <2>2, <3>8, <3>12, <4>2
      <4> QED
        BY <4>1, <4>2
    <3> QED
      BY <3>12, <3>14 DEF Framing, key
  <2>10. CASE Member(h, wire, key) # Undefined
    <3>1. PICK e : e = Member(h, wire, key)
      OBVIOUS
    <3>2. FrameFor(protocol, h, wire) = [heap |-> body, body |-> b, envelope |-> e]
      BY <1>4, <2>1, <2>3, <2>5, <2>10, <3>1 DEF FrameFor, key
    <3>3. e \in Values(h)
      BY <2>10, <3>1, Heaps DEF Values
    <3>4. PICK copy, w : copy = Append(body, bare) /\ w = Len(body) + 1
      OBVIOUS
    <3>5. /\ Keeps(body, copy) /\ Len(copy) = w /\ w \in DOMAIN copy
          /\ \A x : Member(copy, w, x) = IF x \in DOMAIN bare THEN bare[x] ELSE Undefined
      <4>1. Added(body, bare, copy, w)
        BY <2>7, <2>8, <3>4, OneObject
      <4> QED
        BY <4>1 DEF Added
    <3>6. g = Put(copy, w, key, e)
      BY <1>4, <2>6, <3>2, <3>4, <3>5 DEF Decode, key
    <3>7. Keeps(h, copy)
      BY <2>6, <3>5, KeepsMore
    <3>8. w > Len(h) /\ e \in Values(copy)
      <4>1. Values(body) \subseteq Values(copy)
        BY <3>5, Heaps DEF Values, Keeps
      <4> QED
        BY <1>1, <2>5, <2>6, <2>7, <3>3, <3>4, <4>1
    <3>9. /\ Keeps(h, g) /\ Len(g) = w /\ w \in DOMAIN g
          /\ \A u, x : Member(g, u, x) = IF u = w /\ x = key THEN e ELSE Member(copy, u, x)
      BY <3>5, <3>6, <3>7, <3>8, OneValue
    <3>10. ASSUME NEW x PROVE Member(g, w, x) = Member(h, wire, x)
      <4>1. CASE x = key
        BY <3>1, <3>9, <4>1
      <4>2. CASE x # key
        BY <1>1, <2>2, <3>5, <3>9, <4>2
      <4> QED
        BY <4>1, <4>2
    <3> QED
      BY <3>9, <3>10 DEF Framing
  <2> QED
    BY <2>9, <2>10
<1> QED
  BY <1>3, <1>4

\* A pointer reads the same in the decoded message, but for one to an envelope that the
\* wire message has not, and one to the whole.
LEMMA SameWay ==
  ASSUME NEW h, NEW g, NEW wire, NEW wire2, NEW protocol, Framing(h, g, wire, wire2, protocol),
         NEW q \in Path, q # <<>>,
         ~ /\ protocol # "rest" /\ q = <<EnvelopeKey[protocol]>>
           /\ Member(h, wire, EnvelopeKey[protocol]) = Undefined
  PROVE  ResolvePointer(g, wire2, q) = ResolvePointer(h, wire, q)
<1> DEFINE Astray(a, b, k) == /\ k = 1 /\ Len(q) # 1 /\ a = Undefined
                              /\ \A x : Member(g, b, x) = Undefined
<1>1. Len(q) \in Nat /\ Len(q) > 0 /\ (Len(q) = 1 => q = <<q[1]>>)
  BY DEF Path
<1>2. PICK a : Along(h, wire, q, a) /\ ResolvePointer(h, wire, q) = a[Len(q)]
  BY Way
<1>3. PICK b : Along(g, wire2, q, b) /\ ResolvePointer(g, wire2, q) = b[Len(q)]
  BY Way
<1>4. /\ Keeps(h, g) /\ wire \in Values(h) \union {Undefined}
      /\ \A t : Member(h, Undefined, t) = Undefined
  <2>1. Undefined \notin DOMAIN h
    BY Heaps DEF Framing, Keeps
  <2> QED
    BY <2>1 DEF Framing, Values, Member
<1> DEFINE S == {k \in Nat : \/ a[k] = b[k] /\ a[k] \in Values(h) \union {Undefined}
                             \/ Astray(a[k], b[k], k)}
<1>5. 1 \in S
  <2>1. 1 \in 1..Len(q) /\ 1 - 1 = 0
    BY <1>1
  <2>2. a[1] = Member(h, wire, q[1]) /\ b[1] = Member(g, wire2, q[1])
    BY <1>2, <1>3, <2>1 DEF Along
  <2>3. a[1] \in Values(h) \union {Undefined}
    BY <1>4, <2>2, OldMember
  <2>4. \/ b[1] = a[1]
        \/ /\ protocol # "rest" /\ q[1] = EnvelopeKey[protocol] /\ a[1] = Undefined
           /\ \A x : Member(g, b[1], x) = Undefined
    BY <2>2 DEF Framing
  <2>5. b[1] = a[1] \/ Astray(a[1], b[1], 1)
    BY <1>1, <2>2, <2>4
  <2> QED
    BY <2>3, <2>5
<1>6. ASSUME NEW k \in Nat, 1 <= k, k < Len(q), k \in S PROVE k + 1 \in S
  <2>1. k + 1 \in 1..Len(q) /\ (k + 1) - 1 = k
    BY <1>1, <1>6
  <2>2. a[k + 1] = Member(h, a[k], q[k + 1]) /\ b[k + 1] = Member(g, b[k], q[k + 1])
    BY <1>2, <1>3, <2>1 DEF Along
  <2>3. CASE a[k] = b[k] /\ a[k] \in Values(h) \union {Undefined}
    <3>1. a[k + 1] = b[k + 1] /\ a[k + 1] \in Values(h) \union {Undefined}
      BY <1>4, <2>2, <2>3, OldMember
    <3> QED
      BY <3>1
  <2>4. CASE Astray(a[k], b[k], k)
    <3>1. a[k + 1] = Undefined /\ b[k + 1] = Undefined
      BY <1>4, <2>2, <2>4
    <3> QED
      BY <3>1
  <2> QED
    BY <1>6, <2>3, <2>4
<1> HIDE DEF S
<1>7. \A k \in 1..Len(q) : k \in S
  BY <1>1, <1>5, <1>6, StepByStep
<1>8. Len(q) \in S
  BY <1>1, <1>7
<1> QED
  BY <1>2, <1>3, <1>8 DEF S

LEMMA ReadWhole ==
  ASSUME NEW h, NEW v
  PROVE  ResolvePointer(h, v, <<>>) = v
<1>1. <<>> \in Path /\ Len(<<>>) = 0
  BY DEF Path
<1>2. PICK g : Along(h, v, <<>>, g) /\ ResolvePointer(h, v, <<>>) = g[Len(<<>>)]
  BY <1>1, Way
<1> QED
  BY <1>1, <1>2 DEF Along

\* A message, and the same through the transport.
Through(rules, source, wire, h, g, wire2, protocol) ==
  /\ Fair(source, rules, wire) /\ Keeps(source, h) /\ Framing(h, g, wire, wire2, protocol)
  /\ ~SeesTheFrame(rules, source, wire, protocol)

\* The value that a pointer of a rule leads to.
LEMMA SameRaw ==
  ASSUME NEW rules, NEW source, NEW wire, NEW h, NEW g, NEW wire2, NEW protocol,
         Through(rules, source, wire, h, g, wire2, protocol),
         NEW i \in 1..Len(rules), rules[i].from \in Path,
         NEW heap, Keeps(g, heap),
         NEW raw, raw = ResolvePointer(source, wire, rules[i].from),
         NEW raw2, raw2 = ResolvePointer(g, wire2, rules[i].from)
  PROVE  \/ raw2 = raw
         \/ raw = wire /\ raw2 = wire2 /\ Alike(heap, wire2, wire)
<1>1. /\ Fair(source, rules, wire) /\ Keeps(source, h) /\ Framing(h, g, wire, wire2, protocol)
      /\ ~SeesTheFrame(rules, source, wire, protocol)
  BY DEF Through
<1>2. wire \in DOMAIN source /\ wire \in Values(source) \union {Undefined}
  BY <1>1 DEF Fair, Values
<1>3. \A t : Member(h, wire, t) = Member(source, wire, t)
  BY <1>1, <1>2, OldMember
<1>4. CASE rules[i].from # <<>>
  <2>1. raw = ResolvePointer(h, wire, rules[i].from)
    BY <1>1, <1>2, ReadOld
  <2>2. ~ /\ protocol # "rest" /\ rules[i].from = <<EnvelopeKey[protocol]>>
          /\ Member(h, wire, EnvelopeKey[protocol]) = Undefined
    BY <1>1, <1>3 DEF SeesTheFrame
  <2>3. raw2 = ResolvePointer(h, wire, rules[i].from)
    BY <1>1, <1>4, <2>2, SameWay
  <2> QED
    BY <2>1, <2>3
<1>5. CASE rules[i].from = <<>>
  <2>1. raw = wire /\ raw2 = wire2
    BY <1>5, ReadWhole
  <2>2. protocol = "rest" \/ Member(h, wire, EnvelopeKey[protocol]) # Undefined
    BY <1>1, <1>3, <1>5 DEF SeesTheFrame
  <2>3. ASSUME NEW t PROVE Member(g, wire2, t) = Member(h, wire, t)
    BY <1>1, <2>2 DEF Framing
  <2>4. /\ wire \in DOMAIN h /\ wire2 \in DOMAIN g /\ wire \in Values(h) /\ wire2 \in Values(g)
        /\ wire \in DOMAIN g /\ wire \in DOMAIN heap /\ wire2 \in DOMAIN heap /\ Keeps(h, g)
    <3>1. /\ Keeps(h, g) /\ wire \in DOMAIN h /\ wire2 \in DOMAIN g
      BY <1>1 DEF Framing
    <3>2. /\ Len(h) \in Nat /\ Len(g) \in Nat /\ Len(heap) \in Nat
          /\ DOMAIN h = 1..Len(h) /\ DOMAIN g = 1..Len(g) /\ DOMAIN heap = 1..Len(heap)
          /\ Len(h) <= Len(g) /\ Len(g) <= Len(heap)
      BY <3>1, Heaps DEF Keeps
    <3> QED
      BY <3>1, <3>2 DEF Values
  <2>5. ASSUME NEW t PROVE Member(heap, wire2, t) = Member(heap, wire, t)
    <3>1. Member(heap, wire2, t) = Member(g, wire2, t)
      BY <2>4, OldMember
    <3>2. Member(heap, wire, t) = Member(h, wire, t)
      <4>1. Keeps(h, heap)
        BY <2>4, KeepsMore
      <4> QED
        BY <2>4, <4>1, OldMember
    <3> QED
      BY <2>3, <3>1, <3>2
  <2> QED
    BY <2>1, <2>4, <2>5 DEF Alike
<1> QED
  BY <1>4, <1>5

\* What a rule makes of the message.
Same(heap, rule, source, wire, g, wire2) ==
  /\ RuleSkips(rule, g, wire2) <=> RuleSkips(rule, source, wire)
  /\ RuleRaises(rule, g, wire2) <=> RuleRaises(rule, source, wire)
  /\ ~RuleSkips(rule, source, wire) /\ ~RuleRaises(rule, source, wire) =>
       \/ RuleValue(rule, g, wire2) = RuleValue(rule, source, wire)
       \/ /\ RuleValue(rule, source, wire) = wire
          /\ Alike(heap, RuleValue(rule, g, wire2), RuleValue(rule, source, wire))

LEMMA SameThrough ==
  ASSUME NEW rules, NEW source, NEW wire, NEW h, NEW g, NEW wire2, NEW protocol,
         Through(rules, source, wire, h, g, wire2, protocol),
         NEW i \in 1..Len(rules), NEW heap, Keeps(g, heap)
  PROVE  Same(heap, rules[i], source, wire, g, wire2)
<1> DEFINE rule == rules[i]
<1>1. RuleTyped(rule, source) /\ IsHeap(source) /\ wire \in DOMAIN source
  BY DEF Through, Fair
<1>2. CASE rule.operation = "constant"
  BY <1>2 DEF Same, RuleSkips, RuleRaises, RuleValue
<1>3. CASE rule.operation # "constant" /\ rule.from = NoPointer
  BY <1>3 DEF Same, RuleSkips, RuleRaises
<1>4. CASE rule.operation # "constant" /\ rule.from # NoPointer
  <2>1. rule.from \in Path
    BY <1>1, <1>4 DEF RuleTyped
  <2>2. PICK raw, raw2 : /\ raw = ResolvePointer(source, wire, rule.from)
                         /\ raw2 = ResolvePointer(g, wire2, rule.from)
    OBVIOUS
  <2>3. \/ raw2 = raw
        \/ raw = wire /\ raw2 = wire2 /\ Alike(heap, wire2, wire)
    BY <2>1, <2>2, SameRaw
  <2>4. CASE raw2 = raw
    BY <1>4, <2>2, <2>4 DEF Same, RuleSkips, RuleRaises, RuleValue
  <2>5. CASE raw = wire /\ raw2 = wire2 /\ Alike(heap, wire2, wire)
    <3>1. wire \in Nat /\ wire2 \in Nat
      <4>1. wire2 \in DOMAIN g /\ IsHeap(g)
        BY DEF Through, Framing, Keeps
      <4>2. DOMAIN g = 1..Len(g) /\ DOMAIN source = 1..Len(source)
        BY <1>1, <4>1, Heaps
      <4> QED
        BY <1>1, <4>1, <4>2
    <3>2. \A v \in Nat : /\ v # Undefined /\ v \notin Numbers /\ v \notin DOMAIN AsNumber
      BY MessagesAssumption DEF Atoms
    <3>3. ~RuleSkips(rule, source, wire) /\ ~RuleSkips(rule, g, wire2)
      BY <2>2, <2>5, <3>1, <3>2 DEF RuleSkips
    <3>4. /\ RuleRaises(rule, source, wire) <=> rule.operation = "copyNumber"
          /\ RuleRaises(rule, g, wire2) <=> rule.operation = "copyNumber"
      BY <1>4, <2>2, <2>5, <3>1, <3>2 DEF RuleRaises
    <3>5. RuleValue(rule, source, wire) = wire /\ RuleValue(rule, g, wire2) = wire2
      BY <1>4, <2>2, <2>5, <3>1, <3>2 DEF RuleValue
    <3> QED
      BY <2>5, <3>3, <3>4, <3>5 DEF Same
  <2> QED
    BY <2>3, <2>4, <2>5
<1> QED
  BY <1>2, <1>3, <1>4

LEMMA FairThrough ==
  ASSUME NEW rules, NEW source, NEW wire, NEW h, NEW g, NEW wire2, NEW protocol,
         Through(rules, source, wire, h, g, wire2, protocol)
  PROVE  /\ Fair(g, rules, wire2)
         /\ \A heap : Keeps(g, heap) => Likewise(heap, rules, source, wire, g, wire2)
         /\ \A i \in 1..Len(rules) :
              RuleRaises(rules[i], g, wire2) <=> RuleRaises(rules[i], source, wire)
<1>1. /\ Fair(source, rules, wire) /\ Keeps(source, h) /\ Framing(h, g, wire, wire2, protocol)
  BY DEF Through
<1>2. Keeps(source, g) /\ IsHeap(g) /\ IsHeap(source) /\ wire2 \in DOMAIN g
  BY <1>1, KeepsMore DEF Framing, Keeps
<1>3. Keeps(g, g)
  <2>1. Len(g) \in Nat
    BY <1>2, Heaps
  <2> QED
    BY <1>2, <2>1 DEF Keeps
<1>4. \A i \in 1..Len(rules) : Same(g, rules[i], source, wire, g, wire2)
  BY <1>3, SameThrough
<1>5. \A i : Writes(rules, i, g, wire2) <=> Writes(rules, i, source, wire)
  BY <1>4 DEF Writes, Same
<1>6. DOMAIN source \subseteq DOMAIN g /\ \A v \in Atoms : v \notin DOMAIN g
  <2>1. /\ Len(g) \in Nat /\ Len(source) \in Nat /\ Len(source) <= Len(g)
        /\ DOMAIN g = 1..Len(g) /\ DOMAIN source = 1..Len(source)
    BY <1>2, Heaps DEF Keeps
  <2> QED
    BY <1>2, <2>1, Heaps
<1>7. ASSUME NEW i \in 1..Len(rules) PROVE RuleTyped(rules[i], g)
  <2>1. RuleTyped(rules[i], source)
    BY <1>1 DEF Fair
  <2> QED
    BY <1>6, <2>1 DEF RuleTyped, Values
<1>8. ASSUME NEW i \in 1..Len(rules), Writes(rules, i, source, wire),
             RuleValue(rules[i], g, wire2) \in DOMAIN g
      PROVE  RuleValue(rules[i], source, wire) \in DOMAIN source
  <2>1. ~RuleSkips(rules[i], source, wire) /\ ~RuleRaises(rules[i], source, wire)
    BY <1>8 DEF Writes
  <2>2. RuleValue(rules[i], source, wire) \in Values(source) /\ wire \in DOMAIN source
    <3>1. RuleTyped(rules[i], source) /\ wire \in DOMAIN source
      BY <1>1 DEF Fair
    <3> QED
      BY <1>1, <2>1, <3>1, SameRule
  <2>3. \/ RuleValue(rules[i], g, wire2) = RuleValue(rules[i], source, wire)
        \/ RuleValue(rules[i], source, wire) = wire
    BY <1>4, <2>1 DEF Same
  <2> QED
    BY <1>6, <1>8, <2>2, <2>3 DEF Values
<1>9. ~WritesThrough(rules, g, wire2)
  <2>1. ~WritesThrough(rules, source, wire)
    BY <1>1 DEF Fair
  <2> SUFFICES ASSUME WritesThrough(rules, g, wire2) PROVE WritesThrough(rules, source, wire)
    BY <2>1
  <2>2. PICK i, j \in 1..Len(rules) :
          /\ i < j /\ Writes(rules, i, g, wire2) /\ Writes(rules, j, g, wire2)
          /\ RuleValue(rules[i], g, wire2) \in DOMAIN g
          /\ rules[j].to # rules[i].to /\ Extends(rules[j].to, rules[i].to)
    BY DEF WritesThrough
  <2>3. /\ Writes(rules, i, source, wire) /\ Writes(rules, j, source, wire)
        /\ RuleValue(rules[i], source, wire) \in DOMAIN source
    BY <1>5, <1>8, <2>2
  <2> QED
    BY <2>2, <2>3 DEF WritesThrough
<1>10. Fair(g, rules, wire2)
  BY <1>1, <1>2, <1>7, <1>9 DEF Fair
<1>11. ASSUME NEW heap, Keeps(g, heap) PROVE Likewise(heap, rules, source, wire, g, wire2)
  <2> SUFFICES ASSUME NEW i \in 1..Len(rules), Writes(rules, i, source, wire)
               PROVE  Alike(heap, RuleValue(rules[i], g, wire2), RuleValue(rules[i], source, wire))
    BY <1>5 DEF Likewise
  <2>1. Same(heap, rules[i], source, wire, g, wire2)
    BY <1>11, SameThrough
  <2> QED
    BY <2>1 DEF Same, Alike, Writes
<1> QED
  BY <1>4, <1>10, <1>11 DEF Same

LEMMA ReadOne ==
  ASSUME NEW h, NEW v, NEW t \in Tokens
  PROVE  ResolvePointer(h, v, <<t>>) = Member(h, v, t)
<1>1. <<t>> \in Path /\ Len(<<t>>) = 1 /\ <<t>>[1] = t /\ 1 \in 1..1 /\ 1 - 1 = 0
  BY DEF Path
<1>2. PICK g : Along(h, v, <<t>>, g) /\ ResolvePointer(h, v, <<t>>) = g[Len(<<t>>)]
  BY <1>1, Way
<1> QED
  BY <1>1, <1>2 DEF Along

\* The keys of a message are the same through the transport.
LEMMA SameKey ==
  ASSUME NEW rules, NEW source, NEW wire, NEW h, NEW g, NEW wire2,
         NEW protocol \in {"rest", "broker", "webhook"},
         Through(rules, source, wire, h, g, wire2, protocol),
         NEW p \in Path, ResolvePointer(source, wire, p) \in Strings
  PROVE  ResolvePointer(g, wire2, p) = ResolvePointer(source, wire, p)
<1>1. /\ Keeps(source, h) /\ Framing(h, g, wire, wire2, protocol) /\ wire \in DOMAIN source
      /\ IsHeap(source)
  BY DEF Through, Fair
<1>2. wire \in Values(source) \union {Undefined} /\ wire \notin Strings /\ Undefined \notin Strings
  <2>1. wire \in Nat
    BY <1>1, Heaps
  <2> QED
    BY <1>1, <2>1, MessagesAssumption DEF Values, Atoms
<1>3. ResolvePointer(h, wire, p) = ResolvePointer(source, wire, p)
  BY <1>1, <1>2, ReadOld
<1>4. p # <<>>
  BY <1>2, ReadWhole
<1>5. ~ /\ protocol # "rest" /\ p = <<EnvelopeKey[protocol]>>
        /\ Member(h, wire, EnvelopeKey[protocol]) = Undefined
  <2> SUFFICES ASSUME protocol # "rest", p = <<EnvelopeKey[protocol]>>
               PROVE  Member(h, wire, EnvelopeKey[protocol]) # Undefined
    OBVIOUS
  <2>1. EnvelopeKey[protocol] \in Tokens
    BY MessagesAssumption DEF EnvelopeKey
  <2> QED
    BY <1>2, <1>3, <2>1, ReadOne
<1> QED
  BY <1>1, <1>3, <1>4, <1>5, SameWay

\* A round trip of a mapping that neither writes through nor sees the frame.
LEMMA RoundTripWhole ==
  ASSUME NEW mapping, NEW source, NEW wire, NEW protocol \in {"rest", "broker", "webhook"},
         Fair(source, mapping.rules, wire), mapping.keys \in Seq(Path),
         ~SeesTheFrame(mapping.rules, source, wire, protocol),
         NEW answer, answer = RoundTrip(mapping, source, wire, protocol)
  PROVE  /\ \A o \in DOMAIN source : answer.heap[o] = source[o]
         /\ answer.direct # Error =>
              /\ answer.framed # Error /\ answer.framed.keys = answer.direct.keys
              /\ \A envelope \in {answer.direct, answer.framed} :
                   Carries(answer.heap, envelope.payload, mapping.rules, source, wire)
<1> DEFINE rules == mapping.rules
           keys == mapping.keys
<1>1. PICK d : d = Translation(mapping, source, wire)
  OBVIOUS
<1>2. /\ Keeps(source, d.heap)
      /\ d.envelope = Error <=> Fails(mapping, source, wire)
      /\ d.envelope # Error => Enveloped(mapping, source, wire, d)
  BY <1>1, Translated
<1>3. \A h : Keeps(source, h) => \A o \in DOMAIN source : h[o] = source[o]
  BY Heaps DEF Keeps
<1>4. CASE d.envelope = Error
  <2>1. answer = [heap |-> d.heap, direct |-> Error]
    BY <1>1, <1>4 DEF RoundTrip
  <2> QED
    BY <1>2, <1>3, <2>1
<1>5. CASE d.envelope # Error
  <2>1. PICK g, w : /\ g = Decode(protocol, FrameFor(protocol, d.heap, wire))
                    /\ w = Len(g)
    OBVIOUS
  <2>2. PICK f : f = Translation(mapping, g, w)
    OBVIOUS
  <2>3. answer = [heap |-> f.heap, direct |-> d.envelope, framed |-> f.envelope]
    BY <1>1, <1>5, <2>1, <2>2 DEF RoundTrip
  <2>4. Framing(d.heap, g, wire, w, protocol)
    <3>1. IsHeap(d.heap) /\ IsHeap(source) /\ wire \in DOMAIN source /\ Len(source) <= Len(d.heap)
      BY <1>2 DEF Keeps, Fair
    <3>2. wire \in DOMAIN d.heap
      <4>1. /\ Len(source) \in Nat /\ Len(d.heap) \in Nat
            /\ DOMAIN source = 1..Len(source) /\ DOMAIN d.heap = 1..Len(d.heap)
        BY <3>1, Heaps
      <4> QED
        BY <3>1, <4>1
    <3> QED
      BY <2>1, <3>1, <3>2, DecodedFrame
  <2>5. Through(rules, source, wire, d.heap, g, w, protocol)
    BY <1>2, <2>4 DEF Through
  <2>6. /\ Fair(g, rules, w)
        /\ \A heap : Keeps(g, heap) => Likewise(heap, rules, source, wire, g, w)
        /\ \A i \in 1..Len(rules) : RuleRaises(rules[i], g, w) <=> RuleRaises(rules[i], source, wire)
    BY <2>5, FairThrough
  <2>7. /\ Keeps(g, f.heap)
        /\ f.envelope = Error <=> Fails(mapping, g, w)
        /\ f.envelope # Error => Enveloped(mapping, g, w, f)
    BY <2>2, <2>6, Translated
  <2>8. ASSUME NEW i \in 1..Len(keys)
        PROVE  /\ ResolvePointer(g, w, keys[i]) = ResolvePointer(source, wire, keys[i])
               /\ ResolvePointer(source, wire, keys[i]) \in Strings
    <3>1. keys[i] \in Path /\ ResolvePointer(source, wire, keys[i]) \in Strings
      BY <1>2, <1>5 DEF Fails
    <3> QED
      BY <2>5, <3>1, SameKey
  <2>9. f.envelope # Error
    BY <1>2, <1>5, <2>6, <2>7, <2>8 DEF Fails
  <2>10. f.envelope.keys = d.envelope.keys
    BY <1>2, <1>5, <2>7, <2>8, <2>9 DEF Enveloped
  <2>11. Keeps(d.heap, f.heap) /\ Keeps(source, f.heap) /\ Keeps(f.heap, f.heap)
    <3>1. Keeps(d.heap, f.heap)
      BY <2>4, <2>7, KeepsMore DEF Framing
    <3>2. IsHeap(f.heap) /\ Len(f.heap) \in Nat
      BY <2>7, Heaps DEF Keeps
    <3> QED
      BY <1>2, <3>1, <3>2, KeepsMore DEF Keeps
  <2>12. Carries(f.heap, d.envelope.payload, rules, source, wire)
    <3>1. PICK s, at : /\ s.heap = d.heap /\ ~s.raised
                       /\ Translating(source, rules, wire, s, at, Len(rules))
      BY <1>2, <1>5 DEF Enveloped
    <3>2. Likewise(f.heap, rules, source, wire, source, wire)
      BY DEF Likewise, Alike
    <3>3. Carries(f.heap, Len(source) + 1, rules, source, wire)
      BY <2>11, <3>1, <3>2, Carrying
    <3> QED
      BY <1>2, <1>5, <3>3 DEF Enveloped
  <2>13. Carries(f.heap, f.envelope.payload, rules, source, wire)
    <3>1. PICK s, at : /\ s.heap = f.heap /\ ~s.raised
                       /\ Translating(g, rules, w, s, at, Len(rules))
      BY <2>7, <2>9 DEF Enveloped
    <3>2. Likewise(f.heap, rules, source, wire, g, w)
      BY <2>6, <2>7
    <3>3. Carries(f.heap, Len(g) + 1, rules, source, wire)
      BY <2>6, <2>11, <3>1, <3>2, Carrying
    <3> QED
      BY <2>7, <2>9, <3>3 DEF Enveloped
  <2>14. answer.heap = f.heap /\ answer.direct = d.envelope /\ answer.framed = f.envelope
    BY <2>3
  <2> QED
    BY <1>3, <2>9, <2>10, <2>11, <2>12, <2>13, <2>14
<1> QED
  BY <1>4, <1>5

LEMMA RenderingWhole ==
  ASSUME NEW template, NEW request, NEW answer, answer = Rendering(template, request),
         answer # Error
  PROVE  LET text == template.text[request.locale]
             refs == text.body \union (IF answer.subject = NoText THEN {} ELSE text.subject)
             filled(r) == r \in DOMAIN answer.body \/ r \in DOMAIN answer.subject
         IN  /\ refs \union DOMAIN request.params \subseteq template.params
             /\ \A r \in refs : filled(r)
             /\ answer.channel = "sms" => answer.subject = NoText
<1> DEFINE text == template.text[request.locale]
<1>1. /\ DOMAIN request.params \subseteq template.params
      /\ ~SubstituteRaises(text.body, request.params, template.params)
      /\ HasSubject(template, text) =>
           ~SubstituteRaises(text.subject, request.params, template.params)
      /\ answer = [channel |-> template.channel,
                   body    |-> Restrict(request.params, text.body),
                   subject |-> IF HasSubject(template, text)
                               THEN Restrict(request.params, text.subject) ELSE NoText]
  BY DEF Rendering
<1>2. DOMAIN answer.body = text.body
  BY <1>1 DEF Restrict
<1>3. CASE HasSubject(template, text)
  <2>1. answer.subject = Restrict(request.params, text.subject) /\ answer.channel = template.channel
    BY <1>1, <1>3
  <2>2. DOMAIN answer.subject = text.subject
    BY <2>1 DEF Restrict
  <2>3. text.body \union text.subject \subseteq template.params
    BY <1>1, <1>3 DEF SubstituteRaises
  <2> QED
    BY <1>1, <1>2, <1>3, <2>1, <2>2, <2>3 DEF HasSubject
<1>4. CASE ~HasSubject(template, text)
  <2>1. answer.subject = NoText
    BY <1>1, <1>4
  <2>2. text.body \subseteq template.params
    BY <1>1 DEF SubstituteRaises
  <2> QED
    BY <1>1, <1>2, <2>1, <2>2
<1> QED
  BY <1>3, <1>4

Answered ==
  \/ result = {}
  \/ /\ input.of = "translate"
     /\ result = {RoundTrip(input.mapping, input.heap, input.wire, input.protocol)}
  \/ input.of = "render" /\ result = {Rendering(input.template, input.request)}

LEMMA TypedIsFair ==
  ASSUME WellTyped(input), input.of = "translate",
         ~WritesThrough(input.mapping.rules, input.heap, input.wire)
  PROVE  /\ Fair(input.heap, input.mapping.rules, input.wire)
         /\ input.mapping.keys \in Seq(Path) /\ input.protocol \in {"rest", "broker", "webhook"}
BY DEF WellTyped, Fair, RuleTyped, Path, Values

\* A message is made whole or not at all, for every mapping, wire message, transport,
\* template and request (translate, decode, render).
THEOREM MadeWhole == MessagesSpec => []NothingHalfMade
<1>1. MessagesInit => WellTyped(input) /\ Answered
  BY DEF MessagesInit, Answered
<1>2. WellTyped(input) /\ Answered /\ [MessagesNext]_mvars => (WellTyped(input) /\ Answered)'
  BY DEF Answered, MessagesNext, Translate, Render, mvars
<1>3. WellTyped(input) /\ Answered => NothingHalfMade
  <2> SUFFICES ASSUME WellTyped(input), Answered, NEW answer \in result
               PROVE  /\ input.of = "translate" => TranslatedWhole(answer)
                      /\ input.of = "render" => RenderedWhole(answer)
    BY DEF NothingHalfMade
  <2>1. ASSUME input.of = "translate" PROVE TranslatedWhole(answer)
    <3> SUFFICES ASSUME ~WritesThrough(input.mapping.rules, input.heap, input.wire),
                        ~SeesTheFrame(input.mapping.rules, input.heap, input.wire, input.protocol)
                 PROVE  /\ \A o \in DOMAIN input.heap : answer.heap[o] = input.heap[o]
                        /\ answer.direct # Error =>
                             /\ answer.framed # Error /\ answer.framed.keys = answer.direct.keys
                             /\ \A envelope \in {answer.direct, answer.framed} :
                                  Carries(answer.heap, envelope.payload, input.mapping.rules,
                                          input.heap, input.wire)
      BY DEF TranslatedWhole
    <3>1. answer = RoundTrip(input.mapping, input.heap, input.wire, input.protocol)
      BY <2>1 DEF Answered
    <3> QED
      BY <2>1, <3>1, TypedIsFair, RoundTripWhole
  <2>2. ASSUME input.of = "render" PROVE RenderedWhole(answer)
    <3>1. answer = Rendering(input.template, input.request)
      BY <2>2 DEF Answered
    <3> QED
      BY <3>1, RenderingWhole DEF RenderedWhole
  <2> QED
    BY <2>1, <2>2
<1> QED
  BY <1>1, <1>2, <1>3, PTL DEF MessagesSpec
=============================================================================
