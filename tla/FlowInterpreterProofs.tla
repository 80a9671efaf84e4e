------------------------ MODULE FlowInterpreterProofs ------------------------
(***************************************************************************)
(* Proofs about the flow interpreter, for every flow, every set of         *)
(* signals and every bound: its types and clock, its timeouts, the         *)
(* contract of a Case that it implements, the replies it accounts for, the *)
(* brackets of its clock stops, and the record stitched of its history.    *)
(***************************************************************************)
EXTENDS FlowRecord, LeastNumber, FunctionTheorems, FiniteSetTheorems

\* The part of TypeOK that the ends and suspensions of a step are about, and the
\* part that the actions state for themselves.
PlaceType ==
  /\ flow \in Flows
  /\ pc \in 1..(Len(flow) + 1)
  /\ at \in Places
  /\ at = "done" <=> pc = Len(flow) + 1
  /\ woken \in BOOLEAN /\ (woken => at \in Awaits)
  /\ age \in Nat /\ remaining \in Nat /\ active \in Nat
  /\ events \in Seq(Event)
  /\ outcome \in [StepIds -> Outcomes]
  /\ at = "settle" => responded # None

DataType ==
  /\ slaMs \in Nat
  /\ seen \subseteq MsgIds
  /\ responded \in Values \cup {None}
  /\ vars \in [VarNames -> Values]
  /\ lapsed \subseteq StepIds

BufferType ==
  /\ resolved \in [StepIds -> Values \cup {None}]
  /\ docResolved \in [StepIds -> {"accept", "decline", None}]
  /\ paused \subseteq StepIds
  /\ queue \in [StepIds -> Seq(Reply)]
  /\ inbox \in [StepIds -> Seq(Reply)]
  /\ signals \in Nat

LEMMA TypeParts == TypeOK <=> PlaceType /\ DataType /\ BufferType
  BY DEF TypeOK, PlaceType, DataType, BufferType

LEMMA TypePartsPrimed == TypeOK' <=> PlaceType' /\ DataType' /\ BufferType'
  BY DEF TypeOK, PlaceType, DataType, BufferType

\* While the Case is open there is a step, and it is well typed.
LEMMA CurrentStep ==
  ASSUME PlaceType, at # "done"
  PROVE  /\ pc \in 1..Len(flow)
         /\ flow \in Seq(Step)
         /\ step \in Step
         /\ id \in StepIds
<1>1. flow \in Seq(Step)
  BY FlowAssumption DEF PlaceType
<1>2. Len(flow) \in Nat /\ pc \in 1..(Len(flow) + 1) /\ pc # Len(flow) + 1
  BY <1>1 DEF PlaceType
<1>3. pc \in 1..Len(flow)
  BY <1>2
<1>4. step \in Step
  BY <1>1, <1>3 DEF step
<1>5. id \in StepIds
  BY <1>4 DEF id, Step
<1> QED
  BY <1>1, <1>3, <1>4, <1>5

\* A step begins with an activity or a sleep.
LEMMA FirstPlace ==
  ASSUME NEW s \in Step
  PROVE  FirstAwait(s) \in Activities \cup {"sleep"}
<1>1. s.type \in StepTypes /\ s.routed \in BOOLEAN
  BY DEF Step
<1> QED
  BY <1>1 DEF FirstAwait, StepTypes, Activities

LEMMA EventsOfStep ==
  ASSUME PlaceType, at # "done", NEW t \in EventTypes
  PROVE  Ev(t) \in Event
  BY CurrentStep DEF Ev, Event

LEMMA EventsGrow ==
  ASSUME NEW h \in Seq(Event), NEW evs \in Seq(Event), NEW e \in Event
  PROVE  /\ h \o evs \in Seq(Event)
         /\ h \o evs \o <<e>> \in Seq(Event)
         /\ Append(evs, e) \in Seq(Event)
<1>1. <<e>> \in Seq(Event)
  OBVIOUS
<1>2. h \o evs \in Seq(Event)
  OBVIOUS
<1>3. h \o evs \o <<e>> \in Seq(Event)
  BY <1>1, <1>2
<1> QED
  BY <1>2, <1>3

-----------------------------------------------------------------------------
(* The ends and suspensions of a step preserve their part.                 *)

LEMMA EndStepType ==
  ASSUME PlaceType, at # "done",
         NEW evs \in Seq(Event), NEW result \in Outcomes, EndStep(evs, result)
  PROVE  PlaceType' /\ seen' = {} /\ responded' = None
<1> DEFINE closing == [type |-> "case.resolved", step |-> None]
<1>1. /\ pc \in 1..Len(flow) /\ flow \in Seq(Step) /\ Len(flow) \in Nat
      /\ id \in StepIds
  BY CurrentStep
<1>2. closing \in Event
  BY DEF Event, EventTypes
<1>3. /\ flow' = flow /\ pc' = pc + 1 /\ woken' = FALSE
      /\ age' = 0 /\ remaining' = 0 /\ active' = 0
      /\ seen' = {} /\ responded' = None
      /\ outcome' = [outcome EXCEPT ![id] = result]
  BY DEF EndStep
<1>4. /\ pc = Len(flow) => at' = "done" /\ events' = events \o evs \o <<closing>>
      /\ pc # Len(flow) => at' = FirstAwait(flow[pc + 1]) /\ events' = events \o evs
  BY DEF EndStep
<1>5. outcome' \in [StepIds -> Outcomes]
  BY <1>1, <1>3 DEF PlaceType
<1>6. events' \in Seq(Event)
  BY <1>2, <1>4, EventsGrow DEF PlaceType
<1>7. pc' \in 1..(Len(flow) + 1)
  BY <1>1, <1>3
<1>8. at' \in Places /\ at' # "settle" /\ (at' = "done" <=> pc' = Len(flow) + 1)
  <2>1. CASE pc = Len(flow)
    BY <1>3, <1>4, <2>1 DEF Places
  <2>2. CASE pc # Len(flow)
    <3>1. pc + 1 \in 1..Len(flow)
      BY <1>1, <2>2
    <3>2. at' \in Activities \cup {"sleep"}
      BY <1>1, <1>4, <2>2, <3>1, FirstPlace
    <3>3. pc' # Len(flow) + 1
      BY <1>1, <1>3, <2>2
    <3> QED
      BY <3>2, <3>3 DEF Places, Activities, Sleeps
  <2> QED
    BY <2>1, <2>2
<1>9. flow' \in Flows
  BY <1>3 DEF PlaceType
<1> QED
  BY <1>3, <1>5, <1>6, <1>7, <1>8, <1>9 DEF PlaceType

LEMMA ContinueType ==
  ASSUME PlaceType, at # "done",
         NEW place \in {"create", "accept"}, NEW evs \in Seq(Event),
         Continue(place, evs)
  PROVE  PlaceType'
<1>1. events' \in Seq(Event)
  BY DEF Continue, PlaceType
<1>2. at' \in Places \ {"done", "settle"}
  BY DEF Continue, Places, Activities
<1>3. /\ flow' = flow /\ pc' = pc /\ woken' = FALSE /\ age' = 0
      /\ remaining' = remaining /\ outcome' = outcome /\ active' = active
  BY DEF Continue
<1> QED
  BY <1>1, <1>2, <1>3 DEF PlaceType

LEMMA SuspendType ==
  ASSUME PlaceType, at # "done",
         NEW place \in {"clock", "paused", "settle"}, NEW evs \in Seq(Event),
         NEW rem \in Nat, Suspend(place, evs, rem),
         place = "settle" => responded' # None
  PROVE  PlaceType'
<1>1. events' \in Seq(Event)
  BY DEF Suspend, PlaceType
<1>2. at' \in Places \ {"done"} /\ (at' = "settle" => responded' # None)
  BY DEF Suspend, Places, Awaits, Sleeps
<1>3. /\ flow' = flow /\ pc' = pc /\ woken' = FALSE /\ age' = 0
      /\ remaining' = rem /\ outcome' = outcome /\ active' = active
  BY DEF Suspend
<1> QED
  BY <1>1, <1>2, <1>3 DEF PlaceType

\* The top of the loop of a human-task or an offer.
LEMMA AwaitAnswerType ==
  ASSUME TypeOK, at # "done",
         NEW evs \in Seq(Event), NEW rem \in Nat, AwaitAnswer(evs, rem),
         slaMs' \in Nat, lapsed' = lapsed
  PROVE  PlaceType' /\ DataType'
<1>1. PlaceType /\ DataType /\ BufferType
  BY TypeParts
<1>2. step \in Step /\ id \in StepIds
  BY <1>1, CurrentStep
<1>3. \A t \in EventTypes : Append(evs, Ev(t)) \in Seq(Event)
  BY <1>1, EventsOfStep, EventsGrow
<1>4. \A t \in EventTypes : evs \o <<Ev(t)>> \in Seq(Event)
  BY <1>1, EventsOfStep
<1>5. CASE Answered
  <2>1. Settle(evs)
    BY <1>5 DEF AwaitAnswer
  <2>2. CASE step.type = "human-task"
    <3>1. EndStep(evs \o <<Ev("task.resolved")>>, "resolved")
      BY <2>1, <2>2 DEF Settle
    <3>2. PlaceType' /\ seen' = {} /\ responded' = None
      BY <1>1, <1>4, <3>1, EndStepType DEF EventTypes, Outcomes
    <3>3. vars' = [vars EXCEPT ![step.out] = resolved[id]]
      BY <2>1, <2>2 DEF Settle
    <3>4. resolved[id] \in Values
      BY <1>1, <1>2, <1>5, <2>2 DEF Answered, AnswerTo, BufferType, id
    <3>5. vars' \in [VarNames -> Values]
      BY <1>1, <1>2, <3>3, <3>4 DEF DataType, Step
    <3> QED
      BY <1>1, <3>2, <3>5 DEF DataType
  <2>3. CASE step.type = "issue-document" /\ docResolved[id] = "accept"
    <3>1. Continue("accept", evs) /\ UNCHANGED <<vars, seen, responded>>
      BY <2>1, <2>3 DEF Settle
    <3>2. PlaceType'
      BY <1>1, <3>1, ContinueType
    <3> QED
      BY <1>1, <3>1, <3>2 DEF DataType
  <2>4. CASE ~(step.type = "human-task")
             /\ ~(step.type = "issue-document" /\ docResolved[id] = "accept")
    <3>1. EndStep(evs \o <<Ev("document.declined")>>, "declined") /\ UNCHANGED vars
      BY <2>1, <2>4 DEF Settle
    <3>2. PlaceType' /\ seen' = {} /\ responded' = None
      BY <1>1, <1>4, <3>1, EndStepType DEF EventTypes, Outcomes
    <3> QED
      BY <1>1, <3>1, <3>2 DEF DataType
  <2> QED
    BY <2>2, <2>3, <2>4
<1>6. CASE ~Answered
  <2>1. /\ \/ Suspend("paused", Append(evs, Ev("sla.paused")), rem)
           \/ Suspend("clock", evs, rem)
        /\ UNCHANGED <<vars, seen, responded>>
    BY <1>6 DEF AwaitAnswer
  <2>2. PlaceType'
    BY <1>1, <1>3, <2>1, SuspendType DEF EventTypes
  <2> QED
    BY <1>1, <2>1, <2>2 DEF DataType
<1> QED
  BY <1>5, <1>6

\* The top of the loop of an external-task.
LEMMA AwaitReplyType ==
  ASSUME TypeOK, at # "done",
         NEW evs \in Seq(Event), NEW rem \in Nat, AwaitReply(evs, rem),
         UNCHANGED <<vars, slaMs, lapsed>>
  PROVE  PlaceType' /\ DataType' /\ queue' \in [StepIds -> Seq(Reply)]
<1> DEFINE q == queue[id]
           drained == [i \in 1..Len(q) |-> Ev(Disposition(q, i))]
<1>1. PlaceType /\ DataType /\ BufferType
  BY TypeParts
<1>2. id \in StepIds
  BY <1>1, CurrentStep
<1>3. q \in Seq(Reply) /\ Len(q) \in Nat /\ \A i \in 1..Len(q) : q[i] \in Reply
  BY <1>1, <1>2 DEF BufferType
<1>4. CASE id \in paused
  <2>1. /\ Suspend("paused", Append(evs, Ev("sla.paused")), rem)
        /\ UNCHANGED <<queue, seen, responded>>
    BY <1>4 DEF AwaitReply
  <2>2. Append(evs, Ev("sla.paused")) \in Seq(Event)
    BY <1>1, EventsOfStep, EventsGrow DEF EventTypes
  <2>3. PlaceType'
    BY <1>1, <2>1, <2>2, SuspendType
  <2> QED
    BY <1>1, <2>1, <2>3 DEF DataType, BufferType
<1>5. CASE id \notin paused
  <2>1. /\ queue' = [queue EXCEPT ![id] = <<>>]
        /\ seen' = seen \cup {q[i].msg : i \in {j \in 1..Len(q) : q[j].correlated}}
        /\ IF \E i \in 1..Len(q) : Resolves(q, i)
           THEN /\ \E i \in 1..Len(q) : Resolves(q, i) /\ responded' = q[i].value
                /\ Suspend("settle", evs \o drained, rem)
           ELSE UNCHANGED responded /\ Suspend("clock", evs \o drained, rem)
    BY <1>5 DEF AwaitReply
  <2>2. \A i \in 1..Len(q) : Disposition(q, i) \in EventTypes
    BY DEF Disposition, EventTypes
  <2>3. \A i \in 1..Len(q) : Ev(Disposition(q, i)) \in Event
    BY <1>1, <2>2, EventsOfStep
  <2>4. drained \in Seq(Event)
    BY <1>3, <2>3
  <2>5. evs \o drained \in Seq(Event)
    BY <2>4, EventsGrow DEF Event
  <2>6. seen' \subseteq MsgIds
    BY <1>1, <1>3, <2>1 DEF DataType, Reply
  <2>7. queue' \in [StepIds -> Seq(Reply)]
    BY <1>1, <1>2, <2>1 DEF BufferType
  <2>8. CASE \E i \in 1..Len(q) : Resolves(q, i)
    <3>1. responded' \in Values
      BY <1>3, <2>1, <2>8 DEF Reply
    <3>2. responded' # None
      BY <3>1, FlowAssumption
    <3>3. PlaceType'
      BY <1>1, <2>1, <2>5, <2>8, <3>2, SuspendType
    <3> QED
      BY <1>1, <2>6, <2>7, <3>1, <3>3 DEF DataType
  <2>9. CASE ~\E i \in 1..Len(q) : Resolves(q, i)
    <3>1. Suspend("clock", evs \o drained, rem) /\ responded' = responded
      BY <2>1, <2>9
    <3>2. PlaceType'
      BY <1>1, <2>5, <3>1, SuspendType
    <3> QED
      BY <1>1, <2>6, <2>7, <3>1, <3>2 DEF DataType
  <2> QED
    BY <2>8, <2>9
<1> QED
  BY <1>4, <1>5

-----------------------------------------------------------------------------
(* Type correctness.                                                       *)

LEMMA InitType == Init => TypeOK
<1> SUFFICES ASSUME Init PROVE TypeOK
  OBVIOUS
<1>1. flow \in Flows /\ flow \in Seq(Step) /\ Len(flow) \in Nat /\ Len(flow) >= 1
  BY FlowAssumption DEF Init
<1>2. flow[1] \in Step
  BY <1>1
<1>3. at \in Activities \cup {"sleep"} /\ pc = 1 /\ woken = FALSE
  BY <1>2, FirstPlace DEF Init
<1>4. at \in Places /\ at # "done" /\ at # "settle"
  BY <1>3 DEF Places, Activities, Sleeps
<1>5. PlaceType
  <2>1. [type |-> "case.created", step |-> None] \in Event
    BY DEF Event, EventTypes
  <2>2. events \in Seq(Event)
    BY <2>1 DEF Init
  <2>3. outcome \in [StepIds -> Outcomes]
    BY DEF Init, Outcomes
  <2>4. pc \in 1..(Len(flow) + 1) /\ pc # Len(flow) + 1
    BY <1>1, <1>3
  <2>5. age \in Nat /\ remaining \in Nat /\ active \in Nat
    BY DEF Init
  <2> QED
    BY <1>1, <1>3, <1>4, <2>2, <2>3, <2>4, <2>5 DEF PlaceType
<1>6. DataType
  BY DEF Init, DataType
<1>7. BufferType
  BY DEF Init, BufferType
<1> QED
  BY <1>5, <1>6, <1>7, TypeParts

\* A handler leaves the workflow's own state alone and wakes it at an await only.
LEMMA HandledType ==
  ASSUME PlaceType, DataType, Handled
  PROVE  PlaceType' /\ DataType'
<1>1. UNCHANGED wfState /\ woken' = (woken \/ Unblocked')
  BY DEF Handled
<1>2. UNCHANGED <<flow, pc, at, age, remaining, seen, responded, vars, slaMs,
                  events, outcome, active, lapsed>>
  BY <1>1 DEF wfState
<1>3. Unblocked' => at' \in Awaits
  BY DEF Unblocked, Awaits
<1>4. woken' \in BOOLEAN
  BY <1>1 DEF PlaceType, Unblocked
<1>5. woken' => at' \in Awaits
  BY <1>1, <1>2, <1>3 DEF PlaceType
<1> QED
  BY <1>2, <1>4, <1>5 DEF PlaceType, DataType

LEMMA SignalType == TypeOK /\ Signal => TypeOK'
<1> SUFFICES ASSUME TypeOK, Signal PROVE TypeOK'
  OBVIOUS
<1>1. PlaceType /\ DataType /\ BufferType
  BY TypeParts
<1>2. ASSUME NEW s \in StepIds, NEW v \in Values,
             NEW action \in {"resolve", "pause", "resume"}, TaskSignal(s, action, v)
      PROVE  TypeOK'
  <2>1. Handled /\ BufferType'
    BY <1>1, <1>2 DEF TaskSignal, HandlePause, BufferType, Handled
  <2> QED
    BY <1>1, <2>1, HandledType, TypePartsPrimed
<1>3. ASSUME NEW s \in StepIds,
             NEW action \in {"accept", "decline", "pause", "resume"},
             DocumentSignal(s, action)
      PROVE  TypeOK'
  <2>1. Handled /\ BufferType'
    BY <1>1, <1>3 DEF DocumentSignal, HandlePause, BufferType, Handled
  <2> QED
    BY <1>1, <2>1, HandledType, TypePartsPrimed
<1>4. ASSUME NEW s \in StepIds, NEW r \in Replies, ReplySignal(s, r)
      PROVE  TypeOK'
  <2>1. r \in Reply
    BY FlowAssumption
  <2>2. queue' \in [StepIds -> Seq(Reply)] /\ inbox' \in [StepIds -> Seq(Reply)]
    BY <1>1, <1>4, <2>1 DEF ReplySignal, BufferType
  <2>3. Handled /\ BufferType'
    BY <1>1, <1>4, <2>2 DEF ReplySignal, BufferType, Handled
  <2> QED
    BY <1>1, <2>3, HandledType, TypePartsPrimed
<1> QED
  BY <1>2, <1>3, <1>4 DEF Signal

LEMMA EndingType ==
  ASSUME TypeOK, at # "done", NEW evs \in Seq(Event), NEW result \in Outcomes,
         EndStep(evs, result), vars' \in [VarNames -> Values], slaMs' \in Nat,
         lapsed' \subseteq StepIds, BufferType'
  PROVE  TypeOK'
<1>1. PlaceType
  BY TypeParts
<1>2. PlaceType' /\ seen' = {} /\ responded' = None
  BY <1>1, EndStepType
<1> QED
  BY <1>2, TypePartsPrimed DEF DataType

LEMMA ProgressType == TypeOK /\ Progress => TypeOK'
<1> SUFFICES ASSUME TypeOK, Progress PROVE TypeOK'
  OBVIOUS
<1>0. PlaceType /\ DataType /\ BufferType
  BY TypeParts
<1>b. UNCHANGED buffers => BufferType'
  BY <1>0 DEF buffers, BufferType
<1>e. <<>> \in Seq(Event)
  OBVIOUS
<1>s. ASSUME at # "done"
      PROVE  /\ step \in Step /\ id \in StepIds
             /\ step.ms \in Nat /\ step.out \in VarNames /\ step.onTimeout \in Values
             /\ \A t \in EventTypes : Ev(t) \in Event
  BY <1>0, <1>s, CurrentStep, EventsOfStep DEF Step
<1>1. CASE RunDone
  <2>1. at # "done"
    BY <1>1 DEF RunDone
  <2>2. /\ EndStep(<<>>, "done") /\ vars' \in [VarNames -> Values]
        /\ UNCHANGED <<slaMs, lapsed, buffers>>
    BY <1>0, <1>1, <1>s, <2>1 DEF RunDone, DataType
  <2> QED
    BY <1>0, <1>b, <1>e, <2>1, <2>2, EndingType DEF Outcomes, DataType
<1>2. CASE AssignDone
  <2>1. at # "done" /\ Continue("create", <<>>)
        /\ UNCHANGED <<vars, slaMs, seen, responded, lapsed, buffers>>
    BY <1>2 DEF AssignDone
  <2>2. PlaceType'
    BY <1>0, <1>e, <2>1, ContinueType
  <2>3. DataType'
    BY <1>0, <2>1 DEF DataType
  <2> QED
    BY <1>b, <2>1, <2>2, <2>3, TypePartsPrimed
<1>3. CASE CreateDone
  <2>1. /\ at # "done" /\ UNCHANGED <<slaMs, lapsed, buffers>>
        /\ AwaitAnswer(<<Ev("task.created"), Ev("task.assigned")>>, step.ms)
    BY <1>3 DEF CreateDone
  <2>2. <<Ev("task.created"), Ev("task.assigned")>> \in Seq(Event)
    BY <1>s, <2>1 DEF EventTypes
  <2>3. PlaceType' /\ DataType'
    BY <1>0, <1>s, <2>1, <2>2, AwaitAnswerType DEF DataType
  <2> QED
    BY <1>b, <2>1, <2>3, TypePartsPrimed
<1>4. CASE IssueDone
  <2> DEFINE issued == <<Ev("document.allocated"), Ev("document.issued"),
                         Ev("document.delivered")>>
  <2>1. at # "done" /\ UNCHANGED <<lapsed, buffers>>
    BY <1>4 DEF IssueDone
  <2>2. issued \in Seq(Event)
    BY <1>s, <2>1 DEF EventTypes
  <2>3. PICK evs \in {issued, <<>>} :
          IF step.offer THEN slaMs' = slaMs + step.ms /\ AwaitAnswer(evs, step.ms)
          ELSE EndStep(evs, "issued") /\ UNCHANGED <<vars, slaMs>>
    BY <1>4 DEF IssueDone
  <2>4. evs \in Seq(Event)
    BY <1>e, <2>2
  <2>5. CASE step.offer
    <3>1. slaMs' \in Nat
      BY <1>0, <1>s, <2>1, <2>3, <2>5 DEF DataType
    <3>2. PlaceType' /\ DataType'
      BY <1>s, <2>1, <2>3, <2>4, <2>5, <3>1, AwaitAnswerType
    <3> QED
      BY <1>b, <2>1, <3>2, TypePartsPrimed
  <2>6. CASE ~step.offer
    BY <1>0, <1>b, <2>1, <2>3, <2>4, <2>6, EndingType DEF Outcomes, DataType
  <2> QED
    BY <2>5, <2>6
<1>5. CASE AcceptDone
  <2>1. /\ at # "done" /\ EndStep(<<Ev("document.accepted")>>, "accepted")
        /\ UNCHANGED <<vars, slaMs, lapsed, buffers>>
    BY <1>5 DEF AcceptDone
  <2>2. <<Ev("document.accepted")>> \in Seq(Event)
    BY <1>s, <2>1 DEF EventTypes
  <2> QED
    BY <1>0, <1>b, <2>1, <2>2, EndingType DEF Outcomes, DataType
<1>6. CASE SubmitDone
  <2>1. /\ at # "done" /\ AwaitReply(<<Ev("external.submitted")>>, step.ms)
        /\ UNCHANGED <<vars, slaMs, lapsed, resolved, docResolved, paused, inbox, signals>>
    BY <1>6 DEF SubmitDone
  <2>2. <<Ev("external.submitted")>> \in Seq(Event)
    BY <1>s, <2>1 DEF EventTypes
  <2>3. PlaceType' /\ DataType' /\ queue' \in [StepIds -> Seq(Reply)]
    BY <1>s, <2>1, <2>2, AwaitReplyType
  <2> QED
    BY <1>0, <2>1, <2>3, TypePartsPrimed DEF BufferType
<1>7. CASE SleepDone
  <2>1. /\ at # "done" /\ EndStep(<<>>, "done") /\ slaMs' = slaMs + step.ms
        /\ UNCHANGED <<vars, lapsed, buffers>>
    BY <1>7 DEF SleepDone
  <2>2. slaMs' \in Nat
    BY <1>0, <1>s, <2>1 DEF DataType
  <2> QED
    BY <1>0, <1>b, <1>e, <2>1, <2>2, EndingType DEF Outcomes, DataType
<1>8. CASE SettleDone
  <2>1. /\ at = "settle" /\ EndStep(<<>>, "resolved")
        /\ vars' = [vars EXCEPT ![step.out] = responded]
        /\ UNCHANGED <<slaMs, lapsed, buffers>>
    BY <1>8 DEF SettleDone
  <2>2. at # "done" /\ responded \in Values
    BY <1>0, <2>1 DEF PlaceType, DataType
  <2>3. vars' \in [VarNames -> Values]
    BY <1>0, <1>s, <2>1, <2>2 DEF DataType
  <2> QED
    BY <1>0, <1>b, <1>e, <2>1, <2>2, <2>3, EndingType DEF Outcomes, DataType
<1>9. CASE BudgetExhausted
  <2>1. at # "done" /\ UNCHANGED <<resolved, paused, queue, inbox, signals>>
    BY <1>9 DEF BudgetExhausted
  <2>2. CASE step.type = "issue-document"
    <3>1. /\ EndStep(<<Ev("document.declined")>>, "declined")
          /\ lapsed' = lapsed \cup {id} /\ UNCHANGED <<vars, slaMs>>
          /\ docResolved' = [docResolved EXCEPT ![id] = "decline"]
      BY <1>9, <2>2 DEF BudgetExhausted
    <3>2. <<Ev("document.declined")>> \in Seq(Event)
      BY <1>s, <2>1 DEF EventTypes
    <3>3. BufferType'
      BY <1>0, <2>1, <3>1 DEF BufferType
    <3>4. lapsed' \subseteq StepIds
      BY <1>0, <1>s, <2>1, <3>1 DEF DataType
    <3> QED
      BY <1>0, <2>1, <3>1, <3>2, <3>3, <3>4, EndingType DEF Outcomes, DataType
  <2>3. CASE step.type # "issue-document"
    <3>1. PICK evs \in {<<Ev("external.timeout"), Ev("external.escalated")>>,
                        <<Ev("task.escalated")>>} : EndStep(evs, "escalated")
      BY <1>9, <2>3 DEF BudgetExhausted
    <3>2. /\ vars' = [vars EXCEPT ![step.out] = step.onTimeout]
          /\ slaMs' = slaMs + step.ms /\ UNCHANGED <<docResolved, lapsed>>
      BY <1>9, <2>3 DEF BudgetExhausted
    <3>3. evs \in Seq(Event)
      <4>1. <<Ev("external.timeout"), Ev("external.escalated")>> \in Seq(Event)
        BY <1>s, <2>1 DEF EventTypes
      <4>2. <<Ev("task.escalated")>> \in Seq(Event)
        BY <1>s, <2>1 DEF EventTypes
      <4> QED
        BY <3>1, <4>1, <4>2
    <3>4. BufferType'
      BY <1>0, <2>1, <3>2 DEF BufferType
    <3>5. vars' \in [VarNames -> Values] /\ slaMs' \in Nat
      BY <1>0, <1>s, <2>1, <3>2 DEF DataType
    <3> QED
      BY <1>0, <2>1, <3>1, <3>2, <3>3, <3>4, <3>5, EndingType DEF Outcomes, DataType
  <2> QED
    BY <2>2, <2>3
<1>r. ASSUME woken
      PROVE  at # "done" /\ ResumeEvents \in Seq(Event) /\ Remaining \in Nat
  <2>1. at # "done"
    BY <1>0, <1>r DEF PlaceType, Awaits
  <2>2. <<Ev("sla.resumed")>> \in Seq(Event)
    BY <1>s, <2>1 DEF EventTypes
  <2>3. Remaining \in Nat
    BY <1>0 DEF PlaceType, Remaining
  <2> QED
    BY <1>e, <2>1, <2>2, <2>3 DEF ResumeEvents
<1>10. CASE ResumeAnswer
  <2>1. /\ woken /\ AwaitAnswer(ResumeEvents, Remaining)
        /\ UNCHANGED <<slaMs, lapsed, buffers>>
    BY <1>10 DEF ResumeAnswer
  <2>2. PlaceType' /\ DataType'
    BY <1>0, <1>r, <2>1, AwaitAnswerType DEF DataType
  <2> QED
    BY <1>b, <2>1, <2>2, TypePartsPrimed
<1>11. CASE ResumeReply
  <2>1. /\ woken /\ AwaitReply(ResumeEvents, Remaining)
        /\ UNCHANGED <<vars, slaMs, lapsed, resolved, docResolved, paused, inbox, signals>>
    BY <1>11 DEF ResumeReply
  <2>2. PlaceType' /\ DataType' /\ queue' \in [StepIds -> Seq(Reply)]
    BY <1>r, <2>1, AwaitReplyType
  <2> QED
    BY <1>0, <2>1, <2>2, TypePartsPrimed DEF BufferType
<1> QED
  BY <1>1, <1>2, <1>3, <1>4, <1>5, <1>6, <1>7, <1>8, <1>9, <1>10, <1>11 DEF Progress

LEMMA TickType == TypeOK /\ Tick => TypeOK'
<1> SUFFICES ASSUME TypeOK, Tick PROVE TypeOK'
  OBVIOUS
<1>1. /\ age' = age + 1
      /\ active' = active \/ active' = active + 1
      /\ UNCHANGED <<flow, pc, at, remaining, seen, responded, vars, slaMs, events,
                     outcome, lapsed, woken, buffers>>
  BY DEF Tick
<1>2. age' \in Nat /\ active' \in Nat
  BY <1>1 DEF TypeOK
<1> QED
  BY <1>1, <1>2 DEF TypeOK, buffers

\* Every state of the interpreter is well typed: among others, a response is
\* there when it is written and an answer when it is taken.
THEOREM TypeCorrect == Spec => []TypeOK
<1>1. Init => TypeOK
  BY InitType
<1>2. TypeOK /\ [Next]_allVars => TypeOK'
  <2> SUFFICES ASSUME TypeOK, [Next]_allVars PROVE TypeOK'
    OBVIOUS
  <2>1. CASE Next
    BY <2>1, SignalType, ProgressType, TickType DEF Next
  <2>2. CASE UNCHANGED allVars
    BY <2>2 DEF allVars, wfState, buffers, TypeOK
  <2> QED
    BY <2>1, <2>2
<1> QED
  BY <1>1, <1>2, PTL DEF Spec

-----------------------------------------------------------------------------
(* The inductive invariant: the kind of step that each suspension belongs  *)
(* to, no signal slept through, and the budget as a function of the time   *)
(* the step has waited with its clock running.                             *)

PlaceOfType ==
  /\ at = "run" => step.type \in {"compute", "decision-eval"}
  /\ at \in {"assign", "create"} => step.type = "human-task"
  /\ at = "sleep" => step.type = "timer"
  /\ at \in {"issue", "accept"} => step.type = "issue-document"
  /\ at \in {"submit", "settle"} => step.type = "external-task"

\* remaining is what was left when the clock was armed, age ticks ago.
Budget ==
  /\ at \in {"assign", "create", "issue", "submit"} => active = 0
  /\ at = "clock" => /\ active >= age
                     /\ remaining = Max0(step.ms - (active - age))
  /\ at = "paused" => remaining = Max0(step.ms - active)

IInv == TypeOK /\ PlaceOfType /\ NoMissedWakeup /\ Budget

LEMMA FirstPlaceOfType ==
  ASSUME NEW s \in Step
  PROVE  /\ FirstAwait(s) \in {"run", "assign", "create", "sleep", "issue", "submit"}
         /\ FirstAwait(s) = "run" => s.type \in {"compute", "decision-eval"}
         /\ FirstAwait(s) \in {"assign", "create"} => s.type = "human-task"
         /\ FirstAwait(s) = "sleep" => s.type = "timer"
         /\ FirstAwait(s) = "issue" => s.type = "issue-document"
         /\ FirstAwait(s) = "submit" => s.type = "external-task"
<1>1. s.type \in StepTypes /\ s.routed \in BOOLEAN
  BY DEF Step
<1> QED
  BY <1>1 DEF FirstAwait, StepTypes

\* The budget that a step which suspends or ticks has left.
LEMMA Max0Facts ==
  /\ \A n \in Nat : Max0(n) = n
  /\ \A a, b \in Int : Max0(a) \in Nat /\ (Max0(a) = 0 => a <= 0)
  BY DEF Max0

\* The interpreter suspends in a fresh place of the next step, or of none.
LEMMA EndStepInv ==
  ASSUME TypeOK, at # "done", NEW evs, NEW result, EndStep(evs, result)
  PROVE  PlaceOfType' /\ NoMissedWakeup' /\ Budget'
<1>1. /\ pc \in 1..Len(flow) /\ flow \in Seq(Step) /\ Len(flow) \in Nat
  BY CurrentStep, TypeParts
<1>2. /\ flow' = flow /\ pc' = pc + 1 /\ active' = 0
      /\ pc = Len(flow) => at' = "done"
      /\ pc # Len(flow) => at' = FirstAwait(flow[pc + 1])
  BY DEF EndStep
<1>3. CASE pc = Len(flow)
  BY <1>2, <1>3 DEF PlaceOfType, NoMissedWakeup, Budget, Awaits
<1>4. CASE pc # Len(flow)
  <2>1. flow[pc + 1] \in Step
    BY <1>1, <1>4
  <2>2. step' = flow[pc + 1]
    BY <1>2 DEF step
  <2>3. at' \in {"run", "assign", "create", "sleep", "issue", "submit"}
    BY <1>2, <1>4, <2>1, FirstPlaceOfType
  <2>4. PlaceOfType'
    BY <1>2, <1>4, <2>1, <2>2, FirstPlaceOfType DEF PlaceOfType
  <2>5. NoMissedWakeup'
    BY <2>3 DEF NoMissedWakeup, Awaits
  <2>6. Budget'
    BY <1>2, <2>3 DEF Budget
  <2> QED
    BY <2>4, <2>5, <2>6
<1> QED
  BY <1>3, <1>4

\* What the top of the loop needs to know: the budget passed on is what the time
\* waited so far leaves.
RemLeft(rem) == rem = Max0(step.ms - active)

LEMMA SuspendBudget ==
  ASSUME TypeOK, at # "done", NEW rem, RemLeft(rem),
         NEW place \in {"clock", "paused", "settle"}, NEW evs, Suspend(place, evs, rem)
  PROVE  Budget'
<1>1. step.ms \in Nat /\ active \in Nat
  BY CurrentStep, TypeParts DEF Step, PlaceType
<1>2. at' = place /\ remaining' = rem /\ age' = 0 /\ active' = active /\ step' = step
  BY DEF Suspend, step
<1> QED
  BY <1>1, <1>2 DEF Budget, RemLeft

LEMMA AwaitAnswerInv ==
  ASSUME TypeOK, at # "done", ~external, NEW evs, NEW rem, RemLeft(rem),
         AwaitAnswer(evs, rem), UNCHANGED buffers
  PROVE  PlaceOfType' /\ NoMissedWakeup' /\ Budget'
<1>1. CASE Answered
  <2>1. Settle(evs)
    BY <1>1 DEF AwaitAnswer
  <2>2. step.type \in {"human-task", "issue-document"}
    BY <1>1 DEF Answered, AnswerTo, external
  <2>3. \/ \E e, r : EndStep(e, r)
        \/ Continue("accept", evs) /\ step.type = "issue-document"
    BY <2>1, <2>2 DEF Settle
  <2>4. CASE Continue("accept", evs) /\ step.type = "issue-document"
    <3>1. at' = "accept" /\ step' = step
      BY <2>4 DEF Continue, step
    <3> QED
      BY <2>4, <3>1 DEF PlaceOfType, NoMissedWakeup, Budget, Awaits
  <2> QED
    BY <2>3, <2>4, EndStepInv
<1>2. CASE ~Answered
  <2>1. PICK place, e :
          /\ place \in {"clock", "paused"}
          /\ Suspend(place, e, rem)
          /\ place = "paused" <=> id \in paused
    BY <1>2 DEF AwaitAnswer
  <2>2. /\ at' = place /\ step' = step /\ id' = id /\ paused' = paused
        /\ Answered' = Answered /\ external' = external
    BY <2>1 DEF Suspend, buffers, step, id, Answered, AnswerTo, external
  <2>3. PlaceOfType' /\ NoMissedWakeup'
    BY <1>2, <2>1, <2>2 DEF PlaceOfType, NoMissedWakeup, Awaits
  <2> QED
    BY <2>1, <2>3, SuspendBudget
<1> QED
  BY <1>1, <1>2

LEMMA AwaitReplyInv ==
  ASSUME TypeOK, at # "done", external, NEW evs, NEW rem, RemLeft(rem),
         AwaitReply(evs, rem), UNCHANGED <<resolved, docResolved, paused>>
  PROVE  PlaceOfType' /\ NoMissedWakeup' /\ Budget'
<1>1. PICK place, e :
        /\ place \in {"clock", "paused", "settle"}
        /\ Suspend(place, e, rem)
        /\ place = "paused" <=> id \in paused
        /\ place = "clock" => queue' = [queue EXCEPT ![id] = <<>>]
  BY DEF AwaitReply
<1>2. at' = place /\ step' = step /\ id' = id /\ paused' = paused /\ external' = external
  BY <1>1 DEF Suspend, step, id, external
<1>3. id \in StepIds /\ queue \in [StepIds -> Seq(Reply)]
  BY CurrentStep, TypeParts DEF BufferType
<1>4. place = "clock" => queue'[id] = <<>>
  BY <1>1, <1>3
<1>5. place = "clock" => ~Answered'
  BY <1>2, <1>4 DEF Answered, AnswerTo, external, id
<1>6. PlaceOfType'
  BY <1>1, <1>2 DEF PlaceOfType, external
<1>7. NoMissedWakeup'
  <2>1. CASE place = "clock"
    BY <1>1, <1>2, <1>5, <2>1 DEF NoMissedWakeup, Awaits
  <2>2. CASE place = "paused"
    BY <1>1, <1>2, <2>2 DEF NoMissedWakeup, Awaits
  <2>3. CASE place = "settle"
    BY <1>2, <2>3 DEF NoMissedWakeup, Awaits
  <2> QED
    BY <1>1, <2>1, <2>2, <2>3
<1> QED
  BY <1>1, <1>6, <1>7, SuspendBudget

\* A resumption passes on what is left of the budget.
LEMMA ResumeBudget ==
  ASSUME IInv, at \in Awaits
  PROVE  RemLeft(Remaining)
<1>1. /\ step.ms \in Nat /\ active \in Nat /\ age \in Nat /\ remaining \in Nat
  BY CurrentStep, TypeParts DEF IInv, Step, PlaceType, Awaits
<1>2. CASE at = "clock"
  <2>1. active >= age /\ remaining = Max0(step.ms - (active - age))
    BY <1>2 DEF IInv, Budget
  <2>2. Remaining = IF age >= remaining THEN 0 ELSE remaining - age
    BY <1>2 DEF Remaining
  <2> QED
    BY <1>1, <2>1, <2>2 DEF Max0, RemLeft
<1>3. CASE at = "paused"
  BY <1>3 DEF IInv, Budget, Remaining, RemLeft
<1> QED
  BY <1>2, <1>3 DEF Awaits

LEMMA ProgressInv ==
  ASSUME IInv, Progress
  PROVE  PlaceOfType' /\ NoMissedWakeup' /\ Budget'
<1>1. TypeOK /\ PlaceOfType /\ Budget
  BY DEF IInv
<1>2. step.ms \in Nat \/ at = "done"
  BY <1>1, CurrentStep, TypeParts DEF Step
<1>3. at \in {"create", "issue", "submit"} => RemLeft(step.ms)
  BY <1>1, <1>2, Max0Facts DEF Budget, RemLeft
<1>4. woken => at \in Awaits /\ RemLeft(Remaining)
  BY <1>1, ResumeBudget DEF TypeOK
<1>5. ASSUME at # "done", \E evs, result : EndStep(evs, result)
      PROVE  PlaceOfType' /\ NoMissedWakeup' /\ Budget'
  BY <1>1, <1>5, EndStepInv
<1>6. CASE RunDone \/ AcceptDone \/ SleepDone \/ SettleDone
  <2>1. at # "done" /\ \E evs, result : EndStep(evs, result)
    BY <1>6 DEF RunDone, AcceptDone, SleepDone, SettleDone
  <2> QED
    BY <1>5, <2>1
<1>7. CASE AssignDone
  <2>1. at' = "create" /\ at = "assign" /\ step' = step /\ active' = active
    BY <1>7 DEF AssignDone, Continue, step
  <2> QED
    BY <1>1, <2>1 DEF PlaceOfType, NoMissedWakeup, Budget, Awaits
<1>8. CASE CreateDone
  <2>1. at = "create" /\ UNCHANGED buffers /\ \E evs : AwaitAnswer(evs, step.ms)
    BY <1>8 DEF CreateDone
  <2>2. at # "done" /\ ~external
    BY <1>1, <2>1 DEF PlaceOfType, external
  <2> QED
    BY <1>1, <1>3, <2>1, <2>2, AwaitAnswerInv
<1>9. CASE IssueDone
  <2>1. /\ at = "issue" /\ UNCHANGED buffers
        /\ \/ \E evs : AwaitAnswer(evs, step.ms)
           \/ \E evs, result : EndStep(evs, result)
    BY <1>9 DEF IssueDone
  <2>2. at # "done" /\ ~external
    BY <1>1, <2>1 DEF PlaceOfType, external
  <2> QED
    BY <1>1, <1>3, <1>5, <2>1, <2>2, AwaitAnswerInv
<1>10. CASE SubmitDone
  <2>1. /\ at = "submit" /\ UNCHANGED <<resolved, docResolved, paused>>
        /\ \E evs : AwaitReply(evs, step.ms)
    BY <1>10 DEF SubmitDone
  <2>2. at # "done" /\ external
    BY <1>1, <2>1 DEF PlaceOfType, external
  <2> QED
    BY <1>1, <1>3, <2>1, <2>2, AwaitReplyInv
<1>11. CASE BudgetExhausted
  <2>1. at # "done" /\ \E evs, result : EndStep(evs, result)
    BY <1>11 DEF BudgetExhausted
  <2> QED
    BY <1>5, <2>1
<1>12. CASE ResumeAnswer
  <2>1. at # "done" /\ ~external /\ UNCHANGED buffers /\ RemLeft(Remaining)
        /\ AwaitAnswer(ResumeEvents, Remaining)
    BY <1>4, <1>12 DEF ResumeAnswer, Awaits
  <2> QED
    BY <1>1, <2>1, AwaitAnswerInv
<1>13. CASE ResumeReply
  <2>1. at # "done" /\ external /\ UNCHANGED <<resolved, docResolved, paused>>
        /\ RemLeft(Remaining) /\ AwaitReply(ResumeEvents, Remaining)
    BY <1>4, <1>13 DEF ResumeReply, Awaits
  <2> QED
    BY <1>1, <2>1, AwaitReplyInv
<1> QED
  BY <1>6, <1>7, <1>8, <1>9, <1>10, <1>11, <1>12, <1>13 DEF Progress

\* A handler wakes the workflow if it makes the awaited condition true.
LEMMA SignalInv ==
  ASSUME IInv, Signal
  PROVE  PlaceOfType' /\ NoMissedWakeup' /\ Budget'
<1>1. Handled
  BY DEF Signal, TaskSignal, DocumentSignal, ReplySignal
<1>2. /\ UNCHANGED <<flow, pc, at, age, remaining, active>>
      /\ woken' = (woken \/ Unblocked')
  BY <1>1 DEF Handled, wfState
<1>3. step' = step
  BY <1>2 DEF step
<1>4. PlaceOfType' /\ Budget'
  BY <1>2, <1>3 DEF IInv, PlaceOfType, Budget
<1>5. ~woken' => ~Unblocked'
  BY <1>2
<1>6. NoMissedWakeup'
  BY <1>5 DEF NoMissedWakeup, Unblocked, Awaits
<1> QED
  BY <1>4, <1>6

\* Time passes only when nothing is slept through: the clock runs at an await
\* whose step is not paused, and stands still at one whose step is.
LEMMA TickInv ==
  ASSUME IInv, Tick
  PROVE  PlaceOfType' /\ NoMissedWakeup' /\ Budget'
<1>1. /\ at \in Sleeps \cup Awaits /\ ~woken /\ age' = age + 1
      /\ active' = IF at \in Awaits /\ id \notin paused THEN active + 1 ELSE active
      /\ UNCHANGED <<flow, pc, at, woken, remaining>> /\ UNCHANGED buffers
  BY DEF Tick
<1>2. /\ step' = step /\ id' = id /\ external' = external /\ Answered' = Answered
      /\ paused' = paused
  BY <1>1 DEF step, id, external, Answered, AnswerTo, buffers
<1>3. PlaceOfType' /\ NoMissedWakeup'
  BY <1>1, <1>2 DEF IInv, PlaceOfType, NoMissedWakeup
<1>4. active \in Nat /\ age \in Nat
  BY DEF IInv, TypeOK
<1>5. at = "clock" => id \notin paused
  BY <1>1 DEF IInv, NoMissedWakeup, Awaits
<1>6. at = "paused" => id \in paused
  BY <1>1 DEF IInv, NoMissedWakeup, Awaits
<1>7. CASE at = "clock"
  <2>1. active' = active + 1
    BY <1>1, <1>5, <1>7 DEF Awaits
  <2>2. active' >= age' /\ active' - age' = active - age
    BY <1>1, <1>4, <1>7, <2>1 DEF IInv, Budget
  <2> QED
    BY <1>1, <1>2, <1>3, <1>7, <2>2 DEF IInv, Budget
<1>8. CASE at # "clock"
  <2>1. at = "paused" => active' = active
    BY <1>1, <1>6
  <2>2. at' \notin {"assign", "create", "issue", "submit", "clock"}
    BY <1>1, <1>8 DEF Sleeps, Awaits
  <2> QED
    BY <1>1, <1>2, <1>3, <2>1, <2>2 DEF IInv, Budget
<1> QED
  BY <1>7, <1>8

LEMMA InitInv == Init => IInv
<1> SUFFICES ASSUME Init PROVE IInv
  OBVIOUS
<1>1. TypeOK
  BY InitType
<1>2. flow[1] \in Step /\ step = flow[1] /\ at = FirstAwait(flow[1]) /\ active = 0
  BY FlowAssumption DEF Init, step
<1>3. at \in {"run", "assign", "create", "sleep", "issue", "submit"}
  BY <1>2, FirstPlaceOfType
<1>4. PlaceOfType
  BY <1>2, FirstPlaceOfType DEF PlaceOfType
<1> QED
  BY <1>1, <1>2, <1>3, <1>4 DEF IInv, NoMissedWakeup, Budget, Awaits

LEMMA StepInv == IInv /\ [Next]_allVars => IInv'
<1> SUFFICES ASSUME IInv, [Next]_allVars PROVE IInv'
  OBVIOUS
<1>1. TypeOK'
  <2>1. CASE Next
    BY <2>1, SignalType, ProgressType, TickType DEF Next, IInv
  <2>2. CASE UNCHANGED allVars
    BY <2>2 DEF allVars, wfState, buffers, TypeOK, IInv
  <2> QED
    BY <2>1, <2>2
<1>2. CASE Next
  BY <1>1, <1>2, SignalInv, ProgressInv, TickInv DEF Next, IInv
<1>3. CASE UNCHANGED allVars
  <2>1. UNCHANGED wfState /\ UNCHANGED buffers /\ woken' = woken
    BY <1>3 DEF allVars
  <2>2. /\ step' = step /\ id' = id /\ external' = external /\ Answered' = Answered
    BY <2>1 DEF wfState, buffers, step, id, external, Answered, AnswerTo
  <2> QED
    BY <1>1, <2>1, <2>2 DEF IInv, PlaceOfType, NoMissedWakeup, Budget, wfState, buffers
<1> QED
  BY <1>2, <1>3

LEMMA Invariance == Spec => []IInv
  BY InitInv, StepInv, PTL DEF Spec

\* No signal is slept through.
THEOREM NoWakeupMissed == Spec => []NoMissedWakeup
<1>1. IInv => NoMissedWakeup
  BY DEF IInv
<1> QED
  BY <1>1, Invariance, PTL

\* The clock-stop accounting: what is left of a budget is the budget less the time
\* the step waited with its clock running.
THEOREM SlaAccounted == Spec => []SlaAccounting
<1>1. IInv => SlaAccounting
  BY ResumeBudget DEF SlaAccounting, RemLeft
<1> QED
  BY <1>1, Invariance, PTL

\* A step times out only when its full budget of running time has passed, its clock
\* is running and no answer is waiting.
LEMMA TimeoutStep ==
  ASSUME IInv, [Next]_allVars, TimedOut
  PROVE  active >= step.ms /\ id \notin paused /\ ~Answered
<1>1. TypeOK
  BY DEF IInv
<1>2. at # "done" => /\ id \in StepIds /\ outcome \in [StepIds -> Outcomes]
                     /\ step.ms \in Nat
  BY <1>1, CurrentStep, TypeParts DEF Step, PlaceType
<1>3. ASSUME at # "done", NEW evs,
             NEW result \in Outcomes \ {"escalated"}, EndStep(evs, result), lapsed' = lapsed
      PROVE  FALSE
  BY <1>2, <1>3 DEF TimedOut, EndStep
<1>4. ASSUME pc' = pc
      PROVE  FALSE
  BY <1>4 DEF TimedOut
<1>5. ASSUME at # "done", NEW evs, NEW rem, AwaitAnswer(evs, rem), lapsed' = lapsed
      PROVE  FALSE
  <2>1. \/ \E e : EndStep(e, "resolved") \/ EndStep(e, "declined")
        \/ pc' = pc
    BY <1>5 DEF AwaitAnswer, Settle, Continue, Suspend
  <2> QED
    BY <1>3, <1>4, <1>5, <2>1 DEF Outcomes
<1>6. ASSUME NEW evs, NEW rem, AwaitReply(evs, rem)
      PROVE  FALSE
  <2>1. pc' = pc
    BY <1>6 DEF AwaitReply, Suspend
  <2> QED
    BY <1>4, <2>1
<1>7. BudgetExhausted
  <2>1. ~(RunDone \/ AcceptDone \/ SleepDone \/ SettleDone)
    <3>1. SUFFICES ASSUME RunDone \/ AcceptDone \/ SleepDone \/ SettleDone PROVE FALSE
      OBVIOUS
    <3>2. at # "done" /\ lapsed' = lapsed /\ \E evs :
            EndStep(evs, "done") \/ EndStep(evs, "accepted") \/ EndStep(evs, "resolved")
      BY <3>1 DEF RunDone, AcceptDone, SleepDone, SettleDone
    <3> QED
      BY <1>3, <3>2 DEF Outcomes
  <2>2. ~(CreateDone \/ ResumeAnswer)
    BY <1>1, <1>5 DEF CreateDone, ResumeAnswer, TypeOK, Awaits
  <2>3. ~IssueDone
    <3>1. SUFFICES ASSUME IssueDone PROVE FALSE
      OBVIOUS
    <3>2. at # "done" /\ lapsed' = lapsed /\ \E evs :
            AwaitAnswer(evs, step.ms) \/ EndStep(evs, "issued")
      BY <3>1 DEF IssueDone
    <3> QED
      BY <1>3, <1>5, <3>2 DEF Outcomes
  <2>4. ~(SubmitDone \/ ResumeReply)
    BY <1>6 DEF SubmitDone, ResumeReply
  <2>5. ~AssignDone
    BY <1>4 DEF AssignDone, Continue
  <2>6. ~(Signal \/ Tick \/ UNCHANGED allVars)
    BY <1>4 DEF Signal, TaskSignal, DocumentSignal, ReplySignal, Handled, Tick, allVars, wfState
  <2> QED
    BY <2>1, <2>2, <2>3, <2>4, <2>5, <2>6 DEF Next, Progress
<1>8. at = "clock" /\ ~woken /\ age >= remaining
  <2>1. at = "clock" /\ ~woken /\ TimerDue(remaining)
    BY <1>7 DEF BudgetExhausted
  <2>2. remaining \in Nat /\ age \in Nat
    BY <1>1 DEF TypeOK
  <2> QED
    BY <2>1, <2>2 DEF TimerDue
<1>9. id \notin paused /\ ~Answered
  BY <1>8 DEF IInv, NoMissedWakeup, Awaits
<1>10. active >= step.ms
  <2>1. Remaining = 0 /\ Remaining = Max0(step.ms - active)
    BY <1>8, ResumeBudget DEF Remaining, RemLeft, Awaits
  <2>2. active \in Nat /\ step.ms \in Nat
    BY <1>1, <1>2, <1>8 DEF TypeOK
  <2> QED
    BY <2>1, <2>2, Max0Facts
<1> QED
  BY <1>9, <1>10

\* A step times out only late: no answer, no stopped clock and no early timer.
THEOREM TimeoutsAreLate == Spec => AnswerBeatsTimeout
<1>1. IInv /\ [Next]_allVars
        => [TimedOut => active >= step.ms /\ id \notin paused /\ ~Answered]_allVars
  BY TimeoutStep
<1> QED
  BY <1>1, Invariance, PTL DEF Spec, AnswerBeatsTimeout

-----------------------------------------------------------------------------
(* The contract of a Case.                                                 *)

\* The steps ahead have not ended, an accepted offer has its answer, and only steps
\* that wait for an answer are suspended in an await loop.
Ahead ==
  /\ \A i \in pc..Len(flow) : outcome[flow[i].id] = "open" /\ flow[i].id \notin lapsed
  /\ at = "accept" => docResolved[id] # None
  /\ at \in Awaits \cup {"accept"} => Waits(step)

LEMMA DistinctIds ==
  ASSUME TypeOK, NEW i \in 1..Len(flow), NEW j \in 1..Len(flow), flow[i].id = flow[j].id
  PROVE  i = j
<1>1. flow \in Flows
  BY DEF TypeOK
<1> QED
  BY <1>1, FlowAssumption

LEMMA EndStepAhead ==
  ASSUME TypeOK, Ahead, at # "done", NEW evs, NEW result, EndStep(evs, result),
         lapsed' \subseteq lapsed \cup {id}
  PROVE  Ahead'
<1>1. /\ pc \in 1..Len(flow) /\ flow \in Seq(Step) /\ Len(flow) \in Nat
      /\ outcome \in [StepIds -> Outcomes]
  BY CurrentStep, TypeParts DEF PlaceType
<1>2. /\ flow' = flow /\ pc' = pc + 1 /\ outcome' = [outcome EXCEPT ![id] = result]
      /\ pc = Len(flow) => at' = "done"
      /\ pc # Len(flow) => at' = FirstAwait(flow[pc + 1])
  BY DEF EndStep
<1>3. ASSUME NEW i \in pc'..Len(flow')
      PROVE  outcome'[flow'[i].id] = "open" /\ flow'[i].id \notin lapsed'
  <2>1. i \in 1..Len(flow) /\ i \in pc..Len(flow) /\ i # pc
    BY <1>1, <1>2
  <2>2. flow[i].id # id
    BY <1>1, <2>1, DistinctIds DEF id, step
  <2>3. outcome[flow[i].id] = "open" /\ flow[i].id \notin lapsed
    BY <2>1 DEF Ahead
  <2> QED
    BY <1>1, <1>2, <2>2, <2>3
<1>4. at' \notin Awaits \cup {"accept"}
  <2>1. CASE pc = Len(flow)
    BY <1>2, <2>1 DEF Awaits
  <2>2. CASE pc # Len(flow)
    <3>1. flow[pc + 1] \in Step
      BY <1>1, <2>2
    <3> QED
      BY <1>2, <2>2, <3>1, FirstPlaceOfType DEF Awaits
  <2> QED
    BY <2>1, <2>2
<1> QED
  BY <1>3, <1>4 DEF Ahead

\* A step goes on: nothing that has ended or lapsed changes.
LEMMA OnwardAhead ==
  ASSUME Ahead, UNCHANGED <<flow, pc, outcome, lapsed>>,
         at' = "accept" => docResolved'[id] # None,
         at' \in Awaits \cup {"accept"} => Waits(step)
  PROVE  Ahead'
<1>1. step' = step /\ id' = id
  BY DEF step, id
<1> QED
  BY <1>1 DEF Ahead

LEMMA AwaitAnswerAhead ==
  ASSUME TypeOK, Ahead, at # "done", ~external, Waits(step), NEW evs, NEW rem,
         AwaitAnswer(evs, rem), lapsed' = lapsed, docResolved' = docResolved
  PROVE  Ahead'
<1>1. CASE \E e, r : EndStep(e, r)
  BY <1>1, EndStepAhead
<1>2. CASE ~\E e, r : EndStep(e, r)
  <2>1. \/ Continue("accept", evs) /\ docResolved[id] = "accept"
        \/ \E place \in {"clock", "paused"} : \E e : Suspend(place, e, rem)
    BY <1>2 DEF AwaitAnswer, Settle
  <2>2. UNCHANGED <<flow, pc, outcome>>
    BY <2>1 DEF Continue, Suspend
  <2>3. at' = "accept" => docResolved'[id] # None
    <3>1. None \notin {"accept", "decline"}
      BY FlowAssumption
    <3> QED
      BY <2>1, <3>1 DEF Continue, Suspend
  <2> QED
    BY <2>2, <2>3, OnwardAhead
<1> QED
  BY <1>1, <1>2

LEMMA AwaitReplyAhead ==
  ASSUME TypeOK, Ahead, at # "done", Waits(step), NEW evs, NEW rem,
         AwaitReply(evs, rem), lapsed' = lapsed
  PROVE  Ahead'
<1>1. \E place \in {"clock", "paused", "settle"} : \E e : Suspend(place, e, rem)
  BY DEF AwaitReply
<1>2. UNCHANGED <<flow, pc, outcome>> /\ at' # "accept"
  BY <1>1 DEF Suspend
<1> QED
  BY <1>2, OnwardAhead

LEMMA ProgressAhead ==
  ASSUME IInv, Ahead, Progress
  PROVE  Ahead'
<1>1. TypeOK /\ PlaceOfType
  BY DEF IInv
<1>2. CASE RunDone \/ AcceptDone \/ SleepDone \/ SettleDone \/ BudgetExhausted
  <2>1. /\ at # "done" /\ \E evs, result : EndStep(evs, result)
        /\ lapsed' \subseteq lapsed \cup {id}
    BY <1>2 DEF RunDone, AcceptDone, SleepDone, SettleDone, BudgetExhausted
  <2> QED
    BY <1>1, <2>1, EndStepAhead
<1>3. CASE AssignDone
  BY <1>3, OnwardAhead DEF AssignDone, Continue, Awaits
<1>4. CASE CreateDone
  <2>1. at = "create" /\ UNCHANGED <<lapsed, buffers>> /\ \E evs : AwaitAnswer(evs, step.ms)
    BY <1>4 DEF CreateDone
  <2>2. ~external /\ Waits(step)
    BY <1>1, <2>1 DEF PlaceOfType, external, Waits
  <2> QED
    BY <1>1, <2>1, <2>2, AwaitAnswerAhead DEF buffers
<1>5. CASE IssueDone
  <2>1. /\ at = "issue" /\ UNCHANGED <<lapsed, buffers>>
        /\ \/ step.offer /\ \E evs : AwaitAnswer(evs, step.ms)
           \/ \E evs, result : EndStep(evs, result)
    BY <1>5 DEF IssueDone
  <2>2. ~external /\ (step.offer => Waits(step))
    BY <1>1, <2>1 DEF PlaceOfType, external, Waits
  <2> QED
    BY <1>1, <2>1, <2>2, AwaitAnswerAhead, EndStepAhead DEF buffers
<1>6. CASE SubmitDone
  <2>1. at = "submit" /\ lapsed' = lapsed /\ \E evs : AwaitReply(evs, step.ms)
    BY <1>6 DEF SubmitDone
  <2>2. Waits(step)
    BY <1>1, <2>1 DEF PlaceOfType, Waits
  <2> QED
    BY <1>1, <2>1, <2>2, AwaitReplyAhead
<1>7. woken => at \in Awaits /\ at # "done" /\ Waits(step)
  BY <1>1 DEF TypeOK, Ahead, Awaits
<1>8. CASE ResumeAnswer
  <2>1. /\ woken /\ ~external /\ UNCHANGED <<lapsed, buffers>>
        /\ AwaitAnswer(ResumeEvents, Remaining)
    BY <1>8 DEF ResumeAnswer
  <2> QED
    BY <1>1, <1>7, <2>1, AwaitAnswerAhead DEF buffers
<1>9. CASE ResumeReply
  <2>1. woken /\ lapsed' = lapsed /\ AwaitReply(ResumeEvents, Remaining)
    BY <1>9 DEF ResumeReply
  <2> QED
    BY <1>1, <1>7, <2>1, AwaitReplyAhead
<1> QED
  BY <1>2, <1>3, <1>4, <1>5, <1>6, <1>8, <1>9 DEF Progress

LEMMA SignalAhead ==
  ASSUME TypeOK, Ahead, Signal
  PROVE  Ahead' /\ at # "done" /\ UNCHANGED <<flow, pc, at, outcome, lapsed, active>>
<1>1. at # "done" /\ UNCHANGED <<flow, pc, at, outcome, lapsed, active>>
  BY DEF Signal, TaskSignal, DocumentSignal, ReplySignal, Deliverable, Handled, wfState
<1>2. docResolved[id] # None => docResolved'[id] # None
  <2>1. docResolved \in [StepIds -> {"accept", "decline", None}]
    BY DEF TypeOK
  <2>2. None \notin {"accept", "decline"}
    BY FlowAssumption
  <2>3. \/ docResolved' = docResolved
        \/ \E s \in StepIds, action \in {"accept", "decline"} :
             docResolved' = [docResolved EXCEPT ![s] = action]
    BY DEF Signal, TaskSignal, DocumentSignal, ReplySignal
  <2>4. id \in StepIds
    BY <1>1, CurrentStep, TypeParts
  <2> QED
    BY <2>1, <2>2, <2>3, <2>4
<1> QED
  BY <1>1, <1>2, OnwardAhead DEF Ahead

LEMMA AheadInvariance == Spec => []Ahead
<1>1. Init => Ahead
  <2> SUFFICES ASSUME Init PROVE Ahead
    OBVIOUS
  <2>1. flow \in Seq(Step) /\ flow[1] \in Step /\ pc = 1
    BY FlowAssumption DEF Init
  <2>2. at \notin Awaits \cup {"accept"}
    BY <2>1, FirstPlaceOfType DEF Init, Awaits
  <2>3. \A i \in pc..Len(flow) : flow[i].id \in StepIds
    <3>1. \A i \in pc..Len(flow) : flow[i] \in Step
      BY <2>1
    <3> QED
      BY <3>1 DEF Step
  <2> QED
    BY <2>2, <2>3 DEF Init, Ahead
<1>2. IInv /\ Ahead /\ [Next]_allVars => Ahead'
  <2>1. ASSUME Ahead, Tick \/ UNCHANGED allVars
        PROVE  Ahead'
    BY <2>1, OnwardAhead DEF Ahead, Tick, allVars, wfState, buffers
  <2> QED
    BY <2>1, ProgressAhead, SignalAhead DEF Next, IInv
<1> QED
  BY <1>1, <1>2, Invariance, PTL DEF Spec

\* What the contract makes of a flow.
LEMMA PlanFacts ==
  ASSUME TypeOK
  PROVE  /\ Len(Plan) = Len(flow)
         /\ \A i \in 1..Len(flow) :
              /\ Plan[i].id = flow[i].id /\ (Plan[i].waits <=> Waits(flow[i]))
              /\ Plan[i].budget = flow[i].ms
<1>1. flow \in Seq(Step) /\ DOMAIN flow = 1..Len(flow) /\ Len(flow) \in Nat
  BY FlowAssumption DEF TypeOK
<1>2. Plan = [i \in 1..Len(flow) |->
               [id |-> flow[i].id, waits |-> Waits(flow[i]), budget |-> flow[i].ms]]
  BY <1>1 DEF Plan
<1>3. \A i \in 1..Len(flow) :
        Plan[i] = [id |-> flow[i].id, waits |-> Waits(flow[i]), budget |-> flow[i].ms]
  BY <1>2
<1>4. Plan \in [1..Len(flow) -> {Plan[i] : i \in 1..Len(flow)}]
  BY <1>2
<1>6. ASSUME NEW i \in 1..Len(flow)
      PROVE  /\ Plan[i].id = flow[i].id /\ Plan[i].budget = flow[i].ms
             /\ Plan[i].waits <=> Waits(flow[i])
  <2>1. Plan[i] = [id |-> flow[i].id, waits |-> Waits(flow[i]), budget |-> flow[i].ms]
    BY <1>3
  <2>2. Plan[i].id = flow[i].id /\ Plan[i].budget = flow[i].ms
    BY <2>1
  <2>3. Plan[i].waits <=> Waits(flow[i])
    BY <2>1
  <2> QED
    BY <2>2, <2>3
<1>5. Len(Plan) = Len(flow)
  <2>1. Plan \in Seq({Plan[i] : i \in 1..Len(flow)})
    BY <1>1, <1>4
  <2> QED
    BY <1>1, <1>4, <2>1
<1> QED
  BY <1>5, <1>6

\* Answers come and go, clocks are stopped and restarted.
LEMMA OnwardContract ==
  ASSUME TypeOK, TypeOK', at # "done", UNCHANGED <<flow, pc, outcome, lapsed, active>>
  PROVE  Contract!Environment
<1>1. pc <= Len(Plan)
  BY CurrentStep, TypeParts, PlanFacts
<1>2. Plan' = Plan /\ Verdicts' = Verdicts
  BY DEF Plan, Verdicts, VerdictOf, Waits
<1>3. Answers' \subseteq StepIds
  <2>1. flow' \in Seq(Step)
    BY FlowAssumption DEF TypeOK
  <2>2. \A i \in DOMAIN flow' : flow'[i].id \in StepIds
    <3>1. \A i \in DOMAIN flow' : flow'[i] \in Step
      BY <2>1
    <3> QED
      BY <3>1 DEF Step
  <2> QED
    BY <2>2 DEF Answers
<1>4. paused' \subseteq StepIds
  BY DEF TypeOK
<1> QED
  BY <1>1, <1>2, <1>3, <1>4 DEF Contract!Environment

\* How the contract sees that a step has ended.
LEMMA VerdictFacts ==
  ASSUME NEW s
  PROVE  /\ outcome[s] \in {"done", "issued"} => VerdictOf(s) = "done"
         /\ outcome[s] = "escalated" => VerdictOf(s) = "expired"
         /\ outcome[s] = "declined" /\ s \in lapsed => VerdictOf(s) = "expired"
         /\ outcome[s] \in {"resolved", "accepted", "declined"} /\ s \notin lapsed
              => VerdictOf(s) = "settled"
<1>1. outcome[s] \in {"done", "issued"} => VerdictOf(s) = "done"
  BY DEF VerdictOf
<1>2. outcome[s] = "escalated" => VerdictOf(s) = "expired"
  BY DEF VerdictOf
<1>3. outcome[s] = "declined" /\ s \in lapsed => VerdictOf(s) = "expired"
  BY DEF VerdictOf
<1>4. outcome[s] \in {"resolved", "accepted", "declined"} /\ s \notin lapsed
        => VerdictOf(s) = "settled"
  BY DEF VerdictOf
<1> QED
  BY <1>1, <1>2, <1>3, <1>4

LEMMA VerdictsKept ==
  ASSUME NEW s, outcome'[s] = outcome[s], s \in lapsed' <=> s \in lapsed
  PROVE  VerdictOf(s)' = VerdictOf(s)
  BY DEF VerdictOf

\* A step that ends takes or gives back no answer of another step.
LEMMA OthersAnswers ==
  ASSUME TypeOK, at # "done", NEW evs, NEW result, EndStep(evs, result),
         \A s \in StepIds \ {id} :
           /\ resolved'[s] = resolved[s] /\ docResolved'[s] = docResolved[s]
           /\ queue'[s] = queue[s] /\ (s \in lapsed' <=> s \in lapsed),
         NEW i \in 1..Len(flow), i # pc
  PROVE  AnswerArrived(i)' <=> AnswerArrived(i)
<1>1. /\ pc \in 1..Len(flow) /\ flow \in Seq(Step) /\ Len(flow) \in Nat
      /\ outcome \in [StepIds -> Outcomes] /\ id \in StepIds
  BY CurrentStep, TypeParts DEF PlaceType
<1>2. /\ flow' = flow /\ outcome' = [outcome EXCEPT ![id] = result]
      /\ pc = Len(flow) => at' = "done"
      /\ pc # Len(flow) => at' = FirstAwait(flow[pc + 1])
  BY DEF EndStep
<1>3. at' # "settle"
  <2>1. CASE pc = Len(flow)
    BY <1>2, <2>1
  <2>2. CASE pc # Len(flow)
    <3>1. flow[pc + 1] \in Step
      BY <1>1, <2>2
    <3> QED
      BY <1>2, <2>2, <3>1, FirstPlaceOfType
  <2> QED
    BY <2>1, <2>2
<1>4. flow[i].id \in StepIds \ {id}
  <2>1. flow[i] \in Step
    BY <1>1
  <2>2. flow[i].id # id
    BY <1>1, DistinctIds DEF id, step
  <2> QED
    BY <2>1, <2>2 DEF Step
<1>5. outcome'[flow[i].id] = outcome[flow[i].id]
  BY <1>1, <1>2, <1>4
<1>6. AnswerTo(flow[i])' <=> AnswerTo(flow[i])
  <2>1. /\ resolved'[flow[i].id] = resolved[flow[i].id]
        /\ docResolved'[flow[i].id] = docResolved[flow[i].id]
        /\ queue'[flow[i].id] = queue[flow[i].id]
    BY <1>4
  <2> QED
    BY <1>2, <2>1 DEF AnswerTo
<1> QED
  BY <1>2, <1>3, <1>4, <1>5, <1>6 DEF AnswerArrived

\* A step that ends is a step of the contract, but for the condition on which it ends.
LEMMA EndingContract ==
  ASSUME TypeOK, Ahead, at # "done", NEW evs, NEW result \in Outcomes, EndStep(evs, result),
         \A s \in StepIds \ {id} :
           /\ resolved'[s] = resolved[s] /\ docResolved'[s] = docResolved[s]
           /\ queue'[s] = queue[s] /\ (s \in lapsed' <=> s \in lapsed),
         paused' = paused,
         NEW st, st = step, NEW n, n = pc,
         AnswerArrived(n) <=> (AnswerTo(st)' /\ id \notin lapsed') \/ result = "resolved",
         NEW v, \A s : s = id => VerdictOf(s)' = v
  PROVE  Contract!End(v)
<1>1. /\ pc \in 1..Len(flow) /\ flow \in Seq(Step) /\ Len(flow) \in Nat
      /\ outcome \in [StepIds -> Outcomes] /\ id \in StepIds
  BY CurrentStep, TypeParts DEF PlaceType
<1>2. /\ flow' = flow /\ outcome' = [outcome EXCEPT ![id] = result]
      /\ pc' = pc + 1 /\ active' = 0
  BY DEF EndStep
<1>3. Plan' = Plan
  BY <1>2 DEF Plan, Waits
<1>4. Plan[pc].id = id
  BY <1>1, PlanFacts DEF id, step
<1>5. Verdicts' = [Verdicts EXCEPT ![id] = v]
  <2>1. \A s \in StepIds \ {id} : VerdictOf(s)' = VerdictOf(s)
    BY <1>1, <1>2, VerdictsKept
  <2>2. \A s \in StepIds : VerdictOf(s)' = IF s = id THEN v ELSE VerdictOf(s)
    BY <2>1
  <2> QED
    BY <2>2 DEF Verdicts
<1>6. AnswerArrived(n)' <=> AnswerArrived(n)
  <2>1. /\ flow'[n] = st /\ flow'[n].id = id /\ n # pc' /\ outcome'[id] = result
    BY <1>1, <1>2 DEF id, step
  <2>2. AnswerTo(flow[n])' <=> AnswerTo(st)'
    BY <2>1 DEF AnswerTo
  <2> QED
    BY <2>1, <2>2 DEF AnswerArrived
<1>7. Answers' = Answers
  <2>1. \A i \in 1..Len(flow) : AnswerArrived(i)' <=> AnswerArrived(i)
    BY <1>6, OthersAnswers
  <2>2. DOMAIN flow = 1..Len(flow)
    BY <1>1
  <2> QED
    BY <1>2, <2>1, <2>2 DEF Answers
<1> QED
  BY <1>2, <1>3, <1>4, <1>5, <1>7 DEF Contract!End, Contract!Current

\* The step being executed, as the contract sees it.
LEMMA CurrentContract ==
  ASSUME TypeOK, Ahead, at # "done"
  PROVE  /\ pc <= Len(Plan)
         /\ Plan[pc].id = id /\ (Plan[pc].waits <=> Waits(step)) /\ Plan[pc].budget = step.ms
         /\ id \in Answers <=> AnswerArrived(pc)
         /\ outcome[id] = "open" /\ id \notin lapsed
<1>1. /\ pc \in 1..Len(flow) /\ DOMAIN flow = 1..Len(flow) /\ Len(flow) \in Nat
  BY CurrentStep, TypeParts
<1>2. /\ Len(Plan) = Len(flow) /\ Plan[pc].id = id
      /\ (Plan[pc].waits <=> Waits(step)) /\ Plan[pc].budget = step.ms
  BY <1>1, PlanFacts DEF id, step
<1>3. id \in Answers <=> AnswerArrived(pc)
  <2>1. \A i \in 1..Len(flow) : flow[i].id = id => i = pc
    BY <1>1, DistinctIds DEF id, step
  <2>2. flow[pc].id = id
    BY DEF id, step
  <2> QED
    BY <1>1, <2>1, <2>2 DEF Answers
<1>4. outcome[id] = "open" /\ id \notin lapsed
  BY <1>1 DEF Ahead, id, step
<1> QED
  BY <1>1, <1>2, <1>3, <1>4

LEMMA PerformContract ==
  ASSUME TypeOK, Ahead, at \notin {"done", "settle"}, ~Waits(step),
         NEW evs, NEW result \in {"done", "issued"}, EndStep(evs, result),
         UNCHANGED <<lapsed, buffers>>
  PROVE  Contract!Perform
<1> SUFFICES ASSUME NEW st, st = step, NEW n, n = pc
             PROVE  Contract!Perform
  OBVIOUS
<1>1. outcome'[id] = result
  BY CurrentStep, TypeParts DEF EndStep, PlaceType
<1>2. AnswerArrived(n) <=> (AnswerTo(st)' /\ id \notin lapsed') \/ result = "resolved"
  BY CurrentContract DEF AnswerArrived, AnswerTo, buffers, step, id
<1>3. \A s : s = id => VerdictOf(s)' = "done"
  BY <1>1, VerdictFacts DEF VerdictOf
<1>4. result \in Outcomes
  BY DEF Outcomes
<1>5. Contract!End("done")
  BY <1>2, <1>3, <1>4, EndingContract DEF buffers
<1> QED
  BY <1>5, CurrentContract DEF Contract!Perform, Contract!Current

LEMMA SettleContract ==
  ASSUME TypeOK, Ahead, at # "done", Waits(step),
         NEW evs, NEW result \in {"resolved", "accepted", "declined"}, EndStep(evs, result),
         AnswerTo(step) \/ (at = "settle" /\ result = "resolved"),
         UNCHANGED <<lapsed, buffers>>
  PROVE  Contract!Settle
<1> SUFFICES ASSUME NEW st, st = step, NEW n, n = pc
             PROVE  Contract!Settle
  OBVIOUS
<1>1. outcome'[id] = result
  BY CurrentStep, TypeParts DEF EndStep, PlaceType
<1>2. AnswerArrived(n) /\ AnswerArrived(pc)
  BY CurrentContract DEF AnswerArrived, step, id
<1>3. (AnswerTo(st)' /\ id \notin lapsed') \/ result = "resolved"
  BY CurrentContract DEF AnswerTo, buffers
<1>4. \A s : s = id => VerdictOf(s)' = "settled"
  BY <1>1, CurrentContract DEF VerdictOf
<1>5. result \in Outcomes
  BY DEF Outcomes
<1>6. Contract!End("settled")
  BY <1>2, <1>3, <1>4, <1>5, EndingContract DEF buffers
<1> QED
  BY <1>2, <1>6, CurrentContract DEF Contract!Settle, Contract!Current

LEMMA ExpireContract ==
  ASSUME IInv, Ahead, BudgetExhausted
  PROVE  Contract!Expire
<1> SUFFICES ASSUME NEW st, st = step, NEW n, n = pc
             PROVE  Contract!Expire
  OBVIOUS
<1>1. TypeOK /\ at = "clock" /\ ~woken /\ Waits(step) /\ id \in StepIds
      /\ step.type \in StepTypes /\ pc \in Nat
  BY CurrentStep, TypeParts DEF IInv, BudgetExhausted, Ahead, Awaits, Step
<1>2. PICK evs, result :
        /\ EndStep(evs, result) /\ result \in {"declined", "escalated"}
        /\ result = "declined" => id \in lapsed'
        /\ \/ lapsed' = lapsed \cup {id} /\ result = "declined"
           \/ lapsed' = lapsed
  BY DEF BudgetExhausted
<1>3. outcome'[id] = result /\ pc' # pc
  BY <1>1, <1>2 DEF EndStep, TypeOK
<1>4. outcome[id] = "open" /\ id \notin lapsed
  BY <1>1, CurrentContract
<1>5. TimedOut
  BY <1>2, <1>3, <1>4 DEF TimedOut
<1>6. active >= step.ms /\ id \notin paused /\ ~Answered
  BY <1>5, TimeoutStep DEF Next, Progress
<1>7. ~AnswerArrived(n) /\ ~AnswerArrived(pc)
  BY <1>1, <1>4, <1>6 DEF AnswerArrived, Answered, step, id
<1>8. ~(AnswerTo(st)' /\ id \notin lapsed') /\ result # "resolved"
  <2>1. CASE result = "declined"
    BY <1>2, <2>1
  <2>2. CASE result = "escalated"
    <3>1. step.type # "issue-document"
      <4>1. step.type = "issue-document" => outcome'[id] = "declined"
        BY <1>1 DEF BudgetExhausted, EndStep, TypeOK
      <4> QED
        BY <1>3, <2>2, <4>1
    <3>2. UNCHANGED <<resolved, queue, docResolved>>
      BY <3>1 DEF BudgetExhausted
    <3> QED
      BY <1>6, <2>2, <3>2 DEF Answered, AnswerTo
  <2> QED
    BY <1>2, <2>1, <2>2
<1>9. \A s : s = id => VerdictOf(s)' = "expired"
  BY <1>2, <1>3 DEF VerdictOf
<1>10. /\ paused' = paused
       /\ \A s \in StepIds \ {id} :
            /\ resolved'[s] = resolved[s] /\ docResolved'[s] = docResolved[s]
            /\ queue'[s] = queue[s] /\ (s \in lapsed' <=> s \in lapsed)
  BY <1>1, <1>2 DEF BudgetExhausted, TypeOK
<1>11. result \in Outcomes
  BY <1>2 DEF Outcomes
<1>12. Contract!End("expired")
  BY <1>1, <1>2, <1>7, <1>8, <1>9, <1>10, <1>11, EndingContract
<1> QED
  BY <1>1, <1>6, <1>7, <1>12, CurrentContract DEF Contract!Expire, Contract!Current

\* Every scheduled step of the interpreter is one of the contract.
LEMMA ProgressContract ==
  ASSUME IInv, Ahead, Progress, TypeOK'
  PROVE  Contract!Next
<1>1. TypeOK /\ PlaceOfType
  BY DEF IInv
<1>2. ASSUME at # "done", UNCHANGED <<flow, pc, outcome, lapsed, active>>
      PROVE  Contract!Next
  BY <1>1, <1>2, OnwardContract DEF Contract!Next
<1>3. ASSUME at # "done", ~external, Waits(step), NEW evs, NEW rem, AwaitAnswer(evs, rem),
             UNCHANGED <<lapsed, buffers>>
      PROVE  Contract!Next
  <2>1. CASE Answered
    <3>1. Settle(evs)
      BY <1>3, <2>1 DEF AwaitAnswer
    <3>2. \/ \E e : EndStep(e, "resolved") \/ EndStep(e, "declined")
          \/ Continue("accept", evs)
      BY <3>1 DEF Settle
    <3>3. CASE Continue("accept", evs)
      BY <1>2, <1>3, <3>3 DEF Continue
    <3>4. CASE \E e : EndStep(e, "resolved") \/ EndStep(e, "declined")
      <4>1. AnswerTo(step)
        BY <2>1 DEF Answered
      <4>2. PICK e, result : result \in {"resolved", "declined"} /\ EndStep(e, result)
        BY <3>4
      <4>3. Contract!Settle
        BY <1>1, <1>3, <4>1, <4>2, SettleContract
      <4> QED
        BY <4>3 DEF Contract!Next
    <3> QED
      BY <3>2, <3>3, <3>4
  <2>2. CASE ~Answered
    <3>1. \E place, e : Suspend(place, e, rem)
      BY <1>3, <2>2 DEF AwaitAnswer
    <3> QED
      BY <1>2, <1>3, <3>1 DEF Suspend
  <2> QED
    BY <2>1, <2>2
<1>4. ASSUME at # "done", NEW evs, NEW rem, AwaitReply(evs, rem), lapsed' = lapsed
      PROVE  Contract!Next
  <2>1. \E place, e : Suspend(place, e, rem)
    BY <1>4 DEF AwaitReply
  <2> QED
    BY <1>2, <1>4, <2>1 DEF Suspend
<1>5. CASE RunDone \/ SleepDone
  <2>1. /\ at \in {"run", "sleep"} /\ EndStep(<<>>, "done") /\ UNCHANGED <<lapsed, buffers>>
    BY <1>5 DEF RunDone, SleepDone
  <2>2. ~Waits(step)
    BY <1>1, <2>1 DEF PlaceOfType, Waits
  <2>3. Contract!Perform
    BY <1>1, <2>1, <2>2, PerformContract
  <2> QED
    BY <2>3 DEF Contract!Next
<1>6. CASE AssignDone
  BY <1>2, <1>6 DEF AssignDone, Continue
<1>7. CASE CreateDone
  <2>1. /\ at = "create" /\ UNCHANGED <<lapsed, buffers>>
        /\ \E evs : AwaitAnswer(evs, step.ms)
    BY <1>7 DEF CreateDone
  <2>2. ~external /\ Waits(step)
    BY <1>1, <2>1 DEF PlaceOfType, external, Waits
  <2> QED
    BY <1>3, <2>1, <2>2
<1>8. CASE IssueDone
  <2>1. /\ at = "issue" /\ UNCHANGED <<lapsed, buffers>> /\ step.type = "issue-document"
        /\ IF step.offer THEN \E evs : AwaitAnswer(evs, step.ms)
           ELSE \E evs : EndStep(evs, "issued")
    BY <1>1, <1>8 DEF IssueDone, PlaceOfType
  <2>2. CASE step.offer
    BY <1>3, <2>1, <2>2 DEF external, Waits
  <2>3. CASE ~step.offer
    <3>1. Contract!Perform
      BY <1>1, <2>1, <2>3, PerformContract DEF Waits
    <3> QED
      BY <3>1 DEF Contract!Next
  <2> QED
    BY <2>2, <2>3
<1>9. CASE AcceptDone
  <2>1. /\ at = "accept" /\ \E evs : EndStep(evs, "accepted") /\ UNCHANGED <<lapsed, buffers>>
    BY <1>9 DEF AcceptDone
  <2>2. AnswerTo(step) /\ Waits(step)
    BY <1>1, <2>1 DEF PlaceOfType, Ahead, AnswerTo, id
  <2>3. Contract!Settle
    BY <1>1, <2>1, <2>2, SettleContract
  <2> QED
    BY <2>3 DEF Contract!Next
<1>10. CASE SubmitDone
  BY <1>4, <1>10 DEF SubmitDone
<1>11. CASE SettleDone
  <2>1. /\ at = "settle" /\ EndStep(<<>>, "resolved") /\ UNCHANGED <<lapsed, buffers>>
    BY <1>11 DEF SettleDone
  <2>2. Waits(step)
    BY <1>1, <2>1 DEF PlaceOfType, Waits
  <2>3. Contract!Settle
    BY <1>1, <2>1, <2>2, SettleContract
  <2> QED
    BY <2>3 DEF Contract!Next
<1>12. CASE BudgetExhausted
  BY <1>12, ExpireContract DEF Contract!Next
<1>13. woken => at # "done" /\ Waits(step)
  BY <1>1 DEF TypeOK, Ahead, Awaits
<1>14. CASE ResumeAnswer
  BY <1>3, <1>13, <1>14 DEF ResumeAnswer
<1>15. CASE ResumeReply
  BY <1>4, <1>13, <1>15 DEF ResumeReply
<1> QED
  BY <1>5, <1>6, <1>7, <1>8, <1>9, <1>10, <1>11, <1>12, <1>14, <1>15 DEF Progress

\* Time that passes with the clock running uses up the budget.
LEMMA TickContract ==
  ASSUME IInv, Ahead, Tick, TypeOK'
  PROVE  Contract!Next
<1>1. TypeOK /\ at # "done" /\ UNCHANGED <<flow, pc, at, outcome, lapsed, buffers>>
  BY DEF IInv, Tick, Sleeps, Awaits
<1>2. CASE active' = active
  BY <1>1, <1>2, OnwardContract DEF Contract!Next
<1>3. CASE active' # active
  <2>1. active' = active + 1 /\ id \notin paused /\ Waits(step)
    BY <1>3 DEF Tick, Ahead
  <2>2. Plan' = Plan /\ Verdicts' = Verdicts /\ Answers' = Answers
    BY <1>1 DEF buffers, Plan, Verdicts, VerdictOf, Answers, AnswerArrived, AnswerTo, Waits
  <2>3. Contract!Elapse
    BY <1>1, <2>1, <2>2, CurrentContract DEF Contract!Elapse, Contract!Current, buffers
  <2> QED
    BY <2>3 DEF Contract!Next
<1> QED
  BY <1>2, <1>3

\* The interpreter keeps the contract of a Case: whatever kind of step waits, it is
\* settled by an answer that has arrived or expires with its budget used up.
THEOREM KeepsContract == Spec => HonoursContract
<1>1. Init => Contract!Init
  <2> SUFFICES ASSUME Init PROVE Contract!Init
    OBVIOUS
  <2>1. flow \in Seq(Step) /\ Len(flow) >= 1 /\ flow[1] \in Step /\ DOMAIN flow = 1..Len(flow)
    BY FlowAssumption DEF Init
  <2>2. at # "settle"
    BY <2>1, FirstPlaceOfType DEF Init
  <2>3. \A i \in DOMAIN flow : flow[i].id \in StepIds
    <3>1. \A i \in DOMAIN flow : flow[i] \in Step
      BY <2>1
    <3> QED
      BY <3>1 DEF Step
  <2>4. \A i \in DOMAIN flow : ~AnswerArrived(i)
    <3> SUFFICES ASSUME NEW i \in DOMAIN flow PROVE ~AnswerArrived(i)
      OBVIOUS
    <3>1. ~AnswerTo(flow[i])
      BY <2>3 DEF Init, AnswerTo
    <3>2. outcome[flow[i].id] = "open"
      BY <2>3 DEF Init
    <3> QED
      BY <2>2, <3>1, <3>2 DEF AnswerArrived
  <2>5. Verdicts = [s \in StepIds |-> "pending"]
    <3>1. \A s \in StepIds : VerdictOf(s) = "pending"
      BY DEF Init, VerdictOf
    <3> QED
      BY <3>1 DEF Verdicts
  <2> QED
    BY <2>4, <2>5 DEF Contract!Init, Init, Answers
<1>2. ASSUME IInv, Ahead, TypeOK', [Next]_allVars
      PROVE  [Contract!Next]_(Contract!cvars)
  <2>1. CASE Signal
    BY <1>2, <2>1, SignalAhead, OnwardContract DEF IInv, Contract!Next
  <2>2. CASE UNCHANGED allVars
    <3>1. UNCHANGED <<flow, pc, at, outcome, lapsed, active, buffers>>
      BY <2>2 DEF allVars, wfState
    <3>2. Plan' = Plan /\ Verdicts' = Verdicts /\ Answers' = Answers
      BY <3>1 DEF buffers, Plan, Verdicts, VerdictOf, Answers, AnswerArrived, AnswerTo, Waits
    <3> QED
      BY <3>1, <3>2 DEF buffers, Contract!cvars
  <2> QED
    BY <1>2, <2>1, <2>2, ProgressContract, TickContract DEF Next
<1> QED
  BY <1>1, <1>2, TypeCorrect, Invariance, AheadInvariance, PTL
  DEF Spec, HonoursContract, Contract!Spec
-----------------------------------------------------------------------------
(* The replies of a delegation.                                            *)

\* The delegation is in its await loop.
Delegating == at \in {"clock", "paused", "settle"} /\ external

MsgsOf(d) == {d[i].msg : i \in {j \in 1..Len(d) : d[j].correlated}}

\* Sequence b is some n elements and then q.
EndsWith(b, q, n) ==
  Len(b) = n + Len(q) /\ \A i \in 1..Len(q) : q[i] = b[n + i]

\* What a step has buffered is the end of what it was sent.
Buffered == \A s \in StepIds : \E n \in Nat : EndsWith(inbox[s], queue[s], n)

\* No step but the delegation in its loop, of those that have not ended, has taken
\* anything from its buffer.
Untouched ==
  \A i \in pc..Len(flow) :
    i # pc \/ ~Delegating => Len(queue[flow[i].id]) = Len(inbox[flow[i].id])

\* What the delegation has seen is what it has drained; it goes on to its response
\* with the first good reply.
ReplyInv ==
  /\ Buffered /\ Untouched
  /\ ~Delegating => seen = {} /\ responded = None
  /\ Delegating => seen = MsgsOf(Drained(id))
  /\ Delegating /\ at # "settle" => responded = None
  /\ FirstReplyWins

LEMMA BeforeFacts ==
  ASSUME NEW b \in Seq(Reply), NEW n \in Nat, n <= Len(b)
  PROVE  /\ SubSeq(b, 1, n) \in Seq(Reply)
         /\ Len(SubSeq(b, 1, n)) = n
         /\ \A i \in 1..n : SubSeq(b, 1, n)[i] = b[i]
  OBVIOUS

LEMMA AppendedFacts ==
  ASSUME NEW S, NEW t \in Seq(S), NEW e \in S
  PROVE  /\ Append(t, e) \in Seq(S)
         /\ Len(t) \in Nat /\ Len(Append(t, e)) = Len(t) + 1
         /\ \A i \in 1..Len(t) : Append(t, e)[i] = t[i]
         /\ Append(t, e)[Len(t) + 1] = e
  OBVIOUS

LEMMA EqualSequences ==
  ASSUME NEW S, NEW t \in Seq(S), NEW u \in Seq(S), Len(t) = Len(u),
         \A i \in 1..Len(t) : t[i] = u[i]
  PROVE  t = u
  OBVIOUS

\* Of a sequence b that ends with q the part before q, of length n, stays what it
\* was when an element is added at the end of both.
LEMMA BothAppended ==
  ASSUME NEW b \in Seq(Reply), NEW q \in Seq(Reply), NEW r \in Reply, NEW n \in Nat,
         EndsWith(b, q, n)
  PROVE  /\ EndsWith(Append(b, r), Append(q, r), n)
         /\ SubSeq(Append(b, r), 1, n) = SubSeq(b, 1, n)
<1>0. Len(b) = n + Len(q) /\ \A i \in 1..Len(q) : q[i] = b[n + i]
  BY DEF EndsWith
<1> DEFINE c == Append(b, r)  p == Append(q, r)
<1>1. /\ p \in Seq(Reply) /\ Len(q) \in Nat /\ Len(p) = Len(q) + 1
      /\ \A i \in 1..Len(q) : p[i] = q[i]
      /\ p[Len(q) + 1] = r
  BY AppendedFacts
<1>2. /\ c \in Seq(Reply) /\ Len(b) \in Nat /\ Len(c) = Len(b) + 1
      /\ \A i \in 1..Len(b) : c[i] = b[i]
      /\ c[Len(b) + 1] = r
  BY AppendedFacts
<1> HIDE DEF c, p
<1>3. Len(c) = n + Len(p)
  BY <1>0, <1>1, <1>2
<1>4. ASSUME NEW i \in 1..Len(p) PROVE p[i] = c[n + i]
  <2>1. i \in Nat /\ (i \in 1..Len(q) \/ i = Len(q) + 1)
    BY <1>1
  <2>2. CASE i \in 1..Len(q)
    <3>1. n + i \in 1..Len(b)
      BY <1>0, <1>1, <1>2, <2>2
    <3>2. c[n + i] = b[n + i]
      BY <1>2, <3>1
    <3>3. p[i] = b[n + i]
      BY <1>0, <1>1, <2>2
    <3> QED
      BY <3>2, <3>3
  <2>3. CASE i = Len(q) + 1
    <3>1. n + i = Len(b) + 1
      BY <1>0, <1>1, <1>2, <2>3
    <3> QED
      BY <1>1, <1>2, <2>3, <3>1
  <2> QED
    BY <2>1, <2>2, <2>3
<1>5. SubSeq(c, 1, n) = SubSeq(b, 1, n)
  <2>1. n <= Len(b) /\ n <= Len(c)
    BY <1>0, <1>1, <1>2
  <2>2. /\ SubSeq(b, 1, n) \in Seq(Reply) /\ Len(SubSeq(b, 1, n)) = n
        /\ \A i \in 1..n : SubSeq(b, 1, n)[i] = b[i]
    BY <2>1, BeforeFacts
  <2>3. /\ SubSeq(c, 1, n) \in Seq(Reply) /\ Len(SubSeq(c, 1, n)) = n
        /\ \A i \in 1..n : SubSeq(c, 1, n)[i] = c[i]
    BY <1>2, <2>1, BeforeFacts
  <2>4. \A i \in 1..n : SubSeq(c, 1, n)[i] = SubSeq(b, 1, n)[i]
    <3>1. \A i \in 1..n : i \in 1..Len(b)
      BY <1>2, <2>1
    <3> QED
      BY <1>2, <2>2, <2>3, <3>1
  <2> QED
    BY <2>2, <2>3, <2>4, EqualSequences
<1> QED
  BY <1>3, <1>4, <1>5 DEF EndsWith, c, p

\* What a step has drained of its replies.
LEMMA DrainedFacts ==
  ASSUME TypeOK, Buffered, NEW s \in StepIds
  PROVE  \E n \in Nat :
           /\ EndsWith(inbox[s], queue[s], n)
           /\ Drained(s) = SubSeq(inbox[s], 1, n)
           /\ Drained(s) \in Seq(Reply)
           /\ Len(Drained(s)) = n
           /\ \A i \in 1..n : Drained(s)[i] = inbox[s][i]
<1>1. inbox[s] \in Seq(Reply) /\ queue[s] \in Seq(Reply)
  BY DEF TypeOK
<1>2. PICK n \in Nat : EndsWith(inbox[s], queue[s], n)
  BY DEF Buffered
<1>3. n <= Len(inbox[s]) /\ Len(inbox[s]) - Len(queue[s]) = n
  BY <1>1, <1>2 DEF EndsWith
<1>4. /\ SubSeq(inbox[s], 1, n) \in Seq(Reply) /\ Len(SubSeq(inbox[s], 1, n)) = n
      /\ \A i \in 1..n : SubSeq(inbox[s], 1, n)[i] = inbox[s][i]
  BY <1>1, <1>3, BeforeFacts
<1>5. Drained(s) = SubSeq(inbox[s], 1, n)
  BY <1>3 DEF Drained
<1> QED
  BY <1>2, <1>4, <1>5

\* A reply that arrives is buffered, and changes nothing of what was drained.
LEMMA DrainedKept ==
  ASSUME TypeOK, TypeOK', Buffered, Signal
  PROVE  /\ Buffered'
         /\ \A s \in StepIds :
              /\ Drained(s)' = Drained(s)
              /\ Len(queue[s]) = Len(inbox[s]) <=> Len(queue'[s]) = Len(inbox'[s])
<1>1. CASE UNCHANGED <<queue, inbox>>
  BY <1>1 DEF Buffered, Drained
<1>2. ASSUME NEW t \in StepIds, NEW r \in Replies, ReplySignal(t, r)
      PROVE  /\ Buffered'
             /\ \A s \in StepIds :
                  /\ Drained(s)' = Drained(s)
                  /\ Len(queue[s]) = Len(inbox[s]) <=> Len(queue'[s]) = Len(inbox'[s])
  <2>1. /\ queue' = [queue EXCEPT ![t] = Append(queue[t], r)]
        /\ inbox' = [inbox EXCEPT ![t] = Append(inbox[t], r)]
        /\ r \in Reply
        /\ queue \in [StepIds -> Seq(Reply)] /\ inbox \in [StepIds -> Seq(Reply)]
    BY <1>2, FlowAssumption DEF ReplySignal, TypeOK
  <2>2. ASSUME NEW s \in StepIds, s # t
        PROVE  queue'[s] = queue[s] /\ inbox'[s] = inbox[s]
    BY <2>1, <2>2
  <2>3. PICK n \in Nat : EndsWith(inbox[t], queue[t], n)
    BY DEF Buffered
  <2>4. /\ EndsWith(inbox'[t], queue'[t], n)
        /\ SubSeq(inbox'[t], 1, n) = SubSeq(inbox[t], 1, n)
    <3>1. inbox'[t] = Append(inbox[t], r) /\ queue'[t] = Append(queue[t], r)
      BY <2>1
    <3>2. inbox[t] \in Seq(Reply) /\ queue[t] \in Seq(Reply)
      BY <2>1
    <3> QED
      BY <2>1, <2>3, <3>1, <3>2, BothAppended
  <2>5. /\ inbox[t] \in Seq(Reply) /\ queue[t] \in Seq(Reply)
        /\ inbox'[t] \in Seq(Reply) /\ queue'[t] \in Seq(Reply)
    BY DEF TypeOK
  <2>6. /\ Drained(t)' = Drained(t)
        /\ Len(queue[t]) = Len(inbox[t]) <=> Len(queue'[t]) = Len(inbox'[t])
    <3>1. Len(inbox[t]) - Len(queue[t]) = n
      BY <2>3, <2>5 DEF EndsWith
    <3>2. Len(inbox'[t]) - Len(queue'[t]) = n
      BY <2>4, <2>5 DEF EndsWith
    <3>3. Drained(t)' = SubSeq(inbox'[t], 1, n) /\ Drained(t) = SubSeq(inbox[t], 1, n)
      BY <3>1, <3>2 DEF Drained
    <3>4. Len(queue[t]) = Len(inbox[t]) <=> n = 0
      BY <2>3, <2>5 DEF EndsWith
    <3>5. Len(queue'[t]) = Len(inbox'[t]) <=> n = 0
      BY <2>4, <2>5 DEF EndsWith
    <3> QED
      BY <2>4, <3>3, <3>4, <3>5
  <2>7. Buffered'
    <3>1. ASSUME NEW s \in StepIds PROVE \E m \in Nat : EndsWith(inbox'[s], queue'[s], m)
      <4>1. CASE s = t
        BY <2>4, <4>1
      <4>2. CASE s # t
        BY <2>2, <4>2 DEF Buffered
      <4> QED
        BY <4>1, <4>2
    <3> QED
      BY <3>1 DEF Buffered
  <2>8. ASSUME NEW s \in StepIds, s # t
        PROVE  /\ Drained(s)' = Drained(s)
               /\ Len(queue[s]) = Len(inbox[s]) <=> Len(queue'[s]) = Len(inbox'[s])
    BY <2>2, <2>8 DEF Drained
  <2> QED
    BY <2>6, <2>7, <2>8
<1> QED
  BY <1>1, <1>2 DEF Signal, TaskSignal, DocumentSignal

\* Sequence e is d, of length n, and then q; the ids of d have been seen.
Extends(e, d, q, n) ==
  /\ e \in Seq(Reply) /\ d \in Seq(Reply) /\ q \in Seq(Reply)
  /\ Len(d) = n /\ \A i \in 1..n : d[i] = e[i]
  /\ EndsWith(e, q, n)

LEMMA ExtendsFacts ==
  ASSUME NEW e, NEW d, NEW q, NEW n \in Nat, Extends(e, d, q, n)
  PROVE  /\ Len(q) \in Nat /\ Len(d) = n /\ Len(e) = n + Len(q)
         /\ \A i \in 1..n : d[i] = e[i]
         /\ \A i \in 1..Len(q) : q[i] = e[n + i]
         /\ \A i \in 1..Len(q) : n + i \in 1..Len(e) /\ n + i > n
         /\ \A j \in 1..Len(e) : j \in 1..n \/ \E i \in 1..Len(q) : j = n + i
<1>1. /\ Len(q) \in Nat /\ Len(d) = n /\ Len(e) = n + Len(q)
      /\ \A i \in 1..n : d[i] = e[i]
      /\ \A i \in 1..Len(q) : q[i] = e[n + i]
  BY DEF Extends, EndsWith
<1>2. \A i \in 1..Len(q) : n + i \in 1..Len(e) /\ n + i > n
  BY <1>1
<1>3. ASSUME NEW j \in 1..Len(e), j \notin 1..n PROVE \E i \in 1..Len(q) : j = n + i
  <2>1. j - n \in 1..Len(q) /\ j = n + (j - n)
    BY <1>1, <1>3
  <2> QED
    BY <2>1
<1> QED
  BY <1>1, <1>2, <1>3

\* Over the whole history, the receiver's memory of ids and its reading of one drain
\* find the same replies to be the first of their ids.
LEMMA FirstInHistory ==
  ASSUME NEW e, NEW d, NEW q, NEW n \in Nat, Extends(e, d, q, n), seen = MsgsOf(d)
  PROVE  /\ \A i \in 1..n : FirstOfItsId(e, i) <=> FirstOfItsId(d, i)
         /\ \A i \in 1..Len(q) :
              FirstOfItsId(e, n + i) <=> (q[i].correlated /\ ~Duplicate(q, i))
<1>1. /\ Len(q) \in Nat /\ Len(d) = n /\ Len(e) = n + Len(q)
      /\ \A i \in 1..n : d[i] = e[i]
      /\ \A i \in 1..Len(q) : q[i] = e[n + i]
      /\ \A i \in 1..Len(q) : n + i \in 1..Len(e) /\ n + i > n
      /\ \A j \in 1..Len(e) : j \in 1..n \/ \E i \in 1..Len(q) : j = n + i
  BY ExtendsFacts
<1>2. ASSUME NEW i \in 1..n PROVE FirstOfItsId(e, i) <=> FirstOfItsId(d, i)
  <2>1. \A j \in 1..(i - 1) : j \in 1..n
    OBVIOUS
  <2> QED
    BY <1>1, <2>1 DEF FirstOfItsId
<1>3. ASSUME NEW i \in 1..Len(q)
      PROVE  FirstOfItsId(e, n + i) <=> (q[i].correlated /\ ~Duplicate(q, i))
  <2>1. PICK k : k = n + i
    OBVIOUS
  <2>2. e[k] = q[i] /\ k \in Nat
    BY <1>1, <2>1
  <2>3. q[i].msg \in seen <=> \E j \in 1..n : e[j].correlated /\ e[j].msg = q[i].msg
    BY <1>1 DEF MsgsOf
  <2>4. ASSUME NEW j \in 1..(k - 1) PROVE j \in 1..n \/ \E l \in 1..(i - 1) : j = n + l
    <3>1. j \in 1..Len(e)
      BY <1>1, <2>1
    <3>2. ASSUME NEW l \in 1..Len(q), j = n + l PROVE l \in 1..(i - 1)
      BY <2>1, <2>4, <3>2
    <3> QED
      BY <1>1, <3>1, <3>2
  <2>5. ASSUME NEW l \in 1..(i - 1) PROVE n + l \in 1..(k - 1) /\ e[n + l] = q[l]
    <3>1. l \in 1..Len(q)
      BY <1>1
    <3> QED
      BY <1>1, <2>1, <3>1
  <2>6. \A j \in 1..n : j \in 1..(k - 1)
    BY <2>1
  <2>7. (\A j \in 1..(k - 1) : e[j].correlated => e[j].msg # q[i].msg)
          <=> /\ \A j \in 1..n : e[j].correlated => e[j].msg # q[i].msg
              /\ \A l \in 1..(i - 1) : q[l].correlated => q[l].msg # q[i].msg
    BY <2>4, <2>5, <2>6
  <2>8. FirstOfItsId(e, k) <=> (q[i].correlated /\ ~Duplicate(q, i))
    BY <2>2, <2>3, <2>7 DEF FirstOfItsId, Duplicate
  <2> QED
    BY <2>1, <2>8
<1> QED
  BY <1>2, <1>3

LEMMA GoodInHistory ==
  ASSUME NEW e, NEW d, NEW q, NEW n \in Nat, Extends(e, d, q, n), seen = MsgsOf(d)
  PROVE  /\ \A i \in 1..n : i \in GoodReplies(e) <=> i \in GoodReplies(d)
         /\ \A i \in 1..Len(q) : n + i \in GoodReplies(e) <=> Acceptable(q, i)
         /\ MsgsOf(e) = seen \cup {q[i].msg : i \in {j \in 1..Len(q) : q[j].correlated}}
<1>1. /\ Len(q) \in Nat /\ Len(d) = n /\ Len(e) = n + Len(q)
      /\ \A i \in 1..n : d[i] = e[i]
      /\ \A i \in 1..Len(q) : q[i] = e[n + i]
      /\ \A i \in 1..Len(q) : n + i \in 1..Len(e) /\ n + i > n
      /\ \A j \in 1..Len(e) : j \in 1..n \/ \E i \in 1..Len(q) : j = n + i
  BY ExtendsFacts
<1>2. /\ \A i \in 1..n : FirstOfItsId(e, i) <=> FirstOfItsId(d, i)
      /\ \A i \in 1..Len(q) :
           FirstOfItsId(e, n + i) <=> (q[i].correlated /\ ~Duplicate(q, i))
  BY FirstInHistory
<1>3. \A i \in 1..n : i \in 1..Len(e)
  BY <1>1
<1>4. \A i \in 1..n : i \in GoodReplies(e) <=> i \in GoodReplies(d)
  BY <1>1, <1>2, <1>3 DEF GoodReplies
<1>5. ASSUME NEW i \in 1..Len(q) PROVE n + i \in GoodReplies(e) <=> Acceptable(q, i)
  <2>1. PICK k : k = n + i
    OBVIOUS
  <2>2. k \in 1..Len(e) /\ e[k] = q[i]
    BY <1>1, <2>1
  <2>3. FirstOfItsId(e, k) <=> (q[i].correlated /\ ~Duplicate(q, i))
    BY <1>2, <2>1
  <2>4. k \in GoodReplies(e) <=> Acceptable(q, i)
    BY <2>2, <2>3 DEF GoodReplies, Acceptable
  <2> QED
    BY <2>1, <2>4
<1>6. MsgsOf(e) = seen \cup {q[i].msg : i \in {j \in 1..Len(q) : q[j].correlated}}
  <2>1. \A j \in 1..n : e[j].correlated => e[j].msg \in seen
    BY <1>1 DEF MsgsOf
  <2>2. \A m \in seen : \E j \in 1..n : e[j].correlated /\ e[j].msg = m
    BY <1>1 DEF MsgsOf
  <2>3. \A i \in 1..Len(q) : q[i].correlated => q[i].msg \in MsgsOf(e)
    BY <1>1 DEF MsgsOf
  <2>4. seen \subseteq MsgsOf(e)
    BY <1>3, <2>2 DEF MsgsOf
  <2>5. ASSUME NEW m \in MsgsOf(e)
        PROVE  m \in seen \/ \E i \in 1..Len(q) : q[i].correlated /\ q[i].msg = m
    <3>1. PICK j \in 1..Len(e) : e[j].correlated /\ e[j].msg = m
      BY DEF MsgsOf
    <3>2. CASE j \in 1..n
      BY <2>1, <3>1, <3>2
    <3>3. ASSUME NEW i \in 1..Len(q), j = n + i PROVE q[i].correlated /\ q[i].msg = m
      BY <1>1, <3>1, <3>3
    <3> QED
      BY <1>1, <3>2, <3>3
  <2> QED
    BY <2>3, <2>4, <2>5
<1> QED
  BY <1>4, <1>5, <1>6

\* The reply that resolves the delegation is the first good one of the history, and
\* if none does there is none.
LEMMA FirstResolves ==
  ASSUME NEW e, NEW d, NEW q, NEW n \in Nat, Extends(e, d, q, n), seen = MsgsOf(d),
         GoodReplies(d) = {}, responded = None
  PROVE  /\ \A i \in 1..Len(q) : Resolves(q, i) =>
              /\ n + i \in GoodReplies(e) /\ e[n + i] = q[i]
              /\ \A j \in GoodReplies(e) : n + i <= j
         /\ (\A i \in 1..Len(q) : ~Resolves(q, i)) => GoodReplies(e) = {}
<1>1. /\ Len(q) \in Nat /\ Len(e) = n + Len(q)
      /\ \A i \in 1..Len(q) : q[i] = e[n + i]
      /\ \A j \in 1..Len(e) : j \in 1..n \/ \E i \in 1..Len(q) : j = n + i
  BY ExtendsFacts
<1>2. /\ \A i \in 1..n : i \in GoodReplies(e) <=> i \in GoodReplies(d)
      /\ \A i \in 1..Len(q) : n + i \in GoodReplies(e) <=> Acceptable(q, i)
  BY GoodInHistory
<1>3. \A j \in GoodReplies(e) : j \in 1..Len(e)
  BY DEF GoodReplies
<1>4. \A j \in GoodReplies(e) : \E i \in 1..Len(q) : j = n + i /\ Acceptable(q, i)
  BY <1>1, <1>2, <1>3
<1>5. ASSUME NEW i \in 1..Len(q), Resolves(q, i)
      PROVE  /\ n + i \in GoodReplies(e) /\ e[n + i] = q[i]
             /\ \A j \in GoodReplies(e) : n + i <= j
  <2>1. Acceptable(q, i) /\ \A j \in 1..(i - 1) : ~Acceptable(q, j)
    BY <1>5 DEF Resolves
  <2>2. ASSUME NEW j \in GoodReplies(e) PROVE n + i <= j
    <3>1. PICK l \in 1..Len(q) : j = n + l /\ Acceptable(q, l)
      BY <1>4
    <3>2. ~(l \in 1..(i - 1))
      BY <2>1, <3>1
    <3>3. i <= l
      BY <1>1, <3>2
    <3> QED
      BY <1>1, <3>1, <3>3
  <2> QED
    BY <1>1, <1>2, <2>1, <2>2
<1>6. ASSUME \A i \in 1..Len(q) : ~Resolves(q, i) PROVE GoodReplies(e) = {}
  <2> DEFINE A == {i \in 1..Len(q) : Acceptable(q, i)}
  <2>1. SUFFICES ASSUME A # {} PROVE FALSE
    BY <1>4
  <2>2. A \subseteq Nat
    BY <1>1
  <2>3. PICK m \in A : \A k \in A : m <= k
    <3> HIDE DEF A
    <3> QED
      BY <2>1, <2>2, LeastNatural
  <2>4. ASSUME NEW j \in 1..(m - 1) PROVE ~Acceptable(q, j)
    <3>1. m \in 1..Len(q)
      OBVIOUS
    <3>2. j \in 1..Len(q) /\ ~(m <= j)
      BY <1>1, <3>1
    <3> QED
      BY <2>3, <3>2
  <2> QED
    BY <1>6, <2>3, <2>4 DEF Resolves
<1> QED
  BY <1>5, <1>6

\* A step that ends forgets what it has seen; the delegations ahead have not begun,
\* and their buffers are whole.
LEMMA EndStepReplies ==
  ASSUME TypeOK, at # "done", ReplyInv, UNCHANGED <<queue, inbox>>,
         NEW evs, NEW result, EndStep(evs, result)
  PROVE  ReplyInv'
<1>1. /\ pc' = pc + 1 /\ flow' = flow /\ seen' = {} /\ responded' = None
      /\ at' = IF pc = Len(flow) THEN "done" ELSE FirstAwait(flow[pc + 1])
  BY DEF EndStep
<1>2. pc \in 1..Len(flow) /\ flow \in Seq(Step) /\ Len(flow) \in Nat
  BY CurrentStep, TypeParts
<1>3. at' \notin {"clock", "paused", "settle"}
  <2>1. CASE pc = Len(flow)
    BY <1>1, <2>1
  <2>2. CASE pc # Len(flow)
    <3>1. flow[pc + 1] \in Step
      BY <1>2, <2>2
    <3> QED
      BY <1>1, <2>2, <3>1, FirstPlaceOfType
  <2> QED
    BY <2>1, <2>2
<1>4. ~Delegating'
  BY <1>3 DEF Delegating
<1>5. Buffered'
  BY DEF ReplyInv, Buffered
<1>6. Untouched'
  <2>1. \A i \in (pc + 1)..Len(flow) : i \in pc..Len(flow) /\ i # pc
    BY <1>2
  <2>2. \A i \in (pc + 1)..Len(flow) : Len(queue[flow[i].id]) = Len(inbox[flow[i].id])
    BY <2>1 DEF ReplyInv, Untouched
  <2> QED
    BY <1>1, <2>2 DEF Untouched
<1>7. FirstReplyWins'
  BY <1>4 DEF FirstReplyWins, Delegating
<1> QED
  BY <1>1, <1>4, <1>5, <1>6, <1>7 DEF ReplyInv

\* A step that is no delegation suspends or goes on.
LEMMA OnwardReplies ==
  ASSUME ReplyInv, ~Delegating, ~Delegating',
         UNCHANGED <<flow, pc, seen, responded, queue, inbox>>
  PROVE  ReplyInv'
<1>1. Buffered' /\ Untouched'
  BY DEF ReplyInv, Buffered, Untouched
<1>2. FirstReplyWins'
  BY DEF FirstReplyWins, Delegating
<1> QED
  BY <1>1, <1>2 DEF ReplyInv

LEMMA AwaitAnswerReplies ==
  ASSUME TypeOK, at \notin {"done", "settle"}, ~external, ReplyInv, UNCHANGED <<queue, inbox>>,
         NEW evs, NEW rem, AwaitAnswer(evs, rem)
  PROVE  ReplyInv'
<1>1. \/ \E e, r : EndStep(e, r)
      \/ /\ UNCHANGED <<seen, responded>>
         /\ \/ \E e : Continue("accept", e)
            \/ \E place, e, r : Suspend(place, e, r)
  BY DEF AwaitAnswer, Settle
<1>2. ASSUME UNCHANGED <<seen, responded>>,
             (\E e : Continue("accept", e)) \/ \E place, e, r : Suspend(place, e, r)
      PROVE  ReplyInv'
  <2>1. UNCHANGED <<flow, pc>>
    BY <1>2 DEF Continue, Suspend
  <2>2. ~external'
    BY <2>1 DEF external, step
  <2> QED
    BY <1>2, <2>1, <2>2, OnwardReplies DEF Delegating
<1> QED
  BY <1>1, <1>2, EndStepReplies

\* The delegation at the top of its loop: no good reply among those it drained so far.
LEMMA LoopTop ==
  ASSUME TypeOK, ReplyInv, external, at \in {"submit", "clock", "paused"}
  PROVE  /\ pc \in 1..Len(flow) /\ id \in StepIds
         /\ responded = None
         /\ seen = MsgsOf(Drained(id)) /\ GoodReplies(Drained(id)) = {}
<1>1. pc \in 1..Len(flow) /\ id \in StepIds /\ Len(flow) \in Nat
  BY CurrentStep, TypeParts
<1>2. responded = None
  BY DEF ReplyInv, Delegating
<1>3. CASE at = "submit"
  <2>1. ~Delegating
    BY <1>3 DEF Delegating
  <2>2. Len(queue[id]) = Len(inbox[id])
    <3>1. pc \in pc..Len(flow)
      BY <1>1
    <3> QED
      BY <2>1, <3>1 DEF ReplyInv, Untouched, id, step
  <2>3. PICK n \in Nat : EndsWith(inbox[id], queue[id], n) /\ Len(Drained(id)) = n
    BY <1>1, DrainedFacts DEF ReplyInv
  <2>4. inbox[id] \in Seq(Reply) /\ queue[id] \in Seq(Reply)
    BY <1>1 DEF TypeOK
  <2>5. n = 0
    BY <2>2, <2>3, <2>4 DEF EndsWith
  <2>6. MsgsOf(Drained(id)) = {} /\ GoodReplies(Drained(id)) = {}
    BY <2>3, <2>5 DEF MsgsOf, GoodReplies
  <2> QED
    BY <1>1, <1>2, <2>1, <2>6 DEF ReplyInv
<1>4. CASE at \in {"clock", "paused"}
  <2>1. seen = MsgsOf(Drained(id)) /\ FirstReplyWins
    BY <1>4 DEF ReplyInv, Delegating
  <2>2. GoodReplies(Drained(id)) = {}
    <3>1. ASSUME NEW i \in GoodReplies(Drained(id)), responded = Drained(id)[i].value
          PROVE  FALSE
      <4>1. Drained(id) \in Seq(Reply)
        BY <1>1, DrainedFacts DEF ReplyInv
      <4>2. Drained(id)[i] \in Reply
        BY <4>1 DEF GoodReplies
      <4>3. Drained(id)[i].value \in Values
        BY <4>2 DEF Reply
      <4>4. None \notin Values
        BY FlowAssumption
      <4> QED
        BY <1>2, <3>1, <4>3, <4>4
    <3> QED
      BY <1>4, <2>1, <3>1 DEF FirstReplyWins
  <2> QED
    BY <1>1, <1>2, <2>1, <2>2
<1> QED
  BY <1>3, <1>4

LEMMA WholeSequence ==
  ASSUME NEW b \in Seq(Reply)
  PROVE  /\ EndsWith(b, <<>>, Len(b)) /\ Len(b) \in Nat
         /\ SubSeq(b, 1, Len(b) - Len(<<>>)) = b
<1>1. Len(b) \in Nat /\ Len(<<>>) = 0 /\ Len(b) - Len(<<>>) = Len(b) /\ Len(b) = Len(b) + 0
  OBVIOUS
<1>2. EndsWith(b, <<>>, Len(b))
  BY <1>1 DEF EndsWith
<1>3. SubSeq(b, 1, Len(b)) = b
  BY <1>1, BeforeFacts, EqualSequences
<1> QED
  BY <1>1, <1>2, <1>3

\* What the queue held, once drained, is history.
LEMMA DrainAll ==
  ASSUME TypeOK, TypeOK', Buffered, NEW s \in StepIds,
         queue' = [queue EXCEPT ![s] = <<>>], inbox' = inbox
  PROVE  /\ Buffered' /\ Drained(s)' = inbox[s]
         /\ \A t \in StepIds : t # s => queue'[t] = queue[t]
         /\ \E n \in Nat : Extends(inbox[s], Drained(s), queue[s], n)
<1>1. /\ inbox[s] \in Seq(Reply) /\ queue[s] \in Seq(Reply)
      /\ queue'[s] = <<>> /\ Len(<<>>) = 0 /\ inbox'[s] = inbox[s]
      /\ \A t \in StepIds : t # s => queue'[t] = queue[t] /\ inbox'[t] = inbox[t]
  BY DEF TypeOK
<1>2. EndsWith(inbox'[s], queue'[s], Len(inbox[s])) /\ Len(inbox[s]) \in Nat
  BY <1>1, WholeSequence
<1>3. Buffered'
  <2>1. ASSUME NEW t \in StepIds PROVE \E n \in Nat : EndsWith(inbox'[t], queue'[t], n)
    <3>1. CASE t = s
      BY <1>2, <3>1
    <3>2. CASE t # s
      BY <1>1, <3>2 DEF Buffered
    <3> QED
      BY <3>1, <3>2
  <2> QED
    BY <2>1 DEF Buffered
<1>4. Drained(s)' = inbox[s]
  <2>1. Drained(s)' = SubSeq(inbox[s], 1, Len(inbox[s]) - Len(<<>>))
    BY <1>1 DEF Drained
  <2> QED
    BY <1>1, <2>1, WholeSequence
<1>5. \E n \in Nat : Extends(inbox[s], Drained(s), queue[s], n)
  <2>1. PICK n \in Nat : /\ EndsWith(inbox[s], queue[s], n)
                         /\ Drained(s) \in Seq(Reply) /\ Len(Drained(s)) = n
                         /\ \A i \in 1..n : Drained(s)[i] = inbox[s][i]
    BY DrainedFacts
  <2> QED
    BY <1>1, <2>1 DEF Extends
<1> QED
  BY <1>1, <1>3, <1>4, <1>5

LEMMA AwaitReplyReplies ==
  ASSUME TypeOK, TypeOK', ReplyInv, external, at \in {"submit", "clock", "paused"},
         inbox' = inbox, NEW evs, NEW rem, AwaitReply(evs, rem)
  PROVE  ReplyInv'
<1>1. /\ pc \in 1..Len(flow) /\ id \in StepIds
      /\ responded = None
      /\ seen = MsgsOf(Drained(id)) /\ GoodReplies(Drained(id)) = {}
  BY LoopTop
<1>2. UNCHANGED <<flow, pc>> /\ at' \in {"paused", "settle", "clock"}
  BY DEF AwaitReply, Suspend
<1>3. id' = id /\ external' /\ Delegating'
  BY <1>2 DEF id, external, step, Delegating
<1>4. CASE id \in paused
  <2>1. at' = "paused" /\ UNCHANGED <<queue, seen, responded>>
    BY <1>4 DEF AwaitReply, Suspend
  <2>2. Buffered' /\ Drained(id)' = Drained(id)
    BY <1>3, <2>1 DEF ReplyInv, Buffered, Drained
  <2>3. Untouched'
    BY <1>2, <1>3, <2>1 DEF ReplyInv, Untouched
  <2>4. FirstReplyWins'
    BY <1>1, <1>3, <2>1, <2>2 DEF FirstReplyWins
  <2> QED
    BY <1>1, <1>3, <2>1, <2>2, <2>3, <2>4 DEF ReplyInv
<1>5. CASE id \notin paused
  <2> DEFINE q == queue[id]
  <2>1. /\ queue' = [queue EXCEPT ![id] = <<>>]
        /\ seen' = seen \cup {q[i].msg : i \in {j \in 1..Len(q) : q[j].correlated}}
        /\ \/ at' = "settle" /\ \E i \in 1..Len(q) : Resolves(q, i) /\ responded' = q[i].value
           \/ at' = "clock" /\ responded' = responded /\ \A i \in 1..Len(q) : ~Resolves(q, i)
    BY <1>5 DEF AwaitReply, Suspend
  <2> HIDE DEF q
  <2>2. Buffered
    BY DEF ReplyInv
  <2>3. /\ Buffered' /\ Drained(id)' = inbox[id]
        /\ \A t \in StepIds : t # id => queue'[t] = queue[t]
        /\ \E n \in Nat : Extends(inbox[id], Drained(id), q, n)
    <3>1. PICK s \in StepIds : s = id
      BY <1>1
    <3>2. /\ Buffered' /\ Drained(s)' = inbox[s]
          /\ \A t \in StepIds : t # s => queue'[t] = queue[t]
          /\ \E n \in Nat : Extends(inbox[s], Drained(s), queue[s], n)
      BY <2>1, <2>2, <3>1, DrainAll
    <3>3. Drained(id)' = Drained(s)'
      BY <1>3, <3>1 DEF Drained
    <3> QED
      BY <3>1, <3>2, <3>3 DEF q
  <2>4. PICK n \in Nat : Extends(inbox[id], Drained(id), q, n)
    BY <2>3
  <2>5. MsgsOf(inbox[id]) = seen'
    BY <1>1, <2>1, <2>4, GoodInHistory
  <2>6. /\ \A i \in 1..Len(q) : Resolves(q, i) =>
             /\ n + i \in GoodReplies(inbox[id]) /\ inbox[id][n + i] = q[i]
             /\ \A j \in GoodReplies(inbox[id]) : n + i <= j
        /\ (\A i \in 1..Len(q) : ~Resolves(q, i)) => GoodReplies(inbox[id]) = {}
    BY <1>1, <2>4, FirstResolves
  <2>7. \/ GoodReplies(inbox[id]) = {} /\ responded' = None
        \/ /\ at' = "settle"
           /\ \E i \in GoodReplies(inbox[id]) :
                /\ \A j \in GoodReplies(inbox[id]) : i <= j
                /\ responded' = inbox[id][i].value
    BY <1>1, <2>1, <2>6
  <2>8. FirstReplyWins'
    <3>1. PICK d : d = inbox[id]
      OBVIOUS
    <3>2. Drained(id)' = d
      BY <2>3, <3>1
    <3>3. \/ GoodReplies(d) = {} /\ responded' = None
          \/ \E i \in GoodReplies(d) :
               /\ \A j \in GoodReplies(d) : i <= j
               /\ responded' = d[i].value
      BY <2>7, <3>1
    <3> QED
      BY <3>2, <3>3 DEF FirstReplyWins
  <2>9. Untouched'
    <3>1. \A i \in pc..Len(flow) : i # pc => Len(queue[flow[i].id]) = Len(inbox[flow[i].id])
      BY DEF ReplyInv, Untouched
    <3>2. \A i \in pc..Len(flow) : i # pc => flow[i].id # id /\ flow[i].id \in StepIds
      <4>1. flow \in Seq(Step)
        BY FlowAssumption DEF TypeOK
      <4>2. ASSUME NEW i \in pc..Len(flow), i # pc PROVE flow[i].id # id /\ flow[i].id \in StepIds
        <5>1. i \in 1..Len(flow) /\ flow[i] \in Step
          BY <1>1, <4>1
        <5> QED
          BY <1>1, <4>2, <5>1, DistinctIds DEF id, step, Step
      <4> QED
        BY <4>2
    <3> QED
      BY <1>2, <1>3, <2>3, <3>1, <3>2 DEF Untouched
  <2> QED
    BY <1>1, <1>3, <2>1, <2>3, <2>5, <2>7, <2>8, <2>9 DEF ReplyInv
<1> QED
  BY <1>4, <1>5

LEMMA SignalReplies ==
  ASSUME TypeOK, TypeOK', ReplyInv, Signal
  PROVE  ReplyInv'
<1>1. UNCHANGED <<flow, pc, at, seen, responded>> /\ at # "done"
  BY DEF Signal, TaskSignal, DocumentSignal, ReplySignal, Deliverable, Handled, wfState
<1>2. Buffered
  BY DEF ReplyInv
<1>3. /\ Buffered'
      /\ \A s \in StepIds :
           /\ Drained(s)' = Drained(s)
           /\ Len(queue[s]) = Len(inbox[s]) <=> Len(queue'[s]) = Len(inbox'[s])
  BY <1>2, DrainedKept
<1>4. pc \in 1..Len(flow) /\ flow \in Seq(Step) /\ id \in StepIds
  BY <1>1, CurrentStep, TypeParts
<1>5. id' = id /\ external' = external /\ Delegating' = Delegating
  BY <1>1 DEF id, external, step, Delegating
<1>6. Drained(id)' = Drained(id)
  <2>1. PICK s \in StepIds : s = id
    BY <1>4
  <2>2. Drained(id)' = Drained(s)'
    BY <1>5, <2>1 DEF Drained
  <2> QED
    BY <1>3, <2>1, <2>2
<1>7. Untouched'
  <2>1. \A i \in pc..Len(flow) : flow[i].id \in StepIds
    <3>1. \A i \in pc..Len(flow) : flow[i] \in Step
      BY <1>4
    <3> QED
      BY <3>1 DEF Step
  <2>2. Untouched
    BY DEF ReplyInv
  <2> QED
    BY <1>1, <1>3, <1>5, <2>1, <2>2 DEF Untouched
<1>8. FirstReplyWins'
  <2>1. FirstReplyWins
    BY DEF ReplyInv
  <2> QED
    BY <1>1, <1>5, <1>6, <2>1 DEF FirstReplyWins
<1> QED
  BY <1>1, <1>3, <1>5, <1>6, <1>7, <1>8 DEF ReplyInv

LEMMA ProgressReplies ==
  ASSUME IInv, TypeOK', ReplyInv, Progress
  PROVE  ReplyInv'
<1>1. TypeOK /\ PlaceOfType
  BY DEF IInv
<1>2. CASE RunDone \/ AcceptDone \/ SleepDone \/ SettleDone \/ BudgetExhausted
  <2>1. /\ at # "done" /\ UNCHANGED <<queue, inbox>>
        /\ \E evs, result : EndStep(evs, result)
    BY <1>2 DEF RunDone, AcceptDone, SleepDone, SettleDone, BudgetExhausted, buffers
  <2> QED
    BY <1>1, <2>1, EndStepReplies
<1>3. CASE AssignDone
  <2>1. /\ at = "assign" /\ at' = "create"
        /\ UNCHANGED <<flow, pc, seen, responded, queue, inbox>>
    BY <1>3 DEF AssignDone, Continue, buffers
  <2> QED
    BY <2>1, OnwardReplies DEF Delegating
<1>4. CASE CreateDone
  <2>1. /\ at = "create" /\ UNCHANGED <<queue, inbox>>
        /\ \E evs : AwaitAnswer(evs, step.ms)
    BY <1>4 DEF CreateDone, buffers
  <2>2. ~external
    BY <1>1, <2>1 DEF PlaceOfType, external
  <2> QED
    BY <1>1, <2>1, <2>2, AwaitAnswerReplies
<1>5. CASE IssueDone
  <2>1. /\ at = "issue" /\ UNCHANGED <<queue, inbox>>
        /\ \/ \E evs : AwaitAnswer(evs, step.ms)
           \/ \E evs, result : EndStep(evs, result)
    BY <1>5 DEF IssueDone, buffers
  <2>2. ~external
    BY <1>1, <2>1 DEF PlaceOfType, external
  <2> QED
    BY <1>1, <2>1, <2>2, AwaitAnswerReplies, EndStepReplies
<1>6. CASE SubmitDone
  <2>1. at = "submit" /\ inbox' = inbox /\ \E evs : AwaitReply(evs, step.ms)
    BY <1>6 DEF SubmitDone
  <2>2. external
    BY <1>1, <2>1 DEF PlaceOfType, external
  <2> QED
    BY <1>1, <2>1, <2>2, AwaitReplyReplies
<1>7. woken => at \in {"clock", "paused"}
  BY <1>1 DEF TypeOK, Awaits
<1>8. CASE ResumeAnswer
  <2>1. woken /\ ~external /\ UNCHANGED <<queue, inbox>> /\ AwaitAnswer(ResumeEvents, Remaining)
    BY <1>8 DEF ResumeAnswer, buffers
  <2> QED
    BY <1>1, <1>7, <2>1, AwaitAnswerReplies
<1>9. CASE ResumeReply
  <2>1. woken /\ external /\ inbox' = inbox /\ AwaitReply(ResumeEvents, Remaining)
    BY <1>9 DEF ResumeReply
  <2> QED
    BY <1>1, <1>7, <2>1, AwaitReplyReplies
<1> QED
  BY <1>2, <1>3, <1>4, <1>5, <1>6, <1>8, <1>9 DEF Progress

LEMMA InitReplies == Init => ReplyInv
<1> SUFFICES ASSUME Init PROVE ReplyInv
  OBVIOUS
<1>1. flow \in Seq(Step) /\ Len(flow) \in Nat /\ Len(flow) >= 1 /\ flow[1] \in Step
  BY FlowAssumption DEF Init
<1>2. ~Delegating
  BY <1>1, FirstPlaceOfType DEF Init, Delegating
<1>3. <<>> \in Seq(Reply) /\ Len(<<>>) = 0
  OBVIOUS
<1>4. EndsWith(<<>>, <<>>, 0)
  BY <1>3, WholeSequence
<1>5. \A s \in StepIds : queue[s] = <<>> /\ inbox[s] = <<>>
  BY DEF Init
<1>6. Buffered
  BY <1>4, <1>5 DEF Buffered
<1>7. Untouched
  <2>1. \A i \in pc..Len(flow) : flow[i] \in Step
    BY <1>1 DEF Init
  <2>2. \A i \in pc..Len(flow) : flow[i].id \in StepIds
    BY <2>1 DEF Step
  <2> QED
    BY <1>5, <2>2 DEF Untouched
<1>8. FirstReplyWins
  BY <1>2 DEF FirstReplyWins, Delegating
<1> QED
  BY <1>2, <1>6, <1>7, <1>8 DEF Init, ReplyInv

LEMMA ReplyInvariance == Spec => []ReplyInv
<1>1. IInv /\ TypeOK' /\ ReplyInv /\ [Next]_allVars => ReplyInv'
  <2>1. ASSUME ReplyInv, UNCHANGED <<flow, pc, at, seen, responded, queue, inbox>>
        PROVE  ReplyInv'
    <3>1. id' = id /\ external' = external /\ Delegating' = Delegating /\ Drained(id)' = Drained(id)
      BY <2>1 DEF id, external, step, Delegating, Drained
    <3>2. Buffered' /\ Untouched' /\ FirstReplyWins'
      BY <2>1, <3>1 DEF ReplyInv, Buffered, Untouched, FirstReplyWins
    <3> QED
      BY <2>1, <3>1, <3>2 DEF ReplyInv
  <2>2. ASSUME Tick \/ UNCHANGED allVars
        PROVE  UNCHANGED <<flow, pc, at, seen, responded, queue, inbox>>
    BY <2>2 DEF Tick, allVars, wfState, buffers
  <2> QED
    BY <2>1, <2>2, ProgressReplies, SignalReplies DEF Next, IInv
<1> QED
  BY <1>1, InitReplies, TypeCorrect, Invariance, PTL DEF Spec

\* The Idempotent Receiver, over the whole life of a delegation: however replies
\* interleave with drains, pauses and resumes, the delegation goes on with the first
\* well-formed, correlated reply of a new message id that was ever drained.
THEOREM FirstReplyAnswers == Spec => []FirstReplyWins
<1>1. ReplyInv => FirstReplyWins
  BY DEF ReplyInv
<1> QED
  BY <1>1, ReplyInvariance, PTL
-----------------------------------------------------------------------------
(* The record of clock stops.                                              *)

StopOf(s)   == [type |-> "sla.paused", step |-> s]
ResumeOf(s) == [type |-> "sla.resumed", step |-> s]

\* After the first n events of history h the clock of step s is stopped.
Stopped(h, s, n) ==
  \E j \in 1..n : h[j] = StopOf(s) /\ \A k \in (j + 1)..n : h[k] # ResumeOf(s)

\* The events that a stopped clock rules out.
RunningOnly == {"sla.paused", "task.escalated", "external.responded",
                "external.deduped", "external.dlq", "external.escalated"}

Bracketed(h) ==
  \A i \in 1..Len(h) :
    /\ h[i].type = "sla.resumed" => Stopped(h, h[i].step, i - 1)
    /\ h[i].type \in RunningOnly => ~Stopped(h, h[i].step, i - 1)

\* A history in which the clocks of the steps ahead have never been left stopped.
Record(h) ==
  /\ h \in Seq(Event) /\ Bracketed(h)
  /\ \A i \in (pc + 1)..Len(flow) : ~Stopped(h, flow[i].id, Len(h))

\* The record has the clock of the step in progress stopped just while the step is
\* paused, or answered while it was.
StopInv ==
  /\ Record(events)
  /\ at = "paused" => Stopped(events, id, Len(events))
  /\ at \notin {"paused", "accept", "done"} => ~Stopped(events, id, Len(events))

LEMMA RecordedStops == ClockStopsBracketed <=> Bracketed(events)
  BY DEF ClockStopsBracketed, StoppedAt, Bracketed, Stopped, StopOf, ResumeOf, RunningOnly

LEMMA JoinFacts ==
  ASSUME NEW h \in Seq(Event), NEW t \in Seq(Event)
  PROVE  /\ h \o t \in Seq(Event)
         /\ Len(h) \in Nat /\ Len(t) \in Nat /\ Len(h \o t) = Len(h) + Len(t)
         /\ \A i \in 1..Len(h) : (h \o t)[i] = h[i]
         /\ \A i \in 1..Len(t) : (h \o t)[Len(h) + i] = t[i]
<1>1. /\ h \o t \in Seq(Event)
      /\ Len(h) \in Nat /\ Len(t) \in Nat /\ Len(h \o t) = Len(h) + Len(t)
  OBVIOUS
<1>2. \A i \in 1..Len(h) : (h \o t)[i] = h[i]
  OBVIOUS
<1>3. \A i \in 1..Len(t) : (h \o t)[Len(h) + i] = t[i]
  OBVIOUS
<1> QED
  BY <1>1, <1>2, <1>3

\* What follows changes nothing of what was stopped when.
LEMMA StoppedBefore ==
  ASSUME NEW h \in Seq(Event), NEW t \in Seq(Event), NEW s, NEW n \in 0..Len(h)
  PROVE  Stopped(h \o t, s, n) <=> Stopped(h, s, n)
<1>1. \A i \in 1..Len(h) : (h \o t)[i] = h[i]
  BY JoinFacts
<1>2. \A i \in 1..n : i \in 1..Len(h)
  OBVIOUS
<1>3. \A j \in 1..n : \A k \in (j + 1)..n : k \in 1..Len(h)
  OBVIOUS
<1> QED
  BY <1>1, <1>2, <1>3 DEF Stopped

\* Events that stop and resume no clock of step s leave it as it was.
LEMMA StoppedAfter ==
  ASSUME NEW h \in Seq(Event), NEW t \in Seq(Event), NEW s, NEW n \in 0..Len(t),
         \A i \in 1..Len(t) : t[i] # StopOf(s) /\ t[i] # ResumeOf(s)
  PROVE  Stopped(h \o t, s, Len(h) + n) <=> Stopped(h, s, Len(h))
<1>1. /\ Len(h) \in Nat /\ Len(t) \in Nat
      /\ \A i \in 1..Len(h) : (h \o t)[i] = h[i]
      /\ \A i \in 1..Len(t) : (h \o t)[Len(h) + i] = t[i]
  BY JoinFacts
<1> DEFINE g == h \o t
<1>2. ASSUME NEW k \in Nat, k > Len(h), k <= Len(h) + n
      PROVE  g[k] # StopOf(s) /\ g[k] # ResumeOf(s)
  <2>1. PICK i \in 1..Len(t) : k = Len(h) + i
    <3>1. k - Len(h) \in 1..Len(t) /\ k = Len(h) + (k - Len(h))
      BY <1>1, <1>2
    <3> QED
      BY <3>1
  <2>2. g[k] = t[i]
    BY <1>1, <2>1
  <2> QED
    BY <2>2
<1>3. ASSUME NEW j \in 1..Len(h)
      PROVE  (\A k \in (j + 1)..(Len(h) + n) : g[k] # ResumeOf(s))
               <=> (\A k \in (j + 1)..Len(h) : h[k] # ResumeOf(s))
  <2>1. ASSUME NEW k \in (j + 1)..(Len(h) + n) PROVE k \in Nat /\ (k \in (j + 1)..Len(h) \/ k > Len(h))
    BY <1>1
  <2>2. ASSUME NEW k \in (j + 1)..Len(h) PROVE k \in (j + 1)..(Len(h) + n) /\ g[k] = h[k]
    BY <1>1
  <2> HIDE DEF g
  <2> QED
    BY <1>2, <2>1, <2>2
<1>4. \A j \in 1..(Len(h) + n) : g[j] = StopOf(s) => j \in 1..Len(h)
  <2> HIDE DEF g
  <2>1. \A j \in 1..(Len(h) + n) : j \in Nat /\ j <= Len(h) + n /\ (j \in 1..Len(h) \/ j > Len(h))
    BY <1>1
  <2> QED
    BY <1>2, <2>1
<1>5. \A j \in 1..Len(h) : j \in 1..(Len(h) + n) /\ g[j] = h[j]
  BY <1>1
<1> HIDE DEF g
<1>6. Stopped(g, s, Len(h) + n) <=> Stopped(h, s, Len(h))
  BY <1>3, <1>4, <1>5 DEF Stopped
<1> QED
  BY <1>6 DEF g

\* A stop stops, and a resume ends the stop.
LEMMA StopAndResume ==
  ASSUME NEW h \in Seq(Event), NEW s, StopOf(s) \in Event, ResumeOf(s) \in Event
  PROVE  /\ Stopped(h \o <<StopOf(s)>>, s, Len(h) + 1)
         /\ ~Stopped(h \o <<ResumeOf(s)>>, s, Len(h) + 1)
<1>1. Len(h) \in Nat
  OBVIOUS
<1>2. \A e \in Event : (h \o <<e>>)[Len(h) + 1] = e
  OBVIOUS
<1>3. StopOf(s) # ResumeOf(s)
  BY DEF StopOf, ResumeOf
<1>4. Stopped(h \o <<StopOf(s)>>, s, Len(h) + 1)
  <2> DEFINE g == h \o <<StopOf(s)>>
  <2>1. g[Len(h) + 1] = StopOf(s)
    BY <1>2
  <2> HIDE DEF g
  <2>2. Len(h) + 1 \in 1..(Len(h) + 1) /\ \A k \in (Len(h) + 1 + 1)..(Len(h) + 1) : FALSE
    BY <1>1
  <2>3. Stopped(g, s, Len(h) + 1)
    BY <2>1, <2>2 DEF Stopped
  <2> QED
    BY <2>3 DEF g
<1>5. ~Stopped(h \o <<ResumeOf(s)>>, s, Len(h) + 1)
  <2> DEFINE g == h \o <<ResumeOf(s)>>
  <2>1. g[Len(h) + 1] = ResumeOf(s)
    BY <1>2
  <2> HIDE DEF g
  <2>2. ASSUME NEW j \in 1..(Len(h) + 1), g[j] = StopOf(s),
               \A k \in (j + 1)..(Len(h) + 1) : g[k] # ResumeOf(s)
        PROVE  FALSE
    <3>1. j # Len(h) + 1
      BY <1>3, <2>1, <2>2
    <3>2. Len(h) + 1 \in (j + 1)..(Len(h) + 1)
      BY <1>1, <3>1
    <3> QED
      BY <2>1, <2>2, <3>2
  <2>3. ~Stopped(g, s, Len(h) + 1)
    BY <2>2 DEF Stopped
  <2> QED
    BY <2>3 DEF g
<1> QED
  BY <1>4, <1>5

LEMMA BracketedJoin ==
  ASSUME NEW h \in Seq(Event), NEW t \in Seq(Event), Bracketed(h),
         \A i \in 1..Len(t) :
           /\ t[i].type = "sla.resumed" => Stopped(h \o t, t[i].step, Len(h) + (i - 1))
           /\ t[i].type \in RunningOnly => ~Stopped(h \o t, t[i].step, Len(h) + (i - 1))
  PROVE  Bracketed(h \o t)
<1>1. /\ Len(h) \in Nat /\ Len(t) \in Nat /\ Len(h \o t) = Len(h) + Len(t)
      /\ \A i \in 1..Len(h) : (h \o t)[i] = h[i]
      /\ \A i \in 1..Len(t) : (h \o t)[Len(h) + i] = t[i]
  BY JoinFacts
<1>2. \A s : \A n \in 0..Len(h) : Stopped(h \o t, s, n) <=> Stopped(h, s, n)
  BY StoppedBefore
<1>3. PICK g : g = h \o t
  OBVIOUS
<1>4. ASSUME NEW i \in 1..Len(g)
      PROVE  /\ g[i].type = "sla.resumed" => Stopped(g, g[i].step, i - 1)
             /\ g[i].type \in RunningOnly => ~Stopped(g, g[i].step, i - 1)
  <2>1. CASE i \in 1..Len(h)
    <3>1. g[i] = h[i] /\ i - 1 \in 0..Len(h)
      BY <1>1, <1>3, <2>1
    <3>2. Stopped(g, g[i].step, i - 1) <=> Stopped(h, h[i].step, i - 1)
      BY <1>2, <1>3, <3>1
    <3> QED
      BY <2>1, <3>1, <3>2 DEF Bracketed
  <2>2. CASE i \notin 1..Len(h)
    <3>1. PICK k \in 1..Len(t) : i = Len(h) + k
      <4>1. i - Len(h) \in 1..Len(t) /\ i = Len(h) + (i - Len(h))
        BY <1>1, <1>3, <2>2
      <4> QED
        BY <4>1
    <3>2. g[i] = t[k] /\ i - 1 = Len(h) + (k - 1)
      BY <1>1, <1>3, <3>1
    <3> QED
      BY <1>3, <3>2
  <2> QED
    BY <2>1, <2>2
<1> QED
  BY <1>3, <1>4 DEF Bracketed

\* Events t stop and resume no clock, and rule out no stopped one, after history h.
Quiet(h, t) ==
  /\ t \in Seq(Event)
  /\ \A i \in 1..Len(t) :
       /\ t[i].type \notin {"sla.paused", "sla.resumed"}
       /\ t[i].type \in RunningOnly => ~Stopped(h, t[i].step, Len(h))

LEMMA QuietFacts ==
  ASSUME NEW h \in Seq(Event), NEW t, Quiet(h, t), Bracketed(h)
  PROVE  /\ h \o t \in Seq(Event) /\ Bracketed(h \o t)
         /\ \A s : Stopped(h \o t, s, Len(h \o t)) <=> Stopped(h, s, Len(h))
<1>1. t \in Seq(Event)
  BY DEF Quiet
<1>2. /\ h \o t \in Seq(Event) /\ Len(h) \in Nat /\ Len(t) \in Nat
      /\ Len(h \o t) = Len(h) + Len(t)
  BY <1>1, JoinFacts
<1>3. ASSUME NEW s, NEW i \in 1..Len(t) PROVE t[i] # StopOf(s) /\ t[i] # ResumeOf(s)
  BY DEF Quiet, StopOf, ResumeOf
<1>4. \A s : \A n \in 0..Len(t) : Stopped(h \o t, s, Len(h) + n) <=> Stopped(h, s, Len(h))
  BY <1>1, <1>3, StoppedAfter
<1>5. ASSUME NEW i \in 1..Len(t)
      PROVE  /\ t[i].type = "sla.resumed" => Stopped(h \o t, t[i].step, Len(h) + (i - 1))
             /\ t[i].type \in RunningOnly => ~Stopped(h \o t, t[i].step, Len(h) + (i - 1))
  <2>1. i - 1 \in 0..Len(t)
    BY <1>2
  <2>2. Stopped(h \o t, t[i].step, Len(h) + (i - 1)) <=> Stopped(h, t[i].step, Len(h))
    BY <1>4, <2>1
  <2> QED
    BY <2>2 DEF Quiet
<1>6. Bracketed(h \o t)
  BY <1>1, <1>5, BracketedJoin
<1>7. \A s : Stopped(h \o t, s, Len(h \o t)) <=> Stopped(h, s, Len(h))
  <2>1. Len(t) \in 0..Len(t)
    BY <1>2
  <2> QED
    BY <1>2, <1>4, <2>1
<1> QED
  BY <1>2, <1>6, <1>7

LEMMA QuietJoin ==
  ASSUME NEW h, NEW t, NEW u, Quiet(h, t), Quiet(h, u)
  PROVE  Quiet(h, t \o u)
<1>1. t \in Seq(Event) /\ u \in Seq(Event)
  BY DEF Quiet
<1>2. /\ t \o u \in Seq(Event)
      /\ Len(t) \in Nat /\ Len(u) \in Nat /\ Len(t \o u) = Len(t) + Len(u)
      /\ \A i \in 1..Len(t) : (t \o u)[i] = t[i]
      /\ \A i \in 1..Len(u) : (t \o u)[Len(t) + i] = u[i]
  BY <1>1, JoinFacts
<1>3. ASSUME NEW i \in 1..Len(t \o u)
      PROVE  (\E k \in 1..Len(t) : (t \o u)[i] = t[k]) \/ (\E k \in 1..Len(u) : (t \o u)[i] = u[k])
  <2>1. CASE i \in 1..Len(t)
    BY <1>2, <2>1
  <2>2. CASE i \notin 1..Len(t)
    <3>1. i - Len(t) \in 1..Len(u) /\ i = Len(t) + (i - Len(t))
      BY <1>2, <2>2
    <3> QED
      BY <1>2, <3>1
  <2> QED
    BY <2>1, <2>2
<1> QED
  BY <1>2, <1>3 DEF Quiet

LEMMA JoinAssociates ==
  ASSUME NEW h \in Seq(Event), NEW t \in Seq(Event), NEW u \in Seq(Event)
  PROVE  h \o (t \o u) = (h \o t) \o u
  OBVIOUS

LEMMA JoinAppend ==
  ASSUME NEW t \in Seq(Event), NEW e \in Event
  PROVE  Append(t, e) = t \o <<e>>
  OBVIOUS

\* The id of a step ahead is not that of the step in progress.
LEMMA AheadId ==
  ASSUME TypeOK, at # "done", NEW i \in (pc + 1)..Len(flow)
  PROVE  flow[i].id # id /\ flow[i].id \in StepIds
<1>1. pc \in 1..Len(flow) /\ flow \in Seq(Step) /\ Len(flow) \in Nat
  BY CurrentStep, TypeParts
<1>2. i \in 1..Len(flow) /\ i # pc /\ flow[i] \in Step
  BY <1>1
<1>3. flow[i].id # id
  BY <1>1, <1>2, DistinctIds DEF id, step
<1> QED
  BY <1>2, <1>3 DEF Step

\* An event of the step in progress changes no clock of a step ahead.
LEMMA ClocksAhead ==
  ASSUME TypeOK, at # "done", NEW h, Record(h), NEW e \in Event, e.step = id
  PROVE  \A i \in (pc + 1)..Len(flow) :
           ~Stopped(h \o <<e>>, flow[i].id, Len(h \o <<e>>))
<1>1. h \in Seq(Event) /\ <<e>> \in Seq(Event) /\ Len(<<e>>) = 1 /\ <<e>>[1] = e
  BY DEF Record
<1>2. Len(h) \in Nat /\ Len(h \o <<e>>) = Len(h) + 1
  BY <1>1, JoinFacts
<1>3. ASSUME NEW s, s # id PROVE Stopped(h \o <<e>>, s, Len(h) + 1) <=> Stopped(h, s, Len(h))
  <2>1. \A k \in 1..Len(<<e>>) : <<e>>[k] # StopOf(s) /\ <<e>>[k] # ResumeOf(s)
    BY <1>1, <1>3 DEF StopOf, ResumeOf
  <2>2. 1 \in 0..Len(<<e>>)
    BY <1>1
  <2> QED
    BY <1>1, <2>1, <2>2, StoppedAfter
<1>4. \A i \in (pc + 1)..Len(flow) : flow[i].id # id
  BY AheadId
<1> QED
  BY <1>2, <1>3, <1>4 DEF Record

\* The clock of the step in progress is stopped, or resumed.
LEMMA NoteStop ==
  ASSUME TypeOK, at # "done", NEW h, Record(h), ~Stopped(h, id, Len(h))
  PROVE  LET g == h \o <<Ev("sla.paused")>> IN Record(g) /\ Stopped(g, id, Len(g))
<1> DEFINE e == Ev("sla.paused")  t == <<e>>  g == h \o t
<1>1. h \in Seq(Event) /\ e \in Event /\ t \in Seq(Event) /\ Len(t) = 1 /\ t[1] = e
  BY EventsOfStep, TypeParts DEF Record, EventTypes
<1>2. e = StopOf(id) /\ e.type = "sla.paused" /\ e.step = id
  BY DEF Ev, StopOf
<1> HIDE DEF e, t
<1>3. g \in Seq(Event) /\ Len(h) \in Nat /\ Len(g) = Len(h) + 1
  BY <1>1, JoinFacts
<1>4. Stopped(g, id, Len(h) + 0) <=> Stopped(h, id, Len(h))
  BY <1>1, <1>3, StoppedBefore
<1>5. Bracketed(g)
  <2>1. ASSUME NEW i \in 1..Len(t)
        PROVE  /\ t[i].type = "sla.resumed" => Stopped(h \o t, t[i].step, Len(h) + (i - 1))
               /\ t[i].type \in RunningOnly => ~Stopped(h \o t, t[i].step, Len(h) + (i - 1))
    BY <1>1, <1>2, <1>4
  <2> QED
    BY <1>1, <2>1, BracketedJoin DEF Record
<1>6. Stopped(g, id, Len(g))
  <2>1. StopOf(id) \in Event /\ ResumeOf(id) \in Event /\ g = h \o <<StopOf(id)>>
    BY <1>1, <1>2, EventsOfStep, TypeParts DEF t, Ev, ResumeOf, EventTypes
  <2> QED
    BY <1>1, <1>3, <2>1, StopAndResume
<1>7. \A i \in (pc + 1)..Len(flow) : ~Stopped(g, flow[i].id, Len(g))
  BY <1>1, <1>2, ClocksAhead DEF t
<1> QED
  BY <1>3, <1>5, <1>6, <1>7 DEF Record, e, t

LEMMA NoteResume ==
  ASSUME TypeOK, at # "done", NEW h, Record(h), Stopped(h, id, Len(h))
  PROVE  LET g == h \o <<Ev("sla.resumed")>> IN Record(g) /\ ~Stopped(g, id, Len(g))
<1> DEFINE e == Ev("sla.resumed")  t == <<e>>  g == h \o t
<1>1. h \in Seq(Event) /\ e \in Event /\ t \in Seq(Event) /\ Len(t) = 1 /\ t[1] = e
  BY EventsOfStep, TypeParts DEF Record, EventTypes
<1>2. e = ResumeOf(id) /\ e.type = "sla.resumed" /\ e.step = id /\ e.type \notin RunningOnly
  BY DEF Ev, ResumeOf, RunningOnly
<1> HIDE DEF e, t
<1>3. g \in Seq(Event) /\ Len(h) \in Nat /\ Len(g) = Len(h) + 1
  BY <1>1, JoinFacts
<1>4. Stopped(g, id, Len(h) + 0) <=> Stopped(h, id, Len(h))
  BY <1>1, <1>3, StoppedBefore
<1>5. Bracketed(g)
  <2>1. ASSUME NEW i \in 1..Len(t)
        PROVE  /\ t[i].type = "sla.resumed" => Stopped(h \o t, t[i].step, Len(h) + (i - 1))
               /\ t[i].type \in RunningOnly => ~Stopped(h \o t, t[i].step, Len(h) + (i - 1))
    BY <1>1, <1>2, <1>4
  <2> QED
    BY <1>1, <2>1, BracketedJoin DEF Record
<1>6. ~Stopped(g, id, Len(g))
  <2>1. StopOf(id) \in Event /\ ResumeOf(id) \in Event /\ g = h \o <<ResumeOf(id)>>
    BY <1>1, <1>2, EventsOfStep, TypeParts DEF t, Ev, StopOf, EventTypes
  <2> QED
    BY <1>1, <1>3, <2>1, StopAndResume
<1>7. \A i \in (pc + 1)..Len(flow) : ~Stopped(g, flow[i].id, Len(g))
  BY <1>1, <1>2, ClocksAhead DEF t
<1> QED
  BY <1>3, <1>5, <1>6, <1>7 DEF Record, e, t

LEMMA NoteQuiet ==
  ASSUME NEW h, NEW t, Record(h), Quiet(h, t)
  PROVE  Record(h \o t) /\ \A s : Stopped(h \o t, s, Len(h \o t)) <=> Stopped(h, s, Len(h))
  BY QuietFacts DEF Record

\* Events of the step in progress that no stopped clock rules out.
Plain(t) ==
  /\ t \in Seq(Event)
  /\ \A i \in 1..Len(t) : t[i].type \notin RunningOnly \cup {"sla.resumed"}

LEMMA PlainIsQuiet ==
  ASSUME NEW h, NEW t, Plain(t)
  PROVE  Quiet(h, t)
  BY DEF Plain, Quiet, RunningOnly

LEMMA PlainEvents ==
  ASSUME TypeOK, at # "done"
  PROVE  /\ Plain(<<>>)
         /\ \A t \in EventTypes \ (RunningOnly \cup {"sla.resumed"}) : Plain(<<Ev(t)>>)
         /\ Plain(<<[type |-> "case.resolved", step |-> None]>>)
<1>1. Plain(<<>>)
  BY DEF Plain
<1>2. ASSUME NEW t \in EventTypes \ (RunningOnly \cup {"sla.resumed"}) PROVE Plain(<<Ev(t)>>)
  <2>1. PICK e : e = Ev(t)
    OBVIOUS
  <2>2. e \in Event /\ e.type = t
    <3>1. Ev(t) \in Event /\ Ev(t).type = t
      BY EventsOfStep, TypeParts DEF Ev
    <3> QED
      BY <2>1, <3>1
  <2>3. Plain(<<e>>)
    BY <2>2 DEF Plain
  <2> QED
    BY <2>1, <2>3
<1>3. Plain(<<[type |-> "case.resolved", step |-> None]>>)
  <2>1. PICK e : e = [type |-> "case.resolved", step |-> None]
    OBVIOUS
  <2>2. e \in Event /\ e.type = "case.resolved"
    BY <2>1 DEF Event, EventTypes
  <2>3. Plain(<<e>>)
    BY <2>2 DEF Plain, RunningOnly
  <2> QED
    BY <2>1, <2>3
<1> QED
  BY <1>1, <1>2, <1>3

\* The clock of the next step has never been stopped.
LEMMA EndStepStops ==
  ASSUME TypeOK, at # "done", StopInv, NEW evs, NEW result,
         Quiet(events, evs), EndStep(evs, result)
  PROVE  StopInv'
<1>1. pc \in 1..Len(flow) /\ flow \in Seq(Step) /\ Len(flow) \in Nat
  BY CurrentStep, TypeParts
<1>2. pc' = pc + 1 /\ flow' = flow
  BY DEF EndStep
<1>3. Record(events)
  BY DEF StopInv
<1>4. /\ Record(events \o evs)
      /\ \A s : Stopped(events \o evs, s, Len(events \o evs)) <=> Stopped(events, s, Len(events))
  BY <1>3, NoteQuiet
<1>5. CASE pc = Len(flow)
  <2> DEFINE last == <<[type |-> "case.resolved", step |-> None]>>
  <2>1. at' = "done" /\ events' = events \o evs \o last
    BY <1>5 DEF EndStep
  <2>2. Quiet(events \o evs, last)
    BY PlainEvents, PlainIsQuiet
  <2> HIDE DEF last
  <2>3. Record(events')
    BY <1>4, <2>1, <2>2, NoteQuiet
  <2>4. Record(events)'
    BY <1>1, <1>2, <1>5, <2>3 DEF Record
  <2> QED
    BY <2>1, <2>4 DEF StopInv
<1>6. CASE pc # Len(flow)
  <2>1. events' = events \o evs /\ at' = FirstAwait(flow[pc + 1])
    BY <1>6 DEF EndStep
  <2>2. pc + 1 \in (pc + 1)..Len(flow) /\ flow[pc + 1] \in Step
    BY <1>1, <1>6
  <2>3. at' # "paused"
    BY <2>1, <2>2, FirstPlaceOfType
  <2>4. Record(events)'
    <3>1. Record(events')
      BY <1>4, <2>1
    <3>2. \A i \in (pc + 1 + 1)..Len(flow) : i \in (pc + 1)..Len(flow)
      BY <1>1
    <3> QED
      BY <1>2, <3>1, <3>2 DEF Record
  <2>5. ~Stopped(events', flow[pc + 1].id, Len(events'))
    BY <1>4, <2>1, <2>2 DEF Record
  <2>6. id' = flow[pc + 1].id
    BY <1>2 DEF id, step
  <2> QED
    BY <2>3, <2>4, <2>5, <2>6 DEF StopInv
<1> QED
  BY <1>5, <1>6

\* A step that goes on leaves the record as the place it goes to wants it.
LEMMA OnwardStops ==
  ASSUME Record(events'), UNCHANGED <<flow, pc>>,
         at' = "paused" => Stopped(events', id, Len(events')),
         at' \notin {"paused", "accept", "done"} => ~Stopped(events', id, Len(events'))
  PROVE  StopInv'
<1>1. Record(events)'
  BY DEF Record
<1>2. id' = id
  BY DEF id, step
<1> QED
  BY <1>1, <1>2 DEF StopInv

\* The record at the top of a loop: the events of the step so far, or the note that a
\* pause has ended.
Opens(evs) ==
  \/ Plain(evs) /\ at # "paused"
  \/ evs = <<Ev("sla.resumed")>> /\ at = "paused"

LEMMA OpenRecord ==
  ASSUME TypeOK, StopInv, NEW evs, Opens(evs), at \in {"create", "issue", "submit", "clock", "paused"}
  PROVE  /\ evs \in Seq(Event)
         /\ Record(events \o evs)
         /\ ~Stopped(events \o evs, id, Len(events \o evs))
<1>1. Record(events)
  BY DEF StopInv
<1>2. CASE Plain(evs) /\ at # "paused"
  <2>1. Quiet(events, evs)
    BY <1>2, PlainIsQuiet
  <2>2. ~Stopped(events, id, Len(events))
    BY <1>2 DEF StopInv
  <2> QED
    BY <1>1, <1>2, <2>1, <2>2, NoteQuiet DEF Plain
<1>3. CASE evs = <<Ev("sla.resumed")>> /\ at = "paused"
  <2>1. Stopped(events, id, Len(events)) /\ at # "done"
    BY <1>3 DEF StopInv
  <2>2. Ev("sla.resumed") \in Event
    BY <2>1, EventsOfStep, TypeParts DEF EventTypes
  <2>3. evs \in Seq(Event)
    BY <1>3, <2>2
  <2> QED
    BY <1>1, <1>3, <2>1, <2>3, NoteResume
<1> QED
  BY <1>2, <1>3 DEF Opens

\* The clock is stopped after the opening events.
LEMMA PauseStops ==
  ASSUME TypeOK, StopInv, NEW evs, Opens(evs), at \in {"create", "issue", "submit", "clock", "paused"},
         NEW rem, Suspend("paused", Append(evs, Ev("sla.paused")), rem)
  PROVE  StopInv'
<1>1. evs \in Seq(Event) /\ Record(events \o evs) /\ ~Stopped(events \o evs, id, Len(events \o evs))
  BY OpenRecord
<1>2. Ev("sla.paused") \in Event /\ events \in Seq(Event)
  BY EventsOfStep, TypeParts DEF EventTypes, TypeOK
<1>3. <<Ev("sla.paused")>> \in Seq(Event)
  BY <1>2
<1>4. /\ events' = events \o Append(evs, Ev("sla.paused"))
      /\ at' = "paused" /\ UNCHANGED <<flow, pc>>
  BY DEF Suspend
<1>5. events' = (events \o evs) \o <<Ev("sla.paused")>>
  BY <1>1, <1>2, <1>3, <1>4, JoinAppend, JoinAssociates
<1>6. Record(events') /\ Stopped(events', id, Len(events'))
  BY <1>1, <1>5, NoteStop
<1> QED
  BY <1>4, <1>6, OnwardStops

LEMMA AwaitAnswerStops ==
  ASSUME TypeOK, StopInv, at \in {"create", "issue", "clock", "paused"},
         NEW evs, NEW rem, AwaitAnswer(evs, rem),
         Answered => Plain(evs), ~Answered => Opens(evs)
  PROVE  StopInv'
<1>1. CASE Answered
  <2>1. Plain(evs) /\ Quiet(events, evs)
    BY <1>1, PlainIsQuiet
  <2>2. \A t \in {"task.resolved", "document.declined"} : Quiet(events, evs \o <<Ev(t)>>)
    <3>1. ASSUME NEW t \in {"task.resolved", "document.declined"} PROVE Quiet(events, <<Ev(t)>>)
      <4>1. t \in EventTypes \ (RunningOnly \cup {"sla.resumed"})
        BY DEF EventTypes, RunningOnly
      <4> QED
        BY <4>1, PlainEvents, PlainIsQuiet
    <3> QED
      BY <2>1, <3>1, QuietJoin
  <2>3. CASE \E t \in {"task.resolved", "document.declined"} :
               \E result : EndStep(evs \o <<Ev(t)>>, result)
    BY <2>2, <2>3, EndStepStops
  <2>4. CASE Continue("accept", evs)
    <3>1. Record(events \o evs)
      BY <2>1, NoteQuiet DEF StopInv
    <3> QED
      BY <2>4, <3>1, OnwardStops DEF Continue
  <2> QED
    BY <1>1, <2>3, <2>4 DEF AwaitAnswer, Settle
<1>2. CASE ~Answered
  <2>1. CASE Suspend("paused", Append(evs, Ev("sla.paused")), rem)
    BY <1>2, <2>1, PauseStops
  <2>2. CASE Suspend("clock", evs, rem)
    BY <1>2, <2>2, OpenRecord, OnwardStops DEF Suspend
  <2> QED
    BY <1>2, <2>1, <2>2 DEF AwaitAnswer
<1> QED
  BY <1>1, <1>2

LEMMA AwaitReplyStops ==
  ASSUME TypeOK, StopInv, at \in {"submit", "clock", "paused"},
         NEW evs, NEW rem, AwaitReply(evs, rem), Opens(evs)
  PROVE  StopInv'
<1>1. CASE id \in paused
  BY <1>1, PauseStops DEF AwaitReply
<1>2. CASE id \notin paused
  <2> DEFINE q       == queue[id]
             drained == [i \in 1..Len(q) |-> Ev(Disposition(q, i))]
  <2>1. /\ UNCHANGED <<flow, pc>> /\ at' \in {"settle", "clock"}
        /\ events' = events \o (evs \o drained)
    BY <1>2 DEF AwaitReply, Suspend
  <2>2. /\ evs \in Seq(Event) /\ Record(events \o evs)
        /\ ~Stopped(events \o evs, id, Len(events \o evs))
    BY OpenRecord
  <2>3. Len(q) \in Nat
    <3>1. q \in Seq(Reply)
      BY CurrentStep, TypeParts DEF TypeOK
    <3> QED
      BY <3>1
  <2>4. ASSUME NEW i \in 1..Len(q)
        PROVE  /\ Ev(Disposition(q, i)) \in Event /\ Ev(Disposition(q, i)).step = id
               /\ Ev(Disposition(q, i)).type \notin {"sla.paused", "sla.resumed"}
    <3>1. Disposition(q, i) \in {"external.dlq", "external.deduped", "external.responded"}
      BY DEF Disposition
    <3>2. Disposition(q, i) \in EventTypes
      BY <3>1 DEF EventTypes
    <3>3. Ev(Disposition(q, i)) \in Event
      BY <3>2, EventsOfStep, TypeParts
    <3>4. /\ Ev(Disposition(q, i)).step = id
          /\ Ev(Disposition(q, i)).type = Disposition(q, i)
      BY DEF Ev
    <3> QED
      BY <3>1, <3>3, <3>4
  <2> HIDE DEF q
  <2>5. drained \in Seq(Event) /\ Len(drained) = Len(q)
        /\ \A i \in 1..Len(q) : drained[i] = Ev(Disposition(q, i))
    <3>1. drained \in [1..Len(q) -> Event]
      BY <2>4
    <3> QED
      BY <2>3, <3>1
  <2> HIDE DEF drained
  <2>6. Quiet(events \o evs, drained)
    BY <2>2, <2>4, <2>5 DEF Quiet
  <2>7. events' = (events \o evs) \o drained
    <3>1. events \in Seq(Event)
      BY DEF TypeOK
    <3> QED
      BY <2>1, <2>2, <2>5, <3>1, JoinAssociates
  <2>8. Record(events') /\ ~Stopped(events', id, Len(events'))
    BY <2>2, <2>6, <2>7, NoteQuiet
  <2> QED
    BY <2>1, <2>8, OnwardStops
<1> QED
  BY <1>1, <1>2

LEMMA ExpiryIsQuiet ==
  ASSUME TypeOK, StopInv, at = "clock"
  PROVE  /\ Quiet(events, <<Ev("document.declined")>>)
         /\ Quiet(events, <<Ev("task.escalated")>>)
         /\ Quiet(events, <<Ev("external.timeout"), Ev("external.escalated")>>)
<1>1. ~Stopped(events, id, Len(events))
  BY DEF StopInv
<1>2. ASSUME NEW t \in {"document.declined", "task.escalated", "external.timeout",
                        "external.escalated"}
      PROVE  /\ Ev(t) \in Event /\ Ev(t).step = id
             /\ Ev(t).type \notin {"sla.paused", "sla.resumed"}
  <2>1. t \in EventTypes
    BY DEF EventTypes
  <2> QED
    BY <2>1, EventsOfStep, TypeParts DEF Ev
<1>3. \A e, f \in Event : /\ <<e>> \in Seq(Event) /\ Len(<<e>>) = 1 /\ <<e>>[1] = e
                          /\ <<e, f>> \in Seq(Event) /\ Len(<<e, f>>) = 2
                          /\ <<e, f>>[1] = e /\ <<e, f>>[2] = f
  OBVIOUS
<1>4. \A e \in Event : e.step = id /\ e.type \notin {"sla.paused", "sla.resumed"}
                         => Quiet(events, <<e>>)
  BY <1>1, <1>3 DEF Quiet
<1>5. \A e, f \in Event :
        /\ e.step = id /\ e.type \notin {"sla.paused", "sla.resumed"}
        /\ f.step = id /\ f.type \notin {"sla.paused", "sla.resumed"}
        => Quiet(events, <<e, f>>)
  <2> SUFFICES ASSUME NEW e \in Event, NEW f \in Event, e.step = id, f.step = id,
                      e.type \notin {"sla.paused", "sla.resumed"},
                      f.type \notin {"sla.paused", "sla.resumed"}
               PROVE  Quiet(events, <<e, f>>)
    OBVIOUS
  <2>1. PICK t : t = <<e, f>>
    OBVIOUS
  <2>2. t \in Seq(Event) /\ \A i \in 1..Len(t) : t[i] = e \/ t[i] = f
    BY <1>3, <2>1
  <2>3. Quiet(events, t)
    BY <1>1, <2>2 DEF Quiet
  <2> QED
    BY <2>1, <2>3
<1> QED
  BY <1>2, <1>4, <1>5

LEMMA ProgressStops ==
  ASSUME IInv, StopInv, Progress
  PROVE  StopInv'
<1>1. TypeOK /\ PlaceOfType
  BY DEF IInv
<1>2. woken => at \in {"clock", "paused"}
  BY <1>1 DEF TypeOK, Awaits
<1>3. CASE RunDone \/ AcceptDone \/ SleepDone \/ SettleDone
  <2>1. /\ at # "done"
        /\ \/ \E result : EndStep(<<>>, result)
           \/ \E result : EndStep(<<Ev("document.accepted")>>, result)
    BY <1>3 DEF RunDone, AcceptDone, SleepDone, SettleDone
  <2>2. "document.accepted" \in EventTypes \ (RunningOnly \cup {"sla.resumed"})
    BY DEF EventTypes, RunningOnly
  <2>3. Quiet(events, <<>>) /\ Quiet(events, <<Ev("document.accepted")>>)
    BY <1>1, <2>1, <2>2, PlainEvents, PlainIsQuiet
  <2> QED
    BY <1>1, <2>1, <2>3, EndStepStops
<1>4. CASE AssignDone
  <2>1. /\ at = "assign" /\ at' = "create" /\ UNCHANGED <<flow, pc>>
        /\ events' = events \o <<>>
    BY <1>4 DEF AssignDone, Continue
  <2>2. Quiet(events, <<>>)
    BY <1>1, <2>1, PlainEvents, PlainIsQuiet
  <2>3. Record(events') /\ ~Stopped(events', id, Len(events'))
    BY <2>1, <2>2, NoteQuiet DEF StopInv
  <2> QED
    BY <2>1, <2>3, OnwardStops
<1>5. CASE CreateDone
  <2>1. at = "create" /\ AwaitAnswer(<<Ev("task.created"), Ev("task.assigned")>>, step.ms)
    BY <1>5 DEF CreateDone
  <2>2. Plain(<<Ev("task.created"), Ev("task.assigned")>>)
    <3>1. Ev("task.created") \in Event /\ Ev("task.assigned") \in Event
      BY <1>1, <2>1, EventsOfStep, TypeParts DEF EventTypes
    <3>2. Ev("task.created").type = "task.created" /\ Ev("task.assigned").type = "task.assigned"
      BY DEF Ev
    <3> QED
      BY <3>1, <3>2 DEF Plain, RunningOnly
  <2> QED
    BY <1>1, <2>1, <2>2, AwaitAnswerStops DEF Opens
<1>6. CASE IssueDone
  <2>1. PICK fresh \in FreshIssue :
          LET evs == IF fresh
                     THEN <<Ev("document.allocated"), Ev("document.issued"),
                            Ev("document.delivered")>>
                     ELSE <<>>
          IN /\ at = "issue"
             /\ AwaitAnswer(evs, step.ms) \/ EndStep(evs, "issued")
    BY <1>6 DEF IssueDone
  <2> DEFINE evs == IF fresh
                    THEN <<Ev("document.allocated"), Ev("document.issued"),
                           Ev("document.delivered")>>
                    ELSE <<>>
  <2>2. Plain(evs)
    <3>1. /\ Ev("document.allocated") \in Event /\ Ev("document.issued") \in Event
          /\ Ev("document.delivered") \in Event
      BY <1>1, <2>1, EventsOfStep, TypeParts DEF EventTypes
    <3>2. /\ Ev("document.allocated").type = "document.allocated"
          /\ Ev("document.issued").type = "document.issued"
          /\ Ev("document.delivered").type = "document.delivered"
      BY DEF Ev
    <3> QED
      BY <3>1, <3>2 DEF Plain, RunningOnly
  <2> HIDE DEF evs
  <2>3. at = "issue" /\ (AwaitAnswer(evs, step.ms) \/ EndStep(evs, "issued"))
    BY <2>1 DEF evs
  <2> QED
    BY <1>1, <2>2, <2>3, AwaitAnswerStops, EndStepStops, PlainIsQuiet DEF Opens
<1>7. CASE SubmitDone
  <2>1. at = "submit" /\ AwaitReply(<<Ev("external.submitted")>>, step.ms)
    BY <1>7 DEF SubmitDone
  <2>2. "external.submitted" \in EventTypes \ (RunningOnly \cup {"sla.resumed"})
    BY DEF EventTypes, RunningOnly
  <2>3. Plain(<<Ev("external.submitted")>>)
    BY <1>1, <2>1, <2>2, PlainEvents
  <2> QED
    BY <1>1, <2>1, <2>3, AwaitReplyStops DEF Opens
<1>8. CASE BudgetExhausted
  <2>1. /\ at = "clock"
        /\ \/ \E result : EndStep(<<Ev("document.declined")>>, result)
           \/ \E result : EndStep(<<Ev("task.escalated")>>, result)
           \/ \E result : EndStep(<<Ev("external.timeout"), Ev("external.escalated")>>, result)
    BY <1>8 DEF BudgetExhausted
  <2> QED
    BY <1>1, <2>1, ExpiryIsQuiet, EndStepStops
<1>9. CASE ResumeAnswer
  <2>1. woken /\ ~external /\ AwaitAnswer(ResumeEvents, Remaining)
    BY <1>9 DEF ResumeAnswer
  <2>2. Plain(<<>>)
    BY <1>1, <1>2, <2>1, PlainEvents
  <2>3. /\ Answered => Plain(ResumeEvents)
        /\ ~Answered => Opens(ResumeEvents)
    BY <2>1, <2>2 DEF ResumeEvents, Opens
  <2> QED
    BY <1>1, <1>2, <2>1, <2>3, AwaitAnswerStops
<1>10. CASE ResumeReply
  <2>1. woken /\ external /\ AwaitReply(ResumeEvents, Remaining)
    BY <1>10 DEF ResumeReply
  <2>2. Plain(<<>>)
    BY <1>1, <1>2, <2>1, PlainEvents
  <2>3. Opens(ResumeEvents)
    BY <2>1, <2>2 DEF ResumeEvents, Opens
  <2> QED
    BY <1>1, <1>2, <2>1, <2>3, AwaitReplyStops
<1> QED
  BY <1>3, <1>4, <1>5, <1>6, <1>7, <1>8, <1>9, <1>10 DEF Progress

LEMMA InitStops == Init => StopInv
<1> SUFFICES ASSUME Init PROVE StopInv
  OBVIOUS
<1>1. at # "paused"
  <2>1. flow[1] \in Step
    BY FlowAssumption DEF Init
  <2> QED
    BY <2>1, FirstPlaceOfType DEF Init
<1>2. PICK e \in Event : e.type = "case.created" /\ events = <<e>>
  BY DEF Init, Event, EventTypes
<1>3. events \in Seq(Event) /\ Len(events) = 1 /\ events[1] = e
  BY <1>2
<1>4. \A s : ~Stopped(events, s, 1)
  BY <1>2, <1>3 DEF Stopped, StopOf
<1>5. Bracketed(events)
  BY <1>2, <1>3 DEF Bracketed, RunningOnly
<1> QED
  BY <1>1, <1>3, <1>4, <1>5 DEF StopInv, Record

LEMMA StopInvariance == Spec => []StopInv
<1>1. ASSUME StopInv, UNCHANGED <<flow, pc, at, events>>
      PROVE  StopInv'
  <2>1. id' = id /\ Record(events)'
    BY <1>1 DEF id, step, StopInv, Record
  <2> QED
    BY <1>1, <2>1 DEF StopInv
<1>2. Signal \/ Tick \/ UNCHANGED allVars => UNCHANGED <<flow, pc, at, events>>
  BY DEF Signal, TaskSignal, DocumentSignal, ReplySignal, Handled, Tick, allVars, wfState
<1>3. IInv /\ StopInv /\ [Next]_allVars => StopInv'
  BY <1>1, <1>2, ProgressStops DEF Next
<1> QED
  BY <1>3, InitStops, Invariance, PTL DEF Spec

\* Over the whole history of a Case: a clock resumes only when stopped, stops only
\* when running, and while it is stopped its step neither escalates nor consumes a
\* reply.
THEOREM ClocksBracketed == Spec => []ClockStopsBracketed
<1>1. StopInv => ClockStopsBracketed
  BY RecordedStops DEF StopInv, Record
<1> QED
  BY <1>1, StopInvariance, PTL
-----------------------------------------------------------------------------
(* The account of the replies: what a drain adds to the history is counted *)
(* against what it adds to the replies drained.                            *)

LEMMA DisjointCount ==
  ASSUME NEW B, NEW C, IsFiniteSet(B), IsFiniteSet(C), B \cap C = {}
  PROVE  /\ IsFiniteSet(B \cup C)
         /\ Cardinality(B) \in Nat /\ Cardinality(C) \in Nat
         /\ Cardinality(B \cup C) = Cardinality(B) + Cardinality(C)
<1>1. Cardinality(B) \in Nat /\ Cardinality(C) \in Nat
  BY FS_CardinalityType
<1>2. IsFiniteSet(B \cup C) /\ Cardinality(B \cup C) = Cardinality(B) + Cardinality(C) - Cardinality(B \cap C)
  BY FS_Union
<1>3. Cardinality(B \cap C) = 0
  BY FS_EmptySet
<1> QED
  BY <1>1, <1>2, <1>3

LEMMA IndexCount ==
  ASSUME NEW n \in Nat, NEW A, A \subseteq 1..n
  PROVE  IsFiniteSet(A) /\ Cardinality(A) \in Nat
<1>1. IsFiniteSet(1..n)
  BY FS_Interval
<1>2. IsFiniteSet(A)
  BY <1>1, FS_Subset
<1> QED
  BY <1>2, FS_CardinalityType

\* Indices up to n + m are counted up to n, and on from there.
LEMMA ShiftCount ==
  ASSUME NEW n \in Nat, NEW m \in Nat, NEW A, A \subseteq 1..(n + m)
  PROVE  Cardinality(A)
           = Cardinality({i \in 1..n : i \in A}) + Cardinality({i \in 1..m : n + i \in A})
<1> DEFINE B == {i \in 1..n : i \in A}
           D == {i \in 1..m : n + i \in A}
           C == {k \in A : k \notin 1..n}
           f == [i \in D |-> n + i]
<1>1. IsFiniteSet(B) /\ IsFiniteSet(D)
  BY IndexCount
<1>2. n + m \in Nat /\ C \subseteq 1..(n + m)
  <2>1. n + m \in Nat
    OBVIOUS
  <2>2. C \subseteq A
    OBVIOUS
  <2> HIDE DEF C
  <2> QED
    BY <2>1, <2>2
<1>3. IsFiniteSet(C)
  <2> HIDE DEF C
  <2> QED
    BY <1>2, IndexCount
<1>4. ASSUME NEW k \in C PROVE k - n \in D /\ n + (k - n) = k
  <2>1. k \in 1..(n + m) /\ k \notin 1..n /\ k \in A
    BY <1>4
  <2>2. k - n \in 1..m /\ n + (k - n) = k
    BY <2>1
  <2> QED
    BY <2>1, <2>2
<1>5. \A i \in D : i \in Nat /\ n + i \in C
  OBVIOUS
<1>6. f \in [D -> C] /\ \A i \in D : f[i] = n + i
  BY <1>5
<1>7. \A a, b \in D : f[a] = f[b] => a = b
  BY <1>5, <1>6
<1>8. \A k \in C : \E i \in D : f[i] = k
  BY <1>4, <1>6
<1> HIDE DEF f
<1>9. ExistsBijection(D, C)
  <2> HIDE DEF C, D
  <2> QED
    BY <1>6, <1>7, <1>8, Fun_IsBij DEF ExistsBijection
<1>10. Cardinality(C) = Cardinality(D)
  <2> HIDE DEF C, D
  <2> QED
    BY <1>1, <1>9, FS_Bijection
<1>11. A = B \cup C /\ B \cap C = {}
  OBVIOUS
<1>12. Cardinality(A) = Cardinality(B) + Cardinality(C)
  <2> HIDE DEF B, C
  <2> QED
    BY <1>1, <1>3, <1>11, DisjointCount
<1> QED
  BY <1>10, <1>12

CountOver(h, e) == Cardinality({i \in 1..Len(h) : h[i] = e})

LEMMA CountJoin ==
  ASSUME NEW h \in Seq(Event), NEW t \in Seq(Event), NEW e
  PROVE  /\ CountOver(h, e) \in Nat /\ CountOver(t, e) \in Nat
         /\ CountOver(h \o t, e) = CountOver(h, e) + CountOver(t, e)
<1>1. /\ Len(h) \in Nat /\ Len(t) \in Nat /\ Len(h \o t) = Len(h) + Len(t)
      /\ \A i \in 1..Len(h) : (h \o t)[i] = h[i]
      /\ \A i \in 1..Len(t) : (h \o t)[Len(h) + i] = t[i]
  BY JoinFacts
<1> DEFINE A == {i \in 1..Len(h \o t) : (h \o t)[i] = e}
<1>2. A \subseteq 1..(Len(h) + Len(t))
  BY <1>1
<1>3. {i \in 1..Len(h) : i \in A} = {i \in 1..Len(h) : h[i] = e}
  BY <1>1
<1>4. {i \in 1..Len(t) : Len(h) + i \in A} = {i \in 1..Len(t) : t[i] = e}
  <2>1. \A i \in 1..Len(t) : Len(h) + i \in 1..Len(h \o t)
    BY <1>1
  <2> QED
    BY <1>1, <2>1
<1>5. Cardinality(A) = Cardinality({i \in 1..Len(h) : h[i] = e})
                         + Cardinality({i \in 1..Len(t) : t[i] = e})
  <2> HIDE DEF A
  <2>1. Cardinality(A) = Cardinality({i \in 1..Len(h) : i \in A})
                           + Cardinality({i \in 1..Len(t) : Len(h) + i \in A})
    BY <1>1, <1>2, ShiftCount
  <2> QED
    BY <1>3, <1>4, <2>1
<1>6. \A u \in Seq(Event) : CountOver(u, e) \in Nat
  BY IndexCount DEF CountOver
<1> QED
  BY <1>5, <1>6 DEF CountOver

LEMMA CountNone ==
  ASSUME NEW t \in Seq(Event), NEW e, \A i \in 1..Len(t) : t[i] # e
  PROVE  CountOver(t, e) = 0
<1>1. {i \in 1..Len(t) : t[i] = e} = {}
  OBVIOUS
<1> QED
  BY <1>1, FS_EmptySet DEF CountOver

Dispositions == {"external.responded", "external.dlq", "external.deduped"}

\* Events that say nothing of a reply.
Silent(t) == t \in Seq(Event) /\ \A i \in 1..Len(t) : t[i].type \notin Dispositions

NoteOf(t, s) == [type |-> t, step |-> s]

Dead(d) == {i \in 1..Len(d) : \/ ~d[i].correlated
                              \/ FirstOfItsId(d, i) /\ d[i].malformed}

\* History h accounts for the replies d that step s has drained.
Accounts(h, d, s) ==
  LET good == IF GoodReplies(d) = {} THEN 0 ELSE 1
  IN /\ CountOver(h, NoteOf("external.responded", s)) = good
     /\ CountOver(h, NoteOf("external.dlq", s)) = Cardinality(Dead(d))
     /\ CountOver(h, NoteOf("external.deduped", s)) = Len(d) - good - Cardinality(Dead(d))

LEMMA AccountsAre == RepliesAccounted <=> \A s \in StepIds : Accounts(events, Drained(s), s)
  BY DEF RepliesAccounted, Count, Accounts, CountOver, NoteOf, Dead

LEMMA SilentFacts ==
  ASSUME NEW h \in Seq(Event), NEW t, Silent(t), NEW d, NEW s, Accounts(h, d, s)
  PROVE  Accounts(h \o t, d, s) /\ h \o t \in Seq(Event)
<1>1. t \in Seq(Event)
  BY DEF Silent
<1>2. ASSUME NEW k \in Dispositions
      PROVE  CountOver(h \o t, NoteOf(k, s)) = CountOver(h, NoteOf(k, s))
  <2>1. \A i \in 1..Len(t) : t[i] # NoteOf(k, s)
    BY DEF Silent, NoteOf
  <2>2. CountOver(t, NoteOf(k, s)) = 0
    BY <1>1, <2>1, CountNone
  <2>3. /\ CountOver(h, NoteOf(k, s)) \in Nat
        /\ CountOver(h \o t, NoteOf(k, s)) = CountOver(h, NoteOf(k, s)) + CountOver(t, NoteOf(k, s))
    BY <1>1, CountJoin
  <2> QED
    BY <2>2, <2>3
<1>3. h \o t \in Seq(Event)
  BY <1>1, JoinFacts
<1> QED
  BY <1>2, <1>3 DEF Accounts, Dispositions

LEMMA SilentJoin ==
  ASSUME NEW t, NEW u, Silent(t), Silent(u)
  PROVE  Silent(t \o u)
<1>1. t \in Seq(Event) /\ u \in Seq(Event)
  BY DEF Silent
<1>2. /\ t \o u \in Seq(Event)
      /\ Len(t) \in Nat /\ Len(u) \in Nat /\ Len(t \o u) = Len(t) + Len(u)
      /\ \A i \in 1..Len(t) : (t \o u)[i] = t[i]
      /\ \A i \in 1..Len(u) : (t \o u)[Len(t) + i] = u[i]
  BY <1>1, JoinFacts
<1>3. ASSUME NEW i \in 1..Len(t \o u) PROVE (t \o u)[i].type \notin Dispositions
  <2>1. CASE i \in 1..Len(t)
    BY <1>2, <2>1 DEF Silent
  <2>2. CASE i \notin 1..Len(t)
    <3>1. i - Len(t) \in 1..Len(u) /\ i = Len(t) + (i - Len(t))
      BY <1>2, <2>2
    <3> QED
      BY <1>2, <3>1 DEF Silent
  <2> QED
    BY <2>1, <2>2
<1> QED
  BY <1>2, <1>3 DEF Silent

LEMMA SilentEvents ==
  ASSUME TypeOK, at # "done"
  PROVE  /\ Silent(<<>>)
         /\ \A t \in EventTypes \ Dispositions : Silent(<<Ev(t)>>)
         /\ Silent(<<[type |-> "case.resolved", step |-> None]>>)
<1>1. Silent(<<>>)
  BY DEF Silent
<1>2. \A e \in Event : e.type \notin Dispositions => Silent(<<e>>)
  BY DEF Silent
<1>3. ASSUME NEW t \in EventTypes \ Dispositions PROVE Silent(<<Ev(t)>>)
  <2>1. Ev(t) \in Event /\ Ev(t).type = t
    BY EventsOfStep, TypeParts DEF Ev
  <2> QED
    BY <1>2, <2>1
<1>4. Silent(<<[type |-> "case.resolved", step |-> None]>>)
  <2>1. PICK e : e = [type |-> "case.resolved", step |-> None]
    OBVIOUS
  <2>2. e \in Event /\ e.type = "case.resolved"
    BY <2>1 DEF Event, EventTypes
  <2>3. Silent(<<e>>)
    BY <1>2, <2>2 DEF Dispositions
  <2> QED
    BY <2>1, <2>3
<1> QED
  BY <1>1, <1>3, <1>4

\* One drain: the replies it takes, by what becomes of them.
DeadIn(q) == {i \in 1..Len(q) : \/ ~q[i].correlated
                                \/ ~Duplicate(q, i) /\ q[i].malformed}
ResolvingIn(q) == {i \in 1..Len(q) : Resolves(q, i)}

LEMMA DispositionFacts ==
  ASSUME NEW q \in Seq(Reply), NEW i \in 1..Len(q)
  PROVE  /\ Disposition(q, i) \in Dispositions
         /\ Disposition(q, i) = "external.responded" <=> i \in ResolvingIn(q)
         /\ Disposition(q, i) = "external.dlq" <=> i \in DeadIn(q)
         /\ ~(i \in ResolvingIn(q) /\ i \in DeadIn(q))
  BY DEF Disposition, Dispositions, ResolvingIn, DeadIn, Resolves, Acceptable

LEMMA DrainCounts ==
  ASSUME NEW q \in Seq(Reply)
  PROVE  /\ Cardinality(DeadIn(q)) \in Nat
         /\ Cardinality(ResolvingIn(q)) = (IF ResolvingIn(q) = {} THEN 0 ELSE 1)
         /\ Cardinality({i \in 1..Len(q) : Disposition(q, i) = "external.responded"})
              = Cardinality(ResolvingIn(q))
         /\ Cardinality({i \in 1..Len(q) : Disposition(q, i) = "external.dlq"})
              = Cardinality(DeadIn(q))
         /\ Cardinality({i \in 1..Len(q) : Disposition(q, i) = "external.deduped"})
              = Len(q) - Cardinality(ResolvingIn(q)) - Cardinality(DeadIn(q))
<1> DEFINE R == ResolvingIn(q)  D == DeadIn(q)
           P == {i \in 1..Len(q) : Disposition(q, i) = "external.deduped"}
<1>1. Len(q) \in Nat /\ R \subseteq 1..Len(q) /\ D \subseteq 1..Len(q) /\ P \subseteq 1..Len(q)
  BY DEF ResolvingIn, DeadIn
<1>2. \A i \in 1..Len(q) :
        /\ Disposition(q, i) \in Dispositions
        /\ Disposition(q, i) = "external.responded" <=> i \in R
        /\ Disposition(q, i) = "external.dlq" <=> i \in D
        /\ ~(i \in R /\ i \in D)
  BY DispositionFacts
<1>3. /\ {i \in 1..Len(q) : Disposition(q, i) = "external.responded"} = R
      /\ {i \in 1..Len(q) : Disposition(q, i) = "external.dlq"} = D
  <2> HIDE DEF R, D
  <2> QED
    BY <1>1, <1>2
<1>4. \A i \in 1..Len(q) : i \in P <=> Disposition(q, i) = "external.deduped"
  OBVIOUS
<1>5. Cardinality(R) = (IF R = {} THEN 0 ELSE 1)
  <2>1. ASSUME NEW i \in R, NEW j \in R PROVE i = j
    <3>1. /\ i \in Nat /\ j \in Nat /\ i \in 1..Len(q) /\ j \in 1..Len(q)
          /\ Resolves(q, i) /\ Resolves(q, j)
      BY <1>1 DEF ResolvingIn
    <3>2. ~(i \in 1..(j - 1)) /\ ~(j \in 1..(i - 1))
      BY <3>1 DEF Resolves
    <3> QED
      BY <3>1, <3>2
  <2> HIDE DEF R
  <2>2. ASSUME NEW i \in R PROVE R = {i}
    BY <2>1
  <2> QED
    BY <2>2, FS_EmptySet, FS_Singleton
<1> HIDE DEF R, D, P
<1>6. /\ IsFiniteSet(R) /\ IsFiniteSet(D) /\ IsFiniteSet(P)
      /\ Cardinality(R) \in Nat /\ Cardinality(D) \in Nat /\ Cardinality(P) \in Nat
  BY <1>1, IndexCount
<1>7. R \cap D = {} /\ (R \cup D) \cap P = {} /\ (R \cup D) \cup P = 1..Len(q)
  BY <1>1, <1>2, <1>4 DEF Dispositions
<1>8. IsFiniteSet(R \cup D) /\ Cardinality(R \cup D) = Cardinality(R) + Cardinality(D)
  BY <1>6, <1>7, DisjointCount
<1>9. Cardinality((R \cup D) \cup P) = Cardinality(R \cup D) + Cardinality(P)
  BY <1>6, <1>7, <1>8, DisjointCount
<1>10. Cardinality(1..Len(q)) = Len(q)
  BY <1>1, FS_Interval
<1>11. Len(q) = (Cardinality(R) + Cardinality(D)) + Cardinality(P)
  BY <1>7, <1>8, <1>9, <1>10
<1>12. Cardinality(P) = Len(q) - Cardinality(R) - Cardinality(D)
  BY <1>1, <1>6, <1>11
<1> QED
  BY <1>3, <1>5, <1>6, <1>12 DEF R, D, P

LEMMA DeadInHistory ==
  ASSUME NEW e, NEW d, NEW q, NEW n \in Nat, Extends(e, d, q, n), seen = MsgsOf(d)
  PROVE  /\ Cardinality(Dead(e)) = Cardinality(Dead(d)) + Cardinality(DeadIn(q))
         /\ Cardinality(Dead(d)) \in Nat
<1>1. /\ Len(q) \in Nat /\ Len(d) = n /\ Len(e) = n + Len(q)
      /\ \A i \in 1..n : d[i] = e[i]
      /\ \A i \in 1..Len(q) : q[i] = e[n + i]
      /\ \A i \in 1..Len(q) : n + i \in 1..Len(e) /\ n + i > n
  BY ExtendsFacts
<1>2. /\ \A i \in 1..n : FirstOfItsId(e, i) <=> FirstOfItsId(d, i)
      /\ \A i \in 1..Len(q) :
           FirstOfItsId(e, n + i) <=> (q[i].correlated /\ ~Duplicate(q, i))
  BY FirstInHistory
<1>3. Dead(e) \subseteq 1..(n + Len(q)) /\ Dead(d) \subseteq 1..n
  BY <1>1 DEF Dead
<1>4. \A i \in 1..n : i \in Dead(e) <=> i \in Dead(d)
  <2>1. \A i \in 1..n : i \in 1..Len(e) /\ i \in 1..Len(d)
    BY <1>1
  <2> QED
    BY <1>1, <1>2, <2>1 DEF Dead
<1>5. ASSUME NEW i \in 1..Len(q) PROVE n + i \in Dead(e) <=> i \in DeadIn(q)
  <2>1. PICK k : k = n + i
    OBVIOUS
  <2>2. k \in 1..Len(e) /\ e[k] = q[i]
    BY <1>1, <2>1
  <2>3. FirstOfItsId(e, k) <=> (q[i].correlated /\ ~Duplicate(q, i))
    BY <1>2, <2>1
  <2>4. k \in Dead(e) <=> i \in DeadIn(q)
    BY <2>2, <2>3 DEF Dead, DeadIn
  <2> QED
    BY <2>1, <2>4
<1>6. {i \in 1..n : i \in Dead(e)} = Dead(d)
  BY <1>3, <1>4
<1>7. {i \in 1..Len(q) : n + i \in Dead(e)} = DeadIn(q)
  <2>1. DeadIn(q) \subseteq 1..Len(q)
    BY DEF DeadIn
  <2> QED
    BY <1>5, <2>1
<1>8. Cardinality(Dead(e)) = Cardinality(Dead(d)) + Cardinality(DeadIn(q))
  <2>1. Cardinality(Dead(e)) = Cardinality({i \in 1..n : i \in Dead(e)})
                                 + Cardinality({i \in 1..Len(q) : n + i \in Dead(e)})
    BY <1>1, <1>3, ShiftCount
  <2> QED
    BY <1>6, <1>7, <2>1
<1> QED
  BY <1>3, <1>8, IndexCount

\* A drain leaves one disposition for each reply it takes.
LEMMA DrainAccounts ==
  ASSUME TypeOK, at # "done", NEW e, NEW d, NEW q, NEW n \in Nat, Extends(e, d, q, n),
         seen = MsgsOf(d), GoodReplies(d) = {}, responded = None,
         NEW h \in Seq(Event), NEW t \in Seq(Event), Len(t) = Len(q),
         \A i \in 1..Len(q) : t[i] = Ev(Disposition(q, i))
  PROVE  /\ h \o t \in Seq(Event)
         /\ Accounts(h, d, id) => Accounts(h \o t, e, id)
         /\ \A s : s # id => \A x : Accounts(h, x, s) => Accounts(h \o t, x, s)
<1>1. /\ Len(q) \in Nat /\ Len(d) = n /\ Len(e) = n + Len(q) /\ q \in Seq(Reply)
  BY ExtendsFacts DEF Extends
<1>2. h \o t \in Seq(Event)
  BY JoinFacts
<1>3. \A x : /\ CountOver(h, x) \in Nat /\ CountOver(t, x) \in Nat
             /\ CountOver(h \o t, x) = CountOver(h, x) + CountOver(t, x)
  BY CountJoin
<1>0. \A a, k, s : Ev(a) = NoteOf(k, s) <=> a = k /\ s = id
  BY DEF Ev, NoteOf
<1>4. ASSUME NEW s, s # id, NEW x, Accounts(h, x, s) PROVE Accounts(h \o t, x, s)
  <2>1. ASSUME NEW k \in Dispositions
        PROVE  CountOver(h \o t, NoteOf(k, s)) = CountOver(h, NoteOf(k, s))
    <3>1. \A i \in 1..Len(t) : t[i] # NoteOf(k, s)
      BY <1>0, <1>4
    <3>2. CountOver(t, NoteOf(k, s)) = 0
      BY <3>1, CountNone
    <3> QED
      BY <1>3, <3>2
  <2> QED
    BY <1>4, <2>1 DEF Accounts, Dispositions
<1>5. ASSUME NEW k \in Dispositions
      PROVE  CountOver(t, NoteOf(k, id)) = Cardinality({i \in 1..Len(q) : Disposition(q, i) = k})
  <2>1. \A i \in 1..Len(q) : t[i] = NoteOf(k, id) <=> Disposition(q, i) = k
    BY <1>0
  <2>2. {i \in 1..Len(t) : t[i] = NoteOf(k, id)} = {i \in 1..Len(q) : Disposition(q, i) = k}
    BY <2>1
  <2> QED
    BY <2>2 DEF CountOver
<1>6. /\ Cardinality(DeadIn(q)) \in Nat
      /\ Cardinality(ResolvingIn(q)) = (IF ResolvingIn(q) = {} THEN 0 ELSE 1)
      /\ CountOver(t, NoteOf("external.responded", id)) = Cardinality(ResolvingIn(q))
      /\ CountOver(t, NoteOf("external.dlq", id)) = Cardinality(DeadIn(q))
      /\ CountOver(t, NoteOf("external.deduped", id))
           = Len(q) - Cardinality(ResolvingIn(q)) - Cardinality(DeadIn(q))
  BY <1>1, <1>5, DrainCounts DEF Dispositions
<1>7. GoodReplies(e) = {} <=> ResolvingIn(q) = {}
  BY FirstResolves DEF ResolvingIn
<1>8. Cardinality(Dead(e)) = Cardinality(Dead(d)) + Cardinality(DeadIn(q)) /\ Cardinality(Dead(d)) \in Nat
  BY DeadInHistory
<1>9. ASSUME Accounts(h, d, id) PROVE Accounts(h \o t, e, id)
  <2>1. /\ CountOver(h, NoteOf("external.responded", id)) = 0
        /\ CountOver(h, NoteOf("external.dlq", id)) = Cardinality(Dead(d))
        /\ CountOver(h, NoteOf("external.deduped", id)) = n - 0 - Cardinality(Dead(d))
    BY <1>1, <1>9 DEF Accounts
  <2>2. /\ CountOver(h \o t, NoteOf("external.responded", id)) = Cardinality(ResolvingIn(q))
        /\ CountOver(h \o t, NoteOf("external.dlq", id)) = Cardinality(Dead(e))
    BY <1>3, <1>6, <1>8, <2>1
  <2>3. CountOver(h \o t, NoteOf("external.deduped", id))
          = Len(e) - Cardinality(ResolvingIn(q)) - Cardinality(Dead(e))
    <3>1. \A l, r, b, c \in Nat : (n - 0 - b) + (l - r - c) = (n + l) - r - (b + c)
      OBVIOUS
    <3>2. Cardinality(ResolvingIn(q)) \in Nat
      BY <1>6
    <3>3. CountOver(h \o t, NoteOf("external.deduped", id))
            = (n - 0 - Cardinality(Dead(d)))
                + (Len(q) - Cardinality(ResolvingIn(q)) - Cardinality(DeadIn(q)))
      BY <1>3, <1>6, <2>1
    <3>4. PICK l, r, b, c \in Nat :
            /\ l = Len(q) /\ r = Cardinality(ResolvingIn(q))
            /\ b = Cardinality(Dead(d)) /\ c = Cardinality(DeadIn(q))
      BY <1>1, <1>6, <1>8, <3>2
    <3>5. Len(e) - Cardinality(ResolvingIn(q)) - Cardinality(Dead(e)) = (n + l) - r - (b + c)
      BY <1>1, <1>8, <3>4
    <3> QED
      BY <3>1, <3>3, <3>4, <3>5
  <2> QED
    BY <1>6, <1>7, <2>2, <2>3 DEF Accounts
<1> QED
  BY <1>2, <1>4, <1>9

\* A step of the interpreter that takes no reply says nothing of one.
LEMMA SilentStep ==
  ASSUME TypeOK, RepliesAccounted, UNCHANGED <<queue, inbox>>,
         NEW t, Silent(t), events' = events \o t
  PROVE  RepliesAccounted'
<1>1. \A s \in StepIds : Drained(s)' = Drained(s)
  BY DEF Drained
<1>2. events \in Seq(Event)
  BY DEF TypeOK
<1>3. \A s \in StepIds : Accounts(events, Drained(s), s)
  BY AccountsAre
<1>4. \A s \in StepIds : Accounts(events', Drained(s), s)
  BY <1>2, <1>3, SilentFacts
<1>5. \A s \in StepIds : Accounts(events', Drained(s)', s)
  BY <1>1, <1>4
<1> QED
  BY <1>5 DEF RepliesAccounted, Count, Accounts, CountOver, NoteOf, Dead

LEMMA EndStepAccounts ==
  ASSUME TypeOK, at # "done", RepliesAccounted, UNCHANGED <<queue, inbox>>,
         NEW evs, NEW result, Silent(evs), EndStep(evs, result)
  PROVE  RepliesAccounted'
<1> DEFINE last == <<[type |-> "case.resolved", step |-> None]>>
<1>1. Silent(last)
  BY SilentEvents
<1>2. /\ events \in Seq(Event) /\ evs \in Seq(Event) /\ last \in Seq(Event)
  BY <1>1 DEF TypeOK, Silent
<1>3. events' = events \o evs \/ events' = events \o evs \o last
  BY DEF EndStep
<1> HIDE DEF last
<1>4. events \o evs \o last = events \o (evs \o last)
  BY <1>2, JoinAssociates
<1>5. Silent(evs \o last)
  BY <1>1, SilentJoin
<1> QED
  BY <1>3, <1>4, <1>5, SilentStep

LEMMA AwaitAnswerAccounts ==
  ASSUME TypeOK, at # "done", RepliesAccounted, UNCHANGED <<queue, inbox>>,
         NEW evs, NEW rem, Silent(evs), AwaitAnswer(evs, rem)
  PROVE  RepliesAccounted'
<1>1. \A t \in {"task.resolved", "document.declined", "sla.paused"} : Silent(evs \o <<Ev(t)>>)
  <2>1. \A t \in {"task.resolved", "document.declined", "sla.paused"} : Silent(<<Ev(t)>>)
    <3>1. {"task.resolved", "document.declined", "sla.paused"} \subseteq EventTypes \ Dispositions
      BY DEF EventTypes, Dispositions
    <3> QED
      BY <3>1, SilentEvents
  <2> QED
    BY <2>1, SilentJoin
<1>2. Append(evs, Ev("sla.paused")) = evs \o <<Ev("sla.paused")>>
  <2>1. Ev("sla.paused") \in Event
    BY EventsOfStep, TypeParts DEF EventTypes
  <2> QED
    BY <2>1, JoinAppend DEF Silent
<1>3. \/ \E t \in {"task.resolved", "document.declined"} :
           \E result : EndStep(evs \o <<Ev(t)>>, result)
      \/ events' = events \o evs
      \/ events' = events \o Append(evs, Ev("sla.paused"))
  BY DEF AwaitAnswer, Settle, Continue, Suspend
<1>4. ASSUME NEW t \in {"task.resolved", "document.declined"}, NEW result,
             EndStep(evs \o <<Ev(t)>>, result)
      PROVE  RepliesAccounted'
  BY <1>1, <1>4, EndStepAccounts
<1>5. CASE events' = events \o evs
  BY <1>5, SilentStep
<1>6. CASE events' = events \o Append(evs, Ev("sla.paused"))
  BY <1>1, <1>2, <1>6, SilentStep
<1> QED
  BY <1>3, <1>4, <1>5, <1>6

LEMMA AwaitReplyAccounts ==
  ASSUME TypeOK, TypeOK', ReplyInv, external, at \in {"submit", "clock", "paused"},
         RepliesAccounted, inbox' = inbox,
         NEW evs, NEW rem, Silent(evs), AwaitReply(evs, rem)
  PROVE  RepliesAccounted'
<1>1. /\ id \in StepIds /\ responded = None /\ Buffered
      /\ seen = MsgsOf(Drained(id)) /\ GoodReplies(Drained(id)) = {}
  BY LoopTop DEF ReplyInv
<1>2. CASE id \in paused
  <2>1. Ev("sla.paused") \in Event /\ Silent(<<Ev("sla.paused")>>)
    <3>1. "sla.paused" \in EventTypes \ Dispositions
      BY DEF EventTypes, Dispositions
    <3> QED
      BY <3>1, SilentEvents, EventsOfStep, TypeParts
  <2>2. Append(evs, Ev("sla.paused")) = evs \o <<Ev("sla.paused")>>
    BY <2>1, JoinAppend DEF Silent
  <2>3. queue' = queue /\ events' = events \o Append(evs, Ev("sla.paused"))
    BY <1>2 DEF AwaitReply, Suspend
  <2> QED
    BY <2>1, <2>2, <2>3, SilentJoin, SilentStep
<1>3. CASE id \notin paused
  <2> DEFINE q       == queue[id]
             drained == [i \in 1..Len(q) |-> Ev(Disposition(q, i))]
             h       == events \o evs
  <2>1. /\ queue' = [queue EXCEPT ![id] = <<>>]
        /\ events' = events \o (evs \o drained)
    BY <1>3 DEF AwaitReply, Suspend
  <2>2. q \in Seq(Reply) /\ Len(q) \in Nat
    BY <1>1 DEF TypeOK
  <2>3. \A i \in 1..Len(q) : Ev(Disposition(q, i)) \in Event
    <3>1. \A i \in 1..Len(q) : Disposition(q, i) \in EventTypes
      BY DEF Disposition, EventTypes
    <3> QED
      BY <3>1, EventsOfStep, TypeParts
  <2> HIDE DEF q
  <2>4. /\ drained \in Seq(Event) /\ Len(drained) = Len(q)
        /\ \A i \in 1..Len(q) : drained[i] = Ev(Disposition(q, i))
    <3>1. drained \in [1..Len(q) -> Event]
      BY <2>3
    <3> QED
      BY <2>2, <3>1
  <2> HIDE DEF drained
  <2>5. events \in Seq(Event) /\ evs \in Seq(Event) /\ events' = h \o drained
    <3>1. events \in Seq(Event) /\ evs \in Seq(Event)
      BY DEF TypeOK, Silent
    <3> QED
      BY <2>1, <2>4, <3>1, JoinAssociates
  <2>6. h \in Seq(Event) /\ \A s \in StepIds : Accounts(h, Drained(s), s)
    <3>1. \A s \in StepIds : Accounts(events, Drained(s), s)
      BY AccountsAre
    <3>2. h \in Seq(Event)
      BY <2>5, JoinFacts
    <3> QED
      BY <2>5, <3>1, <3>2, SilentFacts
  <2> HIDE DEF h
  <2>7. PICK me \in StepIds : me = id
    BY <1>1
  <2>8. /\ Drained(me)' = inbox[me]
        /\ \A s \in StepIds : s # me => queue'[s] = queue[s]
        /\ \E n \in Nat : Extends(inbox[me], Drained(me), q, n)
    <3>1. queue' = [queue EXCEPT ![me] = <<>>]
      BY <2>1, <2>7
    <3>2. /\ Drained(me)' = inbox[me]
          /\ \A s \in StepIds : s # me => queue'[s] = queue[s]
          /\ \E n \in Nat : Extends(inbox[me], Drained(me), queue[me], n)
      BY <1>1, <3>1, DrainAll
    <3> QED
      BY <2>7, <3>2 DEF q
  <2>9. PICK n \in Nat : Extends(inbox[me], Drained(me), q, n)
    BY <2>8
  <2>10. /\ Accounts(h, Drained(me), id) => Accounts(h \o drained, inbox[me], id)
         /\ \A s : s # id => \A x : Accounts(h, x, s) => Accounts(h \o drained, x, s)
    <3>1. seen = MsgsOf(Drained(me)) /\ GoodReplies(Drained(me)) = {}
      BY <1>1, <2>7
    <3> QED
      BY <1>1, <2>4, <2>6, <2>9, <3>1, DrainAccounts
  <2>11. ASSUME NEW s \in StepIds PROVE Accounts(events', Drained(s)', s)
    <3>1. CASE s = me
      BY <2>5, <2>6, <2>7, <2>8, <2>10, <3>1
    <3>2. CASE s # me
      <4>1. Drained(s)' = Drained(s)
        BY <2>8, <3>2 DEF Drained
      <4> QED
        BY <2>5, <2>6, <2>7, <2>10, <3>2, <4>1
    <3> QED
      BY <3>1, <3>2
  <2> QED
    BY <2>11 DEF RepliesAccounted, Count, Accounts, CountOver, NoteOf, Dead
<1> QED
  BY <1>2, <1>3

LEMMA ProgressAccounts ==
  ASSUME IInv, TypeOK', ReplyInv, RepliesAccounted, Progress
  PROVE  RepliesAccounted'
<1>1. TypeOK /\ PlaceOfType
  BY DEF IInv
<1>2. woken => at \in {"clock", "paused"}
  BY <1>1 DEF TypeOK, Awaits
<1>3. at # "done"
  BY <1>2 DEF Progress, RunDone, AssignDone, CreateDone, IssueDone, AcceptDone, SubmitDone,
              SleepDone, SettleDone, BudgetExhausted, ResumeAnswer, ResumeReply
<1>4. /\ Silent(<<>>)
      /\ \A t \in EventTypes \ Dispositions : Silent(<<Ev(t)>>)
  BY <1>1, <1>3, SilentEvents
<1>5. \A t, u \in EventTypes \ Dispositions : Silent(<<Ev(t), Ev(u)>>)
  <2>1. \A e, f \in Event : e.type \notin Dispositions /\ f.type \notin Dispositions
                              => Silent(<<e, f>>)
    BY DEF Silent
  <2>2. \A t \in EventTypes : Ev(t) \in Event /\ Ev(t).type = t
    BY <1>1, <1>3, EventsOfStep, TypeParts DEF Ev
  <2> QED
    BY <2>1, <2>2
<1>6. CASE RunDone \/ AcceptDone \/ SleepDone \/ SettleDone \/ BudgetExhausted
  <2>1. /\ UNCHANGED <<queue, inbox>>
        /\ \/ \E result : EndStep(<<>>, result)
           \/ \E result : EndStep(<<Ev("document.accepted")>>, result)
           \/ \E result : EndStep(<<Ev("document.declined")>>, result)
           \/ \E result : EndStep(<<Ev("task.escalated")>>, result)
           \/ \E result : EndStep(<<Ev("external.timeout"), Ev("external.escalated")>>, result)
    BY <1>6 DEF RunDone, AcceptDone, SleepDone, SettleDone, BudgetExhausted, buffers
  <2>2. {"document.accepted", "document.declined", "task.escalated", "external.timeout",
         "external.escalated"} \subseteq EventTypes \ Dispositions
    BY DEF EventTypes, Dispositions
  <2>3. /\ Silent(<<Ev("document.accepted")>>) /\ Silent(<<Ev("document.declined")>>)
        /\ Silent(<<Ev("task.escalated")>>)
        /\ Silent(<<Ev("external.timeout"), Ev("external.escalated")>>)
    BY <1>4, <1>5, <2>2
  <2> QED
    BY <1>1, <1>3, <1>4, <2>1, <2>3, EndStepAccounts
<1>7. CASE AssignDone
  <2>1. UNCHANGED <<queue, inbox>> /\ events' = events \o <<>>
    BY <1>7 DEF AssignDone, Continue, buffers
  <2> QED
    BY <1>1, <1>4, <2>1, SilentStep
<1>8. CASE CreateDone
  <2>1. UNCHANGED <<queue, inbox>> /\ AwaitAnswer(<<Ev("task.created"), Ev("task.assigned")>>, step.ms)
    BY <1>8 DEF CreateDone, buffers
  <2>2. {"task.created", "task.assigned"} \subseteq EventTypes \ Dispositions
    BY DEF EventTypes, Dispositions
  <2>3. Silent(<<Ev("task.created"), Ev("task.assigned")>>)
    BY <1>5, <2>2
  <2> QED
    BY <1>1, <1>3, <2>1, <2>3, AwaitAnswerAccounts
<1>9. CASE IssueDone
  <2> DEFINE issued == <<Ev("document.allocated"), Ev("document.issued"), Ev("document.delivered")>>
  <2>1. /\ UNCHANGED <<queue, inbox>>
        /\ \E fresh \in FreshIssue :
             LET evs == IF fresh THEN issued ELSE <<>>
             IN AwaitAnswer(evs, step.ms) \/ EndStep(evs, "issued")
    BY <1>9 DEF IssueDone, buffers
  <2>2. {"document.allocated", "document.issued", "document.delivered"}
          \subseteq EventTypes \ Dispositions
    BY DEF EventTypes, Dispositions
  <2>3. issued = <<Ev("document.allocated"), Ev("document.issued")>> \o <<Ev("document.delivered")>>
    OBVIOUS
  <2>4. Silent(issued)
    <3>1. /\ Silent(<<Ev("document.allocated"), Ev("document.issued")>>)
          /\ Silent(<<Ev("document.delivered")>>)
      BY <1>4, <1>5, <2>2
    <3> QED
      BY <2>3, <3>1, SilentJoin
  <2> HIDE DEF issued
  <2>5. \E evs : Silent(evs) /\ (AwaitAnswer(evs, step.ms) \/ EndStep(evs, "issued"))
    BY <1>4, <2>1, <2>4
  <2> QED
    BY <1>1, <1>3, <2>1, <2>5, AwaitAnswerAccounts, EndStepAccounts
<1>10. CASE SubmitDone
  <2>1. at = "submit" /\ inbox' = inbox /\ AwaitReply(<<Ev("external.submitted")>>, step.ms)
    BY <1>10 DEF SubmitDone
  <2>2. external
    BY <1>1, <2>1 DEF PlaceOfType, external
  <2>3. Silent(<<Ev("external.submitted")>>)
    <3>1. "external.submitted" \in EventTypes \ Dispositions
      BY DEF EventTypes, Dispositions
    <3> QED
      BY <1>4, <3>1
  <2> QED
    BY <1>1, <2>1, <2>2, <2>3, AwaitReplyAccounts
<1>11. Silent(ResumeEvents)
  <2>1. "sla.resumed" \in EventTypes \ Dispositions
    BY DEF EventTypes, Dispositions
  <2> QED
    BY <1>4, <2>1 DEF ResumeEvents
<1>12. CASE ResumeAnswer
  <2>1. UNCHANGED <<queue, inbox>> /\ AwaitAnswer(ResumeEvents, Remaining)
    BY <1>12 DEF ResumeAnswer, buffers
  <2> QED
    BY <1>1, <1>3, <1>11, <2>1, AwaitAnswerAccounts
<1>13. CASE ResumeReply
  <2>1. woken /\ external /\ inbox' = inbox /\ AwaitReply(ResumeEvents, Remaining)
    BY <1>13 DEF ResumeReply
  <2> QED
    BY <1>1, <1>2, <1>11, <2>1, AwaitReplyAccounts
<1> QED
  BY <1>6, <1>7, <1>8, <1>9, <1>10, <1>12, <1>13 DEF Progress

LEMMA InitAccounts == Init => RepliesAccounted
<1> SUFFICES ASSUME Init, NEW s \in StepIds PROVE Accounts(events, Drained(s), s)
  BY AccountsAre
<1>1. <<>> \in Seq(Reply) /\ Len(<<>>) = 0
  OBVIOUS
<1>2. Drained(s) = <<>>
  <2>1. inbox[s] = <<>> /\ queue[s] = <<>>
    BY DEF Init
  <2> QED
    BY <1>1, <2>1, WholeSequence DEF Drained
<1>3. GoodReplies(<<>>) = {} /\ Dead(<<>>) = {}
  BY <1>1 DEF GoodReplies, Dead
<1>4. PICK e \in Event : e.type = "case.created" /\ events = <<e>>
  BY DEF Init, Event, EventTypes
<1>5. events \in Seq(Event) /\ Len(events) = 1 /\ events[1] = e
  BY <1>4
<1>6. \A t \in Dispositions : CountOver(events, NoteOf(t, s)) = 0
  <2>1. \A t \in Dispositions : \A i \in 1..Len(events) : events[i] # NoteOf(t, s)
    BY <1>4, <1>5 DEF NoteOf, Dispositions
  <2> QED
    BY <1>5, <2>1, CountNone
<1>7. Cardinality({}) = 0
  BY FS_EmptySet
<1> QED
  BY <1>1, <1>2, <1>3, <1>6, <1>7 DEF Accounts, Dispositions

\* Every reply that any step has drained, over all drains of it, has left exactly one
\* disposition in the history: the response, a dead letter or a dedupe.
THEOREM EveryReplyAccounted == Spec => []RepliesAccounted
<1>1. IInv /\ TypeOK' /\ ReplyInv /\ RepliesAccounted /\ [Next]_allVars => RepliesAccounted'
  <2>1. ASSUME TypeOK, TypeOK', ReplyInv, RepliesAccounted, Signal PROVE RepliesAccounted'
    <3>1. events' = events
      BY <2>1 DEF Signal, TaskSignal, DocumentSignal, ReplySignal, Handled, wfState
    <3>2. \A s \in StepIds : Drained(s)' = Drained(s)
      BY <2>1, DrainedKept DEF ReplyInv
    <3>3. \A s \in StepIds : Accounts(events', Drained(s)', s)
      BY <2>1, <3>1, <3>2, AccountsAre
    <3> QED
      BY <3>3 DEF RepliesAccounted, Count, Accounts, CountOver, NoteOf, Dead
  <2>2. ASSUME RepliesAccounted, Tick \/ UNCHANGED allVars PROVE RepliesAccounted'
    <3>1. UNCHANGED <<events, queue, inbox>>
      BY <2>2 DEF Tick, allVars, wfState, buffers
    <3> QED
      BY <2>2, <3>1 DEF RepliesAccounted, Count, Drained
  <2> QED
    BY <2>1, <2>2, ProgressAccounts DEF Next, IInv
<1> QED
  BY <1>1, InitAccounts, ReplyInvariance, TypeCorrect, Invariance, PTL DEF Spec
-----------------------------------------------------------------------------
(* The record of a Case in progress, when no issueDocument is retried.     *)

\* An event of history h that has an origination, of every family it belongs to.
StitchedEvent(h, e) ==
  \A family \in Families :
    e.type \in family.lifecycle => e.step \in StepsOf(h, family.originated) \/ OfferPause(e)

\* A history of which only the open steps may lack a terminal event, and in which no
\* step ahead has been raised, nor one in progress that raises nothing.
Chain(h, open) ==
  /\ h \in Seq(Event)
  /\ \A i \in 1..Len(h) : StitchedEvent(h, h[i])
  /\ Dangling(h, IssuanceFamily) = {} /\ Dangling(h, NotifyFamily) = {}
  /\ Dangling(h, TaskFamily) \subseteq open
  /\ \A i \in pc..Len(flow) :
       flow[i].id \in StepsOf(h, TaskFamily.originated)
         => i = pc /\ flow[i].type \in {"human-task", "external-task"}

\* History h has the origination of the step in progress.
Raised(h) ==
  /\ step.type \in {"human-task", "external-task"} => id \in StepsOf(h, TaskFamily.originated)
  /\ step.type = "issue-document" => id \in StepsOf(h, IssuanceFamily.originated)

RecordInv ==
  /\ Chain(events, OpenSteps)
  /\ at \in {"clock", "paused", "settle", "accept"} => Raised(events)
  /\ at = "settle" => id \in StepsOf(events, TaskFamily.terminal)

LEMMA FamilyFacts ==
  /\ TaskFamily.terminal \subseteq TaskFamily.lifecycle
  /\ IssuanceFamily.terminal \subseteq IssuanceFamily.lifecycle
  /\ NotifyFamily.originated \cap EventTypes = {} /\ NotifyFamily.lifecycle \cap EventTypes = {}
  /\ (TaskFamily.originated \cup TaskFamily.lifecycle)
       \cap (IssuanceFamily.originated \cup IssuanceFamily.lifecycle) = {}
  BY DEF TaskFamily, IssuanceFamily, NotifyFamily, EventTypes

LEMMA RecordedChain ==
  ASSUME TypeOK
  PROVE  Chain(events, OpenSteps) => RecordStitches
<1> SUFFICES ASSUME Chain(events, OpenSteps), NEW family \in Families
             PROVE  /\ Dangling(events, family) \subseteq OpenSteps
                    /\ \A i \in Unstitched(events, family) : OfferPause(events[i])
  BY DEF RecordStitches
<1>1. Dangling(events, family) \subseteq OpenSteps
  BY DEF Families, Chain
<1>2. ASSUME NEW i \in Unstitched(events, family) PROVE OfferPause(events[i])
  <2>1. /\ i \in 1..Len(events) /\ events[i].type \in family.lifecycle
        /\ events[i].step \notin StepsOf(events, family.originated)
    BY DEF Unstitched
  <2> QED
    BY <2>1 DEF Chain, StitchedEvent
<1> QED
  BY <1>1, <1>2

LEMMA StepsJoin ==
  ASSUME NEW h \in Seq(Event), NEW t \in Seq(Event), NEW T
  PROVE  StepsOf(h \o t, T) = StepsOf(h, T) \cup StepsOf(t, T)
<1>1. /\ Len(h) \in Nat /\ Len(t) \in Nat /\ Len(h \o t) = Len(h) + Len(t)
      /\ \A i \in 1..Len(h) : (h \o t)[i] = h[i]
      /\ \A i \in 1..Len(t) : (h \o t)[Len(h) + i] = t[i]
  BY JoinFacts
<1>2. PICK g : g = h \o t
  OBVIOUS
<1>3. ASSUME NEW s \in StepsOf(g, T) PROVE s \in StepsOf(h, T) \cup StepsOf(t, T)
  <2>1. PICK i \in 1..Len(g) : g[i].type \in T /\ g[i].step = s
    BY DEF StepsOf
  <2>2. CASE i \in 1..Len(h)
    BY <1>1, <1>2, <2>1, <2>2 DEF StepsOf
  <2>3. CASE i \notin 1..Len(h)
    <3>1. i - Len(h) \in 1..Len(t) /\ i = Len(h) + (i - Len(h))
      BY <1>1, <1>2, <2>3
    <3>2. PICK k \in 1..Len(t) : i = Len(h) + k
      BY <3>1
    <3>3. g[i] = t[k]
      BY <1>1, <1>2, <3>2
    <3> QED
      BY <2>1, <3>3 DEF StepsOf
  <2> QED
    BY <2>2, <2>3
<1>4. ASSUME NEW s \in StepsOf(h, T) PROVE s \in StepsOf(g, T)
  <2>1. PICK i \in 1..Len(h) : h[i].type \in T /\ h[i].step = s
    BY DEF StepsOf
  <2>2. i \in 1..Len(g) /\ g[i] = h[i]
    BY <1>1, <1>2
  <2> QED
    BY <2>1, <2>2 DEF StepsOf
<1>5. ASSUME NEW s \in StepsOf(t, T) PROVE s \in StepsOf(g, T)
  <2>1. PICK i \in 1..Len(t) : t[i].type \in T /\ t[i].step = s
    BY DEF StepsOf
  <2>2. PICK k : k = Len(h) + i
    OBVIOUS
  <2>3. k \in 1..Len(g) /\ g[k] = t[i]
    BY <1>1, <1>2, <2>2
  <2> QED
    BY <2>1, <2>3 DEF StepsOf
<1> QED
  BY <1>2, <1>3, <1>4, <1>5

LEMMA StepsTail ==
  ASSUME NEW h \in Seq(Event), NEW t \in Seq(Event), NEW u \in Seq(Event), NEW T
  PROVE  StepsOf(u, T) \subseteq StepsOf(h \o (t \o u), T)
<1>1. PICK g : g = t \o u
  OBVIOUS
<1>2. g \in Seq(Event)
  BY <1>1, JoinFacts
<1>3. StepsOf(g, T) \subseteq StepsOf(h \o g, T)
  BY <1>2, StepsJoin
<1>4. StepsOf(u, T) \subseteq StepsOf(g, T)
  BY <1>1, StepsJoin
<1> QED
  BY <1>1, <1>3, <1>4

\* The events that the step in progress may note: those of its family, and of an
\* offer the stops of its clock.
OwnTypes ==
  IF step.type \in {"human-task", "external-task"}
  THEN TaskFamily.originated \cup TaskFamily.lifecycle
  ELSE IF step.type = "issue-document"
  THEN IssuanceFamily.originated \cup IssuanceFamily.lifecycle
         \cup (IF step.offer THEN {"sla.paused", "sla.resumed"} ELSE {})
  ELSE {}

Own(t) ==
  /\ t \in Seq(Event)
  /\ \A i \in 1..Len(t) : t[i].step = id /\ t[i].type \in OwnTypes
  /\ StepsOf(t, IssuanceFamily.originated) \subseteq StepsOf(t, IssuanceFamily.terminal)

LEMMA OwnStitched ==
  ASSUME TypeOK, at # "done", NEW e \in Event, e.step = id, e.type \in OwnTypes,
         NEW h, Raised(h)
  PROVE  StitchedEvent(h, e)
<1>1. pc \in 1..Len(flow) /\ flow \in Seq(Step)
  BY CurrentStep, TypeParts
<1>2. ASSUME NEW family \in Families, e.type \in family.lifecycle
      PROVE  e.step \in StepsOf(h, family.originated) \/ OfferPause(e)
  <2>1. e.type \in EventTypes
    BY DEF Event
  <2>2. CASE step.type \in {"human-task", "external-task"}
    <3>1. family = TaskFamily
      BY <1>2, <2>1, <2>2, FamilyFacts DEF Families, OwnTypes
    <3> QED
      BY <2>2, <3>1 DEF Raised
  <2>3. CASE step.type = "issue-document" /\ e.type \in {"sla.paused", "sla.resumed"} /\ step.offer
    <3>1. pc \in DOMAIN flow /\ flow[pc].id = e.step /\ flow[pc].offer
      BY <1>1, <2>3 DEF id, step
    <3> QED
      BY <2>3, <3>1 DEF OfferPause
  <2>4. CASE step.type = "issue-document" /\ ~(e.type \in {"sla.paused", "sla.resumed"} /\ step.offer)
    <3>1. e.type \in IssuanceFamily.originated \cup IssuanceFamily.lifecycle
      BY <2>4 DEF OwnTypes
    <3>2. family = IssuanceFamily
      BY <1>2, <2>1, <3>1, FamilyFacts DEF Families
    <3> QED
      BY <2>4, <3>2 DEF Raised
  <2> QED
    BY <2>2, <2>3, <2>4 DEF OwnTypes
<1> QED
  BY <1>2 DEF StitchedEvent

LEMMA StepsOfOwn ==
  ASSUME NEW t, Own(t), NEW T
  PROVE  /\ StepsOf(t, T) \subseteq {id}
         /\ StepsOf(t, T) # {} => \E u \in T : u \in OwnTypes
<1>1. ASSUME NEW s \in StepsOf(t, T) PROVE s = id /\ \E u \in T : u \in OwnTypes
  <2>1. PICK i \in 1..Len(t) : t[i].type \in T /\ t[i].step = s
    BY DEF StepsOf
  <2> QED
    BY <2>1 DEF Own
<1> QED
  BY <1>1

LEMMA RaisedJoin ==
  ASSUME NEW h \in Seq(Event), NEW t \in Seq(Event), Raised(h) \/ Raised(t)
  PROVE  Raised(h \o t)
<1>1. /\ StepsOf(h \o t, TaskFamily.originated)
           = StepsOf(h, TaskFamily.originated) \cup StepsOf(t, TaskFamily.originated)
      /\ StepsOf(h \o t, IssuanceFamily.originated)
           = StepsOf(h, IssuanceFamily.originated) \cup StepsOf(t, IssuanceFamily.originated)
  BY StepsJoin
<1> QED
  BY <1>1 DEF Raised

\* What the step in progress notes, once it has been raised, keeps the record.
LEMMA ChainJoin ==
  ASSUME TypeOK, at # "done", NEW h, Chain(h, {id}), NEW t, Own(t), Raised(h \o t)
  PROVE  Chain(h \o t, {id})
<1>1. /\ h \in Seq(Event) /\ t \in Seq(Event) /\ h \o t \in Seq(Event)
      /\ Len(h) \in Nat /\ Len(t) \in Nat /\ Len(h \o t) = Len(h) + Len(t)
      /\ \A i \in 1..Len(h) : (h \o t)[i] = h[i]
      /\ \A i \in 1..Len(t) : (h \o t)[Len(h) + i] = t[i]
  BY JoinFacts DEF Chain, Own
<1>2. PICK g : g = h \o t
  OBVIOUS
<1>3. \A T : StepsOf(g, T) = StepsOf(h, T) \cup StepsOf(t, T)
  BY <1>1, <1>2, StepsJoin
<1>4. ASSUME NEW i \in 1..Len(g) PROVE StitchedEvent(g, g[i])
  <2>1. CASE i \in 1..Len(h)
    <3>1. StitchedEvent(h, h[i]) /\ g[i] = h[i]
      BY <1>1, <1>2, <2>1 DEF Chain
    <3> QED
      BY <1>3, <3>1 DEF StitchedEvent
  <2>2. CASE i \notin 1..Len(h)
    <3>1. i - Len(h) \in 1..Len(t) /\ i = Len(h) + (i - Len(h))
      BY <1>1, <1>2, <2>2
    <3>2. PICK k \in 1..Len(t) : i = Len(h) + k
      BY <3>1
    <3>3. g[i] = t[k] /\ t[k] \in Event
      BY <1>1, <1>2, <3>2
    <3>4. g[i].step = id /\ g[i].type \in OwnTypes /\ g[i] \in Event
      BY <3>2, <3>3 DEF Own
    <3> QED
      BY <1>2, <3>4, OwnStitched
  <2> QED
    BY <2>1, <2>2
<1>5. Dangling(g, IssuanceFamily) = {}
  BY <1>3 DEF Dangling, Chain, Own
<1>6. Dangling(g, NotifyFamily) = {}
  <2>1. ASSUME NEW s \in StepsOf(g, NotifyFamily.originated) PROVE FALSE
    <3>1. PICK i \in 1..Len(g) : g[i].type \in NotifyFamily.originated
      BY DEF StepsOf
    <3>2. g[i] \in Event
      BY <1>1, <1>2
    <3> QED
      BY <3>1, <3>2, FamilyFacts DEF Event
  <2> QED
    BY <2>1 DEF Dangling
<1>7. Dangling(g, TaskFamily) \subseteq {id}
  BY <1>3, StepsOfOwn DEF Dangling, Chain
<1>8. ASSUME NEW i \in pc..Len(flow), flow[i].id \in StepsOf(g, TaskFamily.originated)
      PROVE  i = pc /\ flow[i].type \in {"human-task", "external-task"}
  <2>1. CASE flow[i].id \in StepsOf(h, TaskFamily.originated)
    BY <2>1 DEF Chain
  <2>2. CASE flow[i].id \in StepsOf(t, TaskFamily.originated)
    <3>1. flow[i].id = id /\ \E u \in TaskFamily.originated : u \in OwnTypes
      BY <2>2, StepsOfOwn
    <3>2. pc \in 1..Len(flow) /\ Len(flow) \in Nat
      BY CurrentStep, TypeParts
    <3>3. i = pc
      BY <3>1, <3>2, DistinctIds DEF id, step
    <3>4. step.type \in {"human-task", "external-task"}
      BY <3>1, FamilyFacts DEF OwnTypes, TaskFamily
    <3> QED
      BY <3>3, <3>4 DEF step
  <2> QED
    BY <1>3, <1>8, <2>1, <2>2
<1>9. Chain(g, {id})
  BY <1>1, <1>2, <1>4, <1>5, <1>6, <1>7, <1>8 DEF Chain
<1> QED
  BY <1>2, <1>9

LEMMA OwnEvents ==
  ASSUME TypeOK, at # "done"
  PROVE  /\ Own(<<>>)
         /\ \A u \in (OwnTypes \cap EventTypes) \ IssuanceFamily.originated : Own(<<Ev(u)>>)
         /\ \A u \in EventTypes : \A T : u \in T => id \in StepsOf(<<Ev(u)>>, T)
<1>1. Own(<<>>)
  <2>1. StepsOf(<<>>, IssuanceFamily.originated) = {}
    BY DEF StepsOf
  <2> QED
    BY <2>1 DEF Own
<1>2. ASSUME NEW e, e \in Event
      PROVE  <<e>> \in Seq(Event) /\ Len(<<e>>) = 1 /\ <<e>>[1] = e
  BY <1>2
<1>3. ASSUME NEW u \in EventTypes
      PROVE  Ev(u) \in Event /\ Ev(u).type = u /\ Ev(u).step = id
  BY EventsOfStep, TypeParts DEF Ev
<1>4. ASSUME NEW u \in (OwnTypes \cap EventTypes) \ IssuanceFamily.originated
      PROVE  Own(<<Ev(u)>>)
  <2>1. PICK t : t = <<Ev(u)>>
    OBVIOUS
  <2>2. t \in Seq(Event) /\ \A i \in 1..Len(t) : t[i].type = u /\ t[i].step = id
    BY <1>2, <1>3, <2>1
  <2>3. StepsOf(t, IssuanceFamily.originated) = {}
    BY <2>2 DEF StepsOf
  <2>4. Own(t)
    BY <2>2, <2>3 DEF Own
  <2> QED
    BY <2>1, <2>4
<1>5. ASSUME NEW u \in EventTypes, NEW T, u \in T PROVE id \in StepsOf(<<Ev(u)>>, T)
  <2>1. PICK t : t = <<Ev(u)>>
    OBVIOUS
  <2>2. 1 \in 1..Len(t) /\ t[1].type = u /\ t[1].step = id
    BY <1>2, <1>3, <2>1
  <2>3. id \in StepsOf(t, T)
    BY <1>5, <2>2 DEF StepsOf
  <2> QED
    BY <2>1, <2>3
<1> QED
  BY <1>1, <1>4, <1>5

LEMMA OwnJoin ==
  ASSUME NEW t, Own(t), NEW u, Own(u)
  PROVE  Own(t \o u)
<1>1. /\ t \in Seq(Event) /\ u \in Seq(Event) /\ t \o u \in Seq(Event)
      /\ Len(t) \in Nat /\ Len(u) \in Nat /\ Len(t \o u) = Len(t) + Len(u)
      /\ \A i \in 1..Len(t) : (t \o u)[i] = t[i]
      /\ \A i \in 1..Len(u) : (t \o u)[Len(t) + i] = u[i]
  BY JoinFacts DEF Own
<1>2. PICK g : g = t \o u
  OBVIOUS
<1>3. \A T : StepsOf(g, T) = StepsOf(t, T) \cup StepsOf(u, T)
  BY <1>1, <1>2, StepsJoin
<1>4. ASSUME NEW i \in 1..Len(g) PROVE g[i].step = id /\ g[i].type \in OwnTypes
  <2>1. CASE i \in 1..Len(t)
    BY <1>1, <1>2, <2>1 DEF Own
  <2>2. CASE i \notin 1..Len(t)
    <3>1. i - Len(t) \in 1..Len(u) /\ i = Len(t) + (i - Len(t))
      BY <1>1, <1>2, <2>2
    <3>2. PICK k \in 1..Len(u) : i = Len(t) + k
      BY <3>1
    <3>3. g[i] = u[k]
      BY <1>1, <1>2, <3>2
    <3> QED
      BY <3>2, <3>3 DEF Own
  <2> QED
    BY <2>1, <2>2
<1>5. StepsOf(g, IssuanceFamily.originated) \subseteq StepsOf(g, IssuanceFamily.terminal)
  BY <1>3 DEF Own
<1>6. Own(g)
  BY <1>1, <1>2, <1>4, <1>5 DEF Own
<1> QED
  BY <1>2, <1>6

\* Once the step in progress is settled nothing dangles, and nothing ahead is raised.
LEMMA ChainClosed ==
  ASSUME TypeOK, at # "done", NEW h, Chain(h, {id}),
         step.type \in {"human-task", "external-task"} => id \in StepsOf(h, TaskFamily.terminal)
  PROVE  /\ Dangling(h, TaskFamily) = {}
         /\ \A i \in (pc + 1)..Len(flow) : flow[i].id \notin StepsOf(h, TaskFamily.originated)
<1>1. pc \in 1..Len(flow) /\ Len(flow) \in Nat
  BY CurrentStep, TypeParts
<1>2. id \in StepsOf(h, TaskFamily.originated) => step.type \in {"human-task", "external-task"}
  <2>1. pc \in pc..Len(flow)
    BY <1>1
  <2> QED
    BY <2>1 DEF Chain, id, step
<1>3. Dangling(h, TaskFamily) = {}
  BY <1>2 DEF Chain, Dangling
<1>4. ASSUME NEW i \in (pc + 1)..Len(flow)
      PROVE  flow[i].id \notin StepsOf(h, TaskFamily.originated)
  <2>1. i \in pc..Len(flow) /\ i # pc
    BY <1>1
  <2> QED
    BY <2>1 DEF Chain
<1> QED
  BY <1>3, <1>4

LEMMA ResolvedIsStitched ==
  ASSUME NEW h \in Seq(Event), NEW e \in Event, e.type = "case.resolved"
  PROVE  /\ \A family \in Families :
              /\ StepsOf(h \o <<e>>, family.originated) = StepsOf(h, family.originated)
              /\ StepsOf(h \o <<e>>, family.terminal) = StepsOf(h, family.terminal)
         /\ (\A i \in 1..Len(h) : StitchedEvent(h, h[i]))
              => \A i \in 1..Len(h \o <<e>>) : StitchedEvent(h \o <<e>>, (h \o <<e>>)[i])
<1>1. PICK t : t = <<e>>
  OBVIOUS
<1>2. t \in Seq(Event) /\ Len(t) = 1 /\ t[1] = e
  BY <1>1
<1>3. PICK g : g = h \o t
  OBVIOUS
<1>4. /\ Len(h) \in Nat /\ Len(g) = Len(h) + 1
      /\ \A i \in 1..Len(h) : g[i] = h[i]
      /\ g[Len(h) + 1] = e
  <2>1. /\ Len(h) \in Nat /\ Len(g) = Len(h) + Len(t)
        /\ \A i \in 1..Len(h) : g[i] = h[i]
        /\ \A i \in 1..Len(t) : g[Len(h) + i] = t[i]
    BY <1>2, <1>3, JoinFacts
  <2>2. 1 \in 1..Len(t)
    BY <1>2
  <2> QED
    BY <1>2, <2>1, <2>2
<1>5. ASSUME NEW family \in Families
      PROVE  /\ "case.resolved" \notin family.originated \cup family.terminal \cup family.lifecycle
             /\ StepsOf(g, family.originated) = StepsOf(h, family.originated)
             /\ StepsOf(g, family.terminal) = StepsOf(h, family.terminal)
  <2>1. "case.resolved" \notin family.originated \cup family.terminal \cup family.lifecycle
    BY DEF Families, TaskFamily, IssuanceFamily, NotifyFamily
  <2>2. \A T : "case.resolved" \notin T => StepsOf(t, T) = {}
    BY <1>2 DEF StepsOf
  <2>3. \A T : StepsOf(g, T) = StepsOf(h, T) \cup StepsOf(t, T)
    BY <1>2, <1>3, StepsJoin
  <2> QED
    BY <2>1, <2>2, <2>3
<1>6. ASSUME \A i \in 1..Len(h) : StitchedEvent(h, h[i]), NEW i \in 1..Len(g)
      PROVE  StitchedEvent(g, g[i])
  <2>1. CASE i \in 1..Len(h)
    BY <1>4, <1>5, <1>6, <2>1 DEF StitchedEvent
  <2>2. CASE i \notin 1..Len(h)
    <3>1. g[i] = e
      BY <1>4, <2>2
    <3> QED
      BY <1>5, <3>1 DEF StitchedEvent
  <2> QED
    BY <2>1, <2>2
<1> QED
  BY <1>1, <1>3, <1>5, <1>6

\* A step that ends leaves a record in which nothing is open.
LEMMA EndStepRecord ==
  ASSUME TypeOK, at # "done", Chain(events, {id}), NEW evs, NEW result, Own(evs),
         Raised(events \o evs), EndStep(evs, result),
         step.type \in {"human-task", "external-task"}
           => id \in StepsOf(events \o evs, TaskFamily.terminal)
  PROVE  RecordInv'
<1>1. pc \in 1..Len(flow) /\ flow \in Seq(Step) /\ Len(flow) \in Nat
  BY CurrentStep, TypeParts
<1>2. pc' = pc + 1 /\ flow' = flow
  BY DEF EndStep
<1>3. PICK h : h = events \o evs
  OBVIOUS
<1>4. Chain(h, {id})
  BY <1>3, ChainJoin
<1>5. /\ Dangling(h, TaskFamily) = {}
      /\ \A i \in (pc + 1)..Len(flow) : flow[i].id \notin StepsOf(h, TaskFamily.originated)
  BY <1>3, <1>4, ChainClosed
<1>6. /\ h \in Seq(Event) /\ \A i \in 1..Len(h) : StitchedEvent(h, h[i])
      /\ Dangling(h, IssuanceFamily) = {} /\ Dangling(h, NotifyFamily) = {}
  BY <1>4 DEF Chain
<1>7. CASE pc = Len(flow)
  <2>1. PICK e \in Event : e.type = "case.resolved" /\ events' = h \o <<e>> /\ at' = "done"
    BY <1>3, <1>7 DEF EndStep, Event, EventTypes
  <2>2. PICK g : g = h \o <<e>>
    OBVIOUS
  <2>3. /\ g \in Seq(Event) /\ \A i \in 1..Len(g) : StitchedEvent(g, g[i])
        /\ \A family \in Families : Dangling(g, family) = Dangling(h, family)
    BY <1>6, <2>1, <2>2, ResolvedIsStitched DEF Dangling
  <2>4. /\ Dangling(g, IssuanceFamily) = {} /\ Dangling(g, NotifyFamily) = {}
        /\ Dangling(g, TaskFamily) = {}
    BY <1>5, <1>6, <2>3 DEF Families
  <2>5. pc'..Len(flow') = {}
    BY <1>1, <1>2, <1>7
  <2>6. \A i \in 1..Len(g) : StitchedEvent(g, g[i])'
    BY <1>2, <2>3 DEF StitchedEvent, OfferPause
  <2>7. events' = g /\ at' = "done"
    BY <2>1, <2>2
  <2>8. Chain(events, OpenSteps)'
    BY <2>3, <2>4, <2>5, <2>6, <2>7 DEF Chain
  <2> QED
    BY <2>7, <2>8 DEF RecordInv
<1>8. CASE pc # Len(flow)
  <2>1. events' = h /\ at' = FirstAwait(flow[pc + 1])
    BY <1>3, <1>8 DEF EndStep
  <2>2. flow[pc + 1] \in Step
    BY <1>1, <1>8
  <2>3. at' \notin {"clock", "paused", "settle", "accept"}
    BY <2>1, <2>2, FirstPlaceOfType
  <2>4. \A i \in 1..Len(h) : StitchedEvent(h, h[i])'
    BY <1>2, <1>6 DEF StitchedEvent, OfferPause
  <2>5. Chain(events, OpenSteps)'
    BY <1>2, <1>5, <1>6, <2>1, <2>4 DEF Chain
  <2> QED
    BY <2>3, <2>5 DEF RecordInv
<1> QED
  BY <1>7, <1>8

\* A step that goes on leaves only itself open.
LEMMA OnwardRecord ==
  ASSUME at # "done", Chain(events', {id}), UNCHANGED <<flow, pc>>, at' # "done",
         at' \in {"clock", "paused", "settle", "accept"} => Raised(events'),
         at' = "settle" => id \in StepsOf(events', TaskFamily.terminal)
  PROVE  RecordInv'
<1>1. id' = id /\ step' = step
  BY DEF id, step
<1>2. \A h : \A e : StitchedEvent(h, e) => StitchedEvent(h, e)'
  BY DEF StitchedEvent, OfferPause
<1>3. Chain(events, OpenSteps)'
  BY <1>1, <1>2 DEF Chain, OpenSteps
<1>4. Raised(events') => Raised(events)'
  BY <1>1 DEF Raised
<1> QED
  BY <1>1, <1>3, <1>4 DEF RecordInv

\* The opening events of a loop: with them the step has been raised.
OpensOwn(evs) == Own(evs) /\ Raised(events \o evs)

LEMMA AwaitAnswerRecord ==
  ASSUME TypeOK, at # "done", RecordInv, NEW evs, NEW rem, AwaitAnswer(evs, rem),
         step.type \in {"human-task", "issue-document"},
         step.type = "issue-document" => step.offer,
         OpensOwn(evs)
  PROVE  RecordInv'
<1>1. Chain(events, {id}) /\ events \in Seq(Event) /\ evs \in Seq(Event)
  BY DEF RecordInv, OpenSteps, TypeOK, OpensOwn, Own
<1>2. ASSUME NEW u \in {"sla.paused", "task.resolved", "document.declined"}, u \in OwnTypes
      PROVE  /\ Ev(u) \in Event /\ Own(evs \o <<Ev(u)>>)
             /\ Raised(events \o (evs \o <<Ev(u)>>))
             /\ Append(evs, Ev(u)) = evs \o <<Ev(u)>>
  <2>1. u \in (OwnTypes \cap EventTypes) \ IssuanceFamily.originated
    BY <1>2 DEF EventTypes, IssuanceFamily
  <2>2. Ev(u) \in Event
    BY <2>1, EventsOfStep, TypeParts
  <2>3. Own(<<Ev(u)>>)
    BY <2>1, OwnEvents
  <2>4. <<Ev(u)>> \in Seq(Event)
    BY <2>2
  <2>5. events \o (evs \o <<Ev(u)>>) = (events \o evs) \o <<Ev(u)>>
    BY <1>1, <2>4, JoinAssociates
  <2>6. Raised((events \o evs) \o <<Ev(u)>>)
    BY <1>1, <2>4, RaisedJoin, JoinFacts DEF OpensOwn
  <2> QED
    BY <1>1, <2>2, <2>3, <2>5, <2>6, OwnJoin, JoinAppend DEF OpensOwn
<1>3. CASE Answered /\ step.type = "human-task"
  <2>1. EndStep(evs \o <<Ev("task.resolved")>>, "resolved")
    BY <1>3 DEF AwaitAnswer, Settle
  <2>2. "task.resolved" \in OwnTypes \cap EventTypes /\ "task.resolved" \in TaskFamily.terminal
    BY <1>3 DEF OwnTypes, TaskFamily, EventTypes
  <2>3. id \in StepsOf(<<Ev("task.resolved")>>, TaskFamily.terminal)
    BY <2>2, OwnEvents
  <2>4. /\ Own(evs \o <<Ev("task.resolved")>>)
        /\ Raised(events \o (evs \o <<Ev("task.resolved")>>))
        /\ <<Ev("task.resolved")>> \in Seq(Event)
    BY <1>2, <2>2
  <2>5. id \in StepsOf(events \o (evs \o <<Ev("task.resolved")>>), TaskFamily.terminal)
    BY <1>1, <2>3, <2>4, StepsTail
  <2> QED
    BY <1>1, <2>1, <2>4, <2>5, EndStepRecord
<1>4. CASE Answered /\ step.type = "issue-document"
  <2>1. CASE Continue("accept", evs)
    <3>1. Chain(events \o evs, {id})
      BY <1>1, ChainJoin DEF OpensOwn
    <3> QED
      BY <2>1, <3>1, OnwardRecord DEF Continue, OpensOwn
  <2>2. CASE EndStep(evs \o <<Ev("document.declined")>>, "declined")
    <3>1. "document.declined" \in OwnTypes
      BY <1>4 DEF OwnTypes, IssuanceFamily
    <3>2. /\ Own(evs \o <<Ev("document.declined")>>)
          /\ Raised(events \o (evs \o <<Ev("document.declined")>>))
      BY <1>2, <3>1
    <3> QED
      BY <1>1, <1>4, <2>2, <3>2, EndStepRecord
  <2> QED
    BY <1>4, <2>1, <2>2 DEF AwaitAnswer, Settle
<1>5. CASE ~Answered
  <2>1. CASE Suspend("paused", Append(evs, Ev("sla.paused")), rem)
    <3>1. "sla.paused" \in OwnTypes
      BY DEF OwnTypes, TaskFamily
    <3>2. /\ Own(Append(evs, Ev("sla.paused")))
          /\ Raised(events \o Append(evs, Ev("sla.paused")))
      BY <1>2, <3>1
    <3>3. Chain(events \o Append(evs, Ev("sla.paused")), {id})
      BY <1>1, <3>2, ChainJoin
    <3> QED
      BY <2>1, <3>2, <3>3, OnwardRecord DEF Suspend
  <2>2. CASE Suspend("clock", evs, rem)
    <3>1. Chain(events \o evs, {id})
      BY <1>1, ChainJoin DEF OpensOwn
    <3> QED
      BY <2>2, <3>1, OnwardRecord DEF Suspend, OpensOwn
  <2> QED
    BY <1>5, <2>1, <2>2 DEF AwaitAnswer
<1> QED
  BY <1>3, <1>4, <1>5

LEMMA AwaitReplyRecord ==
  ASSUME TypeOK, at # "done", RecordInv, NEW evs, NEW rem, AwaitReply(evs, rem),
         step.type = "external-task", OpensOwn(evs)
  PROVE  RecordInv'
<1>1. Chain(events, {id}) /\ events \in Seq(Event) /\ evs \in Seq(Event)
  BY DEF RecordInv, OpenSteps, TypeOK, OpensOwn, Own
<1>2. CASE id \in paused
  <2>1. Suspend("paused", Append(evs, Ev("sla.paused")), rem)
    BY <1>2 DEF AwaitReply
  <2>2. "sla.paused" \in (OwnTypes \cap EventTypes) \ IssuanceFamily.originated
    BY DEF OwnTypes, TaskFamily, IssuanceFamily, EventTypes
  <2>3. Ev("sla.paused") \in Event /\ Own(<<Ev("sla.paused")>>)
    BY <2>2, OwnEvents, EventsOfStep, TypeParts
  <2>4. PICK t : t = Append(evs, Ev("sla.paused"))
    OBVIOUS
  <2>5. t = evs \o <<Ev("sla.paused")>> /\ <<Ev("sla.paused")>> \in Seq(Event)
    BY <1>1, <2>3, <2>4, JoinAppend
  <2>6. Own(t)
    BY <2>3, <2>5, OwnJoin DEF OpensOwn
  <2>7. Raised(events \o t)
    <3>1. events \o t = (events \o evs) \o <<Ev("sla.paused")>>
      BY <1>1, <2>5, JoinAssociates
    <3> QED
      BY <1>1, <2>5, <3>1, RaisedJoin, JoinFacts DEF OpensOwn
  <2>8. Chain(events \o t, {id})
    BY <1>1, <2>6, <2>7, ChainJoin
  <2> QED
    BY <2>1, <2>4, <2>7, <2>8, OnwardRecord DEF Suspend
<1>3. CASE id \notin paused
  <2> DEFINE q       == queue[id]
             drained == [i \in 1..Len(q) |-> Ev(Disposition(q, i))]
  <2>1. /\ UNCHANGED <<flow, pc>> /\ at' \in {"settle", "clock"}
        /\ events' = events \o (evs \o drained)
        /\ at' = "settle" => \E i \in 1..Len(q) : Resolves(q, i)
    BY <1>3 DEF AwaitReply, Suspend
  <2>2. Len(q) \in Nat
    <3>1. q \in Seq(Reply)
      BY CurrentStep, TypeParts DEF TypeOK
    <3> QED
      BY <3>1
  <2>3. ASSUME NEW i \in 1..Len(q)
        PROVE  /\ Ev(Disposition(q, i)) \in Event /\ Ev(Disposition(q, i)).step = id
               /\ Ev(Disposition(q, i)).type \in OwnTypes \ IssuanceFamily.originated
               /\ Resolves(q, i) => Ev(Disposition(q, i)).type \in TaskFamily.terminal
    <3>1. Disposition(q, i) \in {"external.dlq", "external.deduped", "external.responded"}
      BY DEF Disposition
    <3>2. /\ Disposition(q, i) \in EventTypes
          /\ Disposition(q, i) \in OwnTypes \ IssuanceFamily.originated
      BY <3>1 DEF EventTypes, OwnTypes, TaskFamily, IssuanceFamily
    <3>3. Ev(Disposition(q, i)) \in Event
      BY <3>2, EventsOfStep, TypeParts
    <3>4. /\ Ev(Disposition(q, i)).step = id
          /\ Ev(Disposition(q, i)).type = Disposition(q, i)
      BY DEF Ev
    <3>5. Resolves(q, i) => Disposition(q, i) = "external.responded"
      BY DEF Disposition, Resolves, Acceptable
    <3>6. "external.responded" \in TaskFamily.terminal
      BY DEF TaskFamily
    <3> QED
      BY <3>2, <3>3, <3>4, <3>5, <3>6
  <2> HIDE DEF q
  <2>4. drained \in Seq(Event) /\ Len(drained) = Len(q)
        /\ \A i \in 1..Len(q) : drained[i] = Ev(Disposition(q, i))
    <3>1. drained \in [1..Len(q) -> Event]
      BY <2>3
    <3> QED
      BY <2>2, <3>1
  <2> HIDE DEF drained
  <2>5. Own(drained)
    <3>1. StepsOf(drained, IssuanceFamily.originated) = {}
      BY <2>3, <2>4 DEF StepsOf
    <3> QED
      BY <2>3, <2>4, <3>1 DEF Own
  <2>6. at' = "settle" => id \in StepsOf(drained, TaskFamily.terminal)
    BY <2>1, <2>3, <2>4 DEF StepsOf
  <2>7. PICK t : t = evs \o drained
    OBVIOUS
  <2>8. Own(t) /\ events \o t = (events \o evs) \o drained
    BY <1>1, <2>4, <2>5, <2>7, OwnJoin, JoinAssociates DEF OpensOwn
  <2>9. Raised(events \o t) /\ events \o evs \in Seq(Event)
    BY <1>1, <2>4, <2>8, RaisedJoin, JoinFacts DEF OpensOwn
  <2>10. Chain(events \o t, {id})
    BY <1>1, <2>8, <2>9, ChainJoin
  <2>11. at' = "settle" => id \in StepsOf(events \o t, TaskFamily.terminal)
    BY <1>1, <2>4, <2>6, <2>7, StepsTail
  <2>12. events' = events \o t
    BY <2>1, <2>7
  <2> QED
    BY <2>1, <2>9, <2>10, <2>11, <2>12, OnwardRecord
<1> QED
  BY <1>2, <1>3

\* The events with which the steps open: they have their origination.
LEMMA OpeningEvents ==
  ASSUME TypeOK, at # "done"
  PROVE  /\ step.type = "human-task"
              => OpensOwn(<<Ev("task.created"), Ev("task.assigned")>>)
         /\ step.type = "external-task" => OpensOwn(<<Ev("external.submitted")>>)
         /\ step.type = "issue-document"
              => OpensOwn(<<Ev("document.allocated"), Ev("document.issued"),
                            Ev("document.delivered")>>)
<1>1. events \in Seq(Event)
  BY DEF TypeOK
<1>2. ASSUME NEW t \in Seq(Event), Raised(t) PROVE Raised(events \o t)
  BY <1>1, <1>2, RaisedJoin
<1>3. \A e, f, g \in Event : /\ <<e, f>> \in Seq(Event) /\ Len(<<e, f>>) = 2
                             /\ <<e, f>>[1] = e /\ <<e, f>>[2] = f
                             /\ <<e, f, g>> \in Seq(Event) /\ Len(<<e, f, g>>) = 3
                             /\ <<e, f, g>>[1] = e /\ <<e, f, g>>[2] = f
                             /\ <<e, f, g>>[3] = g
  OBVIOUS
<1>4. \A u \in EventTypes : Ev(u) \in Event /\ Ev(u).type = u /\ Ev(u).step = id
  BY EventsOfStep, TypeParts DEF Ev
<1>5. ASSUME step.type = "human-task"
      PROVE  OpensOwn(<<Ev("task.created"), Ev("task.assigned")>>)
  <2>1. PICK t : t = <<Ev("task.created"), Ev("task.assigned")>>
    OBVIOUS
  <2>2. {"task.created", "task.assigned"} \subseteq EventTypes
    BY DEF EventTypes
  <2>3. PICK e, f : e = Ev("task.created") /\ f = Ev("task.assigned")
    OBVIOUS
  <2>4. /\ e \in Event /\ e.type = "task.created" /\ e.step = id
        /\ f \in Event /\ f.type = "task.assigned" /\ f.step = id
    BY <1>4, <2>2, <2>3
  <2>5. t = <<e, f>>
    BY <2>1, <2>3
  <2>6. t \in Seq(Event) /\ Len(t) = 2 /\ t[1] = e /\ t[2] = f
    BY <1>3, <2>4, <2>5
  <2>7. ASSUME NEW i \in 1..Len(t)
        PROVE  t[i].step = id /\ t[i].type \in {"task.created", "task.assigned"}
    <3>1. i = 1 \/ i = 2
      BY <2>6
    <3> QED
      BY <2>4, <2>6, <3>1
  <2>8. {"task.created", "task.assigned"} \subseteq OwnTypes \ IssuanceFamily.originated
    BY <1>5 DEF OwnTypes, TaskFamily, IssuanceFamily
  <2>9. StepsOf(t, IssuanceFamily.originated) = {}
    BY <2>7, <2>8 DEF StepsOf
  <2>10. Own(t)
    BY <2>6, <2>7, <2>8, <2>9 DEF Own
  <2>11. id \in StepsOf(t, TaskFamily.originated)
    <3>1. 1 \in 1..Len(t) /\ t[1].type \in TaskFamily.originated
      BY <2>4, <2>6 DEF TaskFamily
    <3> QED
      BY <2>7, <3>1 DEF StepsOf
  <2>12. Raised(t)
    BY <1>5, <2>11 DEF Raised
  <2>13. OpensOwn(t)
    BY <1>2, <2>6, <2>10, <2>12 DEF OpensOwn
  <2> QED
    BY <2>1, <2>13
<1>6. ASSUME step.type = "external-task" PROVE OpensOwn(<<Ev("external.submitted")>>)
  <2>1. /\ "external.submitted" \in (OwnTypes \cap EventTypes) \ IssuanceFamily.originated
        /\ "external.submitted" \in TaskFamily.originated
    BY <1>6 DEF OwnTypes, TaskFamily, IssuanceFamily, EventTypes
  <2>2. /\ Own(<<Ev("external.submitted")>>)
        /\ id \in StepsOf(<<Ev("external.submitted")>>, TaskFamily.originated)
    BY <2>1, OwnEvents
  <2>3. PICK t : t = <<Ev("external.submitted")>>
    OBVIOUS
  <2>4. t \in Seq(Event) /\ Raised(t)
    BY <1>6, <2>2, <2>3 DEF Own, Raised
  <2>5. OpensOwn(t)
    BY <1>2, <2>2, <2>3, <2>4 DEF OpensOwn
  <2> QED
    BY <2>3, <2>5
<1>7. ASSUME step.type = "issue-document"
      PROVE  OpensOwn(<<Ev("document.allocated"), Ev("document.issued"),
                        Ev("document.delivered")>>)
  <2>1. PICK t : t = <<Ev("document.allocated"), Ev("document.issued"),
                       Ev("document.delivered")>>
    OBVIOUS
  <2>2. {"document.allocated", "document.issued", "document.delivered"} \subseteq EventTypes
    BY DEF EventTypes
  <2>3. PICK e, f, g : /\ e = Ev("document.allocated") /\ f = Ev("document.issued")
                       /\ g = Ev("document.delivered")
    OBVIOUS
  <2>4. /\ e \in Event /\ e.type = "document.allocated" /\ e.step = id
        /\ f \in Event /\ f.type = "document.issued" /\ f.step = id
        /\ g \in Event /\ g.type = "document.delivered" /\ g.step = id
    BY <1>4, <2>2, <2>3
  <2>5. t = <<e, f, g>>
    BY <2>1, <2>3
  <2>6. t \in Seq(Event) /\ Len(t) = 3 /\ t[1] = e /\ t[2] = f /\ t[3] = g
    BY <1>3, <2>4, <2>5
  <2>7. ASSUME NEW i \in 1..Len(t)
        PROVE  t[i].step = id /\ t[i].type \in IssuanceFamily.originated \cup IssuanceFamily.lifecycle
    <3>1. i = 1 \/ i = 2 \/ i = 3
      BY <2>6
    <3> QED
      BY <2>4, <2>6, <3>1 DEF IssuanceFamily
  <2>8. /\ id \in StepsOf(t, IssuanceFamily.originated)
        /\ id \in StepsOf(t, IssuanceFamily.terminal)
    <3>1. 1 \in 1..Len(t) /\ 3 \in 1..Len(t)
      BY <2>6
    <3>2. t[1].type \in IssuanceFamily.originated /\ t[3].type \in IssuanceFamily.terminal
      BY <2>4, <2>6 DEF IssuanceFamily
    <3> QED
      BY <2>7, <3>1, <3>2 DEF StepsOf
  <2>9. StepsOf(t, IssuanceFamily.originated) \subseteq StepsOf(t, IssuanceFamily.terminal)
    <3>1. StepsOf(t, IssuanceFamily.originated) \subseteq {id}
      BY <2>7 DEF StepsOf
    <3> QED
      BY <2>8, <3>1
  <2>10. Own(t)
    BY <1>7, <2>6, <2>7, <2>9 DEF Own, OwnTypes
  <2>11. Raised(t)
    BY <1>7, <2>8 DEF Raised
  <2>12. OpensOwn(t)
    BY <1>2, <2>6, <2>10, <2>11 DEF OpensOwn
  <2> QED
    BY <2>1, <2>12
<1> QED
  BY <1>5, <1>6, <1>7

\* A delegation that runs out of budget is settled by its escalation.
LEMMA TimeoutEvents ==
  ASSUME TypeOK, at # "done", step.type = "external-task",
         NEW t, t = <<Ev("external.timeout"), Ev("external.escalated")>>
  PROVE  Own(t) /\ id \in StepsOf(t, TaskFamily.terminal)
<1>1. \A u \in EventTypes : Ev(u) \in Event /\ Ev(u).type = u /\ Ev(u).step = id
  BY EventsOfStep, TypeParts DEF Ev
<1>2. {"external.timeout", "external.escalated"} \subseteq EventTypes
  BY DEF EventTypes
<1>3. PICK e, f : e = Ev("external.timeout") /\ f = Ev("external.escalated")
  OBVIOUS
<1>4. /\ e \in Event /\ e.type = "external.timeout" /\ e.step = id
      /\ f \in Event /\ f.type = "external.escalated" /\ f.step = id
  BY <1>1, <1>2, <1>3
<1>5. t = <<e, f>>
  BY <1>3
<1>6. t \in Seq(Event) /\ Len(t) = 2 /\ t[1] = e /\ t[2] = f
  BY <1>4, <1>5
<1>7. ASSUME NEW i \in 1..Len(t)
      PROVE  t[i].step = id /\ t[i].type \in {"external.timeout", "external.escalated"}
  <2>1. i = 1 \/ i = 2
    BY <1>6
  <2> QED
    BY <1>4, <1>6, <2>1
<1>8. {"external.timeout", "external.escalated"} \subseteq OwnTypes \ IssuanceFamily.originated
  BY DEF OwnTypes, TaskFamily, IssuanceFamily
<1>9. StepsOf(t, IssuanceFamily.originated) = {}
  BY <1>7, <1>8 DEF StepsOf
<1>10. Own(t)
  BY <1>6, <1>7, <1>8, <1>9 DEF Own
<1>11. 2 \in 1..Len(t) /\ t[2].type \in TaskFamily.terminal
  BY <1>4, <1>6 DEF TaskFamily
<1> QED
  BY <1>7, <1>10, <1>11 DEF StepsOf

\* A loop that goes round again opens with the note of a resumed clock, or nothing.
LEMMA ResumingEvents ==
  ASSUME TypeOK, at \in {"clock", "paused"}, RecordInv, Waits(step)
  PROVE  OpensOwn(ResumeEvents)
<1>1. Raised(events) /\ at # "done" /\ events \in Seq(Event)
  BY DEF RecordInv, TypeOK
<1>2. "sla.resumed" \in (OwnTypes \cap EventTypes) \ IssuanceFamily.originated
  BY DEF Waits, OwnTypes, TaskFamily, IssuanceFamily, EventTypes
<1>3. Own(<<>>) /\ Own(<<Ev("sla.resumed")>>)
  BY <1>1, <1>2, OwnEvents
<1>4. Own(ResumeEvents)
  BY <1>3 DEF ResumeEvents
<1>5. Raised(events \o ResumeEvents)
  BY <1>1, <1>4, RaisedJoin DEF Own
<1> QED
  BY <1>4, <1>5 DEF OpensOwn

LEMMA ProgressRecord ==
  ASSUME FreshIssue = {TRUE}, IInv, Ahead, RecordInv, Progress
  PROVE  RecordInv'
<1>1. TypeOK /\ PlaceOfType
  BY DEF IInv
<1>2. woken => at \in {"clock", "paused"}
  BY <1>1 DEF TypeOK, Awaits
<1>3. at # "done"
  BY <1>2 DEF Progress, RunDone, AssignDone, CreateDone, IssueDone, AcceptDone, SubmitDone,
              SleepDone, SettleDone, BudgetExhausted, ResumeAnswer, ResumeReply
<1>4. Chain(events, {id}) /\ events \in Seq(Event)
  BY <1>1, <1>3 DEF RecordInv, OpenSteps, TypeOK
<1>5. events \o <<>> = events
  BY <1>4
<1>6. CASE RunDone \/ SleepDone \/ SettleDone
  <2>1. PICK result : EndStep(<<>>, result)
    BY <1>6 DEF RunDone, SleepDone, SettleDone
  <2>2. at \in {"run", "sleep", "settle"}
    BY <1>6 DEF RunDone, SleepDone, SettleDone
  <2>3. Raised(events)
    BY <1>1, <2>2 DEF RecordInv, PlaceOfType, Raised
  <2>4. step.type \in {"human-task", "external-task"} => id \in StepsOf(events, TaskFamily.terminal)
    BY <1>1, <2>2 DEF RecordInv, PlaceOfType
  <2> QED
    BY <1>1, <1>3, <1>4, <1>5, <2>1, <2>3, <2>4, OwnEvents, EndStepRecord
<1>7. CASE AcceptDone
  <2>1. /\ at = "accept" /\ step.type = "issue-document"
        /\ EndStep(<<Ev("document.accepted")>>, "accepted")
    BY <1>1, <1>7 DEF AcceptDone, PlaceOfType
  <2>2. "document.accepted" \in (OwnTypes \cap EventTypes) \ IssuanceFamily.originated
    BY <2>1 DEF OwnTypes, IssuanceFamily, EventTypes
  <2>3. Own(<<Ev("document.accepted")>>)
    BY <1>1, <1>3, <2>2, OwnEvents
  <2>4. Raised(events \o <<Ev("document.accepted")>>)
    BY <1>4, <2>1, <2>3, RaisedJoin DEF RecordInv, Own
  <2> QED
    BY <1>1, <1>3, <1>4, <2>1, <2>3, <2>4, EndStepRecord
<1>8. CASE AssignDone
  <2>1. at' = "create" /\ UNCHANGED <<flow, pc>> /\ events' = events
    BY <1>5, <1>8 DEF AssignDone, Continue
  <2> QED
    BY <1>3, <1>4, <2>1, OnwardRecord
<1>9. CASE CreateDone
  <2>1. step.type = "human-task" /\ AwaitAnswer(<<Ev("task.created"), Ev("task.assigned")>>, step.ms)
    BY <1>1, <1>9 DEF CreateDone, PlaceOfType
  <2>2. OpensOwn(<<Ev("task.created"), Ev("task.assigned")>>)
    BY <1>1, <1>3, <2>1, OpeningEvents
  <2> QED
    BY <1>1, <1>3, <2>1, <2>2, AwaitAnswerRecord
<1>10. CASE IssueDone
  <2> DEFINE evs == <<Ev("document.allocated"), Ev("document.issued"), Ev("document.delivered")>>
  <2>1. /\ step.type = "issue-document"
        /\ IF step.offer THEN AwaitAnswer(evs, step.ms) ELSE EndStep(evs, "issued")
    BY <1>1, <1>10 DEF IssueDone, PlaceOfType
  <2>2. OpensOwn(evs)
    BY <1>1, <1>3, <2>1, OpeningEvents
  <2> HIDE DEF evs
  <2>3. CASE step.offer
    BY <1>1, <1>3, <2>1, <2>2, <2>3, AwaitAnswerRecord
  <2>4. CASE ~step.offer
    BY <1>1, <1>3, <1>4, <2>1, <2>2, <2>4, EndStepRecord DEF OpensOwn
  <2> QED
    BY <2>3, <2>4
<1>11. CASE SubmitDone
  <2>1. step.type = "external-task" /\ AwaitReply(<<Ev("external.submitted")>>, step.ms)
    BY <1>1, <1>11 DEF SubmitDone, PlaceOfType
  <2>2. OpensOwn(<<Ev("external.submitted")>>)
    BY <1>1, <1>3, <2>1, OpeningEvents
  <2> QED
    BY <1>1, <1>3, <2>1, <2>2, AwaitReplyRecord
<1>12. CASE BudgetExhausted
  <2>1. at = "clock" /\ Raised(events) /\ Waits(step)
    BY <1>12 DEF BudgetExhausted, RecordInv, Ahead, Awaits
  <2>2. ASSUME NEW u \in OwnTypes \cap EventTypes, u \notin IssuanceFamily.originated
        PROVE  Own(<<Ev(u)>>) /\ <<Ev(u)>> \in Seq(Event)
    BY <1>1, <1>3, <2>2, OwnEvents DEF Own
  <2>3. CASE step.type = "issue-document"
    <3>1. PICK result : EndStep(<<Ev("document.declined")>>, result)
      BY <1>12, <2>3 DEF BudgetExhausted
    <3>2. "document.declined" \in (OwnTypes \cap EventTypes) \ IssuanceFamily.originated
      BY <2>3 DEF OwnTypes, IssuanceFamily, EventTypes
    <3>3. Own(<<Ev("document.declined")>>) /\ <<Ev("document.declined")>> \in Seq(Event)
      BY <2>2, <3>2
    <3>4. Raised(events \o <<Ev("document.declined")>>)
      BY <1>4, <2>1, <3>3, RaisedJoin
    <3> QED
      BY <1>1, <1>3, <1>4, <2>3, <3>1, <3>3, <3>4, EndStepRecord
  <2>4. CASE step.type = "human-task"
    <3>1. PICK evs, result : evs = <<Ev("task.escalated")>> /\ EndStep(evs, result)
      BY <1>12, <2>4 DEF BudgetExhausted, external
    <3>2. /\ "task.escalated" \in (OwnTypes \cap EventTypes) \ IssuanceFamily.originated
          /\ "task.escalated" \in TaskFamily.terminal
      BY <2>4 DEF OwnTypes, TaskFamily, IssuanceFamily, EventTypes
    <3>3. Own(evs) /\ evs \in Seq(Event)
      BY <2>2, <3>1, <3>2
    <3>4. Raised(events \o evs)
      BY <1>4, <2>1, <3>3, RaisedJoin
    <3>5. id \in StepsOf(evs, TaskFamily.terminal)
      BY <1>1, <1>3, <3>1, <3>2, OwnEvents
    <3>6. id \in StepsOf(events \o evs, TaskFamily.terminal)
      BY <1>4, <3>3, <3>5, StepsJoin
    <3> QED
      BY <1>1, <1>3, <1>4, <3>1, <3>3, <3>4, <3>6, EndStepRecord
  <2>5. CASE step.type = "external-task"
    <3>1. PICK evs, result : /\ evs = <<Ev("external.timeout"), Ev("external.escalated")>>
                             /\ EndStep(evs, result)
      BY <1>12, <2>5 DEF BudgetExhausted, external
    <3>2. Own(evs) /\ id \in StepsOf(evs, TaskFamily.terminal)
      BY <1>1, <1>3, <2>5, <3>1, TimeoutEvents
    <3>3. evs \in Seq(Event)
      BY <3>2 DEF Own
    <3>4. Raised(events \o evs)
      BY <1>4, <2>1, <3>3, RaisedJoin
    <3>5. id \in StepsOf(events \o evs, TaskFamily.terminal)
      BY <1>4, <3>2, <3>3, StepsJoin
    <3> QED
      BY <1>1, <1>3, <1>4, <3>1, <3>2, <3>4, <3>5, EndStepRecord
  <2> QED
    BY <2>1, <2>3, <2>4, <2>5 DEF Waits
<1>13. CASE ResumeAnswer
  <2>1. woken /\ ~external /\ AwaitAnswer(ResumeEvents, Remaining)
    BY <1>13 DEF ResumeAnswer
  <2>2. /\ Waits(step) /\ step.type \in {"human-task", "issue-document"}
        /\ step.type = "issue-document" => step.offer
    BY <1>2, <2>1 DEF Ahead, Awaits, Waits, external
  <2>3. OpensOwn(ResumeEvents)
    BY <1>1, <1>2, <2>1, <2>2, ResumingEvents
  <2> QED
    BY <1>1, <1>3, <2>1, <2>2, <2>3, AwaitAnswerRecord
<1>14. CASE ResumeReply
  <2>1. woken /\ step.type = "external-task" /\ AwaitReply(ResumeEvents, Remaining)
    BY <1>14 DEF ResumeReply, external
  <2>2. OpensOwn(ResumeEvents)
    BY <1>1, <1>2, <2>1, ResumingEvents DEF Waits
  <2> QED
    BY <1>1, <1>3, <2>1, <2>2, AwaitReplyRecord
<1> QED
  BY <1>6, <1>7, <1>8, <1>9, <1>10, <1>11, <1>12, <1>13, <1>14 DEF Progress

LEMMA InitRecord == Init => RecordInv
<1> SUFFICES ASSUME Init PROVE RecordInv
  OBVIOUS
<1>1. at \notin {"clock", "paused", "settle", "accept", "done"}
  <2>1. flow[1] \in Step
    BY FlowAssumption DEF Init
  <2> QED
    BY <2>1, FirstPlaceOfType DEF Init
<1>2. PICK e \in Event : e.type = "case.created" /\ events = <<e>>
  BY DEF Init, Event, EventTypes
<1>3. events \in Seq(Event) /\ Len(events) = 1 /\ events[1] = e
  BY <1>2
<1>4. ASSUME NEW family \in Families
      PROVE  /\ "case.created" \notin family.originated \cup family.lifecycle
             /\ StepsOf(events, family.originated) = {}
  <2>1. "case.created" \notin family.originated \cup family.lifecycle
    BY DEF Families, TaskFamily, IssuanceFamily, NotifyFamily
  <2> QED
    BY <1>2, <1>3, <2>1 DEF StepsOf
<1>5. \A i \in 1..Len(events) : StitchedEvent(events, events[i])
  BY <1>2, <1>3, <1>4 DEF StitchedEvent
<1>6. /\ StepsOf(events, TaskFamily.originated) = {}
      /\ StepsOf(events, IssuanceFamily.originated) = {}
      /\ StepsOf(events, NotifyFamily.originated) = {}
  BY <1>4 DEF Families
<1>7. Chain(events, OpenSteps)
  BY <1>3, <1>5, <1>6 DEF Chain, Dangling
<1> QED
  BY <1>1, <1>7 DEF RecordInv

\* At all times but for the step in progress the record of a Case is stitched: nothing
\* raised before dangles, whichever way it ended, and every event finds the
\* origination of its own step, unless it is the stopped clock of an offer.  A retried
\* issueDocument notes no origination (the run activity_recorded): hence FreshIssue.
THEOREM RecordIsStitched ==
  ASSUME FreshIssue = {TRUE}
  PROVE  Spec => []RecordStitches
<1>1. Signal \/ Tick \/ UNCHANGED allVars => UNCHANGED <<flow, pc, at, events>>
  BY DEF Signal, TaskSignal, DocumentSignal, ReplySignal, Handled, Tick, allVars, wfState
<1>2. ASSUME RecordInv, UNCHANGED <<flow, pc, at, events>>
      PROVE  RecordInv'
  <2>1. id' = id /\ step' = step /\ OpenSteps' = OpenSteps
    BY <1>2 DEF id, step, OpenSteps
  <2>2. \A h : \A e : StitchedEvent(h, e) => StitchedEvent(h, e)'
    BY <1>2 DEF StitchedEvent, OfferPause
  <2>3. Chain(events, OpenSteps)'
    BY <1>2, <2>1, <2>2 DEF RecordInv, Chain
  <2>4. Raised(events) => Raised(events)'
    BY <1>2, <2>1 DEF Raised
  <2> QED
    BY <1>2, <2>1, <2>3, <2>4 DEF RecordInv
<1>3. IInv /\ Ahead /\ RecordInv /\ [Next]_allVars => RecordInv'
  BY <1>1, <1>2, ProgressRecord DEF Next
<1>4. TypeOK /\ RecordInv => RecordStitches
  BY RecordedChain DEF RecordInv
<1> QED
  BY <1>3, <1>4, InitRecord, Invariance, AheadInvariance, TypeCorrect, PTL DEF Spec
=============================================================================
