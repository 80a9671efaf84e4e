--------------------------- MODULE FlowInterpreter ---------------------------
(***************************************************************************)
(* The generic flow interpreter (packages/flow/src/interpreter.ts): one    *)
(* Temporal workflow that runs a flow's steps in order for one Case, while *)
(* signals arrive from people, applicants and external systems.            *)
(*                                                                         *)
(* A workflow runs in activations.  In one activation Temporal hands over  *)
(* the buffered signals first (each runs its handler to completion), then  *)
(* the timers and activity results, and only then resumes the workflow     *)
(* function, which runs without interruption to its next await.  Hence one *)
(* action per signal handler, one per resumption, and `woken', which is    *)
(* TRUE between the handler that made the awaited condition true and the   *)
(* resumption: further handlers of the same activation may run in between, *)
(* but no time passes and the budget timer can no longer win.              *)
(***************************************************************************)
EXTENDS Integers, Sequences, FiniteSets

CONSTANTS
  StepIds,     \* step ids of all flows
  VarNames,    \* blackboard variables
  Values,      \* blackboard values
  MsgIds,      \* message ids of inbound replies
  Replies,     \* the inbound replies that may be delivered
  None,        \* `undefined'
  Flows,       \* the flows that may be interpreted
  FreshIssue,  \* issueDocument ran for the first time (TRUE), was retried (FALSE)
  MaxSignals,  \* bound: signals delivered to the Case
  MaxAge       \* bound: clock ticks one await is watched for

StepTypes == {"compute", "decision-eval", "human-task", "timer",
              "issue-document", "external-task"}

\* A flow step.  ms is slaMs of an await step, lifecycle.slaMs of an offer and
\* durationMs of a timer; routed: it has an assignmentDecision.
Step == [id: StepIds, type: StepTypes, out: VarNames, ms: Nat,
         onTimeout: Values, routed: BOOLEAN, offer: BOOLEAN]

\* An inbound reply; correlated: it carries the injected correlationId.
Reply == [correlated: BOOLEAN, msg: MsgIds, value: Values, malformed: BOOLEAN]

\* A Case event.  "external.dlq" stands for the pair external.dlq, case.flagged
\* that the code always emits together.
EventTypes ==
  {"case.created", "case.resolved", "task.created", "task.assigned",
   "task.resolved", "task.escalated", "sla.paused", "sla.resumed",
   "document.allocated", "document.issued", "document.delivered",
   "document.accepted", "document.declined", "external.submitted",
   "external.responded", "external.deduped", "external.dlq",
   "external.timeout", "external.escalated"}
Event == [type: EventTypes, step: StepIds \cup {None}]

\* How a step ended: its trace entry's resolution or documentStatus.
Outcomes == {"open", "done", "resolved", "escalated",
             "issued", "accepted", "declined"}

\* Where the workflow function is suspended: an activity, a sleep, or one of
\* the two conditions of an await loop (budget clock running, clock stopped).
Activities == {"run", "assign", "create", "issue", "accept", "submit"}
Sleeps     == {"sleep", "settle"}
Awaits     == {"clock", "paused"}
Places     == Activities \cup Sleeps \cup Awaits \cup {"done"}

ASSUME FlowAssumption ==
  /\ None \notin Values \cup StepIds
  /\ None \notin {"accept", "decline"}
  /\ Values # {}
  /\ FreshIssue \subseteq BOOLEAN
  /\ Replies \subseteq Reply
  /\ Flows \subseteq Seq(Step)
  \* flow.tsp: at least one step, step ids unique within the flow
  /\ \A f \in Flows :
       /\ Len(f) >= 1
       /\ \A i, j \in 1..Len(f) : f[i].id = f[j].id => i = j
ASSUME BoundAssumption == MaxSignals \in Nat /\ MaxAge \in Nat

VARIABLES
  flow,         \* the Flow under interpretation
  pc,           \* index of the step being executed
  at,           \* where the workflow function is suspended
  woken,        \* the awaited condition was fulfilled, resumption is due
  age,          \* ticks since the pending clock, pause or sleep was entered
  remaining,    \* budget left when the pending clock was armed
  resolved,     \* resolution value buffered per step
  docResolved,  \* accept or decline buffered per step
  paused,       \* steps whose clock is stopped
  queue,        \* buffered replies per step
  seen,         \* message ids the current delegation has consumed
  responded,    \* the current delegation's response
  vars,         \* the blackboard
  slaMs,        \* SLA time charged so far
  events,       \* the Case's event history
  outcome,      \* outcome per step (the trace)
  \* history, read by properties only
  active,       \* ticks the current await ran with its clock not stopped
  inbox,        \* every reply handled so far, per step
  lapsed,       \* offers whose budget ran out
  signals       \* signals delivered so far

wfState == <<flow, pc, at, age, remaining, seen, responded, vars, slaMs,
             events, outcome, active, lapsed>>
buffers == <<resolved, docResolved, paused, queue, inbox, signals>>
allVars == <<wfState, woken, buffers>>

TypeOK ==
  /\ flow \in Flows
  /\ pc \in 1..(Len(flow) + 1)
  /\ at \in Places
  /\ at = "done" <=> pc = Len(flow) + 1
  /\ woken \in BOOLEAN /\ (woken => at \in Awaits)
  /\ age \in Nat /\ remaining \in Nat /\ slaMs \in Nat /\ active \in Nat
  /\ resolved \in [StepIds -> Values \cup {None}]
  /\ docResolved \in [StepIds -> {"accept", "decline", None}]
  /\ paused \subseteq StepIds
  /\ queue \in [StepIds -> Seq(Reply)]
  /\ inbox \in [StepIds -> Seq(Reply)]
  /\ seen \subseteq MsgIds
  /\ responded \in Values \cup {None} /\ (at = "settle" => responded # None)
  /\ vars \in [VarNames -> Values]
  /\ events \in Seq(Event)
  /\ outcome \in [StepIds -> Outcomes]
  /\ lapsed \subseteq StepIds
  /\ signals \in Nat

-----------------------------------------------------------------------------
(* The step being executed.                                                *)

step     == flow[pc]
id       == step.id
external == step.type = "external-task"
Ev(t)    == [type |-> t, step |-> id]

\* An answer to step st has been buffered, and not yet drained.
AnswerTo(st) ==
  CASE st.type = "human-task"     -> resolved[st.id] # None
    [] st.type = "issue-document" -> docResolved[st.id] # None
    [] st.type = "external-task"  -> queue[st.id] # <<>>
    [] OTHER                      -> FALSE
Answered == AnswerTo(step)

\* The predicate of the condition() the workflow is suspended on.  A reply
\* does not end a pause; a resolution, an accept or a decline does.
UnblockedByAnswerOnly ==    \* mutant: the loop does not watch for a pause
  \/ at = "clock"  /\ Answered
  \/ at = "paused" /\ (id \notin paused \/ (~external /\ Answered))

UnblockedByResumeOnly ==    \* mutant: an answer does not end a pause
  \/ at = "clock"  /\ (Answered \/ id \in paused)
  \/ at = "paused" /\ id \notin paused

UnblockedNever ==           \* mutant: a resume does not end a pause
  \/ at = "clock"  /\ (Answered \/ id \in paused)
  \/ at = "paused" /\ ~external /\ Answered

Unblocked ==
  \/ at = "clock"  /\ (Answered \/ id \in paused)
  \/ at = "paused" /\ (id \notin paused \/ (~external /\ Answered))

\* The first suspension of a step.
FirstAwait(s) ==
  CASE s.type \in {"compute", "decision-eval"} -> "run"
    [] s.type = "human-task"     -> IF s.routed THEN "assign" ELSE "create"
    [] s.type = "timer"          -> "sleep"
    [] s.type = "issue-document" -> "issue"
    [] s.type = "external-task"  -> "submit"

\* What is left of the budget after the clock ran for `age' ticks.
RemainingRefilled == remaining    \* mutant: a pause refills the budget

RemainingUnfloored ==             \* mutant: without Math.max(0, ...)
  IF at # "clock" THEN remaining ELSE remaining - age

Remaining ==
  IF at # "clock" THEN remaining
  ELSE IF age >= remaining THEN 0 ELSE remaining - age

\* A Temporal timer fires no sooner than its duration, and never at once.
TimerDue(duration) == age >= (IF duration = 0 THEN 1 ELSE duration)

-----------------------------------------------------------------------------
(* Ends and suspensions of a step, shared by the step types.  Each sets    *)
(* flow, pc, at, woken, age, remaining, seen, responded, events, outcome   *)
(* and active; vars, slaMs and lapsed are left to the caller.              *)

\* The step ends after emitting evs; the next one starts, or the Case resolves.
EndStep(evs, result) ==
  /\ pc' = pc + 1
  /\ outcome' = [outcome EXCEPT ![id] = result]
  /\ IF pc = Len(flow)
     THEN /\ at' = "done"
          /\ events' = events \o evs \o <<[type |-> "case.resolved", step |-> None]>>
     ELSE /\ at' = FirstAwait(flow[pc + 1])
          /\ events' = events \o evs
  /\ woken' = FALSE
  /\ age' = 0 /\ remaining' = 0 /\ active' = 0
  /\ seen' = {} /\ responded' = None
  /\ UNCHANGED flow

\* The step continues with another activity or sleep.
Continue(place, evs) ==
  /\ at' = place
  /\ events' = events \o evs
  /\ woken' = FALSE
  /\ age' = 0
  /\ UNCHANGED <<flow, pc, remaining, outcome, active>>

\* The step suspends in its await loop with rem of its budget left.
Suspend(place, evs, rem) ==
  /\ at' = place
  /\ events' = events \o evs
  /\ remaining' = rem
  /\ woken' = FALSE
  /\ age' = 0
  /\ UNCHANGED <<flow, pc, outcome, active>>

\* The answer of a human-task or an offer, taken at the top of its loop.
Settle(evs) ==
  CASE step.type = "human-task" ->
         /\ vars' = [vars EXCEPT ![step.out] = resolved[id]]
         /\ EndStep(evs \o <<Ev("task.resolved")>>, "resolved")
    [] step.type = "issue-document" /\ docResolved[id] = "accept" ->
         /\ Continue("accept", evs)
         /\ UNCHANGED <<vars, seen, responded>>
    [] OTHER ->
         /\ EndStep(evs \o <<Ev("document.declined")>>, "declined")
         /\ UNCHANGED vars

\* The top of the loop of a human-task or an offer: an answer goes before a
\* pause, a pause before the clock.
AwaitAnswer(evs, rem) ==
  IF Answered THEN Settle(evs)
  ELSE /\ IF id \in paused
          THEN Suspend("paused", Append(evs, Ev("sla.paused")), rem)
          ELSE Suspend("clock", evs, rem)
       /\ UNCHANGED <<vars, seen, responded>>

-----------------------------------------------------------------------------
(* The delegation's reply queue.                                           *)

\* Reply i of q repeats a correlated reply consumed before.
DuplicateInBatch(q, i) ==   \* mutant: the receiver forgets between two drains
  \E j \in 1..(i - 1) : q[j].correlated /\ q[j].msg = q[i].msg

Duplicate(q, i) ==
  \/ q[i].msg \in seen
  \/ \E j \in 1..(i - 1) : q[j].correlated /\ q[j].msg = q[i].msg

Acceptable(q, i) == q[i].correlated /\ ~Duplicate(q, i) /\ ~q[i].malformed

\* Reply i resolves the delegation: the first acceptable one.
ResolvesAny(q, i) == Acceptable(q, i)   \* mutant: a later reply overwrites

Resolves(q, i) ==
  /\ Acceptable(q, i) /\ responded = None
  /\ \A j \in 1..(i - 1) : ~Acceptable(q, j)

\* The event that drain() emits for reply i of q.
Disposition(q, i) ==
  IF ~q[i].correlated      THEN "external.dlq"
  ELSE IF Duplicate(q, i)  THEN "external.deduped"
  ELSE IF q[i].malformed   THEN "external.dlq"
  ELSE IF Resolves(q, i)   THEN "external.responded"
  ELSE "external.deduped"

\* The top of the loop of an external-task: a pause goes before the queue,
\* and the queue, drained to the end, before the clock.
AwaitReply(evs, rem) ==
  LET q       == queue[id]
      drained == [i \in 1..Len(q) |-> Ev(Disposition(q, i))]
  IN IF id \in paused
     THEN /\ Suspend("paused", Append(evs, Ev("sla.paused")), rem)
          /\ UNCHANGED <<queue, seen, responded>>
     ELSE /\ queue' = [queue EXCEPT ![id] = <<>>]
          /\ seen' = seen \cup {q[i].msg : i \in {j \in 1..Len(q) : q[j].correlated}}
          /\ IF \E i \in 1..Len(q) : Resolves(q, i)
             THEN /\ \E i \in 1..Len(q) :
                       Resolves(q, i) /\ responded' = q[i].value
                  /\ Suspend("settle", evs \o drained, rem)
             ELSE /\ UNCHANGED responded
                  /\ Suspend("clock", evs \o drained, rem)

-----------------------------------------------------------------------------
(* Signal handlers.                                                        *)

Deliverable == at # "done" /\ signals < MaxSignals

\* pause and resume of any step; woken is updated by every handler.
HandlePause(s, action) ==
  paused' = CASE action = "pause"  -> paused \cup {s}
              [] action = "resume" -> paused \ {s}
              [] OTHER             -> paused

Handled ==
  /\ signals' = signals + 1
  /\ UNCHANGED wfState
  /\ woken' = (woken \/ Unblocked')

TaskSignal(s, action, value) ==
  /\ Deliverable
  /\ HandlePause(s, action)
  /\ resolved' = IF action = "resolve" THEN [resolved EXCEPT ![s] = value]
                 ELSE resolved
  /\ UNCHANGED <<docResolved, queue, inbox>>
  /\ Handled

DocumentSignal(s, action) ==
  /\ Deliverable
  /\ HandlePause(s, action)
  /\ docResolved' = IF action \in {"accept", "decline"}
                    THEN [docResolved EXCEPT ![s] = action] ELSE docResolved
  /\ UNCHANGED <<resolved, queue, inbox>>
  /\ Handled

ReplySignal(s, r) ==
  /\ Deliverable
  /\ queue' = [queue EXCEPT ![s] = Append(@, r)]
  /\ inbox' = [inbox EXCEPT ![s] = Append(@, r)]
  /\ UNCHANGED <<resolved, docResolved, paused>>
  /\ Handled

-----------------------------------------------------------------------------
(* Activity results and timers.                                            *)

\* compute and decision-eval write the activity's result.
RunDone ==
  /\ at = "run"
  /\ \E v \in Values : vars' = [vars EXCEPT ![step.out] = v]
  /\ EndStep(<<>>, "done")
  /\ UNCHANGED <<slaMs, lapsed, buffers>>

AssignDone ==
  /\ at = "assign"
  /\ Continue("create", <<>>)
  /\ UNCHANGED <<vars, slaMs, seen, responded, lapsed, buffers>>

CreateDone ==
  /\ at = "create"
  /\ AwaitAnswer(<<Ev("task.created"), Ev("task.assigned")>>, step.ms)
  /\ UNCHANGED <<slaMs, lapsed, buffers>>

\* An offer charges its whole budget at once, whatever the holder does.
IssueDone ==
  /\ at = "issue"
  /\ \E fresh \in FreshIssue :
       LET evs == IF fresh
                  THEN <<Ev("document.allocated"), Ev("document.issued"),
                         Ev("document.delivered")>>
                  ELSE <<>>
       IN IF step.offer
          THEN /\ slaMs' = slaMs + step.ms
               /\ AwaitAnswer(evs, step.ms)
          ELSE /\ EndStep(evs, "issued")
               /\ UNCHANGED <<vars, slaMs>>
  /\ UNCHANGED <<lapsed, buffers>>

AcceptDone ==
  /\ at = "accept"
  /\ EndStep(<<Ev("document.accepted")>>, "accepted")
  /\ UNCHANGED <<vars, slaMs, lapsed, buffers>>

SubmitDone ==
  /\ at = "submit"
  /\ AwaitReply(<<Ev("external.submitted")>>, step.ms)
  /\ UNCHANGED <<vars, slaMs, lapsed, resolved, docResolved, paused, inbox, signals>>

SleepDone ==
  /\ at = "sleep" /\ TimerDue(step.ms)
  /\ slaMs' = slaMs + step.ms
  /\ EndStep(<<>>, "done")
  /\ UNCHANGED <<vars, lapsed, buffers>>

\* The tick after a response, before it is written.
SettleDone ==
  /\ at = "settle" /\ TimerDue(1)
  /\ vars' = [vars EXCEPT ![step.out] = responded]
  /\ EndStep(<<>>, "resolved")
  /\ UNCHANGED <<slaMs, lapsed, buffers>>

\* The budget timer fires in an activation in which no signal was handled.
BudgetExhausted ==
  /\ at = "clock" /\ ~woken /\ TimerDue(remaining)
  /\ IF step.type = "issue-document"
     THEN /\ docResolved' = [docResolved EXCEPT ![id] = "decline"]
          /\ lapsed' = lapsed \cup {id}
          /\ EndStep(<<Ev("document.declined")>>, "declined")
          /\ UNCHANGED <<vars, slaMs>>
     ELSE /\ vars' = [vars EXCEPT ![step.out] = step.onTimeout]
          /\ slaMs' = slaMs + step.ms
          /\ EndStep(IF external
                     THEN <<Ev("external.timeout"), Ev("external.escalated")>>
                     ELSE <<Ev("task.escalated")>>, "escalated")
          /\ UNCHANGED <<docResolved, lapsed>>
  /\ UNCHANGED <<resolved, paused, queue, inbox, signals>>

\* The awaited condition was fulfilled: the loop runs on from its top, unless
\* an answer ended a pause noting that the clock runs again.
ResumeEventsAlways == <<Ev("sla.resumed")>>    \* mutant: without asking for a pause

ResumeEvents ==
  IF at = "paused" /\ (external \/ ~Answered) THEN <<Ev("sla.resumed")>>
  ELSE <<>>

ResumeAnswer ==
  /\ woken /\ ~external
  /\ AwaitAnswer(ResumeEvents, Remaining)
  /\ UNCHANGED <<slaMs, lapsed, buffers>>

ResumeReply ==
  /\ woken /\ external
  /\ AwaitReply(ResumeEvents, Remaining)
  /\ UNCHANGED <<vars, slaMs, lapsed, resolved, docResolved, paused, inbox, signals>>

\* Workflow time passes, between activations only.
Tick ==
  /\ at \in Sleeps \cup Awaits /\ ~woken /\ age < MaxAge
  /\ age' = age + 1
  /\ active' = IF at \in Awaits /\ id \notin paused THEN active + 1 ELSE active
  /\ UNCHANGED <<flow, pc, at, remaining, seen, responded, vars, slaMs, events,
                 outcome, lapsed, woken, buffers>>

-----------------------------------------------------------------------------

Init ==
  /\ flow \in Flows
  /\ pc = 1
  /\ at = FirstAwait(flow[1])
  /\ woken = FALSE
  /\ age = 0 /\ remaining = 0 /\ slaMs = 0 /\ active = 0 /\ signals = 0
  /\ resolved = [s \in StepIds |-> None]
  /\ docResolved = [s \in StepIds |-> None]
  /\ paused = {}
  /\ queue = [s \in StepIds |-> <<>>]
  /\ inbox = [s \in StepIds |-> <<>>]
  /\ seen = {} /\ responded = None
  /\ vars \in [VarNames -> Values]
  /\ events = <<[type |-> "case.created", step |-> None]>>
  /\ outcome = [s \in StepIds |-> "open"]
  /\ lapsed = {}

Signal ==
  \E s \in StepIds :
    \/ \E action \in {"resolve", "pause", "resume"}, v \in Values :
         TaskSignal(s, action, v)
    \/ \E action \in {"accept", "decline", "pause", "resume"} :
         DocumentSignal(s, action)
    \/ \E r \in Replies : ReplySignal(s, r)

\* What Temporal schedules: activity results, due timers and resumptions.
Progress ==
  \/ RunDone \/ AssignDone \/ CreateDone \/ IssueDone \/ AcceptDone
  \/ SubmitDone \/ SleepDone \/ SettleDone \/ BudgetExhausted
  \/ ResumeAnswer \/ ResumeReply

Next == Signal \/ Progress \/ Tick

Spec == Init /\ [][Next]_allVars

\* What is sure to come.  An acceptDocument whose first completion was lost is not:
\* its retries find the Document accepted and throw for ever (activities.ts:172).
Scheduled == at # "accept" /\ Progress

\* Temporal retries activities, fires due timers and resumes a woken workflow;
\* time passes.  Nobody is obliged to send a signal.
FairSpec == Spec /\ WF_allVars(Scheduled) /\ WF_allVars(Tick)

-----------------------------------------------------------------------------
(* Properties.                                                             *)

Max0(n) == IF n < 0 THEN 0 ELSE n

\* No signal is slept through, in whatever place of the loop it finds the step:
\* a workflow that stays suspended has neither an answer it could take nor, if its
\* clock runs, a pause to obey, nor, if its clock is stopped, a resume.
NoMissedWakeup ==
  at \in Awaits /\ ~woken =>
    /\ ~external => ~Answered
    /\ IF at = "clock" THEN id \notin paused /\ ~Answered ELSE id \in paused

\* Clock-stop accounting (doc 04 5.7): however pauses, resumes and replies
\* interleave with the clock, what is left of the budget is the budget less the
\* time the step waited with its clock not stopped.
SlaAccounting == at \in Awaits => Remaining = Max0(step.ms - active)

\* A step times out (escalates, or an offer lapses to declined) only when its
\* full budget of unpaused time has passed, its clock is not stopped and no
\* resolution, accept, decline or reply handled so far is waiting: the answer
\* wins every race that it reaches before the timeout is acted on.
TimedOut == pc' # pc /\ (outcome'[id] = "escalated" \/ id \in lapsed' \ lapsed)
AnswerBeatsTimeout ==
  [][TimedOut => active >= step.ms /\ id \notin paused /\ ~Answered]_allVars

\* Event i happened between an sla.paused of its step and the next sla.resumed.
StoppedAt(i) ==
  \E j \in 1..(i - 1) :
    /\ events[j] = [type |-> "sla.paused", step |-> events[i].step]
    /\ \A k \in (j + 1)..(i - 1) :
         events[k] # [type |-> "sla.resumed", step |-> events[i].step]

\* The clock-stop record is well bracketed: a clock resumes only when stopped
\* and stops only when running, and while it is stopped the step neither
\* escalates nor consumes a reply (interpreter.ts:407-409).
ClockStopsBracketed ==
  \A i \in 1..Len(events) :
    /\ events[i].type = "sla.resumed" => StoppedAt(i)
    /\ events[i].type \in {"sla.paused", "task.escalated", "external.responded",
                           "external.deduped", "external.dlq",
                           "external.escalated"}
       => ~StoppedAt(i)

\* The replies to step s that its delegation has drained, oldest first.
Drained(s) == SubSeq(inbox[s], 1, Len(inbox[s]) - Len(queue[s]))

\* Reference reading of the Idempotent Receiver over a whole reply history:
\* reply i is the first correlated one to carry its message id.
FirstOfItsId(d, i) ==
  /\ d[i].correlated
  /\ \A j \in 1..(i - 1) : d[j].correlated => d[j].msg # d[i].msg
GoodReplies(d) == {i \in 1..Len(d) : FirstOfItsId(d, i) /\ ~d[i].malformed}

\* The delegation's response is the first good reply of the whole history, over
\* all drains and pauses; without a good reply there is none.
FirstReplyWins ==
  at \in {"clock", "paused", "settle"} /\ external =>
    LET d == Drained(id)
    IN IF GoodReplies(d) = {} THEN responded = None
       ELSE \E i \in GoodReplies(d) :
              /\ \A j \in GoodReplies(d) : i <= j
              /\ responded = d[i].value

Count(s, t) == Cardinality({i \in 1..Len(events) :
                              events[i] = [type |-> t, step |-> s]})

\* Every drained reply leaves exactly one disposition in the Case history:
\* one response at most, uncorrelated and malformed replies dead-lettered,
\* everything else deduped, counted over all drains of the step.
RepliesAccounted ==
  \A s \in StepIds :
    LET d    == Drained(s)
        dead == {i \in 1..Len(d) : \/ ~d[i].correlated
                                   \/ FirstOfItsId(d, i) /\ d[i].malformed}
        good == IF GoodReplies(d) = {} THEN 0 ELSE 1
    IN /\ Count(s, "external.responded") = good
       /\ Count(s, "external.dlq") = Cardinality(dead)
       /\ Count(s, "external.deduped") = Len(d) - good - Cardinality(dead)

\* Unless a pause is left standing for ever, or an acceptDocument never completes,
\* the Case resolves, whatever signals come or stay away.
CaseResolves ==
  (\A s \in StepIds : []<>(s \notin paused)) /\ []<>(at # "accept") => <>(at = "done")

\* A resolved Task and a decided offer move on even if their clock is stopped for
\* good: to their outcome, an accepted offer to its acceptDocument.
ResolutionEndsPause ==
  \A s \in StepIds :
    (at \in Awaits /\ id = s /\ ~external /\ Answered) ~>
      (outcome[s] # "open" \/ (at = "accept" /\ id = s /\ docResolved[s] = "accept"))

\* The interpreter honours the contract of CaseContract: every step of it, of any
\* step type, is a step of the contract or leaves the contract's state alone.
Waits(st) == \/ st.type \in {"human-task", "external-task"}
             \/ st.type = "issue-document" /\ st.offer

VerdictOf(s) ==
  CASE outcome[s] = "open"               -> "pending"
    [] outcome[s] \in {"done", "issued"} -> "done"
    [] outcome[s] = "escalated" \/ (outcome[s] = "declined" /\ s \in lapsed) -> "expired"
    [] OTHER                             -> "settled"

\* A response that was drained still counts while and after it is applied.
AnswerArrived(i) ==
  \/ AnswerTo(flow[i]) /\ flow[i].id \notin lapsed
  \/ i = pc /\ at = "settle"
  \/ outcome[flow[i].id] = "resolved"

Plan     == [i \in DOMAIN flow |->
              [id |-> flow[i].id, waits |-> Waits(flow[i]), budget |-> flow[i].ms]]
Verdicts == [s \in StepIds |-> VerdictOf(s)]
Answers  == {flow[i].id : i \in {j \in DOMAIN flow : AnswerArrived(j)}}

Contract == INSTANCE CaseContract WITH
  plan    <- Plan,
  next    <- pc,
  verdict <- Verdicts,
  answers <- Answers,
  stopped <- paused,
  used    <- active
HonoursContract == Contract!Spec
=============================================================================
