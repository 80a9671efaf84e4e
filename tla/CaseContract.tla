---------------------------- MODULE CaseContract ----------------------------
(***************************************************************************)
(* What a Case owes the people and systems it waits for, whatever kind of  *)
(* step does the waiting (doc 04 5.2, 5.7, 5.8): steps end one after the   *)
(* other, each exactly once; a waiting step is settled only by an answer   *)
(* that has arrived, and expires only when its whole budget was used up    *)
(* with the clock running, the clock is not stopped and no answer is there.*)
(***************************************************************************)
EXTENDS Naturals, Sequences

CONSTANT StepIds

VARIABLES
  plan,     \* sequence of [id, waits, budget]
  next,     \* index of the first step that has not ended
  verdict,  \* how each step ended
  answers,  \* steps an answer has arrived for
  stopped,  \* steps whose clock is stopped
  used      \* budget the current step has used

cvars == <<plan, next, verdict, answers, stopped, used>>

Current == plan[next]

Init ==
  /\ next = 1
  /\ verdict = [s \in StepIds |-> "pending"]
  /\ answers = {} /\ stopped = {}
  /\ used = 0

End(v) ==
  /\ verdict' = [verdict EXCEPT ![Current.id] = v]
  /\ next' = next + 1
  /\ used' = 0
  /\ UNCHANGED <<plan, answers, stopped>>

\* Answers arrive and are discarded, clocks are stopped and restarted.
Environment ==
  /\ next <= Len(plan)
  /\ answers' \subseteq StepIds /\ stopped' \subseteq StepIds
  /\ UNCHANGED <<plan, next, verdict, used>>

Elapse ==
  /\ next <= Len(plan) /\ Current.waits /\ Current.id \notin stopped
  /\ used' = used + 1
  /\ UNCHANGED <<plan, next, verdict, answers, stopped>>

Perform == next <= Len(plan) /\ ~Current.waits /\ End("done")

Settle ==
  next <= Len(plan) /\ Current.waits /\ Current.id \in answers /\ End("settled")

Expire ==
  /\ next <= Len(plan) /\ Current.waits
  /\ Current.id \notin answers \cup stopped
  /\ used >= Current.budget
  /\ End("expired")

Next == Environment \/ Elapse \/ Perform \/ Settle \/ Expire

Spec == Init /\ [][Next]_cvars
=============================================================================
