--------------------------- MODULE DecisionRecord ---------------------------
(***************************************************************************)
(* The orphan-event detector of a Case's DecisionRecord                    *)
(* (packages/flow/src/decisionrecord.ts): a pure projection of the event   *)
(* history, a sequence of records with a type and a step.  A family of     *)
(* events is stitched when every lifecycle event has an originating event  *)
(* for its step somewhere in the history, and every originating event has  *)
(* a terminal one.                                                         *)
(***************************************************************************)
EXTENDS Integers, Sequences

TaskFamilyNoEscalation ==   \* mutant: a delegation's escalation is not terminal
  [originated |-> {"task.created", "external.submitted"},
   lifecycle  |-> {"task.assigned", "sla.paused", "sla.resumed", "task.resolved",
                   "task.escalated", "external.responded", "external.deduped",
                   "external.dlq", "case.flagged", "external.timeout",
                   "external.escalated"},
   terminal   |-> {"task.resolved", "task.escalated", "external.responded"}]

TaskFamily ==
  [originated |-> {"task.created", "external.submitted"},
   lifecycle  |-> {"task.assigned", "sla.paused", "sla.resumed", "task.resolved",
                   "task.escalated", "external.responded", "external.deduped",
                   "external.dlq", "case.flagged", "external.timeout",
                   "external.escalated"},
   terminal   |-> {"task.resolved", "task.escalated", "external.responded",
                   "external.escalated"}]

IssuanceFamily ==
  [originated |-> {"document.allocated"},
   lifecycle  |-> {"document.issued", "document.delivered", "document.accepted",
                   "document.declined", "document.superseded", "document.revoked"},
   terminal   |-> {"document.delivered", "document.accepted", "document.declined"}]

NotifyFamily ==
  [originated |-> {"notify.requested"},
   lifecycle  |-> {"notify.sent", "notify.deduped", "notify.dlq"},
   terminal   |-> {"notify.sent", "notify.deduped", "notify.dlq"}]

Families == {TaskFamily, IssuanceFamily, NotifyFamily}

\* The steps that history h names in an event of one of the given types.
StepsOf(h, types) == {h[i].step : i \in {j \in 1..Len(h) : h[j].type \in types}}

\* Positions of lifecycle events with no originating event for their step.
Unstitched(h, family) ==
  {i \in 1..Len(h) : /\ h[i].type \in family.lifecycle
                     /\ h[i].step \notin StepsOf(h, family.originated)}

\* Steps with an originating event and no terminal one.
Dangling(h, family) ==
  StepsOf(h, family.originated) \ StepsOf(h, family.terminal)

\* chainComplete: there are no orphans.
ChainComplete(h) ==
  \A family \in Families : Unstitched(h, family) = {} /\ Dangling(h, family) = {}
=============================================================================
