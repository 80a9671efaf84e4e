----------------------------- MODULE FlowRecord -----------------------------
(***************************************************************************)
(* The DecisionRecord of a Case that is being interpreted: what the orphan *)
(* detector makes of the history the interpreter has written so far, and   *)
(* what the documentation says of the replies it takes or leaves.          *)
(***************************************************************************)
EXTENDS FlowInterpreter, DecisionRecord

\* The step that is waiting, of which an origination may still be open.
OpenSteps == IF at = "done" THEN {} ELSE {id}

OfferPause(e) ==
  /\ e.type \in {"sla.paused", "sla.resumed"}
  /\ \E i \in DOMAIN flow : flow[i].id = e.step /\ flow[i].offer

\* The record of a Case is complete at all times but for the step in progress:
\* every Task, delegation and Document raised before has reached its end, by
\* whichever path, and every event stitches to an origination of its own step.
\* Left out are the clock events of an offer, which no family originates: with
\* them "every recorded event resolves into the chain (no orphans)"
\* (docs/architecture/13-agent-harness-loops.md:344) is false.
RecordStitches ==
  \A family \in Families :
    /\ Dangling(events, family) \subseteq OpenSteps
    /\ \A i \in Unstitched(events, family) : OfferPause(events[i])

\* "A malformed response ... land in the DLQ with triage/replay and surface on the
\* Case, never a stuck flow" (docs/architecture/05-adapters.md:479): the corrected
\* copy of a malformed reply, replayed under its message id, is the answer.  So a
\* delegation does not go on waiting when it has drained a well-formed reply.
ReplayAnswers ==
  at = "clock" /\ external =>
    ~\E i \in DOMAIN Drained(id) :
       Drained(id)[i].correlated /\ ~Drained(id)[i].malformed
=============================================================================
