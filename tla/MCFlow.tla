------------------------------- MODULE MCFlow -------------------------------
(* Flows and inputs for model checking FlowInterpreter and FlowRecord.       *)
EXTENDS FlowRecord

CONSTANTS s1, s2, x, m1, m2

\* A step whose unset facets are neutral.
S(sid, type, ms) == [id |-> sid, type |-> type, out |-> x, ms |-> ms,
                     onTimeout |-> 0, routed |-> FALSE, offer |-> FALSE]
Routed(s) == [s EXCEPT !.routed = TRUE]
Offer(s)  == [s EXCEPT !.offer = TRUE]

Human(sid, ms)    == S(sid, "human-task", ms)
External(sid, ms) == S(sid, "external-task", ms)
Document(sid, ms) == S(sid, "issue-document", ms)

\* One await, alone or next to another step that its signals may reach early
\* or late; budgets of zero included.
HumanFlows ==
  {<<Human(s1, 2)>>, <<Routed(Human(s1, 0)), S(s2, "timer", 0)>>,
   <<S(s1, "compute", 0), Human(s2, 2)>>, <<Human(s1, 1), Human(s2, 1)>>}
DocumentFlows ==
  {<<Offer(Document(s1, 2))>>, <<Document(s1, 0), Offer(Document(s2, 1))>>,
   <<Human(s1, 1), Offer(Document(s2, 1))>>}
AwaitFlows == HumanFlows \cup DocumentFlows
ExternalFlows == {<<External(s1, 2)>>, <<External(s1, 1), S(s2, "timer", 1)>>}
MixedFlows ==
  {<<Human(s1, 1), External(s2, 1)>>, <<External(s1, 1), Offer(Document(s2, 1))>>,
   <<S(s1, "decision-eval", 0), Offer(Document(s2, 1))>>}

R(c, m, v, bad) == [correlated |-> c, msg |-> m, value |-> v, malformed |-> bad]
\* Two well-formed replies that compete, a malformed one under the id of the
\* first, and one that carries a foreign correlation id.
ManyReplies == {R(TRUE, m1, 1, FALSE), R(TRUE, m2, 0, FALSE), R(TRUE, m1, 0, TRUE),
                R(FALSE, m1, 1, FALSE)}
FewReplies == {R(TRUE, m1, 1, FALSE), R(TRUE, m1, 1, TRUE)}

AllFlows == AwaitFlows \cup ExternalFlows \cup MixedFlows
=============================================================================
