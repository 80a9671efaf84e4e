------------------------------- MODULE Authz -------------------------------
(***************************************************************************)
(* The decision point and its relationship engine: Pdp and                 *)
(* InMemoryOpenFgaEngine of the core, Pdp of the portal.  A check is a     *)
(* depth-first search of the rewrites of a relation that stops at the      *)
(* first success.  The recursion is unfolded: `goals' is what its          *)
(* activations have still to try, innermost first, so that an activation   *)
(* that fails goes on with its caller's next goal and a success unwinds    *)
(* them all.  The core sorts its tuples, the portal takes them as listed;  *)
(* here they come in any order.                                            *)
(***************************************************************************)
EXTENDS Naturals, Sequences, FiniteSets

CONSTANTS
  Objects,    \* resources, groups and users, `type:name'
  Relations,
  Nil,        \* in <<o, Nil>>: o itself, not the holders of a relation to it
  TypeOf,     \* the type in an object's name
  Model,      \* [types -> [relations -> sets of rewrites]], unions flattened
  Tuples,     \* the relation tuples a graph may consist of
  Checks,     \* the checks that are asked for
  MaxLog      \* bound: decisions

Nodes    == Objects \X Relations          \* object#relation: who holds it
Subjects == Objects \X {Nil}
RelationTuple == [object: Objects, relation: Relations, user: Nodes \cup Subjects]
Rewrite  == [kind: {"direct"}] \cup [kind: {"computedUserset"}, relation: Relations]
              \cup [kind: {"tupleToUserset"}, tupleset: Relations, relation: Relations]
Check    == [principal: Subjects, node: Nodes]
Goal     == [goal: Nodes \cup Subjects, path: Seq(Nodes)]
DecisionLogEntry == [check: Check, allow: BOOLEAN, reason: Seq(Nodes)]

ASSUME AuthzAssumption ==
  /\ IsFiniteSet(Objects) /\ IsFiniteSet(Relations)
  /\ Nil \notin Relations
  /\ \A o \in Objects : Model[TypeOf[o]] \in [Relations -> SUBSET Rewrite]
  /\ Tuples \subseteq RelationTuple
  /\ Checks \subseteq Check
  /\ MaxLog \in Nat

VARIABLES
  graph,   \* the tuples the engine was built with
  query,   \* the check in progress
  goals,   \* what is left to try: nodes, or the principal itself, each with the
           \* nodes that led to it
  seen,    \* the nodes visited in this check
  log      \* the decision log

authz == <<graph, query, goals, seen, log>>

AuthzTypeOK ==
  /\ graph \subseteq Tuples
  /\ query \in Checks \cup {Nil}
  /\ goals \in Seq(Goal)
  /\ \A i \in DOMAIN goals : goals[i].goal \in Nodes \cup {query.principal}
  /\ seen \subseteq Nodes
  /\ log \in Seq(DecisionLogEntry)

-----------------------------------------------------------------------------

UsersOf(g, o, r) == {t.user : t \in {x \in g : x.object = o /\ x.relation = r}}

DirectAnyone(g, p, n) == UsersOf(g, n[1], n[2])   \* mutant: looks into users, too

\* evalDirect(): the principal if a tuple names it, and the usersets to look into.
Direct(g, p, n) == {u \in UsersOf(g, n[1], n[2]) : u = p \/ u \in Nodes}

\* evalTupleToUserset(): the relation of every object in the tupleset.  (A userset in
\* it is looked up as an object, which has no tuples.)
Through(g, n, tupleset, r) ==
  {<<u[1], r>> : u \in UsersOf(g, n[1], tupleset) \cap Subjects}

\* evalRewrite(): what n is granted by, of which one has to succeed; nothing if the
\* model does not define n.
GoalsOf(g, p, n) ==
  UNION {CASE rw.kind = "direct"          -> Direct(g, p, n)
           [] rw.kind = "computedUserset" -> {<<n[1], rw.relation>>}
           [] rw.kind = "tupleToUserset"  -> Through(g, n, rw.tupleset, rw.relation)
         : rw \in Model[TypeOf[n[1]]][n[2]]}

\* The orders S may be tried in.
Orders(S) == {q \in [1..Cardinality(S) -> S] : \A x \in S : \E i \in DOMAIN q : q[i] = x}

Deciding == query # Nil
Granting == goals # <<>> /\ Head(goals).goal = query.principal

-----------------------------------------------------------------------------

KnownKept == seen                      \* mutant: one visited set for all checks

\* A check starts with a visited set of its own.
Known == {}

MarkNone(n) == seen                    \* mutant: nothing is remembered

Mark(n) == seen \cup {n}

LinkSkipped(path, n) == path           \* mutant: a link of the path is left out

Link(path, n) == Append(path, n)

\* An enforcement point asks.
Ask(c) ==
  /\ ~Deciding /\ Len(log) < MaxLog
  /\ query' = c
  /\ goals' = <<[goal |-> c.node, path |-> <<>>]>>
  /\ seen' = Known
  /\ UNCHANGED <<graph, log>>

\* The key is in the visited set: this way leads nowhere new.
Revisit ==
  /\ Deciding /\ goals # <<>> /\ ~Granting
  /\ Head(goals).goal \in seen
  /\ goals' = Tail(goals)
  /\ UNCHANGED <<graph, query, seen, log>>

Visit ==
  /\ Deciding /\ goals # <<>> /\ ~Granting
  /\ LET n    == Head(goals).goal
         path == Link(Head(goals).path, n)
     IN /\ n \notin seen
        /\ seen' = Mark(n)
        /\ \E q \in Orders(GoalsOf(graph, query.principal, n)) :
             goals' = [i \in DOMAIN q |-> [goal |-> q[i], path |-> path]] \o Tail(goals)
  /\ UNCHANGED <<graph, query, log>>

\* The check returns, and Pdp.check() logs the decision with its reason, the path of
\* relations that grants it.
Decide ==
  /\ Deciding /\ (goals = <<>> \/ Granting)
  /\ log' = Append(log, [check |-> query, allow |-> Granting,
                         reason |-> IF Granting THEN Head(goals).path ELSE <<>>])
  /\ query' = Nil /\ goals' = <<>>
  /\ UNCHANGED <<graph, seen>>

AuthzInit ==
  /\ graph \in SUBSET Tuples
  /\ query = Nil /\ goals = <<>> /\ seen = {} /\ log = <<>>

AuthzNext == (\E c \in Checks : Ask(c)) \/ Revisit \/ Visit \/ Decide

AuthzSpec == AuthzInit /\ [][AuthzNext]_authz

-----------------------------------------------------------------------------
(* Properties.                                                             *)

\* The nodes the model defines.
Defined == {n \in Nodes : Model[TypeOf[n[1]]][n[2]] # {}}

\* S holds every node that it, or a tuple that names p, is a ground for.
Closed(g, p, S) ==
  \A n \in Defined \ S : \A x \in GoalsOf(g, p, n) : x # p /\ x \notin S

\* p holds n: by the least relation that the rewrites and the tuples justify.
Granted(g, p, n) == \A S \in SUBSET Defined : Closed(g, p, S) => n \in S

Right(entry) ==
  entry.allow <=> Granted(graph, entry.check.principal, entry.check.node)

\* Whatever cycles the relationships form and in whatever order they are tried, a
\* decision is what the rewrites mean: nothing allowed without a ground, and nothing
\* denied for being cut off by the visited set.
DecisionsRight == [][\A i \in DOMAIN log' \ DOMAIN log : Right(log'[i])]_authz

\* The reason of a grant is a proof of it: a path from what was asked, by one ground
\* after the other, to a tuple that names the principal.
ReasonsProve ==
  \A i \in DOMAIN log : log[i].allow =>
    LET r == log[i].reason
        p == log[i].check.principal
    IN /\ r # <<>> /\ r[1] = log[i].check.node
       /\ \A j \in 1..(Len(r) - 1) : r[j + 1] \in GoalsOf(graph, p, r[j])
       /\ p \in GoalsOf(graph, p, r[Len(r)])

\* No activation is entered that is active already: however the relationships loop,
\* the recursion is no deeper than there are nodes, and ends.
RecursionBounded ==
  \A i \in DOMAIN goals :
    LET path == goals[i].path
    IN \A j, k \in DOMAIN path : path[j] \in seen /\ (path[j] = path[k] => j = k)
=============================================================================
