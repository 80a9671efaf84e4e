---------------------------- MODULE AuthzProofs ----------------------------
(***************************************************************************)
(* Proofs about the decision point, for every model, every set of tuples   *)
(* and every order in which the engine may try them; and about the model   *)
(* of schemas/authz/model.json, for all objects of its Case types.         *)
(***************************************************************************)
EXTENDS AuthzModel, FiniteSetTheorems, TLAPS

\* The goals of a check, in no order.
Pending == {goals[i] : i \in DOMAIN goals}

Principal == query.principal

LEMMA KnownTypes ==
  ASSUME AuthzTypeOK, Deciding
  PROVE  /\ query \in Check /\ Principal \in Subjects /\ query.node \in Nodes
         /\ Principal \notin Nodes
<1>1. query \in Check
  BY AuthzAssumption DEF AuthzTypeOK, Deciding
<1> QED
  BY <1>1, AuthzAssumption DEF Check, Subjects, Nodes, Principal

\* One level of rewriting leads to nodes, or to the principal.
LEMMA GoalsType ==
  ASSUME NEW g \in SUBSET Tuples, NEW p \in Subjects, NEW n \in Nodes
  PROVE  /\ GoalsOf(g, p, n) \subseteq Nodes \cup {p}
         /\ Cardinality(GoalsOf(g, p, n)) \in Nat
<1>1. n[1] \in Objects /\ n[2] \in Relations
  BY DEF Nodes
<1>2. \A rw \in Model[TypeOf[n[1]]][n[2]] : rw \in Rewrite
  BY <1>1, AuthzAssumption
<1>3. \A o, r : UsersOf(g, o, r) \subseteq Nodes \cup Subjects
  BY AuthzAssumption DEF UsersOf, RelationTuple
<1>4. Direct(g, p, n) \subseteq Nodes \cup {p}
  BY <1>3 DEF Direct
<1>5. \A t, r \in Relations : Through(g, n, t, r) \subseteq Nodes
  BY DEF Through, Subjects, Nodes
<1>6. ASSUME NEW rw \in Model[TypeOf[n[1]]][n[2]]
      PROVE  /\ rw.kind \in {"direct", "computedUserset", "tupleToUserset"}
             /\ rw.kind = "computedUserset" => {<<n[1], rw.relation>>} \subseteq Nodes
             /\ rw.kind = "tupleToUserset" =>
                  Through(g, n, rw.tupleset, rw.relation) \subseteq Nodes
  <2>1. rw \in Rewrite
    BY <1>2
  <2>2. /\ rw.kind \in {"direct", "computedUserset", "tupleToUserset"}
        /\ rw.kind = "computedUserset" => rw.relation \in Relations
        /\ rw.kind = "tupleToUserset" =>
             rw.tupleset \in Relations /\ rw.relation \in Relations
    BY <2>1 DEF Rewrite
  <2> QED
    BY <2>2, <1>1, <1>5 DEF Nodes
<1>7. GoalsOf(g, p, n) \subseteq Nodes \cup {p}
  BY <1>4, <1>6 DEF GoalsOf
<1>8. IsFiniteSet(Nodes \cup {p})
  BY AuthzAssumption, FS_Product, FS_AddElement DEF Nodes
<1> QED
  BY <1>7, <1>8, FS_Subset, FS_CardinalityType

\* What a visit leaves to try: the goals of the node, and the goals that were left.
LEMMA VisitPending ==
  ASSUME AuthzTypeOK, Visit,
         NEW n, n = Head(goals).goal, NEW path, path = Link(Head(goals).path, n)
  PROVE  /\ n \in Nodes
         /\ goals' \in Seq(Goal)
         /\ Pending' \subseteq
              Pending \cup {[goal |-> x, path |-> path] : x \in GoalsOf(graph, Principal, n)}
         /\ \A x \in GoalsOf(graph, Principal, n) : [goal |-> x, path |-> path] \in Pending'
         /\ \A g \in Pending : g = Head(goals) \/ g \in Pending'
<1> DEFINE new == GoalsOf(graph, Principal, n)
<1>1. PICK q \in Orders(new) :
        goals' = [i \in DOMAIN q |-> [goal |-> q[i], path |-> path]] \o Tail(goals)
  BY DEF Visit, Principal
<1>2. Head(goals) = goals[1] /\ 1 \in DOMAIN goals /\ goals \in Seq(Goal)
  BY DEF Visit, AuthzTypeOK
<1>3. n \in Nodes /\ Head(goals) \in Goal
  BY <1>2 DEF AuthzTypeOK, Visit, Granting
<1>4. path \in Seq(Nodes)
  BY <1>3 DEF Goal, Link
<1>5. new \subseteq Nodes \cup Subjects /\ Cardinality(new) \in Nat
  <2>1. graph \in SUBSET Tuples /\ Principal \in Subjects
    BY KnownTypes DEF AuthzTypeOK, Visit
  <2>2. /\ GoalsOf(graph, Principal, n) \subseteq Nodes \cup {Principal}
        /\ Cardinality(GoalsOf(graph, Principal, n)) \in Nat
    BY <1>3, <2>1, GoalsType
  <2> QED
    BY <2>1, <2>2
<1> DEFINE first == [i \in DOMAIN q |-> [goal |-> q[i], path |-> path]]
<1>6. /\ first \in Seq(Goal) /\ DOMAIN first = 1..Cardinality(new)
      /\ Len(first) = Cardinality(new)
      /\ \A i \in DOMAIN first : q[i] \in new
      /\ \A x \in new : \E i \in DOMAIN first : q[i] = x
  <2>1. /\ q \in [1..Cardinality(new) -> new]
        /\ \A x \in new : \E i \in DOMAIN q : q[i] = x
    BY DEF Orders
  <2>2. \A i \in DOMAIN q : [goal |-> q[i], path |-> path] \in Goal
    BY <2>1, <1>4, <1>5 DEF Goal
  <2> QED
    BY <2>1, <2>2, <1>5
<1>7. /\ Tail(goals) \in Seq(Goal) /\ Len(Tail(goals)) = Len(goals) - 1
      /\ \A i \in 1..(Len(goals) - 1) : Tail(goals)[i] = goals[i + 1]
  BY <1>2
<1>8. goals' = first \o Tail(goals)
  BY <1>1
<1> HIDE DEF new, first
<1>9. /\ goals' \in Seq(Goal)
      /\ DOMAIN goals' = 1..(Len(first) + Len(goals) - 1)
      /\ \A i \in 1..Len(first) : goals'[i] = first[i]
      /\ \A i \in 2..Len(goals) : goals'[Len(first) + i - 1] = goals[i]
      /\ \A i \in (Len(first) + 1)..(Len(first) + Len(goals) - 1) :
           goals'[i] = goals[i - Len(first) + 1]
  <2>1. /\ first \in Seq(Goal) /\ Tail(goals) \in Seq(Goal)
        /\ Len(first) \in Nat /\ Len(goals) \in Nat /\ Len(goals) >= 1
    BY <1>2, <1>5, <1>6, <1>7
  <2>2. /\ goals' \in Seq(Goal)
        /\ Len(goals') = Len(first) + Len(goals) - 1
    BY <2>1, <1>7, <1>8
  <2>3. \A i \in 1..(Len(first) + Len(goals) - 1) :
          goals'[i] = IF i <= Len(first) THEN first[i] ELSE Tail(goals)[i - Len(first)]
    BY <2>1, <1>7, <1>8
  <2>4. \A i \in 2..Len(goals) : goals'[Len(first) + i - 1] = goals[i]
    <3> SUFFICES ASSUME NEW i \in 2..Len(goals)
                 PROVE  goals'[Len(first) + i - 1] = goals[i]
      OBVIOUS
    <3>1. /\ Len(first) + i - 1 \in 1..(Len(first) + Len(goals) - 1)
          /\ ~(Len(first) + i - 1 <= Len(first))
          /\ (Len(first) + i - 1) - Len(first) = i - 1
          /\ i - 1 \in 1..(Len(goals) - 1) /\ (i - 1) + 1 = i
      BY <2>1
    <3> QED
      BY <3>1, <2>3, <1>7
  <2>5. \A i \in (Len(first) + 1)..(Len(first) + Len(goals) - 1) :
          goals'[i] = goals[i - Len(first) + 1]
    <3> SUFFICES ASSUME NEW i \in (Len(first) + 1)..(Len(first) + Len(goals) - 1)
                 PROVE  goals'[i] = goals[i - Len(first) + 1]
      OBVIOUS
    <3>1. /\ i \in 1..(Len(first) + Len(goals) - 1) /\ ~(i <= Len(first))
          /\ i - Len(first) \in 1..(Len(goals) - 1)
      BY <2>1
    <3> QED
      BY <3>1, <2>3, <1>7
  <2>6. \A i \in 1..Len(first) : goals'[i] = first[i]
    BY <2>1, <2>3
  <2> QED
    BY <2>1, <2>2, <2>4, <2>5, <2>6
<1>10. Len(first) \in Nat /\ Len(goals) \in Nat /\ DOMAIN goals = 1..Len(goals)
       /\ DOMAIN first = 1..Len(first)
  BY <1>2, <1>5, <1>6
<1>11. ASSUME NEW g \in Pending'
       PROVE  g \in Pending \cup {[goal |-> x, path |-> path] : x \in new}
  <2>1. PICK i \in DOMAIN goals' : g = goals'[i]
    BY DEF Pending
  <2>2. CASE i \in 1..Len(first)
    BY <2>1, <2>2, <1>6, <1>9, <1>10 DEF first
  <2>3. CASE i \in (Len(first) + 1)..(Len(first) + Len(goals) - 1)
    <3>1. i - Len(first) + 1 \in DOMAIN goals
      BY <2>3, <1>10
    <3> QED
      BY <2>1, <2>3, <3>1, <1>9 DEF Pending
  <2> QED
    BY <2>1, <2>2, <2>3, <1>9, <1>10
<1>12. ASSUME NEW x \in new
       PROVE  [goal |-> x, path |-> path] \in Pending'
  <2>1. PICK i \in DOMAIN first : q[i] = x
    BY <1>6
  <2>2. first[i] = [goal |-> x, path |-> path]
    BY <2>1 DEF first
  <2>3. i \in DOMAIN goals' /\ goals'[i] = first[i]
    BY <1>2, <1>9, <1>10
  <2> QED
    BY <2>2, <2>3 DEF Pending
<1>13. ASSUME NEW g \in Pending, g # Head(goals)
       PROVE  g \in Pending'
  <2>1. PICK i \in DOMAIN goals : g = goals[i]
    BY DEF Pending
  <2>2. i \in 2..Len(goals) /\ Len(first) + i - 1 \in DOMAIN goals'
    BY <2>1, <1>2, <1>9, <1>10, <1>13
  <2> QED
    BY <2>1, <2>2, <1>9 DEF Pending
<1> QED
  BY <1>3, <1>9, <1>11, <1>12, <1>13 DEF new

LEMMA RevisitPending ==
  ASSUME AuthzTypeOK, Revisit
  PROVE  /\ goals' \in Seq(Goal)
         /\ Pending' \subseteq Pending
         /\ \A g \in Pending : g = Head(goals) \/ g \in Pending'
<1>1. /\ goals \in Seq(Goal) /\ goals # <<>> /\ goals' = Tail(goals)
      /\ Head(goals) = goals[1]
  BY DEF AuthzTypeOK, Revisit
<1>2. /\ goals' \in Seq(Goal) /\ Len(goals) \in Nat
      /\ DOMAIN goals = 1..Len(goals) /\ DOMAIN goals' = 1..(Len(goals) - 1)
      /\ \A i \in 1..(Len(goals) - 1) : goals'[i] = goals[i + 1]
  BY <1>1
<1>3. \A i \in DOMAIN goals' : i + 1 \in DOMAIN goals
  BY <1>2
<1>4. \A i \in DOMAIN goals : i = 1 \/ (i - 1 \in DOMAIN goals' /\ goals'[i - 1] = goals[i])
  BY <1>2
<1>5. Pending' \subseteq Pending
  <2> SUFFICES ASSUME NEW i \in DOMAIN goals' PROVE goals'[i] \in Pending
    BY DEF Pending
  <2>1. i + 1 \in DOMAIN goals /\ goals'[i] = goals[i + 1]
    BY <1>2, <1>3
  <2> QED
    BY <2>1 DEF Pending
<1>6. \A g \in Pending : g = Head(goals) \/ g \in Pending'
  <2> SUFFICES ASSUME NEW i \in DOMAIN goals
               PROVE  goals[i] = Head(goals) \/ goals[i] \in Pending'
    BY DEF Pending
  <2> QED
    BY <1>1, <1>4 DEF Pending
<1> QED
  BY <1>2, <1>5, <1>6

-----------------------------------------------------------------------------
(* The inductive invariant.                                                *)

\* g was reached from what is asked, each node of its path by a ground of the one
\* before.
Reached(g) ==
  IF g.path = <<>> THEN g.goal = query.node
  ELSE /\ g.path[1] = query.node
       /\ \A j \in 1..(Len(g.path) - 1) :
            g.path[j + 1] \in GoalsOf(graph, Principal, g.path[j])
       /\ g.goal \in GoalsOf(graph, Principal, g.path[Len(g.path)])

\* g being granted grants what is asked.
Suffices(g) ==
  \A S \in SUBSET Defined :
    Closed(graph, Principal, S) /\ (g.goal = Principal \/ g.goal \in S) => query.node \in S

\* n is no ground that is overlooked: it was visited, or it will be.
Covered(n) == n \in seen \/ \E g \in Pending : g.goal = n

Search ==
  Deciding => /\ Covered(query.node)
              /\ \A n \in seen : \A x \in GoalsOf(graph, Principal, n) : Covered(x)
              /\ \A g \in Pending : Reached(g) /\ Suffices(g)

IInv == AuthzTypeOK /\ RecursionBounded /\ Search /\ ReasonsProve

\* A node outside a closed set has no ground in it.
LEMMA ClosedStep ==
  ASSUME NEW S \in SUBSET Defined, Closed(graph, Principal, S), NEW n \in Nodes,
         NEW x \in GoalsOf(graph, Principal, n), x = Principal \/ x \in S
  PROVE  n \in S
<1>1. n \in Defined
  BY DEF Defined, GoalsOf
<1> QED
  BY <1>1 DEF Closed

LEMMA InitInv == AuthzInit => IInv
<1> SUFFICES ASSUME AuthzInit PROVE IInv
  OBVIOUS
<1>1. AuthzTypeOK
  BY DEF AuthzInit, AuthzTypeOK
<1>2. RecursionBounded /\ Search /\ ReasonsProve
  BY DEF AuthzInit, RecursionBounded, Search, ReasonsProve, Deciding
<1> QED
  BY <1>1, <1>2 DEF IInv

LEMMA AskInv ==
  ASSUME IInv, NEW c \in Checks, Ask(c)
  PROVE  IInv'
<1> DEFINE g0 == [goal |-> c.node, path |-> <<>>]
<1>1. c \in Check /\ c.node \in Nodes /\ c.principal \in Subjects
  BY AuthzAssumption DEF Check
<1>2. query' = c /\ goals' = <<g0>> /\ seen' = {} /\ UNCHANGED <<graph, log>>
  BY DEF Ask, Known
<1>3. g0 \in Goal
  BY <1>1 DEF Goal
<1>4. /\ goals' \in Seq(Goal) /\ DOMAIN goals' = {1} /\ goals'[1] = g0
      /\ g0.path = <<>> /\ g0.goal = query'.node
  BY <1>2, <1>3
<1> HIDE DEF g0
<1>5. AuthzTypeOK'
  BY <1>1, <1>2, <1>4 DEF IInv, AuthzTypeOK
<1>6. RecursionBounded'
  BY <1>4 DEF RecursionBounded
<1>7. Pending' = {g0}
  BY <1>4 DEF Pending
<1>8. Search'
  <2>1. Covered(query.node)'
    BY <1>4, <1>7 DEF Covered
  <2>2. Reached(g0)'
    BY <1>4 DEF Reached
  <2>3. Suffices(g0)'
    <3>1. query'.node # Principal'
      BY <1>1, <1>2, AuthzAssumption DEF Principal, Nodes, Subjects
    <3> QED
      BY <3>1, <1>4 DEF Suffices
  <2>4. \A g \in Pending' : Reached(g)' /\ Suffices(g)'
    BY <1>7, <2>2, <2>3
  <2> QED
    BY <1>2, <2>1, <2>4 DEF Search
<1>9. ReasonsProve'
  BY <1>2 DEF IInv, ReasonsProve
<1> QED
  BY <1>5, <1>6, <1>8, <1>9 DEF IInv

LEMMA RevisitInv ==
  ASSUME IInv, Revisit
  PROVE  IInv'
<1>1. UNCHANGED <<graph, query, seen, log>> /\ Head(goals).goal \in seen /\ Deciding
  BY DEF Revisit
<1>2. /\ goals' \in Seq(Goal) /\ Pending' \subseteq Pending
      /\ \A g \in Pending : g = Head(goals) \/ g \in Pending'
  BY RevisitPending DEF IInv
<1>3. \A i \in DOMAIN goals' : \E j \in DOMAIN goals : goals'[i] = goals[j]
  BY <1>2 DEF Pending
<1>4. AuthzTypeOK'
  BY <1>1, <1>2, <1>3 DEF IInv, AuthzTypeOK
<1>5. RecursionBounded'
  BY <1>1, <1>3 DEF IInv, RecursionBounded
<1>6. \A n : Covered(n) => Covered(n)'
  BY <1>1, <1>2 DEF Covered
<1>7. \A g \in Pending' : Reached(g)' /\ Suffices(g)'
  BY <1>1, <1>2 DEF IInv, Search, Reached, Suffices, Principal
<1>8. Search'
  BY <1>1, <1>6, <1>7 DEF IInv, Search, Principal
<1>9. ReasonsProve'
  BY <1>1 DEF IInv, ReasonsProve
<1> QED
  BY <1>4, <1>5, <1>8, <1>9 DEF IInv

LEMMA VisitInv ==
  ASSUME IInv, Visit
  PROVE  IInv'
<1> DEFINE h == Head(goals)
           n == h.goal
           path == Append(h.path, n)
           new == {[goal |-> x, path |-> path] : x \in GoalsOf(graph, Principal, n)}
<1>1. /\ UNCHANGED <<graph, query, log>> /\ seen' = seen \cup {n} /\ n \notin seen
      /\ Deciding
  BY DEF Visit, Mark
<1>2. /\ n \in Nodes /\ goals' \in Seq(Goal) /\ Pending' \subseteq Pending \cup new
      /\ \A x \in GoalsOf(graph, Principal, n) : [goal |-> x, path |-> path] \in Pending'
      /\ \A g \in Pending : g = h \/ g \in Pending'
  BY VisitPending DEF IInv, Link
<1>3. h \in Pending /\ h \in Goal /\ h.path \in Seq(Nodes)
  <2>1. 1 \in DOMAIN goals /\ h = goals[1] /\ goals \in Seq(Goal)
    BY DEF IInv, AuthzTypeOK, Visit
  <2>2. h \in Goal /\ h \in Pending
    BY <2>1 DEF Pending
  <2> HIDE DEF h
  <2> QED
    BY <2>2 DEF Goal
<1>4. /\ path \in Seq(Nodes) /\ Len(path) = Len(h.path) + 1 /\ path # <<>>
      /\ Len(h.path) \in Nat /\ DOMAIN h.path = 1..Len(h.path)
      /\ DOMAIN path = 1..Len(path) /\ path[Len(path)] = n
      /\ \A j \in DOMAIN h.path : path[j] = h.path[j]
  BY <1>2, <1>3
<1> HIDE DEF h, n, path
<1>5. Principal' = Principal
  BY <1>1 DEF Principal
<1>6. GoalsOf(graph, Principal, n) \subseteq Nodes \cup {Principal}
  BY <1>1, <1>2, GoalsType, KnownTypes DEF IInv, AuthzTypeOK
<1>7. \A i \in DOMAIN goals' : goals'[i] \in Pending'
  BY DEF Pending
<1>8. AuthzTypeOK'
  <2>1. \A i \in DOMAIN goals' : goals'[i].goal \in Nodes \cup {query.principal}
    <3> SUFFICES ASSUME NEW i \in DOMAIN goals'
                 PROVE  goals'[i].goal \in Nodes \cup {query.principal}
      OBVIOUS
    <3>1. CASE goals'[i] \in new
      BY <3>1, <1>6 DEF Principal
    <3>2. CASE goals'[i] \in Pending
      BY <3>2 DEF Pending, IInv, AuthzTypeOK
    <3> QED
      BY <1>2, <1>7, <3>1, <3>2
  <2> QED
    BY <1>1, <1>2, <2>1 DEF IInv, AuthzTypeOK
<1>9. RecursionBounded'
  <2>1. ASSUME NEW g \in Pending
        PROVE  \A j, k \in DOMAIN g.path : g.path[j] \in seen /\ (g.path[j] = g.path[k] => j = k)
    BY <2>1 DEF Pending, IInv, RecursionBounded
  <2>2. \A j, k \in DOMAIN path : path[j] \in seen' /\ (path[j] = path[k] => j = k)
    <3>1. \A j \in DOMAIN path : j = Len(path) \/ j \in DOMAIN h.path
      BY <1>4
    <3>2. \A j \in DOMAIN h.path : path[j] \in seen /\ path[j] # n
      BY <1>1, <1>3, <1>4, <2>1
    <3> QED
      BY <1>1, <1>3, <1>4, <2>1, <3>1, <3>2
  <2> SUFFICES ASSUME NEW i \in DOMAIN goals'
               PROVE  \A j, k \in DOMAIN goals'[i].path :
                        /\ goals'[i].path[j] \in seen'
                        /\ goals'[i].path[j] = goals'[i].path[k] => j = k
    BY DEF RecursionBounded
  <2>3. CASE goals'[i] \in new
    BY <2>2, <2>3
  <2>4. CASE goals'[i] \in Pending
    BY <2>1, <2>4, <1>1
  <2> QED
    BY <1>2, <1>7, <2>3, <2>4
<1>10. \A x : Covered(x) => Covered(x)'
  <2> SUFFICES ASSUME NEW x, Covered(x) PROVE Covered(x)'
    OBVIOUS
  <2>1. CASE x \in seen
    BY <2>1, <1>1 DEF Covered
  <2>2. CASE \E g \in Pending : g.goal = x
    BY <2>2, <1>1, <1>2 DEF Covered, n
  <2> QED
    BY <2>1, <2>2 DEF Covered
<1>11. \A x \in GoalsOf(graph, Principal, n) : Covered(x)'
  BY <1>2 DEF Covered
<1>12. ASSUME NEW g \in new
       PROVE  Reached(g)' /\ Suffices(g)'
  <2>1. PICK x \in GoalsOf(graph, Principal, n) : g = [goal |-> x, path |-> path]
    OBVIOUS
  <2>2. Reached(h) /\ Suffices(h) /\ h.goal = n
    BY <1>1, <1>3 DEF IInv, Search, n
  <2>3. Suffices(g)'
    <3> SUFFICES ASSUME NEW S \in SUBSET Defined, Closed(graph, Principal, S),
                        x = Principal \/ x \in S
                 PROVE  query.node \in S
      BY <1>1, <1>5, <2>1 DEF Suffices
    <3>1. n \in S
      BY <1>2, ClosedStep
    <3> QED
      BY <2>2, <3>1 DEF Suffices
  <2>4. path[1] = query.node
    <3>1. CASE h.path = <<>>
      BY <3>1, <1>4, <2>2 DEF Reached
    <3>2. CASE h.path # <<>>
      <4>1. 1 \in DOMAIN h.path
        BY <3>2, <1>3, <1>4
      <4> QED
        BY <3>2, <4>1, <1>4, <2>2 DEF Reached
    <3> QED
      BY <3>1, <3>2
  <2>5. \A j \in 1..(Len(path) - 1) : path[j + 1] \in GoalsOf(graph, Principal, path[j])
    <3> SUFFICES ASSUME NEW j \in 1..(Len(path) - 1)
                 PROVE  path[j + 1] \in GoalsOf(graph, Principal, path[j])
      OBVIOUS
    <3>1. h.path # <<>> /\ j \in DOMAIN h.path /\ path[j] = h.path[j]
      BY <1>3, <1>4
    <3>2. CASE j = Len(h.path)
      BY <3>1, <3>2, <1>4, <2>2 DEF Reached
    <3>3. CASE j # Len(h.path)
      <4>1. j \in 1..(Len(h.path) - 1) /\ j + 1 \in DOMAIN h.path
        BY <3>1, <3>3, <1>4
      <4> QED
        BY <3>1, <4>1, <1>4, <2>2 DEF Reached
    <3> QED
      BY <3>2, <3>3
  <2> QED
    BY <1>1, <1>4, <1>5, <2>1, <2>3, <2>4, <2>5 DEF Reached
<1>13. ASSUME NEW g \in Pending
       PROVE  Reached(g)' /\ Suffices(g)'
  BY <1>1, <1>5 DEF IInv, Search, Reached, Suffices
<1>14. Search'
  <2>1. Covered(query.node)'
    BY <1>1, <1>10 DEF IInv, Search
  <2>2. \A m \in seen' : \A x \in GoalsOf(graph, Principal, m) : Covered(x)'
    BY <1>1, <1>10, <1>11 DEF IInv, Search
  <2>3. \A g \in Pending' : Reached(g)' /\ Suffices(g)'
    BY <1>2, <1>12, <1>13
  <2> QED
    BY <1>1, <1>5, <2>1, <2>2, <2>3 DEF Search
<1>15. ReasonsProve'
  BY <1>1 DEF IInv, ReasonsProve
<1> QED
  BY <1>8, <1>9, <1>14, <1>15 DEF IInv

\* What the top of the goals shows when the check ends by it.
LEMMA GrantingShows ==
  ASSUME IInv, Deciding, Granting, NEW h, h = Head(goals)
  PROVE  /\ h.path \in Seq(Nodes) /\ h.path # <<>> /\ h.path[1] = query.node
         /\ \A j \in 1..(Len(h.path) - 1) :
              h.path[j + 1] \in GoalsOf(graph, Principal, h.path[j])
         /\ Principal \in GoalsOf(graph, Principal, h.path[Len(h.path)])
         /\ Suffices(h) /\ h.goal = Principal
<1>1. 1 \in DOMAIN goals /\ h = goals[1] /\ goals \in Seq(Goal)
  BY DEF IInv, AuthzTypeOK, Granting
<1>2. h \in Goal /\ h \in Pending
  BY <1>1 DEF Pending
<1>3. Reached(h) /\ Suffices(h)
  BY <1>2 DEF IInv, Search
<1>4. h.goal = Principal /\ Principal # query.node
  BY KnownTypes DEF Granting, Principal, IInv
<1>5. h.path \in Seq(Nodes)
  BY <1>2 DEF Goal
<1> QED
  BY <1>3, <1>4, <1>5 DEF Reached

LEMMA DecideInv ==
  ASSUME IInv, Decide
  PROVE  IInv'
<1> DEFINE why == IF Granting THEN Head(goals).path ELSE <<>>
           entry == [check |-> query, allow |-> Granting, reason |-> why]
<1>1. /\ Deciding /\ UNCHANGED <<graph, seen>> /\ log' = Append(log, entry)
      /\ query' = Nil /\ goals' = <<>>
  BY DEF Decide
<1>2. why \in Seq(Nodes)
  BY <1>1, GrantingShows
<1>3. entry \in DecisionLogEntry
  <2>1. query \in Check
    BY <1>1, KnownTypes DEF IInv
  <2> HIDE DEF why
  <2>2. Granting \in BOOLEAN
    BY DEF Granting
  <2> QED
    BY <1>2, <2>1, <2>2 DEF DecisionLogEntry
<1>4. entry.allow = Granting /\ entry.reason = why /\ entry.check = query
  OBVIOUS
<1>5. Granting =>
        /\ why # <<>> /\ why[1] = query.node
        /\ \A j \in 1..(Len(why) - 1) : why[j + 1] \in GoalsOf(graph, Principal, why[j])
        /\ Principal \in GoalsOf(graph, Principal, why[Len(why)])
  BY <1>1, GrantingShows
<1> HIDE DEF entry, why
<1>6. /\ log \in Seq(DecisionLogEntry) /\ log' \in Seq(DecisionLogEntry)
      /\ DOMAIN log' = 1..(Len(log) + 1) /\ Len(log) \in Nat /\ DOMAIN log = 1..Len(log)
      /\ log'[Len(log) + 1] = entry
      /\ \A i \in DOMAIN log : log'[i] = log[i]
  BY <1>1, <1>3 DEF IInv, AuthzTypeOK
<1>7. AuthzTypeOK'
  BY <1>1, <1>6 DEF IInv, AuthzTypeOK
<1>8. RecursionBounded'
  BY <1>1 DEF RecursionBounded
<1>9. Search'
  BY <1>1 DEF Search, Deciding
<1>10. ReasonsProve'
  <2> SUFFICES ASSUME NEW i \in DOMAIN log', log'[i].allow
               PROVE  LET r == log'[i].reason
                          p == log'[i].check.principal
                      IN /\ r # <<>> /\ r[1] = log'[i].check.node
                         /\ \A j \in 1..(Len(r) - 1) : r[j + 1] \in GoalsOf(graph, p, r[j])
                         /\ p \in GoalsOf(graph, p, r[Len(r)])
    BY <1>1 DEF ReasonsProve
  <2>1. CASE i \in DOMAIN log
    BY <2>1, <1>6 DEF IInv, ReasonsProve
  <2>2. CASE i = Len(log) + 1
    BY <2>2, <1>4, <1>5, <1>6 DEF Principal
  <2> QED
    BY <2>1, <2>2, <1>6
<1> QED
  BY <1>7, <1>8, <1>9, <1>10 DEF IInv

LEMMA StutterInv == IInv /\ UNCHANGED authz => IInv'
<1> SUFFICES ASSUME IInv, UNCHANGED authz PROVE IInv'
  OBVIOUS
<1>1. UNCHANGED <<graph, query, goals, seen, log>>
  BY DEF authz
<1> QED
  BY <1>1 DEF IInv, AuthzTypeOK, RecursionBounded, Search, ReasonsProve, Deciding, Covered,
              Pending, Reached, Suffices, Principal

LEMMA InductiveInvariant == AuthzSpec => []IInv
<1>1. IInv /\ [AuthzNext]_authz => IInv'
  BY AskInv, RevisitInv, VisitInv, DecideInv, StutterInv DEF AuthzNext
<1> QED
  BY <1>1, InitInv, PTL DEF AuthzSpec

-----------------------------------------------------------------------------
(* The theorems.                                                           *)

\* Whatever the model and the tuples, the decision point stays in its state space: the
\* goals are nodes or the principal, the visited set holds nodes, the log entries.
THEOREM TypeCorrect == AuthzSpec => []AuthzTypeOK
<1>1. IInv => AuthzTypeOK
  BY DEF IInv
<1> QED
  BY <1>1, InductiveInvariant, PTL

\* The path that a grant is logged with proves the grant.
THEOREM ReasonsAreProofs == AuthzSpec => []ReasonsProve
<1>1. IInv => ReasonsProve
  BY DEF IInv
<1> QED
  BY <1>1, InductiveInvariant, PTL

\* No relationship loop makes check() recurse into what it is already checking.
THEOREM RecursionIsBounded == AuthzSpec => []RecursionBounded
<1>1. IInv => RecursionBounded
  BY DEF IInv
<1> QED
  BY <1>1, InductiveInvariant, PTL

\* An exhausted search denies what is not granted: the nodes it never visited are
\* closed.
LEMMA DenialIsRight ==
  ASSUME IInv, Deciding, goals = <<>>
  PROVE  ~Granted(graph, Principal, query.node)
<1> DEFINE S == Defined \ seen
<1>1. Pending = {}
  BY DEF Pending
<1>2. query.node \in seen /\ \A n \in seen : \A x \in GoalsOf(graph, Principal, n) : x \in seen
  BY <1>1 DEF IInv, Search, Covered
<1>3. Principal \notin seen
  BY KnownTypes DEF IInv, AuthzTypeOK
<1>4. Closed(graph, Principal, S)
  BY <1>2, <1>3 DEF Closed, Defined
<1> QED
  BY <1>2, <1>4 DEF Granted

LEMMA DecisionStep ==
  ASSUME IInv, [AuthzNext]_authz, NEW i \in DOMAIN log' \ DOMAIN log
  PROVE  Right(log'[i])
<1>1. CASE UNCHANGED log
  BY <1>1
<1>2. CASE Decide
  <2> DEFINE why == IF Granting THEN Head(goals).path ELSE <<>>
             entry == [check |-> query, allow |-> Granting, reason |-> why]
  <2>1. entry.allow = Granting /\ entry.check = query /\ log' = Append(log, entry)
    BY <1>2 DEF Decide
  <2> HIDE DEF entry
  <2>2. log'[i] = entry
    BY <2>1 DEF IInv, AuthzTypeOK
  <2>3. Deciding /\ (Granting \/ goals = <<>>)
    BY <1>2 DEF Decide
  <2>4. Granting <=> Granted(graph, Principal, query.node)
    <3>1. CASE Granting
      <4>1. Suffices(Head(goals)) /\ Head(goals).goal = Principal
        BY <2>3, <3>1, GrantingShows
      <4> QED
        BY <3>1, <4>1 DEF Suffices, Granted
    <3>2. CASE ~Granting
      BY <2>3, <3>2, DenialIsRight
    <3> QED
      BY <3>1, <3>2
  <2> QED
    BY <2>1, <2>2, <2>4 DEF Right, Principal
<1> QED
  BY <1>1, <1>2 DEF AuthzNext, Ask, Revisit, Visit, authz

\* Every decision is the least fixpoint's: the visited set, the order of the tuples and
\* the stop at the first success neither grant nor deny anything of their own.
THEOREM DecisionsAreRight == AuthzSpec => DecisionsRight
<1>1. IInv /\ [AuthzNext]_authz => [\A i \in DOMAIN log' \ DOMAIN log : Right(log'[i])]_authz
  BY DecisionStep
<1> QED
  BY <1>1, InductiveInvariant, PTL DEF AuthzSpec, DecisionsRight
-----------------------------------------------------------------------------
(* What the model is for.                                                  *)

\* Every object is of a type of the Case model, or has no relations to check.
CaseTypes == \A o \in Objects : Model[TypeOf[o]] \in {Undefined, Team, Case, Association}

\* A tuple names a user, an object, or the members of one: model.json declares no
\* direct users but these.
DeclaredUsers == \A t \in Tuples : t.user \in Nodes => t.user[2] = "member"

WithoutAssociations(g) == {t \in g : t.relation # "association"}

\* Of the relations of the Case model only can_view rests on an association.
LEMMA RewritesOf ==
  ASSUME CaseTypes, NEW n \in Nodes, n[2] # "can_view"
  PROVE  /\ Model[TypeOf[n[1]]][n[2]] \subseteq {Self, Computed("assignee"), Via("owner", "editor")}
         /\ n[2] = "association" => Model[TypeOf[n[1]]][n[2]] = {}
<1>1. n[1] \in Objects /\ n[2] \in Relations
  BY DEF Nodes
<1>2. PICK m \in {Undefined, Team, Case, Association} : Model[TypeOf[n[1]]] = m
  BY <1>1 DEF CaseTypes
<1>3. /\ Undefined[n[2]] = {}
      /\ Team[n[2]] \subseteq {Self} /\ (n[2] = "association" => Team[n[2]] = {})
  BY <1>1 DEF Undefined, Team
<1>4. Association[n[2]] \subseteq {Self} /\ (n[2] = "association" => Association[n[2]] = {})
  BY <1>1 DEF Undefined, Association
<1>5. /\ Case[n[2]] \subseteq {Self, Computed("assignee"), Via("owner", "editor")}
      /\ n[2] = "association" => Case[n[2]] = {}
  BY <1>1 DEF Undefined, Case, CanModify
<1> QED
  BY <1>2, <1>3, <1>4, <1>5

\* So the associations ground nothing else, and nothing else rests on can_view.
LEMMA GroundsWithout ==
  ASSUME CaseTypes, DeclaredUsers, NEW g \in SUBSET Tuples, NEW p \in Subjects,
         NEW n \in Nodes, n[2] # "can_view", NEW x \in GoalsOf(g, p, n)
  PROVE  /\ x \in GoalsOf(WithoutAssociations(g), p, n)
         /\ x # p => x[2] # "can_view"
<1> DEFINE h == WithoutAssociations(g)
<1>1. \A o, r : r # "association" => UsersOf(h, o, r) = UsersOf(g, o, r)
  BY DEF UsersOf, WithoutAssociations
<1>2. PICK rw \in Model[TypeOf[n[1]]][n[2]] :
        x \in CASE rw.kind = "direct"          -> Direct(g, p, n)
                [] rw.kind = "computedUserset" -> {<<n[1], rw.relation>>}
                [] rw.kind = "tupleToUserset"  -> Through(g, n, rw.tupleset, rw.relation)
  BY DEF GoalsOf
<1>3. rw \in {Self, Computed("assignee"), Via("owner", "editor")} /\ n[2] # "association"
  BY <1>2, RewritesOf
<1> SUFFICES /\ x \in CASE rw.kind = "direct"          -> Direct(h, p, n)
                        [] rw.kind = "computedUserset" -> {<<n[1], rw.relation>>}
                        [] rw.kind = "tupleToUserset"  -> Through(h, n, rw.tupleset, rw.relation)
             /\ x # p => x[2] # "can_view"
  BY <1>2 DEF GoalsOf
<1> HIDE DEF h
<1>4. CASE rw = Self
  <2>1. rw.kind = "direct"
    BY <1>4 DEF Self
  <2>2. x \in Direct(g, p, n)
    BY <1>2, <2>1
  <2>3. Direct(h, p, n) = Direct(g, p, n)
    BY <1>1, <1>3 DEF Direct
  <2>4. x # p => x \in Nodes /\ \E t \in g : t.user = x
    BY <2>2 DEF Direct, UsersOf
  <2>5. x # p => x[2] # "can_view"
    BY <2>4 DEF DeclaredUsers
  <2> QED
    BY <2>1, <2>2, <2>3, <2>5
<1>5. CASE rw = Computed("assignee")
  <2>1. rw.kind = "computedUserset" /\ rw.relation = "assignee"
    BY <1>5 DEF Computed
  <2>2. x = <<n[1], "assignee">>
    BY <1>2, <2>1
  <2> QED
    BY <2>1, <2>2
<1>6. CASE rw = Via("owner", "editor")
  <2>1. rw.kind = "tupleToUserset" /\ rw.tupleset = "owner" /\ rw.relation = "editor"
    BY <1>6 DEF Via
  <2>2. x \in Through(g, n, "owner", "editor")
    BY <1>2, <2>1
  <2>3. Through(h, n, "owner", "editor") = Through(g, n, "owner", "editor")
    BY <1>1 DEF Through
  <2>4. x[2] = "editor"
    BY <2>2 DEF Through
  <2> QED
    BY <2>1, <2>2, <2>3, <2>4
<1> QED
  BY <1>3, <1>4, <1>5, <1>6

\* A set that is closed without the associations, and holds all that is can_view, is
\* closed with them.
LEMMA GrantedWithout ==
  ASSUME CaseTypes, DeclaredUsers, NEW g \in SUBSET Tuples, NEW p \in Subjects,
         NEW n \in Nodes, n[2] # "can_view", Granted(g, p, n)
  PROVE  Granted(WithoutAssociations(g), p, n)
<1> SUFFICES ASSUME NEW S \in SUBSET Defined, Closed(WithoutAssociations(g), p, S)
             PROVE  n \in S
  BY DEF Granted
<1> DEFINE T == S \cup {m \in Defined : m[2] = "can_view"}
<1>1. T \in SUBSET Defined
  OBVIOUS
<1>2. ASSUME NEW m \in Defined \ T, NEW x \in GoalsOf(g, p, m)
      PROVE  x # p /\ x \notin T
  <2>1. m \in Nodes /\ m[2] # "can_view" /\ m \in Defined \ S
    BY DEF Defined
  <2>2. x \in GoalsOf(WithoutAssociations(g), p, m) /\ (x # p => x[2] # "can_view")
    BY <1>2, <2>1, GroundsWithout
  <2> QED
    BY <2>1, <2>2 DEF Closed
<1>3. Closed(g, p, T)
  BY <1>2 DEF Closed
<1>4. n \in T
  BY <1>1, <1>3 DEF Granted
<1> QED
  BY <1>4

\* An association shows its Cases and grants no modification: whoever is allowed to
\* modify a Case would be without any association, for all sets of Cases, teams,
\* associations and tuples.
THEOREM ReadsWithoutLeak ==
  ASSUME CaseTypes, DeclaredUsers
  PROVE  AuthzSpec => ReadWithoutLeak
<1>1. ASSUME IInv, IInv', [AuthzNext]_authz,
             NEW i \in DOMAIN log' \ DOMAIN log, log'[i].allow, log'[i].check.node[2] = "can_modify"
      PROVE  Granted(WithoutAssociations(graph), log'[i].check.principal, log'[i].check.node)
  <2>1. Right(log'[i])
    BY <1>1, DecisionStep
  <2>2. graph \in SUBSET Tuples /\ log' \in Seq(DecisionLogEntry)
    BY <1>1 DEF IInv, AuthzTypeOK
  <2>3. log'[i].check \in Check
    <3>1. i \in DOMAIN log'
      BY <1>1
    <3>2. log'[i] \in DecisionLogEntry
      BY <2>2, <3>1
    <3> QED
      BY <3>2 DEF DecisionLogEntry
  <2>4. log'[i].check.principal \in Subjects /\ log'[i].check.node \in Nodes
    BY <2>3 DEF Check
  <2> QED
    BY <1>1, <2>1, <2>2, <2>4, GrantedWithout DEF Right
<1>2. IInv /\ IInv' /\ [AuthzNext]_authz
        => [\A i \in DOMAIN log' \ DOMAIN log :
              log'[i].allow /\ log'[i].check.node[2] = "can_modify" =>
                Granted({t \in graph : t.relation # "association"},
                        log'[i].check.principal, log'[i].check.node)]_authz
  BY <1>1 DEF WithoutAssociations
<1> QED
  BY <1>2, InductiveInvariant, PTL DEF AuthzSpec, ReadWithoutLeak
=============================================================================
