------------------------------- MODULE MCCore -------------------------------
(***************************************************************************)
(* The two parts of the core that the flow calls, for TLC: the entity      *)
(* store with its callers (MCBff), and the decision point.  They share no  *)
(* state: one runs while the other stands idle.  The decision point has    *)
(* one Case, owned by a team that shares its members with another one in a *)
(* loop, and associated with a group.                                      *)
(***************************************************************************)
EXTENDS MCBff, AuthzModel

VARIABLE part

SomeObjects   == {"ann", "bob", "lead", "sub", "case", "group"}
SomeRelations == {"member", "editor", "reader", "assignee", "can_modify", "can_view",
                  "owner", "association", "viewer"}
Types == [ann |-> "user", bob |-> "user", lead |-> "team", sub |-> "team", case |-> "case",
          group |-> "association"]
CaseModel == [user |-> Undefined, team |-> Team, case |-> Case,
              association |-> Association]

Tuple(o, r, u) == [object |-> o, relation |-> r, user |-> u]
Ann == <<"ann", Nil>>
Bob == <<"bob", Nil>>

SomeTuples == {
  Tuple("lead", "member", <<"sub", "member">>), Tuple("sub", "member", <<"lead", "member">>),
  Tuple("sub", "member", Ann), Tuple("lead", "editor", <<"lead", "member">>),
  Tuple("lead", "viewer", Bob), Tuple("case", "owner", <<"lead", Nil>>),
  Tuple("case", "assignee", Ann), Tuple("case", "association", <<"group", Nil>>),
  Tuple("group", "reader", <<"sub", "member">>)}

SomeChecks == {[principal |-> Ann, node |-> <<"case", r>>] : r \in {"can_view", "can_modify"}}

-----------------------------------------------------------------------------

Init ==
  /\ BffInit /\ AuthzInit
  /\ \/ part = "store" /\ graph = {}
     \/ part = "authz" /\ binding = "ts"

Next ==
  \/ part = "store" /\ BffNext /\ UNCHANGED <<part, authz>>
  \/ part = "authz" /\ AuthzNext /\ UNCHANGED <<part, bff>>

Spec == Init /\ [][Next]_<<part, bff, authz>>
=============================================================================
