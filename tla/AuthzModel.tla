----------------------------- MODULE AuthzModel -----------------------------
(***************************************************************************)
(* The relations of Cases and what they rest on, as schemas/authz/         *)
(* model.json defines them, and what the model is for.  Relations that     *)
(* only tuples are read of (owner, association) need no rewrite.           *)
(***************************************************************************)
EXTENDS Authz

Self == [kind |-> "direct"]
Computed(r) == [kind |-> "computedUserset", relation |-> r]
Via(tupleset, r) == [kind |-> "tupleToUserset", tupleset |-> tupleset, relation |-> r]

CanModifyLeaky ==                      \* mutant: association readers may write
  {Computed("assignee"), Via("owner", "editor"), Via("association", "reader")}

CanModify == {Computed("assignee"), Via("owner", "editor")}

CanView == {Computed("can_modify"), Via("owner", "viewer"), Via("owner", "member"),
            Via("association", "reader")}

Undefined == [r \in Relations |-> {}]

Team == [r \in Relations |-> IF r \in {"member", "editor", "viewer"} THEN {Self} ELSE {}]

Association == [Undefined EXCEPT !["reader"] = {Self}]

Case == [Undefined EXCEPT !["assignee"] = {Self}, !["can_modify"] = CanModify,
                          !["can_view"] = CanView]

\* "read without leak" (AuthzEngineTest.kt:66): an association shows its Cases to
\* its readers; it lets nobody modify them who could not without it.
ReadWithoutLeak ==
  [][\A i \in DOMAIN log' \ DOMAIN log :
       log'[i].allow /\ log'[i].check.node[2] = "can_modify" =>
         Granted({t \in graph : t.relation # "association"},
                 log'[i].check.principal, log'[i].check.node)]_authz
=============================================================================
