---------------------------- MODULE StoreHarness ----------------------------
(***************************************************************************)
(* The harnesses of the entity store, its API and the authorization        *)
(* engine.                                                                 *)
(*   entity-store  EntityStoreRunner.kt; fixtures: vectors of operations,  *)
(*                 "misfit" when a payload does not conform to the entity  *)
(*   entity-api    packages/api/src/vectors.ts, contract-run.ts; fixtures: *)
(*                 a "full" vector, which calls every operation and sends  *)
(*                 a malformed write, and one that only "reads"            *)
(*   authz         AuthzRunner.kt; fixtures: the model, a file of          *)
(*                 design-time vectors and one of runtime vectors          *)
(***************************************************************************)
EXTENDS Workspace

\* runVector: the first failure of the operations' own expectations, the audit
\* log, the outbox and the relay is the vector's.
StoreOracle == {"reads", "audit", "outbox", "delivered"}

EntityStoreResults(v) ==
  LET rows == RowsFor(v, {"vector"}, StoreOracle, "audit")
      run == [rows |-> rows]
  IN  [rows            |-> rows,
       vectorsGreen    |-> CountWhole(run, DOMAIN rows, StoreOracle),
       total           |-> Cardinality(DOMAIN rows),
       outboxDelivered |-> CountWhole(run, DOMAIN rows, {"delivered"}),
       outboxTotal     |-> Cardinality(DOMAIN rows)]

EntityStoreScope(v) ==
  Opening(v, "vector",
    DslValid(v, "vector")
    \union Each("entity-valid", [s \in Slots(v, "vector") |-> v.files[s] # "misfit"]),
    LET r == v.parts.results IN
      EachRow(r, "vector", "round-trip", StoreOracle)
      \union One("vectors-green", r.vectorsGreen = r.total)
      \union One("outbox-delivered", r.outboxDelivered = r.outboxTotal /\ r.outboxTotal > 0))

-----------------------------------------------------------------------------

\* A vector's requests: the pinned expectations and the emitted OpenAPI hold.
ApiOracle == {"expected", "conforms", "rejects"}

Exercises(s) == IF s[2] = "full" THEN {"write", "read", "delete"} ELSE {"read"}

ApiResults(v) ==
  LET rows == RowsFor(v, {"vector"}, ApiOracle, "expected")
      run == [rows |-> rows]
      full == {s \in DOMAIN rows : s[2] = "full"}
  IN  [rows               |-> rows,
       vectorsGreen       |-> CountWhole(run, DOMAIN rows, ApiOracle),
       total              |-> Cardinality(DOMAIN rows),
       operationsCovered  |-> UNION {Exercises(s) : s \in DOMAIN rows},
       operationsDeclared |-> {"write", "read", "delete", "Verify_status"}
                              \union (IF v.program = "undeclared" THEN {"new"} ELSE {}),
       boundaryRejections |-> CountWhole(run, full, {"rejects"})]

EntityApi(v) ==
  Opening(v, "vector", DslValid(v, "vector"), LET r == v.parts.results IN
    EachRow(r, "vector", "conforms", ApiOracle)
    \union One("operations-covered",
               r.operationsDeclared \ {"Verify_status"} \subseteq r.operationsCovered)
    \union One("boundary-rejects", r.boundaryRejections > 0)
    \union One("vectors-green", r.vectorsGreen = r.total /\ r.total > 0))

-----------------------------------------------------------------------------

Surfaces == {"design-time", "runtime"}
RelationsOf == [s \in Surfaces |-> IF s = "design-time" THEN {"can_view", "can_edit", "can_approve"}
                                   ELSE {"can_view", "can_modify"}]
RequiredRelations == {"can_view", "can_edit", "can_approve", "can_modify"}

AuthzVectors(v) == OfFamilies(v, Surfaces)

\* The runner wants the model and arrays of vectors.
AuthzThrows(v) ==
  \/ Slots(v, "model") = {}
  \/ Malformed(v, Surfaces \union {"model"})
  \/ \E s \in AuthzVectors(v) : v.files[s] = "notArray"

AuthzResults(v) ==
  LET rows == RowsFor(v, Surfaces, {"decision", "parity"}, "decision") IN
  [rows        |-> rows,
   vectorsGreen |-> CountWhole([rows |-> rows], DOMAIN rows, {"decision"}),
   total       |-> Cardinality(DOMAIN rows),
   parityPass  |-> \A s \in DOMAIN rows : "parity" \in rows[s],
   covered     |-> [f \in Surfaces |-> Cardinality(Slots(v, f))],
   logComplete |-> v.program # "logMissing",
   logValid    |-> v.program # "logShape"]

\* Both files are named by their surface, so a family has one fixture at most.
AuthzScope(v) ==
  LET vectors == AuthzVectors(v)
      arrays == {s \in vectors : v.files[s] # "notArray"}
      present == One("vectors-present", vectors # {})
                 \union One("model-present", Slots(v, "model") # {})
      valid == DslValid(v, "model")
               \union Each("vectors-array", [s \in vectors |-> s \in arrays])
               \union Each("dsl-valid", [s \in arrays |-> v.files[s] # "invalid"])
               \union One("relations-covered",
                          RequiredRelations \subseteq UNION {RelationsOf[s[1]] : s \in arrays})
      judged(r) ==
        One("covered", arrays \subseteq DOMAIN r.rows)
        \union Each("decision", [s \in DOMAIN r.rows |-> "decision" \in r.rows[s]])
        \union Each("surface-covered", [f \in Surfaces |-> r.covered[f] > 0])
        \union One("decision-log-valid", r.logValid)
        \union One("decision-log-complete", r.logComplete)
        \union One("parity", r.parityPass)
        \union One("vectors-green", r.vectorsGreen = r.total /\ r.total > 0)
  IN  IF vectors = {} \/ Slots(v, "model") = {} THEN present
      ELSE IF v.bundle = "absent" THEN Thrown
      ELSE IF v.bundle = "stale" THEN Fail("schema-present")
      ELSE IF Malformed(v, Surfaces \union {"model"}) \/ v.parts.results = Torn THEN Thrown
      ELSE present \union valid \union
           (IF v.parts.results = NoPart THEN Fail("results-present")
            ELSE judged(v.parts.results))
=============================================================================
