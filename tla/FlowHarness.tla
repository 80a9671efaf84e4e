---------------------------- MODULE FlowHarness ----------------------------
(***************************************************************************)
(* The harnesses of the flow layer: what each producer writes for the      *)
(* fixtures it reads, and the checks its scope makes of it.                *)
(*   flow-layer      packages/flow/src/conformance.ts and the scope of the *)
(*                   same name; fixtures: a vector whose flow is human     *)
(*                   tasks and one that delegates                          *)
(*   decisionrecord  packages/flow/src/decisionrecord-run.ts; fixtures: a  *)
(*                   case that stitches and one with a gap put into it     *)
(*   interpreter-determinism-spike  packages/flow/src/harness.ts; its one  *)
(*                   flow is code                                          *)
(***************************************************************************)
EXTENDS Workspace

FlowAspects == {"vars", "steps", "sla", "trace", "events", "correlations",
                "fastForwarded", "caseId", "chain", "replay"}

FlowOracleUneventful ==   \* mutant: the events are not compared
  FlowAspects \ {"caseId", "chain", "replay", "events"}

\* isGreen: the chain and the replays are judged apart.
FlowOracle == FlowAspects \ {"caseId", "chain", "replay"}

Delegating(S) == {s \in S : s[2] = "delegation"}

\* A vector whose script sends a signal to a flow that has already completed
\* makes the harness itself throw, as does one that does not parse; nothing is
\* written then.
ConformanceThrows(v) == \E s \in Slots(v, "vector") : v.files[s] \in {"malformed", "overruns"}

ConformanceResults(v) ==
  LET rows == RowsFor(v, {"vector"}, FlowAspects, "events")
      run == [rows |-> rows]
      green(S) == CountWhole(run, S, FlowOracle)
  IN  [rows             |-> rows,
       sdk              |-> v.program # "sdk",
       vectorsGreen     |-> green(DOMAIN rows),
       delegationGreen  |-> green(Delegating(DOMAIN rows)),
       delegationTotal  |-> Cardinality(Delegating(DOMAIN rows)),
       determinismClean |-> \A s \in DOMAIN rows : "replay" \in rows[s]]

FlowLayer(v) ==
  Opening(v, "vector", DslValid(v, "vector"), LET r == v.parts.results IN
    One("sdk-pinned", r.sdk)
    \union EachRow(r, "vector", "vector", FlowOracle)
    \union EachRow(r, "vector", "case-id", {"caseId"})
    \union EachRow(r, "vector", "decisionrecord", {"chain"})
    \union EachRow(r, "vector", "determinism", {"replay"})
    \union One("vectors-green", r.vectorsGreen = Cardinality(DOMAIN r.rows))
    \union One("delegation-vectors-green", r.delegationGreen = r.delegationTotal)
    \union One("determinism-clean", r.determinismClean))

-----------------------------------------------------------------------------

CaseOracle == {"orphans", "chain", "decisions", "tasks"}

AssemblyResults(v) ==
  LET rows == RowsFor(v, {"case"}, CaseOracle \union {"caseId"}, "orphans") IN
  [rows       |-> rows,
   casesGreen |-> CountWhole([rows |-> rows], DOMAIN rows, CaseOracle)]

\* The detector must have fired: some case is expected to be incomplete.
DecisionRecordScope(v) ==
  Opening(v, "case", DslValid(v, "case"), LET r == v.parts.results IN
    EachRow(r, "case", "case-id", {"caseId"})
    \union EachRow(r, "case", "assembled", CaseOracle)
    \union One("cases-green", r.casesGreen = Cardinality(DOMAIN r.rows))
    \union One("detector-exercised", <<"case", "gap">> \in DOMAIN r.rows))

-----------------------------------------------------------------------------

\* Two executions and two replays of the one history.
SpikeAspects == {"result", "identical", "replay", "history", "fastForwarded"}

SpikeResults(v) ==
  [rows |-> [s \in {<<"replay", 1>>, <<"replay", 2>>} |-> {"replay"} \ {v.program}],
   sdk  |-> v.program # "sdk",
   held |-> SpikeAspects \ {v.program}]

DeterminismSpike(v) ==
  ArtifactOnly(v, LET r == v.parts.results IN
    One("sdk-pinned", r.sdk)
    \union One("result-correct", "result" \in r.held)
    \union One("results-identical", "identical" \in r.held)
    \union EachRow(r, "replay", "replay-clean", {"replay"})
    \union One("replay-clean", \A s \in DOMAIN r.rows : "replay" \in r.rows[s])
    \union One("history-nonempty", "history" \in r.held)
    \union One("sla-fast-forwarded", "fastForwarded" \in r.held))
=============================================================================
