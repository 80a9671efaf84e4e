-------------------------- MODULE DecisionHarness --------------------------
(***************************************************************************)
(* The harnesses of the decision layer (core/.../decision).  The scope     *)
(* decision-layer reads five artifacts and no fixture: the oracle of each  *)
(* corpus was copied into its artifact by the producer.                    *)
(*   tck       DecisionTckRunner; cases, "unbundled" when the model that a *)
(*             case names is not on the classpath                          *)
(*   coverage  ProjectionCoverageRunner; constructs, "unprojectable" when  *)
(*             the compiler or the engine refuses one                      *)
(*   trace     DecisionTraceRunner, over the same constructs               *)
(*   scenario  ScenarioCoverageRunner; cases, each named for the row of    *)
(*             the decision table that it fires                            *)
(*   feel      FeelVectorRunner; vectors, "unprojectable" likewise         *)
(* decision-projection-spike has one artifact, of DecisionProjectionSpike. *)
(***************************************************************************)
EXTENDS Workspace

DecisionParts == {"tck", "coverage", "trace", "scenario", "feel"}

Capabilities == {"dmn-1.6", "feel", "decisionTable", "businessKnowledgeModel", "context",
                 "invocation"}
TableRows == {"approve", "refer"}
ThresholdPct == 80

\* valueMatches and the absence of errors, judged by the scope or the producer.
Matches == {"value", "errors"}
TraceAspects == {"schema", "fields"}

\* The corpus of each producer, and what makes it abort: a throw out of main
\* leaves the artifact of the run before.  Only the coverage runner catches.
Corpus == [tck |-> "tck", coverage |-> "construct", trace |-> "construct",
           scenario |-> "scenario", feel |-> "feel"]

TckThrows(v) == Having(v, "tck", "unbundled") # {}
TraceThrows(v) == Having(v, "construct", "unprojectable") # {}
FeelThrows(v) == Having(v, "feel", "unprojectable") # {}

DecisionThrows(v, part) ==
  \/ Malformed(v, {Corpus[part]})
  \/ part = "tck" /\ TckThrows(v)
  \/ part = "trace" /\ TraceThrows(v)
  \/ part = "feel" /\ FeelThrows(v)

\* The rows of the table that the cases fire, whatever comes of the case.
FiredRows(v, cases) == IF v.program = "rows" THEN {} ELSE {s[2] : s \in cases} \cap TableRows

DecisionResults(v, part) ==
  LET aspects == IF part = "trace" THEN TraceAspects ELSE Matches
      found == RowsFor(v, {Corpus[part]}, aspects, "value")
  IN  [rows     |-> [s \in DOMAIN found |->
                       IF v.files[s] = "unprojectable" THEN {} ELSE found[s]],
       engine   |-> v.program # "engine",
       caps     |-> Capabilities \ {v.program},
       covered  |-> Cardinality(FiredRows(v, DOMAIN found))]

\* A check of each row and of their count, which zero rows pass.
Counted(r, id, aspects) ==
  Each(id, [s \in DOMAIN r.rows |-> Whole(r, s, aspects)])
  \union At("green", id, CountWhole(r, DOMAIN r.rows, aspects) = Cardinality(DOMAIN r.rows))

TckChecks(r) ==
  One("engine", r.engine)
  \union Each("capability", [c \in Capabilities |-> c \in r.caps])
  \union Counted(r, "tck", Matches)

TraceShapeChecks(v) ==
  IF v.bundle = "stale" THEN Fail("trace-schema-present")
  ELSE Counted(v.parts.trace, "trace-shape", TraceAspects)

ScenarioChecks(r) ==
  Counted(r, "scenario", Matches)
  \union One("coverage-met", 100 * r.covered >= ThresholdPct * Cardinality(TableRows))

PartChecks(v, part, judged) ==
  IF v.parts[part] = NoPart THEN At("present", part, FALSE) ELSE judged

\* The traces want the schemas before they are parsed.
DecisionLayer(v) ==
  IF v.parts.tck = NoPart THEN Fail("results-present")
  ELSE IF \/ \E p \in DecisionParts \ {"trace"} : v.parts[p] = Torn
          \/ v.parts.trace # NoPart /\ v.bundle = "absent"
          \/ v.parts.trace = Torn /\ v.bundle # "stale"
  THEN Thrown
  ELSE TckChecks(v.parts.tck)
       \union PartChecks(v, "coverage", Counted(v.parts.coverage, "projection", Matches))
       \union PartChecks(v, "trace", TraceShapeChecks(v))
       \union PartChecks(v, "scenario", ScenarioChecks(v.parts.scenario))
       \union PartChecks(v, "feel", Counted(v.parts.feel, "feel", Matches))

-----------------------------------------------------------------------------

\* Each vector is evaluated on the hand-written model and on the compiled one.
ProjectionAspects == {"errors", "match", "expected"}

ProjectionResults(v) ==
  [rows   |-> RowsFor(v, {"vector"}, ProjectionAspects, "expected"),
   engine |-> v.program # "engine"]

DecisionProjectionSpike(v) ==
  ArtifactOnly(v, LET r == v.parts.results IN
    One("engine", r.engine)
    \union EachAspect(r, "vector", ProjectionAspects))
=============================================================================
