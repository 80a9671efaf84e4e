----------------------------- MODULE Harnesses -----------------------------
(***************************************************************************)
(* The harness catalog (packages/cli/src/verify/registry.ts): what each    *)
(* registered scope checks, the producers of its artifacts, and what it    *)
(* stands for.  Scopes are known by their ids.                             *)
(***************************************************************************)
EXTENDS FlowHarness, StoreHarness, BoundaryHarness, DecisionHarness, ScreenHarness, ToolHarness

PartsOf(s) ==
  CASE s = "decision-layer"  -> DecisionParts
    [] s = "code-quality"    -> {"detekt", "archunit"}
    [] s = "schema-pipeline" -> {"openapi"}
    [] s = "codegen"         -> {"openapi", "ts", "kotlin"}
    [] s \in {"self-check", "agent-kit", "reference-data"} -> {}
    [] OTHER                 -> {"results"}

CheckScope(s, v) ==
  CASE s = "self-check"                    -> SelfCheck(v)
    [] s = "agent-kit"                     -> AgentKit(v)
    [] s \in {"schema-fidelity-spike", "contract-vectors"} -> CrossLanguage(v)
    [] s = "schema-pipeline"               -> SchemaPipeline(v)
    [] s = "codegen"                       -> Codegen(v)
    [] s = "reference-data"                -> ReferenceDataScope(v)
    [] s = "decision-projection-spike"     -> DecisionProjectionSpike(v)
    [] s = "contract-gate"                 -> ContractGate(v)
    [] s = "decision-layer"                -> DecisionLayer(v)
    [] s = "interpreter-determinism-spike" -> DeterminismSpike(v)
    [] s = "flow-layer"                    -> FlowLayer(v)
    [] s = "decisionrecord"                -> DecisionRecordScope(v)
    [] s = "entity-store"                  -> EntityStoreScope(v)
    [] s = "entity-api"                    -> EntityApi(v)
    [] s = "authz"                         -> AuthzScope(v)
    [] s = "ui"                            -> Ui(v)
    [] s = "portal"                        -> Portal(v)
    [] s = "adapters"                      -> Adapters(v)
    [] s = "notifications"                 -> Notifications(v)
    [] s = "issuance"                      -> IssuanceScope(v)
    [] s = "code-quality"                  -> CodeQuality(v)

ProducerThrows(s, part, v) ==
  CASE s \in {"schema-fidelity-spike", "contract-vectors"} -> NetworkntThrows(v)
    [] s \in {"schema-pipeline", "codegen"} /\ part = "openapi" -> DocumentThrows(v)
    [] s = "codegen" /\ part # "openapi"                        -> GeneratorThrows(v)
    [] s = "contract-gate"     -> ContractDiffThrows(v)
    [] s = "decision-layer"    -> DecisionThrows(v, part)
    [] s = "flow-layer"        -> ConformanceThrows(v)
    [] s = "authz"             -> AuthzThrows(v)
    [] s = "ui"                -> UiThrows(v)
    [] s = "portal"            -> PortalThrows(v)
    [] s = "issuance"          -> IssuanceThrows(v)
    [] s = "decisionrecord"    -> Malformed(v, {"case"})
    [] s \in {"entity-store", "entity-api", "decision-projection-spike"} -> Malformed(v, {"vector"})
    [] s = "adapters"          -> Malformed(v, AdapterFamilies)
    [] s = "notifications"     -> Malformed(v, NotificationFamilies)
    [] OTHER                   -> FALSE

Produced(s, part, v) ==
  CASE s \in {"schema-fidelity-spike", "contract-vectors"} -> NetworkntResults(v)
    [] s \in {"schema-pipeline", "codegen"} /\ part = "openapi" -> DocumentResults(v)
    [] s = "codegen" /\ part # "openapi"   -> GeneratedResults(v, part)
    [] s = "contract-gate"                 -> ContractDiffResults(v)
    [] part = "detekt"                     -> DetektResults(v)
    [] part = "archunit"                   -> ArchUnitResults(v)
    [] s = "decision-projection-spike"     -> ProjectionResults(v)
    [] s = "decision-layer"                -> DecisionResults(v, part)
    [] s = "interpreter-determinism-spike" -> SpikeResults(v)
    [] s = "flow-layer"                    -> ConformanceResults(v)
    [] s = "decisionrecord"                -> AssemblyResults(v)
    [] s = "entity-store"                  -> EntityStoreResults(v)
    [] s = "entity-api"                    -> ApiResults(v)
    [] s = "authz"                         -> AuthzResults(v)
    [] s = "ui"                            -> UiResults(v)
    [] s = "portal"                        -> PortalResults(v)
    [] s = "adapters"                      -> AdapterResults(v)
    [] s = "notifications"                 -> NotificationResults(v)
    [] s = "issuance"                      -> IssuanceResults(v)

-----------------------------------------------------------------------------
(* The committed fixtures and the code under test.                         *)

Corpora == {"schema-fidelity-spike", "contract-vectors"}

\* The fixtures that a scope must find, and the families in which it must find some.
\* The scopes left out pass without any.
Required(s) ==
  CASE s = "decisionrecord" -> {<<"case", "gap">>}
    [] s = "entity-api"     -> {<<"vector", "full">>}
    [] s = "authz"          -> {<<f, "1">> : f \in Surfaces \union {"model"}}
    [] s = "adapters"       -> {<<"ports", t>> : t \in Transports}
                               \union {<<"reliability", c>> : c \in Scenarios}
                               \union {<<"mappings", "1">>}
    [] s = "notifications"  -> {<<"templates", c>> : c \in Channels}
                               \union {<<"reliability", c>> : c \in Scenarios}
    [] s = "issuance"       -> {<<"templates", "1">>, <<"documents", "1">>, <<"vectors", "replay">>}
    [] s = "decision-layer" -> {<<"scenario", r>> : r \in TableRows}
    [] s = "portal"         -> {<<"principal", "eve">>, <<"principal", "pat">>,
                                <<"scenario", "iris">>, <<"uischema", "1">>, <<"flow", "1">>}
    [] s = "ui"             -> {Baseline, Snapshot}
    [] s = "agent-kit"      -> KitFiles \union {Manifest}
    [] s = "contract-gate"  -> {<<"contract", "baseline">>}
    [] s = "code-quality"   -> {<<"gradle", "1">>}
    [] OTHER                -> {}

Inhabited(s) ==
  CASE s \in {"flow-layer", "entity-store"}  -> {"vector"}
    [] s \in {"adapters", "notifications"}   -> {"goldens"}
    [] s = "issuance"                        -> {"verification"}
    [] s = "reference-data"                  -> {"codeset"}
    [] OTHER                                 -> {}

\* A fixture is one of these or any file of a family that the scope globs.
Globbed(s) ==
  CASE s \in Corpora \union {"flow-layer", "entity-store", "entity-api",
                             "decision-projection-spike"} -> {"vector"}
    [] s = "decisionrecord" -> {"case"}
    [] s = "adapters"       -> {"goldens", "reliability"}
    [] s = "notifications"  -> {"templates", "reliability"}
    [] s = "issuance"       -> {"vectors", "verification"}
    [] s = "decision-layer" -> {"tck", "construct", "feel", "scenario"}
    [] s = "portal"         -> {"principal", "scenario"}
    [] s = "reference-data" -> {"codeset"}
    [] s = "ui"             -> {"baseline"}
    [] OTHER                -> {}

Fixture(s, x) ==
  /\ x = <<x[1], x[2]>>
  /\ \/ x \in Required(s) \/ x[1] \in Globbed(s)
     \/ s = "notifications" /\ x \in {<<"goldens", c>> : c \in Channels}

\* The contents, beside "agrees", that make a difference to a scope or to a producer.
Flaws(s, f) ==
  CASE s = "flow-layer"     -> {"differs", "invalid", "malformed", "overruns"}
    [] s = "entity-store"   -> {"differs", "invalid", "malformed", "misfit"}
    [] s = "authz"          -> {"invalid", "malformed"}
                               \union (IF f = "model" THEN {} ELSE {"differs", "notArray"})
    [] s \in {"decisionrecord", "entity-api"} -> {"differs", "invalid", "malformed"}
    [] s = "adapters"       -> {"invalid", "malformed"}
                               \union (IF f = "mappings" THEN {} ELSE {"differs"})
                               \union (IF f = "goldens" THEN {"raising"} ELSE {})
    [] s = "notifications"  -> {"invalid", "malformed"}
                               \union (IF f = "templates" THEN {} ELSE {"differs"})
    [] s = "issuance"       -> {"invalid", "malformed"}
                               \union (IF f = "documents" THEN {} ELSE {"differs"})
    [] s = "decision-layer" -> {"differs", "malformed"}
                               \union (IF f = "tck" THEN {"unbundled"} ELSE {})
                               \union (IF f \in {"construct", "feel"} THEN {"unprojectable"} ELSE {})
    [] s \in Corpora        -> {"differs", "malformed", "hard"}
    [] s = "agent-kit"      -> IF f = "manifest" THEN {"invalid", "malformed"} ELSE {}
    [] s = "code-quality"   -> {"detekt-plugin", "archunit-dep"}
    [] s = "portal"         -> {"malformed"} \union (IF f = "uischema" THEN {"dangling"}
                                                     ELSE IF f = "flow" THEN {"gap"} ELSE {"differs"})
    [] s = "ui"             -> IF f = "snapshot" THEN {"differs"}
                               ELSE {"invalid", "malformed", "dangling", "scopeless", "nested",
                                     "outdated"}
    [] s = "reference-data" -> {"invalid", "malformed", "dangling", "uncovered"}
    [] OTHER                -> {"differs", "malformed"}

Content(s, x) ==
  IF ~Fixture(s, x) THEN {}
  ELSE {"agrees"} \union (IF x = HookSettings THEN {"differs", "malformed"} ELSE Flaws(s, x[1]))

\* The aspects of the code that a scope is about.
Faults(s) ==
  CASE s = "flow-layer"      -> FlowAspects \union {"sdk"}
    [] s = "decisionrecord"  -> CaseOracle \union {"caseId"}
    [] s = "entity-store"    -> StoreOracle
    [] s = "entity-api"      -> ApiOracle \union {"undeclared"}
    [] s = "authz"           -> {"decision", "parity", "logMissing", "logShape"}
    [] s = "adapters"        -> {"match", "roundTrip", "counts"}
    [] s = "notifications"   -> {"match", "counts", "delivered", "driverId"}
    [] s = "issuance"        -> RenderAspects \union {"outcome", "replayed", "consumedOnce",
                                                      "response", "gapfree", "gapped"}
    [] s = "decision-layer"  -> Matches \union TraceAspects \union Capabilities
                                \union {"engine", "rows"}
    [] s = "decision-projection-spike"     -> ProjectionAspects \union {"engine"}
    [] s = "interpreter-determinism-spike" -> SpikeAspects \union {"sdk"}
    [] s \in Corpora         -> {"networknt"}
    [] s = "schema-pipeline" -> DocumentAspects \union {"typespec"}
    [] s = "codegen"         -> {"ts", "kotlin"}
    [] s = "contract-gate"   -> {"breaking"}
    [] s = "code-quality"    -> {"finding"} \union ArchRules
    [] s = "portal"          -> {"filter", "order", "entitlement", "emitted", "conforms", "valid",
                                 "nodes"}
    [] s = "ui"              -> StoryAspects \union {"contrast"}
    [] OTHER                 -> {}

-----------------------------------------------------------------------------
\* What a scope's descriptions and docs promise, stated of its fixtures and of
\* the code rather than of its checks.

\* The scopes that want no emitted schema but the envelope's.
Schemaless == {"self-check", "contract-gate", "code-quality", "codegen", "schema-pipeline",
               "decision-projection-spike", "interpreter-determinism-spike"}

\* A corpus without fixtures runs no code and reads no schema.
Vacant(s, v) == s \in Corpora /\ DOMAIN v.files = {}

Idle(s, v) ==
  CASE s \in Corpora                   -> IF DOMAIN v.files = {} THEN {"networknt"} ELSE {}
    [] s = "decision-projection-spike" -> IF DOMAIN v.files = {} THEN ProjectionAspects ELSE {}
    [] s = "decision-layer"            -> IF Slots(v, "construct") = {} THEN TraceAspects ELSE {}
    [] OTHER                           -> {}

\* Of the layouts beside the baseline only the schema is asked.
Harmless(s, x) ==
  IF s = "ui" /\ x # Baseline /\ x # Snapshot
  THEN {"agrees", "dangling", "scopeless", "nested", "outdated"} ELSE {"agrees"}

Upheld(s, v) ==
  /\ v.envelope = "built"
  /\ \/ s \in Schemaless \/ v.bundle \in {"built", "other"}
     \/ Vacant(s, v) /\ v.bundle = "stale"
  /\ s # "schema-pipeline" \/ v.bundle # "absent"
  /\ v.program \notin Faults(s) \ Idle(s, v)
  /\ \A x \in DOMAIN v.files : v.files[x] \in Harmless(s, x)
  /\ Required(s) \subseteq DOMAIN v.files
  /\ \A f \in Inhabited(s) : Slots(v, f) # {}

\* The scopes whose text says that every committed fixture was run.
Covering == {"schema-fidelity-spike", "contract-vectors", "flow-layer", "decisionrecord",
             "entity-store", "entity-api", "authz", "portal"}
=============================================================================
