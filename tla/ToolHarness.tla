---------------------------- MODULE ToolHarness ----------------------------
(***************************************************************************)
(* The harnesses of the contracts, of the agent kit and of verify itself.  *)
(*   self-check       no fixture, no artifact; v.envelope is the envelope  *)
(*                    schema that the process has compiled, or would       *)
(*   agent-kit        the kit's files and the resources manifest           *)
(*   contract-vectors, schema-fidelity-spike  a corpus of vectors, judged  *)
(*                    by Ajv here and by networknt in the artifact;        *)
(*                    "hard" when the two validators disagree              *)
(*   schema-pipeline  the emitted OpenAPI document                         *)
(*   codegen          that document and the two generated sources          *)
(*   contract-gate    what oasdiff says of the document and the released   *)
(*                    baseline                                             *)
(*   code-quality     the build file, detekt's report, ArchUnit's results  *)
(*   reference-data   code sets, "dangling" or "uncovered" (see            *)
(*                    ReferenceData); no artifact                          *)
(***************************************************************************)
EXTENDS Workspace

\* Of pure functions: a constant comes of each.
Invariants == {"bad-envelope-rejected", "seed-deterministic", "flaky-invariant"}

\* Nothing of a failed load is left: the second use of the validator throws.
SelfCheck(v) ==
  IF v.envelope = "absent" THEN Thrown
  ELSE One("envelope-schema-loads", TRUE)
       \union One("good-envelope-validates", v.envelope # "other")
       \union Each("invariant", [i \in Invariants |-> TRUE])

-----------------------------------------------------------------------------

KitFiles == {<<"kit", n>> : n \in {"agents-md", "claude-md", "skill-add-schema",
                                   "skill-run-verify", "hook-settings"}}
HookSettings == <<"kit", "hook-settings">>
Manifest == <<"manifest", "resources">>

AgentKit(v) ==
  IF Manifest \in DOMAIN v.files /\ v.bundle = "absent" THEN Thrown
  ELSE Each("kit", [s \in KitFiles |-> s \in DOMAIN v.files])
       \union (IF HookSettings \notin DOMAIN v.files THEN {}
               ELSE One("hook-runs-scoped-verify", v.files[HookSettings] = "agrees"))
       \union One("resources-manifest-validates",
                  /\ Manifest \in DOMAIN v.files
                  /\ v.files[Manifest] \notin {"invalid", "malformed"}
                  /\ v.bundle # "stale")

-----------------------------------------------------------------------------

\* A vector's expectation is read by the scope; the artifact holds a verdict.
Expected(v, s) == IF v.files[s] = "differs" THEN "reject" ELSE "accept"
AjvSays(v, s) == IF v.bundle = "stale" THEN "unknown" ELSE "accept"

\* SpikeValidator wants every schema that a vector names.
NetworkntThrows(v) == Malformed(v, {"vector"}) \/ v.bundle \in {"absent", "stale"}

NetworkntResults(v) ==
  [s \in Slots(v, "vector") |->
     IF v.files[s] = "hard" \/ v.program = "networknt" THEN "reject" ELSE "accept"]

\* A corpus without vectors makes no check, and no check passes.
CrossLanguage(v) ==
  LET vectors == Slots(v, "vector")
      jvm(s) == IF s \in DOMAIN v.parts.results THEN v.parts.results[s] ELSE "missing"
      ts == Each("ts", [s \in vectors |-> AjvSays(v, s) = Expected(v, s)])
  IN  IF Malformed(v, {"vector"}) \/ v.bundle = "absent" \/ v.parts.results = Torn THEN Thrown
      ELSE IF v.parts.results = NoPart THEN ts \union Fail("jvm-results-present")
      ELSE ts \union Each("jvm", [s \in vectors |-> jvm(s) = Expected(v, s)])
              \union Each("agree", [s \in vectors |-> jvm(s) = AjvSays(v, s)])

-----------------------------------------------------------------------------

DocumentAspects == {"version", "paths", "canonical", "refs"}
Components == {"VerdictEnvelope", "LoanApplication"}

\* What the TypeSpec build writes; "typespec" stands for a source it refuses.
DocumentThrows(v) == v.program = "typespec"
DocumentResults(v) == [held |-> DocumentAspects \ {v.program}, components |-> Components]

SchemaPipeline(v) ==
  IF v.parts.openapi = Torn THEN Thrown
  ELSE One("json-schema", v.bundle # "absent")
       \union (IF v.parts.openapi = NoPart THEN Fail("openapi-present")
               ELSE One("openapi-present", TRUE)
                    \union Each("openapi", [a \in DocumentAspects |-> a \in v.parts.openapi.held]))

\* hey-api and Fabrikt: the components each emits.
GeneratedResults(v, part) == Components \ (IF v.program = part THEN {"VerdictEnvelope"} ELSE {})
GeneratorThrows(v) == v.parts.openapi \in {NoPart, Torn}

\* A source that is cut short lacks the names that come after.
Generated(v, part) == IF v.parts[part] = Torn THEN {} ELSE v.parts[part]

Codegen(v) ==
  LET present(part) == v.parts[part] # NoPart
      covers(part) == v.parts.openapi.components \subseteq Generated(v, part)
  IN  IF ~present("openapi") THEN Fail("openapi-present")
      ELSE IF present("ts") /\ present("kotlin") /\ v.parts.openapi = Torn THEN Thrown
      ELSE Each("present", [p \in {"ts", "kotlin"} |-> present(p)])
           \union (IF ~present("ts") \/ ~present("kotlin") THEN {}
                   ELSE Each("covers-contract", [p \in {"ts", "kotlin"} |-> covers(p)])
                        \union One("canonical-model-parity",
                                   \A p \in {"ts", "kotlin"} : "VerdictEnvelope" \in Generated(v, p)))

-----------------------------------------------------------------------------

\* oasdiff fails on a document that it cannot read, and nothing is written.
ContractDiffThrows(v) == Slots(v, "contract") = {} \/ Malformed(v, {"contract"})

ContractDiffResults(v) ==
  [breakingChanges |-> Having(v, "contract", "differs")
                       \union (IF v.program = "breaking" THEN {<<"document", "change">>} ELSE {})]

ContractGate(v) ==
  ArtifactOnly(v, LET r == v.parts.results IN One("no-breaking-changes", r.breakingChanges = {}))

-----------------------------------------------------------------------------

ArchRules == {"spi-boundary", "pep-boundary"}

DetektResults(v) == IF v.program = "finding" THEN {"finding"} ELSE {}
ArchUnitResults(v) == [rule \in ArchRules |-> v.program # rule]

CodeQuality(v) ==
  IF v.parts.detekt = Torn \/ v.parts.archunit = Torn THEN Thrown
  ELSE Each("wiring", [w \in {"detekt-plugin", "archunit-dep"} |->
              Slots(v, "gradle") # {} /\ Having(v, "gradle", w) = {}])
       \union (IF v.parts.detekt = NoPart THEN Fail("detekt-report-present")
               ELSE One("zero-findings", v.parts.detekt = {}))
       \union (IF v.parts.archunit = NoPart THEN Fail("archunit-results-present")
               ELSE One("rules-present", DOMAIN v.parts.archunit # {})
                    \union Each("archunit", v.parts.archunit))

-----------------------------------------------------------------------------

ReferenceDataScope(v) ==
  LET codeSets == Slots(v, "codeset")
      dangling == Having(v, "codeset", "dangling")
  IN  IF codeSets = {} THEN Fail("fixtures-present")
      ELSE IF v.bundle = "stale" THEN Fail("schema-present")
      ELSE IF v.bundle = "absent" \/ Malformed(v, {"codeset"}) THEN Thrown
      ELSE One("fixtures-present", TRUE)
           \union DslValid(v, "codeset")
           \union Each("resolves", [s \in codeSets |-> s \notin dangling])
           \union Each("effective", [s \in codeSets \ dangling |-> v.files[s] # "uncovered"])
           \union One("no-dangling", dangling = {})
=============================================================================
