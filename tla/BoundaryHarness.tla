-------------------------- MODULE BoundaryHarness --------------------------
(***************************************************************************)
(* The harnesses at the outer boundary: what runAdapters, runNotifications *)
(* and runIssuance write, and the scopes that read it.  None of the three  *)
(* scopes asks whether the artifact covers the committed fixtures.         *)
(*   adapters       ports, one per transport; a mapping; its golden,       *)
(*                  "raising" when the mapping raises on its wire message; *)
(*                  reliability vectors, by scenario                       *)
(*   notifications  a template and a golden per channel; reliability       *)
(*   issuance       templates ("differs": a binding that does not          *)
(*                  resolve), documents, lifecycle vectors by scenario,    *)
(*                  verification vectors                                   *)
(***************************************************************************)
EXTENDS Workspace

Scenarios == {"duplicate", "poison", "redelivery"}
Transports == {"rest", "broker", "webhook"}
Channels == {"email", "sms"}

\* validateFixtures: a family whose schema is missing is not even parsed, and
\* the scope goes on.
FamilyValid(v, family) ==
  IF v.bundle = "stale" THEN At("schema-present", family, FALSE)
  ELSE At("fixtures-present", family, Slots(v, family) # {}) \union DslValid(v, family)

Validated(v, families) == UNION {FamilyValid(v, f) : f \in families}

\* What the three scopes share around the judgement of their artifact.
BoundaryScope(v, families, judged) ==
  IF \/ v.bundle = "absent"
     \/ v.bundle # "stale" /\ Malformed(v, families)
     \/ v.parts.results = Torn
  THEN Thrown
  ELSE Validated(v, families) \union
       (IF v.parts.results = NoPart THEN Fail("results-present") ELSE judged)

\* A count of green rows equals the number of rows, and there are some.
AllGreen(id, green, S) == One(id, green = Cardinality(S) /\ S # {})

\* A scenario's vectors all pass, and it has one.
ScenarioPass(r, scenario) ==
  /\ <<"reliability", scenario>> \in DOMAIN r.rows
  /\ "counts" \in r.rows[<<"reliability", scenario>>]

ReliabilityChecks(r) ==
  EachRow(r, "reliability", "reliability", {"counts"})
  \union AllGreen("reliability-green", r.reliabilityGreen, RowsOf(r, "reliability"))
  \union One("dedup", r.dedupPass)
  \union One("dlq", r.dlqPass)
  \union One("redelivery", r.redeliveryPass)

WithReliability(rows, r) ==
  [rows             |-> rows,
   reliabilityGreen |-> CountWhole([rows |-> rows], RowsOf([rows |-> rows], "reliability"), {"counts"}),
   dedupPass        |-> ScenarioPass([rows |-> rows], "duplicate"),
   dlqPass          |-> ScenarioPass([rows |-> rows], "poison"),
   redeliveryPass   |-> ScenarioPass([rows |-> rows], "redelivery"),
   other            |-> r]

-----------------------------------------------------------------------------

AdapterFamilies == {"ports", "mappings", "goldens", "reliability"}

\* A golden wants its mapping; a port round-trips a golden's wire message, one
\* that the mapping translated.
AdapterResults(v) ==
  LET mapped == Slots(v, "mappings") # {}
      raised == Having(v, "goldens", "raising")
      wired  == mapped /\ Slots(v, "goldens") \ raised # {}
      row(s) ==
        CASE s[1] = "goldens" -> IF mapped /\ s \notin raised
                                 THEN Row(v, s, {"match"}, "match") ELSE {}
          [] s[1] = "ports" -> IF wired THEN Row(v, s, {"roundTrip"}, "roundTrip") ELSE {}
          [] OTHER -> Row(v, s, {"counts"}, "counts")
      rows == [s \in OfFamilies(v, AdapterFamilies \ {"mappings"}) |-> row(s)]
      run == [rows |-> rows]
  IN  WithReliability(rows,
        [goldensGreen  |-> CountWhole(run, Slots(v, "goldens"), {"match"}),
         bound         |-> \A t \in Transports : <<"ports", t>> \in DOMAIN rows,
         contractGreen |-> CountWhole(run, Slots(v, "ports"), {"roundTrip"})])

Adapters(v) ==
  BoundaryScope(v, AdapterFamilies, LET r == v.parts.results IN
    EachRow(r, "goldens", "golden", {"match"})
    \union AllGreen("goldens-green", r.other.goldensGreen, RowsOf(r, "goldens"))
    \union One("bindings-covered", r.other.bound)
    \union EachRow(r, "ports", "binding-contract", {"roundTrip"})
    \union AllGreen("binding-contract-green", r.other.contractGreen, RowsOf(r, "ports"))
    \union ReliabilityChecks(r)
    \union (IF v.bundle = "stale" THEN {} ELSE One("envelope-schema-present", TRUE)))

-----------------------------------------------------------------------------

NotificationFamilies == {"templates", "goldens", "reliability"}

NotificationResults(v) ==
  LET row(s) ==
        IF s[1] = "goldens"
        THEN IF <<"templates", s[2]>> \in DOMAIN v.files
             THEN Row(v, s, {"match"}, "match") ELSE {}
        ELSE Row(v, s, {"counts"}, "counts")
      fixtures == [s \in Slots(v, "goldens") \union Slots(v, "reliability") |-> row(s)]
      drivers == [s \in {<<"drivers", c>> : c \in Channels} |->
                    {"delivered", "driverId"} \ {v.program}]
      rows == [s \in DOMAIN fixtures \union DOMAIN drivers |->
                 IF s \in DOMAIN drivers THEN drivers[s] ELSE fixtures[s]]
      run == [rows |-> rows]
  IN  WithReliability(rows,
        [goldensGreen    |-> CountWhole(run, Slots(v, "goldens"), {"match"}),
         channelsCovered |-> {s[2] : s \in Slots(v, "templates")},
         driversGreen    |-> CountWhole(run, DOMAIN drivers, {"delivered"})])

Notifications(v) ==
  BoundaryScope(v, NotificationFamilies, LET r == v.parts.results IN
    EachRow(r, "goldens", "render-golden", {"match"})
    \union AllGreen("render-goldens-green", r.other.goldensGreen, RowsOf(r, "goldens"))
    \union One("channels-covered", Channels \subseteq r.other.channelsCovered)
    \union EachRow(r, "drivers", "driver-selection", {"delivered", "driverId"})
    \union AllGreen("driver-selection-green", r.other.driversGreen, RowsOf(r, "drivers"))
    \union ReliabilityChecks(r))

-----------------------------------------------------------------------------

IssuanceFamilies == {"templates", "documents", "vectors", "verification"}

\* templates[0] and the first vector's snapshot are taken without asking.
IssuanceThrows(v) ==
  \/ Malformed(v, {"templates", "vectors", "verification"})
  \/ Slots(v, "templates") = {} \/ Slots(v, "vectors") = {}

\* runLifecycle: the replay vector's own verdicts are part of its pass.
LifecycleAspects(s) == {"outcome"} \union (IF s[2] = "replay" THEN {"replayed", "consumedOnce"} ELSE {})

RenderAspects == {"deterministic", "scope", "accessible"}

IssuanceResults(v) ==
  LET row(s) ==
        CASE s[1] = "templates" -> Row(v, s, RenderAspects, "scope")
          [] s[1] = "vectors" -> Row(v, s, LifecycleAspects(s), "outcome")
          [] OTHER -> Row(v, s, {"response"}, "response")
      rows == [s \in OfFamilies(v, IssuanceFamilies \ {"documents"}) |-> row(s)]
      replayed(a) == /\ <<"vectors", "replay">> \in DOMAIN rows
                     /\ a \in rows[<<"vectors", "replay">>]
  IN  [rows                  |-> rows,
       lifecycleGreen        |-> Cardinality({s \in Slots(v, "vectors") :
                                                LifecycleAspects(s) \subseteq rows[s]}),
       replayIdempotent      |-> replayed("replayed"),
       replayNoDoubleConsume |-> replayed("consumedOnce"),
       verificationGreen     |-> CountWhole([rows |-> rows], Slots(v, "verification"), {"response"}),
       allocation            |-> {"gapfree", "gapped"} \ {v.program}]

IssuanceScope(v) ==
  BoundaryScope(v, IssuanceFamilies, LET r == v.parts.results IN
    EachAspect(r, "templates", RenderAspects)
    \union AllGreen("lifecycle-vectors-green", r.lifecycleGreen, RowsOf(r, "vectors"))
    \union One("replay-idempotent", r.replayIdempotent)
    \union One("replay-no-double-consume", r.replayNoDoubleConsume)
    \union AllGreen("verification-vectors-green", r.verificationGreen, RowsOf(r, "verification"))
    \union One("allocation-gapfree-contiguous", "gapfree" \in r.allocation)
    \union One("allocation-gapped", "gapped" \in r.allocation))
=============================================================================
