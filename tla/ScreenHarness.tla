--------------------------- MODULE ScreenHarness ---------------------------
(***************************************************************************)
(* The harnesses of the two screens.                                       *)
(*   portal  packages/portal/src: the inbox, the field entitlements and    *)
(*           the action form, rendered for the principals and scenarios of *)
(*           the fixtures; a principal is named for the user, and its      *)
(*           content, when it "differs", expects no task                   *)
(*   ui      packages/uischema/src: the baseline layout ("dangling",       *)
(*           "scopeless", "nested", "outdated" against its data schema)    *)
(*           and the committed snapshot of its stories                     *)
(***************************************************************************)
EXTENDS Workspace, Sequences, SequencesExt

CONSTANTS
  Tasks,        \* the seeded tasks: [id, due, caseId]
  CanView,      \* what the PDP lets each principal view, by case
  CanModify,
  CrossTeam,    \* the principals of another team
  ReviewCase

TaskIds(rows) == [i \in DOMAIN rows |-> rows[i].id]

\* inboxRows: soonest due first, the id breaks a tie.
InboxRows(principal) ==
  SetToSortSeq({t \in Tasks : t.caseId \in CanView[principal]},
               LAMBDA a, b : a.due < b.due \/ (a.due = b.due /\ a.id < b.id))

\* fieldEntitlements
FieldEntitlements(principal) ==
  LET modify == ReviewCase \in CanModify[principal]
      view == modify \/ ReviewCase \in CanView[principal]
      viewed == IF view THEN "read-only" ELSE "hidden"
  IN  [applicantName |-> viewed,
       decision      |-> IF modify THEN "editable" ELSE viewed,
       reviewerNote  |-> IF modify THEN "editable" ELSE "hidden"]

\* FieldControlRenderer, after personaliseUiSchema: a field that no entitlement
\* was stamped on is editable.
FieldStates(principal, stamped) ==
  [f \in DOMAIN FieldEntitlements(principal) |->
     IF stamped THEN FieldEntitlements(principal)[f] ELSE "editable"]

\* What the harness reads back from the rendered inbox.
Rendered(v, principal) ==
  LET rows == InboxRows(principal) IN
  CASE v.program = "filter" -> SetToSortSeq(Tasks, LAMBDA a, b : a.id < b.id)
    [] v.program = "order"  -> Reverse(rows)
    [] OTHER                -> rows

\* It takes the first principal of each team without asking whether there is one.
PortalThrows(v) ==
  \/ Malformed(v, {"principal", "scenario", "flow", "uischema"})
  \/ Slots(v, "flow") = {} \/ Slots(v, "uischema") = {}
  \/ ~\E s \in Slots(v, "principal") : s[2] \in CrossTeam
  \/ ~\E s \in Slots(v, "principal") : s[2] \notin CrossTeam

PortalResults(v) ==
  LET count(S) == Len(Rendered(v, (CHOOSE s \in S : TRUE)[2]))
      teams == Slots(v, "principal")
      cross == {s \in teams : s[2] \in CrossTeam}
  IN  [rows   |-> [s \in teams |-> Rendered(v, s[2])],
       fields |-> [s \in Slots(v, "scenario") |-> FieldStates(s[2], v.program # "entitlement")],
       fewer  |-> count(cross) < count(teams \ cross),
       signal |-> {"emitted", "conforms"} \ {v.program},
       trace  |-> {"valid", "nodes"}
                  \ ({v.program} \union (IF Having(v, "flow", "gap") # {} THEN {"nodes"} ELSE {}))]

ExpectedInbox(v, s) == IF v.files[s] = "differs" THEN <<>> ELSE TaskIds(InboxRows(s[2]))

\* The principals' and the scenarios' expectations are read again by the scope,
\* so an old artifact is held against the new ones.
PortalInboxChecks(v, r, s) ==
  IF s \notin DOMAIN r.rows THEN At("pdp-filtered", s, FALSE)
  ELSE LET ids == TaskIds(r.rows[s])
           due == [i \in DOMAIN ids |-> r.rows[s][i].due]
       IN  At("pdp-filtered", s, /\ Len(ids) = Len(ExpectedInbox(v, s))
                                    /\ ToSet(ids) = ToSet(ExpectedInbox(v, s)))
           \union At("sla-ordering", s,
                      /\ ids = ExpectedInbox(v, s)
                      /\ \A i \in DOMAIN due : i > 1 => due[i - 1] <= due[i])

PortalInboxes(v, r) == UNION {PortalInboxChecks(v, r, s) : s \in Slots(v, "principal")}

\* A missing scenario shows no field at all.
ShownStates(r, s) == IF s \in DOMAIN r.fields THEN r.fields[s] ELSE <<>>
Shows(r, S, state) == \E s \in S \cap DOMAIN r.fields :
                        \E f \in DOMAIN r.fields[s] : r.fields[s][f] = state
ScenarioMet(v, r, s) == v.files[s] # "differs" /\ ShownStates(r, s) = FieldEntitlements(s[2])

\* The rows that the harness read back for the principals S, and those they should see.
RowsShown(r, S) == MapThenSumSet(LAMBDA s : Len(r.rows[s]), S \cap DOMAIN r.rows)
RowsExpected(v, S) == MapThenSumSet(LAMBDA s : Len(ExpectedInbox(v, s)), S)

PortalJudged(v, r) ==
  LET principals == Slots(v, "principal")
      scenarios == Slots(v, "scenario")
      shown == RowsShown(r, principals)
      expected == RowsExpected(v, principals)
  IN  PortalInboxes(v, r)
      \union One("rows-visible", shown = expected /\ expected > 0)
      \union One("cross-team-fewer", r.fewer)
      \union Each("signal", [a \in {"emitted", "conforms"} |-> a \in r.signal])
      \union Each("trace", [a \in {"valid", "nodes"} |-> a \in r.trace])
      \union Each("field-states", [s \in scenarios |-> ScenarioMet(v, r, s)])
      \union Each("field-present", [state \in {"hidden", "read-only"} |->
                    Shows(r, scenarios, state)])

Portal(v) ==
  IF DOMAIN v.files = {} THEN Fail("fixtures-present")
  ELSE IF \/ Malformed(v, {"principal", "scenario", "uischema"})
          \/ Slots(v, "uischema") = {} \/ v.bundle = "absent"
  THEN Thrown
  ELSE IF v.bundle = "stale" THEN Fail("schema-present")
  ELSE IF v.parts.results = Torn THEN Thrown
  ELSE One("fixtures-present", Slots(v, "principal") # {} /\ Slots(v, "scenario") # {})
       \union One("uischema-resolves", Having(v, "uischema", "dangling") = {})
       \union (IF v.parts.results = NoPart THEN Fail("results-present")
               ELSE PortalJudged(v, v.parts.results))

-----------------------------------------------------------------------------

PdpStates == {"hidden", "read-only", "error", "validation-failed"}
StoryAspects == {"renders", "accessible", "matched"}

Baseline == <<"baseline", "loan-application">>
Snapshot == <<"snapshot", "stories">>

\* preview.ts reads the one baseline; a control without a scope has no story.
UiThrows(v) ==
  \/ Baseline \notin DOMAIN v.files \/ v.bundle \in {"absent", "stale"}
  \/ v.files[Baseline] \in {"malformed", "scopeless"}

\* The lint walks the layout; the count of controls takes its top level only.
UiResults(v) ==
  LET committed == Snapshot \in DOMAIN v.files /\ v.files[Snapshot] = "agrees"
      drifted == {v.program} \union (IF committed THEN {} ELSE {"matched"})
  IN  [rows       |-> [s \in {<<"story", p>> : p \in PdpStates} |-> StoryAspects \ drifted],
       provenance |-> v.files[Baseline] # "outdated",
       dangling   |-> Having(v, "baseline", "dangling") \cap {Baseline},
       controls   |-> IF v.files[Baseline] = "nested" THEN 0 ELSE 1,
       contrast   |-> v.program # "contrast"]

Failing(r, aspect) == {s \in DOMAIN r.rows : aspect \notin r.rows[s]}

Ui(v) ==
  LET stories(r, aspect) == CountWhole(r, DOMAIN r.rows, {aspect})
      every(r, id, aspect) == One(id, stories(r, aspect) = Cardinality(DOMAIN r.rows)
                                      /\ DOMAIN r.rows # {})
      judged(r) ==
        One("provenance-current", r.provenance)
        \union Each("scope-lint", [s \in r.dangling |-> FALSE])
        \union One("scope-lint-clean", r.dangling = {} /\ r.controls > 0)
        \union every(r, "states-covered", "renders")
        \union Each("a11y", [s \in Failing(r, "accessible") |-> FALSE])
        \union every(r, "axe-aa", "accessible")
        \union One("contrast", r.contrast)
        \union Each("snapshot", [s \in Failing(r, "matched") |-> FALSE])
        \union every(r, "snapshots-matched", "matched")
  IN  IF Slots(v, "baseline") = {} THEN Fail("baseline-present")
      ELSE IF v.bundle = "absent" THEN Thrown
      ELSE IF v.bundle = "stale" THEN Fail("schema-present")
      ELSE IF Malformed(v, {"baseline"}) \/ v.parts.results = Torn THEN Thrown
      ELSE One("baseline-present", TRUE) \union DslValid(v, "baseline")
           \union (IF v.parts.results = NoPart THEN Fail("results-present")
                   ELSE judged(v.parts.results))
=============================================================================
