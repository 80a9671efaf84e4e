# A verification development for ichiflow

TLA+ specifications of the parts of ichiflow whose correctness depends on
order, timing, retries and shared state, model-checked with TLC on small
instances and, for the properties that matter most, proved with TLAPS for all
instances. Paths below are relative to the repository.

## 1. The system

ichiflow runs government-style *Cases*: a declarative *flow* (steps) is
interpreted by one generic Temporal workflow per Case; steps raise Tasks for
people, issue numbered Documents, delegate to external systems, decide by
decision tables, and everything that happens is an event that the
*DecisionRecord* stitches into one chain.

| component | state | operations | who it talks to | what is hard |
|---|---|---|---|---|
| Flow interpreter (`packages/flow/src/interpreter.ts`, `dsl.ts`) | position in the flow, blackboard, buffered answers, clock stops, reply queues, SLA budget, event history | one handler per signal (task, document, reply), one resumption per await, budget timers | signals from portal, adapters; activities of the worker | interleaving of signals with the await loops, timeout races, clock-stop accounting, duplicate and malformed replies |
| Flow activities (`activities.ts`) | one module-level Document registry per worker | `runStep`, `createTask`, `resolveAssignee`, `issueDocument`, `acceptDocument`, `submitExternalTask` | called by Temporal at least once | retry after a lost completion, restart of the worker |
| DecisionRecord (`decisionrecord.ts`) | none | `assembleDecisionRecord`: stitch a history, report orphans | reads the Case history | completeness for every history the interpreter can write |
| Issuance (`packages/issuance/src`) | number registers, memo per (case, step), registry by reference, void ledger, audit trail | `issue`, `supersede`, `revoke`, `accept`, `voidNext`, verification endpoint | called by activities and the public endpoint | numbers lost or given twice, partial failure, versions |
| Entity store (`packages/api/src/store.ts`; Kotlin `core/.../entity`) | rows with version and tombstone, audit log, outbox, sequence counters | create, get, update, delete, query, relay | BFF; Kotlin callers | two bindings of one contract, audit and outbox in step, paging at the edge of Int |
| BFF (`packages/api/src/bff.ts`, `contract.ts`) | id counter | one route per operation | entity store, OpenAPI contract | generated ids, error mapping, stale snapshots |
| Adapter reliability (`packages/adapters/src/reliability.ts`), notification delivery (`packages/notifications/src/delivery.ts`) | ids seen | idempotent receiver, bounded attempts, DLQ | external systems | duplicates, poison messages, resends |
| Authorization (`core/.../authz`, `packages/portal/src/pdp`) | tuples, model, decision log; per check a visited set | `check`, the decision log, `listVisible` | portal, PEPs | two engines, recursion over cyclic tuples, order of tuples |
| Adapter mapping and bindings (`mapping.ts`, `bindings.ts`), notification templating (`templating.ts`) | none | `decode`, `translate`; `render` | adapters, notifications | rules that write over or through each other, a message made by halves |
| Reference data (`packages/cli/src/verify/reference-data.ts`) | none | integrity of code references over validity windows | verify CLI | half-open windows |
| Decision layer (`core/.../decision`) | none | compile a table to DMN, evaluate with Drools, trace | interpreter (through `runStep`) | the engine is a library |
| Producers (`flow/src/conformance.ts`, `*/src/run.ts`, `uischema/src/preview.ts`, `portal/src/harness.tsx`, the Kotlin runners) | one artifact file each | run every committed fixture, write what came of it | fixtures, the code under test | an abort leaves the old artifact, a write is a truncation first |
| Verify scopes (`packages/cli/src/verify/scopes`) | none | one `run` per scope: read fixtures, schemas and artifacts, return checks | producers through their artifacts | stale artifacts, torn files, vacuous counts |
| Verify CLI (`packages/cli/src/cli.ts`, `verify/*.ts`) | the progress ledger, one file per scope | `verify`: run the scopes, validate the envelopes, append to the ledgers, exit code | scopes; CI and agents | overlapping runs, a kill between truncation and write, exceptions past the `try` |
| Portal (`packages/portal/src`), UI schema (`packages/uischema/src`) | form fields | inbox, entitlements, rendering | decision point, harness | order and filter of the inbox, fields shown to the wrong principal |
| Contracts, tools | none to speak of | generated code, scripts | – | – |

What makes each component correct is listed as `hazards` in PROJECT.json,
each at the line where it bites, with the properties that would catch it.

## 2. Plan

In this order, most important behaviour first; *done* marks what is here.

1. `CaseContract`, `FlowInterpreter` – the interpreter and what it promises. *done*
2. `DecisionRecord`, `FlowRecord` – completeness of the record over the
   histories of 1. *done*
3. `Issuance`, `IssuanceActivity` – the Document registry, and the registry
   under at-least-once activities and restarts. *done*
4. `FlowInterpreterProofs`, `IssuanceProofs`, the refinement among them. *done*
5. `EntityStore` and `Bff`: the two bindings of the store in one module, with
   callers that keep the snapshots they read, the routes, the outbox relay;
   `StoreProofs`. *done*
6. `Authz`, `AuthzModel`, `AuthzProofs`: the recursive check against the least
   fixpoint of the rewrites. *done*
7. `Delivery`: the idempotent receiver that adapters and notifications share, with
   resends and the notify events the DecisionRecord stitches; `BoundaryProofs`. *done*
8. `ReferenceData`, `Messages` (mapping, bindings, templating); `BoundaryProofs` for both. *done*
9. `Verify`: the verify CLI over a changing repository, with overlapping and killed
   processes; `VerifyProofs`. *done*
10. `Workspace`, `Verdict` and a harness module per group of scopes, for what every
    scope checks and every producer writes; `Harnesses` is the catalog. *done*
11. `CatalogVerify` and `CatalogProofs`: what the catalog's verdicts say, proved scope
    by scope on top of an invariant of `Verify` that says what view each artifact was made
    from. *done*
12. Proofs still worth having: `FreshVerdictTrue` for the portal as well, from what has to be
    assumed of its seeds so that a broken filter, order or entitlement shows.

## 3. Modules

### FlowInterpreter, CaseContract

A Temporal workflow runs in *activations*: buffered signals first, each
handler to completion, then timers and activity results, then the workflow
function up to its next await. So there is one action per signal handler
(`TaskSignal`, `DocumentSignal`, `ReplySignal`), one per resumption of the
workflow function, and a flag `woken` between the handler that fulfilled the
awaited condition and the resumption. While `woken`, more handlers may run,
but no time passes and the budget timer can no longer win. Each resumption is
the whole stretch of code to the next await, trailing events included.

`at` names the await: an activity (`run`, `assign`, `create`, `issue`,
`accept`, `submit`), a sleep (`sleep`, `settle`), or one of the two conditions
of an await loop (`clock`: budget running, `paused`: stopped). `Unblocked` is
the predicate the code passes to `condition()`. The three loops are two
operators: `AwaitAnswer` (human-task and offer: an answer goes before a pause)
and `AwaitReply` (external-task: a pause goes before the queue).

The variables `active`, `inbox`, `lapsed` and `signals` are history: the
unpaused time of the current wait, all replies handled, the offers that
expired, and how many signals were delivered (bounded by `MaxSignals`).

Assumed from `schemas/flow.tsp` and named in `FlowAssumption`: at least
one step, and step ids unique within a flow. The interpreter does not check
them itself.

`CaseContract` is what a Case promises those who wait for it, without loops,
signals or clocks; `HonoursContract` is the refinement.

### DecisionRecord, FlowRecord

`DecisionRecord` has the event families and the orphan detection as operators
over a history. `FlowRecord` evaluates them on the history the interpreter has
written so far, at every state of every run.

### Issuance, IssuanceActivity

The issuance service is synchronous, so each call is one action; the only way
to stop half way is a `render` that throws after the number was allocated
(`RenderFails`). A hash stands for what it digests. `handed` is history: the
hashes of Documents handed out. `Issue` has the caller's own `supersedes` among its
inputs (`Claims`) and stores it unchecked, as `issue()` does; `claimed`, history too,
says which references were issued so. `Verify` is the endpoint's status, for a
presented hash or for none.

`IssuanceActivity` puts Cases before one worker's registry. An attempt of an
activity takes effect and then either completes or loses its completion and is
retried with the same input. `WorkerRestart` empties the registry, which is a
module variable of the worker. The Temporal side (`Complete`, `Lose`) is
modelled from how `activities.ts` is used.

### EntityStore, Bff

The domain store: records with a version and a tombstone, an audit log and an
outbox. `binding` is the implementation at work; the two differ in what may be
created anew (`Free`) and in the arithmetic of a page (`Window`, with `Wrap` for
Kotlin's Int, whose range is the constant `IntMax`). Calls are synchronous, so
each is one action; one that throws changes nothing. `query()` is an operator,
since it only reads: `Found` is the records that pass its filter, and `Matches` puts
each at its rank in the order of sort field and id, which is total. `PagesPartition`
says of all pages together that they are those records in that order, with none
twice and none left out. `dispatched` is history: the sum of what relays returned.

`Bff` puts callers before it. On the TypeScript store sits `handle()`, one
action per route; whether a body passes the schema is an outcome. A status of
500 stands for an exception that leaves `handle()`. The Kotlin repository is
called directly. `view` is history: the last snapshot each caller got.
`MCCore` runs these two modules and the next two, each in initial states of its own.

### Authz, AuthzModel

`check()` is a recursive search that stops at the first success. The recursion
is unfolded into `goals`, what the activations have still to try, innermost
first: an activation that fails goes on with the next goal, which may be its
caller's, and a success ends the check. One action per activation (`Visit`), one
for a node already visited (`Revisit`), one for the question (`Ask`), one for
the logged answer (`Decide`). Each goal carries the path to it, from which the
core puts together its reason. The core sorts its tuples, the portal takes them
as listed; the model takes them in every order, so it stands for both engines.
Unions are flattened: `evalUnion` and `||` try their members one by one, as a
relation tries its rewrites. A reason is the path, not the words around it. `Nil`
stands for no question and no answer.

`AuthzModel` has the rewrites of Cases and what they rest on, from
`schemas/authz/model.json`; the design-time half (artifacts) has the same shape.

### Delivery

`runReliability` (adapters) and `runDelivery` (notifications) are one loop with two
vocabularies; `accepted` is *applied* in one and *sent* in the other. The receiver
is called once per attempt, so an attempt is a step: `Begin` opens a message,
`Attempt` is one turn of the inner loop, `Dedupe`, `Attempt` and `Quarantine` are the
three ways out. `Accepts` is the receiver, any function of message and attempt. The
`events` are the second loop's, judged by `DecisionRecord`'s notification family.
`Promised` is what the sequence of messages alone says about each of them, and
`SettledAsPromised` compares the loop's dispositions with it.

### ReferenceData, Messages

Pure functions; the one step of each module is a call. Dates are integers. `rows` and
documents keep their order, since the map keeps the last document of a key and
`find` the first row of a code. `ReferentsAvailable` compares the interval
arithmetic with its meaning, day by day.

`Messages` holds JSON documents by reference, as JavaScript does: a heap of objects,
and values that are atoms or places in it. `resolvePointer` returns the object it
finds and no copy, `applyRule` puts it, or the literal object of a constant rule, into
the payload, and `setDotted` descends into whatever object is there before it makes
a new one. So two documents may share an object, and a rule may write into the wire
message or the mapping. A call of `translate` is modelled with what `runAdapters` does
around it (`RoundTrip`): the message translated as it is, and again by the same mapping
after `frameFor` and `decode`, on the heap that the first translation left.

`NothingHalfMade` has two hypotheses about the translation, both defined beside it:
`WritesThrough` (a rule's target lies beneath an object that an earlier rule copied or
set) and `SeesTheFrame` (a rule copies a frame that only the transport supplies).
Without the first it is false, which the run `translation` shows. A template's text is the set of
its placeholders. `WellTyped` is what the types of the code say of the arguments: a
message is an object whose members are atoms and objects, a path a sequence of `Tokens`,
and a constant rule has its literal, an atom or an object of its own.

### Verify

The repository (`files`, `bundle`, `program`, `parts`) is edited while verify processes
run. A process is a record in `run`; its steps are the file accesses of
`runScope` and `writeLedger`: `ReadFixtures`, `Judge` (artifacts, verdict, envelope
validation), `ReadLedger`, `Truncate`, `Fill`. `writeFileSync` truncates and then
writes, so producers and ledger writers both have a moment in which the file is
`Torn`; `Kill` and `ProducerKilled` may leave it so. A writer that fills over another's
longer text leaves that text's end behind, hence the choice in `Fill`. `envelopeValidator`
is compiled once per process (`Compiled`) and throws past the scope's `try` when the
schema is not there.

History variables and fields: `origin` (what the producer of an artifact had read),
`before` (the runs that had ended when this one began), `judged` (what was true when the
scope was judged).

`Contents` (what a fixture may hold), `Checks`, `Throws`, `Results` and `Sound` are
parameters. The modules below define them. `FixturesOK` says what an edit can make of a
scope's fixtures: finitely many, each of a content that its family can have.

### Workspace, Verdict and the harness modules

`Verdict` has checks, envelopes and their counts. `Workspace` says what a scope finds on
disk: a *view* with fixtures by family and name, each with a content (*agrees*,
*differs*, *invalid*, *malformed*, or one that only its family has), the emitted schemas,
the one aspect of the code under test that is wrong, and the artifacts. A producer's
artifact is a row per fixture, holding the aspects that came out as they should, and
the totals that the producer itself computes; a scope turns rows and totals into checks
exactly as the code does, throws and early returns included.

| module | scopes |
|---|---|
| `FlowHarness` | `flow-layer`, `decisionrecord`, `interpreter-determinism-spike` |
| `StoreHarness` | `entity-store`, `entity-api`, `authz` |
| `BoundaryHarness` | `adapters`, `notifications`, `issuance` |
| `DecisionHarness` | `decision-layer` and its five runners, `decision-projection-spike` |
| `ScreenHarness` | `portal`, `ui` |
| `ToolHarness` | `self-check`, `agent-kit`, `schema-fidelity-spike`, `contract-vectors`, `schema-pipeline`, `codegen`, `contract-gate`, `code-quality`, `reference-data` |

`Harnesses` is the registry: it gives each scope its checks, its producers, the files it
reads as fixtures (`Fixture`, `Content`) and the faults of the code that it is about
(`Faults`). `Upheld` says what a scope stands for without going through its checks: the
fixtures that must be there (`Required`, `Inhabited`) are, all of them agree, the code is
right and the schemas are built. What a scope cannot see is named beside it: `Idle` code,
`Vacant` corpora, `Harmless` layouts (section 4). `FreshVerdictTrue` compares the verdict
with `Upheld`. `CatalogVerify` puts the verify processes over the catalog and states
`AddedFixtureFails`, which is about its covering scopes.

## 4. Runs

Passing runs, with what bounds them:

| run | checks | bounds and why they are enough |
|---|---|---|
| `flow` | `TypeOK`, `NoMissedWakeup`, `SlaAccounting`, `ClockStopsBracketed`, `FirstReplyWins`, `RepliesAccounted`, `RecordStitches`, `AnswerBeatsTimeout`, `HonoursContract` | flows with each step type, a budget of a few ticks with `MaxAge` 3, and three signals: a pause, a resume and an answer, or three replies (good, duplicate, malformed, uncorrelated) cross in one wait, and a budget can run out before and after a pause |
| `flow_live` | `CaseResolves`, `ResolutionEndsPause` | few signals: liveness is about what happens when they stop coming |
| `issuance` | `TypeOK`, `NumbersAccounted`, `RegistersAgree`, `AuditTellsRegistry`, `GenuineVerifies`, `VersionsChain` | three keys over two registers: a chain of two supersessions, and two issues and a void that compete for one register; callers who give no `supersedes` or one reference, which may exist, be closed or never come to be. Symmetric in the two payloads and in the two keys of the shared register |
| `activity` | `ActivityTypeOK`, `ReferencesHeld`, `AcceptancesAgree`, `IssueCompletes` | three Cases, two on one register, three lost completions and a restart: every attempt of one activity can be the one that is lost |
| `core` | `BffTypeOK`, `AuditTellsRows`, `OutboxFollowsAudit`, `PagesPartition`, `VersionDetectsChange`; `AuthzTypeOK`, `ReasonsProve`, `RecursionBounded`, `DecisionsRight`, `ReadWithoutLeak` | store and routes: two records, two callers, four mutations: create, change, delete and create anew with another record in between; Int goes to 3, so the products of a page do overflow. Decision point: all subsets of nine tuples, two teams that are members of each other among them, and two checks in a row: one whose visited set another could inherit |
| `verify` | `VerifyTypeOK`, `LedgerTells`, `ExitTells`, `FreshVerdictTrue`, `AddedFixtureFails`, `VerifyEnds`; `EveryMessageSettled`; `ReferentsAvailable`; `NothingHalfMade` | see below |

The run `verify` begins, for each of the 21 scopes beside `self-check`, with the
repository as it should be or with one thing off: a fixture of every other content, one
fewer, one more, a schema bundle that is stale, of another version or absent, one aspect
of the code wrong; and with the artifacts made from that or with none. From there at most
`MaxMoves` edits, rebuilds, producer runs and verify runs follow, in any order with the
steps of those that are under way: one where something is off already, two otherwise,
and three for one scope (`LongRun`), so that two processes can overlap after an edit,
truncate one ledger, and be killed there. The scopes share no state but the schemas,
so one scope and `self-check` are enough for a list of scopes in which one goes wrong.

In the same run, in initial states of their own: every sequence of up to
`MaxMessages` messages over two ids, poison or not, with zero to two attempts and a
receiver that accepts poison at the second; every pair of documents with two rows, windows over
three days and open ends, one row deprecated, references both ways and the
documents under one key; every pair of mapping rules over nested and
clashing targets, with object constants, and messages with and without an object to
copy and with and without headers; and every template over two parameters. These are different questions of
components that do not talk to each other at run time; they stand in one run because their
scopes do in the catalog.

The bounds are the constants `MaxSignals`, `MaxAge` (FlowInterpreter),
`MaxNumber` (Issuance: no number above it is handed out), `MaxLost` and
`MaxRestarts` (IssuanceActivity), `MaxSeq` (EntityStore: mutations), `MaxLog`
(Authz: decisions) and `MaxMoves` (MCVerify), each used in a guard, and
`MaxMessages`, which bounds MCVerify's initial states. The runs switch the deadlock check off
because the system really stops: a Case that has resolved, or whose signals are
used up, has nothing to do, a store or decision point only serves calls, and a verify
process or a pure function is done when it has answered.

Runs that must fail each show one disagreement between the code and a sentence
of its documentation; PROJECT.json quotes the sentences under `findings`.

| run | property | what happens |
|---|---|---|
| `record_replay` | `ReplayAnswers` | a malformed reply uses up its message id, so its correction is deduped |
| `activity_recorded` | `IssueRecorded` | a retried `issueDocument` returns no events |
| `activity_accept` | `AcceptCompletes` | a retried `acceptDocument` throws for ever |
| `activity_decline` | `DeclineVerifies` | a declined offer verifies as issued |
| `bff` | `AlwaysAnswers` | a create under an id in use makes `handle()` throw |
| `translation` | `TranslatePure` | a rule beneath a copied object writes into the wire message, one beneath an object constant into the mapping |

**Other disagreements met**, for which no run is kept:

- `sla.paused` and `sla.resumed` of a paused offer are orphans of the
  DecisionRecord: its document family has no clock events
  (`packages/flow/src/interpreter.ts:307`; docs/architecture/13 line 344 wants no
  orphans).
- A reply for a step that does not wait for one is buffered for good and never
  surfaces (`interpreter.ts:371`; docs/architecture/05 line 439).
- `supersede()` with a key issued before marks the prior superseded and creates no
  successor (`packages/issuance/src/issuance.ts:90`; docs/architecture/04 line 493).
- `issue()` stores the `supersedes` of its caller unchecked and does not mark the prior
  (`packages/issuance/src/issuance.ts:75`, `types.ts:87`): by such a call versions fork, or
  name a prior that is not superseded or does not exist. `activities.ts` makes none.
  `VersionsChain` speaks of the versions that `supersede()` makes.
- Contracts that share a prefix fill one space of references; hence the hypothesis
  `DistinctPrefixes` below (`packages/flow/src/activities.ts:119`).
- After a restart of the worker a retry mints a second number, and an acceptance can
  fall on another Case's Document (`activities.ts:91`, `:172`). `ReferencesHeld` and
  `AcceptancesAgree` therefore speak of the life of one worker.
- Kotlin's `query()` computes a page in Int: beyond it, another page or an exception.
  `PagesPartition` is stated up to that range.
- A record created anew after a soft delete starts at version 1 in TypeScript, and is
  refused in Kotlin, which `store.ts:4` says it mirrors. `VersionDetectsChange` and
  `LegalLog` have a case for it.

- A ledger that was torn once, by overlapping runs or by a kill, is never repaired:
  `readScopeLedger` throws in every later run of the scope, and since the throw is past
  the scope's `try` the scopes after it have no turn (`packages/cli/src/verify/ledger.ts:46`;
  `runner.ts:59`). `ExitTells` and `LedgerTells` are stated with it.
- An envelope that its own contract refuses gets one more failed check, but its
  `progress` is not counted again (`packages/cli/src/verify/runner.ts:54`).
- A fixture that is edited under its old name is judged by the old artifact: coverage
  compares names (`packages/cli/src/verify/scopes/flow-layer.ts:158`). Five scopes compare
  nothing (`adapters`, `notifications`, `issuance`, `ui`, `decision-layer`). Hence the
  hypothesis of `FreshVerdictTrue`, and `Covering` in `AddedFixtureFails`.
- `adapters/src/bindings.ts` gives a frame without headers or query an empty one, so a
  mapping that copies the whole document, or the headers or query as a whole, sees the
  transport (`SeesTheFrame`).
- A scope that runs whatever fixtures it finds passes when it finds none, with code that is
  wrong: an empty corpus of the cross-language scopes (and then without their schemas too),
  of the projection spike, or of the decision layer's constructs (`Idle`, `Vacant`).
- `ui` holds every layout to its schema, and lints, counts and renders only the one
  baseline (`packages/uischema/src/preview.ts:34`): what else is wrong with another layout
  is not seen (`Harmless`).
- The count of controls in `packages/uischema/src/preview.ts:41` takes the top level of
  a layout, the lint walks all of it: a layout whose controls are in a group is refused.

**Fairness.** `FairSpec` of the interpreter is weak fairness of `Scheduled`
(Temporal retries activities without limit, fires due timers, resumes a woken
workflow) and of `Tick` (time passes). No signal is fair: nobody has to answer.
`Scheduled` leaves the await of `acceptDocument` out: when its first completion is lost,
every retry throws (run `activity_accept`), so nothing guarantees that it completes.
`FairActivitySpec` is weak fairness of each Case's attempts, which is Temporal's
unlimited retry policy. `CaseResolves` holds under two hypotheses: that no pause
stands for ever, since a delegation with a standing pause does wait for ever, by
design; and that no `acceptDocument` is awaited for ever. For the same reason
`ResolutionEndsPause` promises of an accepted offer that it gets to its
`acceptDocument`, and of every other answer that the step ends. `VerifyEnds` has weak fairness of the steps of each verify process: it is one
JavaScript thread that reads and writes files synchronously, and nothing can block
it. Edits, producers and kills are not fair. The store and the decision point are checked
for safety only.

## 5. Proofs

Eight modules hold the proofs. What each proves, and along which argument:

**`FlowInterpreterProofs`**, for every flow, budget, set of replies and bound:

- `TypeCorrect`: `TypeOK`.
- `NoWakeupMissed`, `SlaAccounted`: from the inductive invariant
  `IInv == TypeOK /\ PlaceOfType /\ NoMissedWakeup /\ Budget`. `NoMissedWakeup`
  is not inductive alone: a resumption must know which step types can be at
  which await (`PlaceOfType`), and the clock arithmetic needs that what was
  left when the clock was armed plus the time waited since is the unpaused time
  (`Budget`).
- `TimeoutsAreLate`: the action property `AnswerBeatsTimeout`, from `IInv`. Only
  `BudgetExhausted` ends a step as timed out; it needs `~woken`, and then
  `NoMissedWakeup` says there is no answer and `Budget` that the time is up.
- `KeepsContract`: the interpreter implements `CaseContract` (`HonoursContract`). The
  initial states map to its initial state, and each action to one of its steps or to a
  stutter, given `Ahead`: the steps after `pc` have not ended, `lapsed` holds offers
  that have, an accepted offer has its answer, and only steps that wait for an answer
  are in an await loop.
- `FirstReplyAnswers` (`FirstReplyWins`), from `ReplyInv`: what is buffered for a step is
  the end of what it was sent (`Buffered`), nothing is drained before its step begins
  (`Untouched`), and the ids seen are those of the part that was drained.
- `EveryReplyAccounted` (`RepliesAccounted`): one drain extends the account of the replies
  before it, by counting over a concatenation; the positions that count as dead,
  duplicate or answering in the longer sequence are those of the shorter one and those
  of the drained queue.
- `ClocksBracketed` (`ClockStopsBracketed`), from `StopInv`: the record has the clock of
  the step in progress stopped just while the step is paused, and has never left the
  clock of a step ahead stopped.
- `RecordIsStitched` (`RecordStitches`), from `RecordInv`: only the step in progress may
  lack its terminal event, it has been raised before anything else is noted of it, and
  the steps ahead have not been. Its hypothesis is `FreshIssue = {TRUE}`: a retried
  `issueDocument` returns no events, so its Document is not recorded (run
  `activity_recorded`) and the acceptance that follows is an orphan.

**`IssuanceProofs`**, for every set of keys, contracts and payloads, and for any number
of Cases, lost completions and restarts:

- `TypeCorrect`; `NoNumberLost` (`NumbersAccounted`) from `NumbersInv`, which
  adds that registers never fall below their start: a number about to be drawn
  is not drawn yet, so it is neither anybody's allocation nor void.
- Under `DistinctPrefixes` (without it they are false, section 4):
  `RegistersNeverDisagree`, `VerificationSound`, `VersionsNeverFork`, from
  `RegistryInv`. The argument is `FreshReference`: references are injective on
  allocations, so the reference about to be issued names no Document; `issue`
  and `supersede` then both are one step that enters a new Document and perhaps
  marks its prior (`Enters`), and what was handed out is what is in the
  registry (`HandedOut`). `VersionsNeverFork` is about the references that no caller of
  `issue()` claimed to supersede another, whatever the claimed ones say beside them.
- `TrailTells` (`AuditTellsRegistry`), under the same hypothesis: each operation appends
  events about one or two references, and what the trail tells of all others stays.
- `ActivityTypeCorrect` (`ActivityTypeOK`); `OneReferencePerStep` (`ReferencesHeld`) and
  `AcceptedByHolder` (`AcceptancesAgree`), under the same hypothesis, from `LifeInv`: while
  no restart has emptied the registry, `RegistryInv` holds of it, a Case past issuing holds
  what the memo has for its step (`Memoized`), and an accepted Document has a holder that
  said so (`Accepted`).

**`StoreProofs`**, for every set of records, Cases and callers, both bindings, any number of
mutations:

- `CallersType` (`BffTypeOK`), `CallersImplementStore` (`BffSpec => StoreSpec`): a route or a
  call of a Kotlin caller is an operation of the store or leaves it alone. So what
  follows from `StoreSpec` holds under every caller.
- `OutboxComplete` (`OutboxFollowsAudit`) and `AuditComplete` (`AuditTellsRows`), from
  `StoreIInv`: a mutation is a relay or `Mutation`, one row with the next stamp, one
  audit entry and one outbox record (`StoreSteps`).
- `VersionsDetect` (`VersionDetectsChange`), from `SnapshotsOK`: in the same life a later
  version is a higher one, and in the Kotlin binding there is one life.
- `PagesListMatches` (`PagesPartition`): rank in a total order is a bijection onto
  `1..n`; a page is then an interval of ranks, and `Wrap` is the identity as long as the
  products stay in the range of Int. That only finitely many records exist is an
  invariant (`RowsFinite`), whether `Ids` is finite or not.

**`AuthzProofs`**, for every finite set of objects and relations, every model, every set
of tuples and every order of trying them:

- `TypeCorrect`, `ReasonsAreProofs` (`ReasonsProve`), `RecursionIsBounded`
  (`RecursionBounded`) and `DecisionsAreRight` (the action property
  `DecisionsRight`), from `IInv == AuthzTypeOK /\ RecursionBounded /\ Search /\
  ReasonsProve`. `Search` is the argument: what is asked, and every ground of a
  visited node, is visited or still to be tried (`Covered`); and every goal was
  reached by grounds (`Reached`) and would grant what is asked (`Suffices`). A
  search that ends with no goals has visited all there is, so the nodes it has
  not visited are a closed set without the one asked, and the denial is right
  (`DenialIsRight`); one that ends with the principal on top is right by
  `Suffices`, and its path is the reason. `VisitPending` carries the sequence
  reasoning: whatever the order, the goals after a visit are those of the node
  and those that were left.
- `ReadsWithoutLeak` (`ReadWithoutLeak`), of the model in `AuthzModel`: the closed sets
  without associations are closed for `can_modify` with them. It has two hypotheses, which
  `model.json` and the vectors meet: every object is of one of the Case types or of
  none (`CaseTypes`), and a tuple names a principal, an object or the members of one
  (`DeclaredUsers`, the model's declared kinds of users).

**`BoundaryProofs`**:

- `DeliverySettles` (`EveryMessageSettled`), for every set of ids, every receiver, every
  sequence and every bound on attempts, from `IInv == DeliveryTypeOK /\ AllSettled /\
  Counted /\ Remembers /\ Stitching`: `Remembers` ties `seen` to the acceptable messages
  behind the loop and says that the attempts made so far were all refused; `Stitching`
  that every request but the open one is closed.
- `ReferentsAreAvailable` (`ReferentsAvailable`), for all documents and any days:
  coverage of windows carries over day by day, and a window that is not covered has a day
  outside, which is among the days on which something begins or ends
  (`CoverageIsContainment` and the lemma after it).
- `MadeWhole` (`NothingHalfMade`), for every list of rules, message, transport, template
  and request that is `WellTyped`. The translation recurs over the rules, and `setDotted`
  over a path; what such a function yields exists by induction. The argument is about
  the heap, which each rule only adds to: the objects of the message and the mapping
  (the *source*) stay as they were, and each object made since is reached from the payload
  by one path, the target of some rule or a prefix of it, which is why a rule writes into
  none but the objects on its own way. An object of the source is met there only if an
  earlier rule put it, which `~WritesThrough` excludes. So what a rule writes is there
  afterwards and stays until a later rule writes on a clashing path, and what is in the
  payload some rule wrote. The second translation reads the decoded copy, whose members
  are those of the message but for the frame, and what is copied is shared by both.

**`VerifyProofs`**, for every registry, any number of processes, and whatever the scopes
check and the producers write:

- `ExitCodeTells` (`ExitTells`), from `VerifyInv`: while a process is at work, the scopes
  it has still to do and those it has given verdicts on make up what it was asked for,
  and its code at the end is the conjunction of the verdicts (`ProcessOK`).
- `LedgerIsTold` (`LedgerTells`), from `VerifyInv /\ LedgerInv`: besides the rows that are
  in the file, the rows a process has read (`PreviousOK`) are rows of verdicts, and a run
  whose row is missing from them overlaps the one that read (`BeforeOK` says what was
  over before it began).
- `VerifyTypes` (`VerifyTypeOK`), which adds what is where on disk (`FilesOK`).

The last two have the hypothesis `Distinguishable`: the marks for a missing and a torn
file are not exit codes and not ledgers. TLA+ leaves open whether a model value is a record;
the hypothesis says it is not, and TLC treats them so.

**`CatalogProofs`**, for every set of fixtures, every fault of the code, every state of the
schemas, any number of processes and every order of edits, producers and runs:

- `AddedFixturesFail` (`AddedFixtureFails`) and `FreshVerdictsTrue` (`FreshVerdictTrue`), both
  from `JudgeInv`, which ties what happened to what is on disk: an artifact that a producer
  wrote is what it makes of the sources it had read (`Provenance`, `Made`), and every
  envelope is its scope's verdict on a view whose artifacts were made so (`Watched`).
- On top of it, each scope has two lemmas. The first (`FlowLayerTells` to `UiTells`) says for
  which views all its checks are green, by taking its union of checks apart (`Graded`,
  `Green`): a count is what it counts, a total is all of its rows. The second
  (`FlowLayerTrue` to `UiTrue`) says that on artifacts made of the fixtures and the code it
  sees (`FreshView`) that is `Upheld`: both directions, so that a scope lacks no check and
  has none that fails a sound repository.
- `HarnessTrue` puts these together for the scopes of `HarnessesButPortal`. The portal is left
  to TLC: whether a broken filter shows in an inbox depends on the seeded tasks.

Their hypotheses: `TheCatalog`, that the parameters of `Verify` are the definitions of
`Harnesses`, as the run has them; `Prepared`, that what is on disk at the start, if its
origin is known, was made by its producer; and for the second `MarksApart`, that the marks
of a missing and of a torn artifact are nothing that a producer reads or writes, and that the
portal is not in the registry.

**`LeastNumber`** is shared: induction over a set of numbers (`StepByStep`) and the
least-number principle, from the well-foundedness of `<`. It is how what a recursive
function yields is proved here, where the library's induction theorems cannot be
instantiated.

The assumptions on constants are `FlowAssumption`, `BoundAssumption`,
`IssuanceAssumption`, `ActivityAssumption`, `StoreAssumption`, `AuthzAssumption`,
`OpenAssumption`, `DatesAssumption`, `MessagesAssumption` and `RunsAssumption`, which TLC
evaluates on every run of their modules. The hypotheses of single theorems are named above.

**Model-checked only.** Liveness (`CaseResolves`, `ResolutionEndsPause`, `IssueCompletes`,
`VerifyEnds`), since TLAPS does not do `ENABLED`; and `FreshVerdictTrue` for the portal.

## 6. Not modelled

- Rendering, canonical JSON and digests: data, a hash stands for its input.
- The Temporal server and its test environment, beyond the order of activations and
  at-least-once activities; and how `conformance.ts` puts a vector's signals on a timeline.
- The Decision layer's compiler and engine binding: DMN text around Drools, a
  library. What its runners make of the results is in `DecisionHarness`.
- In the portal, the case, obligation and trace views and the form's own fields
  (`buildSignal` makes 0 of a number that does not parse): functions from props to markup
  without state shared with anything. In UI schema, the layout generator, the HTML, axe and
  the contrast arithmetic: outcomes of the story they belong to.
- Generated code (`contracts-ts`, the Kotlin models) and the TypeSpec compiler: data,
  produced outside. `ToolHarness` has the scopes that compare them.
- Scripts that no scope runs: the licence check, contract acceptance, drift checks.
- In what is modelled: edits between the several artifacts that one scope reads, which it
  reads in one step here (`decision-layer` has five, `codegen` three); arrays, null, pointer
  escapes and the names of `Object.prototype` in mapped messages; the dependency edges
  of reference data; the snapshot update mode of `ui`; a corpus file that is missing
  altogether; `--scope ''`, which means no scope; and two runs in the same millisecond
  (the rows of a ledger are told apart by `ranAt`).
