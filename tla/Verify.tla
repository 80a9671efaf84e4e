------------------------------- MODULE Verify -------------------------------
(***************************************************************************)
(* `ichiflow verify` (packages/cli/src/cli.ts, verify/runner.ts,           *)
(* ledger.ts, registry.ts) over a repository that keeps changing: the      *)
(* fixtures, the code under test and the generated schemas are edited, the *)
(* producers write their artifacts, and several verify processes run, each *)
(* of which may be killed between two of its file accesses.                *)
(*                                                                         *)
(* A process takes the scopes it was asked for in turn.  For each it reads *)
(* the fixtures, reads the artifacts and judges them, validates the        *)
(* envelope, reads the scope's ledger, truncates it and writes it anew.    *)
(* writeFileSync opens with truncation, so a reader may find an artifact   *)
(* or a ledger Torn, and a writer that is killed leaves it so.             *)
(*                                                                         *)
(* What a scope checks and what a producer writes are parameters here; the *)
(* harness modules define them.                                            *)
(***************************************************************************)
EXTENDS Workspace, Sequences

CONSTANTS
  Contents(_, _),       \* the contents that a file of a scope may have, none where it
                        \* reads no fixture
  Runs,                 \* the verify processes: 1..n, in the order they start
  Checks(_, _),         \* scope.run: the checks that a scope makes of a view
  Throws(_, _, _),      \* the producer of a scope's part throws before it writes
  Results(_, _, _),     \* or writes this
  Sound(_, _),          \* what a scope stands for is so in a view
  Unknown               \* a --scope that no registered scope has

ASSUME RunsAssumption == Runs \subseteq Nat

VARIABLES
  registry,   \* allScopes(): a sequence of scopes
  files,      \* of each scope, its committed fixtures
  bundle,     \* the generated schemas
  program,    \* the code under test
  parts,      \* of each scope, its artifacts
  making,     \* the producers between truncation and write, with what they hold
  ledger,     \* of each scope, [latest, history], NoPart or Torn
  run,        \* the verify processes
  origin      \* history: what the producer of each artifact read

workspace == <<registry, files, bundle, program, parts, making, origin>>
vars == <<registry, files, bundle, program, parts, making, ledger, run, origin>>

Scopes == {registry[i] : i \in DOMAIN registry}

View(s) == [files |-> files[s], bundle |-> bundle, program |-> program, parts |-> parts[s]]
Source(s) == [files |-> files[s], program |-> program]

-----------------------------------------------------------------------------
\* The repository.

Edit(s, slot, content) ==
  /\ content \in Contents(s, slot)
  /\ files' = [files EXCEPT ![s] = [x \in DOMAIN @ \union {slot} |->
                                      IF x = slot THEN content ELSE @[x]]]
  /\ files' # files
  /\ UNCHANGED <<registry, bundle, program, parts, making, ledger, run, origin>>

Withdraw(s, slot) ==
  /\ slot \in DOMAIN files[s]
  /\ files' = [files EXCEPT ![s] = [x \in DOMAIN @ \ {slot} |-> @[x]]]
  /\ UNCHANGED <<registry, bundle, program, parts, making, ledger, run, origin>>

Rebuild(b) ==
  /\ b # bundle
  /\ bundle' = b
  /\ UNCHANGED <<registry, files, program, parts, making, ledger, run, origin>>

\* A producer reads what it needs; one that throws leaves the artifact of the
\* run before where it is.
Produce(s, p) ==
  /\ making[s][p] = NoPart
  /\ ~Throws(s, p, View(s))
  /\ making' = [making EXCEPT ![s][p] = [holds |-> Results(s, p, View(s)), read |-> Source(s)]]
  /\ parts' = [parts EXCEPT ![s][p] = Torn]
  /\ origin' = [origin EXCEPT ![s][p] = NoPart]
  /\ UNCHANGED <<registry, files, bundle, program, ledger, run>>

Written(s, p) ==
  /\ making[s][p] # NoPart
  /\ parts' = [parts EXCEPT ![s][p] = making[s][p].holds]
  /\ origin' = [origin EXCEPT ![s][p] = making[s][p].read]
  /\ making' = [making EXCEPT ![s][p] = NoPart]
  /\ UNCHANGED <<registry, files, bundle, program, ledger, run>>

\* The artifact stays Torn.
ProducerKilled(s, p) ==
  /\ making[s][p] # NoPart
  /\ making' = [making EXCEPT ![s][p] = NoPart]
  /\ UNCHANGED <<registry, files, bundle, program, parts, ledger, run, origin>>

-----------------------------------------------------------------------------
\* A verify process.

Ready == [at |-> "ready", todo |-> <<>>, asked |-> {}, saw |-> NoPart, validator |-> "none",
          envelope |-> NoPart, previous |-> <<>>, envelopes |-> <<>>, keeps |-> FALSE,
          exit |-> NoPart, before |-> {}, judged |-> NoPart]

Doing(k) == Head(run[k].todo)

Goto(k, changes) == run' = [run EXCEPT ![k] = changes]

EndedUnsaid(r, code) == [r EXCEPT !.at = "ended"]   \* mutant: process.exitCode is not set

Ended(r, code) == [r EXCEPT !.at = "ended", !.exit = code]

\* runVerify resolves the scopes, before anything is read.  `before` is history.
Start(k, asked, keeps) ==
  LET selected == IF asked = "all" THEN registry ELSE <<asked>>
      begun == [Ready EXCEPT !.keeps = keeps, !.before = {j \in Runs : run[j].at = "ended"}]
  IN  /\ run[k].at = "ready"
      /\ \A j \in Runs : j < k => run[j].at # "ready"
      /\ Goto(k, IF asked = Unknown THEN Ended(begun, 1)
                 ELSE [begun EXCEPT !.at = "fixtures", !.todo = selected,
                                    !.asked = {selected[i] : i \in DOMAIN selected}])
      /\ UNCHANGED <<workspace, ledger>>

\* The schemas and the committed fixtures, before the artifacts.
ReadFixtures(k) ==
  /\ run[k].at = "fixtures"
  /\ Goto(k, [run[k] EXCEPT !.at = "artifacts",
                            !.saw = [files |-> files[Doing(k)], bundle |-> bundle]])
  /\ UNCHANGED <<workspace, ledger>>

\* envelopeValidator: compiled once in a process.
Compiled(k) ==
  IF run[k].validator # "none" THEN run[k].validator
  ELSE IF bundle = "stale" THEN "built" ELSE bundle

ExitCodeOfFirst(envelopes) ==   \* mutant: the first verdict decides
  IF envelopes[1].verdict = "pass" THEN 0 ELSE 1

\* Every selected scope has its turn, whatever the verdicts before; runVerify's
\* `ok` is every verdict's.
ExitCode(envelopes) == IF \A i \in DOMAIN envelopes : envelopes[i].verdict = "pass" THEN 0 ELSE 1

Proceed(r) ==
  LET done == [r EXCEPT !.todo = Tail(@), !.envelopes = Append(@, r.envelope), !.previous = <<>>]
  IN  IF done.todo = <<>> THEN Ended(done, ExitCode(done.envelopes))
      ELSE [done EXCEPT !.at = "fixtures"]

\* runScope up to the ledger.  Without the envelope's schema the validation
\* throws, past the scope's own try: main ends the process.
Judge(k) ==
  LET s == Doing(k)
      view == [files |-> run[k].saw.files, bundle |-> run[k].saw.bundle, program |-> program,
               parts |-> parts[s], envelope |-> Compiled(k)]
  IN  /\ run[k].at = "artifacts"
      /\ IF Compiled(k) = "absent" THEN Goto(k, Ended(run[k], 1))
         ELSE \E checks \in {Checks(s, view)} :
                LET judged == [run[k] EXCEPT
                      !.at = "judged", !.validator = Compiled(k),
                      !.envelope = SelfJudged(Envelope(s, k, checks), Compiled(k) = "built"),
                      !.judged = [files |-> view.files,
                                  sound |-> Sound(s, view),
                                  known |-> [p \in DOMAIN parts[s] |-> origin[s][p]],
                                  fresh |-> \A p \in DOMAIN parts[s] :
                                              origin[s][p] = [files |-> view.files,
                                                              program |-> program]]]
                IN  Goto(k, IF run[k].keeps THEN judged ELSE Proceed(judged))
      /\ UNCHANGED <<workspace, ledger>>

ReadLedgerForgets(k) ==   \* mutant: the history is not carried over
  LET found == ledger[Doing(k)] IN
  /\ run[k].at = "judged"
  /\ Goto(k, IF found = Torn THEN Ended(run[k], 1)
             ELSE [run[k] EXCEPT !.at = "truncating", !.previous = <<>>])
  /\ UNCHANGED <<workspace, ledger>>

ReadLedgerPatiently(k) ==   \* mutant: it waits for a ledger that parses
  LET found == ledger[Doing(k)] IN
  /\ run[k].at = "judged"
  /\ found # Torn
  /\ Goto(k, [run[k] EXCEPT !.at = "truncating",
                            !.previous = IF found = NoPart THEN <<>> ELSE found.history])
  /\ UNCHANGED <<workspace, ledger>>

\* readScopeLedger: a ledger that does not parse ends the process.
ReadLedger(k) ==
  LET found == ledger[Doing(k)] IN
  /\ run[k].at = "judged"
  /\ Goto(k, IF found = Torn THEN Ended(run[k], 1)
             ELSE [run[k] EXCEPT !.at = "truncating",
                                 !.previous = IF found = NoPart THEN <<>> ELSE found.history])
  /\ UNCHANGED <<workspace, ledger>>

Truncate(k) ==
  /\ run[k].at = "truncating"
  /\ ledger' = [ledger EXCEPT ![Doing(k)] = Torn]
  /\ Goto(k, [run[k] EXCEPT !.at = "writing"])
  /\ UNCHANGED workspace

LedgerRow(e) == [ranAt |-> e.ranAt, verdict |-> e.verdict,
                 passed |-> e.summary.passed, total |-> e.summary.checks]

\* A writer that finds another's text there overwrites it from the start, and
\* what sticks out at the end is left.
Fill(k) ==
  LET mine == [latest |-> run[k].envelope,
               history |-> Append(run[k].previous, LedgerRow(run[k].envelope))]
  IN  /\ run[k].at = "writing"
      /\ \E text \in IF ledger[Doing(k)] = Torn THEN {mine} ELSE {mine, Torn} :
           ledger' = [ledger EXCEPT ![Doing(k)] = text]
      /\ Goto(k, Proceed(run[k]))
      /\ UNCHANGED workspace

\* The process is killed; it leaves what it has written, and is "cut" if that is a
\* ledger that it has only truncated.
Kill(k) ==
  /\ run[k].at \notin {"ready", "ended", "killed", "cut"}
  /\ Goto(k, [run[k] EXCEPT !.at = IF @ = "writing" THEN "cut" ELSE "killed"])
  /\ UNCHANGED <<workspace, ledger>>

VerifyStep(k) == ReadFixtures(k) \/ Judge(k) \/ ReadLedger(k) \/ Truncate(k) \/ Fill(k)

-----------------------------------------------------------------------------

Bundles == {"built", "stale", "other", "absent"}

\* The fixtures of scope s: finitely many, each where the scope reads one.
FixturesOK(s, f) == IsFiniteSet(DOMAIN f) /\ \A x \in DOMAIN f : f[x] \in Contents(s, x)

\* No scope has run yet; some are registered, each once, under a name of its own.
VerifyInit ==
  /\ registry \in Seq(Scopes) /\ registry # <<>>
  /\ \A i, j \in DOMAIN registry : registry[i] = registry[j] => i = j
  /\ {"all", Unknown} \intersect Scopes = {} /\ Unknown # "all"
  /\ bundle \in Bundles
  /\ DOMAIN files = Scopes /\ DOMAIN parts = Scopes
  /\ \A s \in Scopes : FixturesOK(s, files[s])
  /\ ledger = [s \in Scopes |-> NoPart]
  /\ making = [s \in Scopes |-> [p \in DOMAIN parts[s] |-> NoPart]]
  /\ DOMAIN origin = Scopes /\ \A s \in Scopes : DOMAIN origin[s] = DOMAIN parts[s]
  /\ run = [k \in Runs |-> Ready]

Repository ==
  \/ \E s \in Scopes :
       \/ \E slot, content : Edit(s, slot, content)
       \/ \E slot \in DOMAIN files[s] : Withdraw(s, slot)
       \/ \E p \in DOMAIN parts[s] : Produce(s, p) \/ Written(s, p) \/ ProducerKilled(s, p)
  \/ \E b \in Bundles : Rebuild(b)

Process(k) ==
  \/ \E asked \in Scopes \union {"all", Unknown}, keeps \in BOOLEAN : Start(k, asked, keeps)
  \/ VerifyStep(k)
  \/ Kill(k)

VerifyNext == Repository \/ \E k \in Runs : Process(k)

VerifySpec == VerifyInit /\ [][VerifyNext]_vars

-----------------------------------------------------------------------------

VerifyTypeOK ==
  /\ bundle \in Bundles
  /\ DOMAIN files = Scopes /\ DOMAIN parts = Scopes /\ DOMAIN ledger = Scopes
  /\ \A s \in Scopes : FixturesOK(s, files[s])
  /\ \A s \in Scopes : \A p \in DOMAIN parts[s] : making[s][p] # NoPart => origin[s][p] = NoPart
  /\ \A k \in Runs :
       /\ run[k].at \in {"ready", "fixtures", "artifacts", "judged", "truncating", "writing",
                         "ended", "killed", "cut"}
       /\ run[k].exit \in {NoPart, 0, 1}
       /\ (run[k].at = "ended") <=> (run[k].exit # NoPart)
       /\ run[k].at \in {"fixtures", "artifacts", "judged", "truncating", "writing"}
            => run[k].todo # <<>> /\ Doing(k) \in run[k].asked
       /\ \A i \in DOMAIN run[k].envelopes : run[k].envelopes[i].scope \in run[k].asked

Gave(k, s) == {run[k].envelopes[i] : i \in {j \in DOMAIN run[k].envelopes :
                                              run[k].envelopes[j].scope = s}}
Wrote(k, s) == run[k].keeps /\ Gave(k, s) # {}
Overlap(j, k) == j # k /\ j \notin run[k].before /\ k \notin run[j].before
                 /\ "ready" \notin {run[j].at, run[k].at}

\* The progress ledger is every verdict's row in the order of the runs, and the
\* latest envelope is the last row's; a row is lost, or the file is left
\* unreadable, only by runs that overlap or by one that was killed as it wrote.
LedgerTells ==
  \A s \in Scopes :
    LET writers == {k \in Runs : Wrote(k, s)}
        writing == {k \in Runs : run[k].at \in {"writing", "cut"} /\ Doing(k) = s}
    IN  IF ledger[s] = NoPart THEN writers = {}
        ELSE IF ledger[s] = Torn
        THEN writing # {} \/ \E j, k \in writers : Overlap(j, k)
        ELSE LET history == ledger[s].history IN
             /\ LedgerRow(ledger[s].latest) = history[Len(history)]
             /\ \A i \in DOMAIN history :
                  \E e \in Gave(history[i].ranAt, s) : LedgerRow(e) = history[i]
             /\ \A i, j \in DOMAIN history : i < j => history[i].ranAt # history[j].ranAt
             /\ \A k \in writers :
                  \/ \E i \in DOMAIN history : history[i].ranAt = k
                  \/ \E j \in Runs : Overlap(j, k) /\ s \in run[j].asked

\* Exit code 0 says that each scope asked for had its turn and passed; 1, that the
\* scope is unknown, that one did not pass, or that the run broke off before one:
\* at a missing envelope schema or at a ledger that does not parse.
ExitTells ==
  \A k \in Runs : run[k].at = "ended" =>
    (run[k].exit = 0 <=>
       /\ run[k].asked # {}
       /\ \A s \in run[k].asked : Gave(k, s) # {} /\ \A e \in Gave(k, s) : e.verdict = "pass")

\* A verdict made from artifacts whose producers read the very fixtures and code
\* that the scope sees is "pass" exactly when what the scope stands for is so.
FreshVerdictTrue ==
  \A k \in Runs :
    run[k].judged # NoPart /\ run[k].judged.fresh
      => (run[k].envelope.verdict = "pass" <=> run[k].judged.sound)

\* An invoked verify ends, if it is not killed, whatever it finds on the way.
VerifyEnds == \A k \in Runs : (run[k].at = "fixtures") ~> (run[k].at \in {"ended", "killed", "cut"})
=============================================================================
