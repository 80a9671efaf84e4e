------------------------------ MODULE Verdict ------------------------------
(***************************************************************************)
(* A scope's checks and the verdict envelope made of them                  *)
(* (packages/cli/src/verify/check.ts, envelope.ts, and the self-validation *)
(* of runner.ts).  A check is a record [id, status].  The code's list of   *)
(* checks is a set here, an id a tuple of what it says and of what.        *)
(***************************************************************************)
EXTENDS Integers, FiniteSets

\* assert, pass, fail
Check(id, ok) == [id |-> id, status |-> IF ok THEN "pass" ELSE "fail"]
One(id, ok) == {Check(<<id>>, ok)}
At(id, of, ok) == {Check(<<id, of>>, ok)}
Fail(id) == One(id, FALSE)
Each(id, held) == {Check(<<id, s>>, held[s]) : s \in DOMAIN held}

\* runScope's catch: whatever was collected before the throw is lost.
Thrown == Fail("harness-error")

With(checks, status) == {c \in checks : c.status = status}

\* summarize
Summary(checks) ==
  [checks  |-> Cardinality(checks),
   passed  |-> Cardinality(With(checks, "pass")),
   failed  |-> Cardinality(With(checks, "fail")),
   skipped |-> Cardinality(checks \ (With(checks, "pass") \union With(checks, "fail")))]

\* buildEnvelope
Envelope(scope, ranAt, checks) ==
  LET summary == Summary(checks) IN
  [scope    |-> scope,
   ranAt    |-> ranAt,
   verdict  |-> IF summary.failed > 0 THEN "fail" ELSE "pass",
   summary  |-> summary,
   progress |-> [green |-> summary.passed, total |-> summary.checks - summary.skipped]]

\* runScope: an envelope that its own contract refuses gets one more check.  Its
\* progress is not counted again.
SelfJudged(envelope, valid) ==
  IF valid THEN envelope
  ELSE [envelope EXCEPT !.summary.checks = @ + 1,
                        !.summary.failed = @ + 1,
                        !.verdict = "fail"]
=============================================================================
