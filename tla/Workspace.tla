----------------------------- MODULE Workspace -----------------------------
(***************************************************************************)
(* What a harness finds on disk, as its producers and its verify scope     *)
(* read it: a view, which is a record of                                   *)
(*   files    the committed fixtures: a function from <<family, name>> to  *)
(*            a content (the artifact knows a fixture by the name in its   *)
(*            text, taken here to be its file's)                           *)
(*   bundle   the generated JSON Schemas: "built"; "stale", without those  *)
(*            this scope asks for; "other", with an envelope schema that   *)
(*            no envelope satisfies; or "absent"                           *)
(*   program  the aspect that the code under test gets wrong, or "nothing" *)
(*   parts    the artifacts on disk: a function from their names           *)
(* A fixture "agrees" with the program, "differs" from it in what it       *)
(* expects, is "invalid" against its schema or "malformed", not JSON; a    *)
(* family may have contents of its own.  An artifact is NoPart, Torn, or   *)
(* what the producer wrote: `rows`, from the fixtures it ran to the        *)
(* aspects of each that came out as they should, and its own totals.       *)
(***************************************************************************)
EXTENDS Verdict

CONSTANTS NoPart, Torn

Slots(v, family) == {s \in DOMAIN v.files : s[1] = family}
Having(v, family, content) == {s \in Slots(v, family) : v.files[s] = content}
OfFamilies(v, families) == {s \in DOMAIN v.files : s[1] \in families}
Malformed(v, families) == \E f \in families : Having(v, f, "malformed") # {}

\* What a producer finds when it runs fixture s.
Row(v, s, aspects, expectation) ==
  {a \in aspects : a # v.program /\ ~(v.files[s] = "differs" /\ a = expectation)}

RowsFor(v, families, aspects, expectation) ==
  [s \in OfFamilies(v, families) |-> Row(v, s, aspects, expectation)]

RowsOf(r, family) == {s \in DOMAIN r.rows : s[1] = family}
Whole(r, s, aspects) == aspects \subseteq r.rows[s]
CountWhole(r, S, aspects) == Cardinality({s \in S : Whole(r, s, aspects)})

\* A check of each fixture against its emitted schema.
DslValid(v, family) ==
  Each("dsl-valid", [s \in Slots(v, family) |-> v.files[s] # "invalid"])

\* A check of an aspect, or of several, on each row of a family.
EachRow(r, family, id, aspects) ==
  Each(id, [s \in RowsOf(r, family) |-> Whole(r, s, aspects)])

\* The same, with a check of each aspect.
EachAspect(r, family, aspects) == UNION {EachRow(r, family, a, {a}) : a \in aspects}

CoveredBySome(v, r, family) ==   \* mutant: one row stands for the family
  At("covered", family, RowsOf(r, family) # {})

\* Every committed fixture of the family has a row: a re-run is not owed.
Covered(v, r, family) == At("covered", family, Slots(v, family) \subseteq RowsOf(r, family))

\* The opening that most scopes share: no fixture, no schema, a file that does
\* not parse, and no artifact each end the scope; `judged`, the checks made of the
\* artifact, counts only where there is one.
Opening(v, family, valid, judged) ==
  IF Slots(v, family) = {} THEN Fail("present")
  ELSE IF v.bundle = "absent" THEN Thrown
  ELSE IF v.bundle = "stale" THEN Fail("schema-present")
  ELSE IF Malformed(v, {family}) \/ v.parts.results = Torn THEN Thrown
  ELSE One("present", TRUE) \union valid \union
       (IF v.parts.results = NoPart THEN Fail("results-present")
        ELSE Covered(v, v.parts.results, family) \union judged)

\* A scope that reads nothing but an artifact.
ArtifactOnly(v, judged) ==
  IF v.parts.results = NoPart THEN Fail("results-present")
  ELSE IF v.parts.results = Torn THEN Thrown
  ELSE judged
=============================================================================
