--------------------------- MODULE ReferenceData ---------------------------
(***************************************************************************)
(* The referential integrity of CodeSets                                   *)
(* (packages/cli/src/verify/reference-data.ts): every codeRef column of a  *)
(* row names a row of a CodeSet@version, which must be present, live and   *)
(* in effect for as long as the referencing row is.  The function is pure; *)
(* the one step of this module is a call of it.                            *)
(*                                                                         *)
(* A document is a record [key, effective, rows]; a row is a record        *)
(* [code, deprecated, effective, refs], its effective a window or NoWindow *)
(* (the column is optional) and its refs a set of [key, code].  Dates are  *)
(* integers: ISO dates are compared as strings, which orders them as dates.*)
(***************************************************************************)
EXTENDS Integers, Sequences

CONSTANTS NoWindow,   \* row.effective is absent
          Open,       \* to: null
          Dates       \* the days looked at

ASSUME OpenAssumption == Open \notin Int
ASSUME DatesAssumption == Dates \subseteq Int

VARIABLES sets,       \* the documents, in the order the directory lists them
          called,
          report      \* the checks of the call

rvars == <<sets, called, report>>

WindowCoversLoosely(outer, inner) ==   \* mutant: an open end fits any end
  /\ outer.from <= inner.from
  /\ outer.to = Open \/ inner.to = Open \/ inner.to <= outer.to

\* windowCovers: from inclusive, to exclusive.
WindowCovers(outer, inner) ==
  /\ outer.from <= inner.from
  /\ \/ outer.to = Open
     \/ /\ inner.to # Open
        /\ inner.to <= outer.to

\* byKey is a Map: of two documents with one key the later one counts.
Documents(docs, key) ==
  LET at == {i \in 1..Len(docs) : docs[i].key = key}
  IN  {docs[i] : i \in {j \in at : \A k \in at : k <= j}}

\* rows.find: the first row with the code.
Rows(doc, code) ==
  LET at == {i \in 1..Len(doc.rows) : doc.rows[i].code = code}
  IN  {doc.rows[i] : i \in {j \in at : \A k \in at : j <= k}}

\* row.effective ?? metadata.effective
WindowOf(doc, row) == IF row.effective = NoWindow THEN doc.effective ELSE row.effective

\* The windows of the live row that a reference resolves to: at most one.
LiveWindows(docs, ref) ==
  UNION {{WindowOf(doc, row) : row \in {r \in Rows(doc, ref.code) : ~r.deprecated}} :
         doc \in Documents(docs, ref.key)}

\* The columns of every row of every document, each with its row's window.
CodeRefs(docs) ==
  UNION {UNION {{[at |-> <<i, j>>, ref |-> ref,
                  window |-> WindowOf(docs[i], docs[i].rows[j])] :
                   ref \in docs[i].rows[j].refs} : j \in 1..Len(docs[i].rows)} :
         i \in 1..Len(docs)}

\* checkReferentialIntegrity: a check per column; a reference that does not
\* resolve is not judged on its window.
CheckReferentialIntegrity(docs) ==
  {[at |-> c.at, ref |-> c.ref,
    resolves |-> LiveWindows(docs, c.ref) # {},
    covered  |-> \E w \in LiveWindows(docs, c.ref) : WindowCovers(w, c.window)] :
     c \in CodeRefs(docs)}

\* What the scope asks of the report.
Passes(checks) == \A c \in checks : c.resolves /\ c.covered

-----------------------------------------------------------------------------

\* sets is given in Init; a call leaves it as it is.
Call ==
  /\ ~called
  /\ called' = TRUE
  /\ report' = CheckReferentialIntegrity(sets)
  /\ UNCHANGED sets

NotCalled == called = FALSE /\ report = {}

Window(w) == w.from \in Int /\ w.to \in Int \union {Open}

\* The CodeSet schema's part in it: every document has a window, a row may.
WellFormed(docs) ==
  /\ Len(docs) \in Nat
  /\ \A i \in 1..Len(docs) :
       /\ Window(docs[i].effective)
       /\ Len(docs[i].rows) \in Nat
       /\ \A j \in 1..Len(docs[i].rows) :
            LET w == docs[i].rows[j].effective IN w # NoWindow => Window(w)

ReferenceInit == WellFormed(sets) /\ NotCalled

ReferenceSpec == ReferenceInit /\ [][Call]_rvars

-----------------------------------------------------------------------------

\* Date d lies in window w.
InEffect(d, w) == w.from <= d /\ (w.to = Open \/ d < w.to)

\* Some day, the row of column c is in effect and what it names is not there,
\* not live or not in effect.
Gap(docs, c) ==
  \E d \in Dates : /\ InEffect(d, c.window)
                   /\ \A w \in LiveWindows(docs, c.ref) : ~InEffect(d, w)

\* The days on which something begins or ends.
Turns(docs) ==
  LET windows == UNION {{docs[i].effective} \union {WindowOf(docs[i], docs[i].rows[j]) :
                           j \in 1..Len(docs[i].rows)} : i \in 1..Len(docs)}
  IN  {w.from : w \in windows} \union ({w.to : w \in windows} \ {Open})

\* The report passes only if no row is ever in effect on a day on which a row
\* it names is missing, deprecated or out of effect; and where every row that has
\* a column is in effect on some day, exactly then: a reference that is refused has
\* a day on which it dangles (windowCovers, checkReferentialIntegrity).
ReferentsAvailable ==
  called =>
    /\ Passes(report) => \A c \in CodeRefs(sets) : ~Gap(sets, c)
    /\ /\ Turns(sets) \subseteq Dates
       /\ \A c \in CodeRefs(sets) : (\E d \in Dates : InEffect(d, c.window)) /\ ~Gap(sets, c)
       => Passes(report)
=============================================================================
