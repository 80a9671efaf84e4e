---------------------------- MODULE VerifyProofs ----------------------------
(***************************************************************************)
(* Proofs about the verify processes, for every registry, every number of  *)
(* processes, and whatever the scopes check and the producers write.       *)
(***************************************************************************)
EXTENDS Verify, FiniteSetTheorems, TLAPS

\* The marks of a missing and of a torn file are neither exit codes nor ledgers.
Distinguishable ==
  /\ NoPart \notin {0, 1, Torn}
  /\ \A l, h : [latest |-> l, history |-> h] \notin {NoPart, Torn}

-----------------------------------------------------------------------------
\* Sequences.

IsSeq(q) == \E S : q \in Seq(S)
Elements(q) == {q[i] : i \in 1..Len(q)}
Distinct(q) == \A i, j \in 1..Len(q) : q[i] = q[j] => i = j

LEMMA AppendFacts ==
  ASSUME NEW q, IsSeq(q), NEW e
  PROVE  /\ IsSeq(Append(q, e))
         /\ Len(q) \in Nat /\ Len(Append(q, e)) = Len(q) + 1
         /\ DOMAIN q = 1..Len(q)
         /\ \A i \in 1..Len(q) : Append(q, e)[i] = q[i]
         /\ Append(q, e)[Len(q) + 1] = e
         /\ Elements(Append(q, e)) = Elements(q) \union {e}
<1>1. PICK S : q \in Seq(S)
  BY DEF IsSeq
<1> DEFINE T == S \union {e}
           g == Append(q, e)
<1>2. q \in Seq(T)
  <2>1. Len(q) \in Nat /\ q \in [1..Len(q) -> S]
    BY <1>1
  <2>2. q \in [1..Len(q) -> T]
    BY <2>1
  <2> QED
    BY <2>1, <2>2
<1> HIDE DEF T
<1>3. e \in T
  BY DEF T
<1>4. /\ g \in Seq(T) /\ Len(q) \in Nat /\ Len(g) = Len(q) + 1 /\ DOMAIN q = 1..Len(q)
      /\ \A i \in 1..Len(q) : g[i] = q[i]
      /\ g[Len(q) + 1] = e
  BY <1>2, <1>3
<1>5. IsSeq(g)
  BY <1>4 DEF IsSeq
<1>6. Elements(g) = Elements(q) \union {e}
  <2> HIDE DEF g
  <2>1. \A i : i \in 1..Len(g) <=> i \in 1..Len(q) \/ i = Len(q) + 1
    BY <1>4
  <2>2. \A x : x \in Elements(g) <=> \E i \in 1..Len(g) : g[i] = x
    BY DEF Elements
  <2>3. \A x : x \in Elements(q) <=> \E i \in 1..Len(q) : q[i] = x
    BY DEF Elements
  <2> QED
    BY <1>4, <2>1, <2>2, <2>3
<1> QED
  BY <1>4, <1>5, <1>6

LEMMA TailFacts ==
  ASSUME NEW S, NEW q \in Seq(S), q # <<>>, Distinct(q)
  PROVE  /\ Tail(q) \in Seq(S)
         /\ Head(q) \in S /\ Head(q) \in Elements(q)
         /\ Elements(q) = {Head(q)} \union Elements(Tail(q))
         /\ Head(q) \notin Elements(Tail(q))
         /\ Distinct(Tail(q))
<1>1. /\ Len(q) \in Nat /\ Len(q) >= 1 /\ Len(Tail(q)) = Len(q) - 1 /\ Tail(q) \in Seq(S)
      /\ Head(q) = q[1] /\ q[1] \in S
      /\ \A i \in 1..Len(Tail(q)) : Tail(q)[i] = q[i + 1]
  OBVIOUS
<1>2. \A x : x \in Elements(q) <=> \E i \in 1..Len(q) : q[i] = x
  BY DEF Elements
<1>3. \A x : x \in Elements(Tail(q)) <=> \E i \in 1..Len(Tail(q)) : Tail(q)[i] = x
  BY DEF Elements
<1>4. \A i : i \in 1..Len(q) <=> i = 1 \/ (i \in Int /\ i - 1 \in 1..Len(Tail(q)))
  BY <1>1
<1>5. \A i \in 1..Len(Tail(q)) : i + 1 \in 1..Len(q) /\ i + 1 # 1
  BY <1>1
<1>6. Head(q) \notin Elements(Tail(q))
  BY <1>1, <1>3, <1>4, <1>5 DEF Distinct
<1>7. Distinct(Tail(q))
  <2> SUFFICES ASSUME NEW i \in 1..Len(Tail(q)), NEW j \in 1..Len(Tail(q)), Tail(q)[i] = Tail(q)[j]
               PROVE  i = j
    BY DEF Distinct
  <2>1. i + 1 = j + 1
    BY <1>1, <1>5 DEF Distinct
  <2> QED
    BY <2>1
<1>8. \A x : x \in Elements(q) <=> x = Head(q) \/ x \in Elements(Tail(q))
  <2>1. ASSUME NEW x, x \in Elements(q) PROVE x = Head(q) \/ x \in Elements(Tail(q))
    <3>1. PICK i \in 1..Len(q) : q[i] = x
      BY <1>2, <2>1
    <3>2. CASE i = 1
      BY <1>1, <3>1, <3>2
    <3>3. CASE i # 1
      <4>1. i - 1 \in 1..Len(Tail(q)) /\ Tail(q)[i - 1] = q[i]
        BY <1>1, <3>1, <3>3
      <4> QED
        BY <1>3, <3>1, <4>1
    <3> QED
      BY <3>2, <3>3
  <2>2. ASSUME NEW x, x = Head(q) \/ x \in Elements(Tail(q)) PROVE x \in Elements(q)
    <3>1. CASE x = Head(q)
      BY <1>1, <1>2, <1>4, <3>1
    <3>2. CASE x \in Elements(Tail(q))
      BY <1>1, <1>2, <1>3, <1>5, <3>2
    <3> QED
      BY <2>2, <3>1, <3>2
  <2> QED
    BY <2>1, <2>2
<1> QED
  BY <1>1, <1>2, <1>4, <1>6, <1>7, <1>8

-----------------------------------------------------------------------------
\* One process.

Stages == {"ready", "fixtures", "artifacts", "judged", "truncating", "writing", "ended", "killed",
           "cut"}
Turning == {"fixtures", "artifacts", "judged", "truncating", "writing"}
Writing == {"judged", "truncating", "writing", "cut"}

Fields == {"at", "todo", "asked", "saw", "validator", "envelope", "previous", "envelopes", "keeps",
           "exit", "before", "judged"}
Shape(r) == r = [x \in Fields |-> r[x]]

Given(r) == {e.scope : e \in Elements(r.envelopes)}

\* While a scope has its turn, those asked for are the ones given and the ones to do.
Turns(r) ==
  /\ r.todo \in Seq(Scopes) /\ r.todo # <<>> /\ Distinct(r.todo)
  /\ r.asked = Given(r) \union Elements(r.todo)
  /\ Given(r) \intersect Elements(r.todo) = {}

Passed(r) == \A e \in Elements(r.envelopes) : e.verdict = "pass"

ProcessOK(k, r) ==
  /\ Shape(r) /\ r.at \in Stages /\ IsSeq(r.envelopes)
  /\ Given(r) \subseteq r.asked
  /\ r.at \in Turning => Turns(r)
  /\ r.at \in Writing => r.keeps /\ r.envelope.scope = Head(r.todo) /\ r.envelope.ranAt = k
  /\ r.at # "ended" => r.exit = NoPart
  /\ r.at = "ended" => /\ r.exit \in {0, 1}
                       /\ r.exit = 0 <=> r.asked # {} /\ r.asked \subseteq Given(r) /\ Passed(r)
  /\ r.at = "ready" => r.envelopes = <<>>

LEMMA NothingGiven == IsSeq(<<>>) /\ Elements(<<>>) = {}
<1>1. IsSeq(<<>>)
  BY DEF IsSeq
<1>2. Elements(<<>>) = {}
  BY DEF Elements
<1> QED
  BY <1>1, <1>2

LEMMA ReadyOK == ASSUME NEW k PROVE ProcessOK(k, Ready)
<1>1. Shape(Ready)
  BY DEF Shape, Fields, Ready
<1>2. /\ Ready.at = "ready" /\ Ready.envelopes = <<>> /\ Ready.asked = {} /\ Ready.exit = NoPart
  BY DEF Ready
<1>3. Given(Ready) = {}
  BY <1>2, NothingGiven DEF Given
<1> QED
  BY <1>1, <1>2, <1>3, NothingGiven DEF ProcessOK, Stages, Turning, Writing

\* ExitCode over the elements.
LEMMA ExitCodeFacts ==
  ASSUME NEW q, IsSeq(q)
  PROVE  /\ ExitCode(q) \in {0, 1}
         /\ ExitCode(q) = 0 <=> \A e \in Elements(q) : e.verdict = "pass"
<1>1. DOMAIN q = 1..Len(q)
  BY AppendFacts
<1> QED
  BY <1>1 DEF ExitCode, Elements

LEMMA EndedFacts ==
  ASSUME NEW r, NEW code, Shape(r)
  PROVE  LET q == Ended(r, code) IN
         /\ Shape(q) /\ q.at = "ended" /\ q.exit = code /\ q.todo = r.todo
         /\ q.asked = r.asked /\ q.envelopes = r.envelopes /\ q.previous = r.previous
         /\ q.envelope = r.envelope /\ q.keeps = r.keeps /\ q.before = r.before
BY DEF Shape, Fields, Ended

\* A turn that ends with an envelope for the scope at hand.
LEMMA ProceedOK ==
  ASSUME NEW k, NEW r, Shape(r), IsSeq(r.envelopes), Turns(r), r.exit = NoPart,
         r.envelope.scope = Head(r.todo)
  PROVE  /\ ProcessOK(k, Proceed(r))
         /\ Proceed(r).at \in {"ended", "fixtures"}
         /\ Proceed(r).keeps = r.keeps /\ Proceed(r).asked = r.asked /\ Proceed(r).before = r.before
         /\ IsSeq(Proceed(r).envelopes)
         /\ Proceed(r).envelopes = Append(r.envelopes, r.envelope)
<1> DEFINE q == Proceed(r)
           done == [r EXCEPT !.todo = Tail(@), !.envelopes = Append(@, r.envelope),
                             !.previous = <<>>]
           rest == Tail(r.todo)
           given == Append(r.envelopes, r.envelope)
<1>1. /\ Shape(done) /\ done.todo = rest /\ done.envelopes = given /\ done.asked = r.asked
      /\ done.keeps = r.keeps /\ done.before = r.before /\ done.exit = r.exit
  BY DEF Shape, Fields
<1>2. q = IF rest = <<>> THEN Ended(done, ExitCode(given)) ELSE [done EXCEPT !.at = "fixtures"]
  BY <1>1 DEF Proceed
<1>3. /\ rest \in Seq(Scopes) /\ Distinct(rest)
      /\ Elements(r.todo) = {Head(r.todo)} \union Elements(rest)
      /\ Head(r.todo) \notin Elements(rest)
  BY TailFacts DEF Turns
<1>4. IsSeq(given) /\ Elements(given) = Elements(r.envelopes) \union {r.envelope}
  BY AppendFacts
<1> HIDE DEF done, rest, given
<1>5. CASE rest = <<>>
  <2>1. /\ Shape(q) /\ q.at = "ended" /\ q.exit = ExitCode(given) /\ q.envelopes = given
        /\ q.asked = r.asked /\ q.keeps = r.keeps /\ q.before = r.before
    BY <1>1, <1>2, <1>5, EndedFacts
  <2> HIDE DEF q
  <2>2. Given(q) = Given(r) \union {Head(r.todo)}
    BY <1>4, <2>1 DEF Given
  <2>3. Elements(rest) = {}
    BY <1>5, NothingGiven
  <2>4. q.asked = Given(q) /\ q.asked # {}
    BY <1>3, <2>1, <2>2, <2>3 DEF Turns
  <2>5. ExitCode(given) \in {0, 1} /\ (ExitCode(given) = 0 <=> Passed(q))
    BY <1>4, <2>1, ExitCodeFacts DEF Passed
  <2>6. ProcessOK(k, q)
    BY <1>4, <2>1, <2>4, <2>5 DEF ProcessOK, Stages, Turning, Writing
  <2> QED
    BY <1>4, <2>1, <2>6 DEF q, given
<1>6. CASE rest # <<>>
  <2>1. /\ Shape(q) /\ q.at = "fixtures" /\ q.exit = NoPart /\ q.envelopes = given
        /\ q.todo = rest /\ q.asked = r.asked /\ q.keeps = r.keeps /\ q.before = r.before
    BY <1>1, <1>2, <1>6 DEF Shape, Fields
  <2> HIDE DEF q
  <2>2. Given(q) = Given(r) \union {Head(r.todo)}
    BY <1>4, <2>1 DEF Given
  <2>3. Turns(q)
    BY <1>3, <1>6, <2>1, <2>2 DEF Turns
  <2>4. ProcessOK(k, q)
    BY <1>4, <2>1, <2>3 DEF ProcessOK, Stages, Turning, Writing, Turns
  <2> QED
    BY <1>4, <2>1, <2>4 DEF q, given
<1> QED
  BY <1>5, <1>6

\* A run that breaks off has its scope left to do.
LEMMA BreakOffOK ==
  ASSUME NEW k, NEW r, ProcessOK(k, r), r.at \in Turning
  PROVE  ProcessOK(k, Ended(r, 1))
<1> DEFINE q == Ended(r, 1)
<1>1. /\ Shape(q) /\ q.at = "ended" /\ q.exit = 1 /\ q.asked = r.asked /\ q.envelopes = r.envelopes
  BY EndedFacts DEF ProcessOK
<1>2. Head(r.todo) \in r.asked /\ Head(r.todo) \notin Given(r)
  BY TailFacts DEF ProcessOK, Turns
<1> HIDE DEF q
<1>3. Given(q) = Given(r)
  BY <1>1 DEF Given
<1>4. Given(r) \subseteq r.asked /\ IsSeq(r.envelopes)
  BY DEF ProcessOK
<1> QED
  BY <1>1, <1>2, <1>3, <1>4 DEF ProcessOK, Stages, Turning, Writing, q

-----------------------------------------------------------------------------
\* The steps of a process.  Runs is a set of numbers, run a function on it, the
\* registry a sequence of distinct scopes.

State ==
  /\ registry \in Seq(Scopes) /\ Distinct(registry) /\ registry # <<>>
  /\ {"all", Unknown} \intersect Scopes = {} /\ Unknown # "all"
  /\ run = [k \in Runs |-> run[k]]

VerifyInv == State /\ \A k \in Runs : ProcessOK(k, run[k])

\* What a step of process k makes of it.
Becomes(k, q) ==
  /\ registry' = registry
  /\ run' = [run EXCEPT ![k] = q]
  /\ ProcessOK(k, q)

LEMMA StartOK ==
  ASSUME VerifyInv, NEW k \in Runs, NEW asked \in Scopes \union {"all", Unknown},
         NEW keeps \in BOOLEAN, Start(k, asked, keeps)
  PROVE  \E q : Becomes(k, q)
<1> DEFINE begun == [Ready EXCEPT !.keeps = keeps, !.before = {j \in Runs : run[j].at = "ended"}]
           selected == IF asked = "all" THEN registry ELSE <<asked>>
           members == {selected[i] : i \in DOMAIN selected}
           going == [begun EXCEPT !.at = "fixtures", !.todo = selected, !.asked = members]
           q == IF asked = Unknown THEN Ended(begun, 1) ELSE going
<1>1. run' = [run EXCEPT ![k] = q] /\ registry' = registry
  BY DEF Start, Goto, workspace
<1>2. /\ Shape(begun) /\ begun.keeps = keeps /\ begun.envelopes = <<>> /\ begun.asked = {}
      /\ begun.exit = NoPart
  BY DEF Shape, Fields, Ready
<1> HIDE DEF begun
<1>3. CASE asked = Unknown
  <2>1. /\ Shape(q) /\ q.at = "ended" /\ q.exit = 1 /\ q.envelopes = <<>> /\ q.asked = {}
    BY <1>2, <1>3, EndedFacts
  <2> HIDE DEF q
  <2>2. Given(q) = {}
    BY <2>1, NothingGiven DEF Given
  <2>3. ProcessOK(k, q)
    BY <2>1, <2>2, NothingGiven DEF ProcessOK, Stages, Turning, Writing
  <2> QED
    BY <1>1, <2>3 DEF Becomes
<1>4. CASE asked # Unknown
  <2>1. /\ selected \in Seq(Scopes) /\ Distinct(selected) /\ selected # <<>>
    <3>1. CASE asked = "all"
      BY <3>1 DEF VerifyInv, State
    <3>2. CASE asked # "all"
      <4>1. asked \in Scopes
        BY <1>4, <3>2
      <4>2. selected = <<asked>>
        BY <3>2
      <4>3. /\ <<asked>> \in Seq(Scopes) /\ <<asked>> # <<>> /\ Len(<<asked>>) = 1
        BY <4>1
      <4>4. Distinct(<<asked>>)
        BY <4>3 DEF Distinct
      <4> HIDE DEF selected
      <4> QED
        BY <4>2, <4>3, <4>4
    <3> QED
      BY <3>1, <3>2
  <2>2. members = Elements(selected)
    BY <2>1 DEF Elements
  <2> HIDE DEF selected
  <2>3. /\ Shape(going) /\ going.at = "fixtures" /\ going.todo = selected /\ going.asked = members
        /\ going.envelopes = <<>> /\ going.exit = NoPart
    BY <1>2 DEF Shape, Fields
  <2> HIDE DEF going, members
  <2>4. Given(going) = {}
    BY <2>3, NothingGiven DEF Given
  <2>5. ProcessOK(k, going)
    BY <2>1, <2>2, <2>3, <2>4, NothingGiven DEF ProcessOK, Turns, Stages, Turning, Writing
  <2> QED
    BY <1>1, <1>4, <2>5 DEF Becomes
<1> QED
  BY <1>3, <1>4

\* A process in its turn, and the scope at hand.
LEMMA TurnFacts ==
  ASSUME VerifyInv, NEW k \in Runs, run[k].at \in Turning
  PROVE  /\ ProcessOK(k, run[k]) /\ Shape(run[k]) /\ Turns(run[k]) /\ IsSeq(run[k].envelopes)
         /\ Given(run[k]) \subseteq run[k].asked /\ run[k].exit = NoPart
         /\ Doing(k) = Head(run[k].todo) /\ Doing(k) \in Scopes /\ Doing(k) \in run[k].asked
<1>1. ProcessOK(k, run[k])
  BY DEF VerifyInv
<1>2. /\ Shape(run[k]) /\ Turns(run[k]) /\ IsSeq(run[k].envelopes) /\ Given(run[k]) \subseteq run[k].asked
      /\ run[k].exit = NoPart
  BY <1>1 DEF ProcessOK, Turning
<1>3. Head(run[k].todo) \in Scopes /\ Head(run[k].todo) \in Elements(run[k].todo)
  BY <1>2, TailFacts DEF Turns
<1> QED
  BY <1>1, <1>2, <1>3 DEF Doing, Turns

\* A step within a turn changes what is read, not what is asked for, to do or given.
Within(r, q) ==
  /\ Shape(q) /\ q.todo = r.todo /\ q.asked = r.asked /\ q.envelopes = r.envelopes
  /\ q.exit = r.exit /\ q.keeps = r.keeps /\ q.before = r.before

LEMMA WithinOK ==
  ASSUME VerifyInv, NEW k \in Runs, run[k].at \in Turning, NEW q, Within(run[k], q),
         q.at \in Stages \ {"ready", "ended"},
         q.at \in Writing => q.keeps /\ q.envelope.scope = Head(q.todo) /\ q.envelope.ranAt = k
  PROVE  ProcessOK(k, q)
<1>1. Given(q) = Given(run[k])
  BY DEF Within, Given
<1>2. Turns(q)
  BY <1>1, TurnFacts DEF Turns, Within
<1> QED
  BY <1>1, <1>2, TurnFacts DEF Within, ProcessOK

LEMMA ReadFixturesOK ==
  ASSUME VerifyInv, NEW k \in Runs, ReadFixtures(k)
  PROVE  \E q : Becomes(k, q)
<1> DEFINE q == [run[k] EXCEPT !.at = "artifacts",
                               !.saw = [files |-> files[Doing(k)], bundle |-> bundle]]
<1>1. run[k].at = "fixtures" /\ run' = [run EXCEPT ![k] = q] /\ registry' = registry
  BY DEF ReadFixtures, Goto, workspace
<1>2. Within(run[k], q) /\ q.at = "artifacts"
  BY <1>1, TurnFacts DEF Turning, Within, Shape, Fields
<1> HIDE DEF q
<1>3. ProcessOK(k, q)
  BY <1>1, <1>2, WithinOK DEF Turning, Stages, Writing
<1> QED
  BY <1>1, <1>3 DEF Becomes

LEMMA JudgeOK ==
  ASSUME VerifyInv, NEW k \in Runs, Judge(k)
  PROVE  \E q : Becomes(k, q)
<1> DEFINE s == Doing(k)
<1>1. run[k].at = "artifacts" /\ registry' = registry
  BY DEF Judge, workspace
<1>2. /\ ProcessOK(k, run[k]) /\ run[k].at \in Turning /\ Turns(run[k]) /\ IsSeq(run[k].envelopes)
      /\ run[k].exit = NoPart /\ s = Head(run[k].todo)
  BY <1>1, TurnFacts DEF Turning
<1>3. CASE Compiled(k) = "absent"
  <2>1. run' = [run EXCEPT ![k] = Ended(run[k], 1)]
    BY <1>3 DEF Judge, Goto
  <2>2. ProcessOK(k, Ended(run[k], 1))
    BY <1>2, BreakOffOK
  <2> QED
    BY <1>1, <2>1, <2>2 DEF Becomes
<1>4. CASE Compiled(k) # "absent"
  <2> DEFINE view == [files |-> run[k].saw.files, bundle |-> run[k].saw.bundle,
                      program |-> program, parts |-> parts[s], envelope |-> Compiled(k)]
             seen == [files |-> view.files,
                      sound |-> Sound(s, view),
                      known |-> [p \in DOMAIN parts[s] |-> origin[s][p]],
                      fresh |-> \A p \in DOMAIN parts[s] :
                                  origin[s][p] = [files |-> view.files, program |-> program]]
             after(checks) == [run[k] EXCEPT
                !.at = "judged", !.validator = Compiled(k),
                !.envelope = SelfJudged(Envelope(s, k, checks), Compiled(k) = "built"),
                !.judged = seen]
  <2>1. PICK checks \in {Checks(s, view)} :
          run' = [run EXCEPT ![k] = IF run[k].keeps THEN after(checks) ELSE Proceed(after(checks))]
    BY <1>4 DEF Judge, Goto
  <2> HIDE DEF seen
  <2> DEFINE judged == after(checks)
  <2>2. Within(run[k], judged) /\ judged.at = "judged"
        /\ judged.envelope = SelfJudged(Envelope(s, k, checks), Compiled(k) = "built")
    BY <1>1, TurnFacts DEF Turning, Within, Shape, Fields
  <2>3. judged.envelope.scope = s /\ judged.envelope.ranAt = k
    <3>1. LET e == SelfJudged(Envelope(s, k, checks), Compiled(k) = "built")
          IN  e.scope = s /\ e.ranAt = k
      BY DEF SelfJudged, Envelope
    <3> HIDE DEF judged
    <3> QED
      BY <2>2, <3>1
  <2>4. run' = [run EXCEPT ![k] = IF run[k].keeps THEN judged ELSE Proceed(judged)]
    BY <2>1
  <2> HIDE DEF judged
  <2>5. judged.todo = run[k].todo
    BY <2>2 DEF Within
  <2>6. CASE run[k].keeps
    <3>1. judged.keeps
      BY <2>2, <2>6 DEF Within
    <3>2. ProcessOK(k, judged)
      BY <1>2, <2>2, <2>3, <2>5, <3>1, WithinOK DEF Stages
    <3> QED
      BY <1>1, <2>4, <2>6, <3>2 DEF Becomes
  <2>7. CASE ~run[k].keeps
    <3>1. Given(judged) = Given(run[k])
      BY <2>2 DEF Within, Given
    <3>2. Turns(judged)
      BY <1>2, <2>2, <3>1 DEF Turns, Within
    <3>3. ProcessOK(k, Proceed(judged))
      BY <1>2, <2>2, <2>3, <2>5, <3>2, ProceedOK DEF Within
    <3> QED
      BY <1>1, <2>4, <2>7, <3>3 DEF Becomes
  <2> QED
    BY <2>6, <2>7
<1> QED
  BY <1>3, <1>4

LEMMA ReadLedgerOK ==
  ASSUME VerifyInv, NEW k \in Runs, ReadLedger(k)
  PROVE  \E q : Becomes(k, q)
<1> DEFINE found == ledger[Doing(k)]
           history == IF found = NoPart THEN <<>> ELSE found.history
           q == [run[k] EXCEPT !.at = "truncating", !.previous = history]
<1>1. /\ run[k].at = "judged" /\ registry' = registry
      /\ run' = [run EXCEPT ![k] = IF found = Torn THEN Ended(run[k], 1) ELSE q]
  BY DEF ReadLedger, Goto, workspace
<1>2. ProcessOK(k, run[k]) /\ run[k].at \in Turning
  BY <1>1, TurnFacts DEF Turning
<1>3. ProcessOK(k, Ended(run[k], 1))
  BY <1>2, BreakOffOK
<1> HIDE DEF history
<1>4. Within(run[k], q) /\ q.at = "truncating" /\ q.envelope = run[k].envelope
  BY <1>2, TurnFacts DEF Within, Shape, Fields
<1>5. ProcessOK(k, q)
  <2> HIDE DEF q
  <2>1. run[k].keeps /\ run[k].envelope.scope = Head(run[k].todo) /\ run[k].envelope.ranAt = k
    BY <1>1, <1>2 DEF ProcessOK, Writing
  <2> QED
    BY <1>2, <1>4, <2>1, WithinOK DEF Stages, Within
<1> QED
  BY <1>1, <1>3, <1>5 DEF Becomes

LEMMA TruncateOK ==
  ASSUME VerifyInv, NEW k \in Runs, Truncate(k)
  PROVE  \E q : Becomes(k, q)
<1> DEFINE q == [run[k] EXCEPT !.at = "writing"]
<1>1. run[k].at = "truncating" /\ run' = [run EXCEPT ![k] = q] /\ registry' = registry
  BY DEF Truncate, Goto, workspace
<1>2. ProcessOK(k, run[k]) /\ run[k].at \in Turning
  BY <1>1, TurnFacts DEF Turning
<1>3. Within(run[k], q) /\ q.at = "writing" /\ q.envelope = run[k].envelope
  BY <1>2, TurnFacts DEF Within, Shape, Fields
<1> HIDE DEF q
<1>4. run[k].keeps /\ run[k].envelope.scope = Head(run[k].todo) /\ run[k].envelope.ranAt = k
  BY <1>1, <1>2 DEF ProcessOK, Writing
<1>5. ProcessOK(k, q)
  BY <1>2, <1>3, <1>4, WithinOK DEF Stages, Within
<1> QED
  BY <1>1, <1>5 DEF Becomes

LEMMA FillOK ==
  ASSUME VerifyInv, NEW k \in Runs, Fill(k)
  PROVE  \E q : Becomes(k, q)
<1>1. run[k].at = "writing" /\ run' = [run EXCEPT ![k] = Proceed(run[k])] /\ registry' = registry
  BY DEF Fill, Goto, workspace
<1>2. ProcessOK(k, run[k]) /\ run[k].at \in Turning
  BY <1>1, TurnFacts DEF Turning
<1>3. run[k].envelope.scope = Head(run[k].todo)
  BY <1>1, <1>2 DEF ProcessOK, Writing
<1>4. ProcessOK(k, Proceed(run[k]))
  BY <1>2, <1>3, TurnFacts, ProceedOK
<1> QED
  BY <1>1, <1>4 DEF Becomes

LEMMA KillOK ==
  ASSUME VerifyInv, NEW k \in Runs, Kill(k)
  PROVE  \E q : Becomes(k, q)
<1> DEFINE q == [run[k] EXCEPT !.at = IF @ = "writing" THEN "cut" ELSE "killed"]
<1>1. /\ run[k].at \notin {"ready", "ended", "killed", "cut"}
      /\ run' = [run EXCEPT ![k] = q] /\ registry' = registry
  BY DEF Kill, Goto, workspace
<1>2. ProcessOK(k, run[k]) /\ run[k].at \in Turning
  <2>1. ProcessOK(k, run[k])
    BY DEF VerifyInv
  <2> QED
    BY <1>1, <2>1 DEF ProcessOK, Stages, Turning
<1>3. /\ Within(run[k], q) /\ q.at \in {"cut", "killed"} /\ q.envelope = run[k].envelope
      /\ q.at = "cut" => run[k].at = "writing"
  BY <1>2, TurnFacts DEF Within, Shape, Fields
<1> HIDE DEF q
<1>4. q.at \in Writing
        => run[k].keeps /\ run[k].envelope.scope = Head(run[k].todo) /\ run[k].envelope.ranAt = k
  BY <1>2, <1>3 DEF ProcessOK, Writing
<1>5. ProcessOK(k, q)
  BY <1>2, <1>3, <1>4, WithinOK DEF Stages, Within
<1> QED
  BY <1>1, <1>5 DEF Becomes

-----------------------------------------------------------------------------
\* The invariant.

LEMMA InvStarts == ASSUME VerifyInit PROVE VerifyInv
<1>1. \A k \in Runs : run[k] = Ready /\ run = [j \in Runs |-> run[j]]
  BY DEF VerifyInit
<1>2. run = [j \in Runs |-> run[j]]
  BY DEF VerifyInit
<1>3. registry \in Seq(Scopes) /\ Distinct(registry)
  BY DEF VerifyInit, Distinct
<1> QED
  BY <1>1, <1>2, <1>3, ReadyOK DEF VerifyInit, VerifyInv, State

\* What the repository does leaves the processes as they are.
LEMMA RepositoryKeeps == Repository => run' = run /\ registry' = registry
BY DEF Repository, Edit, Withdraw, Produce, Written, ProducerKilled, Rebuild

LEMMA ProcessKeeps == ASSUME VerifyInv, NEW k \in Runs, Process(k) PROVE \E q : Becomes(k, q)
<1>1. CASE \E asked \in Scopes \union {"all", Unknown}, keeps \in BOOLEAN : Start(k, asked, keeps)
  BY <1>1, StartOK
<1>2. CASE VerifyStep(k)
  BY <1>2, ReadFixturesOK, JudgeOK, ReadLedgerOK, TruncateOK, FillOK DEF VerifyStep
<1>3. CASE Kill(k)
  BY <1>3, KillOK
<1> QED
  BY <1>1, <1>2, <1>3 DEF Process

LEMMA InvStays == ASSUME VerifyInv, [VerifyNext]_vars PROVE VerifyInv'
<1>1. CASE run' = run /\ registry' = registry
  <2>1. Scopes' = Scopes
    BY <1>1 DEF Scopes
  <2> QED
    BY <1>1, <2>1 DEF VerifyInv, State, ProcessOK, Turns
<1>2. ASSUME NEW k \in Runs, NEW q, Becomes(k, q) PROVE VerifyInv'
  <2>1. Scopes' = Scopes /\ registry' = registry
    BY <1>2 DEF Becomes, Scopes
  <2>2. run' = [j \in Runs |-> IF j = k THEN q ELSE run[j]]
    BY <1>2 DEF Becomes, VerifyInv, State
  <2>3. \A j \in Runs : ProcessOK(j, run'[j])
    BY <1>2, <2>2 DEF Becomes, VerifyInv
  <2> QED
    BY <2>1, <2>2, <2>3 DEF VerifyInv, State, ProcessOK, Turns
<1>3. CASE UNCHANGED vars
  BY <1>1, <1>3 DEF vars
<1>4. CASE Repository
  BY <1>1, <1>4, RepositoryKeeps
<1>5. CASE \E k \in Runs : Process(k)
  BY <1>2, <1>5, ProcessKeeps
<1> QED
  BY <1>3, <1>4, <1>5 DEF VerifyNext

LEMMA InvHolds == VerifySpec => []VerifyInv
<1> QED
  BY InvStarts, InvStays, PTL DEF VerifySpec

\* A scope is given exactly when it gave an envelope.
LEMMA GaveIsGiven ==
  ASSUME NEW k \in Runs, IsSeq(run[k].envelopes), NEW s
  PROVE  Gave(k, s) = {e \in Elements(run[k].envelopes) : e.scope = s}
<1>1. DOMAIN run[k].envelopes = 1..Len(run[k].envelopes)
  BY AppendFacts
<1> QED
  BY <1>1 DEF Gave, Elements

\* The exit code of a verify that ended says whether each scope asked for had its
\* turn and passed, whatever the scopes check, however many there are, and whatever
\* happens to the fixtures, the artifacts, the schemas and the ledgers meanwhile.
THEOREM ExitCodeTells == VerifySpec => []ExitTells
<1>1. VerifyInv => ExitTells
  <2> SUFFICES ASSUME VerifyInv, NEW k \in Runs, run[k].at = "ended"
               PROVE  run[k].exit = 0 <=>
                        /\ run[k].asked # {}
                        /\ \A s \in run[k].asked :
                             Gave(k, s) # {} /\ \A e \in Gave(k, s) : e.verdict = "pass"
    BY DEF ExitTells
  <2>1. ProcessOK(k, run[k])
    BY DEF VerifyInv
  <2>2. /\ IsSeq(run[k].envelopes) /\ Given(run[k]) \subseteq run[k].asked
        /\ run[k].exit = 0 <=> /\ run[k].asked # {} /\ run[k].asked \subseteq Given(run[k])
                               /\ Passed(run[k])
    BY <2>1 DEF ProcessOK
  <2>3. \A s : Gave(k, s) = {e \in Elements(run[k].envelopes) : e.scope = s}
    BY <2>2, GaveIsGiven
  <2> QED
    BY <2>2, <2>3 DEF Given, Passed
<1> QED
  BY <1>1, InvHolds, PTL

-----------------------------------------------------------------------------
\* The ledgers.

Wr(k, s) == run[k].keeps /\ s \in Given(run[k])
AtWork(k, s) == run[k].at \in {"writing", "cut"} /\ Doing(k) = s

\* The rows of a history are verdicts that were given, one of a run, and a run that
\* wrote is among them or was overlapped by another that was asked for the scope.
HistoryOK(h, s) ==
  /\ IsSeq(h)
  /\ \A i \in 1..Len(h) :
       h[i].ranAt \in Runs
         /\ \E e \in Elements(run[h[i].ranAt].envelopes) : e.scope = s /\ LedgerRow(e) = h[i]
  /\ \A i, j \in 1..Len(h) : i # j => h[i].ranAt # h[j].ranAt
  /\ \A k \in Runs : Wr(k, s) =>
       \/ \E i \in 1..Len(h) : h[i].ranAt = k
       \/ \E j \in Runs : Overlap(j, k) /\ s \in run[j].asked

LedgerOK(s) ==
  /\ ledger[s] = NoPart => \A k \in Runs : ~Wr(k, s) /\ ~AtWork(k, s)
  /\ ledger[s] = Torn =>
       \/ \E k \in Runs : AtWork(k, s)
       \/ \E j, k \in Runs : Overlap(j, k) /\ Wr(j, s) /\ Wr(k, s)
  /\ ledger[s] \notin {NoPart, Torn} =>
       /\ HistoryOK(ledger[s].history, s)
       /\ LedgerRow(ledger[s].latest) = ledger[s].history[Len(ledger[s].history)]
  /\ ledger[s] # Torn =>
       \A k \in Runs : run[k].at = "writing" /\ Doing(k) = s
                         => \E j \in Runs : Overlap(j, k) /\ Wr(j, s)

PreviousOK(k) ==
  run[k].at \in {"truncating", "writing"} => HistoryOK(run[k].previous, Doing(k))

BeforeOK(k) == \A j \in run[k].before : j \in Runs /\ run[j].at = "ended"

LedgerInv ==
  /\ ledger = [s \in Scopes |-> ledger[s]]
  /\ \A s \in Scopes : LedgerOK(s)
  /\ \A k \in Runs : PreviousOK(k) /\ BeforeOK(k)

\* What a step of process k keeps of it.
Grows(r, q) ==
  /\ r.at # "ended" /\ q.at # "ready"
  /\ r.at # "ready" => q.asked = r.asked /\ q.before = r.before /\ q.keeps = r.keeps
  /\ Elements(r.envelopes) \subseteq Elements(q.envelopes)
  /\ \A j \in q.before : j \in Runs /\ run[j].at = "ended"

Moved(k) ==
  /\ registry' = registry
  /\ \A j \in Runs : j # k => run'[j] = run[j]
  /\ Grows(run[k], run'[k])

LEMMA OverlapStays ==
  ASSUME NEW k \in Runs, Moved(k), NEW i \in Runs, NEW j \in Runs, Overlap(i, j)
  PROVE  Overlap(i, j)'
BY DEF Overlap, Moved, Grows

LEMMA WrStays ==
  ASSUME VerifyInv, NEW k \in Runs, Moved(k), NEW j \in Runs, NEW s, Wr(j, s)
  PROVE  Wr(j, s)'
<1>1. CASE j # k
  BY <1>1 DEF Wr, Given, Moved
<1>2. CASE j = k
  <2>1. run[k].envelopes = <<>> => Given(run[k]) = {}
    BY NothingGiven DEF Given
  <2>2. run[k].at # "ready"
    BY <1>2, <2>1 DEF Wr, VerifyInv, ProcessOK
  <2>3. run'[k].keeps = run[k].keeps /\ Elements(run[k].envelopes) \subseteq Elements(run'[k].envelopes)
    BY <2>2 DEF Moved, Grows
  <2>4. s \in Given(run'[k])
    BY <1>2, <2>3 DEF Wr, Given
  <2> QED
    BY <1>2, <2>3, <2>4 DEF Wr, Given
<1> QED
  BY <1>1, <1>2

\* After a step of k, a history still tells of every other process.
LEMMA HistoryOfOthers ==
  ASSUME VerifyInv, NEW k \in Runs, Moved(k), NEW s, NEW h, HistoryOK(h, s)
  PROVE  /\ \A i \in 1..Len(h) :
              h[i].ranAt \in Runs
                /\ \E e \in Elements(run'[h[i].ranAt].envelopes) : e.scope = s /\ LedgerRow(e) = h[i]
         /\ \A j \in Runs : Wr(j, s)' /\ (j # k \/ Wr(j, s)) =>
              \/ \E i \in 1..Len(h) : h[i].ranAt = j
              \/ \E i \in Runs : Overlap(i, j)' /\ s \in run'[i].asked
<1>1. ASSUME NEW j \in Runs PROVE Elements(run[j].envelopes) \subseteq Elements(run'[j].envelopes)
  BY DEF Moved, Grows
<1>2. ASSUME NEW i \in Runs, NEW j \in Runs, Overlap(i, j), s \in run[i].asked
      PROVE  Overlap(i, j)' /\ s \in run'[i].asked
  <2>1. Overlap(i, j)'
    BY <1>2, OverlapStays
  <2>2. run[i].at # "ready"
    BY <1>2 DEF Overlap
  <2> QED
    BY <1>2, <2>1, <2>2 DEF Moved, Grows
<1>3. ASSUME NEW j \in Runs, Wr(j, s)', j # k PROVE Wr(j, s)
  BY <1>3 DEF Wr, Given, Moved
<1>4. ASSUME NEW j \in Runs, Wr(j, s)
      PROVE  \/ \E i \in 1..Len(h) : h[i].ranAt = j
             \/ \E i \in Runs : Overlap(i, j)' /\ s \in run'[i].asked
  BY <1>2, <1>4 DEF HistoryOK
<1> QED
  BY <1>1, <1>3, <1>4 DEF HistoryOK

\* And of k, if it has no verdict of the scope to write or overlaps another that is
\* asked for it.
LEMMA HistoryStays ==
  ASSUME VerifyInv, NEW k \in Runs, Moved(k), NEW s, NEW h, HistoryOK(h, s),
         Wr(k, s)' => \/ Wr(k, s)
                      \/ \E j \in Runs : Overlap(j, k)' /\ s \in run'[j].asked
  PROVE  /\ \A i \in 1..Len(h) :
              h[i].ranAt \in Runs
                /\ \E e \in Elements(run'[h[i].ranAt].envelopes) : e.scope = s /\ LedgerRow(e) = h[i]
         /\ \A j \in Runs : Wr(j, s)' =>
              \/ \E i \in 1..Len(h) : h[i].ranAt = j
              \/ \E i \in Runs : Overlap(i, j)' /\ s \in run'[i].asked
BY HistoryOfOthers

\* A step that leaves the ledger of scope s, and those that write it, as they are.
SameFor(k, s) ==
  /\ ledger'[s] = ledger[s]
  /\ Wr(k, s)' => Wr(k, s)
  /\ AtWork(k, s)' <=> AtWork(k, s)
  /\ (run[k].at = "writing" /\ Doing(k) = s)' => run[k].at = "writing" /\ Doing(k) = s

LEMMA ScopeStays ==
  ASSUME VerifyInv, NEW k \in Runs, Moved(k), NEW s \in Scopes, LedgerOK(s), SameFor(k, s)
  PROVE  LedgerOK(s)'
<1>1. ASSUME NEW j \in Runs, j # k
      PROVE  /\ run'[j] = run[j] /\ Doing(j)' = Doing(j) /\ (Wr(j, s)' <=> Wr(j, s))
             /\ (AtWork(j, s)' <=> AtWork(j, s))
  BY <1>1 DEF Moved, Doing, Wr, Given, AtWork
<1>2. ASSUME NEW j \in Runs
      PROVE  /\ Wr(j, s)' <=> Wr(j, s)
             /\ AtWork(j, s)' <=> AtWork(j, s)
             /\ (run[j].at = "writing" /\ Doing(j) = s)' => run[j].at = "writing" /\ Doing(j) = s
  BY <1>1, WrStays DEF SameFor
<1>3. ASSUME NEW i \in Runs, NEW j \in Runs, Overlap(i, j)
      PROVE  Overlap(i, j)'
  BY <1>3, OverlapStays
<1>4. ledger'[s] = ledger[s]
  BY DEF SameFor
<1>5. ledger'[s] = NoPart => \A j \in Runs : ~Wr(j, s)' /\ ~AtWork(j, s)'
  BY <1>2, <1>4 DEF LedgerOK
<1>6. ledger'[s] = Torn =>
        \/ \E j \in Runs : AtWork(j, s)'
        \/ \E i, j \in Runs : Overlap(i, j)' /\ Wr(i, s)' /\ Wr(j, s)'
  BY <1>2, <1>3, <1>4 DEF LedgerOK
<1>7. ledger'[s] \notin {NoPart, Torn} =>
        /\ HistoryOK(ledger[s].history, s)'
        /\ LedgerRow(ledger'[s].latest) = ledger'[s].history[Len(ledger'[s].history)]
  <2> SUFFICES ASSUME ledger'[s] \notin {NoPart, Torn}
               PROVE  /\ HistoryOK(ledger[s].history, s)'
                      /\ LedgerRow(ledger'[s].latest) = ledger'[s].history[Len(ledger'[s].history)]
    OBVIOUS
  <2> DEFINE h == ledger[s].history
  <2>1. HistoryOK(h, s) /\ LedgerRow(ledger[s].latest) = h[Len(h)]
    BY <1>4 DEF LedgerOK
  <2>2. /\ \A i \in 1..Len(h) :
             h[i].ranAt \in Runs
               /\ \E e \in Elements(run'[h[i].ranAt].envelopes) : e.scope = s /\ LedgerRow(e) = h[i]
        /\ \A j \in Runs : Wr(j, s)' =>
             \/ \E i \in 1..Len(h) : h[i].ranAt = j
             \/ \E i \in Runs : Overlap(i, j)' /\ s \in run'[i].asked
    BY <1>2, <2>1, HistoryStays
  <2>3. ledger'[s].history = h
    BY <1>4
  <2> QED
    BY <1>4, <2>1, <2>2, <2>3 DEF HistoryOK
<1>8. ledger'[s] # Torn =>
        \A j \in Runs : (run[j].at = "writing" /\ Doing(j) = s)'
                          => \E i \in Runs : Overlap(i, j)' /\ Wr(i, s)'
  BY <1>2, <1>3, <1>4 DEF LedgerOK
<1> QED
  BY <1>5, <1>6, <1>7, <1>8 DEF LedgerOK

\* A history read before a step of k is still as it should be after it.
LEMMA PreviousStays ==
  ASSUME VerifyInv, NEW k \in Runs, Moved(k), NEW j \in Runs, NEW s, NEW h,
         HistoryOK(h, s), run'[j].previous = h, Head(run'[j].todo) = s,
         Wr(k, s)' => \/ Wr(k, s)
                      \/ \E i \in Runs : Overlap(i, k)' /\ s \in run'[i].asked
  PROVE  PreviousOK(j)'
<1>1. Doing(j)' = s
  BY DEF Doing
<1>2. /\ \A i \in 1..Len(h) :
           h[i].ranAt \in Runs
             /\ \E e \in Elements(run'[h[i].ranAt].envelopes) : e.scope = s /\ LedgerRow(e) = h[i]
      /\ \A l \in Runs : Wr(l, s)' =>
           \/ \E i \in 1..Len(h) : h[i].ranAt = l
           \/ \E i \in Runs : Overlap(i, l)' /\ s \in run'[i].asked
  BY HistoryStays
<1>3. HistoryOK(h, s)'
  BY <1>2 DEF HistoryOK
<1> QED
  BY <1>1, <1>3 DEF PreviousOK

LEMMA BeforeStays ==
  ASSUME NEW k \in Runs, Moved(k), \A j \in Runs : BeforeOK(j)
  PROVE  \A j \in Runs : BeforeOK(j)'
BY DEF Moved, Grows, BeforeOK

\* A step of k that leaves every ledger, and those that write it, as they are.
Quiet(k) ==
  /\ Moved(k) /\ ledger' = ledger
  /\ \A s \in Scopes : SameFor(k, s)
  /\ run'[k].at \in {"truncating", "writing"}
       => Doing(k)' \in Scopes /\ HistoryOK(run'[k].previous, Doing(k)')

LEMMA DoingInScopes ==
  ASSUME VerifyInv, NEW j \in Runs, run[j].at \in {"truncating", "writing"}
  PROVE  Doing(j) \in Scopes
BY TurnFacts DEF Turning

LEMMA QuietKeeps == ASSUME VerifyInv, NEW k \in Runs, LedgerInv, Quiet(k) PROVE LedgerInv'
<1>1. Scopes' = Scopes /\ Moved(k)
  BY DEF Quiet, Moved, Scopes
<1>2. (ledger = [s \in Scopes |-> ledger[s]])'
  BY <1>1 DEF Quiet, LedgerInv
<1>3. \A s \in Scopes : LedgerOK(s)'
  BY <1>1, ScopeStays DEF Quiet, LedgerInv
<1>4. \A j \in Runs : BeforeOK(j)'
  BY <1>1, BeforeStays DEF LedgerInv
<1>5. ASSUME NEW j \in Runs PROVE PreviousOK(j)'
  <2> SUFFICES ASSUME run'[j].at \in {"truncating", "writing"} PROVE PreviousOK(j)'
    BY DEF PreviousOK
  <2>1. PICK s, h : s = Head(run'[j].todo) /\ h = run'[j].previous
    OBVIOUS
  <2>2. s \in Scopes /\ HistoryOK(h, s)
    <3>1. CASE j = k
      BY <2>1, <3>1 DEF Quiet, Doing
    <3>2. CASE j # k
      <4>1. run'[j] = run[j]
        BY <1>1, <3>2 DEF Moved
      <4>2. PreviousOK(j) /\ Doing(j) \in Scopes
        BY <4>1, DoingInScopes DEF LedgerInv
      <4> QED
        BY <2>1, <4>1, <4>2 DEF PreviousOK, Doing
    <3> QED
      BY <3>1, <3>2
  <2>3. Wr(k, s)' => Wr(k, s)
    BY <2>2 DEF Quiet, SameFor
  <2> QED
    BY <1>1, <2>1, <2>2, <2>3, PreviousStays
<1> QED
  BY <1>1, <1>2, <1>3, <1>4, <1>5 DEF LedgerInv

\* Each step of a process, as the ledgers see it.
LEMMA StartQuiet ==
  ASSUME VerifyInv, NEW k \in Runs, NEW asked, NEW keeps \in BOOLEAN, Start(k, asked, keeps)
  PROVE  Quiet(k)
<1> DEFINE begun == [Ready EXCEPT !.keeps = keeps, !.before = {j \in Runs : run[j].at = "ended"}]
           selected == IF asked = "all" THEN registry ELSE <<asked>>
           members == {selected[i] : i \in DOMAIN selected}
           going == [begun EXCEPT !.at = "fixtures", !.todo = selected, !.asked = members]
           q == IF asked = Unknown THEN Ended(begun, 1) ELSE going
<1>1. /\ run[k].at = "ready" /\ run' = [run EXCEPT ![k] = q] /\ registry' = registry
      /\ ledger' = ledger
  BY DEF Start, Goto, workspace
<1>2. /\ Shape(begun) /\ begun.envelopes = <<>> /\ begun.before = {j \in Runs : run[j].at = "ended"}
  BY DEF Shape, Fields, Ready
<1> HIDE DEF begun
<1>3. /\ q.at \in {"fixtures", "ended"} /\ q.envelopes = <<>>
      /\ q.before = {j \in Runs : run[j].at = "ended"}
  BY <1>2, EndedFacts DEF Shape, Fields
<1> HIDE DEF q
<1>4. /\ run'[k] = q /\ \A j \in Runs : j # k => run'[j] = run[j]
  BY <1>1 DEF VerifyInv, State
<1>5. run[k].envelopes = <<>>
  BY <1>1 DEF VerifyInv, ProcessOK
<1>6. Moved(k)
  BY <1>1, <1>3, <1>4, <1>5, NothingGiven DEF Moved, Grows
<1>7. Given(q) = {}
  BY <1>3, NothingGiven DEF Given
<1>8. \A s \in Scopes : SameFor(k, s)
  BY <1>1, <1>3, <1>4, <1>7 DEF SameFor, Wr, AtWork, Given
<1> QED
  BY <1>1, <1>3, <1>4, <1>6, <1>8 DEF Quiet

\* A step within a turn.
LEMMA WithinMoved ==
  ASSUME VerifyInv, LedgerInv, NEW k \in Runs, NEW q, Within(run[k], q), registry' = registry,
         run' = [run EXCEPT ![k] = q], run[k].at \in Turning, q.at \in Stages \ {"ready"}
  PROVE  /\ Moved(k) /\ run'[k] = q /\ Doing(k)' = Doing(k)
         /\ \A s \in Scopes : Wr(k, s)' <=> Wr(k, s)
<1>1. run'[k] = q /\ \A j \in Runs : j # k => run'[j] = run[j]
  BY DEF VerifyInv, State
<1>2. \A j \in run[k].before : j \in Runs /\ run[j].at = "ended"
  BY DEF LedgerInv, BeforeOK
<1>3. Moved(k)
  BY <1>1, <1>2 DEF Moved, Grows, Within, Turning
<1>4. Doing(k)' = Doing(k) /\ \A s \in Scopes : Wr(k, s)' <=> Wr(k, s)
  BY <1>1 DEF Doing, Within, Wr, Given
<1> QED
  BY <1>1, <1>3, <1>4

LEMMA ReadFixturesQuiet ==
  ASSUME VerifyInv, LedgerInv, NEW k \in Runs, ReadFixtures(k)
  PROVE  Quiet(k)
<1> DEFINE q == [run[k] EXCEPT !.at = "artifacts",
                               !.saw = [files |-> files[Doing(k)], bundle |-> bundle]]
<1>1. /\ run[k].at = "fixtures" /\ run' = [run EXCEPT ![k] = q] /\ registry' = registry
      /\ ledger' = ledger
  BY DEF ReadFixtures, Goto, workspace
<1>2. Within(run[k], q) /\ q.at = "artifacts"
  BY <1>1, TurnFacts DEF Turning, Within, Shape, Fields
<1> HIDE DEF q
<1>3. /\ Moved(k) /\ run'[k] = q /\ \A s \in Scopes : Wr(k, s)' <=> Wr(k, s)
  BY <1>1, <1>2, WithinMoved DEF Turning, Stages
<1> QED
  BY <1>1, <1>2, <1>3 DEF Quiet, SameFor, AtWork

\* A process that breaks off gives nothing.
LEMMA BreakOffQuiet ==
  ASSUME VerifyInv, LedgerInv, NEW k \in Runs, run[k].at \in {"artifacts", "judged"},
         run' = [run EXCEPT ![k] = Ended(run[k], 1)], registry' = registry, ledger' = ledger
  PROVE  Quiet(k)
<1> DEFINE q == Ended(run[k], 1)
<1>1. Shape(run[k]) /\ \A j \in run[k].before : j \in Runs /\ run[j].at = "ended"
  BY TurnFacts DEF Turning, LedgerInv, BeforeOK
<1>2. /\ q.at = "ended" /\ q.asked = run[k].asked /\ q.envelopes = run[k].envelopes
      /\ q.keeps = run[k].keeps /\ q.before = run[k].before
  BY <1>1, EndedFacts
<1> HIDE DEF q
<1>3. run'[k] = q /\ \A j \in Runs : j # k => run'[j] = run[j]
  BY DEF VerifyInv, State, q
<1>4. Moved(k)
  BY <1>1, <1>2, <1>3 DEF Moved, Grows
<1>5. \A s \in Scopes : SameFor(k, s)
  BY <1>2, <1>3 DEF SameFor, Wr, Given, AtWork
<1> QED
  BY <1>2, <1>3, <1>4, <1>5 DEF Quiet

LEMMA JudgeQuiet ==
  ASSUME VerifyInv, LedgerInv, NEW k \in Runs, Judge(k)
  PROVE  Quiet(k)
<1> DEFINE s == Doing(k)
<1>1. run[k].at = "artifacts" /\ registry' = registry /\ ledger' = ledger
  BY DEF Judge, workspace
<1>2. CASE Compiled(k) = "absent"
  <2>1. run' = [run EXCEPT ![k] = Ended(run[k], 1)]
    BY <1>2 DEF Judge, Goto
  <2> QED
    BY <1>1, <2>1, BreakOffQuiet
<1>3. CASE Compiled(k) # "absent"
  <2> DEFINE view == [files |-> run[k].saw.files, bundle |-> run[k].saw.bundle,
                      program |-> program, parts |-> parts[s], envelope |-> Compiled(k)]
             seen == [files |-> view.files,
                      sound |-> Sound(s, view),
                      known |-> [p \in DOMAIN parts[s] |-> origin[s][p]],
                      fresh |-> \A p \in DOMAIN parts[s] :
                                  origin[s][p] = [files |-> view.files, program |-> program]]
             after(checks) == [run[k] EXCEPT
                !.at = "judged", !.validator = Compiled(k),
                !.envelope = SelfJudged(Envelope(s, k, checks), Compiled(k) = "built"),
                !.judged = seen]
  <2>1. PICK checks \in {Checks(s, view)} :
          run' = [run EXCEPT ![k] = IF run[k].keeps THEN after(checks) ELSE Proceed(after(checks))]
    BY <1>3 DEF Judge, Goto
  <2> HIDE DEF seen
  <2> DEFINE judged == after(checks)
  <2>2. Within(run[k], judged) /\ judged.at = "judged"
        /\ judged.envelope = SelfJudged(Envelope(s, k, checks), Compiled(k) = "built")
    BY <1>1, TurnFacts DEF Turning, Within, Shape, Fields
  <2>3. judged.envelope.scope = s
    <3>1. SelfJudged(Envelope(s, k, checks), Compiled(k) = "built").scope = s
      BY DEF SelfJudged, Envelope
    <3> HIDE DEF judged
    <3> QED
      BY <2>2, <3>1
  <2>4. run' = [run EXCEPT ![k] = IF run[k].keeps THEN judged ELSE Proceed(judged)]
    BY <2>1
  <2> HIDE DEF judged
  <2>5. CASE run[k].keeps
    <3>1. /\ Moved(k) /\ run'[k] = judged /\ \A x \in Scopes : Wr(k, x)' <=> Wr(k, x)
      BY <1>1, <2>2, <2>4, <2>5, WithinMoved DEF Turning, Stages
    <3> QED
      BY <1>1, <2>2, <3>1 DEF Quiet, SameFor, AtWork
  <2>6. CASE ~run[k].keeps
    <3>1. /\ Turns(judged) /\ IsSeq(judged.envelopes) /\ Shape(judged) /\ judged.exit = NoPart
      <4>1. Given(judged) = Given(run[k])
        BY <2>2 DEF Within, Given
      <4> QED
        BY <1>1, <2>2, <4>1, TurnFacts DEF Turns, Within, Turning
    <3>2. judged.envelope.scope = Head(judged.todo)
      BY <2>2, <2>3 DEF Within, Doing
    <3> DEFINE q == Proceed(judged)
    <3>3. /\ q.at \in {"ended", "fixtures"} /\ q.keeps = run[k].keeps /\ q.asked = run[k].asked
          /\ q.before = run[k].before
          /\ Elements(q.envelopes) = Elements(run[k].envelopes) \union {judged.envelope}
      <4>1. /\ q.at \in {"ended", "fixtures"} /\ q.keeps = judged.keeps /\ q.asked = judged.asked
            /\ q.before = judged.before /\ q.envelopes = Append(judged.envelopes, judged.envelope)
        BY <3>1, <3>2, ProceedOK
      <4> HIDE DEF q
      <4> QED
        BY <2>2, <3>1, <4>1, AppendFacts DEF Within
    <3>4. run'[k] = q /\ \A j \in Runs : j # k => run'[j] = run[j]
      BY <2>4, <2>6 DEF VerifyInv, State
    <3> HIDE DEF q
    <3>5. Moved(k)
      BY <1>1, <3>3, <3>4 DEF Moved, Grows, LedgerInv, BeforeOK
    <3> QED
      BY <1>1, <2>6, <3>3, <3>4, <3>5 DEF Quiet, SameFor, Wr, AtWork
  <2> QED
    BY <2>5, <2>6
<1> QED
  BY <1>2, <1>3

LEMMA ReadLedgerQuiet ==
  ASSUME VerifyInv, LedgerInv, NEW k \in Runs, ReadLedger(k)
  PROVE  Quiet(k)
<1> DEFINE found == ledger[Doing(k)]
           history == IF found = NoPart THEN <<>> ELSE found.history
           q == [run[k] EXCEPT !.at = "truncating", !.previous = history]
<1>1. /\ run[k].at = "judged" /\ registry' = registry /\ ledger' = ledger
      /\ run' = [run EXCEPT ![k] = IF found = Torn THEN Ended(run[k], 1) ELSE q]
  BY DEF ReadLedger, Goto, workspace
<1>2. CASE found = Torn
  BY <1>1, <1>2, BreakOffQuiet
<1>3. CASE found # Torn
  <2>1. Doing(k) \in Scopes /\ Shape(run[k])
    BY <1>1, TurnFacts DEF Turning
  <2>2. HistoryOK(history, Doing(k))
    <3>1. CASE found = NoPart
      <4>1. \A j \in Runs : ~Wr(j, Doing(k))
        BY <2>1, <3>1 DEF LedgerInv, LedgerOK
      <4>2. Len(<<>>) = 0 /\ history = <<>>
        BY <3>1
      <4>3. 1..Len(history) = {}
        BY <4>2
      <4> QED
        BY <4>1, <4>2, <4>3, NothingGiven DEF HistoryOK
    <3>2. CASE found # NoPart
      BY <1>3, <2>1, <3>2 DEF LedgerInv, LedgerOK
    <3> QED
      BY <3>1, <3>2
  <2> HIDE DEF history
  <2>3. Within(run[k], q) /\ q.at = "truncating" /\ q.previous = history
    BY <2>1 DEF Within, Shape, Fields
  <2>4. run' = [run EXCEPT ![k] = q]
    BY <1>1, <1>3
  <2> HIDE DEF q, found
  <2>5. /\ Moved(k) /\ run'[k] = q /\ Doing(k)' = Doing(k)
        /\ \A s \in Scopes : Wr(k, s)' <=> Wr(k, s)
    BY <1>1, <2>3, <2>4, WithinMoved DEF Turning, Stages
  <2> QED
    BY <1>1, <2>1, <2>2, <2>3, <2>5 DEF Quiet, SameFor, AtWork
<1> QED
  BY <1>2, <1>3

LEMMA KillQuiet ==
  ASSUME VerifyInv, LedgerInv, NEW k \in Runs, Kill(k)
  PROVE  Quiet(k)
<1> DEFINE q == [run[k] EXCEPT !.at = IF @ = "writing" THEN "cut" ELSE "killed"]
<1>1. /\ run[k].at \notin {"ready", "ended", "killed", "cut"}
      /\ run' = [run EXCEPT ![k] = q] /\ registry' = registry /\ ledger' = ledger
  BY DEF Kill, Goto, workspace
<1>2. ProcessOK(k, run[k]) /\ run[k].at \in Turning
  <2>1. ProcessOK(k, run[k])
    BY DEF VerifyInv
  <2> QED
    BY <1>1, <2>1 DEF ProcessOK, Stages, Turning
<1>3. /\ Within(run[k], q) /\ q.at \in {"cut", "killed"}
      /\ q.at = "cut" <=> run[k].at = "writing"
  BY <1>2, TurnFacts DEF Within, Shape, Fields
<1> HIDE DEF q
<1>4. /\ Moved(k) /\ run'[k] = q /\ Doing(k)' = Doing(k)
      /\ \A s \in Scopes : Wr(k, s)' <=> Wr(k, s)
  BY <1>1, <1>2, <1>3, WithinMoved DEF Stages
<1> QED
  BY <1>1, <1>2, <1>3, <1>4 DEF Quiet, SameFor, AtWork, Turning

LEMMA TruncateLedger ==
  ASSUME VerifyInv, LedgerInv, Distinguishable, NEW k \in Runs, Truncate(k)
  PROVE  LedgerInv'
<1> DEFINE q == [run[k] EXCEPT !.at = "writing"]
<1>1. /\ run[k].at = "truncating" /\ run' = [run EXCEPT ![k] = q] /\ registry' = registry
      /\ ledger' = [ledger EXCEPT ![Doing(k)] = Torn]
  BY DEF Truncate, Goto, workspace
<1>2. Doing(k) \in Scopes /\ Shape(run[k]) /\ run[k].at \in Turning
  BY <1>1, TurnFacts DEF Turning
<1>3. /\ Within(run[k], q) /\ q.at = "writing" /\ q.previous = run[k].previous
  BY <1>2 DEF Within, Shape, Fields
<1> HIDE DEF q
<1>4. /\ Moved(k) /\ run'[k] = q /\ Doing(k)' = Doing(k)
      /\ \A s \in Scopes : Wr(k, s)' <=> Wr(k, s)
  BY <1>1, <1>2, <1>3, WithinMoved DEF Stages
<1>5. Scopes' = Scopes
  BY <1>1 DEF Scopes
<1>6. ledger' = [s \in Scopes |-> IF s = Doing(k) THEN Torn ELSE ledger[s]]
  BY <1>1 DEF LedgerInv
<1>7. ASSUME NEW s \in Scopes PROVE LedgerOK(s)'
  <2>1. CASE s = Doing(k)
    <3>1. ledger'[s] = Torn /\ Torn # NoPart
      BY <1>6, <2>1 DEF Distinguishable
    <3>2. AtWork(k, s)'
      BY <1>3, <1>4, <2>1 DEF AtWork
    <3> QED
      BY <3>1, <3>2 DEF LedgerOK
  <2>2. CASE s # Doing(k)
    <3>1. SameFor(k, s)
      BY <1>4, <1>6, <2>2 DEF SameFor, AtWork
    <3> QED
      BY <1>4, <3>1, ScopeStays DEF LedgerInv
  <2> QED
    BY <2>1, <2>2
<1>8. \A j \in Runs : BeforeOK(j)'
  BY <1>4, BeforeStays DEF LedgerInv
<1>9. ASSUME NEW j \in Runs PROVE PreviousOK(j)'
  <2> SUFFICES ASSUME run'[j].at \in {"truncating", "writing"} PROVE PreviousOK(j)'
    BY DEF PreviousOK
  <2>1. /\ run'[j].previous = run[j].previous /\ Head(run'[j].todo) = Doing(j)
        /\ run[j].at \in {"truncating", "writing"}
    BY <1>1, <1>3, <1>4 DEF Moved, Doing, Within
  <2>2. PICK s, h : s = Doing(j) /\ h = run[j].previous
    OBVIOUS
  <2>3. s \in Scopes /\ HistoryOK(h, s)
    BY <2>1, <2>2, DoingInScopes DEF LedgerInv, PreviousOK
  <2> QED
    BY <1>4, <2>1, <2>2, <2>3, PreviousStays
<1> QED
  BY <1>5, <1>6, <1>7, <1>8, <1>9 DEF LedgerInv

\* k writes what it has read with its own row at the end, or tears what another wrote
\* since k truncated.
LEMMA FillLedger ==
  ASSUME VerifyInv, LedgerInv, Distinguishable, NEW k \in Runs, Fill(k)
  PROVE  LedgerInv'
<1> DEFINE r == run[k]
           q == Proceed(r)
           row == LedgerRow(r.envelope)
           h == Append(r.previous, row)
           mine == [latest |-> r.envelope, history |-> h]
<1>1. PICK x, text :
        /\ x = Doing(k)
        /\ run[k].at = "writing" /\ run' = [run EXCEPT ![k] = q] /\ registry' = registry
        /\ ledger' = [ledger EXCEPT ![x] = text]
        /\ text = mine \/ (text = Torn /\ ledger[x] # Torn)
  BY DEF Fill, Goto, workspace
<1>2. /\ ProcessOK(k, r) /\ Turns(r) /\ Shape(r) /\ IsSeq(r.envelopes) /\ r.exit = NoPart
      /\ x = Head(r.todo) /\ x \in Scopes /\ x \in r.asked
  BY <1>1, TurnFacts DEF Turning
<1>3. r.keeps /\ r.envelope.scope = x /\ r.envelope.ranAt = k
  BY <1>1, <1>2 DEF ProcessOK, Writing
<1>4. /\ q.at \in {"ended", "fixtures"} /\ q.keeps = r.keeps /\ q.asked = r.asked /\ q.before = r.before
      /\ Elements(q.envelopes) = Elements(r.envelopes) \union {r.envelope}
  <2>1. /\ q.at \in {"ended", "fixtures"} /\ q.keeps = r.keeps /\ q.asked = r.asked
        /\ q.before = r.before /\ q.envelopes = Append(r.envelopes, r.envelope)
    BY <1>2, <1>3, ProceedOK
  <2> HIDE DEF q, r
  <2> QED
    BY <1>2, <1>3, <2>1, AppendFacts
<1>5. run'[k] = q /\ \A j \in Runs : j # k => run'[j] = run[j]
  BY <1>1 DEF VerifyInv, State
<1>6. HistoryOK(r.previous, x)
  BY <1>1 DEF LedgerInv, PreviousOK
<1>7. row.ranAt = k
  BY <1>3 DEF LedgerRow
<1> HIDE DEF q
<1>8. Moved(k)
  <2>1. \A j \in r.before : j \in Runs /\ run[j].at = "ended"
    BY DEF LedgerInv, BeforeOK
  <2> QED
    BY <1>1, <1>3, <1>4, <1>5, <2>1 DEF Moved, Grows
<1>9. Given(q) = Given(r) \union {x} /\ x \notin Given(r)
  <2>1. Given(q) = Given(r) \union {x}
    BY <1>3, <1>4 DEF Given
  <2>2. x \notin Given(r)
    BY <1>2, TailFacts DEF Turns
  <2> QED
    BY <2>1, <2>2
<1>10. Wr(k, x)' /\ ~Wr(k, x) /\ \A s : s # x => (Wr(k, s)' <=> Wr(k, s))
  BY <1>3, <1>4, <1>5, <1>9 DEF Wr, Given
<1>11. Scopes' = Scopes
  BY <1>1 DEF Scopes
<1>12. ledger' = [s \in Scopes |-> IF s = x THEN text ELSE ledger[s]]
  BY <1>1 DEF LedgerInv
\* A process that is not through overlaps k.
<1>13. ASSUME NEW j \in Runs, j # k, run[j].at \notin {"ready", "ended"}
       PROVE  Overlap(j, k)' /\ Overlap(k, j)'
  <2>1. j \notin run[k].before /\ k \notin run[j].before
    BY <1>1, <1>13 DEF LedgerInv, BeforeOK
  <2> QED
    BY <1>4, <1>5, <1>13, <2>1 DEF Overlap
<1>14. LedgerOK(x)'
  <2>1. /\ ledger'[x] = text /\ text # NoPart /\ Torn # NoPart
        /\ (text = mine \/ (text = Torn /\ ledger[x] # Torn)) /\ mine # Torn
    <3>1. mine # NoPart /\ mine # Torn /\ Torn # NoPart
      BY DEF Distinguishable
    <3> HIDE DEF mine
    <3> QED
      BY <1>1, <1>2, <1>12, <3>1
  <2>2. ASSUME text = Torn
        PROVE  \E i, j \in Runs : Overlap(i, j)' /\ Wr(i, x)' /\ Wr(j, x)'
    <3>1. PICK j \in Runs : Overlap(j, k) /\ Wr(j, x)
      <4> HIDE DEF mine, r
      <4> QED
        BY <1>1, <1>2, <2>1, <2>2 DEF LedgerInv, LedgerOK
    <3> QED
      BY <1>8, <1>10, <3>1, OverlapStays, WrStays
  <2>3. ASSUME text = mine
        PROVE  /\ HistoryOK(ledger[x].history, x)'
               /\ LedgerRow(ledger'[x].latest) = ledger'[x].history[Len(ledger'[x].history)]
    <3> DEFINE old == r.previous
               n == Len(old)
    <3>1. /\ IsSeq(h) /\ n \in Nat /\ Len(h) = n + 1 /\ h[n + 1] = row
          /\ \A i \in 1..n : h[i] = old[i]
      BY <1>6, AppendFacts DEF HistoryOK
    <3>2. ledger'[x].history = h /\ ledger'[x].latest = r.envelope
      BY <2>1, <2>3
    <3>3. PICK g : g = old
      OBVIOUS
    <3>4. /\ \A i \in 1..n :
               old[i].ranAt \in Runs
                 /\ \E e \in Elements(run'[old[i].ranAt].envelopes) :
                      e.scope = x /\ LedgerRow(e) = old[i]
          /\ \A j \in Runs : Wr(j, x)' /\ j # k =>
               \/ \E i \in 1..n : old[i].ranAt = j
               \/ \E i \in Runs : Overlap(i, j)' /\ x \in run'[i].asked
      <4>1. HistoryOK(g, x)
        BY <1>6, <3>3
      <4>2. /\ \A i \in 1..Len(g) :
                 g[i].ranAt \in Runs
                   /\ \E e \in Elements(run'[g[i].ranAt].envelopes) :
                        e.scope = x /\ LedgerRow(e) = g[i]
            /\ \A j \in Runs : Wr(j, x)' /\ (j # k \/ Wr(j, x)) =>
                 \/ \E i \in 1..Len(g) : g[i].ranAt = j
                 \/ \E i \in Runs : Overlap(i, j)' /\ x \in run'[i].asked
        BY <1>8, <4>1, HistoryOfOthers
      <4> QED
        BY <3>3, <4>2
    <3>5. \A i \in 1..n : old[i].ranAt # k
      <4> SUFFICES ASSUME NEW i \in 1..n, old[i].ranAt = k PROVE FALSE
        OBVIOUS
      <4>1. \E e \in Elements(r.envelopes) : e.scope = x
        BY <1>6 DEF HistoryOK
      <4> QED
        BY <1>9, <4>1 DEF Given
    <3>6. \A i, j \in 1..n : i # j => old[i].ranAt # old[j].ranAt
      BY <1>6 DEF HistoryOK
    <3>7. /\ r.envelope \in Elements(run'[k].envelopes) /\ r.envelope.scope = x
          /\ LedgerRow(r.envelope) = row
      BY <1>3, <1>4, <1>5
    <3> HIDE DEF h, row, old, n
    <3>8. /\ \A i \in 1..Len(h) : i \in 1..n \/ i = n + 1
          /\ n + 1 \in 1..Len(h) /\ \A i \in 1..n : i \in 1..Len(h) /\ i # n + 1
      BY <3>1
    <3>9. /\ \A i \in 1..Len(h) :
               h[i].ranAt \in Runs
                 /\ \E e \in Elements(run'[h[i].ranAt].envelopes) :
                      e.scope = x /\ LedgerRow(e) = h[i]
          /\ \A i, j \in 1..Len(h) : i # j => h[i].ranAt # h[j].ranAt
          /\ \A j \in Runs : Wr(j, x)' =>
               \/ \E i \in 1..Len(h) : h[i].ranAt = j
               \/ \E i \in Runs : Overlap(i, j)' /\ x \in run'[i].asked
      <4>1. ASSUME NEW i \in 1..Len(h)
            PROVE  h[i].ranAt \in Runs
                     /\ \E e \in Elements(run'[h[i].ranAt].envelopes) :
                          e.scope = x /\ LedgerRow(e) = h[i]
        <5>1. CASE i = n + 1
          BY <1>7, <3>1, <3>7, <5>1
        <5>2. CASE i # n + 1
          BY <3>1, <3>4, <3>8, <5>2
        <5> QED
          BY <5>1, <5>2
      <4>2. \A i, j \in 1..Len(h) : i # j => h[i].ranAt # h[j].ranAt
        BY <1>7, <3>1, <3>5, <3>6, <3>8
      <4>3. ASSUME NEW j \in Runs, Wr(j, x)'
            PROVE  \/ \E i \in 1..Len(h) : h[i].ranAt = j
                   \/ \E i \in Runs : Overlap(i, j)' /\ x \in run'[i].asked
        BY <1>7, <3>1, <3>4, <3>8, <4>3
      <4> QED
        BY <4>1, <4>2, <4>3
    <3>10. HistoryOK(ledger[x].history, x)'
      BY <3>1, <3>2, <3>9 DEF HistoryOK
    <3> QED
      BY <3>1, <3>2, <3>7, <3>10
  <2>4. \A j \in Runs : (run[j].at = "writing" /\ Doing(j) = x)'
                          => \E i \in Runs : Overlap(i, j)' /\ Wr(i, x)'
    <3> SUFFICES ASSUME NEW j \in Runs, run'[j].at = "writing"
                 PROVE  Overlap(k, j)' /\ Wr(k, x)'
      OBVIOUS
    <3>1. j # k /\ run[j].at = "writing"
      BY <1>4, <1>5
    <3> QED
      BY <1>10, <1>13, <3>1
  <2> QED
    BY <2>1, <2>2, <2>3, <2>4 DEF LedgerOK
<1>15. ASSUME NEW s \in Scopes PROVE LedgerOK(s)'
  <2>1. CASE s = x
    BY <1>14, <2>1
  <2>2. CASE s # x
    <3>1. SameFor(k, s)
      BY <1>1, <1>4, <1>5, <1>10, <1>12, <2>2 DEF SameFor, AtWork
    <3> QED
      BY <1>8, <3>1, ScopeStays DEF LedgerInv
  <2> QED
    BY <2>1, <2>2
<1>16. \A j \in Runs : BeforeOK(j)'
  BY <1>8, BeforeStays DEF LedgerInv
<1>17. ASSUME NEW j \in Runs PROVE PreviousOK(j)'
  <2> SUFFICES ASSUME run'[j].at \in {"truncating", "writing"} PROVE PreviousOK(j)'
    BY DEF PreviousOK
  <2>1. j # k /\ run'[j] = run[j]
    BY <1>4, <1>5
  <2>2. PICK s, g : s = Doing(j) /\ g = run[j].previous
    OBVIOUS
  <2>3. s \in Scopes /\ HistoryOK(g, s) /\ s \in run[j].asked
    BY <2>1, <2>2, DoingInScopes, TurnFacts DEF LedgerInv, PreviousOK, Turning
  <2>4. Overlap(j, k)'
    BY <1>13, <2>1
  <2> QED
    BY <1>8, <2>1, <2>2, <2>3, <2>4, PreviousStays DEF Doing
<1> QED
  BY <1>11, <1>12, <1>15, <1>16, <1>17 DEF LedgerInv

LEMMA LedgerStarts == ASSUME VerifyInit, Distinguishable PROVE LedgerInv
<1>1. /\ ledger = [s \in Scopes |-> NoPart] /\ NoPart # Torn
      /\ \A k \in Runs : run[k] = Ready
  BY DEF VerifyInit, Distinguishable
<1>2. /\ Ready.at = "ready" /\ Ready.before = {} /\ Ready.keeps = FALSE
  BY DEF Ready
<1>3. ASSUME NEW s \in Scopes PROVE LedgerOK(s)
  BY <1>1, <1>2 DEF LedgerOK, Wr, AtWork
<1>4. ASSUME NEW k \in Runs PROVE PreviousOK(k) /\ BeforeOK(k)
  BY <1>1, <1>2 DEF PreviousOK, BeforeOK
<1> QED
  BY <1>1, <1>3, <1>4 DEF LedgerInv

LEMMA LedgerIdle ==
  ASSUME LedgerInv, run' = run, registry' = registry, ledger' = ledger
  PROVE  LedgerInv'
<1>1. Scopes' = Scopes
  BY DEF Scopes
<1>2. \A s : LedgerOK(s) => LedgerOK(s)'
  BY DEF LedgerOK, HistoryOK, Wr, Given, AtWork, Doing, Overlap
<1>3. \A k \in Runs : PreviousOK(k) /\ BeforeOK(k) => PreviousOK(k)' /\ BeforeOK(k)'
  BY DEF PreviousOK, BeforeOK, HistoryOK, Wr, Given, Doing, Overlap
<1> QED
  BY <1>1, <1>2, <1>3 DEF LedgerInv

LEMMA LedgerStays ==
  ASSUME VerifyInv, LedgerInv, Distinguishable, [VerifyNext]_vars
  PROVE  LedgerInv'
<1>1. CASE UNCHANGED vars
  BY <1>1, LedgerIdle DEF vars
<1>2. CASE Repository
  BY <1>2, LedgerIdle
     DEF Repository, Edit, Withdraw, Produce, Written, ProducerKilled, Rebuild
<1>3. ASSUME NEW k \in Runs, Process(k) PROVE LedgerInv'
  <2>1. CASE \E asked \in Scopes \union {"all", Unknown}, keeps \in BOOLEAN : Start(k, asked, keeps)
    BY <2>1, StartQuiet, QuietKeeps
  <2>2. CASE ReadFixtures(k) \/ Judge(k) \/ ReadLedger(k)
    BY <2>2, ReadFixturesQuiet, JudgeQuiet, ReadLedgerQuiet, QuietKeeps
  <2>3. CASE Truncate(k)
    BY <2>3, TruncateLedger
  <2>4. CASE Fill(k)
    BY <2>4, FillLedger
  <2>5. CASE Kill(k)
    BY <2>5, KillQuiet, QuietKeeps
  <2> QED
    BY <1>3, <2>1, <2>2, <2>3, <2>4, <2>5 DEF Process, VerifyStep
<1> QED
  BY <1>1, <1>2, <1>3 DEF VerifyNext

LEMMA LedgerInvTells == ASSUME VerifyInv, LedgerInv, Distinguishable PROVE LedgerTells
<1> SUFFICES ASSUME NEW s \in Scopes
             PROVE  LET writers == {k \in Runs : Wrote(k, s)}
                        writing == {k \in Runs : run[k].at \in {"writing", "cut"} /\ Doing(k) = s}
                    IN  IF ledger[s] = NoPart THEN writers = {}
                        ELSE IF ledger[s] = Torn
                        THEN writing # {} \/ \E j, k \in writers : Overlap(j, k)
                        ELSE LET history == ledger[s].history IN
                             /\ LedgerRow(ledger[s].latest) = history[Len(history)]
                             /\ \A i \in DOMAIN history :
                                  \E e \in Gave(history[i].ranAt, s) : LedgerRow(e) = history[i]
                             /\ \A i, j \in DOMAIN history :
                                  i < j => history[i].ranAt # history[j].ranAt
                             /\ \A k \in writers :
                                  \/ \E i \in DOMAIN history : history[i].ranAt = k
                                  \/ \E j \in Runs : Overlap(j, k) /\ s \in run[j].asked
  BY DEF LedgerTells
<1> DEFINE writers == {k \in Runs : Wrote(k, s)}
           writing == {k \in Runs : run[k].at \in {"writing", "cut"} /\ Doing(k) = s}
           h == ledger[s].history
<1>1. ASSUME NEW k \in Runs
      PROVE  Gave(k, s) = {e \in Elements(run[k].envelopes) : e.scope = s}
  BY GaveIsGiven DEF VerifyInv, ProcessOK
<1>2. ASSUME NEW k \in Runs PROVE Wrote(k, s) <=> Wr(k, s)
  BY <1>1 DEF Wrote, Wr, Given
<1>3. LedgerOK(s) /\ NoPart # Torn
  BY DEF LedgerInv, Distinguishable
<1>4. ledger[s] = NoPart => writers = {}
  BY <1>2, <1>3 DEF LedgerOK
<1>5. ledger[s] = Torn => writing # {} \/ \E j, k \in writers : Overlap(j, k)
  BY <1>2, <1>3 DEF LedgerOK, AtWork
<1>6. ASSUME ledger[s] \notin {NoPart, Torn}
      PROVE  /\ LedgerRow(ledger[s].latest) = h[Len(h)]
             /\ \A i \in DOMAIN h : \E e \in Gave(h[i].ranAt, s) : LedgerRow(e) = h[i]
             /\ \A i, j \in DOMAIN h : i < j => h[i].ranAt # h[j].ranAt
             /\ \A k \in writers :
                  \/ \E i \in DOMAIN h : h[i].ranAt = k
                  \/ \E j \in Runs : Overlap(j, k) /\ s \in run[j].asked
  <2>1. HistoryOK(h, s) /\ LedgerRow(ledger[s].latest) = h[Len(h)]
    BY <1>3, <1>6 DEF LedgerOK
  <2> HIDE DEF h
  <2>2. DOMAIN h = 1..Len(h) /\ Len(h) \in Nat
    BY <2>1, AppendFacts DEF HistoryOK
  <2>3. \A i \in DOMAIN h : \E e \in Gave(h[i].ranAt, s) : LedgerRow(e) = h[i]
    BY <1>1, <2>1, <2>2 DEF HistoryOK
  <2>4. \A i, j \in DOMAIN h : i < j => h[i].ranAt # h[j].ranAt
    BY <2>1, <2>2 DEF HistoryOK
  <2>5. \A k \in writers : \/ \E i \in DOMAIN h : h[i].ranAt = k
                           \/ \E j \in Runs : Overlap(j, k) /\ s \in run[j].asked
    BY <1>2, <2>1, <2>2 DEF HistoryOK
  <2> QED
    BY <2>1, <2>3, <2>4, <2>5
<1> HIDE DEF h
<1> QED
  BY <1>4, <1>5, <1>6 DEF h

\* The progress ledger of every scope tells the verdicts of its runs, each once, with
\* the last one's envelope; a row is lost, or the file unreadable, only by runs that
\* overlap or by one that was killed as it wrote (ledger.ts's read, truncation and
\* write), for every registry and every number of processes.
THEOREM LedgerIsTold == ASSUME Distinguishable PROVE VerifySpec => []LedgerTells
<1> DEFINE Inv == VerifyInv /\ LedgerInv
<1>1. VerifyInit => Inv
  BY InvStarts, LedgerStarts
<1>2. Inv /\ [VerifyNext]_vars => Inv'
  BY InvStays, LedgerStays
<1>3. Inv => LedgerTells
  BY LedgerInvTells
<1> QED
  BY <1>1, <1>2, <1>3, PTL DEF VerifySpec

-----------------------------------------------------------------------------
\* Types.

FilesOK ==
  /\ bundle \in Bundles
  /\ DOMAIN files = Scopes /\ DOMAIN parts = Scopes
  /\ DOMAIN making = Scopes /\ DOMAIN origin = Scopes
  /\ \A s \in Scopes :
       /\ FixturesOK(s, files[s])
       /\ DOMAIN making[s] = DOMAIN parts[s] /\ DOMAIN origin[s] = DOMAIN parts[s]
       /\ \A p \in DOMAIN parts[s] : making[s][p] # NoPart => origin[s][p] = NoPart

LEMMA FilesStart == VerifyInit => FilesOK
BY DEF VerifyInit, FilesOK

\* A file of one scope changes, and what its producer holds and has read with it.
LEMMA PartStays ==
  ASSUME FilesOK, NEW s \in Scopes, NEW p \in DOMAIN parts[s], NEW new, NEW held, NEW read,
         held # NoPart => read = NoPart,
         parts' = [parts EXCEPT ![s][p] = new], making' = [making EXCEPT ![s][p] = held],
         origin' = [origin EXCEPT ![s][p] = read],
         files' = files, bundle' = bundle, registry' = registry
  PROVE  FilesOK'
<1>1. Scopes' = Scopes
  BY DEF Scopes
<1>2. /\ DOMAIN parts' = Scopes /\ DOMAIN making' = Scopes /\ DOMAIN origin' = Scopes
  BY DEF FilesOK
<1>3. ASSUME NEW t \in Scopes
      PROVE  /\ parts'[t] = IF t = s THEN [parts[s] EXCEPT ![p] = new] ELSE parts[t]
             /\ making'[t] = IF t = s THEN [making[s] EXCEPT ![p] = held] ELSE making[t]
             /\ origin'[t] = IF t = s THEN [origin[s] EXCEPT ![p] = read] ELSE origin[t]
  BY DEF FilesOK
<1>4. ASSUME NEW t \in Scopes
      PROVE  /\ DOMAIN making'[t] = DOMAIN parts'[t] /\ DOMAIN origin'[t] = DOMAIN parts'[t]
             /\ \A x \in DOMAIN parts'[t] : making'[t][x] # NoPart => origin'[t][x] = NoPart
  BY <1>3 DEF FilesOK
<1> QED
  BY <1>1, <1>2, <1>4 DEF FilesOK

\* An edit puts a fixture where the scope reads one, a withdrawal takes one away.
LEMMA FixturesStay ==
  ASSUME FilesOK, NEW s \in Scopes, NEW t \in Scopes,
         (\E slot, content : Edit(s, slot, content)) \/ \E slot \in DOMAIN files[s] : Withdraw(s, slot)
  PROVE  FixturesOK(t, files'[t])
<1>1. DOMAIN files = Scopes /\ FixturesOK(s, files[s]) /\ FixturesOK(t, files[t])
  BY DEF FilesOK
<1>2. ASSUME NEW slot, NEW content, Edit(s, slot, content)
      PROVE  FixturesOK(t, files'[t])
  <2> DEFINE f == [x \in DOMAIN files[s] \union {slot} |-> IF x = slot THEN content ELSE files[s][x]]
  <2>1. files' = [files EXCEPT ![s] = f] /\ content \in Contents(s, slot)
    BY <1>2 DEF Edit
  <2>2. IsFiniteSet(DOMAIN f)
    BY <1>1, FS_AddElement DEF FixturesOK
  <2>3. FixturesOK(s, f)
    BY <1>1, <2>1, <2>2 DEF FixturesOK
  <2> HIDE DEF f
  <2> QED
    BY <1>1, <2>1, <2>3
<1>3. ASSUME NEW slot \in DOMAIN files[s], Withdraw(s, slot)
      PROVE  FixturesOK(t, files'[t])
  <2> DEFINE f == [x \in DOMAIN files[s] \ {slot} |-> files[s][x]]
  <2>1. files' = [files EXCEPT ![s] = f]
    BY <1>3 DEF Withdraw
  <2>2. IsFiniteSet(DOMAIN f)
    BY <1>1, FS_Subset DEF FixturesOK
  <2>3. FixturesOK(s, f)
    BY <1>1, <2>2 DEF FixturesOK
  <2> HIDE DEF f
  <2> QED
    BY <1>1, <2>1, <2>3
<1> QED
  BY <1>2, <1>3

LEMMA FilesStay == ASSUME VerifyInv, FilesOK, [VerifyNext]_vars PROVE FilesOK'
<1>1. registry' = registry /\ Scopes' = Scopes
  <2>1. CASE UNCHANGED vars
    BY <2>1 DEF vars, Scopes
  <2>2. CASE Repository
    BY <2>2, RepositoryKeeps DEF Scopes
  <2>3. CASE \E k \in Runs : Process(k)
    BY <2>3, ProcessKeeps DEF Becomes, Scopes
  <2> QED
    BY <2>1, <2>2, <2>3 DEF VerifyNext
<1>2. CASE UNCHANGED <<files, bundle, parts, making, origin>>
  BY <1>1, <1>2 DEF FilesOK
<1>3. CASE UNCHANGED vars
  BY <1>2, <1>3 DEF vars
<1>4. CASE \E k \in Runs : Process(k)
  BY <1>2, <1>4
     DEF Process, VerifyStep, Start, ReadFixtures, Judge, ReadLedger, Truncate, Fill, Kill, workspace
<1>5. ASSUME NEW s \in Scopes,
             (\E slot, content : Edit(s, slot, content))
               \/ \E slot \in DOMAIN files[s] : Withdraw(s, slot)
      PROVE  FilesOK'
  <2>1. DOMAIN files' = DOMAIN files /\ UNCHANGED <<bundle, parts, making, origin>>
    BY <1>5 DEF Edit, Withdraw
  <2>2. \A t \in Scopes : FixturesOK(t, files'[t])
    BY <1>5, FixturesStay
  <2> QED
    BY <1>1, <2>1, <2>2 DEF FilesOK
<1>6. ASSUME NEW b \in Bundles, Rebuild(b) PROVE FilesOK'
  BY <1>1, <1>6 DEF Rebuild, FilesOK
<1>7. ASSUME NEW s \in Scopes, NEW p \in DOMAIN parts[s],
             Produce(s, p) \/ Written(s, p) \/ ProducerKilled(s, p)
      PROVE  FilesOK'
  <2>1. CASE Produce(s, p)
    BY <2>1, PartStays DEF Produce
  <2>2. CASE Written(s, p)
    BY <2>2, PartStays DEF Written
  <2>3. CASE ProducerKilled(s, p)
    <3>1. making' = [making EXCEPT ![s][p] = NoPart] /\ UNCHANGED <<files, bundle, parts, origin>>
      BY <2>3 DEF ProducerKilled
    <3>2. /\ DOMAIN making' = Scopes
          /\ \A t \in Scopes : making'[t] = IF t = s THEN [making[s] EXCEPT ![p] = NoPart]
                                            ELSE making[t]
      BY <3>1 DEF FilesOK
    <3> QED
      BY <1>1, <3>1, <3>2 DEF FilesOK
  <2> QED
    BY <1>7, <2>1, <2>2, <2>3
<1> QED
  BY <1>3, <1>4, <1>5, <1>6, <1>7 DEF VerifyNext, Repository

\* The types of the verify processes and of what they read: an exit code exactly when a
\* run has ended, a scope at hand that was asked for, and every envelope for such a one.
THEOREM VerifyTypes == ASSUME Distinguishable PROVE VerifySpec => []VerifyTypeOK
<1> DEFINE Inv == VerifyInv /\ LedgerInv /\ FilesOK
<1>1. VerifyInit => Inv
  BY InvStarts, LedgerStarts, FilesStart
<1>2. Inv /\ [VerifyNext]_vars => Inv'
  BY InvStays, LedgerStays, FilesStay
<1>3. Inv => VerifyTypeOK
  <2> SUFFICES ASSUME Inv PROVE VerifyTypeOK
    OBVIOUS
  <2>1. DOMAIN ledger = Scopes
    BY DEF LedgerInv
  <2>2. ASSUME NEW k \in Runs
        PROVE  /\ run[k].at \in {"ready", "fixtures", "artifacts", "judged", "truncating", "writing",
                                 "ended", "killed", "cut"}
               /\ run[k].exit \in {NoPart, 0, 1}
               /\ (run[k].at = "ended") <=> (run[k].exit # NoPart)
               /\ run[k].at \in {"fixtures", "artifacts", "judged", "truncating", "writing"}
                    => run[k].todo # <<>> /\ Doing(k) \in run[k].asked
               /\ \A i \in DOMAIN run[k].envelopes : run[k].envelopes[i].scope \in run[k].asked
    <3>1. ProcessOK(k, run[k])
      BY DEF VerifyInv
    <3>2. /\ run[k].at \in Stages /\ IsSeq(run[k].envelopes) /\ Given(run[k]) \subseteq run[k].asked
          /\ run[k].at # "ended" => run[k].exit = NoPart
          /\ run[k].at = "ended" => run[k].exit \in {0, 1}
          /\ run[k].at \in Turning => Turns(run[k])
      BY <3>1 DEF ProcessOK
    <3>3. DOMAIN run[k].envelopes = 1..Len(run[k].envelopes)
      BY <3>2, AppendFacts
    <3>4. \A i \in DOMAIN run[k].envelopes : run[k].envelopes[i].scope \in run[k].asked
      BY <3>2, <3>3 DEF Given, Elements
    <3>5. run[k].at \in Turning => Doing(k) \in run[k].asked
      BY TurnFacts
    <3> QED
      BY <3>2, <3>4, <3>5 DEF Stages, Turning, Turns, Distinguishable
  <2> QED
    BY <2>1, <2>2 DEF VerifyTypeOK, FilesOK
<1> QED
  BY <1>1, <1>2, <1>3, PTL DEF VerifySpec
=============================================================================
