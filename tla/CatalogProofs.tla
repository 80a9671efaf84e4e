--------------------------- MODULE CatalogProofs ---------------------------
(***************************************************************************)
(* Proofs about the harness catalog: what each scope's checks tell of the  *)
(* view they judge, and what its verdicts therefore say, for every set of  *)
(* fixtures, every fault of the code, every state of the schemas, every    *)
(* number of processes and every order of the edits, the producers and the *)
(* runs.                                                                   *)
(***************************************************************************)
EXTENDS VerifyProofs, CatalogVerify

-----------------------------------------------------------------------------
(* What the verdicts were made of.                                         *)

\* Artifact a of scope s is what its producer makes of the sources o.
Made(s, p, a, o) ==
  \E v : /\ FixturesOK(s, v.files) /\ o = [files |-> v.files, program |-> v.program]
         /\ ~Throws(s, p, v) /\ a = Results(s, p, v)

\* The scopes have their artifacts, and each one that a producer wrote is one that it
\* made of the sources it had read.
Provenance ==
  \A s \in Scopes :
    /\ DOMAIN parts[s] = PartsOf(s)
    /\ \A p \in PartsOf(s) :
         /\ making[s][p] # NoPart => Made(s, p, making[s][p].holds, making[s][p].read)
         /\ origin[s][p] # NoPart => Made(s, p, parts[s][p], origin[s][p])

\* A view of scope s, with artifacts made of the sources known.
Seen(s, v, known) ==
  /\ FixturesOK(s, v.files) /\ v.bundle \in Bundles
  /\ DOMAIN v.parts = PartsOf(s) /\ DOMAIN known = PartsOf(s)
  /\ \A p \in PartsOf(s) : known[p] # NoPart => Made(s, p, v.parts[p], known[p])

\* The envelope of process r is scope s's verdict on view v.
JudgedOn(k, r, s, v, known) ==
  /\ r.envelope = SelfJudged(Envelope(s, k, Checks(s, v)), v.envelope = "built")
  /\ r.judged.files = v.files /\ r.judged.sound = Sound(s, v) /\ r.judged.known = known
  /\ r.judged.fresh <=> \A p \in PartsOf(s) :
                          known[p] = [files |-> v.files, program |-> v.program]

Watched(k, r) ==
  /\ r.at = "artifacts" => /\ r.saw.bundle \in Bundles
                           /\ FixturesOK(Head(r.todo), r.saw.files)
  /\ r.judged # NoPart =>
       \E s \in Scopes : \E v : \E known : Seen(s, v, known) /\ JudgedOn(k, r, s, v, known)

JudgeInv == FilesOK /\ Provenance /\ \A k \in Runs : Watched(k, run[k])

\* One artifact changes, and what its producer holds and has read with it.
LEMMA PartMoves ==
  ASSUME FilesOK, Provenance, NEW s \in Scopes, NEW p \in DOMAIN parts[s],
         NEW new, NEW held, NEW read,
         parts' = [parts EXCEPT ![s][p] = new], making' = [making EXCEPT ![s][p] = held],
         origin' = [origin EXCEPT ![s][p] = read], registry' = registry,
         held # NoPart => Made(s, p, held.holds, held.read),
         read # NoPart => Made(s, p, new, read)
  PROVE  Provenance'
<1>1. Scopes' = Scopes
  BY DEF Scopes
<1>2. ASSUME NEW t \in Scopes
      PROVE  /\ parts'[t] = IF t = s THEN [parts[s] EXCEPT ![p] = new] ELSE parts[t]
             /\ making'[t] = IF t = s THEN [making[s] EXCEPT ![p] = held] ELSE making[t]
             /\ origin'[t] = IF t = s THEN [origin[s] EXCEPT ![p] = read] ELSE origin[t]
  BY DEF FilesOK
<1>3. ASSUME NEW t \in Scopes
      PROVE  DOMAIN parts'[t] = PartsOf(t)
  BY <1>2 DEF Provenance
<1>4. ASSUME NEW t \in Scopes, NEW x \in PartsOf(t)
      PROVE  /\ parts'[t][x] = IF t = s /\ x = p THEN new ELSE parts[t][x]
             /\ making'[t][x] = IF t = s /\ x = p THEN held ELSE making[t][x]
             /\ origin'[t][x] = IF t = s /\ x = p THEN read ELSE origin[t][x]
  <2>1. /\ DOMAIN parts[t] = PartsOf(t) /\ DOMAIN making[t] = PartsOf(t)
        /\ DOMAIN origin[t] = PartsOf(t)
    BY DEF FilesOK, Provenance
  <2> QED
    BY <1>2, <2>1
<1>5. ASSUME NEW t \in Scopes, NEW x \in PartsOf(t)
      PROVE  /\ making'[t][x] # NoPart => Made(t, x, making'[t][x].holds, making'[t][x].read)
             /\ origin'[t][x] # NoPart => Made(t, x, parts'[t][x], origin'[t][x])
  <2>1. CASE t = s /\ x = p
    BY <1>4, <2>1
  <2>2. CASE ~(t = s /\ x = p)
    BY <1>4, <2>2 DEF Provenance
  <2> QED
    BY <2>1, <2>2
<1> QED
  BY <1>1, <1>3, <1>5 DEF Provenance

LEMMA ProvenanceStays ==
  ASSUME VerifyInv, FilesOK, Provenance, [VerifyNext]_vars
  PROVE  Provenance'
<1>1. registry' = registry /\ Scopes' = Scopes
  <2>1. CASE UNCHANGED vars
    BY <2>1 DEF vars, Scopes
  <2>2. CASE Repository
    BY <2>2, RepositoryKeeps DEF Scopes
  <2>3. CASE \E k \in Runs : Process(k)
    BY <2>3, ProcessKeeps DEF Becomes, Scopes
  <2> QED
    BY <2>1, <2>2, <2>3 DEF VerifyNext
<1>2. CASE UNCHANGED <<parts, making, origin>>
  BY <1>1, <1>2 DEF Provenance
<1>3. CASE UNCHANGED vars
  BY <1>2, <1>3 DEF vars
<1>4. CASE \E k \in Runs : Process(k)
  BY <1>2, <1>4
     DEF Process, VerifyStep, Start, ReadFixtures, Judge, ReadLedger, Truncate, Fill, Kill, workspace
<1>5. ASSUME NEW s \in Scopes,
             (\E slot, content : Edit(s, slot, content))
               \/ \E slot \in DOMAIN files[s] : Withdraw(s, slot)
      PROVE  Provenance'
  BY <1>2, <1>5 DEF Edit, Withdraw
<1>6. ASSUME NEW b \in Bundles, Rebuild(b) PROVE Provenance'
  BY <1>2, <1>6 DEF Rebuild
<1>7. ASSUME NEW s \in Scopes, NEW p \in DOMAIN parts[s], Produce(s, p)
      PROVE  Provenance'
  <2> DEFINE held == [holds |-> Results(s, p, View(s)), read |-> Source(s)]
  <2>1. /\ parts' = [parts EXCEPT ![s][p] = Torn] /\ making' = [making EXCEPT ![s][p] = held]
        /\ origin' = [origin EXCEPT ![s][p] = NoPart] /\ ~Throws(s, p, View(s))
    BY <1>7 DEF Produce
  <2>2. /\ View(s).files = files[s] /\ View(s).program = program
        /\ Source(s) = [files |-> files[s], program |-> program]
    BY DEF View, Source
  <2>3. FixturesOK(s, files[s])
    BY DEF FilesOK
  <2>4. Made(s, p, Results(s, p, View(s)), Source(s))
    BY <2>1, <2>2, <2>3 DEF Made
  <2>5. Made(s, p, held.holds, held.read)
    BY <2>4
  <2> HIDE DEF held
  <2> QED
    BY <1>1, <2>1, <2>5, PartMoves
<1>8. ASSUME NEW s \in Scopes, NEW p \in DOMAIN parts[s], Written(s, p)
      PROVE  Provenance'
  <2>1. /\ parts' = [parts EXCEPT ![s][p] = making[s][p].holds]
        /\ making' = [making EXCEPT ![s][p] = NoPart]
        /\ origin' = [origin EXCEPT ![s][p] = making[s][p].read] /\ making[s][p] # NoPart
    BY <1>8 DEF Written
  <2>2. Made(s, p, making[s][p].holds, making[s][p].read)
    BY <2>1 DEF Provenance
  <2> QED
    BY <1>1, <2>1, <2>2, PartMoves
<1>9. ASSUME NEW s \in Scopes, NEW p \in DOMAIN parts[s], ProducerKilled(s, p)
      PROVE  Provenance'
  <2>1. /\ making' = [making EXCEPT ![s][p] = NoPart] /\ UNCHANGED <<parts, origin>>
    BY <1>9 DEF ProducerKilled
  <2>2. ASSUME NEW t \in Scopes, NEW x \in PartsOf(t)
        PROVE  making'[t][x] = IF t = s /\ x = p THEN NoPart ELSE making[t][x]
    <3>1. DOMAIN making = Scopes /\ DOMAIN making[t] = PartsOf(t)
      BY DEF FilesOK, Provenance
    <3> QED
      BY <2>1, <3>1
  <2> QED
    BY <1>1, <2>1, <2>2 DEF Provenance
<1> QED
  BY <1>3, <1>4, <1>5, <1>6, <1>7, <1>8, <1>9 DEF VerifyNext, Repository

\* A step that leaves the envelope and what it was judged on, and reads no fixtures.
LEMMA WatchedOn ==
  ASSUME NEW k, NEW r, NEW q, Watched(k, r), q.judged = r.judged, q.envelope = r.envelope,
         q.at # "artifacts"
  PROVE  Watched(k, q)
BY DEF Watched, JudgedOn

LEMMA ProceedKeeps ==
  ASSUME NEW r, Shape(r)
  PROVE  /\ Proceed(r).judged = r.judged /\ Proceed(r).envelope = r.envelope
         /\ Proceed(r).at # "artifacts"
<1> DEFINE done == [r EXCEPT !.todo = Tail(@), !.envelopes = Append(@, r.envelope),
                             !.previous = <<>>]
<1>1. Shape(done) /\ done.judged = r.judged /\ done.envelope = r.envelope
  BY DEF Shape, Fields
<1>2. Proceed(r) = IF done.todo = <<>> THEN Ended(done, ExitCode(done.envelopes))
                   ELSE [done EXCEPT !.at = "fixtures"]
  BY DEF Proceed
<1> HIDE DEF done
<1>3. /\ Ended(done, ExitCode(done.envelopes)).judged = r.judged
      /\ Ended(done, ExitCode(done.envelopes)).envelope = r.envelope
      /\ Ended(done, ExitCode(done.envelopes)).at = "ended"
  BY <1>1 DEF Ended, Shape, Fields
<1>4. /\ [done EXCEPT !.at = "fixtures"].judged = r.judged
      /\ [done EXCEPT !.at = "fixtures"].envelope = r.envelope
      /\ [done EXCEPT !.at = "fixtures"].at = "fixtures"
  BY <1>1 DEF Shape, Fields
<1> QED
  BY <1>2, <1>3, <1>4

LEMMA JudgeWatched ==
  ASSUME VerifyInv, JudgeInv, NEW k \in Runs, Judge(k)
  PROVE  \E q : run' = [run EXCEPT ![k] = q] /\ Watched(k, q)
<1> DEFINE s == Doing(k)
<1>1. run[k].at = "artifacts" /\ Shape(run[k]) /\ Watched(k, run[k])
      /\ s = Head(run[k].todo) /\ s \in Scopes
  BY TurnFacts DEF Judge, JudgeInv, Turning
<1>2. CASE Compiled(k) = "absent"
  <2> DEFINE q == Ended(run[k], 1)
  <2>1. run' = [run EXCEPT ![k] = q]
    BY <1>2 DEF Judge, Goto
  <2>2. q.judged = run[k].judged /\ q.envelope = run[k].envelope /\ q.at = "ended"
    BY <1>1 DEF Ended, Shape, Fields
  <2> HIDE DEF q
  <2> QED
    BY <1>1, <2>1, <2>2, WatchedOn
<1>3. CASE Compiled(k) # "absent"
  <2> DEFINE view == [files |-> run[k].saw.files, bundle |-> run[k].saw.bundle,
                      program |-> program, parts |-> parts[s], envelope |-> Compiled(k)]
             known == [p \in DOMAIN parts[s] |-> origin[s][p]]
             seen == [files |-> view.files,
                      sound |-> Sound(s, view),
                      known |-> known,
                      fresh |-> \A p \in DOMAIN parts[s] :
                                  origin[s][p] = [files |-> view.files, program |-> program]]
             envelope(checks) == SelfJudged(Envelope(s, k, checks), Compiled(k) = "built")
             after(checks) == [run[k] EXCEPT
                !.at = "judged", !.validator = Compiled(k),
                !.envelope = envelope(checks), !.judged = seen]
  <2>1. run' = [run EXCEPT ![k] = IF run[k].keeps THEN after(Checks(s, view))
                                  ELSE Proceed(after(Checks(s, view)))]
    BY <1>3 DEF Judge, Goto
  <2>2. /\ view.files = run[k].saw.files /\ view.bundle = run[k].saw.bundle
        /\ view.program = program /\ view.parts = parts[s] /\ view.envelope = Compiled(k)
    OBVIOUS
  <2>3. DOMAIN parts[s] = PartsOf(s)
    BY <1>1 DEF JudgeInv, Provenance
  <2>4. /\ seen.files = view.files /\ seen.sound = Sound(s, view) /\ seen.known = known
        /\ seen.fresh <=> \A p \in PartsOf(s) :
                            known[p] = [files |-> view.files, program |-> view.program]
    BY <2>3
  <2> HIDE DEF seen
  <2>5. Seen(s, view, known)
    BY <1>1, <2>2, <2>3 DEF Seen, Watched, JudgeInv, Provenance
  <2> HIDE DEF view, known
  <2> DEFINE e == envelope(Checks(s, view))
             judged == after(Checks(s, view))
  <2>6. e = SelfJudged(Envelope(s, k, Checks(s, view)), view.envelope = "built")
    BY <2>2
  <2> HIDE DEF e
  <2>7. Shape(judged) /\ judged.at = "judged" /\ judged.envelope = e /\ judged.judged = seen
    BY <1>1 DEF Shape, Fields, e
  <2>8. run' = [run EXCEPT ![k] = IF run[k].keeps THEN judged ELSE Proceed(judged)]
    BY <2>1
  <2> HIDE DEF judged
  <2>9. Watched(k, judged)
    <3>1. JudgedOn(k, judged, s, view, known)
      BY <2>4, <2>6, <2>7 DEF JudgedOn
    <3> QED
      BY <1>1, <2>5, <2>7, <3>1 DEF Watched
  <2>10. Watched(k, Proceed(judged))
    BY <2>7, <2>9, ProceedKeeps, WatchedOn
  <2> QED
    BY <2>8, <2>9, <2>10
<1> QED
  BY <1>2, <1>3

LEMMA ProcessWatched ==
  ASSUME VerifyInv, JudgeInv, NEW k \in Runs, Process(k)
  PROVE  \E q : run' = [run EXCEPT ![k] = q] /\ Watched(k, q)
<1>1. ASSUME NEW asked \in Scopes \union {"all", Unknown}, NEW keeps \in BOOLEAN, Start(k, asked, keeps)
      PROVE  \E q : run' = [run EXCEPT ![k] = q] /\ Watched(k, q)
  <2> DEFINE begun == [Ready EXCEPT !.keeps = keeps, !.before = {j \in Runs : run[j].at = "ended"}]
             selected == IF asked = "all" THEN registry ELSE <<asked>>
             members == {selected[i] : i \in DOMAIN selected}
             going == [begun EXCEPT !.at = "fixtures", !.todo = selected, !.asked = members]
             q == IF asked = Unknown THEN Ended(begun, 1) ELSE going
  <2>1. run' = [run EXCEPT ![k] = q]
    BY <1>1 DEF Start, Goto
  <2>2. Shape(begun) /\ begun.judged = NoPart
    BY DEF Shape, Fields, Ready
  <2> HIDE DEF begun
  <2>3. Ended(begun, 1).judged = NoPart /\ Ended(begun, 1).at = "ended"
    BY <2>2 DEF Ended, Shape, Fields
  <2> HIDE DEF selected, members
  <2>4. going.judged = NoPart /\ going.at = "fixtures"
    BY <2>2 DEF Shape, Fields
  <2> HIDE DEF going
  <2>5. q.judged = NoPart /\ q.at # "artifacts"
    BY <2>3, <2>4
  <2> HIDE DEF q
  <2> QED
    BY <2>1, <2>5 DEF Watched
<1>2. CASE ReadFixtures(k)
  <2> DEFINE saw == [files |-> files[Doing(k)], bundle |-> bundle]
             q == [run[k] EXCEPT !.at = "artifacts", !.saw = saw]
  <2>1. run[k].at = "fixtures" /\ run' = [run EXCEPT ![k] = q]
    BY <1>2 DEF ReadFixtures, Goto
  <2>2. Shape(run[k]) /\ Doing(k) = Head(run[k].todo) /\ Doing(k) \in Scopes
    BY <2>1, TurnFacts DEF Turning
  <2>3. saw.files = files[Doing(k)] /\ saw.bundle = bundle
    OBVIOUS
  <2> HIDE DEF saw
  <2>4. /\ q.saw = saw /\ q.todo = run[k].todo
        /\ q.judged = run[k].judged /\ q.envelope = run[k].envelope
    BY <2>2 DEF Shape, Fields
  <2> HIDE DEF q
  <2>5. FixturesOK(Head(q.todo), q.saw.files) /\ q.saw.bundle \in Bundles
    BY <2>2, <2>3, <2>4 DEF JudgeInv, FilesOK
  <2>6. Watched(k, run[k])
    BY DEF JudgeInv
  <2>7. Watched(k, q)
    BY <2>4, <2>5, <2>6 DEF Watched, JudgedOn
  <2> QED
    BY <2>1, <2>7
<1>3. CASE ReadLedger(k)
  <2> DEFINE found == ledger[Doing(k)]
             history == IF found = NoPart THEN <<>> ELSE found.history
             on == [run[k] EXCEPT !.at = "truncating", !.previous = history]
             q == IF found = Torn THEN Ended(run[k], 1) ELSE on
  <2>1. run[k].at = "judged" /\ run' = [run EXCEPT ![k] = q]
    BY <1>3 DEF ReadLedger, Goto
  <2>2. Shape(run[k]) /\ Watched(k, run[k])
    BY <2>1, TurnFacts DEF Turning, JudgeInv
  <2>3. /\ Ended(run[k], 1).judged = run[k].judged /\ Ended(run[k], 1).envelope = run[k].envelope
        /\ Ended(run[k], 1).at = "ended"
    BY <2>2 DEF Ended, Shape, Fields
  <2> HIDE DEF history
  <2>4. on.judged = run[k].judged /\ on.envelope = run[k].envelope /\ on.at = "truncating"
    BY <2>2 DEF Shape, Fields
  <2> HIDE DEF on
  <2>5. q.judged = run[k].judged /\ q.envelope = run[k].envelope /\ q.at # "artifacts"
    BY <2>3, <2>4
  <2> HIDE DEF q
  <2> QED
    BY <2>1, <2>2, <2>5, WatchedOn
<1>4. CASE Truncate(k)
  <2> DEFINE q == [run[k] EXCEPT !.at = "writing"]
  <2>1. run[k].at = "truncating" /\ run' = [run EXCEPT ![k] = q]
    BY <1>4 DEF Truncate, Goto
  <2>2. Shape(run[k]) /\ Watched(k, run[k])
    BY <2>1, TurnFacts DEF Turning, JudgeInv
  <2>3. q.judged = run[k].judged /\ q.envelope = run[k].envelope /\ q.at = "writing"
    BY <2>2 DEF Shape, Fields
  <2> HIDE DEF q
  <2> QED
    BY <2>1, <2>2, <2>3, WatchedOn
<1>5. CASE Fill(k)
  <2>1. run[k].at = "writing" /\ run' = [run EXCEPT ![k] = Proceed(run[k])]
    BY <1>5 DEF Fill, Goto
  <2>2. Shape(run[k]) /\ Watched(k, run[k])
    BY <2>1, TurnFacts DEF Turning, JudgeInv
  <2> QED
    BY <2>1, <2>2, ProceedKeeps, WatchedOn
<1>6. CASE Kill(k)
  <2> DEFINE q == [run[k] EXCEPT !.at = IF @ = "writing" THEN "cut" ELSE "killed"]
  <2>1. run' = [run EXCEPT ![k] = q]
    BY <1>6 DEF Kill, Goto
  <2>2. Shape(run[k]) /\ Watched(k, run[k])
    BY DEF VerifyInv, ProcessOK, JudgeInv
  <2>3. q.judged = run[k].judged /\ q.envelope = run[k].envelope /\ q.at # "artifacts"
    BY <2>2 DEF Shape, Fields
  <2> HIDE DEF q
  <2> QED
    BY <2>1, <2>2, <2>3, WatchedOn
<1> QED
  BY <1>1, <1>2, <1>3, <1>4, <1>5, <1>6, JudgeWatched DEF Process, VerifyStep

LEMMA JudgeInvStays ==
  ASSUME VerifyInv, JudgeInv, [VerifyNext]_vars
  PROVE  JudgeInv'
<1>1. FilesOK' /\ Provenance'
  BY FilesStay, ProvenanceStays DEF JudgeInv
<1>2. CASE run' = run /\ registry' = registry
  <2>1. Scopes' = Scopes
    BY <1>2 DEF Scopes
  <2>2. ASSUME NEW k \in Runs PROVE Watched(k, run[k])'
    <3>1. Watched(k, run'[k])
      BY <1>2 DEF JudgeInv
    <3> QED
      BY <2>1, <3>1 DEF Watched, Seen, JudgedOn
  <2> QED
    BY <1>1, <2>2 DEF JudgeInv
<1>3. ASSUME NEW k \in Runs, Process(k)
      PROVE  JudgeInv'
  <2>1. PICK q : run' = [run EXCEPT ![k] = q] /\ Watched(k, q)
    BY <1>3, ProcessWatched
  <2>2. Scopes' = Scopes
    BY <1>3, ProcessKeeps DEF Becomes, Scopes
  <2>3. run' = [j \in Runs |-> IF j = k THEN q ELSE run[j]]
    BY <2>1 DEF VerifyInv, State
  <2>4. ASSUME NEW j \in Runs PROVE Watched(j, run[j])'
    <3>1. Watched(j, run'[j])
      BY <2>1, <2>3 DEF JudgeInv
    <3> QED
      BY <2>2, <3>1 DEF Watched, Seen, JudgedOn
  <2> QED
    BY <1>1, <2>4 DEF JudgeInv
<1>4. CASE UNCHANGED vars
  BY <1>2, <1>4 DEF vars
<1>5. CASE Repository
  BY <1>2, <1>5, RepositoryKeeps
<1> QED
  BY <1>3, <1>4, <1>5 DEF VerifyNext

\* Where scopes stand with their artifacts at the start: each has those of the catalog,
\* missing or made by its producer.
Prepared ==
  \A s \in Scopes :
    /\ DOMAIN parts[s] = PartsOf(s)
    /\ \A p \in PartsOf(s) : origin[s][p] # NoPart => Made(s, p, parts[s][p], origin[s][p])

LEMMA JudgeInvStarts ==
  ASSUME VerifyInit, Prepared
  PROVE  JudgeInv
<1>1. FilesOK
  BY FilesStart
<1>2. Provenance
  <2>1. \A s \in Scopes : \A p \in PartsOf(s) : making[s][p] = NoPart
    BY DEF VerifyInit, Prepared
  <2> QED
    BY <2>1 DEF Provenance, Prepared
<1>3. ASSUME NEW k \in Runs PROVE Watched(k, run[k])
  <2>1. run[k] = Ready
    BY DEF VerifyInit
  <2>2. run[k].at = "ready" /\ run[k].judged = NoPart
    BY <2>1 DEF Ready
  <2> QED
    BY <2>2 DEF Watched
<1> QED
  BY <1>1, <1>2, <1>3 DEF JudgeInv

LEMMA JudgeInvHolds == VerifySpec /\ Prepared => []JudgeInv
<1>1. VerifyInit /\ Prepared => VerifyInv /\ JudgeInv
  BY InvStarts, JudgeInvStarts
<1>2. (VerifyInv /\ JudgeInv) /\ [VerifyNext]_vars => (VerifyInv /\ JudgeInv)'
  BY InvStays, JudgeInvStays
<1> QED
  BY <1>1, <1>2, PTL DEF VerifySpec

-----------------------------------------------------------------------------
(* Checks and verdicts.                                                    *)

\* The checks of a scope: finitely many, each passed or failed.
Graded(C) == IsFiniteSet(C) /\ \A c \in C : c.status \in {"pass", "fail"}
Green(C) == \A c \in C : c.status = "pass"

LEMMA CheckGraded ==
  ASSUME NEW id, NEW ok \in BOOLEAN
  PROVE  Graded({Check(id, ok)}) /\ (Green({Check(id, ok)}) <=> ok)
<1> DEFINE c == Check(id, ok)
<1>1. c.status = IF ok THEN "pass" ELSE "fail"
  BY DEF Check
<1>2. IsFiniteSet({c})
  BY FS_Singleton
<1> HIDE DEF c
<1>3. Graded({c}) /\ (Green({c}) <=> ok)
  BY <1>1, <1>2 DEF Graded, Green
<1> QED
  BY <1>3 DEF c

LEMMA OneGraded ==
  ASSUME NEW id, NEW ok \in BOOLEAN
  PROVE  Graded(One(id, ok)) /\ (Green(One(id, ok)) <=> ok)
BY CheckGraded DEF One

LEMMA AtGraded ==
  ASSUME NEW id, NEW of, NEW ok \in BOOLEAN
  PROVE  Graded(At(id, of, ok)) /\ (Green(At(id, of, ok)) <=> ok)
BY CheckGraded DEF At

LEMMA FailGraded ==
  ASSUME NEW id
  PROVE  Graded(Fail(id)) /\ ~Green(Fail(id)) /\ Graded(Thrown) /\ ~Green(Thrown)
BY OneGraded DEF Fail, Thrown

LEMMA EachGraded ==
  ASSUME NEW id, NEW held, IsFiniteSet(DOMAIN held), \A s \in DOMAIN held : held[s] \in BOOLEAN
  PROVE  /\ Graded(Each(id, held))
         /\ Green(Each(id, held)) <=> \A s \in DOMAIN held : held[s]
<1>1. IsFiniteSet({Check(<<id, s>>, held[s]) : s \in DOMAIN held})
  <2> DEFINE f == [s \in DOMAIN held |-> Check(<<id, s>>, held[s])]
             T == {Check(<<id, s>>, held[s]) : s \in DOMAIN held}
  <2>1. f \in Surjection(DOMAIN held, T)
    BY DEF Surjection
  <2> QED
    BY <2>1, FS_Surjection
<1>2. ASSUME NEW s \in DOMAIN held
      PROVE  /\ Check(<<id, s>>, held[s]).status \in {"pass", "fail"}
             /\ Check(<<id, s>>, held[s]).status = "pass" <=> held[s]
  BY DEF Check
<1> QED
  BY <1>1, <1>2 DEF Each, Graded, Green

LEMMA BothGraded ==
  ASSUME NEW C, NEW D
  PROVE  /\ Graded(C) /\ Graded(D) => Graded(C \union D)
         /\ Green(C \union D) <=> Green(C) /\ Green(D)
BY FS_Union DEF Graded, Green

LEMMA FourGraded ==
  ASSUME NEW A, NEW B, NEW C, NEW D
  PROVE  /\ Graded(A) /\ Graded(B) /\ Graded(C) /\ Graded(D) => Graded(A \union B \union C \union D)
         /\ Green(A \union B \union C \union D) <=> Green(A) /\ Green(B) /\ Green(C) /\ Green(D)
<1>1. Graded(A) /\ Graded(B) => Graded(A \union B)
  BY BothGraded
<1>2. Graded(A \union B) /\ Graded(C) => Graded(A \union B \union C)
  BY BothGraded
<1>3. Graded(A \union B \union C) /\ Graded(D) => Graded(A \union B \union C \union D)
  BY BothGraded
<1>4. Green(A \union B \union C \union D) <=> Green(A) /\ Green(B) /\ Green(C) /\ Green(D)
  BY DEF Green
<1> QED
  BY <1>1, <1>2, <1>3, <1>4

LEMMA VerdictTells ==
  ASSUME NEW s, NEW k, NEW C, Graded(C), NEW valid \in BOOLEAN, NEW e,
         e = SelfJudged(Envelope(s, k, C), valid)
  PROVE  /\ e.scope = s
         /\ e.verdict = "pass" <=> valid /\ Green(C)
         /\ e.verdict = "fail" <=> ~(valid /\ Green(C))
<1> DEFINE f == Envelope(s, k, C)
           failing == With(C, "fail")
<1>1. IsFiniteSet(failing) /\ (failing = {} <=> Green(C))
  BY FS_Subset DEF With, Graded, Green
<1>2. Cardinality(failing) \in Nat /\ (Cardinality(failing) = 0 <=> failing = {})
  BY <1>1, FS_CardinalityType, FS_EmptySet
<1>3. Summary(C).failed = Cardinality(failing)
  BY DEF Summary
<1> HIDE DEF failing
<1>4. f.scope = s /\ f.verdict = (IF Summary(C).failed > 0 THEN "fail" ELSE "pass")
      /\ DOMAIN f = {"scope", "ranAt", "verdict", "summary", "progress"}
  BY DEF Envelope
<1>5. f.verdict = IF Green(C) THEN "pass" ELSE "fail"
  BY <1>1, <1>2, <1>3, <1>4
<1>6. CASE valid
  BY <1>4, <1>5, <1>6 DEF SelfJudged
<1>7. CASE ~valid
  <2>1. e.scope = f.scope /\ e.verdict = "fail"
    <3> HIDE DEF f
    <3>1. e = [f EXCEPT !.summary.checks = @ + 1, !.summary.failed = @ + 1, !.verdict = "fail"]
      BY <1>7 DEF SelfJudged, f
    <3> QED
      BY <1>4, <3>1
  <2> QED
    BY <1>4, <1>7, <2>1
<1> QED
  BY <1>6, <1>7

LEMMA AllGraded ==
  ASSUME NEW S, IsFiniteSet(S), NEW f, \A s \in S : Graded(f[s])
  PROVE  /\ Graded(UNION {f[s] : s \in S})
         /\ Green(UNION {f[s] : s \in S}) <=> \A s \in S : Green(f[s])
<1> DEFINE g == [s \in S |-> f[s]]
           T == {f[s] : s \in S}
<1>1. IsFiniteSet(T)
  <2>1. g \in Surjection(S, T)
    BY DEF Surjection
  <2> QED
    BY <2>1, FS_Surjection
<1>2. \A C \in T : IsFiniteSet(C) /\ \A c \in C : c.status \in {"pass", "fail"}
  BY DEF Graded
<1>3. IsFiniteSet(UNION T)
  BY <1>1, <1>2, FS_UNION
<1>4. \A c \in UNION T : c.status \in {"pass", "fail"}
  BY <1>2
<1> QED
  BY <1>3, <1>4 DEF Graded, Green

LEMMA SlotsFinite ==
  ASSUME NEW v, IsFiniteSet(DOMAIN v.files), NEW f
  PROVE  IsFiniteSet(Slots(v, f))
BY FS_Subset DEF Slots

LEMMA EachSlotGraded ==
  ASSUME NEW id, NEW S, IsFiniteSet(S), NEW held, DOMAIN held = S,
         \A s \in S : held[s] \in BOOLEAN
  PROVE  /\ Graded(Each(id, held))
         /\ Green(Each(id, held)) <=> \A s \in S : held[s]
BY EachGraded

LEMMA DslGraded ==
  ASSUME NEW v, IsFiniteSet(DOMAIN v.files), NEW f
  PROVE  /\ Graded(DslValid(v, f))
         /\ Green(DslValid(v, f)) <=> \A s \in Slots(v, f) : v.files[s] # "invalid"
<1> DEFINE held == [s \in Slots(v, f) |-> v.files[s] # "invalid"]
<1>1. /\ IsFiniteSet(Slots(v, f)) /\ DOMAIN held = Slots(v, f)
      /\ \A s \in Slots(v, f) : held[s] \in BOOLEAN /\ (held[s] <=> v.files[s] # "invalid")
  BY SlotsFinite
<1>2. DslValid(v, f) = Each("dsl-valid", held)
  BY DEF DslValid
<1> HIDE DEF held
<1> QED
  BY <1>1, <1>2, EachSlotGraded

LEMMA EachRowGraded ==
  ASSUME NEW r, IsFiniteSet(DOMAIN r.rows), NEW f, NEW id, NEW aspects
  PROVE  /\ Graded(EachRow(r, f, id, aspects))
         /\ Green(EachRow(r, f, id, aspects)) <=> \A s \in RowsOf(r, f) : Whole(r, s, aspects)
<1> DEFINE held == [s \in RowsOf(r, f) |-> Whole(r, s, aspects)]
<1>1. /\ IsFiniteSet(RowsOf(r, f)) /\ DOMAIN held = RowsOf(r, f)
      /\ \A s \in RowsOf(r, f) : held[s] \in BOOLEAN /\ (held[s] <=> Whole(r, s, aspects))
  BY FS_Subset DEF RowsOf, Whole
<1>2. EachRow(r, f, id, aspects) = Each(id, held)
  BY DEF EachRow
<1> HIDE DEF held
<1> QED
  BY <1>1, <1>2, EachSlotGraded

\* What the opening's checks come to.
OpeningHolds(v, f) ==
  /\ Slots(v, f) # {} /\ v.bundle \notin {"absent", "stale"} /\ ~Malformed(v, {f})
  /\ v.parts.results # Torn /\ v.parts.results # NoPart
  /\ Slots(v, f) \subseteq RowsOf(v.parts.results, f)

LEMMA OpeningGraded ==
  ASSUME NEW v, NEW f, NEW valid, NEW judged, Graded(valid), Graded(judged)
  PROVE  /\ Graded(Opening(v, f, valid, judged))
         /\ Green(Opening(v, f, valid, judged)) <=>
              OpeningHolds(v, f) /\ Green(valid) /\ Green(judged)
<1> DEFINE C == Opening(v, f, valid, judged)
           covered == Covered(v, v.parts.results, f)
           inner == IF v.parts.results = NoPart THEN Fail("results-present")
                    ELSE covered \union judged
           opened == One("present", TRUE) \union valid
           outer == opened \union inner
<1>1. C = IF Slots(v, f) = {} THEN Fail("present")
          ELSE IF v.bundle = "absent" THEN Thrown
          ELSE IF v.bundle = "stale" THEN Fail("schema-present")
          ELSE IF Malformed(v, {f}) \/ v.parts.results = Torn THEN Thrown
          ELSE outer
  BY DEF Opening
<1>2. /\ Graded(covered)
      /\ Green(covered) <=> Slots(v, f) \subseteq RowsOf(v.parts.results, f)
  BY AtGraded DEF Covered
<1> HIDE DEF covered
<1>3. /\ Graded(inner)
      /\ Green(inner) <=> v.parts.results # NoPart /\ Green(covered) /\ Green(judged)
  BY <1>2, FailGraded, BothGraded
<1>4. Graded(opened) /\ (Green(opened) <=> Green(valid))
  BY OneGraded, BothGraded
<1> HIDE DEF inner, opened
<1>5. Graded(outer) /\ (Green(outer) <=> Green(valid) /\ Green(inner))
  BY <1>3, <1>4, BothGraded
<1> HIDE DEF outer, C
<1>6. /\ Graded(C)
      /\ Green(C) <=> /\ Slots(v, f) # {} /\ v.bundle \notin {"absent", "stale"}
                      /\ ~Malformed(v, {f}) /\ v.parts.results # Torn /\ Green(outer)
  BY <1>1, <1>5, FailGraded
<1> QED
  BY <1>2, <1>3, <1>5, <1>6 DEF OpeningHolds, C

-----------------------------------------------------------------------------
(* Rows and their counts.                                                  *)

LEMMA CountTells ==
  ASSUME NEW r, NEW S, IsFiniteSet(S), NEW aspects
  PROVE  /\ CountWhole(r, S, aspects) \in Nat /\ Cardinality(S) \in Nat
         /\ CountWhole(r, S, aspects) = Cardinality(S) <=> \A s \in S : Whole(r, s, aspects)
         /\ CountWhole(r, S, aspects) > 0 <=> \E s \in S : Whole(r, s, aspects)
         /\ Cardinality(S) > 0 <=> S # {}
<1> DEFINE whole == {s \in S : Whole(r, s, aspects)}
<1>1. whole \subseteq S /\ IsFiniteSet(whole)
  BY FS_Subset
<1>2. CountWhole(r, S, aspects) = Cardinality(whole)
  BY DEF CountWhole
<1>3. /\ Cardinality(whole) \in Nat /\ Cardinality(S) \in Nat
      /\ Cardinality(whole) = 0 <=> whole = {}
      /\ Cardinality(S) = 0 <=> S = {}
      /\ Cardinality(whole) = Cardinality(S) <=> whole = S
  BY <1>1, FS_CardinalityType, FS_EmptySet, FS_Subset
<1>4. whole = S <=> \A s \in S : Whole(r, s, aspects)
  OBVIOUS
<1>5. whole = {} <=> ~\E s \in S : Whole(r, s, aspects)
  OBVIOUS
<1> HIDE DEF whole
<1> QED
  BY <1>2, <1>3, <1>4, <1>5

\* What a producer that runs one family leaves of it in its rows.
Ran(o, s, all, expectation, aspects) ==
  /\ aspects \subseteq all /\ o.program \notin aspects
  /\ o.files[s] = "differs" => expectation \notin aspects

LEMMA RowTells ==
  ASSUME NEW o, NEW s, NEW all, NEW expectation, NEW aspects
  PROVE  aspects \subseteq Row(o, s, all, expectation)
           <=> Ran(o, s, all, expectation, aspects)
BY DEF Row, Ran

Rows(r, o, f, all, expectation) ==
  /\ DOMAIN r.rows = Slots(o, f) /\ RowsOf(r, f) = Slots(o, f)
  /\ IsFiniteSet(Slots(o, f))
  /\ \A s \in Slots(o, f) : r.rows[s] = Row(o, s, all, expectation)
  /\ \A s \in Slots(o, f) : \A aspects :
       Whole(r, s, aspects) <=> Ran(o, s, all, expectation, aspects)

LEMMA RowsForTells ==
  ASSUME NEW o, IsFiniteSet(DOMAIN o.files), NEW f, NEW all, NEW expectation, NEW r,
         r.rows = RowsFor(o, {f}, all, expectation)
  PROVE  Rows(r, o, f, all, expectation)
<1>1. OfFamilies(o, {f}) = Slots(o, f)
  BY DEF OfFamilies, Slots
<1>2. r.rows = [s \in Slots(o, f) |-> Row(o, s, all, expectation)]
  BY <1>1 DEF RowsFor
<1>3. IsFiniteSet(Slots(o, f)) /\ \A s \in Slots(o, f) : s[1] = f
  BY SlotsFinite DEF Slots
<1>4. DOMAIN r.rows = Slots(o, f) /\ RowsOf(r, f) = Slots(o, f)
  BY <1>2, <1>3 DEF RowsOf
<1>5. ASSUME NEW s \in Slots(o, f), NEW aspects
      PROVE  Whole(r, s, aspects) <=> Ran(o, s, all, expectation, aspects)
  BY <1>2, RowTells DEF Whole
<1> QED
  BY <1>2, <1>3, <1>4, <1>5 DEF Rows

-----------------------------------------------------------------------------
(* The scope flow-layer.                                                   *)

LEMMA FlowLayerTells ==
  ASSUME NEW v, IsFiniteSet(DOMAIN v.files), NEW o, IsFiniteSet(DOMAIN o.files),
         v.parts.results = ConformanceResults(o)
  PROVE  /\ Graded(FlowLayer(v))
         /\ RowsOf(v.parts.results, "vector") = Slots(o, "vector")
         /\ Green(FlowLayer(v)) <=>
              /\ OpeningHolds(v, "vector") /\ o.program # "sdk"
              /\ \A s \in Slots(v, "vector") : v.files[s] # "invalid"
              /\ \A s \in Slots(o, "vector") : /\ o.program \notin FlowAspects
                                               /\ o.files[s] # "differs"
<1> DEFINE r == v.parts.results
           V == Slots(o, "vector")
           rows == RowsFor(o, {"vector"}, FlowAspects, "events")
           bare == [rows |-> rows]
           whole(s, aspects) == Ran(o, s, FlowAspects, "events", aspects)
<1>1. /\ r.rows = rows /\ r.sdk = (o.program # "sdk")
      /\ r.vectorsGreen = CountWhole(bare, DOMAIN rows, FlowOracle)
      /\ r.delegationGreen = CountWhole(bare, Delegating(DOMAIN rows), FlowOracle)
      /\ r.delegationTotal = Cardinality(Delegating(DOMAIN rows))
      /\ r.determinismClean = \A s \in DOMAIN rows : "replay" \in rows[s]
  BY DEF ConformanceResults
<1>2. /\ DOMAIN rows = V /\ RowsOf(r, "vector") = V /\ IsFiniteSet(V)
      /\ \A s \in V : \A aspects : Whole(r, s, aspects) <=> whole(s, aspects)
      /\ \A s \in V : \A aspects : Whole(bare, s, aspects) <=> whole(s, aspects)
      /\ \A s \in V : rows[s] = Row(o, s, FlowAspects, "events")
  <2>1. bare.rows = rows /\ r.rows = rows
    BY <1>1
  <2> HIDE DEF bare, r
  <2>2. /\ Rows(r, o, "vector", FlowAspects, "events")
        /\ Rows(bare, o, "vector", FlowAspects, "events")
    BY <2>1, RowsForTells
  <2> QED
    BY <2>1, <2>2 DEF Rows
<1> HIDE DEF bare, rows, r
<1> DEFINE D == Delegating(V)
<1>3. D \subseteq V /\ IsFiniteSet(D)
  BY <1>2, FS_Subset DEF Delegating
<1> HIDE DEF V, D
<1> DEFINE c1 == One("sdk-pinned", r.sdk)
           c2 == EachRow(r, "vector", "vector", FlowOracle)
           c3 == EachRow(r, "vector", "case-id", {"caseId"})
           c4 == EachRow(r, "vector", "decisionrecord", {"chain"})
           c5 == EachRow(r, "vector", "determinism", {"replay"})
           c6 == One("vectors-green", r.vectorsGreen = Cardinality(DOMAIN r.rows))
           c7 == One("delegation-vectors-green", r.delegationGreen = r.delegationTotal)
           c8 == One("determinism-clean", r.determinismClean)
           judged == c1 \union c2 \union c3 \union c4 \union c5 \union c6 \union c7 \union c8
<1>4. Graded(c1) /\ (Green(c1) <=> o.program # "sdk")
  BY <1>1, OneGraded
<1>5. /\ Graded(c2) /\ (Green(c2) <=> \A s \in V : whole(s, FlowOracle))
      /\ Graded(c3) /\ (Green(c3) <=> \A s \in V : whole(s, {"caseId"}))
      /\ Graded(c4) /\ (Green(c4) <=> \A s \in V : whole(s, {"chain"}))
      /\ Graded(c5) /\ (Green(c5) <=> \A s \in V : whole(s, {"replay"}))
  BY <1>1, <1>2, EachRowGraded
<1>6. Graded(c6) /\ (Green(c6) <=> \A s \in V : whole(s, FlowOracle))
  <2>1. CountWhole(bare, V, FlowOracle) = Cardinality(V) <=> \A s \in V : whole(s, FlowOracle)
    BY <1>2, CountTells
  <2>2. r.vectorsGreen = Cardinality(DOMAIN r.rows) <=> \A s \in V : whole(s, FlowOracle)
    BY <1>1, <1>2, <2>1
  <2> QED
    BY <2>2, OneGraded
<1>7. Graded(c7) /\ (Green(c7) <=> \A s \in D : whole(s, FlowOracle))
  <2>1. Delegating(DOMAIN rows) = D
    BY <1>2 DEF D
  <2>2. \A s \in D : Whole(bare, s, FlowOracle) <=> whole(s, FlowOracle)
    BY <1>2, <1>3
  <2>3. CountWhole(bare, D, FlowOracle) = Cardinality(D) <=> \A s \in D : whole(s, FlowOracle)
    BY <1>3, <2>2, CountTells
  <2>4. r.delegationGreen = r.delegationTotal <=> \A s \in D : whole(s, FlowOracle)
    BY <1>1, <2>1, <2>3
  <2> QED
    BY <2>4, OneGraded
<1>8. Graded(c8) /\ (Green(c8) <=> \A s \in V : whole(s, {"replay"}))
  <2>1. ASSUME NEW s \in V PROVE "replay" \in rows[s] <=> whole(s, {"replay"})
    BY <1>2, RowTells
  <2> QED
    BY <1>1, <1>2, <2>1, OneGraded
<1> HIDE DEF c1, c2, c3, c4, c5, c6, c7, c8
<1>9. Graded(judged) /\ (Green(judged) <=>
        /\ o.program # "sdk"
        /\ \A s \in V : whole(s, FlowOracle) /\ whole(s, {"caseId"}) /\ whole(s, {"chain"})
                        /\ whole(s, {"replay"}))
  <2>1. Graded(judged) /\ (Green(judged) <=>
          /\ Green(c1) /\ Green(c2) /\ Green(c3) /\ Green(c4)
          /\ Green(c5) /\ Green(c6) /\ Green(c7) /\ Green(c8))
    <3> DEFINE some == c1 \union c2 \union c3 \union c4
               more == some \union c5 \union c6 \union c7
    <3>1. Graded(some) /\ (Green(some) <=> Green(c1) /\ Green(c2) /\ Green(c3) /\ Green(c4))
      BY <1>4, <1>5, FourGraded
    <3> HIDE DEF some
    <3>2. Graded(more) /\ (Green(more) <=> Green(some) /\ Green(c5) /\ Green(c6) /\ Green(c7))
      BY <1>5, <1>6, <1>7, <3>1, FourGraded
    <3> HIDE DEF more
    <3>3. judged = more \union c8
      BY DEF more, some
    <3> QED
      BY <1>8, <3>1, <3>2, <3>3, BothGraded
  <2> QED
    BY <1>3, <1>4, <1>5, <1>6, <1>7, <1>8, <2>1
<1>10. ASSUME NEW s \in V
       PROVE  (/\ whole(s, FlowOracle) /\ whole(s, {"caseId"}) /\ whole(s, {"chain"})
               /\ whole(s, {"replay"}))
              <=> o.program \notin FlowAspects /\ o.files[s] # "differs"
  BY DEF Ran, FlowOracle, FlowAspects
<1>11. FlowLayer(v) = Opening(v, "vector", DslValid(v, "vector"), judged)
  BY DEF FlowLayer, c1, c2, c3, c4, c5, c6, c7, c8, r
<1> HIDE DEF judged
<1>12. Graded(DslValid(v, "vector")) /\ (Green(DslValid(v, "vector"))
         <=> \A s \in Slots(v, "vector") : v.files[s] # "invalid")
  BY DslGraded
<1> QED
  BY <1>2, <1>9, <1>10, <1>11, <1>12, OpeningGraded DEF r, V

-----------------------------------------------------------------------------
(* The scope decisionrecord.                                               *)

LEMMA DecisionRecordTells ==
  ASSUME NEW v, IsFiniteSet(DOMAIN v.files), NEW o, IsFiniteSet(DOMAIN o.files),
         v.parts.results = AssemblyResults(o)
  PROVE  /\ Graded(DecisionRecordScope(v))
         /\ RowsOf(v.parts.results, "case") = Slots(o, "case")
         /\ Green(DecisionRecordScope(v)) <=>
              /\ OpeningHolds(v, "case") /\ <<"case", "gap">> \in Slots(o, "case")
              /\ \A s \in Slots(v, "case") : v.files[s] # "invalid"
              /\ \A s \in Slots(o, "case") : /\ o.program \notin CaseOracle \union {"caseId"}
                                             /\ o.files[s] # "differs"
<1> DEFINE r == v.parts.results
           V == Slots(o, "case")
           all == CaseOracle \union {"caseId"}
           rows == RowsFor(o, {"case"}, all, "orphans")
           bare == [rows |-> rows]
           whole(s, aspects) == Ran(o, s, all, "orphans", aspects)
<1>1. r.rows = rows /\ r.casesGreen = CountWhole(bare, DOMAIN rows, CaseOracle)
  BY DEF AssemblyResults
<1>2. /\ DOMAIN rows = V /\ RowsOf(r, "case") = V /\ IsFiniteSet(V)
      /\ \A s \in V : \A aspects : Whole(r, s, aspects) <=> whole(s, aspects)
      /\ \A s \in V : \A aspects : Whole(bare, s, aspects) <=> whole(s, aspects)
  <2>1. bare.rows = rows /\ r.rows = rows
    BY <1>1
  <2> HIDE DEF bare, r, all
  <2>2. Rows(r, o, "case", all, "orphans") /\ Rows(bare, o, "case", all, "orphans")
    BY <2>1, RowsForTells
  <2> QED
    BY <2>1, <2>2 DEF Rows
<1> HIDE DEF bare, rows, r, V
<1> DEFINE c1 == EachRow(r, "case", "case-id", {"caseId"})
           c2 == EachRow(r, "case", "assembled", CaseOracle)
           c3 == One("cases-green", r.casesGreen = Cardinality(DOMAIN r.rows))
           c4 == One("detector-exercised", <<"case", "gap">> \in DOMAIN r.rows)
           judged == c1 \union c2 \union c3 \union c4
<1>3. /\ Graded(c1) /\ (Green(c1) <=> \A s \in V : whole(s, {"caseId"}))
      /\ Graded(c2) /\ (Green(c2) <=> \A s \in V : whole(s, CaseOracle))
  BY <1>1, <1>2, EachRowGraded
<1>4. Graded(c3) /\ (Green(c3) <=> \A s \in V : whole(s, CaseOracle))
  <2>1. CountWhole(bare, V, CaseOracle) = Cardinality(V) <=> \A s \in V : whole(s, CaseOracle)
    BY <1>2, CountTells
  <2>2. r.casesGreen = Cardinality(DOMAIN r.rows) <=> \A s \in V : whole(s, CaseOracle)
    BY <1>1, <1>2, <2>1
  <2> QED
    BY <2>2, OneGraded
<1>5. Graded(c4) /\ (Green(c4) <=> <<"case", "gap">> \in V)
  <2> DEFINE held == <<"case", "gap">> \in DOMAIN r.rows
  <2>1. held \in BOOLEAN /\ (held <=> <<"case", "gap">> \in V)
    BY <1>1, <1>2
  <2> HIDE DEF held
  <2>2. Graded(One("detector-exercised", held))
          /\ (Green(One("detector-exercised", held)) <=> held)
    BY <2>1, OneGraded
  <2> QED
    BY <2>1, <2>2 DEF held
<1>6. DecisionRecordScope(v) = Opening(v, "case", DslValid(v, "case"), judged)
  BY DEF DecisionRecordScope, r
<1> HIDE DEF c1, c2, c3, c4
<1>7. Graded(judged) /\ (Green(judged) <=> Green(c1) /\ Green(c2) /\ Green(c3) /\ Green(c4))
  BY <1>3, <1>4, <1>5, FourGraded
<1> HIDE DEF judged
<1>8. ASSUME NEW s \in V
      PROVE  whole(s, {"caseId"}) /\ whole(s, CaseOracle)
               <=> o.program \notin CaseOracle \union {"caseId"} /\ o.files[s] # "differs"
  BY DEF Ran, CaseOracle
<1>9. Graded(DslValid(v, "case")) /\ (Green(DslValid(v, "case"))
        <=> \A s \in Slots(v, "case") : v.files[s] # "invalid")
  BY DslGraded
<1> HIDE DEF whole
<1>10. Green(judged) <=> /\ <<"case", "gap">> \in V
                         /\ \A s \in V : /\ o.program \notin CaseOracle \union {"caseId"}
                                         /\ o.files[s] # "differs"
  BY <1>3, <1>4, <1>5, <1>7, <1>8
<1> QED
  BY <1>2, <1>6, <1>7, <1>9, <1>10, OpeningGraded DEF r, V

-----------------------------------------------------------------------------
(* The scope entity-store.                                                 *)

LEMMA EntityStoreTells ==
  ASSUME NEW v, IsFiniteSet(DOMAIN v.files), NEW o, IsFiniteSet(DOMAIN o.files),
         v.parts.results = EntityStoreResults(o)
  PROVE  /\ Graded(EntityStoreScope(v))
         /\ RowsOf(v.parts.results, "vector") = Slots(o, "vector")
         /\ Green(EntityStoreScope(v)) <=>
              /\ OpeningHolds(v, "vector") /\ Slots(o, "vector") # {}
              /\ \A s \in Slots(v, "vector") : v.files[s] \notin {"invalid", "misfit"}
              /\ \A s \in Slots(o, "vector") : /\ o.program \notin StoreOracle
                                               /\ o.files[s] # "differs"
<1> DEFINE r == v.parts.results
           V == Slots(o, "vector")
           rows == RowsFor(o, {"vector"}, StoreOracle, "audit")
           bare == [rows |-> rows]
           whole(s, aspects) == Ran(o, s, StoreOracle, "audit", aspects)
<1>1. /\ r.rows = rows /\ r.vectorsGreen = CountWhole(bare, DOMAIN rows, StoreOracle)
      /\ r.total = Cardinality(DOMAIN rows) /\ r.outboxTotal = Cardinality(DOMAIN rows)
      /\ r.outboxDelivered = CountWhole(bare, DOMAIN rows, {"delivered"})
  BY DEF EntityStoreResults
<1>2. /\ DOMAIN rows = V /\ RowsOf(r, "vector") = V /\ IsFiniteSet(V)
      /\ \A s \in V : \A aspects : Whole(r, s, aspects) <=> whole(s, aspects)
      /\ \A s \in V : \A aspects : Whole(bare, s, aspects) <=> whole(s, aspects)
  <2>1. bare.rows = rows /\ r.rows = rows
    BY <1>1
  <2> HIDE DEF bare, r
  <2>2. Rows(r, o, "vector", StoreOracle, "audit") /\ Rows(bare, o, "vector", StoreOracle, "audit")
    BY <2>1, RowsForTells
  <2> QED
    BY <2>1, <2>2 DEF Rows
<1> HIDE DEF bare, rows, r, V
<1> DEFINE c1 == EachRow(r, "vector", "round-trip", StoreOracle)
           c2 == One("vectors-green", r.vectorsGreen = r.total)
           c3 == One("outbox-delivered", r.outboxDelivered = r.outboxTotal /\ r.outboxTotal > 0)
           judged == c1 \union c2 \union c3
           fits == [s \in Slots(v, "vector") |-> v.files[s] # "misfit"]
           d1 == DslValid(v, "vector")
           d2 == Each("entity-valid", fits)
           valid == d1 \union d2
<1>3. Graded(c1) /\ (Green(c1) <=> \A s \in V : whole(s, StoreOracle))
  BY <1>1, <1>2, EachRowGraded
<1>4. Graded(c2) /\ (Green(c2) <=> \A s \in V : whole(s, StoreOracle))
  <2>1. CountWhole(bare, V, StoreOracle) = Cardinality(V) <=> \A s \in V : whole(s, StoreOracle)
    BY <1>2, CountTells
  <2>2. r.vectorsGreen = r.total <=> \A s \in V : whole(s, StoreOracle)
    BY <1>1, <1>2, <2>1
  <2> QED
    BY <2>2, OneGraded
<1>5. Graded(c3) /\ (Green(c3) <=> V # {} /\ \A s \in V : whole(s, {"delivered"}))
  <2>1. /\ CountWhole(bare, V, {"delivered"}) = Cardinality(V)
             <=> \A s \in V : whole(s, {"delivered"})
        /\ Cardinality(V) > 0 <=> V # {}
    BY <1>2, CountTells
  <2>2. r.outboxDelivered = r.outboxTotal /\ r.outboxTotal > 0
          <=> V # {} /\ \A s \in V : whole(s, {"delivered"})
    BY <1>1, <1>2, <2>1
  <2> QED
    BY <2>2, OneGraded
<1>6. EntityStoreScope(v) = Opening(v, "vector", valid, judged)
  BY DEF EntityStoreScope, r
<1>7. Graded(d1) /\ (Green(d1) <=> \A s \in Slots(v, "vector") : v.files[s] # "invalid")
  BY DslGraded
<1>8. Graded(d2) /\ (Green(d2) <=> \A s \in Slots(v, "vector") : v.files[s] # "misfit")
  <2>1. /\ DOMAIN fits = Slots(v, "vector") /\ IsFiniteSet(DOMAIN fits)
        /\ \A s \in DOMAIN fits : fits[s] \in BOOLEAN /\ (fits[s] <=> v.files[s] # "misfit")
    BY SlotsFinite
  <2> HIDE DEF fits
  <2> QED
    BY <2>1, EachGraded
<1> HIDE DEF c1, c2, c3, d1, d2
<1>9. Graded(judged) /\ (Green(judged) <=> Green(c1) /\ Green(c2) /\ Green(c3))
  BY <1>3, <1>4, <1>5, BothGraded
<1>10. Graded(valid) /\ (Green(valid) <=> Green(d1) /\ Green(d2))
  BY <1>7, <1>8, BothGraded
<1> HIDE DEF judged, valid
<1>11. ASSUME NEW s \in V
       PROVE  whole(s, StoreOracle) /\ whole(s, {"delivered"})
                <=> o.program \notin StoreOracle /\ o.files[s] # "differs"
  BY DEF Ran, StoreOracle
<1> HIDE DEF whole
<1>12. Green(judged) <=> V # {} /\ \A s \in V : /\ o.program \notin StoreOracle
                                                /\ o.files[s] # "differs"
  BY <1>3, <1>4, <1>5, <1>9, <1>11
<1> QED
  BY <1>2, <1>6, <1>7, <1>8, <1>9, <1>10, <1>12, OpeningGraded DEF r, V

-----------------------------------------------------------------------------
(* The scope entity-api.                                                   *)

LEMMA EntityApiTells ==
  ASSUME NEW v, IsFiniteSet(DOMAIN v.files), NEW o, IsFiniteSet(DOMAIN o.files),
         v.parts.results = ApiResults(o)
  PROVE  /\ Graded(EntityApi(v))
         /\ RowsOf(v.parts.results, "vector") = Slots(o, "vector")
         /\ Green(EntityApi(v)) <=>
              /\ OpeningHolds(v, "vector") /\ o.program # "undeclared"
              /\ \E s \in Slots(o, "vector") : s[2] = "full"
              /\ \A s \in Slots(v, "vector") : v.files[s] # "invalid"
              /\ \A s \in Slots(o, "vector") : /\ o.program \notin ApiOracle
                                               /\ o.files[s] # "differs"
<1> DEFINE r == v.parts.results
           V == Slots(o, "vector")
           rows == RowsFor(o, {"vector"}, ApiOracle, "expected")
           bare == [rows |-> rows]
           whole(s, aspects) == Ran(o, s, ApiOracle, "expected", aspects)
           fullOf(D) == {s \in D : s[2] = "full"}
           full == fullOf(V)
           exercised(D) == UNION {Exercises(s) : s \in D}
           declared == {"write", "read", "delete", "Verify_status"}
                       \union (IF o.program = "undeclared" THEN {"new"} ELSE {})
<1>1. /\ r.rows = rows /\ r.vectorsGreen = CountWhole(bare, DOMAIN rows, ApiOracle)
      /\ r.total = Cardinality(DOMAIN rows) /\ r.operationsCovered = exercised(DOMAIN rows)
      /\ r.operationsDeclared = declared
      /\ r.boundaryRejections = CountWhole(bare, fullOf(DOMAIN rows), {"rejects"})
  BY DEF ApiResults
<1>2. /\ DOMAIN rows = V /\ RowsOf(r, "vector") = V /\ IsFiniteSet(V)
      /\ \A s \in V : \A aspects : Whole(r, s, aspects) <=> whole(s, aspects)
      /\ \A s \in V : \A aspects : Whole(bare, s, aspects) <=> whole(s, aspects)
  <2>1. bare.rows = rows /\ r.rows = rows
    BY <1>1
  <2> HIDE DEF bare, r
  <2>2. Rows(r, o, "vector", ApiOracle, "expected") /\ Rows(bare, o, "vector", ApiOracle, "expected")
    BY <2>1, RowsForTells
  <2> QED
    BY <2>1, <2>2 DEF Rows
<1>3. full \subseteq V /\ IsFiniteSet(full) /\ fullOf(DOMAIN rows) = full
  <2> HIDE DEF V, rows
  <2> QED
    BY <1>2, FS_Subset
<1>4. declared \ {"Verify_status"} \subseteq exercised(V) <=> o.program # "undeclared" /\ full # {}
  <2>1. "write" \in exercised(V) <=> full # {}
    BY DEF Exercises
  <2>2. "new" \notin exercised(V)
    BY DEF Exercises
  <2>3. full # {} => {"write", "read", "delete"} \subseteq exercised(V)
    BY DEF Exercises
  <2> HIDE DEF full, exercised
  <2> QED
    BY <2>1, <2>2, <2>3
<1>5. full # {} <=> \E s \in V : s[2] = "full"
  OBVIOUS
<1> HIDE DEF bare, rows, r, V, full, fullOf, exercised, declared
<1> DEFINE c1 == EachRow(r, "vector", "conforms", ApiOracle)
           c2 == One("operations-covered",
                     r.operationsDeclared \ {"Verify_status"} \subseteq r.operationsCovered)
           c3 == One("boundary-rejects", r.boundaryRejections > 0)
           c4 == One("vectors-green", r.vectorsGreen = r.total /\ r.total > 0)
           judged == c1 \union c2 \union c3 \union c4
<1>6. Graded(c1) /\ (Green(c1) <=> \A s \in V : whole(s, ApiOracle))
  BY <1>1, <1>2, EachRowGraded
<1>7. Graded(c2) /\ (Green(c2) <=> o.program # "undeclared" /\ full # {})
  <2>1. r.operationsDeclared \ {"Verify_status"} \subseteq r.operationsCovered
          <=> o.program # "undeclared" /\ full # {}
    BY <1>1, <1>2, <1>4
  <2> QED
    BY <2>1, OneGraded
<1>8. Graded(c3) /\ (Green(c3) <=> \E s \in full : whole(s, {"rejects"}))
  <2>1. \A s \in full : Whole(bare, s, {"rejects"}) <=> whole(s, {"rejects"})
    BY <1>2, <1>3
  <2>2. CountWhole(bare, full, {"rejects"}) > 0 <=> \E s \in full : whole(s, {"rejects"})
    BY <1>3, <2>1, CountTells
  <2>3. r.boundaryRejections > 0 <=> \E s \in full : whole(s, {"rejects"})
    BY <1>1, <1>3, <2>2
  <2> DEFINE held == r.boundaryRejections > 0
  <2>4. held \in BOOLEAN
    OBVIOUS
  <2> HIDE DEF held
  <2>5. Graded(One("boundary-rejects", held)) /\ (Green(One("boundary-rejects", held)) <=> held)
    BY <2>4, OneGraded
  <2> QED
    BY <2>3, <2>5 DEF held
<1>9. Graded(c4) /\ (Green(c4) <=> V # {} /\ \A s \in V : whole(s, ApiOracle))
  <2>1. /\ CountWhole(bare, V, ApiOracle) = Cardinality(V) <=> \A s \in V : whole(s, ApiOracle)
        /\ Cardinality(V) > 0 <=> V # {}
    BY <1>2, CountTells
  <2>2. r.vectorsGreen = r.total /\ r.total > 0 <=> V # {} /\ \A s \in V : whole(s, ApiOracle)
    BY <1>1, <1>2, <2>1
  <2> QED
    BY <2>2, OneGraded
<1>10. EntityApi(v) = Opening(v, "vector", DslValid(v, "vector"), judged)
  BY DEF EntityApi, r
<1> HIDE DEF c1, c2, c3, c4
<1>11. Graded(judged) /\ (Green(judged) <=> Green(c1) /\ Green(c2) /\ Green(c3) /\ Green(c4))
  BY <1>6, <1>7, <1>8, <1>9, FourGraded
<1> HIDE DEF judged
<1>12. ASSUME NEW s \in V
       PROVE  /\ whole(s, ApiOracle) <=> o.program \notin ApiOracle /\ o.files[s] # "differs"
              /\ whole(s, ApiOracle) => whole(s, {"rejects"})
  BY DEF Ran, ApiOracle
<1>13. Graded(DslValid(v, "vector")) /\ (Green(DslValid(v, "vector"))
         <=> \A s \in Slots(v, "vector") : v.files[s] # "invalid")
  BY DslGraded
<1> HIDE DEF whole
<1>14. Green(judged) <=> /\ o.program # "undeclared" /\ full # {}
                         /\ \A s \in V : /\ o.program \notin ApiOracle
                                         /\ o.files[s] # "differs"
  BY <1>3, <1>6, <1>7, <1>8, <1>9, <1>11, <1>12
<1> QED
  BY <1>2, <1>5, <1>10, <1>11, <1>13, <1>14, OpeningGraded DEF r, V

-----------------------------------------------------------------------------
(* The corpora.                                                            *)

LEMMA CorpusTells ==
  ASSUME NEW v, IsFiniteSet(DOMAIN v.files), NEW o, v.parts.results = NetworkntResults(o)
  PROVE  /\ Graded(CrossLanguage(v))
         /\ Green(CrossLanguage(v)) <=>
              /\ ~Malformed(v, {"vector"}) /\ v.bundle # "absent"
              /\ v.parts.results \notin {Torn, NoPart}
              /\ \A s \in Slots(v, "vector") :
                   /\ v.bundle # "stale" /\ v.files[s] # "differs" /\ s \in Slots(o, "vector")
                   /\ o.files[s] # "hard" /\ o.program # "networknt"
<1> DEFINE V == Slots(v, "vector")
           r == v.parts.results
           jvm(s) == IF s \in DOMAIN r THEN r[s] ELSE "missing"
           h1 == [s \in V |-> AjvSays(v, s) = Expected(v, s)]
           h2 == [s \in V |-> jvm(s) = Expected(v, s)]
           h3 == [s \in V |-> jvm(s) = AjvSays(v, s)]
           c1 == Each("ts", h1)
           c2 == Each("jvm", h2)
           c3 == Each("agree", h3)
           d == Fail("jvm-results-present")
<1>1. IsFiniteSet(V)
  BY SlotsFinite
<1>2. CrossLanguage(v) = IF Malformed(v, {"vector"}) \/ v.bundle = "absent" \/ r = Torn THEN Thrown
                         ELSE IF r = NoPart THEN c1 \union d
                         ELSE c1 \union c2 \union c3
  BY DEF CrossLanguage
<1>3. ASSUME NEW s \in V
      PROVE  (AjvSays(v, s) = Expected(v, s) /\ jvm(s) = Expected(v, s) /\ jvm(s) = AjvSays(v, s))
             <=> /\ v.bundle # "stale" /\ v.files[s] # "differs" /\ s \in Slots(o, "vector")
                 /\ o.files[s] # "hard" /\ o.program # "networknt"
  <2>1. jvm(s) = IF s \notin Slots(o, "vector") THEN "missing"
                 ELSE IF o.files[s] = "hard" \/ o.program = "networknt" THEN "reject" ELSE "accept"
    BY DEF NetworkntResults
  <2> HIDE DEF jvm
  <2> QED
    BY <2>1 DEF AjvSays, Expected
<1> HIDE DEF jvm
<1>4. Graded(c1) /\ (Green(c1) <=> \A s \in V : AjvSays(v, s) = Expected(v, s))
  <2>1. DOMAIN h1 = V /\ \A s \in V : h1[s] \in BOOLEAN /\ (h1[s] <=> AjvSays(v, s) = Expected(v, s))
    OBVIOUS
  <2> HIDE DEF h1, V
  <2> QED
    BY <1>1, <2>1, EachSlotGraded
<1>5. Graded(c2) /\ (Green(c2) <=> \A s \in V : jvm(s) = Expected(v, s))
  <2>1. DOMAIN h2 = V /\ \A s \in V : h2[s] \in BOOLEAN /\ (h2[s] <=> jvm(s) = Expected(v, s))
    OBVIOUS
  <2> HIDE DEF h2, V
  <2> QED
    BY <1>1, <2>1, EachSlotGraded
<1>6. Graded(c3) /\ (Green(c3) <=> \A s \in V : jvm(s) = AjvSays(v, s))
  <2>1. DOMAIN h3 = V /\ \A s \in V : h3[s] \in BOOLEAN /\ (h3[s] <=> jvm(s) = AjvSays(v, s))
    OBVIOUS
  <2> HIDE DEF h3, V
  <2> QED
    BY <1>1, <2>1, EachSlotGraded
<1> HIDE DEF c1, c2, c3, d, r
<1>7. /\ Graded(c1 \union c2 \union c3)
      /\ Green(c1 \union c2 \union c3) <=> Green(c1) /\ Green(c2) /\ Green(c3)
  BY <1>4, <1>5, <1>6, BothGraded
<1>8. Graded(c1 \union d) /\ ~Green(c1 \union d)
  <2>1. Graded(d) /\ ~Green(d)
    BY FailGraded DEF d
  <2> QED
    BY <1>4, <2>1, BothGraded
<1>9. Graded(Thrown) /\ ~Green(Thrown)
  BY FailGraded
<1> HIDE DEF V
<1>10. /\ Graded(CrossLanguage(v))
       /\ Green(CrossLanguage(v)) <=>
            /\ ~Malformed(v, {"vector"}) /\ v.bundle # "absent" /\ r \notin {Torn, NoPart}
            /\ Green(c1) /\ Green(c2) /\ Green(c3)
  <2> DEFINE some == c1 \union c2 \union c3
             none == c1 \union d
  <2> HIDE DEF some, none
  <2>1. CrossLanguage(v) = IF Malformed(v, {"vector"}) \/ v.bundle = "absent" \/ r = Torn THEN Thrown
                           ELSE IF r = NoPart THEN none ELSE some
    BY <1>2 DEF some, none
  <2>2. /\ Graded(some) /\ (Green(some) <=> Green(c1) /\ Green(c2) /\ Green(c3))
        /\ Graded(none) /\ ~Green(none)
    BY <1>7, <1>8 DEF some, none
  <2> QED
    BY <1>9, <2>1, <2>2
<1> QED
  BY <1>3, <1>4, <1>5, <1>6, <1>10 DEF V, r

-----------------------------------------------------------------------------
(* The scope authz.                                                        *)

LEMMA AuthzVectorsFinite ==
  ASSUME NEW v, IsFiniteSet(DOMAIN v.files)
  PROVE  /\ IsFiniteSet(AuthzVectors(v))
         /\ \A s \in AuthzVectors(v) : s \in DOMAIN v.files /\ s[1] \in Surfaces
<1>1. AuthzVectors(v) \subseteq DOMAIN v.files
  BY DEF AuthzVectors, OfFamilies, Slots
<1>2. IsFiniteSet(AuthzVectors(v))
  BY <1>1, FS_Subset
<1>3. \A s \in AuthzVectors(v) : s[1] \in Surfaces
  BY DEF AuthzVectors, OfFamilies, Slots
<1> QED
  BY <1>1, <1>2, <1>3

\* Both surfaces together ask for every relation.
LEMMA RelationsTold ==
  ASSUME NEW S, \A s \in S : s[1] \in Surfaces
  PROVE  RequiredRelations \subseteq UNION {RelationsOf[s[1]] : s \in S}
           <=> \A f \in Surfaces : \E s \in S : s[1] = f
<1>1. \A f : f \in Surfaces <=> f = "design-time" \/ f = "runtime"
  BY DEF Surfaces
<1>2. /\ RelationsOf["design-time"] = {"can_view", "can_edit", "can_approve"}
      /\ RelationsOf["runtime"] = {"can_view", "can_modify"}
  BY DEF RelationsOf, Surfaces
<1>3. "can_edit" \in UNION {RelationsOf[s[1]] : s \in S} <=> \E s \in S : s[1] = "design-time"
  BY <1>1, <1>2
<1>4. "can_modify" \in UNION {RelationsOf[s[1]] : s \in S} <=> \E s \in S : s[1] = "runtime"
  BY <1>1, <1>2
<1>5. ASSUME NEW s \in S, NEW t \in S, s[1] = "design-time", t[1] = "runtime"
      PROVE  RequiredRelations \subseteq UNION {RelationsOf[x[1]] : x \in S}
  BY <1>2, <1>5 DEF RequiredRelations
<1>6. "can_edit" \in RequiredRelations /\ "can_modify" \in RequiredRelations
  BY DEF RequiredRelations
<1> QED
  BY <1>1, <1>3, <1>4, <1>5, <1>6

LEMMA AuthzTells ==
  ASSUME NEW v, IsFiniteSet(DOMAIN v.files), NEW o, IsFiniteSet(DOMAIN o.files),
         v.parts.results = AuthzResults(o)
  PROVE  /\ Graded(AuthzScope(v))
         /\ Green(AuthzScope(v)) <=>
              /\ Slots(v, "model") # {} /\ \A f \in Surfaces : Slots(v, f) # {}
              /\ v.bundle \notin {"absent", "stale"} /\ ~Malformed(v, Surfaces \union {"model"})
              /\ v.parts.results \notin {Torn, NoPart}
              /\ \A s \in Slots(v, "model") : v.files[s] # "invalid"
              /\ \A s \in AuthzVectors(v) : v.files[s] \notin {"notArray", "invalid"}
              /\ AuthzVectors(v) \subseteq AuthzVectors(o)
              /\ \A f \in Surfaces : Slots(o, f) # {}
              /\ o.program \notin {"decision", "parity", "logMissing", "logShape"}
              /\ \A s \in AuthzVectors(o) : o.files[s] # "differs"
<1> DEFINE r == v.parts.results
           V == AuthzVectors(v)
           O == AuthzVectors(o)
           A == {s \in V : v.files[s] # "notArray"}
           all == {"decision", "parity"}
           rows == RowsFor(o, Surfaces, all, "decision")
           bare == [rows |-> rows]
           whole(s, aspects) == Ran(o, s, all, "decision", aspects)
           covered == [f \in Surfaces |-> Cardinality(Slots(o, f))]
<1>1. /\ r.rows = rows /\ r.vectorsGreen = CountWhole(bare, DOMAIN rows, {"decision"})
      /\ r.total = Cardinality(DOMAIN rows) /\ r.covered = covered
      /\ r.parityPass = \A s \in DOMAIN rows : "parity" \in rows[s]
      /\ r.logComplete = (o.program # "logMissing") /\ r.logValid = (o.program # "logShape")
  BY DEF AuthzResults
<1>2. /\ IsFiniteSet(V) /\ IsFiniteSet(O) /\ IsFiniteSet(A)
      /\ \A s \in A : s[1] \in Surfaces
  BY AuthzVectorsFinite, FS_Subset
<1>3. /\ DOMAIN rows = O /\ bare.rows = rows
      /\ \A s \in O : rows[s] = Row(o, s, all, "decision")
  BY DEF RowsFor, AuthzVectors, OfFamilies
<1>4. \A f \in Surfaces : covered[f] > 0 <=> Slots(o, f) # {}
  <2>1. ASSUME NEW f \in Surfaces PROVE Cardinality(Slots(o, f)) > 0 <=> Slots(o, f) # {}
    <3>1. IsFiniteSet(Slots(o, f))
      BY SlotsFinite
    <3> QED
      BY <3>1, FS_CardinalityType, FS_EmptySet
  <2> QED
    BY <2>1
<1>5. \A s \in O : \A aspects : Whole(bare, s, aspects) <=> whole(s, aspects)
  <2> HIDE DEF rows, bare
  <2> QED
    BY <1>3, RowTells DEF Whole
<1>6. DOMAIN covered = Surfaces
  OBVIOUS
<1> HIDE DEF r, rows, bare, covered, O
<1> DEFINE p1 == One("vectors-present", V # {})
           p2 == One("model-present", Slots(v, "model") # {})
           present == p1 \union p2
           array(s) == s \in A
           h1 == [s \in V |-> array(s)]
           h2 == [s \in A |-> v.files[s] # "invalid"]
           v1 == DslValid(v, "model")
           v2 == Each("vectors-array", h1)
           v3 == Each("dsl-valid", h2)
           v4 == One("relations-covered",
                     RequiredRelations \subseteq UNION {RelationsOf[s[1]] : s \in A})
           valid == v1 \union v2 \union v3 \union v4
           decided(s) == "decision" \in r.rows[s]
           h3 == [s \in DOMAIN r.rows |-> decided(s)]
           some(f) == r.covered[f] > 0
           h4 == [f \in Surfaces |-> some(f)]
           j1 == One("covered", A \subseteq DOMAIN r.rows)
           j2 == Each("decision", h3)
           j3 == Each("surface-covered", h4)
           j4 == One("decision-log-valid", r.logValid)
           j5 == One("decision-log-complete", r.logComplete)
           j6 == One("parity", r.parityPass)
           j7 == One("vectors-green", r.vectorsGreen = r.total /\ r.total > 0)
           judged == j1 \union j2 \union j3 \union j4 \union j5 \union j6 \union j7
           found == IF r = NoPart THEN Fail("results-present") ELSE judged
           outer == present \union valid \union found
<1>7. AuthzScope(v) = IF V = {} \/ Slots(v, "model") = {} THEN present
                      ELSE IF v.bundle = "absent" THEN Thrown
                      ELSE IF v.bundle = "stale" THEN Fail("schema-present")
                      ELSE IF Malformed(v, Surfaces \union {"model"}) \/ r = Torn THEN Thrown
                      ELSE outer
  BY DEF AuthzScope, r
<1>8. Graded(present) /\ (Green(present) <=> V # {} /\ Slots(v, "model") # {})
  <2>1. /\ Graded(p1) /\ (Green(p1) <=> V # {})
        /\ Graded(p2) /\ (Green(p2) <=> Slots(v, "model") # {})
    BY OneGraded
  <2> HIDE DEF p1, p2
  <2> QED
    BY <2>1, BothGraded
<1>9. Graded(v1) /\ (Green(v1) <=> \A s \in Slots(v, "model") : v.files[s] # "invalid")
  BY DslGraded
<1>10. Graded(v2) /\ (Green(v2) <=> \A s \in V : s \in A)
  <2> HIDE DEF V, A
  <2>1. DOMAIN h1 = V /\ \A s \in V : h1[s] \in BOOLEAN /\ (h1[s] <=> s \in A)
    <3>1. \A s \in V : array(s) \in BOOLEAN /\ (array(s) <=> s \in A)
      OBVIOUS
    <3> HIDE DEF array
    <3> QED
      BY <3>1
  <2> HIDE DEF h1
  <2> QED
    BY <1>2, <2>1, EachSlotGraded
<1>11. Graded(v3) /\ (Green(v3) <=> \A s \in A : v.files[s] # "invalid")
  <2>1. DOMAIN h2 = A /\ \A s \in A : h2[s] \in BOOLEAN /\ (h2[s] <=> v.files[s] # "invalid")
    OBVIOUS
  <2> HIDE DEF h2, A
  <2> QED
    BY <1>2, <2>1, EachSlotGraded
<1>12. Graded(v4) /\ (Green(v4) <=> \A f \in Surfaces : \E s \in A : s[1] = f)
  <2> HIDE DEF A
  <2>1. RequiredRelations \subseteq UNION {RelationsOf[s[1]] : s \in A}
          <=> \A f \in Surfaces : \E s \in A : s[1] = f
    BY <1>2, RelationsTold
  <2> DEFINE held == RequiredRelations \subseteq UNION {RelationsOf[s[1]] : s \in A}
  <2>2. held \in BOOLEAN
    OBVIOUS
  <2> HIDE DEF held
  <2>3. Graded(One("relations-covered", held)) /\ (Green(One("relations-covered", held)) <=> held)
    BY <2>2, OneGraded
  <2> QED
    BY <2>1, <2>3 DEF held
<1> HIDE DEF present, v1, v2, v3, v4
<1>13. Graded(valid) /\ (Green(valid) <=> Green(v1) /\ Green(v2) /\ Green(v3) /\ Green(v4))
  BY <1>9, <1>10, <1>11, <1>12, FourGraded
<1>14. Graded(j1) /\ (Green(j1) <=> A \subseteq O)
  BY <1>1, <1>3, OneGraded
<1>15. Graded(j2) /\ (Green(j2) <=> \A s \in O : whole(s, {"decision"}))
  <2>1. DOMAIN h3 = O /\ \A s \in O : h3[s] \in BOOLEAN /\ (h3[s] <=> whole(s, {"decision"}))
    <3>1. ASSUME NEW s \in O
          PROVE  decided(s) \in BOOLEAN /\ (decided(s) <=> whole(s, {"decision"}))
      BY <1>1, <1>3, RowTells
    <3> HIDE DEF decided
    <3> QED
      BY <1>1, <1>3, <3>1
  <2> HIDE DEF h3
  <2> QED
    BY <1>2, <2>1, EachSlotGraded
<1>16. Graded(j3) /\ (Green(j3) <=> \A f \in Surfaces : Slots(o, f) # {})
  <2>1. DOMAIN h4 = Surfaces /\ \A f \in Surfaces : h4[f] \in BOOLEAN /\ (h4[f] <=> Slots(o, f) # {})
    <3>1. \A f \in Surfaces : some(f) \in BOOLEAN /\ (some(f) <=> Slots(o, f) # {})
      BY <1>1, <1>4
    <3> HIDE DEF some
    <3> QED
      BY <3>1
  <2>2. IsFiniteSet(Surfaces)
    <3>1. IsFiniteSet({"design-time"}) /\ IsFiniteSet({"runtime"})
      BY FS_Singleton
    <3>2. IsFiniteSet({"design-time"} \union {"runtime"})
      BY <3>1, FS_Union
    <3>3. Surfaces = {"design-time"} \union {"runtime"}
      BY DEF Surfaces
    <3> QED
      BY <3>2, <3>3
  <2> HIDE DEF h4
  <2> QED
    BY <2>1, <2>2, EachSlotGraded
<1>17. /\ Graded(j4) /\ (Green(j4) <=> o.program # "logShape")
       /\ Graded(j5) /\ (Green(j5) <=> o.program # "logMissing")
  BY <1>1, OneGraded
<1>18. Graded(j6) /\ (Green(j6) <=> \A s \in O : whole(s, {"parity"}))
  <2>1. ASSUME NEW s \in O PROVE "parity" \in rows[s] <=> whole(s, {"parity"})
    BY <1>3, RowTells
  <2> QED
    BY <1>1, <1>3, <2>1, OneGraded
<1>19. Graded(j7) /\ (Green(j7) <=> O # {} /\ \A s \in O : whole(s, {"decision"}))
  <2>1. /\ CountWhole(bare, O, {"decision"}) = Cardinality(O) <=> \A s \in O : whole(s, {"decision"})
        /\ Cardinality(O) > 0 <=> O # {}
    BY <1>2, <1>5, CountTells
  <2>2. r.vectorsGreen = r.total /\ r.total > 0 <=> O # {} /\ \A s \in O : whole(s, {"decision"})
    BY <1>1, <1>3, <2>1
  <2> QED
    BY <2>2, OneGraded
<1> HIDE DEF j1, j2, j3, j4, j5, j6, j7, valid, A, V
<1>20. Graded(judged) /\ (Green(judged) <=> /\ Green(j1) /\ Green(j2) /\ Green(j3) /\ Green(j4)
                                            /\ Green(j5) /\ Green(j6) /\ Green(j7))
  <2> DEFINE most == j1 \union j2 \union j3 \union j4
             more == most \union j5 \union j6 \union j7
  <2>1. Graded(most) /\ (Green(most) <=> Green(j1) /\ Green(j2) /\ Green(j3) /\ Green(j4))
    BY <1>14, <1>15, <1>16, <1>17, FourGraded
  <2> HIDE DEF most
  <2>2. Graded(more) /\ (Green(more) <=> Green(most) /\ Green(j5) /\ Green(j6) /\ Green(j7))
    BY <1>17, <1>18, <1>19, <2>1, FourGraded
  <2>3. judged = more
    BY DEF most
  <2> HIDE DEF more
  <2> QED
    BY <2>1, <2>2, <2>3
<1> HIDE DEF judged
<1>21. Graded(found) /\ (Green(found) <=> r # NoPart /\ Green(judged))
  BY <1>20, FailGraded
<1> HIDE DEF found
<1>22. Graded(outer) /\ (Green(outer) <=> Green(present) /\ Green(valid) /\ Green(found))
  BY <1>8, <1>13, <1>21, BothGraded
<1> HIDE DEF outer
<1>23. /\ Graded(AuthzScope(v))
       /\ Green(AuthzScope(v)) <=>
            /\ V # {} /\ Slots(v, "model") # {} /\ v.bundle \notin {"absent", "stale"}
            /\ ~Malformed(v, Surfaces \union {"model"}) /\ r # Torn
            /\ Green(outer)
  BY <1>7, <1>8, <1>22, FailGraded
<1>24. (\A s \in O : whole(s, {"decision"}) /\ whole(s, {"parity"})) /\ O # {}
         <=> /\ O # {} /\ o.program \notin {"decision", "parity"}
             /\ \A s \in O : o.files[s] # "differs"
  BY DEF Ran
<1> HIDE DEF whole
<1>25. Green(outer) <=>
         /\ V # {} /\ Slots(v, "model") # {} /\ r # NoPart
         /\ \A s \in Slots(v, "model") : v.files[s] # "invalid"
         /\ \A s \in V : s \in A
         /\ \A s \in A : v.files[s] # "invalid"
         /\ \A f \in Surfaces : \E s \in A : s[1] = f
         /\ A \subseteq O /\ \A f \in Surfaces : Slots(o, f) # {}
         /\ o.program # "logShape" /\ o.program # "logMissing"
         /\ O # {} /\ \A s \in O : whole(s, {"decision"}) /\ whole(s, {"parity"})
  BY <1>8, <1>9, <1>10, <1>11, <1>12, <1>13, <1>14, <1>15, <1>16, <1>17, <1>18, <1>19, <1>20,
     <1>21, <1>22
<1>26. /\ (\A s \in V : s \in A) <=> \A s \in V : v.files[s] # "notArray"
       /\ A \subseteq V
  BY DEF A
<1>27. /\ (\A f \in Surfaces : \E s \in V : s[1] = f) <=> \A f \in Surfaces : Slots(v, f) # {}
       /\ (\A f \in Surfaces : Slots(v, f) # {}) => V # {}
       /\ (\A f \in Surfaces : Slots(o, f) # {}) => O # {}
  BY DEF V, O, AuthzVectors, OfFamilies, Slots, Surfaces
<1> QED
  BY <1>23, <1>24, <1>25, <1>26, <1>27 DEF V, O, r

-----------------------------------------------------------------------------
(* The scope portal: what it says of a principal or a scenario that the    *)
(* artifact does not know.                                                 *)

LEMMA InboxGraded ==
  ASSUME NEW v, NEW r, NEW s
  PROVE  /\ Graded(PortalInboxChecks(v, r, s))
         /\ Green(PortalInboxChecks(v, r, s)) => s \in DOMAIN r.rows
<1> DEFINE ids == TaskIds(r.rows[s])
           due == [i \in DOMAIN ids |-> r.rows[s][i].due]
           b1 == /\ Len(ids) = Len(ExpectedInbox(v, s))
                 /\ ToSet(ids) = ToSet(ExpectedInbox(v, s))
           b2 == /\ ids = ExpectedInbox(v, s)
                 /\ \A i \in DOMAIN due : i > 1 => due[i - 1] <= due[i]
           c0 == At("pdp-filtered", s, FALSE)
           c1 == At("pdp-filtered", s, b1)
           c2 == At("sla-ordering", s, b2)
<1>1. PortalInboxChecks(v, r, s) = IF s \notin DOMAIN r.rows THEN c0 ELSE c1 \union c2
  BY DEF PortalInboxChecks
<1>2. b1 \in BOOLEAN /\ b2 \in BOOLEAN
  OBVIOUS
<1> HIDE DEF b1, b2
<1>3. Graded(c0) /\ ~Green(c0) /\ Graded(c1) /\ Graded(c2)
  BY <1>2, AtGraded
<1> HIDE DEF c0, c1, c2
<1>4. Graded(c1 \union c2)
  BY <1>3, BothGraded
<1> QED
  BY <1>1, <1>3, <1>4

LEMMA JudgedInboxes ==
  ASSUME NEW v, IsFiniteSet(DOMAIN v.files), NEW r, r.fewer \in BOOLEAN
  PROVE  /\ Graded(PortalJudged(v, r))
         /\ Green(PortalJudged(v, r)) => /\ Slots(v, "principal") \subseteq DOMAIN r.rows
                                         /\ Slots(v, "scenario") \subseteq DOMAIN r.fields
<1> DEFINE P == Slots(v, "principal")
           S == Slots(v, "scenario")
           inbox == [s \in P |-> PortalInboxChecks(v, r, s)]
           visible == RowsShown(r, P) = RowsExpected(v, P) /\ RowsExpected(v, P) > 0
           signals == {"emitted", "conforms"}
           traces == {"valid", "nodes"}
           states == {"hidden", "read-only"}
           signalled(a) == a \in r.signal
           traced(a) == a \in r.trace
           shows(a) == Shows(r, S, a)
           met(s) == ScenarioMet(v, r, s)
           h1 == [a \in signals |-> signalled(a)]
           h2 == [a \in traces |-> traced(a)]
           h3 == [s \in S |-> met(s)]
           h4 == [state \in states |-> shows(state)]
           c1 == PortalInboxes(v, r)
           c2 == One("rows-visible", visible)
           c3 == One("cross-team-fewer", r.fewer)
           c4 == Each("signal", h1)
           c5 == Each("trace", h2)
           c6 == Each("field-states", h3)
           c7 == Each("field-present", h4)
           judged == c1 \union c2 \union c3 \union c4 \union c5 \union c6 \union c7
<1>1. PortalJudged(v, r) = judged
  BY DEF PortalJudged
<1>2. IsFiniteSet(P) /\ IsFiniteSet(S)
  BY SlotsFinite
<1> HIDE DEF P, S
<1>3. Graded(c1) /\ (Green(c1) => P \subseteq DOMAIN r.rows)
  <2>1. c1 = UNION {inbox[s] : s \in P}
    BY DEF PortalInboxes, P
  <2>2. \A s \in P : Graded(inbox[s]) /\ (Green(inbox[s]) => s \in DOMAIN r.rows)
    BY InboxGraded
  <2> HIDE DEF c1, inbox
  <2> QED
    BY <1>2, <2>1, <2>2, AllGraded
<1>4. Graded(c2) /\ Graded(c3)
  <2>1. visible \in BOOLEAN
    OBVIOUS
  <2> HIDE DEF visible
  <2> QED
    BY <2>1, OneGraded
<1>5. Graded(c4) /\ Graded(c5) /\ Graded(c7)
  <2>1. \A a : signalled(a) \in BOOLEAN /\ traced(a) \in BOOLEAN /\ shows(a) \in BOOLEAN
    BY DEF Shows
  <2>2. \A a, b : IsFiniteSet({a, b})
    <3> TAKE a, b
    <3>1. IsFiniteSet({a}) /\ IsFiniteSet({b})
      BY FS_Singleton
    <3>2. IsFiniteSet({a} \union {b})
      BY <3>1, FS_Union
    <3>3. {a, b} = {a} \union {b}
      OBVIOUS
    <3> QED
      BY <3>2, <3>3
  <2>3. IsFiniteSet(signals) /\ IsFiniteSet(traces) /\ IsFiniteSet(states)
    BY <2>2
  <2> HIDE DEF signals, traces, states, signalled, traced, shows
  <2>4. DOMAIN h1 = signals /\ \A a \in signals : h1[a] \in BOOLEAN
    BY <2>1
  <2>5. DOMAIN h2 = traces /\ \A a \in traces : h2[a] \in BOOLEAN
    BY <2>1
  <2>6. DOMAIN h4 = states /\ \A a \in states : h4[a] \in BOOLEAN
    BY <2>1
  <2> HIDE DEF h1, h2, h4
  <2> QED
    BY <2>3, <2>4, <2>5, <2>6, EachSlotGraded
<1>6. Graded(c6) /\ (Green(c6) => S \subseteq DOMAIN r.fields)
  <2>1. \A s \in S : met(s) \in BOOLEAN /\ (met(s) => s \in DOMAIN r.fields)
    <3> SUFFICES ASSUME NEW s \in S
                 PROVE  met(s) \in BOOLEAN /\ (met(s) => s \in DOMAIN r.fields)
      OBVIOUS
    <3>1. "decision" \in DOMAIN FieldEntitlements(s[2])
      BY DEF FieldEntitlements
    <3>2. "decision" \notin DOMAIN <<>>
      OBVIOUS
    <3> QED
      BY <3>1, <3>2 DEF ScenarioMet, ShownStates
  <2> HIDE DEF met
  <2>2. DOMAIN h3 = S /\ \A s \in S : h3[s] \in BOOLEAN /\ (h3[s] => s \in DOMAIN r.fields)
    BY <2>1
  <2> HIDE DEF h3
  <2> QED
    BY <1>2, <2>2, EachSlotGraded
<1> HIDE DEF c1, c2, c3, c4, c5, c6, c7
<1>7. Graded(judged) /\ (Green(judged) => Green(c1) /\ Green(c6))
  <2> DEFINE some == c1 \union c2 \union c3 \union c4
             more == some \union c5 \union c6 \union c7
  <2>1. Graded(some) /\ (Green(some) => Green(c1))
    BY <1>3, <1>4, <1>5, FourGraded
  <2> HIDE DEF some
  <2>2. Graded(more) /\ (Green(more) => Green(some) /\ Green(c6))
    BY <1>5, <1>6, <2>1, FourGraded
  <2>3. judged = more
    BY DEF some
  <2> HIDE DEF more
  <2> QED
    BY <2>1, <2>2, <2>3
<1> HIDE DEF judged
<1> QED
  BY <1>1, <1>3, <1>6, <1>7 DEF P, S

LEMMA PortalTells ==
  ASSUME NEW v, IsFiniteSet(DOMAIN v.files), NEW o, v.parts.results = PortalResults(o)
  PROVE  /\ Graded(Portal(v))
         /\ Green(Portal(v)) => /\ Slots(v, "principal") \subseteq Slots(o, "principal")
                                /\ Slots(v, "scenario") \subseteq Slots(o, "scenario")
<1> DEFINE r == v.parts.results
           b1 == Slots(v, "principal") # {} /\ Slots(v, "scenario") # {}
           b2 == Having(v, "uischema", "dangling") = {}
           c1 == One("fixtures-present", b1)
           c2 == One("uischema-resolves", b2)
           judged == PortalJudged(v, r)
           found == IF r = NoPart THEN Fail("results-present") ELSE judged
           outer == c1 \union c2 \union found
<1>1. /\ DOMAIN r.rows = Slots(o, "principal") /\ DOMAIN r.fields = Slots(o, "scenario")
      /\ r.fewer \in BOOLEAN
  BY DEF PortalResults
<1>2. Portal(v) = IF DOMAIN v.files = {} THEN Fail("fixtures-present")
                  ELSE IF \/ Malformed(v, {"principal", "scenario", "uischema"})
                          \/ Slots(v, "uischema") = {} \/ v.bundle = "absent"
                  THEN Thrown
                  ELSE IF v.bundle = "stale" THEN Fail("schema-present")
                  ELSE IF r = Torn THEN Thrown
                  ELSE outer
  BY DEF Portal
<1> HIDE DEF r
<1>3. /\ Graded(judged)
      /\ Green(judged) => /\ Slots(v, "principal") \subseteq Slots(o, "principal")
                          /\ Slots(v, "scenario") \subseteq Slots(o, "scenario")
  BY <1>1, JudgedInboxes
<1>4. b1 \in BOOLEAN /\ b2 \in BOOLEAN
  OBVIOUS
<1> HIDE DEF b1, b2
<1>5. Graded(c1) /\ Graded(c2)
  BY <1>4, OneGraded
<1> HIDE DEF c1, c2, judged
<1>6. Graded(found) /\ (Green(found) => Green(judged))
  BY <1>3, FailGraded
<1> HIDE DEF found
<1>7. Graded(outer) /\ (Green(outer) => Green(found))
  BY <1>5, <1>6, BothGraded
<1> HIDE DEF outer
<1> QED
  BY <1>2, <1>3, <1>6, <1>7, FailGraded

-----------------------------------------------------------------------------
(* A fixture added after the producer ran.                                 *)

\* The scopes and their producers are those of the catalog.
TheCatalog ==
  /\ \A s, x : Contents(s, x) = Content(s, x)
  /\ \A s, v : Checks(s, v) = CheckScope(s, v) /\ (Sound(s, v) <=> Upheld(s, v))
  /\ \A s, p, v : /\ Throws(s, p, v) <=> ProducerThrows(s, p, v)
                  /\ Results(s, p, v) = Produced(s, p, v)

LEMMA FixtureFacts ==
  ASSUME TheCatalog, NEW s, NEW f, FixturesOK(s, f)
  PROVE  /\ IsFiniteSet(DOMAIN f)
         /\ \A x \in DOMAIN f : Fixture(s, x) /\ f[x] \in Content(s, x)
BY DEF FixturesOK, TheCatalog, Content

LEMMA VectorsOnly ==
  ASSUME TheCatalog,
         NEW s \in Corpora \union {"flow-layer", "entity-store", "entity-api"},
         NEW v, FixturesOK(s, v.files)
  PROVE  DOMAIN v.files = Slots(v, "vector")
<1>1. ASSUME NEW x, Fixture(s, x) PROVE x[1] = "vector"
  BY <1>1 DEF Fixture, Required, Globbed, Corpora
<1> QED
  BY <1>1, FixtureFacts DEF Slots

LEMMA CasesOnly ==
  ASSUME TheCatalog, NEW v, FixturesOK("decisionrecord", v.files)
  PROVE  DOMAIN v.files = Slots(v, "case")
<1>1. ASSUME NEW x, Fixture("decisionrecord", x) PROVE x[1] = "case"
  BY <1>1 DEF Fixture, Required, Globbed, Corpora
<1> QED
  BY <1>1, FixtureFacts DEF Slots

\* What a covering scope says of what the artifact's producer has not seen.
CoversAll(s, v, o) ==
  Graded(CheckScope(s, v)) /\ (Green(CheckScope(s, v)) => DOMAIN v.files \subseteq DOMAIN o.files)

LEMMA CoveringFamilies ==
  ASSUME TheCatalog,
         NEW s \in Corpora \union {"flow-layer", "decisionrecord", "entity-store", "entity-api"},
         NEW v, FixturesOK(s, v.files), NEW o, FixturesOK(s, o.files),
         v.parts.results = Produced(s, "results", o)
  PROVE  CoversAll(s, v, o)
<1>1. IsFiniteSet(DOMAIN v.files) /\ IsFiniteSet(DOMAIN o.files)
  BY FixtureFacts
<1>2. \A f : Slots(o, f) \subseteq DOMAIN o.files
  BY DEF Slots
<1>3. CASE s \in Corpora
  <2>1. CheckScope(s, v) = CrossLanguage(v) /\ Produced(s, "results", o) = NetworkntResults(o)
    BY <1>3 DEF CheckScope, Produced, Corpora
  <2>2. DOMAIN v.files = Slots(v, "vector")
    BY <1>3, VectorsOnly
  <2> QED
    BY <1>1, <1>2, <2>1, <2>2, CorpusTells DEF CoversAll
<1>4. CASE s = "flow-layer"
  <2>1. CheckScope(s, v) = FlowLayer(v) /\ Produced(s, "results", o) = ConformanceResults(o)
    BY <1>4 DEF CheckScope, Produced
  <2>2. DOMAIN v.files = Slots(v, "vector")
    BY <1>4, VectorsOnly
  <2> QED
    BY <1>1, <1>2, <2>1, <2>2, FlowLayerTells DEF CoversAll, OpeningHolds
<1>5. CASE s = "decisionrecord"
  <2>1. CheckScope(s, v) = DecisionRecordScope(v) /\ Produced(s, "results", o) = AssemblyResults(o)
    BY <1>5 DEF CheckScope, Produced
  <2>2. DOMAIN v.files = Slots(v, "case")
    BY <1>5, CasesOnly
  <2> QED
    BY <1>1, <1>2, <2>1, <2>2, DecisionRecordTells DEF CoversAll, OpeningHolds
<1>6. CASE s = "entity-store"
  <2>1. CheckScope(s, v) = EntityStoreScope(v) /\ Produced(s, "results", o) = EntityStoreResults(o)
    BY <1>6 DEF CheckScope, Produced
  <2>2. DOMAIN v.files = Slots(v, "vector")
    BY <1>6, VectorsOnly
  <2> QED
    BY <1>1, <1>2, <2>1, <2>2, EntityStoreTells DEF CoversAll, OpeningHolds
<1>7. CASE s = "entity-api"
  <2>1. CheckScope(s, v) = EntityApi(v) /\ Produced(s, "results", o) = ApiResults(o)
    BY <1>7 DEF CheckScope, Produced
  <2>2. DOMAIN v.files = Slots(v, "vector")
    BY <1>7, VectorsOnly
  <2> QED
    BY <1>1, <1>2, <2>1, <2>2, EntityApiTells DEF CoversAll, OpeningHolds
<1> QED
  BY <1>3, <1>4, <1>5, <1>6, <1>7

LEMMA AuthzCovers ==
  ASSUME TheCatalog, NEW v, FixturesOK("authz", v.files), NEW o, FixturesOK("authz", o.files),
         ~ProducerThrows("authz", "results", o),
         v.parts.results = Produced("authz", "results", o)
  PROVE  CoversAll("authz", v, o)
<1>1. IsFiniteSet(DOMAIN v.files) /\ IsFiniteSet(DOMAIN o.files)
  BY FixtureFacts
<1>2. /\ CheckScope("authz", v) = AuthzScope(v)
      /\ Produced("authz", "results", o) = AuthzResults(o)
      /\ Slots(o, "model") # {}
  <2>1. ~AuthzThrows(o)
    BY DEF ProducerThrows
  <2> QED
    BY <2>1 DEF CheckScope, Produced, AuthzThrows
<1>3. ASSUME NEW x, Fixture("authz", x)
      PROVE  x = <<"model", "1">> \/ x[1] \in Surfaces
  BY <1>3 DEF Fixture, Required, Globbed, Corpora, Surfaces
<1>4. "model" \notin Surfaces
  BY DEF Surfaces
<1>5. <<"model", "1">> \in DOMAIN o.files
  <2>1. PICK x \in DOMAIN o.files : x[1] = "model"
    BY <1>2 DEF Slots
  <2> QED
    BY <1>3, <1>4, <2>1, FixtureFacts
<1>6. ASSUME Green(AuthzScope(v)), NEW x \in DOMAIN v.files PROVE x \in DOMAIN o.files
  <2>1. AuthzVectors(v) \subseteq AuthzVectors(o)
    BY <1>1, <1>2, <1>6, AuthzTells
  <2>2. CASE x = <<"model", "1">>
    BY <1>5, <2>2
  <2>3. CASE x[1] \in Surfaces
    BY <2>1, <2>3 DEF AuthzVectors, OfFamilies, Slots
  <2> QED
    BY <1>3, <2>2, <2>3, FixtureFacts
<1> QED
  BY <1>1, <1>2, <1>6, AuthzTells DEF CoversAll

LEMMA PortalCovers ==
  ASSUME TheCatalog, NEW v, FixturesOK("portal", v.files), NEW o, FixturesOK("portal", o.files),
         ~ProducerThrows("portal", "results", o),
         v.parts.results = Produced("portal", "results", o)
  PROVE  CoversAll("portal", v, o)
<1>1. IsFiniteSet(DOMAIN v.files) /\ IsFiniteSet(DOMAIN o.files)
  BY FixtureFacts
<1>2. /\ CheckScope("portal", v) = Portal(v) /\ Produced("portal", "results", o) = PortalResults(o)
      /\ Slots(o, "uischema") # {} /\ Slots(o, "flow") # {}
  <2>1. ~PortalThrows(o)
    BY DEF ProducerThrows
  <2> QED
    BY <2>1 DEF CheckScope, Produced, PortalThrows
<1>3. ASSUME NEW x, Fixture("portal", x)
      PROVE  \/ x = <<"uischema", "1">> \/ x = <<"flow", "1">>
             \/ x[1] = "principal" \/ x[1] = "scenario"
  BY <1>3 DEF Fixture, Required, Globbed, Corpora
<1>4. <<"uischema", "1">> \in DOMAIN o.files
  <2>1. PICK x \in DOMAIN o.files : x[1] = "uischema"
    BY <1>2 DEF Slots
  <2> QED
    BY <1>3, <2>1, FixtureFacts
<1>5. <<"flow", "1">> \in DOMAIN o.files
  <2>1. PICK x \in DOMAIN o.files : x[1] = "flow"
    BY <1>2 DEF Slots
  <2> QED
    BY <1>3, <2>1, FixtureFacts
<1>6. ASSUME Green(Portal(v)), NEW x \in DOMAIN v.files PROVE x \in DOMAIN o.files
  <2>1. /\ Slots(v, "principal") \subseteq Slots(o, "principal")
        /\ Slots(v, "scenario") \subseteq Slots(o, "scenario")
    BY <1>1, <1>2, <1>6, PortalTells
  <2>2. CASE x[1] = "principal" \/ x[1] = "scenario"
    BY <2>1, <2>2 DEF Slots
  <2> QED
    BY <1>3, <1>4, <1>5, <2>2, FixtureFacts
<1> QED
  BY <1>1, <1>2, <1>6, PortalTells DEF CoversAll

LEMMA CoveringCovers ==
  ASSUME TheCatalog, NEW s \in Covering, NEW v, NEW known, Seen(s, v, known),
         NEW p \in PartsOf(s), known[p] # NoPart
  PROVE  /\ Graded(CheckScope(s, v))
         /\ Green(CheckScope(s, v)) => DOMAIN v.files \subseteq DOMAIN known[p].files
<1>1. p = "results"
  BY DEF PartsOf, Covering
<1>2. PICK o : /\ FixturesOK(s, o.files) /\ known[p] = [files |-> o.files, program |-> o.program]
               /\ ~Throws(s, p, o) /\ v.parts[p] = Results(s, p, o)
  BY DEF Seen, Made
<1>3. /\ ~ProducerThrows(s, "results", o) /\ v.parts.results = Produced(s, "results", o)
      /\ known[p].files = o.files /\ FixturesOK(s, v.files)
  BY <1>1, <1>2 DEF TheCatalog, Seen
<1>4. CoversAll(s, v, o)
  BY <1>2, <1>3, CoveringFamilies, AuthzCovers, PortalCovers DEF Covering, Corpora
<1> QED
  BY <1>3, <1>4 DEF CoversAll

\* A fixture that was committed after the producer ran fails every scope that says of
\* its artifact that it covers the fixtures, however many fixtures there are, however
\* the runs, edits and producers interleave.
THEOREM AddedFixturesFail ==
  ASSUME TheCatalog
  PROVE  VerifySpec /\ Prepared => []AddedFixtureFails
<1>1. JudgeInv => AddedFixtureFails
  <2> SUFFICES ASSUME JudgeInv, NEW k \in Runs, run[k].judged # NoPart,
                      run[k].envelope.scope \in Covering,
                      NEW p \in PartsOf(run[k].envelope.scope),
                      run[k].judged.known[p] # NoPart,
                      ~(DOMAIN run[k].judged.files \subseteq DOMAIN run[k].judged.known[p].files)
               PROVE  run[k].envelope.verdict = "fail"
    BY DEF AddedFixtureFails
  <2> DEFINE r == run[k]
  <2>1. PICK s \in Scopes : \E v : \E known : Seen(s, v, known) /\ JudgedOn(k, r, s, v, known)
    BY DEF JudgeInv, Watched
  <2>2. PICK v : \E known : Seen(s, v, known) /\ JudgedOn(k, r, s, v, known)
    BY <2>1
  <2>3. PICK known : Seen(s, v, known) /\ JudgedOn(k, r, s, v, known)
    BY <2>2
  <2>4. /\ r.envelope = SelfJudged(Envelope(s, k, CheckScope(s, v)), v.envelope = "built")
        /\ r.judged.files = v.files /\ r.judged.known = known
    BY <2>3 DEF JudgedOn, TheCatalog
  <2> DEFINE e == r.envelope
             C == CheckScope(s, v)
             valid == v.envelope = "built"
  <2>5. valid \in BOOLEAN
    OBVIOUS
  <2> HIDE DEF r
  <2>6. e.scope = s
    BY <2>4 DEF SelfJudged, Envelope
  <2>7. Graded(C) /\ ~Green(C)
    BY <2>3, <2>4, <2>6, CoveringCovers DEF r
  <2> HIDE DEF C, valid, e
  <2>8. e = SelfJudged(Envelope(s, k, C), valid)
    BY <2>4 DEF C, valid, e
  <2> QED
    BY <2>5, <2>7, <2>8, VerdictTells DEF e, r
<1> QED
  BY <1>1, JudgeInvHolds, PTL

-----------------------------------------------------------------------------
(* What a verdict says that was made of fresh artifacts.                   *)

\* Scope s's artifacts are legible and made of the very sources it sees.
FreshView(s, v) ==
  /\ FixturesOK(s, v.files) /\ v.bundle \in Bundles
  /\ \A p \in PartsOf(s) :
       /\ v.parts[p] \notin {NoPart, Torn}
       /\ \E o : /\ o.files = v.files /\ o.program = v.program
                 /\ ~ProducerThrows(s, p, o) /\ v.parts[p] = Produced(s, p, o)

\* A scope's verdict on v is what v says of it.
Truthful(s, v) ==
  /\ Graded(CheckScope(s, v))
  /\ v.envelope = "built" => (Green(CheckScope(s, v)) <=> Upheld(s, v))

AllAgree(v) == \A x \in DOMAIN v.files : v.files[x] = "agrees"
Emitted(v) == v.bundle \notin {"absent", "stale"}

LEMMA SameSlots ==
  ASSUME NEW v, NEW o, o.files = v.files
  PROVE  /\ \A f : Slots(o, f) = Slots(v, f)
         /\ \A f, c : Having(o, f, c) = Having(v, f, c)
         /\ \A F : Malformed(o, F) <=> Malformed(v, F)
         /\ AuthzVectors(o) = AuthzVectors(v)
BY DEF Slots, Having, Malformed, AuthzVectors, OfFamilies

\* What is upheld by a scope that wants its schemas and runs whatever it finds.
LEMMA UpheldPlainly ==
  ASSUME NEW s \in {"flow-layer", "decisionrecord", "entity-store", "entity-api", "authz",
                    "adapters", "notifications", "issuance", "agent-kit", "reference-data"},
         NEW v, v.envelope = "built", v.bundle \in Bundles
  PROVE  Upheld(s, v) <=> /\ Emitted(v) /\ v.program \notin Faults(s) /\ AllAgree(v)
                          /\ Required(s) \subseteq DOMAIN v.files
                          /\ \A f \in Inhabited(s) : Slots(v, f) # {}
<1>1. s \notin Schemaless /\ s \notin Corpora /\ s # "schema-pipeline" /\ s # "ui"
  BY DEF Schemaless, Corpora
<1>2. Idle(s, v) = {}
  BY DEF Idle, Corpora
<1>3. \A x : Harmless(s, x) = {"agrees"}
  BY <1>1 DEF Harmless
<1>4. v.bundle \in {"built", "other"} <=> Emitted(v)
  BY DEF Bundles, Emitted
<1>5. ~Vacant(s, v)
  BY <1>1 DEF Vacant
<1> QED
  BY <1>1, <1>2, <1>3, <1>4, <1>5 DEF Upheld, AllAgree

LEMMA FixtureContent ==
  ASSUME TheCatalog, NEW s, NEW v, FixturesOK(s, v.files), NEW x \in DOMAIN v.files
  PROVE  /\ Fixture(s, x) /\ x = <<x[1], x[2]>>
         /\ x[1] # "kit" => v.files[x] \in {"agrees"} \union Flaws(s, x[1])
<1>1. Fixture(s, x) /\ v.files[x] \in Content(s, x)
  BY FixtureFacts
<1>2. x[1] # "kit" => x # HookSettings
  BY DEF HookSettings
<1> QED
  BY <1>1, <1>2 DEF Content, Fixture

LEMMA ParsedTells ==
  ASSUME NEW v, NEW F
  PROVE  ~Malformed(v, F) <=> \A x \in DOMAIN v.files : x[1] \in F => v.files[x] # "malformed"
BY DEF Malformed, Having, Slots

LEMMA FlowLayerTrue ==
  ASSUME TheCatalog, NEW v, FreshView("flow-layer", v)
  PROVE  Truthful("flow-layer", v)
<1>1. PICK o : /\ o.files = v.files /\ o.program = v.program
               /\ ~ConformanceThrows(o) /\ v.parts.results = ConformanceResults(o)
               /\ v.parts.results \notin {NoPart, Torn}
  BY DEF FreshView, PartsOf, ProducerThrows, Produced
<1>2. IsFiniteSet(DOMAIN v.files) /\ CheckScope("flow-layer", v) = FlowLayer(v)
  BY FixtureFacts DEF FreshView, CheckScope
<1> DEFINE V == Slots(v, "vector")
<1>3. /\ Graded(FlowLayer(v))
      /\ Green(FlowLayer(v)) <=>
           /\ V # {} /\ Emitted(v) /\ ~Malformed(v, {"vector"}) /\ v.program # "sdk"
           /\ \A s \in V : v.files[s] # "invalid"
           /\ \A s \in V : v.program \notin FlowAspects /\ v.files[s] # "differs"
  BY <1>1, <1>2, FlowLayerTells, SameSlots DEF OpeningHolds, Emitted
<1>4. DOMAIN v.files = V
  BY VectorsOnly DEF FreshView
<1>5. \A x \in V : x[1] = "vector" /\ v.files[x] \in {"agrees", "differs", "invalid", "malformed"}
  <2> TAKE x \in V
  <2>1. x \in DOMAIN v.files /\ x[1] = "vector"
    BY DEF Slots
  <2>2. v.files[x] \in {"agrees"} \union Flaws("flow-layer", "vector")
    BY <2>1, FixtureContent DEF FreshView
  <2>3. Flaws("flow-layer", "vector") = {"differs", "invalid", "malformed", "overruns"}
    BY DEF Flaws, Corpora
  <2>4. v.files[x] # "overruns"
    BY <1>1, SameSlots DEF ConformanceThrows
  <2> QED
    BY <2>1, <2>2, <2>3, <2>4
<1>6. ~Malformed(v, {"vector"}) <=> \A x \in V : v.files[x] # "malformed"
  BY <1>4, <1>5, ParsedTells
<1>7. /\ Faults("flow-layer") = FlowAspects \union {"sdk"} /\ Required("flow-layer") = {}
      /\ Inhabited("flow-layer") = {"vector"}
  <2>1. Faults("flow-layer") = FlowAspects \union {"sdk"}
    BY DEF Faults, Corpora
  <2>2. Required("flow-layer") = {}
    BY DEF Required
  <2>3. Inhabited("flow-layer") = {"vector"}
    BY DEF Inhabited
  <2> QED
    BY <2>1, <2>2, <2>3
<1> HIDE DEF V
<1>8. ASSUME v.envelope = "built" PROVE Green(FlowLayer(v)) <=> Upheld("flow-layer", v)
  <2>1. Upheld("flow-layer", v) <=> /\ Emitted(v) /\ v.program \notin FlowAspects \union {"sdk"}
                                    /\ AllAgree(v) /\ V # {}
    BY <1>7, <1>8, UpheldPlainly DEF FreshView, V
  <2> QED
    BY <1>3, <1>4, <1>5, <1>6, <2>1 DEF AllAgree
<1> QED
  BY <1>2, <1>3, <1>8 DEF Truthful

LEMMA DecisionRecordTrue ==
  ASSUME TheCatalog, NEW v, FreshView("decisionrecord", v)
  PROVE  Truthful("decisionrecord", v)
<1>1. PICK o : /\ o.files = v.files /\ o.program = v.program
               /\ v.parts.results = AssemblyResults(o) /\ v.parts.results \notin {NoPart, Torn}
  BY DEF FreshView, PartsOf, Produced
<1>2. IsFiniteSet(DOMAIN v.files) /\ CheckScope("decisionrecord", v) = DecisionRecordScope(v)
  BY FixtureFacts DEF FreshView, CheckScope
<1> DEFINE V == Slots(v, "case")
<1>3. /\ Graded(DecisionRecordScope(v))
      /\ Green(DecisionRecordScope(v)) <=>
           /\ V # {} /\ Emitted(v) /\ ~Malformed(v, {"case"}) /\ <<"case", "gap">> \in V
           /\ \A s \in V : v.files[s] # "invalid"
           /\ \A s \in V : /\ v.program \notin CaseOracle \union {"caseId"}
                           /\ v.files[s] # "differs"
  BY <1>1, <1>2, DecisionRecordTells, SameSlots DEF OpeningHolds, Emitted
<1>4. DOMAIN v.files = V
  BY CasesOnly DEF FreshView
<1>5. \A x \in V : x[1] = "case" /\ v.files[x] \in {"agrees", "differs", "invalid", "malformed"}
  <2> TAKE x \in V
  <2>1. x \in DOMAIN v.files /\ x[1] = "case"
    BY DEF Slots
  <2>2. v.files[x] \in {"agrees"} \union Flaws("decisionrecord", "case")
    BY <2>1, FixtureContent DEF FreshView
  <2>3. Flaws("decisionrecord", "case") = {"differs", "invalid", "malformed"}
    BY DEF Flaws, Corpora
  <2> QED
    BY <2>1, <2>2, <2>3
<1>6. ~Malformed(v, {"case"}) <=> \A x \in V : v.files[x] # "malformed"
  BY <1>4, <1>5, ParsedTells
<1>7. Faults("decisionrecord") = CaseOracle \union {"caseId"}
  BY DEF Faults, Corpora
<1>8. Required("decisionrecord") = {<<"case", "gap">>}
  BY DEF Required
<1>9. Inhabited("decisionrecord") = {}
  BY DEF Inhabited
<1> HIDE DEF V
<1>10. ASSUME v.envelope = "built"
       PROVE  Green(DecisionRecordScope(v)) <=> Upheld("decisionrecord", v)
  <2>1. Upheld("decisionrecord", v) <=>
          /\ Emitted(v) /\ v.program \notin CaseOracle \union {"caseId"}
          /\ AllAgree(v) /\ {<<"case", "gap">>} \subseteq V
    BY <1>4, <1>7, <1>8, <1>9, <1>10, UpheldPlainly DEF FreshView
  <2> QED
    BY <1>3, <1>4, <1>5, <1>6, <2>1 DEF AllAgree
<1> QED
  BY <1>2, <1>3, <1>10 DEF Truthful

LEMMA EntityStoreTrue ==
  ASSUME TheCatalog, NEW v, FreshView("entity-store", v)
  PROVE  Truthful("entity-store", v)
<1>1. PICK o : /\ o.files = v.files /\ o.program = v.program
               /\ v.parts.results = EntityStoreResults(o) /\ v.parts.results \notin {NoPart, Torn}
  BY DEF FreshView, PartsOf, Produced
<1>2. IsFiniteSet(DOMAIN v.files) /\ CheckScope("entity-store", v) = EntityStoreScope(v)
  BY FixtureFacts DEF FreshView, CheckScope
<1> DEFINE V == Slots(v, "vector")
<1>3. /\ Graded(EntityStoreScope(v))
      /\ Green(EntityStoreScope(v)) <=>
           /\ V # {} /\ Emitted(v) /\ ~Malformed(v, {"vector"})
           /\ \A s \in V : v.files[s] \notin {"invalid", "misfit"}
           /\ \A s \in V : v.program \notin StoreOracle /\ v.files[s] # "differs"
  BY <1>1, <1>2, EntityStoreTells, SameSlots DEF OpeningHolds, Emitted
<1>4. DOMAIN v.files = V
  BY VectorsOnly DEF FreshView
<1>5. \A x \in V : /\ x[1] = "vector"
                   /\ v.files[x] \in {"agrees", "differs", "invalid", "malformed", "misfit"}
  <2> TAKE x \in V
  <2>1. x \in DOMAIN v.files /\ x[1] = "vector"
    BY DEF Slots
  <2>2. v.files[x] \in {"agrees"} \union Flaws("entity-store", "vector")
    BY <2>1, FixtureContent DEF FreshView
  <2>3. Flaws("entity-store", "vector") = {"differs", "invalid", "malformed", "misfit"}
    BY DEF Flaws, Corpora
  <2> QED
    BY <2>1, <2>2, <2>3
<1>6. ~Malformed(v, {"vector"}) <=> \A x \in V : v.files[x] # "malformed"
  BY <1>4, <1>5, ParsedTells
<1>7. Faults("entity-store") = StoreOracle
  BY DEF Faults, Corpora
<1>8. Required("entity-store") = {}
  BY DEF Required
<1>9. Inhabited("entity-store") = {"vector"}
  BY DEF Inhabited
<1> HIDE DEF V
<1>10. ASSUME v.envelope = "built"
       PROVE  Green(EntityStoreScope(v)) <=> Upheld("entity-store", v)
  <2>1. Upheld("entity-store", v) <=>
          Emitted(v) /\ v.program \notin StoreOracle /\ AllAgree(v) /\ V # {}
    BY <1>7, <1>8, <1>9, <1>10, UpheldPlainly DEF FreshView, V
  <2> QED
    BY <1>3, <1>4, <1>5, <1>6, <2>1 DEF AllAgree
<1> QED
  BY <1>2, <1>3, <1>10 DEF Truthful

LEMMA EntityApiTrue ==
  ASSUME TheCatalog, NEW v, FreshView("entity-api", v)
  PROVE  Truthful("entity-api", v)
<1>1. PICK o : /\ o.files = v.files /\ o.program = v.program
               /\ v.parts.results = ApiResults(o) /\ v.parts.results \notin {NoPart, Torn}
  BY DEF FreshView, PartsOf, Produced
<1>2. IsFiniteSet(DOMAIN v.files) /\ CheckScope("entity-api", v) = EntityApi(v)
  BY FixtureFacts DEF FreshView, CheckScope
<1> DEFINE V == Slots(v, "vector")
           full == <<"vector", "full">>
<1>3. /\ Graded(EntityApi(v))
      /\ Green(EntityApi(v)) <=>
           /\ V # {} /\ Emitted(v) /\ ~Malformed(v, {"vector"}) /\ v.program # "undeclared"
           /\ \E s \in V : s[2] = "full"
           /\ \A s \in V : v.files[s] # "invalid"
           /\ \A s \in V : v.program \notin ApiOracle /\ v.files[s] # "differs"
  BY <1>1, <1>2, EntityApiTells, SameSlots DEF OpeningHolds, Emitted
<1>4. DOMAIN v.files = V
  BY VectorsOnly DEF FreshView
<1>5. \A x \in V : /\ x[1] = "vector" /\ x = <<x[1], x[2]>>
                   /\ v.files[x] \in {"agrees", "differs", "invalid", "malformed"}
  <2> TAKE x \in V
  <2>1. x \in DOMAIN v.files /\ x[1] = "vector"
    BY DEF Slots
  <2>2. x = <<x[1], x[2]>> /\ v.files[x] \in {"agrees"} \union Flaws("entity-api", "vector")
    BY <2>1, FixtureContent DEF FreshView
  <2>3. Flaws("entity-api", "vector") = {"differs", "invalid", "malformed"}
    BY DEF Flaws, Corpora
  <2> QED
    BY <2>1, <2>2, <2>3
<1>6. ~Malformed(v, {"vector"}) <=> \A x \in V : v.files[x] # "malformed"
  BY <1>4, <1>5, ParsedTells
<1>7. Faults("entity-api") = ApiOracle \union {"undeclared"}
  BY DEF Faults, Corpora
<1>8. Required("entity-api") = {full}
  BY DEF Required
<1>9. Inhabited("entity-api") = {}
  BY DEF Inhabited
<1> HIDE DEF V
<1>10. (\E s \in V : s[2] = "full") <=> full \in V
  BY <1>5
<1> HIDE DEF full
<1>11. ASSUME v.envelope = "built"
       PROVE  Green(EntityApi(v)) <=> Upheld("entity-api", v)
  <2>1. Upheld("entity-api", v) <=>
          /\ Emitted(v) /\ v.program \notin ApiOracle \union {"undeclared"}
          /\ AllAgree(v) /\ {full} \subseteq V
    BY <1>4, <1>7, <1>8, <1>9, <1>11, UpheldPlainly DEF FreshView
  <2> QED
    BY <1>3, <1>4, <1>5, <1>6, <1>10, <2>1 DEF AllAgree
<1> QED
  BY <1>2, <1>3, <1>11 DEF Truthful

LEMMA AuthzTrue ==
  ASSUME TheCatalog, NEW v, FreshView("authz", v)
  PROVE  Truthful("authz", v)
<1>1. PICK o : /\ o.files = v.files /\ o.program = v.program
               /\ v.parts.results = AuthzResults(o) /\ v.parts.results \notin {NoPart, Torn}
  BY DEF FreshView, PartsOf, Produced
<1>2. IsFiniteSet(DOMAIN v.files) /\ CheckScope("authz", v) = AuthzScope(v)
  BY FixtureFacts DEF FreshView, CheckScope
<1> DEFINE F == DOMAIN v.files
           kinds == Surfaces \union {"model"}
<1>3. /\ Graded(AuthzScope(v))
      /\ Green(AuthzScope(v)) <=>
           /\ \A f \in kinds : Slots(v, f) # {}
           /\ Emitted(v) /\ ~Malformed(v, kinds)
           /\ \A s \in Slots(v, "model") : v.files[s] # "invalid"
           /\ \A s \in AuthzVectors(v) : v.files[s] \notin {"notArray", "invalid", "differs"}
           /\ v.program \notin {"decision", "parity", "logMissing", "logShape"}
  <2>1. /\ Graded(AuthzScope(v))
        /\ Green(AuthzScope(v)) <=>
             /\ Slots(v, "model") # {} /\ \A f \in Surfaces : Slots(v, f) # {}
             /\ v.bundle \notin {"absent", "stale"} /\ ~Malformed(v, Surfaces \union {"model"})
             /\ \A s \in Slots(v, "model") : v.files[s] # "invalid"
             /\ \A s \in AuthzVectors(v) : v.files[s] \notin {"notArray", "invalid"}
             /\ AuthzVectors(v) \subseteq AuthzVectors(o)
             /\ \A f \in Surfaces : Slots(o, f) # {}
             /\ o.program \notin {"decision", "parity", "logMissing", "logShape"}
             /\ \A s \in AuthzVectors(o) : o.files[s] # "differs"
    BY <1>1, <1>2, AuthzTells
  <2>2. AuthzVectors(o) = AuthzVectors(v) /\ \A f : Slots(o, f) = Slots(v, f)
    BY <1>1, SameSlots
  <2> QED
    BY <1>1, <2>1, <2>2 DEF Emitted
<1>4. ASSUME NEW x \in F
      PROVE  /\ x[1] \in kinds /\ x = <<x[1], "1">>
             /\ v.files[x] \in {"agrees", "invalid", "malformed", "differs", "notArray"}
             /\ x[1] = "model" => v.files[x] \in {"agrees", "invalid", "malformed"}
  <2>1. x[1] \in kinds /\ x = <<x[1], "1">>
    <3>1. Required("authz") = {<<f, "1">> : f \in kinds}
      BY DEF Required
    <3>2. Globbed("authz") = {}
      BY DEF Globbed, Corpora
    <3>3. Fixture("authz", x)
      BY <1>4, FixtureContent DEF FreshView
    <3>4. PICK f \in kinds : x = <<f, "1">>
      BY <3>1, <3>2, <3>3 DEF Fixture
    <3> QED
      BY <3>4
  <2>2. v.files[x] \in {"agrees"} \union Flaws("authz", x[1])
    BY <2>1, FixtureContent DEF FreshView, Surfaces
  <2>3. Flaws("authz", x[1]) = {"invalid", "malformed"}
                               \union (IF x[1] = "model" THEN {} ELSE {"differs", "notArray"})
    BY DEF Flaws, Corpora
  <2> QED
    BY <2>1, <2>2, <2>3
<1>5. /\ \A x : x \in Slots(v, "model") <=> x \in F /\ x[1] = "model"
      /\ \A x : x \in AuthzVectors(v) <=> x \in F /\ x[1] \in Surfaces
  BY DEF Slots, AuthzVectors, OfFamilies
<1>6. ~Malformed(v, kinds) <=> \A x \in F : v.files[x] # "malformed"
  BY <1>4, ParsedTells
<1>7. (\A f \in kinds : Slots(v, f) # {}) <=> {<<f, "1">> : f \in kinds} \subseteq F
  <2>1. ASSUME NEW f \in kinds PROVE Slots(v, f) # {} <=> <<f, "1">> \in F
    <3>1. ASSUME NEW x \in Slots(v, f) PROVE <<f, "1">> \in F
      BY <1>4, <3>1 DEF Slots
    <3>2. ASSUME <<f, "1">> \in F PROVE <<f, "1">> \in Slots(v, f)
      BY <3>2 DEF Slots
    <3> QED
      BY <3>1, <3>2
  <2> HIDE DEF F, kinds
  <2> QED
    BY <2>1
<1>8. Faults("authz") = {"decision", "parity", "logMissing", "logShape"}
  BY DEF Faults, Corpora
<1>9. Required("authz") = {<<f, "1">> : f \in kinds}
  BY DEF Required
<1>10. Inhabited("authz") = {}
  BY DEF Inhabited
<1>11. ASSUME v.envelope = "built"
       PROVE  Green(AuthzScope(v)) <=> Upheld("authz", v)
  <2>1. Upheld("authz", v) <=>
          /\ Emitted(v) /\ v.program \notin {"decision", "parity", "logMissing", "logShape"}
          /\ AllAgree(v) /\ \A f \in kinds : Slots(v, f) # {}
    BY <1>7, <1>8, <1>9, <1>10, <1>11, UpheldPlainly DEF FreshView
  <2>2. AllAgree(v) <=> /\ \A s \in Slots(v, "model") : v.files[s] # "invalid"
                        /\ \A s \in AuthzVectors(v) : v.files[s] \notin {"notArray", "invalid", "differs"}
                        /\ \A x \in F : v.files[x] # "malformed"
    BY <1>4, <1>5 DEF AllAgree
  <2> QED
    BY <1>3, <1>6, <2>1, <2>2
<1> QED
  BY <1>2, <1>3, <1>11 DEF Truthful

LEMMA CorpusTrue ==
  ASSUME TheCatalog, NEW s \in Corpora, NEW v, FreshView(s, v)
  PROVE  Truthful(s, v)
<1>1. PICK o : /\ o.files = v.files /\ o.program = v.program
               /\ v.parts.results = NetworkntResults(o) /\ v.parts.results \notin {NoPart, Torn}
  BY DEF FreshView, PartsOf, Produced, Corpora
<1>2. IsFiniteSet(DOMAIN v.files) /\ CheckScope(s, v) = CrossLanguage(v)
  BY FixtureFacts DEF FreshView, CheckScope, Corpora
<1> DEFINE V == Slots(v, "vector")
<1>3. /\ Graded(CrossLanguage(v))
      /\ Green(CrossLanguage(v)) <=>
           /\ ~Malformed(v, {"vector"}) /\ v.bundle # "absent"
           /\ \A x \in V : /\ v.bundle # "stale" /\ v.program # "networknt"
                           /\ v.files[x] # "differs" /\ v.files[x] # "hard"
  BY <1>1, <1>2, CorpusTells, SameSlots
<1>4. DOMAIN v.files = V
  BY VectorsOnly DEF FreshView
<1>5. \A x \in V : x[1] = "vector" /\ v.files[x] \in {"agrees", "differs", "malformed", "hard"}
  <2> TAKE x \in V
  <2>1. x \in DOMAIN v.files /\ x[1] = "vector"
    BY DEF Slots
  <2>2. v.files[x] \in {"agrees"} \union Flaws(s, "vector")
    BY <2>1, FixtureContent DEF FreshView
  <2>3. Flaws(s, "vector") = {"differs", "malformed", "hard"}
    BY DEF Flaws, Corpora
  <2> QED
    BY <2>1, <2>2, <2>3
<1>6. ~Malformed(v, {"vector"}) <=> \A x \in V : v.files[x] # "malformed"
  BY <1>4, <1>5, ParsedTells
<1>7. Faults(s) = {"networknt"}
  BY DEF Faults, Corpora
<1>8. Required(s) = {}
  BY DEF Required, Corpora
<1>9. Inhabited(s) = {}
  BY DEF Inhabited, Corpora
<1>10. Idle(s, v) = IF V = {} THEN {"networknt"} ELSE {}
  BY <1>4 DEF Idle, Corpora
<1>11. s # "schema-pipeline" /\ s # "ui" /\ s \notin Schemaless
  BY DEF Schemaless, Corpora
<1>12. \A x : Harmless(s, x) = {"agrees"}
  BY <1>11 DEF Harmless
<1>13. Vacant(s, v) <=> V = {}
  BY <1>4 DEF Vacant
<1> HIDE DEF V
<1>14. ASSUME v.envelope = "built" PROVE Green(CrossLanguage(v)) <=> Upheld(s, v)
  <2>1. Upheld(s, v) <=>
          /\ v.bundle \in {"built", "other"} \/ (V = {} /\ v.bundle = "stale")
          /\ v.program # "networknt" \/ V = {}
          /\ \A x \in V : v.files[x] = "agrees"
    BY <1>4, <1>7, <1>8, <1>9, <1>10, <1>11, <1>12, <1>13, <1>14 DEF Upheld
  <2>2. v.bundle \in {"built", "stale", "other", "absent"}
    BY DEF FreshView, Bundles
  <2> QED
    BY <1>3, <1>5, <1>6, <2>1, <2>2
<1> QED
  BY <1>2, <1>3, <1>14 DEF Truthful

-----------------------------------------------------------------------------
(* The tools.                                                              *)

LEMMA FewFinite ==
  ASSUME NEW a, NEW b, NEW c, NEW d, NEW e
  PROVE  IsFiniteSet({a, b, c, d, e})
<1>1. /\ IsFiniteSet({a}) /\ IsFiniteSet({b}) /\ IsFiniteSet({c})
      /\ IsFiniteSet({d}) /\ IsFiniteSet({e})
  BY FS_Singleton
<1>2. IsFiniteSet({a} \union {b})
  BY <1>1, FS_Union
<1>3. IsFiniteSet({a} \union {b} \union {c})
  BY <1>1, <1>2, FS_Union
<1>4. IsFiniteSet({a} \union {b} \union {c} \union {d})
  BY <1>1, <1>3, FS_Union
<1>5. IsFiniteSet({a} \union {b} \union {c} \union {d} \union {e})
  BY <1>1, <1>4, FS_Union
<1>6. {a, b, c, d, e} = {a} \union {b} \union {c} \union {d} \union {e}
  OBVIOUS
<1> QED
  BY <1>5, <1>6

\* A check of each member of a set of names.
LEMMA EachNameGraded ==
  ASSUME NEW id, NEW S, IsFiniteSet(S), NEW T
  PROVE  /\ Graded(Each(id, [s \in S |-> s \in T]))
         /\ Green(Each(id, [s \in S |-> s \in T])) <=> S \subseteq T
<1> DEFINE named(s) == s \in T
           held == [s \in S |-> named(s)]
<1>1. \A s : named(s) \in BOOLEAN /\ (named(s) <=> s \in T)
  OBVIOUS
<1>2. Each(id, held) = Each(id, [s \in S |-> s \in T])
  OBVIOUS
<1>3. (\A s \in S : named(s)) <=> S \subseteq T
  OBVIOUS
<1> HIDE DEF named
<1>4. DOMAIN held = S /\ \A s \in S : held[s] \in BOOLEAN /\ (held[s] <=> named(s))
  BY <1>1
<1> HIDE DEF held
<1>5. Graded(Each(id, held)) /\ (Green(Each(id, held)) <=> \A s \in S : held[s])
  BY <1>4, EachSlotGraded
<1> QED
  BY <1>2, <1>3, <1>4, <1>5

\* What is upheld by a scope that reads no schema but the envelope's.
LEMMA UpheldSchemaless ==
  ASSUME NEW s \in Schemaless, NEW v, v.envelope = "built"
  PROVE  Upheld(s, v) <=> /\ s = "schema-pipeline" => v.bundle # "absent"
                          /\ v.program \notin Faults(s) \ Idle(s, v) /\ AllAgree(v)
                          /\ Required(s) \subseteq DOMAIN v.files
<1>1. s \notin Corpora /\ s # "ui"
  BY DEF Schemaless, Corpora
<1>2. \A x : Harmless(s, x) = {"agrees"}
  BY <1>1 DEF Harmless
<1>3. Inhabited(s) = {}
  BY DEF Inhabited, Schemaless
<1> QED
  BY <1>1, <1>2, <1>3 DEF Upheld, AllAgree

LEMMA Fixtureless ==
  ASSUME TheCatalog, NEW s \in {"self-check", "schema-pipeline", "codegen",
                                "interpreter-determinism-spike"},
         NEW v, FixturesOK(s, v.files)
  PROVE  DOMAIN v.files = {} /\ Required(s) = {} /\ Idle(s, v) = {}
<1>1. Required(s) = {}
  BY DEF Required
<1>2. Globbed(s) = {}
  BY DEF Globbed, Corpora
<1>3. Idle(s, v) = {}
  BY DEF Idle, Corpora
<1>4. \A x : ~Fixture(s, x)
  BY <1>1, <1>2 DEF Fixture
<1> QED
  BY <1>1, <1>3, <1>4, FixtureFacts

LEMMA SelfCheckTrue ==
  ASSUME TheCatalog, NEW v, FreshView("self-check", v)
  PROVE  Truthful("self-check", v)
<1> DEFINE h == [i \in Invariants |-> TRUE]
           c1 == One("envelope-schema-loads", TRUE)
           c2 == One("good-envelope-validates", v.envelope # "other")
           c3 == Each("invariant", h)
           all == c1 \union c2 \union c3
<1>1. CheckScope("self-check", v) = IF v.envelope = "absent" THEN Thrown ELSE all
  BY DEF CheckScope, SelfCheck
<1>2. Graded(c1) /\ Graded(c2) /\ Green(c1) /\ (Green(c2) <=> v.envelope # "other")
  BY OneGraded
<1>3. Graded(c3) /\ Green(c3)
  <2>1. IsFiniteSet({"bad-envelope-rejected", "seed-deterministic", "flaky-invariant",
                     "flaky-invariant", "flaky-invariant"})
    BY FewFinite
  <2>2. Invariants = {"bad-envelope-rejected", "seed-deterministic", "flaky-invariant",
                      "flaky-invariant", "flaky-invariant"}
    BY DEF Invariants
  <2>3. DOMAIN h = Invariants /\ \A i \in Invariants : h[i] = TRUE
    OBVIOUS
  <2> HIDE DEF h
  <2> QED
    BY <2>1, <2>2, <2>3, EachSlotGraded
<1> HIDE DEF c1, c2, c3
<1>4. Graded(all) /\ (Green(all) <=> v.envelope # "other")
  BY <1>2, <1>3, BothGraded
<1> HIDE DEF all
<1>5. Faults("self-check") = {}
  BY DEF Faults, Corpora
<1>6. DOMAIN v.files = {} /\ Required("self-check") = {}
  BY Fixtureless DEF FreshView
<1>7. ASSUME v.envelope = "built" PROVE Upheld("self-check", v)
  BY <1>5, <1>6, <1>7, UpheldSchemaless DEF AllAgree, Schemaless
<1> QED
  BY <1>1, <1>4, <1>7, FailGraded DEF Truthful

LEMMA AgentKitTrue ==
  ASSUME TheCatalog, NEW v, FreshView("agent-kit", v)
  PROVE  Truthful("agent-kit", v)
<1> DEFINE F == DOMAIN v.files
           h1 == [s \in KitFiles |-> s \in F]
           hooked == v.files[HookSettings] = "agrees"
           validates == /\ Manifest \in F /\ v.files[Manifest] \notin {"invalid", "malformed"}
                        /\ v.bundle # "stale"
           c1 == Each("kit", h1)
           c2 == One("hook-runs-scoped-verify", hooked)
           c3 == One("resources-manifest-validates", validates)
           hook == IF HookSettings \notin F THEN {} ELSE c2
           all == c1 \union hook \union c3
<1>1. CheckScope("agent-kit", v) = IF Manifest \in F /\ v.bundle = "absent" THEN Thrown ELSE all
  BY DEF CheckScope, AgentKit
<1>2. Graded(c1) /\ (Green(c1) <=> KitFiles \subseteq F)
  <2>1. IsFiniteSet(KitFiles)
    <3>1. IsFiniteSet({<<"kit", "agents-md">>, <<"kit", "claude-md">>, <<"kit", "skill-add-schema">>,
                       <<"kit", "skill-run-verify">>, <<"kit", "hook-settings">>})
      BY FewFinite
    <3>2. KitFiles = {<<"kit", "agents-md">>, <<"kit", "claude-md">>, <<"kit", "skill-add-schema">>,
                      <<"kit", "skill-run-verify">>, <<"kit", "hook-settings">>}
      BY DEF KitFiles
    <3> QED
      BY <3>1, <3>2
  <2> HIDE DEF F
  <2> QED
    BY <2>1, EachNameGraded
<1>3. hooked \in BOOLEAN /\ validates \in BOOLEAN
  OBVIOUS
<1> HIDE DEF hooked, validates
<1>4. Graded(c2) /\ (Green(c2) <=> hooked) /\ Graded(c3) /\ (Green(c3) <=> validates)
  BY <1>3, OneGraded
<1>5. Graded({}) /\ Green({})
  BY FS_EmptySet DEF Graded, Green
<1> HIDE DEF c1, c2, c3
<1>6. Graded(hook) /\ (Green(hook) <=> (HookSettings \in F => hooked))
  BY <1>4, <1>5
<1> HIDE DEF hook
<1>7. Graded(all) /\ (Green(all) <=> /\ KitFiles \subseteq F /\ (HookSettings \in F => hooked)
                                     /\ validates)
  BY <1>2, <1>4, <1>6, BothGraded
<1> HIDE DEF all
<1>8. Required("agent-kit") = KitFiles \union {Manifest}
  BY DEF Required
<1>9. Inhabited("agent-kit") = {}
  BY DEF Inhabited
<1>10. Faults("agent-kit") = {}
  BY DEF Faults, Corpora
<1>11. /\ HookSettings \in KitFiles /\ Manifest[1] = "manifest" /\ Manifest # HookSettings
       /\ \A s \in KitFiles : s[1] = "kit"
  BY DEF HookSettings, KitFiles, Manifest
<1>12. ASSUME NEW x \in F
       PROVE  /\ x = Manifest \/ x \in KitFiles
              /\ x = Manifest => v.files[x] \in {"agrees", "invalid", "malformed"}
              /\ x # Manifest /\ x # HookSettings => v.files[x] = "agrees"
  <2>1. Globbed("agent-kit") = {}
    BY DEF Globbed, Corpora
  <2>2. Fixture("agent-kit", x) /\ v.files[x] \in Content("agent-kit", x)
    BY <1>12, FixtureFacts DEF FreshView
  <2>3. x = Manifest \/ x \in KitFiles
    BY <1>8, <2>1, <2>2 DEF Fixture
  <2>4. Flaws("agent-kit", x[1]) = IF x[1] = "manifest" THEN {"invalid", "malformed"} ELSE {}
    BY DEF Flaws, Corpora
  <2> QED
    BY <1>11, <2>2, <2>3, <2>4 DEF Content
<1>13. ASSUME v.envelope = "built"
       PROVE  Green(CheckScope("agent-kit", v)) <=> Upheld("agent-kit", v)
  <2>1. Upheld("agent-kit", v) <=> Emitted(v) /\ AllAgree(v) /\ KitFiles \union {Manifest} \subseteq F
    BY <1>8, <1>9, <1>10, <1>13, UpheldPlainly DEF FreshView
  <2>2. Green(CheckScope("agent-kit", v)) <=>
          /\ ~(Manifest \in F /\ v.bundle = "absent")
          /\ KitFiles \subseteq F /\ hooked /\ validates
    BY <1>1, <1>7, <1>11, FailGraded
  <2>3. AllAgree(v) /\ KitFiles \union {Manifest} \subseteq F
          <=> /\ KitFiles \subseteq F /\ Manifest \in F /\ hooked
              /\ v.files[Manifest] \notin {"invalid", "malformed"}
    BY <1>11, <1>12 DEF AllAgree, hooked
  <2> QED
    BY <2>1, <2>2, <2>3 DEF Emitted, validates
<1> QED
  BY <1>1, <1>7, <1>13, FailGraded DEF Truthful

LEMMA EmptyGraded == Graded({}) /\ Green({})
BY FS_EmptySet DEF Graded, Green

LEMMA MemberGraded ==
  ASSUME NEW id, NEW a, NEW S
  PROVE  Graded(One(id, a \in S)) /\ (Green(One(id, a \in S)) <=> a \in S)
<1> DEFINE held == a \in S
<1>1. held \in BOOLEAN
  OBVIOUS
<1> HIDE DEF held
<1>2. Graded(One(id, held)) /\ (Green(One(id, held)) <=> held)
  BY <1>1, OneGraded
<1> QED
  BY <1>2 DEF held

\* What is upheld by a scope that reads no fixture.
LEMMA UpheldFixtureless ==
  ASSUME TheCatalog, NEW s \in {"schema-pipeline", "codegen", "interpreter-determinism-spike"},
         NEW v, FixturesOK(s, v.files), v.envelope = "built"
  PROVE  Upheld(s, v) <=> /\ s = "schema-pipeline" => v.bundle # "absent"
                          /\ v.program \notin Faults(s)
<1>1. DOMAIN v.files = {} /\ Required(s) = {} /\ Idle(s, v) = {}
  BY Fixtureless
<1>2. s \in Schemaless
  BY DEF Schemaless
<1>3. AllAgree(v)
  BY <1>1 DEF AllAgree
<1> QED
  BY <1>1, <1>2, <1>3, UpheldSchemaless

LEMMA SchemaPipelineTrue ==
  ASSUME TheCatalog, NEW v, FreshView("schema-pipeline", v)
  PROVE  Truthful("schema-pipeline", v)
<1> DEFINE s == "schema-pipeline"
           doc == v.parts.openapi
           c1 == One("json-schema", v.bundle # "absent")
           c2 == One("openapi-present", TRUE)
           c3 == Each("openapi", [a \in DocumentAspects |-> a \in doc.held])
           all == c1 \union (IF doc = NoPart THEN Fail("openapi-present") ELSE c2 \union c3)
<1>1. /\ doc \notin {NoPart, Torn} /\ v.program # "typespec"
      /\ doc.held = DocumentAspects \ {v.program}
  <2>1. "openapi" \in PartsOf(s)
    BY DEF PartsOf
  <2>2. PICK o : /\ o.program = v.program /\ ~ProducerThrows(s, "openapi", o)
                 /\ doc = Produced(s, "openapi", o) /\ doc \notin {NoPart, Torn}
    BY <2>1 DEF FreshView
  <2>3. ~DocumentThrows(o) /\ doc = DocumentResults(o)
    BY <2>2 DEF ProducerThrows, Produced
  <2> HIDE DEF doc
  <2> QED
    BY <2>2, <2>3 DEF DocumentThrows, DocumentResults
<1>2. CheckScope(s, v) = all
  BY <1>1 DEF CheckScope, SchemaPipeline
<1>3. IsFiniteSet(DocumentAspects)
  <2>1. IsFiniteSet({"version", "paths", "canonical", "refs", "refs"})
    BY FewFinite
  <2>2. DocumentAspects = {"version", "paths", "canonical", "refs", "refs"}
    BY DEF DocumentAspects
  <2> QED
    BY <2>1, <2>2
<1>4. Graded(c1) /\ (Green(c1) <=> v.bundle # "absent") /\ Graded(c2) /\ Green(c2)
  BY OneGraded
<1>5. Graded(c3) /\ (Green(c3) <=> DocumentAspects \subseteq doc.held)
  <2> HIDE DEF doc
  <2> QED
    BY <1>3, EachNameGraded
<1> HIDE DEF c1, c2, c3, doc
<1>6. Graded(c2 \union c3) /\ (Green(c2 \union c3) <=> Green(c3))
  BY <1>4, <1>5, BothGraded
<1>7. Graded(all) /\ (Green(all) <=> v.bundle # "absent" /\ DocumentAspects \subseteq doc.held)
  BY <1>1, <1>4, <1>5, <1>6, BothGraded
<1> HIDE DEF all
<1>8. Faults(s) = DocumentAspects \union {"typespec"}
  BY DEF Faults, Corpora
<1>9. ASSUME v.envelope = "built" PROVE Green(all) <=> Upheld(s, v)
  <2>1. Upheld(s, v) <=> v.bundle # "absent" /\ v.program \notin DocumentAspects \union {"typespec"}
    BY <1>8, <1>9, UpheldFixtureless DEF FreshView
  <2> QED
    BY <1>1, <1>7, <2>1
<1> QED
  BY <1>2, <1>7, <1>9 DEF Truthful

LEMMA CodegenTrue ==
  ASSUME TheCatalog, NEW v, FreshView("codegen", v)
  PROVE  Truthful("codegen", v)
<1> DEFINE s == "codegen"
           langs == {"ts", "kotlin"}
           covers(p) == v.parts.openapi.components \subseteq Generated(v, p)
           h1 == [p \in langs |-> v.parts[p] # NoPart]
           h2 == [p \in langs |-> covers(p)]
           parity == \A p \in langs : "VerdictEnvelope" \in Generated(v, p)
           c1 == Each("present", h1)
           c2 == Each("covers-contract", h2)
           c3 == One("canonical-model-parity", parity)
           all == c1 \union (c2 \union c3)
<1>1. /\ v.parts.openapi \notin {NoPart, Torn} /\ v.parts.openapi.components = Components
      /\ \A p \in langs : v.parts[p] # NoPart
      /\ \A p \in langs : Generated(v, p) =
           Components \ (IF v.program = p THEN {"VerdictEnvelope"} ELSE {})
  <2>1. PartsOf(s) = langs \union {"openapi"}
    BY DEF PartsOf
  <2>2. v.parts.openapi \notin {NoPart, Torn} /\ v.parts.openapi.components = Components
    <3>1. PICK o : v.parts["openapi"] = Produced(s, "openapi", o)
      BY <2>1 DEF FreshView
    <3>2. Produced(s, "openapi", o) = DocumentResults(o)
      BY DEF Produced
    <3> DEFINE doc == v.parts["openapi"]
    <3>3. doc = DocumentResults(o) /\ doc \notin {NoPart, Torn}
      BY <2>1, <3>1, <3>2 DEF FreshView
    <3>4. DocumentResults(o).components = Components
      BY DEF DocumentResults
    <3>5. v.parts.openapi = doc
      OBVIOUS
    <3> HIDE DEF doc
    <3> QED
      BY <3>3, <3>4, <3>5
  <2>3. ASSUME NEW p \in langs
        PROVE  /\ v.parts[p] \notin {NoPart, Torn}
               /\ v.parts[p] = Components \ (IF v.program = p THEN {"VerdictEnvelope"} ELSE {})
    <3>1. PICK o : /\ o.program = v.program /\ v.parts[p] = Produced(s, p, o)
                   /\ v.parts[p] \notin {NoPart, Torn}
      BY <2>1 DEF FreshView
    <3>2. Produced(s, p, o) = GeneratedResults(o, p)
      BY DEF Produced
    <3> QED
      BY <3>1, <3>2 DEF GeneratedResults
  <2> QED
    BY <2>2, <2>3 DEF Generated
<1>2. CheckScope(s, v) = all
  <2>1. CheckScope(s, v) = Codegen(v)
    BY DEF CheckScope
  <2>2. /\ v.parts["openapi"] # NoPart /\ v.parts["ts"] # NoPart /\ v.parts["kotlin"] # NoPart
        /\ v.parts.openapi # Torn
    BY <1>1
  <2> QED
    BY <2>1, <2>2 DEF Codegen
<1>3. IsFiniteSet(langs)
  <2>1. IsFiniteSet({"ts", "kotlin", "kotlin", "kotlin", "kotlin"})
    BY FewFinite
  <2>2. langs = {"ts", "kotlin", "kotlin", "kotlin", "kotlin"}
    OBVIOUS
  <2> QED
    BY <2>1, <2>2
<1>4. \A p \in langs : covers(p) \in BOOLEAN /\ (covers(p) <=> v.program # p)
  BY <1>1 DEF Components
<1>5. parity \in BOOLEAN /\ (parity <=> \A p \in langs : v.program # p)
  BY <1>1 DEF Components
<1> HIDE DEF covers, parity
<1>6. Graded(c1) /\ Green(c1)
  <2>1. DOMAIN h1 = langs /\ \A p \in langs : h1[p] \in BOOLEAN /\ h1[p]
    BY <1>1
  <2> HIDE DEF h1, langs
  <2> QED
    BY <1>3, <2>1, EachSlotGraded
<1>7. Graded(c2) /\ (Green(c2) <=> \A p \in langs : v.program # p)
  <2>1. DOMAIN h2 = langs /\ \A p \in langs : h2[p] \in BOOLEAN /\ (h2[p] <=> v.program # p)
    BY <1>4
  <2> HIDE DEF h2, langs
  <2> QED
    BY <1>3, <2>1, EachSlotGraded
<1>8. Graded(c3) /\ (Green(c3) <=> \A p \in langs : v.program # p)
  BY <1>5, OneGraded
<1> HIDE DEF c1, c2, c3
<1>9. Graded(all) /\ (Green(all) <=> \A p \in langs : v.program # p)
  <2>1. Graded(c2 \union c3) /\ (Green(c2 \union c3) <=> Green(c2) /\ Green(c3))
    BY <1>7, <1>8, BothGraded
  <2> QED
    BY <1>6, <1>7, <1>8, <2>1, BothGraded
<1> HIDE DEF all
<1>10. Faults(s) = langs
  BY DEF Faults, Corpora
<1>11. ASSUME v.envelope = "built" PROVE Green(all) <=> Upheld(s, v)
  <2>1. Upheld(s, v) <=> v.program \notin langs
    BY <1>10, <1>11, UpheldFixtureless DEF FreshView
  <2> QED
    BY <1>9, <2>1
<1> QED
  BY <1>2, <1>9, <1>11 DEF Truthful

LEMMA DeterminismSpikeTrue ==
  ASSUME TheCatalog, NEW v, FreshView("interpreter-determinism-spike", v)
  PROVE  Truthful("interpreter-determinism-spike", v)
<1> DEFINE s == "interpreter-determinism-spike"
           r == v.parts.results
           replays == {<<"replay", 1>>, <<"replay", 2>>}
           clean == \A x \in DOMAIN r.rows : "replay" \in r.rows[x]
           c1 == One("sdk-pinned", r.sdk)
           c2 == One("result-correct", "result" \in r.held)
           c3 == One("results-identical", "identical" \in r.held)
           c4 == EachRow(r, "replay", "replay-clean", {"replay"})
           c5 == One("replay-clean", clean)
           c6 == One("history-nonempty", "history" \in r.held)
           c7 == One("sla-fast-forwarded", "fastForwarded" \in r.held)
           all == c1 \union c2 \union c3 \union c4 \union c5 \union c6 \union c7
<1>1. /\ r \notin {NoPart, Torn} /\ r.sdk = (v.program # "sdk")
      /\ r.held = SpikeAspects \ {v.program}
      /\ r.rows = [x \in replays |-> {"replay"} \ {v.program}]
  <2>1. PICK o : o.program = v.program /\ r = Produced(s, "results", o) /\ r \notin {NoPart, Torn}
    BY DEF FreshView, PartsOf
  <2>2. r = SpikeResults(o)
    BY <2>1 DEF Produced
  <2> HIDE DEF r
  <2> QED
    BY <2>1, <2>2 DEF SpikeResults
<1>2. CheckScope(s, v) = all
  BY <1>1 DEF CheckScope, DeterminismSpike, ArtifactOnly
<1> HIDE DEF r
<1>3. /\ DOMAIN r.rows = replays /\ RowsOf(r, "replay") = replays
      /\ \A x \in replays : "replay" \in r.rows[x] <=> v.program # "replay"
      /\ \A x \in replays : Whole(r, x, {"replay"}) <=> v.program # "replay"
  BY <1>1 DEF RowsOf, Whole
<1>4. IsFiniteSet(DOMAIN r.rows)
  <2>1. IsFiniteSet({<<"replay", 1>>, <<"replay", 2>>, <<"replay", 2>>, <<"replay", 2>>,
                     <<"replay", 2>>})
    BY FewFinite
  <2>2. replays = {<<"replay", 1>>, <<"replay", 2>>, <<"replay", 2>>, <<"replay", 2>>,
                   <<"replay", 2>>}
    OBVIOUS
  <2> QED
    BY <1>3, <2>1, <2>2
<1>5. Graded(c1) /\ (Green(c1) <=> v.program # "sdk")
  BY <1>1, OneGraded
<1>6. /\ Graded(c2) /\ (Green(c2) <=> v.program # "result")
      /\ Graded(c3) /\ (Green(c3) <=> v.program # "identical")
      /\ Graded(c6) /\ (Green(c6) <=> v.program # "history")
      /\ Graded(c7) /\ (Green(c7) <=> v.program # "fastForwarded")
  <2>1. \A a \in SpikeAspects : a \in r.held <=> v.program # a
    BY <1>1
  <2>2. {"result", "identical", "history", "fastForwarded"} \subseteq SpikeAspects
    BY DEF SpikeAspects
  <2> QED
    BY <2>1, <2>2, MemberGraded
<1>7. Graded(c4) /\ (Green(c4) <=> v.program # "replay")
  BY <1>3, <1>4, EachRowGraded
<1>8. Graded(c5) /\ (Green(c5) <=> v.program # "replay")
  <2>1. clean \in BOOLEAN /\ (clean <=> v.program # "replay")
    BY <1>3
  <2> HIDE DEF clean
  <2> QED
    BY <2>1, OneGraded
<1> HIDE DEF c1, c2, c3, c4, c5, c6, c7
<1>9. Graded(all) /\ (Green(all) <=> v.program \notin SpikeAspects \union {"sdk"})
  <2> DEFINE some == c1 \union c2 \union c3 \union c4
  <2>1. Graded(some) /\ (Green(some) <=> Green(c1) /\ Green(c2) /\ Green(c3) /\ Green(c4))
    BY <1>5, <1>6, <1>7, FourGraded
  <2> HIDE DEF some
  <2>2. /\ Graded(some \union c5 \union c6 \union c7)
        /\ Green(some \union c5 \union c6 \union c7)
             <=> Green(some) /\ Green(c5) /\ Green(c6) /\ Green(c7)
    BY <1>6, <1>8, <2>1, FourGraded
  <2> QED
    BY <1>5, <1>6, <1>7, <1>8, <2>1, <2>2 DEF some, SpikeAspects
<1> HIDE DEF all
<1>10. Faults(s) = SpikeAspects \union {"sdk"}
  BY DEF Faults, Corpora
<1>11. ASSUME v.envelope = "built" PROVE Green(all) <=> Upheld(s, v)
  BY <1>9, <1>10, <1>11, UpheldFixtureless DEF FreshView
<1> QED
  BY <1>2, <1>9, <1>11 DEF Truthful

LEMMA ContractGateTrue ==
  ASSUME TheCatalog, NEW v, FreshView("contract-gate", v)
  PROVE  Truthful("contract-gate", v)
<1> DEFINE s == "contract-gate"
           r == v.parts.results
           F == DOMAIN v.files
           baseline == <<"contract", "baseline">>
           held == r.breakingChanges = {}
<1>1. /\ r \notin {NoPart, Torn}
      /\ held <=> Having(v, "contract", "differs") = {} /\ v.program # "breaking"
      /\ Slots(v, "contract") # {} /\ ~Malformed(v, {"contract"})
  <2>1. PICK o : /\ o.files = v.files /\ o.program = v.program
                 /\ ~ProducerThrows(s, "results", o)
                 /\ r = Produced(s, "results", o) /\ r \notin {NoPart, Torn}
    BY DEF FreshView, PartsOf
  <2>2. ~ContractDiffThrows(o) /\ r = ContractDiffResults(o)
    BY <2>1 DEF ProducerThrows, Produced
  <2>3. /\ Slots(o, "contract") = Slots(v, "contract")
        /\ Having(o, "contract", "differs") = Having(v, "contract", "differs")
        /\ Malformed(o, {"contract"}) <=> Malformed(v, {"contract"})
    BY <2>1, SameSlots
  <2> DEFINE changed == {<<"document", "change">>}
             broken == IF o.program = "breaking" THEN changed ELSE {}
             found == Having(o, "contract", "differs")
  <2> HIDE DEF r
  <2>4. r.breakingChanges = found \union broken
    BY <2>2 DEF ContractDiffResults
  <2>5. broken = {} <=> o.program # "breaking"
    OBVIOUS
  <2> HIDE DEF broken, found
  <2>6. held <=> found = {} /\ o.program # "breaking"
    BY <2>4, <2>5
  <2> QED
    BY <2>1, <2>2, <2>3, <2>6 DEF ContractDiffThrows, found
<1>2. CheckScope(s, v) = One("no-breaking-changes", held)
  BY <1>1 DEF CheckScope, ContractGate, ArtifactOnly
<1>3. held \in BOOLEAN
  OBVIOUS
<1> HIDE DEF r, held
<1> DEFINE all == One("no-breaking-changes", held)
<1>4. Graded(all) /\ (Green(all) <=> held)
  BY <1>3, OneGraded
<1> HIDE DEF all
<1>5. Required(s) = {baseline}
  BY DEF Required
<1>6. Faults(s) = {"breaking"}
  BY DEF Faults, Corpora
<1>7. Idle(s, v) = {}
  BY DEF Idle, Corpora
<1>8. ASSUME NEW x \in F PROVE x = baseline /\ v.files[x] \in {"agrees", "differs", "malformed"}
  <2>1. Globbed(s) = {}
    BY DEF Globbed, Corpora
  <2>2. Flaws(s, "contract") = {"differs", "malformed"}
    BY DEF Flaws, Corpora
  <2>3. x = baseline
    BY <1>5, <1>8, <2>1, FixtureContent DEF FreshView, Fixture
  <2> QED
    BY <1>8, <2>2, <2>3, FixtureContent DEF FreshView
<1>9. baseline \in F /\ F = {baseline} /\ v.files[baseline] \in {"agrees", "differs"}
  <2>1. PICK x \in F : x[1] = "contract"
    BY <1>1 DEF Slots
  <2>2. v.files[baseline] # "malformed"
    BY <1>1, <1>8, <2>1 DEF Malformed, Having, Slots
  <2> QED
    BY <1>8, <2>1, <2>2
<1>10. Having(v, "contract", "differs") = {} <=> v.files[baseline] = "agrees"
  BY <1>8, <1>9 DEF Having, Slots
<1>11. ASSUME v.envelope = "built" PROVE Green(all) <=> Upheld(s, v)
  <2>1. Upheld(s, v) <=> v.program # "breaking" /\ AllAgree(v) /\ {baseline} \subseteq F
    BY <1>5, <1>6, <1>7, <1>11, UpheldSchemaless DEF Schemaless
  <2>2. AllAgree(v) <=> v.files[baseline] = "agrees"
    BY <1>9 DEF AllAgree
  <2> QED
    BY <1>1, <1>4, <1>9, <1>10, <2>1, <2>2
<1> QED
  BY <1>2, <1>4, <1>11 DEF Truthful, all

LEMMA CodeQualityTrue ==
  ASSUME TheCatalog, NEW v, FreshView("code-quality", v)
  PROVE  Truthful("code-quality", v)
<1> DEFINE s == "code-quality"
           F == DOMAIN v.files
           gradle == <<"gradle", "1">>
           plugins == {"detekt-plugin", "archunit-dep"}
           findings == v.parts.detekt
           rules == v.parts.archunit
           clean == findings = {}
           wired(w) == Slots(v, "gradle") # {} /\ Having(v, "gradle", w) = {}
           h1 == [w \in plugins |-> wired(w)]
           c1 == Each("wiring", h1)
           c2 == One("zero-findings", clean)
           present == DOMAIN rules # {}
           c3 == One("rules-present", present)
           c4 == Each("archunit", rules)
           all == c1 \union c2 \union (c3 \union c4)
<1>1. /\ findings \notin {NoPart, Torn} /\ (clean <=> v.program # "finding")
      /\ rules \notin {NoPart, Torn} /\ rules = [rule \in ArchRules |-> v.program # rule]
  <2>1. PartsOf(s) = {"detekt", "archunit"}
    BY DEF PartsOf
  <2>2. PICK o : /\ o.program = v.program /\ v.parts["detekt"] = Produced(s, "detekt", o)
                 /\ v.parts["detekt"] \notin {NoPart, Torn}
    BY <2>1 DEF FreshView
  <2>3. Produced(s, "detekt", o) = DetektResults(o)
    BY DEF Produced
  <2>4. PICK u : /\ u.program = v.program /\ v.parts["archunit"] = Produced(s, "archunit", u)
                 /\ v.parts["archunit"] \notin {NoPart, Torn}
    BY <2>1 DEF FreshView
  <2>5. Produced(s, "archunit", u) = ArchUnitResults(u)
    BY DEF Produced
  <2> QED
    BY <2>2, <2>3, <2>4, <2>5 DEF DetektResults, ArchUnitResults
<1>2. CheckScope(s, v) = all
  <2>1. CheckScope(s, v) = CodeQuality(v)
    BY DEF CheckScope
  <2>2. /\ v.parts.detekt # Torn /\ v.parts.detekt # NoPart
        /\ v.parts.archunit # Torn /\ v.parts.archunit # NoPart
    BY <1>1
  <2> QED
    BY <2>1, <2>2 DEF CodeQuality
<1>3. /\ \A w : wired(w) \in BOOLEAN
      /\ clean \in BOOLEAN /\ present \in BOOLEAN
  OBVIOUS
<1>4. (\A w \in plugins : wired(w)) <=>
        Slots(v, "gradle") # {} /\ \A w \in plugins : Having(v, "gradle", w) = {}
  OBVIOUS
<1>5. /\ DOMAIN rules = ArchRules /\ \A a \in ArchRules : rules[a] \in BOOLEAN
      /\ \A a \in ArchRules : rules[a] <=> v.program # a
  BY <1>1
<1>6. IsFiniteSet(plugins) /\ IsFiniteSet(ArchRules)
  <2>1. /\ IsFiniteSet({"detekt-plugin", "archunit-dep", "archunit-dep", "archunit-dep",
                        "archunit-dep"})
        /\ IsFiniteSet({"spi-boundary", "pep-boundary", "pep-boundary", "pep-boundary",
                        "pep-boundary"})
    BY FewFinite
  <2>2. /\ plugins = {"detekt-plugin", "archunit-dep", "archunit-dep", "archunit-dep",
                      "archunit-dep"}
        /\ ArchRules = {"spi-boundary", "pep-boundary", "pep-boundary", "pep-boundary",
                        "pep-boundary"}
    BY DEF ArchRules
  <2> QED
    BY <2>1, <2>2
<1>7. present
  BY <1>5 DEF ArchRules
<1> HIDE DEF wired, clean, present, findings, rules
<1>8. Graded(c1) /\ (Green(c1) <=> \A w \in plugins : wired(w))
  <2>1. DOMAIN h1 = plugins /\ \A w \in plugins : h1[w] \in BOOLEAN /\ (h1[w] <=> wired(w))
    BY <1>3
  <2> HIDE DEF h1, plugins
  <2> QED
    BY <1>6, <2>1, EachSlotGraded
<1>9. Graded(c2) /\ (Green(c2) <=> clean) /\ Graded(c3) /\ Green(c3)
  BY <1>3, <1>7, OneGraded
<1>10. Graded(c4) /\ (Green(c4) <=> \A a \in ArchRules : v.program # a)
  <2>1. DOMAIN rules = ArchRules /\ \A a \in ArchRules : rules[a] \in BOOLEAN
    BY <1>5
  <2>2. Graded(c4) /\ (Green(c4) <=> \A a \in ArchRules : rules[a])
    BY <1>6, <2>1, EachSlotGraded
  <2>3. (\A a \in ArchRules : rules[a]) <=> \A a \in ArchRules : v.program # a
    BY <1>5
  <2> QED
    BY <2>2, <2>3
<1> HIDE DEF c1, c2, c3, c4
<1>11. Graded(all) /\ (Green(all) <=> /\ \A w \in plugins : wired(w)
                                      /\ v.program \notin {"finding"} \union ArchRules)
  <2>1. Graded(c3 \union c4) /\ (Green(c3 \union c4) <=> Green(c4))
    BY <1>9, <1>10, BothGraded
  <2>2. Graded(c1 \union c2) /\ (Green(c1 \union c2) <=> Green(c1) /\ Green(c2))
    BY <1>8, <1>9, BothGraded
  <2>3. Graded(all) /\ (Green(all) <=> Green(c1) /\ Green(c2) /\ Green(c4))
    BY <2>1, <2>2, BothGraded
  <2> QED
    BY <1>1, <1>8, <1>9, <1>10, <2>3
<1> HIDE DEF all
<1>12. Required(s) = {gradle}
  BY DEF Required
<1>13. Faults(s) = {"finding"} \union ArchRules
  BY DEF Faults, Corpora
<1>14. Idle(s, v) = {}
  BY DEF Idle, Corpora
<1>15. ASSUME NEW x \in F PROVE x = gradle /\ v.files[x] \in {"agrees"} \union plugins
  <2>1. Globbed(s) = {}
    BY DEF Globbed, Corpora
  <2>2. Flaws(s, "gradle") = plugins
    BY DEF Flaws, Corpora
  <2>3. x = gradle
    BY <1>12, <1>15, <2>1, FixtureContent DEF FreshView, Fixture
  <2> QED
    BY <1>15, <2>2, <2>3, FixtureContent DEF FreshView
<1>16. Slots(v, "gradle") = F /\ (F # {} <=> {gradle} \subseteq F)
  BY <1>15 DEF Slots
<1>17. (\A w \in plugins : Having(v, "gradle", w) = {}) <=> AllAgree(v)
  BY <1>15, <1>16 DEF Having, AllAgree
<1>18. ASSUME v.envelope = "built" PROVE Green(all) <=> Upheld(s, v)
  <2>1. Upheld(s, v) <=> /\ v.program \notin {"finding"} \union ArchRules
                         /\ AllAgree(v) /\ {gradle} \subseteq F
    BY <1>12, <1>13, <1>14, <1>18, UpheldSchemaless DEF Schemaless
  <2> QED
    BY <1>4, <1>11, <1>16, <1>17, <2>1
<1> QED
  BY <1>2, <1>11, <1>18 DEF Truthful

LEMMA ReferenceDataTrue ==
  ASSUME TheCatalog, NEW v, FreshView("reference-data", v)
  PROVE  Truthful("reference-data", v)
<1> DEFINE s == "reference-data"
           F == DOMAIN v.files
           codes == Slots(v, "codeset")
           dangling == Having(v, "codeset", "dangling")
           resolves(x) == x \notin dangling
           covered(x) == v.files[x] # "uncovered"
           none == dangling = {}
           h1 == [x \in codes |-> resolves(x)]
           h2 == [x \in codes \ dangling |-> covered(x)]
           c0 == One("fixtures-present", TRUE)
           c1 == DslValid(v, "codeset")
           c2 == Each("resolves", h1)
           c3 == Each("effective", h2)
           c4 == One("no-dangling", none)
           judged == c0 \union c1 \union c2 \union c3 \union c4
           all == IF codes = {} THEN Fail("fixtures-present")
                  ELSE IF v.bundle = "stale" THEN Fail("schema-present")
                  ELSE IF v.bundle = "absent" \/ Malformed(v, {"codeset"}) THEN Thrown
                  ELSE judged
<1>1. CheckScope(s, v) = all
  BY DEF CheckScope, ReferenceDataScope
<1>2. IsFiniteSet(F)
  BY FixtureFacts DEF FreshView
<1>3. IsFiniteSet(codes) /\ IsFiniteSet(codes \ dangling)
  BY <1>2, SlotsFinite, FS_Subset
<1>4. /\ \A x : resolves(x) \in BOOLEAN /\ (resolves(x) <=> x \notin dangling)
      /\ \A x : covered(x) \in BOOLEAN /\ (covered(x) <=> v.files[x] # "uncovered")
      /\ none \in BOOLEAN /\ (none <=> dangling = {})
  OBVIOUS
<1>5. ASSUME NEW x \in F
      PROVE  x[1] = "codeset" /\ v.files[x] \in {"agrees", "invalid", "malformed", "dangling",
                                                 "uncovered"}
  <2>1. Required(s) = {}
    BY DEF Required
  <2>2. Globbed(s) = {"codeset"}
    BY DEF Globbed, Corpora
  <2>3. Flaws(s, "codeset") = {"invalid", "malformed", "dangling", "uncovered"}
    BY DEF Flaws, Corpora
  <2>4. x[1] = "codeset"
    BY <1>5, <2>1, <2>2, FixtureContent DEF FreshView, Fixture
  <2> QED
    BY <1>5, <2>3, <2>4, FixtureContent DEF FreshView
<1>6. codes = F /\ \A x : x \in dangling <=> x \in F /\ v.files[x] = "dangling"
  BY <1>5 DEF Slots, Having
<1>7. ~Malformed(v, {"codeset"}) <=> \A x \in F : v.files[x] # "malformed"
  BY <1>5, ParsedTells
<1>8. Graded(c1) /\ (Green(c1) <=> \A x \in codes : v.files[x] # "invalid")
  BY <1>2, DslGraded
<1> HIDE DEF resolves, covered, none, codes, dangling
<1>9. Graded(c2) /\ (Green(c2) <=> \A x \in codes : x \notin dangling)
  <2>1. DOMAIN h1 = codes /\ \A x \in codes : h1[x] \in BOOLEAN /\ (h1[x] <=> x \notin dangling)
    BY <1>4
  <2> HIDE DEF h1
  <2> QED
    BY <1>3, <2>1, EachSlotGraded
<1>10. Graded(c3) /\ (Green(c3) <=> \A x \in codes \ dangling : v.files[x] # "uncovered")
  <2> DEFINE rest == codes \ dangling
  <2>1. /\ DOMAIN h2 = rest
        /\ \A x \in rest : h2[x] \in BOOLEAN /\ (h2[x] <=> v.files[x] # "uncovered")
    BY <1>4
  <2> HIDE DEF h2, rest
  <2>2. Graded(c3) /\ (Green(c3) <=> \A x \in rest : h2[x])
    BY <1>3, <2>1, EachSlotGraded DEF rest
  <2> QED
    BY <2>1, <2>2 DEF rest
<1>11. Graded(c0) /\ Green(c0) /\ Graded(c4) /\ (Green(c4) <=> dangling = {})
  BY <1>4, OneGraded
<1> HIDE DEF c0, c1, c2, c3, c4
<1>12. Graded(judged) /\ (Green(judged) <=> Green(c1) /\ Green(c2) /\ Green(c3) /\ Green(c4))
  <2> DEFINE some == c0 \union c1 \union c2 \union c3
  <2>1. Graded(some) /\ (Green(some) <=> Green(c1) /\ Green(c2) /\ Green(c3))
    BY <1>8, <1>9, <1>10, <1>11, FourGraded
  <2> HIDE DEF some
  <2>2. Graded(some \union c4) /\ (Green(some \union c4) <=> Green(some) /\ Green(c4))
    BY <1>11, <2>1, BothGraded
  <2> QED
    BY <2>1, <2>2 DEF some
<1>13. Green(judged) <=> \A x \in F : v.files[x] \notin {"invalid", "dangling", "uncovered"}
  BY <1>6, <1>8, <1>9, <1>10, <1>11, <1>12
<1> HIDE DEF judged
<1>14. /\ Graded(all)
       /\ Green(all) <=> F # {} /\ Emitted(v) /\ \A x \in F : v.files[x] = "agrees"
  BY <1>5, <1>6, <1>7, <1>12, <1>13, FailGraded DEF Emitted
<1> HIDE DEF all
<1>15. Required(s) = {}
  BY DEF Required
<1>16. Inhabited(s) = {"codeset"}
  BY DEF Inhabited
<1>17. Faults(s) = {}
  BY DEF Faults, Corpora
<1>18. ASSUME v.envelope = "built" PROVE Green(all) <=> Upheld(s, v)
  <2>1. Upheld(s, v) <=> Emitted(v) /\ AllAgree(v) /\ codes # {}
    BY <1>15, <1>16, <1>17, <1>18, UpheldPlainly DEF FreshView, codes
  <2> QED
    BY <1>6, <1>14, <2>1 DEF AllAgree
<1> QED
  BY <1>1, <1>14, <1>18 DEF Truthful

\* A check of each aspect on each row.
LEMMA EachAspectGraded ==
  ASSUME NEW r, IsFiniteSet(DOMAIN r.rows), NEW f, NEW aspects, IsFiniteSet(aspects)
  PROVE  /\ Graded(EachAspect(r, f, aspects))
         /\ Green(EachAspect(r, f, aspects))
              <=> \A a \in aspects : \A x \in RowsOf(r, f) : Whole(r, x, {a})
<1> DEFINE row == [a \in aspects |-> EachRow(r, f, a, {a})]
<1>1. EachAspect(r, f, aspects) = UNION {row[a] : a \in aspects}
  BY DEF EachAspect
<1>2. ASSUME NEW a \in aspects
      PROVE  Graded(row[a]) /\ (Green(row[a]) <=> \A x \in RowsOf(r, f) : Whole(r, x, {a}))
  BY EachRowGraded
<1> HIDE DEF row
<1>3. /\ Graded(UNION {row[a] : a \in aspects})
      /\ Green(UNION {row[a] : a \in aspects}) <=> \A a \in aspects : Green(row[a])
  <2>1. \A a \in aspects : Graded(row[a])
    BY <1>2
  <2> QED
    BY <2>1, AllGraded
<1>4. (\A a \in aspects : Green(row[a]))
        <=> \A a \in aspects : \A x \in RowsOf(r, f) : Whole(r, x, {a})
  BY <1>2
<1> QED
  BY <1>1, <1>3, <1>4

LEMMA ProjectionSpikeTrue ==
  ASSUME TheCatalog, NEW v, FreshView("decision-projection-spike", v)
  PROVE  Truthful("decision-projection-spike", v)
<1> DEFINE s == "decision-projection-spike"
           r == v.parts.results
           V == Slots(v, "vector")
           c1 == One("engine", r.engine)
           c2 == EachAspect(r, "vector", ProjectionAspects)
           all == c1 \union c2
<1>1. PICK o : /\ o.files = v.files /\ o.program = v.program
               /\ ~Malformed(o, {"vector"}) /\ r = ProjectionResults(o)
               /\ r \notin {NoPart, Torn}
  BY DEF FreshView, PartsOf, ProducerThrows, Produced
<1>2. IsFiniteSet(DOMAIN v.files)
  BY FixtureFacts DEF FreshView
<1>3. CheckScope(s, v) = all
  BY <1>1 DEF CheckScope, DecisionProjectionSpike, ArtifactOnly
<1>4. r.engine = (v.program # "engine")
  BY <1>1 DEF ProjectionResults
<1>5. Rows(r, o, "vector", ProjectionAspects, "expected") /\ Slots(o, "vector") = V
  <2>1. r.rows = RowsFor(o, {"vector"}, ProjectionAspects, "expected")
    BY <1>1 DEF ProjectionResults
  <2> HIDE DEF r
  <2> QED
    BY <1>1, <1>2, <2>1, RowsForTells, SameSlots
<1>6. IsFiniteSet(ProjectionAspects)
  <2>1. IsFiniteSet({"errors", "match", "expected", "expected", "expected"})
    BY FewFinite
  <2>2. ProjectionAspects = {"errors", "match", "expected", "expected", "expected"}
    BY DEF ProjectionAspects
  <2> QED
    BY <2>1, <2>2
<1> HIDE DEF r
<1>7. Graded(c1) /\ (Green(c1) <=> v.program # "engine")
  BY <1>4, OneGraded
<1>8. Graded(c2) /\ (Green(c2) <=> \A a \in ProjectionAspects : \A x \in V :
                                     Ran(o, x, ProjectionAspects, "expected", {a}))
  BY <1>5, <1>6, EachAspectGraded DEF Rows
<1> HIDE DEF c1, c2
<1>9. ASSUME NEW x \in V
      PROVE  (\A a \in ProjectionAspects : Ran(o, x, ProjectionAspects, "expected", {a}))
               <=> v.program \notin ProjectionAspects /\ v.files[x] # "differs"
  BY <1>1 DEF Ran, ProjectionAspects
<1>10. Graded(all) /\ (Green(all) <=>
         /\ v.program # "engine"
         /\ \A x \in V : v.program \notin ProjectionAspects /\ v.files[x] # "differs")
  BY <1>7, <1>8, <1>9, BothGraded
<1> HIDE DEF all
<1>11. ASSUME NEW x \in DOMAIN v.files
       PROVE  x[1] = "vector" /\ v.files[x] \in {"agrees", "differs", "malformed"}
  <2>1. Required(s) = {}
    BY DEF Required
  <2>2. Globbed(s) = {"vector"}
    BY DEF Globbed, Corpora
  <2>3. Flaws(s, "vector") = {"differs", "malformed"}
    BY DEF Flaws, Corpora
  <2>4. Fixture(s, x) /\ (x[1] # "kit" => v.files[x] \in {"agrees"} \union Flaws(s, x[1]))
    BY <1>11, FixtureContent DEF FreshView
  <2>5. x[1] = "vector"
    BY <2>1, <2>2, <2>4 DEF Fixture
  <2> QED
    BY <2>3, <2>4, <2>5
<1>12. DOMAIN v.files = V
  BY <1>11 DEF Slots
<1>13. \A x \in V : v.files[x] # "malformed"
  <2>1. ~Malformed(v, {"vector"})
    BY <1>1, SameSlots
  <2> QED
    BY <1>11, <1>12, <2>1, ParsedTells
<1>14. Required(s) = {}
  BY DEF Required
<1>15. Faults(s) = ProjectionAspects \union {"engine"}
  BY DEF Faults, Corpora
<1>16. Idle(s, v) = IF V = {} THEN ProjectionAspects ELSE {}
  BY <1>12 DEF Idle, Corpora
<1>17. "engine" \notin ProjectionAspects
  BY DEF ProjectionAspects
<1> HIDE DEF V
<1>18. ASSUME v.envelope = "built" PROVE Green(all) <=> Upheld(s, v)
  <2>1. Upheld(s, v) <=> /\ v.program \notin Faults(s) \ Idle(s, v) /\ AllAgree(v)
    BY <1>14, <1>18, UpheldSchemaless DEF Schemaless
  <2>2. AllAgree(v) <=> \A x \in V : v.files[x] # "differs"
    BY <1>11, <1>12, <1>13 DEF AllAgree
  <2>3. v.program \notin Faults(s) \ Idle(s, v)
          <=> v.program # "engine" /\ (V # {} => v.program \notin ProjectionAspects)
    BY <1>15, <1>16, <1>17
  <2> QED
    BY <1>10, <2>1, <2>2, <2>3
<1> QED
  BY <1>3, <1>10, <1>18 DEF Truthful

-----------------------------------------------------------------------------
(* The outer boundary.                                                     *)

LEMMA AllGreenGraded ==
  ASSUME NEW id, NEW r, NEW S, IsFiniteSet(S), NEW aspects
  PROVE  LET C == AllGreen(id, CountWhole(r, S, aspects), S)
         IN  Graded(C) /\ (Green(C) <=> S # {} /\ \A x \in S : Whole(r, x, aspects))
<1> DEFINE held == CountWhole(r, S, aspects) = Cardinality(S) /\ S # {}
<1>1. held \in BOOLEAN /\ (held <=> S # {} /\ \A x \in S : Whole(r, x, aspects))
  BY CountTells
<1>2. AllGreen(id, CountWhole(r, S, aspects), S) = One(id, held)
  BY DEF AllGreen
<1> HIDE DEF held
<1> QED
  BY <1>1, <1>2, OneGraded

LEMMA BoundaryGraded ==
  ASSUME NEW v, IsFiniteSet(DOMAIN v.files), v.parts.results \notin {NoPart, Torn},
         NEW families, IsFiniteSet(families), families # {}, NEW judged, Graded(judged)
  PROVE  /\ Graded(BoundaryScope(v, families, judged))
         /\ Green(BoundaryScope(v, families, judged)) <=>
              /\ Emitted(v) /\ ~Malformed(v, families) /\ Green(judged)
              /\ \A f \in families : Slots(v, f) # {}
              /\ \A f \in families : \A x \in Slots(v, f) : v.files[x] # "invalid"
<1> DEFINE valid == [f \in families |-> FamilyValid(v, f)]
           all == Validated(v, families) \union judged
<1>1. BoundaryScope(v, families, judged) =
        IF v.bundle = "absent" \/ (v.bundle # "stale" /\ Malformed(v, families)) THEN Thrown
        ELSE all
  BY DEF BoundaryScope
<1>2. ASSUME NEW f \in families
      PROVE  /\ Graded(valid[f])
             /\ Green(valid[f]) <=> /\ v.bundle # "stale" /\ Slots(v, f) # {}
                                    /\ \A x \in Slots(v, f) : v.files[x] # "invalid"
  <2> DEFINE some == Slots(v, f) # {}
             c0 == At("schema-present", f, FALSE)
             c1 == At("fixtures-present", f, some)
             c2 == DslValid(v, f)
  <2>1. valid[f] = IF v.bundle = "stale" THEN c0 ELSE c1 \union c2
    BY DEF FamilyValid
  <2>2. some \in BOOLEAN /\ (some <=> Slots(v, f) # {})
    OBVIOUS
  <2> HIDE DEF some
  <2>3. /\ Graded(c0) /\ ~Green(c0) /\ Graded(c1) /\ (Green(c1) <=> some)
        /\ Graded(c2) /\ (Green(c2) <=> \A x \in Slots(v, f) : v.files[x] # "invalid")
    BY <2>2, AtGraded, DslGraded
  <2> HIDE DEF c0, c1, c2, valid
  <2>4. Graded(c1 \union c2) /\ (Green(c1 \union c2) <=> Green(c1) /\ Green(c2))
    BY <2>3, BothGraded
  <2> QED
    BY <2>1, <2>2, <2>3, <2>4
<1>3. Validated(v, families) = UNION {valid[f] : f \in families}
  BY DEF Validated
<1> HIDE DEF valid
<1>4. /\ Graded(Validated(v, families))
      /\ Green(Validated(v, families)) <=> \A f \in families : Green(valid[f])
  <2>1. \A f \in families : Graded(valid[f])
    BY <1>2
  <2>2. /\ Graded(UNION {valid[f] : f \in families})
        /\ Green(UNION {valid[f] : f \in families}) <=> \A f \in families : Green(valid[f])
    BY <2>1, AllGraded
  <2> QED
    BY <1>3, <2>2
<1>5. Graded(all) /\ (Green(all) <=> Green(judged) /\ \A f \in families : Green(valid[f]))
  BY <1>4, BothGraded
<1> HIDE DEF all
<1> QED
  BY <1>1, <1>2, <1>5, FailGraded DEF Emitted

LEMMA ScenariosFinite == IsFiniteSet(Scenarios) /\ Scenarios = {"duplicate", "poison", "redelivery"}
<1>1. IsFiniteSet({"duplicate", "poison", "redelivery", "redelivery", "redelivery"})
  BY FewFinite
<1> QED
  BY <1>1 DEF Scenarios

LEMMA ReliabilityTells ==
  ASSUME NEW rows, IsFiniteSet(DOMAIN rows), NEW other, NEW r, r = WithReliability(rows, other)
  PROVE  /\ r.rows = rows /\ r.other = other
         /\ Graded(ReliabilityChecks(r))
         /\ Green(ReliabilityChecks(r)) <=>
              /\ \A x \in RowsOf(r, "reliability") : "counts" \in rows[x]
              /\ \A c \in Scenarios : <<"reliability", c>> \in DOMAIN rows
<1> DEFINE bare == [rows |-> rows]
           R == RowsOf(r, "reliability")
           had(c) == ScenarioPass(bare, c)
           c1 == EachRow(r, "reliability", "reliability", {"counts"})
           c2 == AllGreen("reliability-green", r.reliabilityGreen, R)
           c3 == One("dedup", r.dedupPass)
           c4 == One("dlq", r.dlqPass)
           c5 == One("redelivery", r.redeliveryPass)
<1>1. /\ r.rows = rows /\ r.other = other
      /\ r.reliabilityGreen = CountWhole(bare, RowsOf(bare, "reliability"), {"counts"})
      /\ r.dedupPass = had("duplicate") /\ r.dlqPass = had("poison")
      /\ r.redeliveryPass = had("redelivery")
  BY DEF WithReliability
<1>2. /\ RowsOf(bare, "reliability") = R /\ IsFiniteSet(R)
      /\ \A x : Whole(bare, x, {"counts"}) <=> "counts" \in rows[x]
      /\ \A x : Whole(r, x, {"counts"}) <=> "counts" \in rows[x]
      /\ \A c : <<"reliability", c>> \in DOMAIN rows <=> <<"reliability", c>> \in R
  BY <1>1, FS_Subset DEF RowsOf, Whole
<1>3. /\ \A c : had(c) \in BOOLEAN
      /\ \A c : had(c) <=> /\ <<"reliability", c>> \in DOMAIN rows
                           /\ "counts" \in rows[<<"reliability", c>>]
  BY DEF ScenarioPass
<1>4. ReliabilityChecks(r) = c1 \union c2 \union c3 \union c4 \union c5
  BY DEF ReliabilityChecks
<1> HIDE DEF bare, R, had
<1>5. Graded(c1) /\ (Green(c1) <=> \A x \in R : "counts" \in rows[x])
  BY <1>1, <1>2, EachRowGraded DEF R
<1>6. Graded(c2) /\ (Green(c2) <=> R # {} /\ \A x \in R : "counts" \in rows[x])
  BY <1>1, <1>2, AllGreenGraded
<1>7. /\ Graded(c3) /\ (Green(c3) <=> had("duplicate"))
      /\ Graded(c4) /\ (Green(c4) <=> had("poison"))
      /\ Graded(c5) /\ (Green(c5) <=> had("redelivery"))
  BY <1>1, <1>3, OneGraded
<1> HIDE DEF c1, c2, c3, c4, c5
<1> DEFINE some == c1 \union c2 \union c3 \union c4
<1>8. Graded(some) /\ (Green(some) <=> Green(c1) /\ Green(c2) /\ Green(c3) /\ Green(c4))
  BY <1>5, <1>6, <1>7, FourGraded
<1>9. ReliabilityChecks(r) = some \union c5
  BY <1>4
<1> HIDE DEF some
<1>10. /\ Graded(ReliabilityChecks(r))
       /\ Green(ReliabilityChecks(r)) <=>
            /\ \A x \in R : "counts" \in rows[x]
            /\ R # {} /\ \A c \in Scenarios : had(c)
  BY <1>5, <1>6, <1>7, <1>8, <1>9, BothGraded, ScenariosFinite
<1>11. (/\ \A x \in R : "counts" \in rows[x]
        /\ R # {} /\ \A c \in Scenarios : had(c))
       <=> /\ \A x \in R : "counts" \in rows[x]
           /\ \A c \in Scenarios : <<"reliability", c>> \in DOMAIN rows
  <2>1. "poison" \in Scenarios
    BY DEF Scenarios
  <2> QED
    BY <1>2, <1>3, <2>1
<1> QED
  BY <1>1, <1>10, <1>11 DEF R

\* What the adapters' producer leaves of each fixture.
LEMMA AdapterRows ==
  ASSUME NEW o, IsFiniteSet(DOMAIN o.files), NEW r, r = AdapterResults(o)
  PROVE  LET goldens == Slots(o, "goldens")
             ports == Slots(o, "ports")
             reliability == Slots(o, "reliability")
             mapped == Slots(o, "mappings") # {}
             wired == mapped /\ \E x \in goldens : o.files[x] # "raising"
         IN  /\ IsFiniteSet(DOMAIN r.rows)
             /\ RowsOf(r, "goldens") = goldens /\ RowsOf(r, "ports") = ports
             /\ RowsOf(r, "reliability") = reliability
             /\ \A x : x \in DOMAIN r.rows <=> x \in goldens \union ports \union reliability
             /\ \A x \in goldens : Whole(r, x, {"match"}) <=>
                  mapped /\ o.program # "match" /\ o.files[x] \notin {"raising", "differs"}
             /\ \A x \in ports : Whole(r, x, {"roundTrip"}) <=>
                  wired /\ o.program # "roundTrip" /\ o.files[x] # "differs"
             /\ \A x \in reliability : "counts" \in r.rows[x] <=>
                  o.program # "counts" /\ o.files[x] # "differs"
             /\ r.other.goldensGreen = CountWhole(r, goldens, {"match"})
             /\ r.other.contractGreen = CountWhole(r, ports, {"roundTrip"})
             /\ r.other.bound <=> \A t \in Transports : <<"ports", t>> \in DOMAIN r.rows
             /\ r.other.bound \in BOOLEAN
             /\ \E rows, other : r = WithReliability(rows, other)
<1> DEFINE goldens == Slots(o, "goldens")
           ports == Slots(o, "ports")
           reliability == Slots(o, "reliability")
           raised == Having(o, "goldens", "raising")
           mapped == Slots(o, "mappings") # {}
           wired == mapped /\ goldens \ raised # {}
           row(s) == CASE s[1] = "goldens" -> IF mapped /\ s \notin raised
                                              THEN Row(o, s, {"match"}, "match") ELSE {}
                       [] s[1] = "ports" -> IF wired THEN Row(o, s, {"roundTrip"}, "roundTrip") ELSE {}
                       [] OTHER -> Row(o, s, {"counts"}, "counts")
           ran == OfFamilies(o, AdapterFamilies \ {"mappings"})
           rows == [s \in ran |-> row(s)]
           bare == [rows |-> rows]
           bound == \A t \in Transports : <<"ports", t>> \in DOMAIN rows
           other == [goldensGreen  |-> CountWhole(bare, goldens, {"match"}),
                     bound         |-> bound,
                     contractGreen |-> CountWhole(bare, ports, {"roundTrip"})]
<1>1. r = WithReliability(rows, other)
  BY DEF AdapterResults
<1>2. wired <=> mapped /\ (\E x \in goldens : o.files[x] # "raising")
  BY DEF Having
<1>3. /\ ran = goldens \union ports \union reliability /\ IsFiniteSet(ran)
      /\ \A x \in goldens : x[1] = "goldens"
      /\ \A x \in ports : x[1] = "ports"
      /\ \A x \in reliability : x[1] = "reliability"
  BY FS_Subset DEF OfFamilies, Slots, AdapterFamilies
<1>4. ran \subseteq DOMAIN o.files
  BY DEF OfFamilies
<1> HIDE DEF mapped, wired, ran
<1>5. DOMAIN rows = ran /\ \A x \in ran : rows[x] = row(x)
  OBVIOUS
<1>6. \A x \in goldens : {"match"} \subseteq rows[x] <=>
        mapped /\ o.program # "match" /\ o.files[x] \notin {"raising", "differs"}
  <2> TAKE x \in goldens
  <2>1. rows[x] = IF mapped /\ x \notin raised THEN Row(o, x, {"match"}, "match") ELSE {}
    BY <1>2, <1>3, <1>5
  <2>2. x \in raised <=> o.files[x] = "raising"
    BY DEF Having
  <2> QED
    BY <2>1, <2>2, RowTells DEF Ran
<1>7. \A x \in ports : {"roundTrip"} \subseteq rows[x] <=>
        wired /\ o.program # "roundTrip" /\ o.files[x] # "differs"
  <2> TAKE x \in ports
  <2>1. rows[x] = IF wired THEN Row(o, x, {"roundTrip"}, "roundTrip") ELSE {}
    BY <1>3, <1>5
  <2> QED
    BY <2>1, RowTells DEF Ran
<1>8. \A x \in reliability : "counts" \in rows[x] <=>
        o.program # "counts" /\ o.files[x] # "differs"
  <2> TAKE x \in reliability
  <2>1. rows[x] = Row(o, x, {"counts"}, "counts")
    BY <1>3, <1>5
  <2> QED
    BY <2>1 DEF Row
<1> HIDE DEF row, rows
<1> DEFINE G == CountWhole(bare, goldens, {"match"})
           P == CountWhole(bare, ports, {"roundTrip"})
<1> HIDE DEF bound
<1>9. other.goldensGreen = G /\ other.bound = bound /\ other.contractGreen = P
  OBVIOUS
<1> HIDE DEF other
<1>10. r.rows = rows /\ r.other = other
  BY <1>1 DEF WithReliability
<1>11. G = CountWhole(r, goldens, {"match"}) /\ P = CountWhole(r, ports, {"roundTrip"})
  BY <1>10 DEF CountWhole, Whole
<1> HIDE DEF G, P, goldens, ports, reliability
<1>12. /\ RowsOf(r, "goldens") = goldens /\ RowsOf(r, "ports") = ports
       /\ RowsOf(r, "reliability") = reliability
  BY <1>3, <1>5, <1>10 DEF RowsOf
<1>13. bound \in BOOLEAN /\ (bound <=> \A t \in Transports : <<"ports", t>> \in DOMAIN rows)
  BY DEF bound
<1>14. /\ \A x : Whole(r, x, {"match"}) <=> {"match"} \subseteq rows[x]
       /\ \A x : Whole(r, x, {"roundTrip"}) <=> {"roundTrip"} \subseteq rows[x]
  BY <1>10 DEF Whole
<1>15. \E table, rest : r = WithReliability(table, rest)
  BY <1>1
<1> QED
  BY <1>2, <1>3, <1>5, <1>6, <1>7, <1>8, <1>9, <1>10, <1>11, <1>12, <1>13, <1>14, <1>15
     DEF goldens, ports, reliability, mapped

LEMMA AdaptersTell ==
  ASSUME NEW v, IsFiniteSet(DOMAIN v.files), v.parts.results \notin {NoPart, Torn},
         NEW o, o.files = v.files, o.program = v.program, v.parts.results = AdapterResults(o),
         v.bundle \in Bundles
  PROVE  /\ Graded(Adapters(v))
         /\ Green(Adapters(v)) <=>
              /\ Emitted(v) /\ ~Malformed(v, AdapterFamilies)
              /\ \A f \in AdapterFamilies : Slots(v, f) # {}
              /\ \A f \in AdapterFamilies : \A x \in Slots(v, f) : v.files[x] # "invalid"
              /\ \A x \in Slots(v, "goldens") : v.files[x] \notin {"raising", "differs"}
              /\ \A f \in {"ports", "reliability"} : \A x \in Slots(v, f) : v.files[x] # "differs"
              /\ \A t \in Transports : <<"ports", t>> \in DOMAIN v.files
              /\ \A c \in Scenarios : <<"reliability", c>> \in DOMAIN v.files
              /\ v.program \notin {"match", "roundTrip", "counts"}
<1> DEFINE r == v.parts.results
           c1 == EachRow(r, "goldens", "golden", {"match"})
           c2 == AllGreen("goldens-green", r.other.goldensGreen, RowsOf(r, "goldens"))
           c3 == One("bindings-covered", r.other.bound)
           c4 == EachRow(r, "ports", "binding-contract", {"roundTrip"})
           c5 == AllGreen("binding-contract-green", r.other.contractGreen, RowsOf(r, "ports"))
           c6 == ReliabilityChecks(r)
           c7 == IF v.bundle = "stale" THEN {} ELSE One("envelope-schema-present", TRUE)
           judged == c1 \union c2 \union c3 \union c4 \union c5 \union c6 \union c7
           G == Slots(v, "goldens")
           P == Slots(v, "ports")
           R == Slots(v, "reliability")
           mapped == Slots(v, "mappings") # {}
           wired == mapped /\ \E x \in G : v.files[x] # "raising"
<1>1. /\ IsFiniteSet(DOMAIN r.rows)
      /\ RowsOf(r, "goldens") = G /\ RowsOf(r, "ports") = P /\ RowsOf(r, "reliability") = R
      /\ \A x : x \in DOMAIN r.rows <=> x \in G \union P \union R
      /\ \A x \in G : Whole(r, x, {"match"}) <=>
           mapped /\ v.program # "match" /\ v.files[x] \notin {"raising", "differs"}
      /\ \A x \in P : Whole(r, x, {"roundTrip"}) <=>
           wired /\ v.program # "roundTrip" /\ v.files[x] # "differs"
      /\ \A x \in R : "counts" \in r.rows[x] <=> v.program # "counts" /\ v.files[x] # "differs"
      /\ r.other.goldensGreen = CountWhole(r, G, {"match"})
      /\ r.other.contractGreen = CountWhole(r, P, {"roundTrip"})
      /\ r.other.bound <=> \A t \in Transports : <<"ports", t>> \in DOMAIN r.rows
      /\ r.other.bound \in BOOLEAN
      /\ \E rows, other : r = WithReliability(rows, other)
  <2>1. Slots(o, "goldens") = G /\ Slots(o, "ports") = P /\ Slots(o, "reliability") = R
        /\ Slots(o, "mappings") = Slots(v, "mappings")
    BY SameSlots
  <2> HIDE DEF r
  <2>2. r = AdapterResults(o)
    BY DEF r
  <2> QED
    BY <2>1, <2>2, AdapterRows
<1>2. Adapters(v) = BoundaryScope(v, AdapterFamilies, judged)
  BY DEF Adapters
<1>3. IsFiniteSet(G) /\ IsFiniteSet(P)
  BY SlotsFinite
<1> HIDE DEF r, G, P, R, mapped, wired
<1>4. Graded(c1) /\ (Green(c1) <=> \A x \in G : Whole(r, x, {"match"}))
  BY <1>1, EachRowGraded
<1>5. Graded(c2) /\ (Green(c2) <=> G # {} /\ \A x \in G : Whole(r, x, {"match"}))
  BY <1>1, <1>3, AllGreenGraded
<1>6. Graded(c3) /\ (Green(c3) <=> r.other.bound)
  BY <1>1, OneGraded
<1>7. Graded(c4) /\ (Green(c4) <=> \A x \in P : Whole(r, x, {"roundTrip"}))
  BY <1>1, EachRowGraded
<1>8. Graded(c5) /\ (Green(c5) <=> P # {} /\ \A x \in P : Whole(r, x, {"roundTrip"}))
  BY <1>1, <1>3, AllGreenGraded
<1>9. /\ Graded(c6)
      /\ Green(c6) <=> /\ \A x \in R : "counts" \in r.rows[x]
                       /\ \A c \in Scenarios : <<"reliability", c>> \in DOMAIN r.rows
  <2>1. PICK rows, other : r = WithReliability(rows, other)
    BY <1>1
  <2>2. r.rows = rows
    BY <2>1 DEF WithReliability
  <2> QED
    BY <1>1, <2>1, <2>2, ReliabilityTells
<1>10. Graded(c7) /\ Green(c7)
  BY OneGraded, EmptyGraded
<1> HIDE DEF c1, c2, c3, c4, c5, c6, c7
<1>11. /\ Graded(judged)
       /\ Green(judged) <=> /\ Green(c1) /\ Green(c2) /\ Green(c3) /\ Green(c4)
                            /\ Green(c5) /\ Green(c6)
  <2> DEFINE some == c1 \union c2 \union c3 \union c4
  <2>1. Graded(some) /\ (Green(some) <=> Green(c1) /\ Green(c2) /\ Green(c3) /\ Green(c4))
    BY <1>4, <1>5, <1>6, <1>7, FourGraded
  <2>2. judged = some \union c5 \union c6 \union c7
    OBVIOUS
  <2> HIDE DEF some, judged
  <2> QED
    BY <1>8, <1>9, <1>10, <2>1, <2>2, FourGraded
<1>12. /\ Graded(Adapters(v))
       /\ Green(Adapters(v)) <=>
            /\ Emitted(v) /\ ~Malformed(v, AdapterFamilies) /\ Green(judged)
            /\ \A f \in AdapterFamilies : Slots(v, f) # {}
            /\ \A f \in AdapterFamilies : \A x \in Slots(v, f) : v.files[x] # "invalid"
  <2>1. IsFiniteSet(AdapterFamilies) /\ AdapterFamilies # {}
    <3>1. IsFiniteSet({"ports", "mappings", "goldens", "reliability", "reliability"})
      BY FewFinite
    <3> QED
      BY <3>1 DEF AdapterFamilies
  <2> HIDE DEF judged
  <2> QED
    BY <1>2, <1>11, <2>1, BoundaryGraded
<1>13. ASSUME \A f \in AdapterFamilies : Slots(v, f) # {}
       PROVE  Green(judged) <=>
                /\ \A x \in G : v.files[x] \notin {"raising", "differs"}
                /\ \A x \in P \union R : v.files[x] # "differs"
                /\ \A t \in Transports : <<"ports", t>> \in DOMAIN v.files
                /\ \A c \in Scenarios : <<"reliability", c>> \in DOMAIN v.files
                /\ v.program \notin {"match", "roundTrip", "counts"}
  <2>1. mapped /\ G # {} /\ P # {} /\ R # {}
    BY <1>13 DEF mapped, G, P, R, AdapterFamilies
  <2>2. /\ \A t : <<"ports", t>> \in DOMAIN r.rows <=> <<"ports", t>> \in DOMAIN v.files
        /\ \A c : <<"reliability", c>> \in DOMAIN r.rows <=> <<"reliability", c>> \in DOMAIN v.files
    BY <1>1 DEF G, P, R, Slots
  <2>3. (\A x \in G : Whole(r, x, {"match"})) <=>
          v.program # "match" /\ \A x \in G : v.files[x] \notin {"raising", "differs"}
    BY <1>1, <2>1
  <2>4. (\A x \in G : v.files[x] # "raising") => wired
    BY <2>1 DEF wired
  <2>5. (\A x \in P : Whole(r, x, {"roundTrip"})) <=>
          wired /\ v.program # "roundTrip" /\ \A x \in P : v.files[x] # "differs"
    BY <1>1, <2>1
  <2>6. (\A x \in R : "counts" \in r.rows[x]) <=>
          v.program # "counts" /\ \A x \in R : v.files[x] # "differs"
    BY <1>1, <2>1
  <2> HIDE DEF judged
  <2>7. Green(judged) <=>
          /\ \A x \in G : Whole(r, x, {"match"})
          /\ \A t \in Transports : <<"ports", t>> \in DOMAIN v.files
          /\ \A x \in P : Whole(r, x, {"roundTrip"})
          /\ \A x \in R : "counts" \in r.rows[x]
          /\ \A c \in Scenarios : <<"reliability", c>> \in DOMAIN v.files
    BY <1>1, <1>4, <1>5, <1>6, <1>7, <1>8, <1>9, <1>11, <2>1, <2>2
  <2> QED
    BY <2>3, <2>4, <2>5, <2>6, <2>7
<1> HIDE DEF judged
<1> QED
  BY <1>12, <1>13 DEF G, P, R

LEMMA AdaptersTrue ==
  ASSUME TheCatalog, NEW v, FreshView("adapters", v)
  PROVE  Truthful("adapters", v)
<1> DEFINE s == "adapters"
           F == DOMAIN v.files
           needed == {<<"ports", t>> : t \in Transports} \union {<<"reliability", c>> : c \in Scenarios}
                       \union {<<"mappings", "1">>}
<1>1. PICK o : /\ o.files = v.files /\ o.program = v.program
               /\ v.parts.results = AdapterResults(o) /\ v.parts.results \notin {NoPart, Torn}
  BY DEF FreshView, PartsOf, Produced
<1>2. IsFiniteSet(F) /\ CheckScope(s, v) = Adapters(v) /\ v.bundle \in Bundles
  BY FixtureFacts DEF FreshView, CheckScope
<1>3. Required(s) = needed
  BY DEF Required
<1>4. ASSUME NEW x \in F
      PROVE  /\ x[1] \in AdapterFamilies /\ x = <<x[1], x[2]>>
             /\ x[1] = "mappings" => x[2] = "1"
             /\ v.files[x] \in {"agrees", "invalid", "malformed", "differs", "raising"}
             /\ v.files[x] = "differs" => x[1] # "mappings"
             /\ v.files[x] = "raising" => x[1] = "goldens"
  <2>1. Globbed(s) = {"goldens", "reliability"}
    BY DEF Globbed, Corpora
  <2>2. Fixture(s, x) /\ x = <<x[1], x[2]>>
        /\ (x[1] # "kit" => v.files[x] \in {"agrees"} \union Flaws(s, x[1]))
    BY <1>4, FixtureContent DEF FreshView
  <2>3. x \in needed \/ x[1] \in {"goldens", "reliability"}
    BY <1>3, <2>1, <2>2 DEF Fixture
  <2>4. x[1] \in AdapterFamilies /\ (x[1] = "mappings" => x[2] = "1")
    BY <2>3 DEF AdapterFamilies
  <2>5. Flaws(s, x[1]) = {"invalid", "malformed"}
                         \union (IF x[1] = "mappings" THEN {} ELSE {"differs"})
                         \union (IF x[1] = "goldens" THEN {"raising"} ELSE {})
    BY DEF Flaws, Corpora
  <2>6. x[1] # "kit"
    BY <2>4 DEF AdapterFamilies
  <2> HIDE DEF F
  <2> QED
    BY <2>2, <2>4, <2>5, <2>6
<1>5. \A f : \A x : x \in Slots(v, f) <=> x \in F /\ x[1] = f
  BY DEF Slots
<1>6. ~Malformed(v, AdapterFamilies) <=> \A x \in F : v.files[x] # "malformed"
  BY <1>4, ParsedTells
<1>7. Faults(s) = {"match", "roundTrip", "counts"}
  BY DEF Faults, Corpora
<1>8. Inhabited(s) = {"goldens"}
  BY DEF Inhabited
<1>9. needed \subseteq F <=> /\ \A t \in Transports : <<"ports", t>> \in F
                             /\ \A c \in Scenarios : <<"reliability", c>> \in F
                             /\ <<"mappings", "1">> \in F
  OBVIOUS
<1>10. needed \subseteq F /\ Slots(v, "goldens") # {}
         <=> /\ \A f \in AdapterFamilies : Slots(v, f) # {}
             /\ \A t \in Transports : <<"ports", t>> \in F
             /\ \A c \in Scenarios : <<"reliability", c>> \in F
  <2>1. Slots(v, "mappings") # {} <=> <<"mappings", "1">> \in F
    <3>1. ASSUME NEW x \in Slots(v, "mappings") PROVE <<"mappings", "1">> \in F
      BY <1>4, <1>5, <3>1
    <3>2. <<"mappings", "1">> \in F => <<"mappings", "1">> \in Slots(v, "mappings")
      BY <1>5
    <3> QED
      BY <3>1, <3>2
  <2>2. <<"ports", "rest">> \in F => Slots(v, "ports") # {}
    BY <1>5
  <2>3. <<"reliability", "poison">> \in F => Slots(v, "reliability") # {}
    BY <1>5
  <2>4. "rest" \in Transports /\ "poison" \in Scenarios
    BY DEF Transports, Scenarios
  <2>5. (\A f \in AdapterFamilies : Slots(v, f) # {}) <=>
          /\ Slots(v, "ports") # {} /\ Slots(v, "mappings") # {}
          /\ Slots(v, "goldens") # {} /\ Slots(v, "reliability") # {}
    BY DEF AdapterFamilies
  <2> HIDE DEF F, needed
  <2> QED
    BY <1>9, <2>1, <2>2, <2>3, <2>4, <2>5
<1>11. AllAgree(v) <=>
         /\ \A x \in F : v.files[x] # "malformed"
         /\ \A f \in AdapterFamilies : \A x \in Slots(v, f) : v.files[x] # "invalid"
         /\ \A x \in Slots(v, "goldens") : v.files[x] \notin {"raising", "differs"}
         /\ \A f \in {"ports", "reliability"} : \A x \in Slots(v, f) : v.files[x] # "differs"
  <2>1. ASSUME NEW x \in F, v.files[x] = "differs"
        PROVE  x \in Slots(v, "goldens") \/ x \in Slots(v, "ports") \/ x \in Slots(v, "reliability")
    BY <1>4, <1>5, <2>1 DEF AdapterFamilies
  <2>2. ASSUME NEW x \in F, v.files[x] = "raising" PROVE x \in Slots(v, "goldens")
    BY <1>4, <1>5, <2>2
  <2>3. ASSUME NEW x \in F PROVE \E f \in AdapterFamilies : x \in Slots(v, f)
    BY <1>4, <1>5, <2>3
  <2>4. \A f : Slots(v, f) \subseteq F
    BY <1>5
  <2>5. \A x \in F : v.files[x] \in {"agrees", "invalid", "malformed", "differs", "raising"}
    BY <1>4
  <2>6. AllAgree(v) <=> \A x \in F : v.files[x] = "agrees"
    BY DEF AllAgree
  <2> HIDE DEF F
  <2>7. AllAgree(v) => /\ \A x \in F : v.files[x] # "malformed"
         /\ \A f : \A x \in Slots(v, f) : v.files[x] \notin {"invalid", "raising", "differs"}
    BY <2>4, <2>6
  <2> QED
    BY <2>1, <2>2, <2>3, <2>5, <2>6, <2>7
<1> HIDE DEF needed
<1>12. ASSUME v.envelope = "built" PROVE Green(Adapters(v)) <=> Upheld(s, v)
  <2>1. Upheld(s, v) <=> /\ Emitted(v) /\ v.program \notin {"match", "roundTrip", "counts"}
                         /\ AllAgree(v) /\ needed \subseteq F /\ Slots(v, "goldens") # {}
    BY <1>2, <1>3, <1>7, <1>8, <1>12, UpheldPlainly
  <2> QED
    BY <1>1, <1>2, <1>6, <1>10, <1>11, <2>1, AdaptersTell
<1> QED
  BY <1>1, <1>2, <1>12, AdaptersTell DEF Truthful

Drivers == {<<"drivers", c>> : c \in Channels}
ChannelsOf(v) == {s[2] : s \in Slots(v, "templates")}

\* What the notifications' producer leaves of each fixture, and of each driver.
LEMMA NotificationRows ==
  ASSUME NEW o, IsFiniteSet(DOMAIN o.files), NEW r, r = NotificationResults(o)
  PROVE  LET goldens == Slots(o, "goldens")
             reliability == Slots(o, "reliability")
             drivers == Drivers
         IN  /\ IsFiniteSet(DOMAIN r.rows)
             /\ RowsOf(r, "goldens") = goldens /\ RowsOf(r, "drivers") = drivers
             /\ RowsOf(r, "reliability") = reliability
             /\ \A x : x \in DOMAIN r.rows <=> x \in goldens \union reliability \union drivers
             /\ \A x \in goldens : Whole(r, x, {"match"}) <=>
                  /\ <<"templates", x[2]>> \in DOMAIN o.files
                  /\ o.program # "match" /\ o.files[x] # "differs"
             /\ \A x \in drivers : Whole(r, x, {"delivered", "driverId"}) <=>
                  o.program \notin {"delivered", "driverId"}
             /\ \A x \in drivers : Whole(r, x, {"delivered"}) <=> o.program # "delivered"
             /\ \A x \in reliability : "counts" \in r.rows[x] <=>
                  o.program # "counts" /\ o.files[x] # "differs"
             /\ r.other.goldensGreen = CountWhole(r, goldens, {"match"})
             /\ r.other.driversGreen = CountWhole(r, drivers, {"delivered"})
             /\ r.other.channelsCovered = ChannelsOf(o)
             /\ \E rows, other : r = WithReliability(rows, other)
<1> DEFINE goldens == Slots(o, "goldens")
           reliability == Slots(o, "reliability")
           drivers == {<<"drivers", c>> : c \in Channels}
           row(s) == IF s[1] = "goldens"
                     THEN IF <<"templates", s[2]>> \in DOMAIN o.files
                          THEN Row(o, s, {"match"}, "match") ELSE {}
                     ELSE Row(o, s, {"counts"}, "counts")
           fixtures == [s \in goldens \union reliability |-> row(s)]
           driven == [s \in drivers |-> {"delivered", "driverId"} \ {o.program}]
           rows == [s \in DOMAIN fixtures \union DOMAIN driven |->
                      IF s \in DOMAIN driven THEN driven[s] ELSE fixtures[s]]
           bare == [rows |-> rows]
           other == [goldensGreen    |-> CountWhole(bare, goldens, {"match"}),
                     channelsCovered |-> {s[2] : s \in Slots(o, "templates")},
                     driversGreen    |-> CountWhole(bare, DOMAIN driven, {"delivered"})]
<1>1. r = WithReliability(rows, other)
  BY DEF NotificationResults
<1>2. /\ \A x \in goldens : x[1] = "goldens"
      /\ \A x \in reliability : x[1] = "reliability"
      /\ \A x \in drivers : x[1] = "drivers"
  BY DEF Slots
<1>3. IsFiniteSet(goldens) /\ IsFiniteSet(reliability) /\ IsFiniteSet(drivers)
  <2>1. IsFiniteSet({<<"drivers", "email">>, <<"drivers", "sms">>, <<"drivers", "sms">>,
                     <<"drivers", "sms">>, <<"drivers", "sms">>})
    BY FewFinite
  <2>2. drivers = {<<"drivers", "email">>, <<"drivers", "sms">>, <<"drivers", "sms">>,
                   <<"drivers", "sms">>, <<"drivers", "sms">>}
    BY DEF Channels
  <2> QED
    BY <2>1, <2>2, SlotsFinite
<1> HIDE DEF row, goldens, reliability, drivers
<1>4. /\ DOMAIN fixtures = goldens \union reliability /\ DOMAIN driven = drivers
      /\ \A x \in goldens \union reliability : fixtures[x] = row(x)
      /\ \A x \in drivers : driven[x] = {"delivered", "driverId"} \ {o.program}
  OBVIOUS
<1> HIDE DEF fixtures, driven
<1>5. /\ DOMAIN rows = goldens \union reliability \union drivers
      /\ \A x \in goldens \union reliability : rows[x] = row(x)
      /\ \A x \in drivers : rows[x] = {"delivered", "driverId"} \ {o.program}
  BY <1>2, <1>4
<1> HIDE DEF rows
<1>6. IsFiniteSet(DOMAIN rows)
  <2>1. IsFiniteSet(goldens \union reliability)
    BY <1>3, FS_Union
  <2>2. IsFiniteSet(goldens \union reliability \union drivers)
    BY <1>3, <2>1, FS_Union
  <2> QED
    BY <1>5, <2>2
<1>7. \A x \in goldens : {"match"} \subseteq rows[x] <=>
        /\ <<"templates", x[2]>> \in DOMAIN o.files
        /\ o.program # "match" /\ o.files[x] # "differs"
  <2> TAKE x \in goldens
  <2>1. rows[x] = IF <<"templates", x[2]>> \in DOMAIN o.files
                  THEN Row(o, x, {"match"}, "match") ELSE {}
    BY <1>2, <1>5 DEF row
  <2> QED
    BY <2>1, RowTells DEF Ran
<1>8. \A x \in reliability : "counts" \in rows[x] <=>
        o.program # "counts" /\ o.files[x] # "differs"
  <2> TAKE x \in reliability
  <2>1. rows[x] = Row(o, x, {"counts"}, "counts")
    BY <1>2, <1>5 DEF row
  <2> QED
    BY <2>1 DEF Row
<1> DEFINE G == CountWhole(bare, goldens, {"match"})
           D == CountWhole(bare, DOMAIN driven, {"delivered"})
           covered == {s[2] : s \in Slots(o, "templates")}
<1>9. other.goldensGreen = G /\ other.driversGreen = D /\ other.channelsCovered = covered
  OBVIOUS
<1> HIDE DEF other
<1>10. r.rows = rows /\ r.other = other
  BY <1>1 DEF WithReliability
<1>11. G = CountWhole(r, goldens, {"match"}) /\ D = CountWhole(r, drivers, {"delivered"})
  BY <1>4, <1>10 DEF CountWhole, Whole
<1> HIDE DEF G, D, covered
<1>12. /\ RowsOf(r, "goldens") = goldens /\ RowsOf(r, "drivers") = drivers
       /\ RowsOf(r, "reliability") = reliability
  BY <1>2, <1>5, <1>10 DEF RowsOf
<1>13. /\ \A x : Whole(r, x, {"match"}) <=> {"match"} \subseteq rows[x]
       /\ \A x \in drivers : Whole(r, x, {"delivered", "driverId"}) <=>
            o.program \notin {"delivered", "driverId"}
       /\ \A x \in drivers : Whole(r, x, {"delivered"}) <=> o.program # "delivered"
  BY <1>5, <1>10 DEF Whole
<1>14. \E table, rest : r = WithReliability(table, rest)
  BY <1>1
<1> QED
  BY <1>5, <1>6, <1>7, <1>8, <1>9, <1>10, <1>11, <1>12, <1>13, <1>14
     DEF goldens, reliability, drivers, covered, Drivers, ChannelsOf

LEMMA NotificationsTell ==
  ASSUME NEW v, IsFiniteSet(DOMAIN v.files), v.parts.results \notin {NoPart, Torn},
         NEW o, o.files = v.files, o.program = v.program,
         v.parts.results = NotificationResults(o), v.bundle \in Bundles
  PROVE  /\ Graded(Notifications(v))
         /\ Green(Notifications(v)) <=>
              /\ Emitted(v) /\ ~Malformed(v, NotificationFamilies)
              /\ \A f \in NotificationFamilies : Slots(v, f) # {}
              /\ \A f \in NotificationFamilies : \A x \in Slots(v, f) : v.files[x] # "invalid"
              /\ \A x \in Slots(v, "goldens") : <<"templates", x[2]>> \in DOMAIN v.files
              /\ \A f \in {"goldens", "reliability"} : \A x \in Slots(v, f) : v.files[x] # "differs"
              /\ Channels \subseteq ChannelsOf(v)
              /\ \A c \in Scenarios : <<"reliability", c>> \in DOMAIN v.files
              /\ v.program \notin {"match", "counts", "delivered", "driverId"}
<1> DEFINE r == v.parts.results
           G == Slots(v, "goldens")
           R == Slots(v, "reliability")
           D == Drivers
           covered == Channels \subseteq r.other.channelsCovered
           c1 == EachRow(r, "goldens", "render-golden", {"match"})
           c2 == AllGreen("render-goldens-green", r.other.goldensGreen, RowsOf(r, "goldens"))
           c3 == One("channels-covered", covered)
           c4 == EachRow(r, "drivers", "driver-selection", {"delivered", "driverId"})
           c5 == AllGreen("driver-selection-green", r.other.driversGreen, RowsOf(r, "drivers"))
           c6 == ReliabilityChecks(r)
           judged == c1 \union c2 \union c3 \union c4 \union c5 \union c6
<1>1. /\ IsFiniteSet(DOMAIN r.rows)
      /\ RowsOf(r, "goldens") = G /\ RowsOf(r, "drivers") = D /\ RowsOf(r, "reliability") = R
      /\ \A x : x \in DOMAIN r.rows <=> x \in G \union R \union D
      /\ \A x \in G : Whole(r, x, {"match"}) <=>
           /\ <<"templates", x[2]>> \in DOMAIN v.files
           /\ v.program # "match" /\ v.files[x] # "differs"
      /\ \A x \in D : Whole(r, x, {"delivered", "driverId"}) <=>
           v.program \notin {"delivered", "driverId"}
      /\ \A x \in D : Whole(r, x, {"delivered"}) <=> v.program # "delivered"
      /\ \A x \in R : "counts" \in r.rows[x] <=> v.program # "counts" /\ v.files[x] # "differs"
      /\ r.other.goldensGreen = CountWhole(r, G, {"match"})
      /\ r.other.driversGreen = CountWhole(r, D, {"delivered"})
      /\ r.other.channelsCovered = ChannelsOf(v)
      /\ \E rows, other : r = WithReliability(rows, other)
  <2>1. /\ Slots(o, "goldens") = G /\ Slots(o, "reliability") = R
        /\ ChannelsOf(o) = ChannelsOf(v)
    BY SameSlots DEF ChannelsOf
  <2> HIDE DEF r
  <2>2. r = NotificationResults(o)
    BY DEF r
  <2> QED
    BY <2>1, <2>2, NotificationRows
<1>2. Notifications(v) = BoundaryScope(v, NotificationFamilies, judged)
  BY DEF Notifications
<1>3. IsFiniteSet(G) /\ IsFiniteSet(D) /\ D # {}
  <2>1. D \subseteq DOMAIN r.rows
    BY <1>1
  <2>2. <<"drivers", "sms">> \in D
    BY DEF Drivers, Channels
  <2> HIDE DEF D
  <2> QED
    BY <1>1, <2>1, <2>2, SlotsFinite, FS_Subset
<1>4. covered \in BOOLEAN /\ (covered <=> Channels \subseteq ChannelsOf(v))
  BY <1>1
<1> HIDE DEF r, G, R, D, covered
<1>5. Graded(c1) /\ (Green(c1) <=> \A x \in G : Whole(r, x, {"match"}))
  BY <1>1, EachRowGraded
<1>6. Graded(c2) /\ (Green(c2) <=> G # {} /\ \A x \in G : Whole(r, x, {"match"}))
  BY <1>1, <1>3, AllGreenGraded
<1>7. Graded(c3) /\ (Green(c3) <=> covered)
  BY <1>4, OneGraded
<1>8. Graded(c4) /\ (Green(c4) <=> \A x \in D : Whole(r, x, {"delivered", "driverId"}))
  BY <1>1, EachRowGraded
<1>9. Graded(c5) /\ (Green(c5) <=> D # {} /\ \A x \in D : Whole(r, x, {"delivered"}))
  BY <1>1, <1>3, AllGreenGraded
<1>10. /\ Graded(c6)
       /\ Green(c6) <=> /\ \A x \in R : "counts" \in r.rows[x]
                        /\ \A c \in Scenarios : <<"reliability", c>> \in DOMAIN r.rows
  <2>1. PICK rows, other : r = WithReliability(rows, other)
    BY <1>1
  <2>2. r.rows = rows
    BY <2>1 DEF WithReliability
  <2> QED
    BY <1>1, <2>1, <2>2, ReliabilityTells
<1> HIDE DEF c1, c2, c3, c4, c5, c6
<1>11. /\ Graded(judged)
       /\ Green(judged) <=> /\ Green(c1) /\ Green(c2) /\ Green(c3) /\ Green(c4)
                            /\ Green(c5) /\ Green(c6)
  <2> DEFINE some == c1 \union c2 \union c3 \union c4
  <2>1. Graded(some) /\ (Green(some) <=> Green(c1) /\ Green(c2) /\ Green(c3) /\ Green(c4))
    BY <1>5, <1>6, <1>7, <1>8, FourGraded
  <2>2. judged = some \union c5 \union c6 \union {}
    OBVIOUS
  <2> HIDE DEF some, judged
  <2> QED
    BY <1>9, <1>10, <2>1, <2>2, FourGraded, EmptyGraded
<1>12. /\ Graded(Notifications(v))
       /\ Green(Notifications(v)) <=>
            /\ Emitted(v) /\ ~Malformed(v, NotificationFamilies) /\ Green(judged)
            /\ \A f \in NotificationFamilies : Slots(v, f) # {}
            /\ \A f \in NotificationFamilies : \A x \in Slots(v, f) : v.files[x] # "invalid"
  <2>1. IsFiniteSet(NotificationFamilies) /\ NotificationFamilies # {}
    <3>1. IsFiniteSet({"templates", "goldens", "reliability", "reliability", "reliability"})
      BY FewFinite
    <3> QED
      BY <3>1 DEF NotificationFamilies
  <2> HIDE DEF judged
  <2> QED
    BY <1>2, <1>11, <2>1, BoundaryGraded
<1>13. ASSUME \A f \in NotificationFamilies : Slots(v, f) # {}
       PROVE  Green(judged) <=>
                /\ \A x \in G : <<"templates", x[2]>> \in DOMAIN v.files
                /\ \A x \in G \union R : v.files[x] # "differs"
                /\ covered
                /\ \A c \in Scenarios : <<"reliability", c>> \in DOMAIN v.files
                /\ v.program \notin {"match", "counts", "delivered", "driverId"}
  <2>1. G # {} /\ R # {}
    BY <1>13 DEF G, R, NotificationFamilies
  <2>2. \A c : <<"reliability", c>> \in DOMAIN r.rows <=> <<"reliability", c>> \in DOMAIN v.files
    BY <1>1 DEF G, R, D, Drivers, Slots
  <2>3. (\A x \in G : Whole(r, x, {"match"})) <=>
          /\ v.program # "match" /\ \A x \in G : v.files[x] # "differs"
          /\ \A x \in G : <<"templates", x[2]>> \in DOMAIN v.files
    BY <1>1, <2>1
  <2>4. (\A x \in D : Whole(r, x, {"delivered", "driverId"})) <=>
          v.program \notin {"delivered", "driverId"}
    BY <1>1, <1>3
  <2>5. (\A x \in D : Whole(r, x, {"delivered"})) <=> v.program # "delivered"
    BY <1>1, <1>3
  <2>6. (\A x \in R : "counts" \in r.rows[x]) <=>
          v.program # "counts" /\ \A x \in R : v.files[x] # "differs"
    BY <1>1, <2>1
  <2> HIDE DEF judged
  <2>7. Green(judged) <=>
          /\ \A x \in G : Whole(r, x, {"match"})
          /\ covered
          /\ \A x \in D : Whole(r, x, {"delivered", "driverId"})
          /\ \A x \in D : Whole(r, x, {"delivered"})
          /\ \A x \in R : "counts" \in r.rows[x]
          /\ \A c \in Scenarios : <<"reliability", c>> \in DOMAIN v.files
    BY <1>3, <1>5, <1>6, <1>7, <1>8, <1>9, <1>10, <1>11, <2>1, <2>2
  <2> QED
    BY <2>3, <2>4, <2>5, <2>6, <2>7
<1> HIDE DEF judged
<1> QED
  BY <1>4, <1>12, <1>13 DEF G, R

LEMMA NotificationsTrue ==
  ASSUME TheCatalog, NEW v, FreshView("notifications", v)
  PROVE  Truthful("notifications", v)
<1> DEFINE s == "notifications"
           F == DOMAIN v.files
           needed == {<<"templates", c>> : c \in Channels}
                       \union {<<"reliability", c>> : c \in Scenarios}
           T == Slots(v, "templates")
<1>1. PICK o : /\ o.files = v.files /\ o.program = v.program
               /\ v.parts.results = NotificationResults(o) /\ v.parts.results \notin {NoPart, Torn}
  BY DEF FreshView, PartsOf, Produced
<1>2. IsFiniteSet(F) /\ CheckScope(s, v) = Notifications(v) /\ v.bundle \in Bundles
  BY FixtureFacts DEF FreshView, CheckScope
<1>3. Required(s) = needed
  BY DEF Required
<1>4. ASSUME NEW x \in F
      PROVE  /\ x[1] \in NotificationFamilies /\ x = <<x[1], x[2]>>
             /\ x[1] = "goldens" => x[2] \in Channels
             /\ v.files[x] \in {"agrees", "invalid", "malformed", "differs"}
             /\ v.files[x] = "differs" => x[1] # "templates"
  <2>1. Globbed(s) = {"templates", "reliability"}
    BY DEF Globbed, Corpora
  <2>2. Fixture(s, x) /\ x = <<x[1], x[2]>>
        /\ (x[1] # "kit" => v.files[x] \in {"agrees"} \union Flaws(s, x[1]))
    BY <1>4, FixtureContent DEF FreshView
  <2>3. \/ x \in needed \/ x[1] \in {"templates", "reliability"}
        \/ x \in {<<"goldens", c>> : c \in Channels}
    BY <1>3, <2>1, <2>2 DEF Fixture
  <2>4. x[1] \in NotificationFamilies /\ (x[1] = "goldens" => x[2] \in Channels)
    BY <2>3 DEF NotificationFamilies
  <2>5. Flaws(s, x[1]) = {"invalid", "malformed"}
                         \union (IF x[1] = "templates" THEN {} ELSE {"differs"})
    BY DEF Flaws, Corpora
  <2>6. x[1] # "kit"
    BY <2>4 DEF NotificationFamilies
  <2> HIDE DEF F
  <2> QED
    BY <2>2, <2>4, <2>5, <2>6
<1>5. \A f : \A x : x \in Slots(v, f) <=> x \in F /\ x[1] = f
  BY DEF Slots
<1>6. ~Malformed(v, NotificationFamilies) <=> \A x \in F : v.files[x] # "malformed"
  BY <1>4, ParsedTells
<1>7. Faults(s) = {"match", "counts", "delivered", "driverId"}
  BY DEF Faults, Corpora
<1>8. Inhabited(s) = {"goldens"}
  BY DEF Inhabited
<1>9. needed \subseteq F <=> /\ \A c \in Channels : <<"templates", c>> \in F
                             /\ \A c \in Scenarios : <<"reliability", c>> \in F
  OBVIOUS
<1>10. ASSUME NEW c PROVE c \in ChannelsOf(v) <=> <<"templates", c>> \in F
  <2>1. ASSUME NEW x \in T, c = x[2] PROVE <<"templates", c>> \in F
    BY <1>4, <1>5, <2>1
  <2>2. ASSUME <<"templates", c>> \in F PROVE c \in ChannelsOf(v)
    BY <1>5, <2>2 DEF ChannelsOf
  <2> QED
    BY <2>1, <2>2 DEF ChannelsOf
<1>11. needed \subseteq F /\ Slots(v, "goldens") # {}
         <=> /\ \A f \in NotificationFamilies : Slots(v, f) # {}
             /\ \A x \in Slots(v, "goldens") : <<"templates", x[2]>> \in F
             /\ Channels \subseteq ChannelsOf(v)
             /\ \A c \in Scenarios : <<"reliability", c>> \in F
  <2>1. Channels \subseteq ChannelsOf(v) <=> \A c \in Channels : <<"templates", c>> \in F
    BY <1>10
  <2>2. <<"templates", "sms">> \in F => T # {}
    BY <1>5
  <2>3. <<"reliability", "poison">> \in F => Slots(v, "reliability") # {}
    BY <1>5
  <2>4. "sms" \in Channels /\ "poison" \in Scenarios
    BY DEF Channels, Scenarios
  <2>5. (\A f \in NotificationFamilies : Slots(v, f) # {}) <=>
          T # {} /\ Slots(v, "goldens") # {} /\ Slots(v, "reliability") # {}
    BY DEF NotificationFamilies
  <2>6. (\A c \in Channels : <<"templates", c>> \in F) =>
          \A x \in Slots(v, "goldens") : <<"templates", x[2]>> \in F
    BY <1>4, <1>5
  <2> HIDE DEF F, needed, T
  <2> QED
    BY <1>9, <2>1, <2>2, <2>3, <2>4, <2>5, <2>6
<1>12. AllAgree(v) <=>
         /\ \A x \in F : v.files[x] # "malformed"
         /\ \A f \in NotificationFamilies : \A x \in Slots(v, f) : v.files[x] # "invalid"
         /\ \A f \in {"goldens", "reliability"} : \A x \in Slots(v, f) : v.files[x] # "differs"
  <2>1. ASSUME NEW x \in F, v.files[x] = "differs"
        PROVE  x \in Slots(v, "goldens") \/ x \in Slots(v, "reliability")
    BY <1>4, <1>5, <2>1 DEF NotificationFamilies
  <2>2. ASSUME NEW x \in F PROVE \E f \in NotificationFamilies : x \in Slots(v, f)
    BY <1>4, <1>5, <2>2
  <2>3. \A f : Slots(v, f) \subseteq F
    BY <1>5
  <2>4. \A x \in F : v.files[x] \in {"agrees", "invalid", "malformed", "differs"}
    BY <1>4
  <2>5. AllAgree(v) <=> \A x \in F : v.files[x] = "agrees"
    BY DEF AllAgree
  <2> HIDE DEF F
  <2>6. AllAgree(v) => /\ \A x \in F : v.files[x] # "malformed"
         /\ \A f : \A x \in Slots(v, f) : v.files[x] \notin {"invalid", "differs"}
    BY <2>3, <2>5
  <2> QED
    BY <2>1, <2>2, <2>4, <2>5, <2>6
<1> HIDE DEF needed
<1>13. ASSUME v.envelope = "built" PROVE Green(Notifications(v)) <=> Upheld(s, v)
  <2>1. Upheld(s, v) <=>
          /\ Emitted(v) /\ v.program \notin {"match", "counts", "delivered", "driverId"}
          /\ AllAgree(v) /\ needed \subseteq F /\ Slots(v, "goldens") # {}
    BY <1>2, <1>3, <1>7, <1>8, <1>13, UpheldPlainly
  <2> QED
    BY <1>1, <1>2, <1>6, <1>11, <1>12, <2>1, NotificationsTell
<1> QED
  BY <1>1, <1>2, <1>13, NotificationsTell DEF Truthful

Replay == <<"vectors", "replay">>
Lived(r, V) == {s \in V : LifecycleAspects(s) \subseteq r.rows[s]}

\* What the issuance's producer leaves of each fixture.
LEMMA IssuanceRows ==
  ASSUME NEW o, IsFiniteSet(DOMAIN o.files), NEW r, r = IssuanceResults(o)
  PROVE  LET templates == Slots(o, "templates")
             vectors == Slots(o, "vectors")
             answers == Slots(o, "verification")
         IN  /\ IsFiniteSet(DOMAIN r.rows)
             /\ RowsOf(r, "templates") = templates /\ RowsOf(r, "vectors") = vectors
             /\ RowsOf(r, "verification") = answers
             /\ \A x \in templates : \A aspects : Whole(r, x, aspects) <=>
                  Ran(o, x, RenderAspects, "scope", aspects)
             /\ \A x \in vectors : LifecycleAspects(x) \subseteq r.rows[x] <=>
                  o.program \notin LifecycleAspects(x) /\ o.files[x] # "differs"
             /\ \A x \in answers : Whole(r, x, {"response"}) <=>
                  o.program # "response" /\ o.files[x] # "differs"
             /\ r.lifecycleGreen = Cardinality(Lived(r, vectors))
             /\ r.verificationGreen = CountWhole(r, answers, {"response"})
             /\ r.replayIdempotent \in BOOLEAN /\ r.replayNoDoubleConsume \in BOOLEAN
             /\ r.replayIdempotent <=> Replay \in vectors /\ o.program # "replayed"
             /\ r.replayNoDoubleConsume <=> Replay \in vectors /\ o.program # "consumedOnce"
             /\ r.allocation = {"gapfree", "gapped"} \ {o.program}
<1> DEFINE templates == Slots(o, "templates")
           vectors == Slots(o, "vectors")
           answers == Slots(o, "verification")
           row(s) == CASE s[1] = "templates" -> Row(o, s, RenderAspects, "scope")
                       [] s[1] = "vectors" -> Row(o, s, LifecycleAspects(s), "outcome")
                       [] OTHER -> Row(o, s, {"response"}, "response")
           ran == OfFamilies(o, IssuanceFamilies \ {"documents"})
           rows == [s \in ran |-> row(s)]
           bare == [rows |-> rows]
           lived == {s \in vectors : LifecycleAspects(s) \subseteq rows[s]}
           replayed(a) == /\ <<"vectors", "replay">> \in DOMAIN rows
                          /\ a \in rows[<<"vectors", "replay">>]
           L == Cardinality(lived)
           A == CountWhole(bare, answers, {"response"})
<1>1. /\ r.rows = rows /\ r.lifecycleGreen = L /\ r.verificationGreen = A
      /\ r.replayIdempotent = replayed("replayed")
      /\ r.replayNoDoubleConsume = replayed("consumedOnce")
      /\ r.allocation = {"gapfree", "gapped"} \ {o.program}
  <2> HIDE DEF ran, row
  <2>1. r = [rows                  |-> rows,
             lifecycleGreen        |-> L,
             replayIdempotent      |-> replayed("replayed"),
             replayNoDoubleConsume |-> replayed("consumedOnce"),
             verificationGreen     |-> A,
             allocation            |-> {"gapfree", "gapped"} \ {o.program}]
    BY DEF IssuanceResults, ran, row
  <2> HIDE DEF rows, L, A, replayed
  <2> QED
    BY <2>1
<1>2. /\ ran = templates \union vectors \union answers /\ IsFiniteSet(ran)
      /\ \A x \in templates : x[1] = "templates"
      /\ \A x \in vectors : x[1] = "vectors"
      /\ \A x \in answers : x[1] = "verification"
  BY FS_Subset DEF OfFamilies, Slots, IssuanceFamilies
<1> HIDE DEF ran
<1>3. DOMAIN rows = ran /\ \A x \in ran : rows[x] = row(x)
  OBVIOUS
<1> HIDE DEF rows
<1>4. /\ \A x \in templates : rows[x] = Row(o, x, RenderAspects, "scope")
      /\ \A x \in vectors : rows[x] = Row(o, x, LifecycleAspects(x), "outcome")
      /\ \A x \in answers : rows[x] = Row(o, x, {"response"}, "response")
  BY <1>2, <1>3
<1> HIDE DEF row
<1>5. \A x \in templates : \A aspects : Whole(r, x, aspects) <=>
        Ran(o, x, RenderAspects, "scope", aspects)
  BY <1>1, <1>4, RowTells DEF Whole
<1>6. \A x \in vectors : LifecycleAspects(x) \subseteq r.rows[x] <=>
        o.program \notin LifecycleAspects(x) /\ o.files[x] # "differs"
  <2> TAKE x \in vectors
  <2>1. "outcome" \in LifecycleAspects(x)
    BY DEF LifecycleAspects
  <2>2. LifecycleAspects(x) \subseteq rows[x] <=>
          Ran(o, x, LifecycleAspects(x), "outcome", LifecycleAspects(x))
    BY <1>4, RowTells
  <2> QED
    BY <1>1, <2>1, <2>2 DEF Ran
<1>7. \A x \in answers : Whole(r, x, {"response"}) <=>
        o.program # "response" /\ o.files[x] # "differs"
  BY <1>1, <1>4, RowTells DEF Whole, Ran
<1>8. ASSUME NEW a \in {"replayed", "consumedOnce"}
      PROVE  replayed(a) \in BOOLEAN /\ (replayed(a) <=> Replay \in vectors /\ o.program # a)
  <2>1. Replay = <<"vectors", "replay">> /\ Replay[1] = "vectors" /\ Replay[2] = "replay"
    BY DEF Replay
  <2>2. LifecycleAspects(Replay) = {"outcome", "replayed", "consumedOnce"}
    BY <2>1 DEF LifecycleAspects
  <2>3. Replay \in DOMAIN rows <=> Replay \in vectors
    BY <1>2, <1>3, <2>1
  <2>4. Replay \in vectors => (a \in rows[Replay] <=> o.program # a)
    BY <1>4, <2>2 DEF Row
  <2> QED
    BY <2>1, <2>3, <2>4
<1>9. lived = Lived(r, vectors)
  BY <1>1 DEF Lived
<1>10. L = Cardinality(Lived(r, vectors))
  BY <1>9
<1>11. A = CountWhole(r, answers, {"response"})
  BY <1>1 DEF CountWhole, Whole
<1> HIDE DEF L, A, replayed, templates, vectors, answers
<1>12. /\ RowsOf(r, "templates") = templates /\ RowsOf(r, "vectors") = vectors
       /\ RowsOf(r, "verification") = answers
  BY <1>1, <1>2, <1>3 DEF RowsOf
<1> QED
  BY <1>1, <1>2, <1>3, <1>5, <1>6, <1>7, <1>8, <1>10, <1>11, <1>12
     DEF templates, vectors, answers

LEMMA IssuanceTells ==
  ASSUME NEW v, IsFiniteSet(DOMAIN v.files), v.parts.results \notin {NoPart, Torn},
         NEW o, o.files = v.files, o.program = v.program,
         v.parts.results = IssuanceResults(o), Slots(v, "templates") # {}, v.bundle \in Bundles
  PROVE  /\ Graded(IssuanceScope(v))
         /\ Green(IssuanceScope(v)) <=>
              /\ Emitted(v) /\ ~Malformed(v, IssuanceFamilies)
              /\ \A f \in IssuanceFamilies : Slots(v, f) # {}
              /\ \A f \in IssuanceFamilies : \A x \in Slots(v, f) : v.files[x] # "invalid"
              /\ \A f \in IssuanceFamilies \ {"documents"} :
                   \A x \in Slots(v, f) : v.files[x] # "differs"
              /\ Replay \in DOMAIN v.files
              /\ v.program \notin Faults("issuance")
<1> DEFINE r == v.parts.results
           T == Slots(v, "templates")
           V == Slots(v, "vectors")
           A == Slots(v, "verification")
           c1 == EachAspect(r, "templates", RenderAspects)
           c2 == AllGreen("lifecycle-vectors-green", r.lifecycleGreen, RowsOf(r, "vectors"))
           c3 == One("replay-idempotent", r.replayIdempotent)
           c4 == One("replay-no-double-consume", r.replayNoDoubleConsume)
           c5 == AllGreen("verification-vectors-green", r.verificationGreen,
                          RowsOf(r, "verification"))
           c6 == One("allocation-gapfree-contiguous", "gapfree" \in r.allocation)
           c7 == One("allocation-gapped", "gapped" \in r.allocation)
           judged == c1 \union c2 \union c3 \union c4 \union c5 \union c6 \union c7
<1>1. /\ IsFiniteSet(DOMAIN r.rows)
      /\ RowsOf(r, "templates") = T /\ RowsOf(r, "vectors") = V /\ RowsOf(r, "verification") = A
      /\ \A x \in T : \A aspects : Whole(r, x, aspects) <=>
           Ran(o, x, RenderAspects, "scope", aspects)
      /\ \A x \in V : LifecycleAspects(x) \subseteq r.rows[x] <=>
           v.program \notin LifecycleAspects(x) /\ v.files[x] # "differs"
      /\ \A x \in A : Whole(r, x, {"response"}) <=>
           v.program # "response" /\ v.files[x] # "differs"
      /\ r.lifecycleGreen = Cardinality(Lived(r, V))
      /\ r.verificationGreen = CountWhole(r, A, {"response"})
      /\ r.replayIdempotent \in BOOLEAN /\ r.replayNoDoubleConsume \in BOOLEAN
      /\ r.replayIdempotent <=> Replay \in V /\ v.program # "replayed"
      /\ r.replayNoDoubleConsume <=> Replay \in V /\ v.program # "consumedOnce"
      /\ r.allocation = {"gapfree", "gapped"} \ {v.program}
  <2>1. Slots(o, "templates") = T /\ Slots(o, "vectors") = V /\ Slots(o, "verification") = A
    BY SameSlots
  <2> HIDE DEF r
  <2>2. r = IssuanceResults(o)
    BY DEF r
  <2> QED
    BY <2>1, <2>2, IssuanceRows
<1>2. IssuanceScope(v) = BoundaryScope(v, IssuanceFamilies, judged)
  BY DEF IssuanceScope
<1>3. IsFiniteSet(V) /\ IsFiniteSet(A) /\ T # {}
  BY SlotsFinite
<1> HIDE DEF r, T, V, A
<1>4. /\ Graded(c1)
      /\ Green(c1) <=> \A a \in RenderAspects : \A x \in T : Ran(o, x, RenderAspects, "scope", {a})
  <2>1. IsFiniteSet(RenderAspects)
    <3>1. IsFiniteSet({"deterministic", "scope", "accessible", "accessible", "accessible"})
      BY FewFinite
    <3> QED
      BY <3>1 DEF RenderAspects
  <2> QED
    BY <1>1, <2>1, EachAspectGraded
<1>5. /\ Graded(c2)
      /\ Green(c2) <=> V # {} /\ \A x \in V : LifecycleAspects(x) \subseteq r.rows[x]
  <2> DEFINE held == r.lifecycleGreen = Cardinality(V) /\ V # {}
             lived == Lived(r, V)
  <2>1. lived \subseteq V
    BY DEF Lived
  <2>2. Cardinality(lived) = Cardinality(V) <=> lived = V
    <3> HIDE DEF lived
    <3> QED
      BY <1>3, <2>1, FS_Subset, FS_CardinalityType
  <2>3. lived = V <=> \A x \in V : LifecycleAspects(x) \subseteq r.rows[x]
    BY DEF Lived
  <2>4. held \in BOOLEAN
        /\ (held <=> V # {} /\ \A x \in V : LifecycleAspects(x) \subseteq r.rows[x])
    BY <1>1, <2>2, <2>3
  <2>5. c2 = One("lifecycle-vectors-green", held)
    BY <1>1 DEF AllGreen
  <2> HIDE DEF held
  <2> QED
    BY <2>4, <2>5, OneGraded
<1>6. /\ Graded(c3) /\ (Green(c3) <=> r.replayIdempotent)
      /\ Graded(c4) /\ (Green(c4) <=> r.replayNoDoubleConsume)
  BY <1>1, OneGraded
<1>7. Graded(c5) /\ (Green(c5) <=> A # {} /\ \A x \in A : Whole(r, x, {"response"}))
  BY <1>1, <1>3, AllGreenGraded
<1>8. /\ Graded(c6) /\ (Green(c6) <=> v.program # "gapfree")
      /\ Graded(c7) /\ (Green(c7) <=> v.program # "gapped")
  <2>1. /\ Graded(c6) /\ (Green(c6) <=> "gapfree" \in r.allocation)
        /\ Graded(c7) /\ (Green(c7) <=> "gapped" \in r.allocation)
    BY MemberGraded
  <2> HIDE DEF c6, c7
  <2> QED
    BY <1>1, <2>1
<1> HIDE DEF c1, c2, c3, c4, c5, c6, c7
<1>9. /\ Graded(judged)
      /\ Green(judged) <=> /\ Green(c1) /\ Green(c2) /\ Green(c3) /\ Green(c4)
                           /\ Green(c5) /\ Green(c6) /\ Green(c7)
  <2> DEFINE some == c1 \union c2 \union c3 \union c4
  <2>1. Graded(some) /\ (Green(some) <=> Green(c1) /\ Green(c2) /\ Green(c3) /\ Green(c4))
    BY <1>4, <1>5, <1>6, FourGraded
  <2>2. judged = some \union c5 \union c6 \union c7
    OBVIOUS
  <2> HIDE DEF some, judged
  <2> QED
    BY <1>7, <1>8, <2>1, <2>2, FourGraded
<1>10. /\ Graded(IssuanceScope(v))
       /\ Green(IssuanceScope(v)) <=>
            /\ Emitted(v) /\ ~Malformed(v, IssuanceFamilies) /\ Green(judged)
            /\ \A f \in IssuanceFamilies : Slots(v, f) # {}
            /\ \A f \in IssuanceFamilies : \A x \in Slots(v, f) : v.files[x] # "invalid"
  <2>1. IsFiniteSet(IssuanceFamilies) /\ IssuanceFamilies # {}
    <3>1. IsFiniteSet({"templates", "documents", "vectors", "verification", "verification"})
      BY FewFinite
    <3> QED
      BY <3>1 DEF IssuanceFamilies
  <2> HIDE DEF judged
  <2> QED
    BY <1>2, <1>9, <2>1, BoundaryGraded
<1>11. ASSUME \A f \in IssuanceFamilies : Slots(v, f) # {}
       PROVE  Green(judged) <=>
                /\ \A x \in T \union V \union A : v.files[x] # "differs"
                /\ Replay \in V
                /\ v.program \notin Faults("issuance")
  <2>1. V # {} /\ A # {}
    BY <1>11 DEF V, A, IssuanceFamilies
  <2>2. Faults("issuance") = RenderAspects \union {"outcome", "replayed", "consumedOnce",
                                                   "response", "gapfree", "gapped"}
    BY DEF Faults, Corpora
  <2>3. (\A a \in RenderAspects : \A x \in T : Ran(o, x, RenderAspects, "scope", {a})) <=>
          v.program \notin RenderAspects /\ \A x \in T : v.files[x] # "differs"
    <3>1. \A a \in RenderAspects : \A x : Ran(o, x, RenderAspects, "scope", {a}) <=>
            v.program # a /\ (v.files[x] = "differs" => a # "scope")
      BY DEF Ran
    <3>2. "scope" \in RenderAspects
      BY DEF RenderAspects
    <3> QED
      BY <1>3, <3>1, <3>2
  <2>4. ASSUME NEW x
        PROVE  /\ "outcome" \in LifecycleAspects(x)
               /\ LifecycleAspects(x) \subseteq {"outcome", "replayed", "consumedOnce"}
    BY DEF LifecycleAspects
  <2>5. (/\ \A x \in V : LifecycleAspects(x) \subseteq r.rows[x]
         /\ v.program \notin {"replayed", "consumedOnce"}) <=>
          /\ v.program \notin {"outcome", "replayed", "consumedOnce"}
          /\ \A x \in V : v.files[x] # "differs"
    BY <1>1, <2>1, <2>4
  <2>6. (\A x \in A : Whole(r, x, {"response"})) <=>
          v.program # "response" /\ \A x \in A : v.files[x] # "differs"
    BY <1>1, <2>1
  <2> HIDE DEF judged
  <2>7. Green(judged) <=>
          /\ \A a \in RenderAspects : \A x \in T : Ran(o, x, RenderAspects, "scope", {a})
          /\ \A x \in V : LifecycleAspects(x) \subseteq r.rows[x]
          /\ v.program \notin {"replayed", "consumedOnce"} /\ Replay \in V
          /\ \A x \in A : Whole(r, x, {"response"})
          /\ v.program \notin {"gapfree", "gapped"}
    BY <1>1, <1>4, <1>5, <1>6, <1>7, <1>8, <1>9, <2>1
  <2> QED
    BY <2>2, <2>3, <2>5, <2>6, <2>7
<1>12. Replay \in V <=> Replay \in DOMAIN v.files
  BY DEF V, Slots, Replay
<1>13. (\A f \in IssuanceFamilies \ {"documents"} : \A x \in Slots(v, f) : v.files[x] # "differs")
         <=> \A x \in T \union V \union A : v.files[x] # "differs"
  BY DEF T, V, A, IssuanceFamilies
<1> HIDE DEF judged
<1> QED
  BY <1>10, <1>11, <1>12, <1>13

LEMMA IssuanceTrue ==
  ASSUME TheCatalog, NEW v, FreshView("issuance", v)
  PROVE  Truthful("issuance", v)
<1> DEFINE s == "issuance"
           F == DOMAIN v.files
           needed == {<<"templates", "1">>, <<"documents", "1">>, Replay}
<1>1. PICK o : /\ o.files = v.files /\ o.program = v.program
               /\ ~IssuanceThrows(o) /\ v.parts.results = IssuanceResults(o)
               /\ v.parts.results \notin {NoPart, Torn}
  BY DEF FreshView, PartsOf, ProducerThrows, Produced
<1>2. IsFiniteSet(F) /\ CheckScope(s, v) = IssuanceScope(v) /\ v.bundle \in Bundles
  BY FixtureFacts DEF FreshView, CheckScope
<1>3. Required(s) = needed
  BY DEF Required, Replay
<1>4. ASSUME NEW x \in F
      PROVE  /\ x[1] \in IssuanceFamilies /\ x = <<x[1], x[2]>>
             /\ x[1] \in {"templates", "documents"} => x[2] = "1"
             /\ v.files[x] \in {"agrees", "invalid", "malformed", "differs"}
             /\ v.files[x] = "differs" => x[1] # "documents"
  <2>1. Globbed(s) = {"vectors", "verification"}
    BY DEF Globbed, Corpora
  <2>2. Fixture(s, x) /\ x = <<x[1], x[2]>>
        /\ (x[1] # "kit" => v.files[x] \in {"agrees"} \union Flaws(s, x[1]))
    BY <1>4, FixtureContent DEF FreshView
  <2>3. x \in needed \/ x[1] \in {"vectors", "verification"}
    BY <1>3, <2>1, <2>2 DEF Fixture
  <2>4. x[1] \in IssuanceFamilies /\ (x[1] \in {"templates", "documents"} => x[2] = "1")
    BY <2>3 DEF IssuanceFamilies, Replay
  <2>5. Flaws(s, x[1]) = {"invalid", "malformed"}
                         \union (IF x[1] = "documents" THEN {} ELSE {"differs"})
    BY DEF Flaws, Corpora
  <2>6. x[1] # "kit"
    BY <2>4 DEF IssuanceFamilies
  <2> HIDE DEF F
  <2> QED
    BY <2>2, <2>4, <2>5, <2>6
<1>5. \A f : \A x : x \in Slots(v, f) <=> x \in F /\ x[1] = f
  BY DEF Slots
<1>6. ~Malformed(v, IssuanceFamilies) <=> \A x \in F : v.files[x] # "malformed"
  BY <1>4, ParsedTells
<1>7. Slots(v, "templates") # {}
  BY <1>1, SameSlots DEF IssuanceThrows
<1>8. Inhabited(s) = {"verification"}
  BY DEF Inhabited
<1>9. needed \subseteq F /\ Slots(v, "verification") # {}
        <=> Replay \in F /\ \A f \in IssuanceFamilies : Slots(v, f) # {}
  <2>1. ASSUME NEW f \in {"templates", "documents"}
        PROVE  Slots(v, f) # {} <=> <<f, "1">> \in F
    <3>1. ASSUME NEW x \in Slots(v, f) PROVE <<f, "1">> \in F
      BY <1>4, <1>5, <3>1
    <3>2. <<f, "1">> \in F => <<f, "1">> \in Slots(v, f)
      BY <1>5
    <3> QED
      BY <3>1, <3>2
  <2>2. Replay \in F => Slots(v, "vectors") # {}
    BY <1>5 DEF Replay
  <2>3. (\A f \in IssuanceFamilies : Slots(v, f) # {}) <=>
          /\ Slots(v, "templates") # {} /\ Slots(v, "documents") # {}
          /\ Slots(v, "vectors") # {} /\ Slots(v, "verification") # {}
    BY DEF IssuanceFamilies
  <2>4. needed \subseteq F <=> <<"templates", "1">> \in F /\ <<"documents", "1">> \in F /\ Replay \in F
    OBVIOUS
  <2> HIDE DEF F, needed
  <2> QED
    BY <2>1, <2>2, <2>3, <2>4
<1>10. AllAgree(v) <=>
         /\ \A x \in F : v.files[x] # "malformed"
         /\ \A f \in IssuanceFamilies : \A x \in Slots(v, f) : v.files[x] # "invalid"
         /\ \A f \in IssuanceFamilies \ {"documents"} :
              \A x \in Slots(v, f) : v.files[x] # "differs"
  <2>1. ASSUME NEW x \in F, v.files[x] = "differs"
        PROVE  \E f \in IssuanceFamilies \ {"documents"} : x \in Slots(v, f)
    BY <1>4, <1>5, <2>1
  <2>2. ASSUME NEW x \in F PROVE \E f \in IssuanceFamilies : x \in Slots(v, f)
    BY <1>4, <1>5, <2>2
  <2>3. \A f : Slots(v, f) \subseteq F
    BY <1>5
  <2>4. \A x \in F : v.files[x] \in {"agrees", "invalid", "malformed", "differs"}
    BY <1>4
  <2>5. AllAgree(v) <=> \A x \in F : v.files[x] = "agrees"
    BY DEF AllAgree
  <2> HIDE DEF F
  <2>6. AllAgree(v) => /\ \A x \in F : v.files[x] # "malformed"
         /\ \A f : \A x \in Slots(v, f) : v.files[x] \notin {"invalid", "differs"}
    BY <2>3, <2>5
  <2> QED
    BY <2>1, <2>2, <2>4, <2>5, <2>6
<1> HIDE DEF needed
<1>11. ASSUME v.envelope = "built" PROVE Green(IssuanceScope(v)) <=> Upheld(s, v)
  <2>1. Upheld(s, v) <=> /\ Emitted(v) /\ v.program \notin Faults(s) /\ AllAgree(v)
                         /\ needed \subseteq F /\ Slots(v, "verification") # {}
    BY <1>2, <1>3, <1>8, <1>11, UpheldPlainly
  <2> QED
    BY <1>1, <1>2, <1>6, <1>7, <1>9, <1>10, <2>1, IssuanceTells
<1> QED
  BY <1>1, <1>2, <1>7, <1>11, IssuanceTells DEF Truthful

-----------------------------------------------------------------------------
(* The decision layer.                                                     *)

AspectsOf(part) == IF part = "trace" THEN TraceAspects ELSE Matches

\* What a producer of the decision layer leaves, and what is counted of it.
LEMMA PartTells ==
  ASSUME NEW o, IsFiniteSet(DOMAIN o.files), NEW part \in DecisionParts,
         NEW r, r = DecisionResults(o, part), NEW id
  PROVE  /\ r.engine = (o.program # "engine") /\ r.caps = Capabilities \ {o.program}
         /\ r.covered = Cardinality(FiredRows(o, Slots(o, Corpus[part])))
         /\ Graded(Counted(r, id, AspectsOf(part)))
         /\ Green(Counted(r, id, AspectsOf(part))) <=>
              \A x \in Slots(o, Corpus[part]) :
                /\ o.files[x] # "unprojectable" /\ o.program \notin AspectsOf(part)
                /\ o.files[x] = "differs" => part = "trace"
<1> DEFINE aspects == AspectsOf(part)
           V == Slots(o, Corpus[part])
           found == RowsFor(o, {Corpus[part]}, aspects, "value")
           rows == [s \in DOMAIN found |-> IF o.files[s] = "unprojectable" THEN {} ELSE found[s]]
<1>1. /\ r.rows = rows /\ r.engine = (o.program # "engine")
      /\ r.caps = Capabilities \ {o.program} /\ r.covered = Cardinality(FiredRows(o, DOMAIN found))
  <2> HIDE DEF found
  <2>1. r = [rows    |-> rows,
             engine  |-> o.program # "engine",
             caps    |-> Capabilities \ {o.program},
             covered |-> Cardinality(FiredRows(o, DOMAIN found))]
    BY DEF DecisionResults, found, AspectsOf
  <2> DEFINE C == Cardinality(FiredRows(o, DOMAIN found))
  <2> HIDE DEF rows, C
  <2> QED
    BY <2>1 DEF C
<1>2. /\ DOMAIN found = V /\ IsFiniteSet(V)
      /\ \A x \in V : found[x] = Row(o, x, aspects, "value")
  <2>1. OfFamilies(o, {Corpus[part]}) = V
    BY DEF OfFamilies, Slots
  <2>2. found = [s \in V |-> Row(o, s, aspects, "value")]
    BY <2>1 DEF RowsFor
  <2> QED
    BY <2>2, SlotsFinite
<1> HIDE DEF found
<1>3. /\ DOMAIN rows = V
      /\ \A x \in V : rows[x] = IF o.files[x] = "unprojectable" THEN {} ELSE Row(o, x, aspects, "value")
  BY <1>2
<1> HIDE DEF rows, V
<1>4. aspects # {} /\ ("value" \in aspects <=> part # "trace")
  BY DEF AspectsOf, TraceAspects, Matches
<1> HIDE DEF aspects
<1>5. ASSUME NEW x \in V
      PROVE  Whole(r, x, aspects) <=>
               /\ o.files[x] # "unprojectable" /\ o.program \notin aspects
               /\ o.files[x] = "differs" => part = "trace"
  <2>1. aspects \subseteq Row(o, x, aspects, "value") <=> Ran(o, x, aspects, "value", aspects)
    BY RowTells
  <2> QED
    BY <1>1, <1>3, <1>4, <2>1 DEF Whole, Ran
<1> DEFINE whole(x) == Whole(r, x, aspects)
           each == [x \in V |-> whole(x)]
           all == CountWhole(r, V, aspects) = Cardinality(V)
           c1 == Each(id, each)
           c2 == At("green", id, all)
<1>6. Counted(r, id, aspects) = c1 \union c2
  BY <1>1, <1>3 DEF Counted
<1>7. \A x : whole(x) \in BOOLEAN
  BY DEF Whole
<1> HIDE DEF whole
<1>8. Graded(c1) /\ (Green(c1) <=> \A x \in V : whole(x))
  <2>1. DOMAIN each = V /\ \A x \in V : each[x] \in BOOLEAN /\ (each[x] <=> whole(x))
    BY <1>7
  <2> HIDE DEF each
  <2> QED
    BY <1>2, <2>1, EachSlotGraded
<1>9. Graded(c2) /\ (Green(c2) <=> \A x \in V : whole(x))
  <2>1. all \in BOOLEAN /\ (all <=> \A x \in V : whole(x))
    BY <1>2, CountTells DEF whole
  <2> HIDE DEF all
  <2> QED
    BY <2>1, AtGraded
<1> HIDE DEF c1, c2
<1>10. /\ Graded(Counted(r, id, aspects))
       /\ Green(Counted(r, id, aspects)) <=> \A x \in V : whole(x)
  BY <1>6, <1>8, <1>9, BothGraded
<1>11. \A x \in V : whole(x) <=> /\ o.files[x] # "unprojectable" /\ o.program \notin aspects
                                 /\ o.files[x] = "differs" => part = "trace"
  BY <1>5 DEF whole
<1> HIDE DEF whole
<1> QED
  BY <1>1, <1>2, <1>10, <1>11 DEF V, aspects

\* The threshold wants every row of the table.
LEMMA RowsFired ==
  ASSUME NEW o, NEW S, NEW covered, covered = Cardinality(FiredRows(o, S))
  PROVE  100 * covered >= ThresholdPct * Cardinality(TableRows)
           <=> o.program # "rows" /\ \A row \in TableRows : \E s \in S : s[2] = row
<1> DEFINE fired == FiredRows(o, S)
           named == {s[2] : s \in S}
<1>1. IsFiniteSet(TableRows) /\ Cardinality(TableRows) = 2
  <2>1. IsFiniteSet({"refer"}) /\ Cardinality({"refer"}) = 1
    BY FS_Singleton
  <2>2. /\ IsFiniteSet({"refer"} \union {"approve"})
        /\ Cardinality({"refer"} \union {"approve"}) = 2
    BY <2>1, FS_AddElement
  <2>3. TableRows = {"refer"} \union {"approve"}
    BY DEF TableRows
  <2> QED
    BY <2>2, <2>3
<1>2. fired = IF o.program = "rows" THEN {} ELSE named \cap TableRows
  BY DEF FiredRows
<1>3. \A row : row \in named <=> \E s \in S : s[2] = row
  OBVIOUS
<1>4. TableRows # {}
  BY DEF TableRows
<1> HIDE DEF fired, named
<1>5. /\ Cardinality(fired) \in Nat /\ Cardinality(fired) <= 2
      /\ Cardinality(fired) = 2 <=> fired = TableRows
  <2>1. fired \subseteq TableRows
    BY <1>2
  <2> QED
    BY <1>1, <2>1, FS_Subset, FS_CardinalityType
<1>6. 100 * covered >= ThresholdPct * Cardinality(TableRows) <=> Cardinality(fired) = 2
  <2> DEFINE n == Cardinality(fired)
  <2>1. covered = n /\ n \in Nat /\ n <= 2
    BY <1>5 DEF fired
  <2> HIDE DEF n
  <2>2. 100 * n >= 160 <=> n = 2
    BY <2>1
  <2> QED
    BY <1>1, <2>1, <2>2 DEF ThresholdPct, n
<1> QED
  BY <1>2, <1>3, <1>4, <1>5, <1>6

\* The five artifacts of fixtures F and program g, none of whose producers threw.
MadeParts(v) ==
  \A p \in DecisionParts :
    \E o : /\ o.files = v.files /\ o.program = v.program /\ ~DecisionThrows(o, p)
           /\ v.parts[p] = DecisionResults(o, p) /\ v.parts[p] \notin {NoPart, Torn}

CountedOn(v, part) ==
  \A x \in Slots(v, Corpus[part]) :
    /\ v.files[x] # "unprojectable" /\ v.program \notin AspectsOf(part)
    /\ v.files[x] = "differs" => part = "trace"

LEMMA PartsTell ==
  ASSUME NEW v, IsFiniteSet(DOMAIN v.files), MadeParts(v), NEW part \in DecisionParts
  PROVE  LET r == v.parts[part] IN
         /\ r \notin {NoPart, Torn}
         /\ r.engine = (v.program # "engine") /\ r.caps = Capabilities \ {v.program}
         /\ r.covered = Cardinality(FiredRows(v, Slots(v, Corpus[part])))
         /\ \A id : /\ Graded(Counted(r, id, AspectsOf(part)))
                    /\ Green(Counted(r, id, AspectsOf(part))) <=> CountedOn(v, part)
<1> DEFINE r == v.parts[part]
<1>1. PICK o : /\ o.files = v.files /\ o.program = v.program
               /\ r = DecisionResults(o, part) /\ r \notin {NoPart, Torn}
  BY DEF MadeParts
<1>2. Slots(o, Corpus[part]) = Slots(v, Corpus[part])
  BY <1>1, SameSlots
<1>3. \A S : FiredRows(o, S) = FiredRows(v, S)
  BY <1>1 DEF FiredRows
<1> HIDE DEF r
<1>4. /\ r.engine = (o.program # "engine") /\ r.caps = Capabilities \ {o.program}
      /\ r.covered = Cardinality(FiredRows(o, Slots(o, Corpus[part])))
  BY <1>1, PartTells
<1>5. ASSUME NEW id
      PROVE  /\ Graded(Counted(r, id, AspectsOf(part)))
             /\ Green(Counted(r, id, AspectsOf(part))) <=> CountedOn(v, part)
  BY <1>1, <1>2, PartTells DEF CountedOn
<1> QED
  BY <1>1, <1>2, <1>3, <1>4, <1>5 DEF r

\* What the scope makes of them.
LEMMA DecisionTells ==
  ASSUME NEW v, IsFiniteSet(DOMAIN v.files), MadeParts(v), v.bundle \in Bundles
  PROVE  /\ Graded(DecisionLayer(v))
         /\ Green(DecisionLayer(v)) <=>
              /\ Emitted(v) /\ \A part \in DecisionParts : CountedOn(v, part)
              /\ v.program \notin Capabilities \union {"engine", "rows"}
              /\ \A row \in TableRows : \E x \in Slots(v, "scenario") : x[2] = row
<1> DEFINE tck == v.parts.tck
           scenario == v.parts.scenario
           met == 100 * scenario.covered >= ThresholdPct * Cardinality(TableRows)
           has(c) == c \in tck.caps
           caps == [c \in Capabilities |-> has(c)]
           c1 == One("engine", tck.engine)
           c2 == Each("capability", caps)
           c3 == Counted(tck, "tck", Matches)
           c4 == Counted(v.parts.coverage, "projection", Matches)
           c5 == TraceShapeChecks(v)
           c6 == Counted(scenario, "scenario", Matches)
           c7 == One("coverage-met", met)
           c8 == Counted(v.parts.feel, "feel", Matches)
           all == c1 \union c2 \union c3 \union c4 \union c5 \union (c6 \union c7) \union c8
<1>1. /\ DecisionParts = {"tck", "coverage", "trace", "scenario", "feel"}
      /\ AspectsOf("trace") = TraceAspects
      /\ \A p \in DecisionParts \ {"trace"} : AspectsOf(p) = Matches
      /\ Corpus["scenario"] = "scenario"
  BY DEF DecisionParts, AspectsOf, Corpus
<1>2. \A p \in DecisionParts : v.parts[p] \notin {NoPart, Torn}
  BY PartsTell
<1>3. DecisionLayer(v) = IF v.bundle = "absent" THEN Thrown ELSE all
  <2>1. /\ v.parts.tck # NoPart /\ v.parts.trace # NoPart /\ v.parts.trace # Torn
        /\ ~\E p \in DecisionParts \ {"trace"} : v.parts[p] = Torn
    BY <1>1, <1>2
  <2>2. \A p \in DecisionParts : \A judged : PartChecks(v, p, judged) = judged
    BY <1>2 DEF PartChecks
  <2> DEFINE k == TckChecks(v.parts.tck)
             j == ScenarioChecks(v.parts.scenario)
  <2>3. k = c1 \union c2 \union c3 /\ j = c6 \union c7
    BY DEF TckChecks, ScenarioChecks
  <2> HIDE DEF c1, c2, c3, c4, c5, c6, c7, c8, k, j
  <2>4. DecisionLayer(v) = IF v.bundle = "absent" THEN Thrown
                           ELSE k \union c4 \union c5 \union j \union c8
    BY <1>1, <2>1, <2>2 DEF DecisionLayer, k, j, c4, c5, c8
  <2> QED
    BY <2>3, <2>4
<1>4. /\ \A c : has(c) \in BOOLEAN /\ (has(c) <=> c \in tck.caps)
      /\ met \in BOOLEAN
  OBVIOUS
<1>5. /\ tck.engine = (v.program # "engine") /\ tck.caps = Capabilities \ {v.program}
      /\ scenario.covered = Cardinality(FiredRows(v, Slots(v, "scenario")))
  <2>1. "tck" \in DecisionParts /\ "scenario" \in DecisionParts
    BY <1>1
  <2> QED
    BY <1>1, <2>1, PartsTell
<1>6. met <=> v.program # "rows" /\ \A row \in TableRows : \E x \in Slots(v, "scenario") : x[2] = row
  BY <1>5, RowsFired
<1>7. /\ Graded(c3) /\ (Green(c3) <=> CountedOn(v, "tck"))
      /\ Graded(c4) /\ (Green(c4) <=> CountedOn(v, "coverage"))
      /\ Graded(c6) /\ (Green(c6) <=> CountedOn(v, "scenario"))
      /\ Graded(c8) /\ (Green(c8) <=> CountedOn(v, "feel"))
  <2>1. ASSUME NEW p \in DecisionParts \ {"trace"}, NEW id
        PROVE  /\ Graded(Counted(v.parts[p], id, Matches))
               /\ Green(Counted(v.parts[p], id, Matches)) <=> CountedOn(v, p)
    <3>1. AspectsOf(p) = Matches
      BY <1>1
    <3>2. /\ Graded(Counted(v.parts[p], id, AspectsOf(p)))
          /\ Green(Counted(v.parts[p], id, AspectsOf(p))) <=> CountedOn(v, p)
      BY PartsTell
    <3> QED
      BY <3>1, <3>2
  <2>2. {"tck", "coverage", "scenario", "feel"} \subseteq DecisionParts \ {"trace"}
    BY <1>1
  <2> QED
    BY <2>1, <2>2
<1>8. Graded(c5) /\ (Green(c5) <=> v.bundle # "stale" /\ CountedOn(v, "trace"))
  <2> DEFINE c == Counted(v.parts["trace"], "trace-shape", AspectsOf("trace"))
  <2>1. Graded(c) /\ (Green(c) <=> CountedOn(v, "trace"))
    BY <1>1, PartsTell
  <2>2. c5 = IF v.bundle = "stale" THEN Fail("trace-schema-present") ELSE c
    BY <1>1 DEF TraceShapeChecks
  <2> HIDE DEF c, c5
  <2> QED
    BY <2>1, <2>2, FailGraded
<1> HIDE DEF met, has, tck, scenario
<1>9. /\ Graded(c1) /\ (Green(c1) <=> v.program # "engine")
      /\ Graded(c7) /\ (Green(c7) <=> met)
  BY <1>4, <1>5, OneGraded
<1>10. Graded(c2) /\ (Green(c2) <=> v.program \notin Capabilities)
  <2>1. IsFiniteSet(Capabilities)
    <3>1. /\ IsFiniteSet({"dmn-1.6", "feel", "decisionTable", "businessKnowledgeModel", "context"})
          /\ IsFiniteSet({"invocation"})
      BY FewFinite, FS_Singleton
    <3>2. Capabilities = {"dmn-1.6", "feel", "decisionTable", "businessKnowledgeModel", "context"}
                         \union {"invocation"}
      BY DEF Capabilities
    <3> QED
      BY <3>1, <3>2, FS_Union
  <2>2. DOMAIN caps = Capabilities /\ \A c \in Capabilities : caps[c] \in BOOLEAN /\ (caps[c] <=> has(c))
    BY <1>4
  <2> HIDE DEF caps
  <2>3. Graded(c2) /\ (Green(c2) <=> \A c \in Capabilities : caps[c])
    BY <2>1, <2>2, EachSlotGraded
  <2> QED
    BY <1>4, <1>5, <2>2, <2>3
<1> HIDE DEF c1, c2, c3, c4, c5, c6, c7, c8
<1>11. /\ Graded(all)
       /\ Green(all) <=> /\ Green(c1) /\ Green(c2) /\ Green(c3) /\ Green(c4)
                         /\ Green(c5) /\ Green(c6) /\ Green(c7) /\ Green(c8)
  <2> DEFINE some == c1 \union c2 \union c3 \union c4
             more == c6 \union c7
  <2>1. Graded(some) /\ (Green(some) <=> Green(c1) /\ Green(c2) /\ Green(c3) /\ Green(c4))
    BY <1>7, <1>9, <1>10, FourGraded
  <2>2. Graded(more) /\ (Green(more) <=> Green(c6) /\ Green(c7))
    BY <1>7, <1>9, BothGraded
  <2>3. all = some \union c5 \union more \union c8
    OBVIOUS
  <2> HIDE DEF some, more, all
  <2> QED
    BY <1>7, <1>8, <2>1, <2>2, <2>3, FourGraded
<1> HIDE DEF all
<1>12. v.bundle \in {"built", "stale", "other", "absent"}
  BY DEF Bundles
<1>13. (\A part \in DecisionParts : CountedOn(v, part)) <=>
         /\ CountedOn(v, "tck") /\ CountedOn(v, "coverage") /\ CountedOn(v, "trace")
         /\ CountedOn(v, "scenario") /\ CountedOn(v, "feel")
  BY <1>1
<1> QED
  BY <1>3, <1>6, <1>7, <1>8, <1>9, <1>10, <1>11, <1>12, <1>13, FailGraded DEF Emitted

LEMMA DecisionLayerTrue ==
  ASSUME TheCatalog, NEW v, FreshView("decision-layer", v)
  PROVE  Truthful("decision-layer", v)
<1> DEFINE s == "decision-layer"
           F == DOMAIN v.files
           families == {"tck", "construct", "feel", "scenario"}
           needed == {<<"scenario", row>> : row \in TableRows}
<1>1. MadeParts(v)
  <2>1. PartsOf(s) = DecisionParts
    BY DEF PartsOf
  <2>2. ASSUME NEW p \in DecisionParts, NEW o
        PROVE  (ProducerThrows(s, p, o) <=> DecisionThrows(o, p)) /\ Produced(s, p, o) = DecisionResults(o, p)
    BY DEF ProducerThrows, Produced, DecisionParts
  <2> QED
    BY <2>1, <2>2 DEF FreshView, MadeParts
<1>2. IsFiniteSet(F) /\ CheckScope(s, v) = DecisionLayer(v) /\ v.bundle \in Bundles
  BY FixtureFacts DEF FreshView, CheckScope
<1>3. Required(s) = needed
  BY DEF Required
<1>4. ASSUME NEW x \in F
      PROVE  /\ x[1] \in families /\ x = <<x[1], x[2]>>
             /\ v.files[x] \in {"agrees", "differs", "malformed", "unbundled", "unprojectable"}
             /\ v.files[x] = "unbundled" => x[1] = "tck"
             /\ v.files[x] = "unprojectable" => x[1] \in {"construct", "feel"}
  <2>1. Globbed(s) = families
    BY DEF Globbed, Corpora
  <2>2. Fixture(s, x) /\ x = <<x[1], x[2]>>
        /\ (x[1] # "kit" => v.files[x] \in {"agrees"} \union Flaws(s, x[1]))
    BY <1>4, FixtureContent DEF FreshView
  <2>3. x[1] \in families
    BY <1>3, <2>1, <2>2 DEF Fixture
  <2>4. Flaws(s, x[1]) = {"differs", "malformed"}
                         \union (IF x[1] = "tck" THEN {"unbundled"} ELSE {})
                         \union (IF x[1] \in {"construct", "feel"} THEN {"unprojectable"} ELSE {})
    BY DEF Flaws, Corpora
  <2> HIDE DEF F
  <2> QED
    BY <2>2, <2>3, <2>4
<1>5. \A f : \A x : x \in Slots(v, f) <=> x \in F /\ x[1] = f
  BY DEF Slots
\* What would have stopped a producer is in no file.
<1>6. \A x \in F : v.files[x] \notin {"malformed", "unbundled", "unprojectable"}
  <2>1. ASSUME NEW p \in DecisionParts
        PROVE  /\ \A x \in Slots(v, Corpus[p]) : v.files[x] # "malformed"
               /\ p = "tck" => \A x \in Slots(v, "tck") : v.files[x] # "unbundled"
               /\ p = "trace" => \A x \in Slots(v, "construct") : v.files[x] # "unprojectable"
               /\ p = "feel" => \A x \in Slots(v, "feel") : v.files[x] # "unprojectable"
    <3>1. PICK o : o.files = v.files /\ ~DecisionThrows(o, p)
      BY <1>1 DEF MadeParts
    <3>2. \A f, c : Having(o, f, c) = {x \in Slots(v, f) : v.files[x] = c}
      BY <3>1 DEF Having, Slots
    <3>3. /\ ~Malformed(o, {Corpus[p]})
          /\ p = "tck" => ~TckThrows(o)
          /\ p = "trace" => ~TraceThrows(o)
          /\ p = "feel" => ~FeelThrows(o)
      BY <3>1 DEF DecisionThrows
    <3> DEFINE none(f, c) == \A x \in Slots(v, f) : v.files[x] # c
    <3>4. \A f, c : Having(o, f, c) = {} <=> none(f, c)
      BY <3>2
    <3>5. Having(o, Corpus[p], "malformed") = {}
      BY <3>3 DEF Malformed
    <3>6. /\ p = "tck" => Having(o, "tck", "unbundled") = {}
          /\ p = "trace" => Having(o, "construct", "unprojectable") = {}
          /\ p = "feel" => Having(o, "feel", "unprojectable") = {}
      BY <3>3 DEF TckThrows, TraceThrows, FeelThrows
    <3> HIDE DEF none
    <3>7. /\ none(Corpus[p], "malformed")
          /\ p = "tck" => none("tck", "unbundled")
          /\ p = "trace" => none("construct", "unprojectable")
          /\ p = "feel" => none("feel", "unprojectable")
      BY <3>4, <3>5, <3>6
    <3> QED
      BY <3>7 DEF none
  <2>2. /\ "tck" \in DecisionParts /\ Corpus["tck"] = "tck"
        /\ "trace" \in DecisionParts /\ Corpus["trace"] = "construct"
        /\ "scenario" \in DecisionParts /\ Corpus["scenario"] = "scenario"
        /\ "feel" \in DecisionParts /\ Corpus["feel"] = "feel"
    BY DEF DecisionParts, Corpus
  <2>3. \A f \in families : \A x \in Slots(v, f) : v.files[x] # "malformed"
    BY <2>1, <2>2
  <2>4. /\ \A x \in Slots(v, "tck") : v.files[x] # "unbundled"
        /\ \A x \in Slots(v, "construct") \union Slots(v, "feel") : v.files[x] # "unprojectable"
    BY <2>1, <2>2
  <2> HIDE DEF F
  <2> QED
    BY <1>4, <1>5, <2>3, <2>4
<1>7. AllAgree(v) <=> \A x \in F : v.files[x] # "differs"
  BY <1>4, <1>6 DEF AllAgree
<1>8. Inhabited(s) = {}
  BY DEF Inhabited
<1>9. Faults(s) = Matches \union TraceAspects \union Capabilities \union {"engine", "rows"}
  BY DEF Faults, Corpora
<1>10. Idle(s, v) = IF Slots(v, "construct") = {} THEN TraceAspects ELSE {}
  BY DEF Idle, Corpora
<1>11. needed \subseteq F <=> \A row \in TableRows : \E x \in Slots(v, "scenario") : x[2] = row
  <2>1. ASSUME NEW row
        PROVE  <<"scenario", row>> \in F <=> \E x \in Slots(v, "scenario") : x[2] = row
    <3>1. ASSUME NEW x \in Slots(v, "scenario"), x[2] = row PROVE <<"scenario", row>> \in F
      BY <1>4, <1>5, <3>1
    <3>2. <<"scenario", row>> \in F => <<"scenario", row>> \in Slots(v, "scenario")
      BY <1>5
    <3> QED
      BY <3>1, <3>2
  <2> HIDE DEF F
  <2> QED
    BY <2>1
<1>12. needed \subseteq F => Slots(v, "scenario") # {}
  <2>1. "refer" \in TableRows
    BY DEF TableRows
  <2>2. ASSUME needed \subseteq F PROVE <<"scenario", "refer">> \in Slots(v, "scenario")
    <3>1. <<"scenario", "refer">> \in F
      BY <2>1, <2>2
    <3> HIDE DEF F
    <3> QED
      BY <1>5, <3>1
  <2> QED
    BY <2>2
<1>13. ASSUME Slots(v, "scenario") # {}
       PROVE  (\A part \in DecisionParts : CountedOn(v, part)) <=>
                /\ \A x \in F : v.files[x] # "differs"
                /\ v.program \notin Matches
                /\ Slots(v, "construct") # {} => v.program \notin TraceAspects
  <2>1. /\ DecisionParts = {"tck", "coverage", "trace", "scenario", "feel"}
        /\ Corpus["tck"] = "tck" /\ Corpus["trace"] = "construct" /\ Corpus["coverage"] = "construct"
        /\ Corpus["scenario"] = "scenario" /\ Corpus["feel"] = "feel"
    BY DEF DecisionParts, Corpus
  <2>2. \A f : \A x \in Slots(v, f) : v.files[x] # "unprojectable"
    BY <1>5, <1>6
  <2>3. \A p \in DecisionParts \ {"trace"} :
          CountedOn(v, p) <=> \A x \in Slots(v, Corpus[p]) :
                                v.program \notin Matches /\ v.files[x] # "differs"
    BY <2>2 DEF CountedOn, AspectsOf
  <2>4. CountedOn(v, "trace") <=> \A x \in Slots(v, "construct") : v.program \notin TraceAspects
    BY <2>1, <2>2 DEF CountedOn, AspectsOf
  <2> DEFINE says(f) == \A x \in Slots(v, f) : v.program \notin Matches /\ v.files[x] # "differs"
  <2>5. (\A part \in DecisionParts : CountedOn(v, part)) <=>
          /\ says("tck") /\ says("construct") /\ says("scenario") /\ says("feel")
          /\ CountedOn(v, "trace")
    BY <2>1, <2>3
  <2>6. (\A x \in F : v.files[x] # "differs") <=>
          \A f \in families : \A x \in Slots(v, f) : v.files[x] # "differs"
    BY <1>4, <1>5
  <2>7. (says("tck") /\ says("construct") /\ says("scenario") /\ says("feel")) <=>
          /\ v.program \notin Matches
          /\ \A f \in families : \A x \in Slots(v, f) : v.files[x] # "differs"
    BY <1>13
  <2> HIDE DEF says, F, families
  <2> QED
    BY <2>4, <2>5, <2>6, <2>7
<1>14. s \notin Schemaless /\ s \notin Corpora /\ s # "schema-pipeline" /\ s # "ui"
  BY DEF Schemaless, Corpora
<1> HIDE DEF needed
<1>15. ASSUME v.envelope = "built" PROVE Green(DecisionLayer(v)) <=> Upheld(s, v)
  <2>1. Upheld(s, v) <=> /\ Emitted(v) /\ v.program \notin Faults(s) \ Idle(s, v)
                         /\ AllAgree(v) /\ needed \subseteq F
    <3>1. \A x : Harmless(s, x) = {"agrees"}
      BY <1>14 DEF Harmless
    <3>2. v.bundle \in {"built", "other"} <=> Emitted(v)
      BY <1>2 DEF Bundles, Emitted
    <3>3. ~Vacant(s, v)
      BY <1>14 DEF Vacant
    <3> QED
      BY <1>3, <1>8, <1>14, <1>15, <3>1, <3>2, <3>3 DEF Upheld, AllAgree
  <2>2. v.program \notin Faults(s) \ Idle(s, v) <=>
          /\ v.program \notin Matches \union Capabilities \union {"engine", "rows"}
          /\ Slots(v, "construct") # {} => v.program \notin TraceAspects
    <3>1. TraceAspects \cap (Matches \union Capabilities \union {"engine", "rows"}) = {}
      BY DEF TraceAspects, Matches, Capabilities
    <3> QED
      BY <1>9, <1>10, <3>1
  <2> HIDE DEF F
  <2> QED
    BY <1>1, <1>2, <1>7, <1>11, <1>12, <1>13, <2>1, <2>2, DecisionTells DEF F
<1> QED
  BY <1>1, <1>2, <1>15, DecisionTells DEF Truthful

-----------------------------------------------------------------------------
(* The screens' stories.                                                   *)

\* A failed check of each member of S, and of nothing when S is empty.
LEMMA NoneGraded ==
  ASSUME NEW id, NEW S, IsFiniteSet(S)
  PROVE  LET C == Each(id, [s \in S |-> FALSE]) IN Graded(C) /\ (Green(C) <=> S = {})
<1> DEFINE held == [s \in S |-> FALSE]
<1>1. DOMAIN held = S /\ \A s \in S : held[s] \in BOOLEAN /\ ~held[s]
  OBVIOUS
<1> HIDE DEF held
<1>2. Graded(Each(id, held)) /\ (Green(Each(id, held)) <=> \A s \in S : held[s])
  BY <1>1, EachSlotGraded
<1> QED
  BY <1>1, <1>2 DEF held

\* The stories that show an aspect, each on its own and all together.
LEMMA StoriesTell ==
  ASSUME NEW r, IsFiniteSet(DOMAIN r.rows), DOMAIN r.rows # {}, NEW aspect, NEW id, NEW held,
         held \in BOOLEAN,
         held <=> CountWhole(r, DOMAIN r.rows, {aspect}) = Cardinality(DOMAIN r.rows)
                  /\ DOMAIN r.rows # {}
  PROVE  /\ Graded(One(id, held))
         /\ Green(One(id, held)) <=> \A s \in DOMAIN r.rows : aspect \in r.rows[s]
         /\ IsFiniteSet(Failing(r, aspect))
         /\ Failing(r, aspect) = {} <=> \A s \in DOMAIN r.rows : aspect \in r.rows[s]
<1> DEFINE S == DOMAIN r.rows
<1>1. CountWhole(r, S, {aspect}) = Cardinality(S) <=> \A s \in S : Whole(r, s, {aspect})
  BY CountTells
<1>2. \A s : Whole(r, s, {aspect}) <=> aspect \in r.rows[s]
  BY DEF Whole
<1>3. Failing(r, aspect) \subseteq S /\ (Failing(r, aspect) = {} <=> \A s \in S : aspect \in r.rows[s])
  BY DEF Failing
<1>4. IsFiniteSet(Failing(r, aspect))
  BY <1>3, FS_Subset
<1> HIDE DEF S
<1> QED
  BY <1>1, <1>2, <1>3, <1>4, OneGraded DEF S

\* What the preview's harness leaves of the baseline and the snapshot.
LEMMA UiRows ==
  ASSUME NEW o, Baseline \in DOMAIN o.files, NEW r, r = UiResults(o)
  PROVE  /\ IsFiniteSet(DOMAIN r.rows) /\ DOMAIN r.rows # {}
         /\ \A a \in {"renders", "accessible"} :
              (\A s \in DOMAIN r.rows : a \in r.rows[s]) <=> o.program # a
         /\ (\A s \in DOMAIN r.rows : "matched" \in r.rows[s]) <=>
              o.program # "matched" /\ Snapshot \in DOMAIN o.files /\ o.files[Snapshot] = "agrees"
         /\ r.provenance = (o.files[Baseline] # "outdated")
         /\ IsFiniteSet(r.dangling) /\ (r.dangling = {} <=> o.files[Baseline] # "dangling")
         /\ r.controls \in Nat /\ (r.controls > 0 <=> o.files[Baseline] # "nested")
         /\ r.contrast = (o.program # "contrast")
<1> DEFINE committed == Snapshot \in DOMAIN o.files /\ o.files[Snapshot] = "agrees"
           drifted == {o.program} \union (IF committed THEN {} ELSE {"matched"})
           S == {<<"story", p>> : p \in PdpStates}
           rows == [s \in S |-> StoryAspects \ drifted]
           dangling == Having(o, "baseline", "dangling") \cap {Baseline}
           controls == IF o.files[Baseline] = "nested" THEN 0 ELSE 1
           provenance == o.files[Baseline] # "outdated"
           contrast == o.program # "contrast"
<1>1. r = [rows |-> rows, provenance |-> provenance, dangling |-> dangling,
           controls |-> controls, contrast |-> contrast]
  BY DEF UiResults
<1>2. IsFiniteSet(S) /\ S # {}
  <2>1. S = {<<"story", "hidden">>, <<"story", "read-only">>, <<"story", "error">>,
             <<"story", "validation-failed">>, <<"story", "hidden">>}
    BY DEF PdpStates
  <2> HIDE DEF S
  <2> QED
    BY <2>1, FewFinite
<1>3. IsFiniteSet(dangling) /\ (dangling = {} <=> o.files[Baseline] # "dangling")
  <2>1. IsFiniteSet({Baseline}) /\ dangling \subseteq {Baseline}
    BY FS_Singleton
  <2>2. Baseline \in Having(o, "baseline", "dangling") <=> o.files[Baseline] = "dangling"
    BY DEF Having, Slots, Baseline
  <2> QED
    BY <2>1, <2>2, FS_Subset
<1>4. DOMAIN rows = S /\ \A s \in S : rows[s] = StoryAspects \ drifted
  OBVIOUS
<1>5. /\ \A a \in {"renders", "accessible"} : a \in StoryAspects \ drifted <=> o.program # a
      /\ "matched" \in StoryAspects \ drifted <=> o.program # "matched" /\ committed
  BY DEF StoryAspects
<1> HIDE DEF S, rows, dangling, drifted
<1> QED
  BY <1>1, <1>2, <1>3, <1>4, <1>5

LEMMA UiTells ==
  ASSUME NEW v, IsFiniteSet(DOMAIN v.files), Baseline \in DOMAIN v.files,
         NEW o, o.files = v.files, o.program = v.program,
         v.parts.results = UiResults(o), v.parts.results \notin {NoPart, Torn}
  PROVE  /\ Graded(Ui(v))
         /\ Green(Ui(v)) <=>
              /\ Emitted(v) /\ ~Malformed(v, {"baseline"})
              /\ \A x \in Slots(v, "baseline") : v.files[x] # "invalid"
              /\ v.files[Baseline] \notin {"outdated", "dangling", "nested"}
              /\ Snapshot \in DOMAIN v.files /\ v.files[Snapshot] = "agrees"
              /\ v.program \notin StoryAspects \union {"contrast"}
<1> DEFINE r == v.parts.results
           S == DOMAIN r.rows
           shown(a) == \A s \in S : a \in r.rows[s]
           all(a) == CountWhole(r, S, {a}) = Cardinality(S) /\ S # {}
           clean == r.dangling = {} /\ r.controls > 0
           e1 == all("renders")
           e2 == all("accessible")
           e3 == all("matched")
           c0 == One("baseline-present", TRUE)
           c1 == DslValid(v, "baseline")
           d1 == One("provenance-current", r.provenance)
           d2 == Each("scope-lint", [s \in r.dangling |-> FALSE])
           d3 == One("scope-lint-clean", clean)
           d4 == One("states-covered", e1)
           d5 == Each("a11y", [s \in Failing(r, "accessible") |-> FALSE])
           d6 == One("axe-aa", e2)
           d7 == One("contrast", r.contrast)
           d8 == Each("snapshot", [s \in Failing(r, "matched") |-> FALSE])
           d9 == One("snapshots-matched", e3)
           judged == d1 \union d2 \union d3 \union d4 \union d5 \union d6 \union d7 \union d8 \union d9
           whole == c0 \union c1 \union judged
<1>1. /\ IsFiniteSet(S) /\ S # {}
      /\ shown("renders") <=> v.program # "renders"
      /\ shown("accessible") <=> v.program # "accessible"
      /\ shown("matched") <=>
           v.program # "matched" /\ Snapshot \in DOMAIN v.files /\ v.files[Snapshot] = "agrees"
      /\ r.provenance = (v.files[Baseline] # "outdated")
      /\ IsFiniteSet(r.dangling) /\ (r.dangling = {} <=> v.files[Baseline] # "dangling")
      /\ r.controls > 0 <=> v.files[Baseline] # "nested"
      /\ r.contrast = (v.program # "contrast")
  <2>1. Baseline \in DOMAIN o.files
    OBVIOUS
  <2> HIDE DEF r
  <2>2. r = UiResults(o)
    BY DEF r
  <2> QED
    BY <2>1, <2>2, UiRows
<1>2. Slots(v, "baseline") # {}
  BY DEF Slots, Baseline
<1>3. Ui(v) = IF v.bundle = "stale" THEN Fail("schema-present")
              ELSE IF v.bundle = "absent" \/ Malformed(v, {"baseline"}) THEN Thrown
              ELSE whole
  BY <1>2 DEF Ui
<1>4. /\ e1 \in BOOLEAN /\ (e1 <=> all("renders"))
      /\ e2 \in BOOLEAN /\ (e2 <=> all("accessible"))
      /\ e3 \in BOOLEAN /\ (e3 <=> all("matched"))
      /\ clean \in BOOLEAN /\ (clean <=> r.dangling = {} /\ r.controls > 0)
      /\ r.provenance \in BOOLEAN /\ r.contrast \in BOOLEAN
  BY <1>1
<1> HIDE DEF e1, e2, e3, clean, r
<1>5. /\ Graded(d4) /\ (Green(d4) <=> shown("renders"))
      /\ Graded(d6) /\ (Green(d6) <=> shown("accessible"))
      /\ Graded(d9) /\ (Green(d9) <=> shown("matched"))
      /\ IsFiniteSet(Failing(r, "accessible")) /\ (Failing(r, "accessible") = {} <=> shown("accessible"))
      /\ IsFiniteSet(Failing(r, "matched")) /\ (Failing(r, "matched") = {} <=> shown("matched"))
  BY <1>1, <1>4, StoriesTell
<1>6. /\ Graded(d2) /\ (Green(d2) <=> r.dangling = {})
      /\ Graded(d5) /\ (Green(d5) <=> shown("accessible"))
      /\ Graded(d8) /\ (Green(d8) <=> shown("matched"))
  BY <1>1, <1>5, NoneGraded
<1>7. /\ Graded(d1) /\ (Green(d1) <=> r.provenance)
      /\ Graded(d3) /\ (Green(d3) <=> clean)
      /\ Graded(d7) /\ (Green(d7) <=> r.contrast)
      /\ Graded(c0) /\ Green(c0)
  BY <1>4, OneGraded
<1>8. Graded(c1) /\ (Green(c1) <=> \A x \in Slots(v, "baseline") : v.files[x] # "invalid")
  BY DslGraded
<1> HIDE DEF c0, c1, d1, d2, d3, d4, d5, d6, d7, d8, d9
<1>9. /\ Graded(whole)
      /\ Green(whole) <=> /\ Green(c1) /\ Green(d1) /\ Green(d2) /\ Green(d3) /\ Green(d4)
                          /\ Green(d5) /\ Green(d6) /\ Green(d7) /\ Green(d8) /\ Green(d9)
  <2> DEFINE some == d1 \union d2 \union d3 \union d4
             more == d5 \union d6 \union d7 \union d8
             rest == c0 \union c1 \union d9
  <2>1. /\ Graded(some) /\ (Green(some) <=> Green(d1) /\ Green(d2) /\ Green(d3) /\ Green(d4))
        /\ Graded(more) /\ (Green(more) <=> Green(d5) /\ Green(d6) /\ Green(d7) /\ Green(d8))
    BY <1>5, <1>6, <1>7, FourGraded
  <2>2. Graded(rest) /\ (Green(rest) <=> Green(c1) /\ Green(d9))
    BY <1>5, <1>7, <1>8, BothGraded
  <2>3. whole = some \union more \union rest
    OBVIOUS
  <2> HIDE DEF some, more, rest, whole
  <2> QED
    BY <2>1, <2>2, <2>3, BothGraded
<1> HIDE DEF whole
<1>10. Green(whole) <=>
         /\ \A x \in Slots(v, "baseline") : v.files[x] # "invalid"
         /\ v.files[Baseline] \notin {"outdated", "dangling", "nested"}
         /\ shown("renders") /\ shown("accessible") /\ shown("matched")
         /\ v.program # "contrast"
  BY <1>1, <1>4, <1>5, <1>6, <1>7, <1>8, <1>9
<1>11. v.program \notin StoryAspects \union {"contrast"} <=>
         /\ v.program # "renders" /\ v.program # "accessible" /\ v.program # "matched"
         /\ v.program # "contrast"
  BY DEF StoryAspects
<1> HIDE DEF shown
<1> QED
  BY <1>1, <1>3, <1>9, <1>10, <1>11, FailGraded DEF Emitted, shown

LEMMA UiTrue ==
  ASSUME TheCatalog, NEW v, FreshView("ui", v)
  PROVE  Truthful("ui", v)
<1> DEFINE s == "ui"
           F == DOMAIN v.files
           sound == {"agrees", "dangling", "scopeless", "nested", "outdated"}
<1>1. PICK o : /\ o.files = v.files /\ o.program = v.program /\ ~UiThrows(o)
               /\ v.parts.results = UiResults(o) /\ v.parts.results \notin {NoPart, Torn}
  BY DEF FreshView, PartsOf, ProducerThrows, Produced
<1>2. IsFiniteSet(F) /\ CheckScope(s, v) = Ui(v) /\ v.bundle \in Bundles
  BY FixtureFacts DEF FreshView, CheckScope
<1>3. Baseline \in F /\ v.files[Baseline] \notin {"malformed", "scopeless"}
  BY <1>1 DEF UiThrows
<1>4. /\ Graded(Ui(v))
      /\ Green(Ui(v)) <=>
           /\ Emitted(v) /\ ~Malformed(v, {"baseline"})
           /\ \A x \in Slots(v, "baseline") : v.files[x] # "invalid"
           /\ v.files[Baseline] \notin {"outdated", "dangling", "nested"}
           /\ Snapshot \in F /\ v.files[Snapshot] = "agrees"
           /\ v.program \notin StoryAspects \union {"contrast"}
  BY <1>1, <1>2, <1>3, UiTells
<1>5. /\ Required(s) = {Baseline, Snapshot} /\ Globbed(s) = {"baseline"} /\ Inhabited(s) = {}
      /\ Faults(s) = StoryAspects \union {"contrast"} /\ Idle(s, v) = {}
  <2>1. Required(s) = {Baseline, Snapshot}
    BY DEF Required
  <2>2. Globbed(s) = {"baseline"}
    BY DEF Globbed, Corpora
  <2>3. Inhabited(s) = {}
    BY DEF Inhabited
  <2>4. Faults(s) = StoryAspects \union {"contrast"}
    BY DEF Faults, Corpora
  <2>5. Idle(s, v) = {}
    BY DEF Idle, Corpora
  <2> QED
    BY <2>1, <2>2, <2>3, <2>4, <2>5
<1>6. /\ Baseline[1] = "baseline" /\ Snapshot[1] = "snapshot" /\ Baseline # Snapshot
  BY DEF Baseline, Snapshot
<1>7. ASSUME NEW x \in F
      PROVE  /\ x # Snapshot => x[1] = "baseline" /\ v.files[x] \in sound \union {"invalid", "malformed"}
             /\ x = Snapshot => v.files[x] \in {"agrees", "differs"}
  <2>1. /\ Fixture(s, x)
        /\ x[1] # "kit" => v.files[x] \in {"agrees"} \union Flaws(s, x[1])
    BY <1>7, FixtureContent DEF FreshView
  <2>2. x \in {Baseline, Snapshot} \/ x[1] = "baseline"
    BY <1>5, <2>1 DEF Fixture
  <2>3. /\ Flaws(s, "snapshot") = {"differs"}
        /\ Flaws(s, "baseline") = {"invalid", "malformed", "dangling", "scopeless", "nested", "outdated"}
    BY DEF Flaws, Corpora
  <2> HIDE DEF F
  <2> QED
    BY <1>6, <2>1, <2>2, <2>3
<1>8. \A x : x \in Slots(v, "baseline") <=> x \in F /\ x # Snapshot
  BY <1>6, <1>7 DEF Slots
<1>9. ~Malformed(v, {"baseline"}) <=> \A x \in F : x # Snapshot => v.files[x] # "malformed"
  <2>1. ~Malformed(v, {"baseline"}) <=> \A x \in F : x[1] \in {"baseline"} => v.files[x] # "malformed"
    BY ParsedTells
  <2> HIDE DEF F
  <2> QED
    BY <1>6, <1>7, <2>1
<1>10. /\ \A x : x # Baseline /\ x # Snapshot => Harmless(s, x) = sound
       /\ Harmless(s, Baseline) = {"agrees"} /\ Harmless(s, Snapshot) = {"agrees"}
  BY DEF Harmless
<1>11. s \notin Schemaless /\ s \notin Corpora /\ s # "schema-pipeline"
  BY DEF Schemaless, Corpora
<1>12. ASSUME v.envelope = "built" PROVE Green(Ui(v)) <=> Upheld(s, v)
  <2>1. Upheld(s, v) <=> /\ Emitted(v) /\ v.program \notin StoryAspects \union {"contrast"}
                         /\ \A x \in F : v.files[x] \in Harmless(s, x)
                         /\ Snapshot \in F
    <3>1. v.bundle \in {"built", "other"} <=> Emitted(v)
      BY <1>2 DEF Bundles, Emitted
    <3>2. ~Vacant(s, v)
      BY <1>11 DEF Vacant
    <3> QED
      BY <1>3, <1>5, <1>11, <1>12, <3>1, <3>2 DEF Upheld
  <2> HIDE DEF F
  <2>2. (\A x \in F : v.files[x] \in Harmless(s, x)) <=>
          /\ \A x \in F : x # Snapshot => v.files[x] \notin {"invalid", "malformed"}
          /\ v.files[Baseline] \notin {"outdated", "dangling", "nested"}
          /\ Snapshot \in F => v.files[Snapshot] = "agrees"
    BY <1>3, <1>6, <1>7, <1>10
  <2> QED
    BY <1>4, <1>8, <1>9, <2>1, <2>2
<1> QED
  BY <1>2, <1>4, <1>12 DEF Truthful

-----------------------------------------------------------------------------
(* What a verdict on fresh artifacts says.                                 *)

\* The catalog but for the portal, whose sorted inboxes are of the seeds.
HarnessesButPortal ==
  Corpora \union
  {"self-check", "agent-kit", "schema-pipeline", "codegen", "reference-data",
   "decision-projection-spike", "contract-gate", "decision-layer",
   "interpreter-determinism-spike", "flow-layer", "decisionrecord", "entity-store", "entity-api",
   "authz", "ui", "adapters", "notifications", "issuance", "code-quality"}

\* The marks of a missing and of a torn artifact are nothing that a producer reads or writes.
MarksApart ==
  /\ \A f, g : [files |-> f, program |-> g] # NoPart
  /\ \A s, v : \A p \in PartsOf(s) : Produced(s, p, v) \notin {NoPart, Torn}

LEMMA HarnessTrue ==
  ASSUME TheCatalog, NEW s \in HarnessesButPortal, NEW v, FreshView(s, v)
  PROVE  Truthful(s, v)
<1>1. CASE s \in Corpora
  BY <1>1, CorpusTrue
<1>2. CASE s \in {"self-check", "agent-kit", "schema-pipeline", "codegen", "reference-data"}
  BY <1>2, SelfCheckTrue, AgentKitTrue, SchemaPipelineTrue, CodegenTrue, ReferenceDataTrue
<1>3. CASE s \in {"decision-projection-spike", "contract-gate", "decision-layer",
                  "interpreter-determinism-spike", "code-quality"}
  BY <1>3, ProjectionSpikeTrue, ContractGateTrue, DecisionLayerTrue, DeterminismSpikeTrue,
     CodeQualityTrue
<1>4. CASE s \in {"flow-layer", "decisionrecord", "entity-store", "entity-api", "authz"}
  BY <1>4, FlowLayerTrue, DecisionRecordTrue, EntityStoreTrue, EntityApiTrue, AuthzTrue
<1>5. CASE s \in {"ui", "adapters", "notifications", "issuance"}
  BY <1>5, UiTrue, AdaptersTrue, NotificationsTrue, IssuanceTrue
<1> QED
  BY <1>1, <1>2, <1>3, <1>4, <1>5 DEF HarnessesButPortal

LEMMA SeenFresh ==
  ASSUME TheCatalog, MarksApart, NEW s, NEW v, NEW known, Seen(s, v, known),
         \A p \in PartsOf(s) : known[p] = [files |-> v.files, program |-> v.program]
  PROVE  FreshView(s, v)
<1>1. ASSUME NEW p \in PartsOf(s)
      PROVE  /\ v.parts[p] \notin {NoPart, Torn}
             /\ \E o : /\ o.files = v.files /\ o.program = v.program
                       /\ ~ProducerThrows(s, p, o) /\ v.parts[p] = Produced(s, p, o)
  <2>1. known[p] # NoPart /\ known[p] = [files |-> v.files, program |-> v.program]
    BY DEF MarksApart
  <2>2. PICK o : /\ known[p] = [files |-> o.files, program |-> o.program]
                 /\ ~Throws(s, p, o) /\ v.parts[p] = Results(s, p, o)
    BY <2>1 DEF Seen, Made
  <2>3. o.files = v.files /\ o.program = v.program
    BY <2>1, <2>2
  <2>4. ~ProducerThrows(s, p, o) /\ v.parts[p] = Produced(s, p, o)
    BY <2>2 DEF TheCatalog
  <2> QED
    BY <2>3, <2>4 DEF MarksApart
<1> QED
  BY <1>1 DEF Seen, FreshView

\* No step registers a scope.
LEMMA ScopesStay ==
  ASSUME VerifyInv, [VerifyNext]_vars
  PROVE  Scopes' = Scopes
<1>1. ASSUME NEW k \in Runs, Process(k) PROVE registry' = registry
  BY <1>1, ProcessKeeps DEF Becomes
<1> QED
  BY <1>1, RepositoryKeeps DEF VerifyNext, vars, Scopes

\* A verdict that a scope gives on artifacts made of the fixtures and the code it sees is
\* "pass" exactly when what the scope stands for is so: no check is missing and none is
\* amiss, for any fixtures, any fault of the code and any state of the schemas, however
\* the runs, edits and producers interleave.
THEOREM FreshVerdictsTrue ==
  ASSUME TheCatalog, MarksApart
  PROVE  VerifySpec /\ Prepared /\ Scopes \subseteq HarnessesButPortal => []FreshVerdictTrue
<1>1. JudgeInv /\ Scopes \subseteq HarnessesButPortal => FreshVerdictTrue
  <2> SUFFICES ASSUME JudgeInv, Scopes \subseteq HarnessesButPortal,
                      NEW k \in Runs, run[k].judged # NoPart, run[k].judged.fresh
               PROVE  run[k].envelope.verdict = "pass" <=> run[k].judged.sound
    BY DEF FreshVerdictTrue
  <2> DEFINE r == run[k]
  <2>1. PICK s \in Scopes : \E v : \E known : Seen(s, v, known) /\ JudgedOn(k, r, s, v, known)
    BY DEF JudgeInv, Watched
  <2>2. PICK v : \E known : Seen(s, v, known) /\ JudgedOn(k, r, s, v, known)
    BY <2>1
  <2>3. PICK known : Seen(s, v, known) /\ JudgedOn(k, r, s, v, known)
    BY <2>2
  <2>4. r.envelope = SelfJudged(Envelope(s, k, CheckScope(s, v)), v.envelope = "built")
    BY <2>3 DEF JudgedOn, TheCatalog
  <2>5. r.judged.sound <=> Upheld(s, v)
    BY <2>3 DEF JudgedOn, TheCatalog
  <2>6. \A p \in PartsOf(s) : known[p] = [files |-> v.files, program |-> v.program]
    BY <2>3 DEF JudgedOn
  <2>7. Truthful(s, v)
    BY <2>3, <2>6, SeenFresh, HarnessTrue
  <2>8. Upheld(s, v) => v.envelope = "built"
    BY DEF Upheld
  <2> DEFINE e == r.envelope
             C == CheckScope(s, v)
             valid == v.envelope = "built"
  <2>9. valid \in BOOLEAN
    OBVIOUS
  <2>10. Graded(C) /\ (valid => (Green(C) <=> Upheld(s, v)))
    BY <2>7 DEF Truthful
  <2>11. e = SelfJudged(Envelope(s, k, C), valid)
    BY <2>4
  <2>12. Upheld(s, v) => valid
    BY <2>8
  <2>13. (r.envelope.verdict = "pass" <=> r.judged.sound) <=> (e.verdict = "pass" <=> Upheld(s, v))
    BY <2>5
  <2> HIDE DEF C, valid, e, r
  <2>14. e.verdict = "pass" <=> valid /\ Green(C)
    BY <2>9, <2>10, <2>11, VerdictTells
  <2>15. e.verdict = "pass" <=> Upheld(s, v)
    BY <2>10, <2>12, <2>14
  <2> QED
    BY <2>13, <2>15 DEF r
<1>2. VerifyInit => VerifyInv
  BY InvStarts
<1>3. VerifyInv /\ [VerifyNext]_vars => VerifyInv'
  BY InvStays
<1>4. (Scopes \subseteq HarnessesButPortal) /\ VerifyInv /\ [VerifyNext]_vars
        => (Scopes \subseteq HarnessesButPortal)'
  BY ScopesStay
<1> QED
  BY <1>1, <1>2, <1>3, <1>4, JudgeInvHolds, PTL DEF VerifySpec
=============================================================================
