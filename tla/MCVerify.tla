------------------------------ MODULE MCVerify ------------------------------
(***************************************************************************)
(* The verify CLI over the whole harness catalog, for TLC: one initial     *)
(* state for each scope and each way in which its fixtures, its code or    *)
(* its schemas may be off, with artifacts made from them or with none, and *)
(* then MaxMoves edits, producer runs and verify runs, interleaved at will.*)
(* The loops and functions behind three of the harnesses (Delivery,        *)
(* ReferenceData, Messages) are run beside them, each in initial states of *)
(* its own, in which the others stand idle.                                *)
(***************************************************************************)
EXTENDS CatalogVerify, Delivery, ReferenceData, Messages

CONSTANTS MaxMoves, LongRun, MaxMessages, txt, s7, n7

VARIABLES world, moves

MC_Tasks == {[id |-> 1, due |-> 20, caseId |-> "c-100"], [id |-> 2, due |-> 10, caseId |-> "c-100"],
             [id |-> 3, due |-> 20, caseId |-> "c-200"]}
MC_CanView == [eve |-> {"c-100"}, iris |-> {"c-100", "c-200"}, pat |-> {"c-200"}]
MC_CanModify == [eve |-> {"c-100"}, iris |-> {}, pat |-> {}]
MC_CrossTeam == {"pat"}
MC_Accepts(m, n) == n = 2 \/ ~m.poison
MC_AsNumber == [s \in {s7} |-> n7]

-----------------------------------------------------------------------------
\* What each scope's fixtures and code may be.

Others(s) ==
  CASE s = "flow-layer"     -> {<<"vector", "task">>, <<"vector", "delegation">>}
    [] s = "decisionrecord" -> {<<"case", "whole">>}
    [] s = "entity-store"   -> {<<"vector", "crud">>, <<"vector", "paging">>}
    [] s = "entity-api"     -> {<<"vector", "reads">>}
    [] s = "adapters"       -> {<<"goldens", "1">>}
    [] s = "notifications"  -> {<<"goldens", c>> : c \in Channels}
    [] s = "issuance"       -> {<<"verification", "1">>}
    [] s = "reference-data" -> {<<"codeset", "1">>, <<"codeset", "2">>}
    [] s = "decision-layer" -> {<<"tck", "1">>, <<"construct", "1">>, <<"feel", "1">>}
    [] s = "portal"         -> {<<"scenario", "eve">>}
    [] s \in Corpora \union {"decision-projection-spike"} -> {<<"vector", "1">>}
    [] OTHER                -> {}

Base(s) == [x \in Required(s) \union Others(s) |-> "agrees"]

Additions(s) ==
  CASE s \in Corpora \union {"flow-layer", "entity-store", "entity-api", "decision-projection-spike"}
                            -> {<<"vector", "new">>}
    [] s = "decisionrecord" -> {<<"case", "new">>}
    [] s = "adapters"       -> {<<"goldens", "new">>}
    [] s = "notifications"  -> {<<"templates", "new">>}
    [] s = "issuance"       -> {<<"verification", "new">>}
    [] s = "decision-layer" -> {<<"tck", "new">>}
    [] s = "portal"         -> {<<"principal", "iris">>, <<"scenario", "pat">>}
    [] s = "reference-data" -> {<<"codeset", "new">>}
    [] s = "ui"             -> {<<"baseline", "new">>}
    [] OTHER                -> {}

Catalog == {"agent-kit", "schema-fidelity-spike", "contract-vectors", "schema-pipeline", "codegen",
            "reference-data", "decision-projection-spike", "contract-gate", "decision-layer",
            "interpreter-determinism-spike", "flow-layer", "decisionrecord", "entity-store",
            "entity-api", "authz", "ui", "portal", "adapters", "notifications", "issuance",
            "code-quality"}

\* The fixtures as they are, with one removed, and with one of another content or
\* one more.
FilesOf(s) ==
  {Base(s)}
  \union {[x \in DOMAIN Base(s) \ {y} |-> "agrees"] : y \in DOMAIN Base(s)}
  \union {[Base(s) EXCEPT ![y[1]] = y[2]] :
            y \in UNION {{x} \X Content(s, x) : x \in DOMAIN Base(s)}}
  \union {[x \in DOMAIN Base(s) \union {y} |-> "agrees"] : y \in Additions(s)}

\* The artifacts that the producers make of a view; some read another's.
Build(s, v) ==
  [p \in PartsOf(s) |-> IF ProducerThrows(s, p, v) THEN NoPart ELSE Produced(s, p, v)]
Built(s, v) == Build(s, [v EXCEPT !.parts = Build(s, v)])

-----------------------------------------------------------------------------

VerifyIdle ==
  /\ registry = <<>> /\ files = <<>> /\ bundle = "built" /\ program = "nothing"
  /\ parts = <<>> /\ making = <<>> /\ ledger = <<>> /\ origin = <<>>
  /\ run = [k \in Runs |-> Ready]

\* At most one thing is off, and then one move is left; two where nothing is off, and
\* all of them for the scope LongRun.
InitVerify ==
  /\ world = "verify"
  /\ \E s \in Catalog : \E f \in FilesOf(s), b \in Bundles,
        fault \in Faults(s) \union {"nothing"}, made \in BOOLEAN :
       LET none == [p \in PartsOf(s) |-> NoPart]
           v == [files |-> f, bundle |-> b, program |-> fault, parts |-> none]
           artifacts == IF made THEN Built(s, v) ELSE none
           of(x) == [r \in {"self-check", s} |-> IF r = s THEN x ELSE <<>>]
           off == {x \in 1..3 : <<f # Base(s), b # "built", fault # "nothing">>[x]}
       IN  /\ Cardinality(off) <= 1
           /\ moves = IF off # {} THEN 2 ELSE IF s = LongRun THEN 0 ELSE 1
           /\ made \/ (f = Base(s) /\ fault = "nothing")
           /\ registry = <<"self-check", s>>
           /\ files = of(f) /\ bundle = b /\ program = fault
           /\ parts = of(artifacts)
           /\ making = of(none)
           /\ origin = of([p \in PartsOf(s) |->
                             IF artifacts[p] = NoPart THEN NoPart
                             ELSE [files |-> f, program |-> fault]])
           /\ ledger = [r \in {"self-check", s} |-> NoPart]
           /\ run = [k \in Runs |-> Ready]
           /\ VerifyInit

DeliveryIdle == messages = <<>> /\ maxAttempts = 0 /\ DeliveryStart
InitDelivery ==
  /\ world = "delivery"
  /\ messages \in UNION {[1..n -> [id : Ids, poison : BOOLEAN]] : n \in 0..MaxMessages}
  /\ maxAttempts \in 0..2
  /\ DeliveryStart

Windows == {[from |-> f, to |-> t] : f \in 0..1, t \in {1, 2, Open}}
MC_Dates == 0..3
ReferenceIdle == sets = <<>> /\ NotCalled
InitReference ==
  /\ world = "reference"
  /\ \E w1, w2 \in Windows, e1, e2 \in Windows \union {NoWindow}, dead, back \in BOOLEAN,
        key \in {"nation", "currency"} :
       sets = << [key |-> "nation", effective |-> w1,
                  rows |-> <<[code |-> "a", deprecated |-> FALSE, effective |-> e1,
                              refs |-> {[key |-> "currency", code |-> "x"]}]>>],
                 [key |-> key, effective |-> w2,
                  rows |-> <<[code |-> "x", deprecated |-> dead, effective |-> e2,
                              refs |-> IF back THEN {[key |-> "nation", code |-> "a"]} ELSE {}],
                             [code |-> "x", deprecated |-> FALSE, effective |-> NoWindow,
                              refs |-> {}]>>] >>
  /\ ReferenceInit

\* Of a message the objects are itself, what it has at x, and its headers; the fourth
\* is a literal of the mapping.
MC_Heap(x, headers) ==
  << [t \in {"id"} \union (IF x = Undefined THEN {} ELSE {"x"})
             \union (IF headers THEN {"_headers"} ELSE {}) |->
        CASE t = "x" -> x [] t = "_headers" -> 3 [] OTHER -> s7],
     [h |-> txt], [h |-> s7], [h |-> txt] >>
MappingRules ==
  [operation : {"constant"}, to : {<<"a">>, <<"a", "b">>, <<"a", "h">>}, from : {NoPointer},
   optional : {TRUE}, value : {txt, 4}]
  \union
  [operation : {"copy", "copyNumber"}, to : {<<"a">>, <<"a", "b">>, <<"a", "h">>},
   from : {NoPointer, <<"x">>, <<"_headers">>, <<"_headers", "h">>}, optional : BOOLEAN]
Params == {"p", "q"}

MessagesIdle == input = [of |-> "nothing"] /\ result = {}
InitMessages ==
  /\ world = "messages"
  /\ \/ \E r1, r2 \in MappingRules, x \in {Undefined, txt, s7, 2}, headers \in BOOLEAN,
           key \in {<<"id">>, <<"_headers", "h">>}, protocol \in {"rest", "broker"} :
          input = [of |-> "translate", heap |-> MC_Heap(x, headers), wire |-> 1,
                   protocol |-> protocol,
                   mapping |-> [rules |-> <<r1, r2>>, keys |-> <<key>>]]
     \/ \E channel \in {"email", "sms"}, declared, body \in SUBSET Params,
           subject \in {NoText} \union SUBSET Params, given \in SUBSET (Params \union {"r"}),
           locale \in {"en", "fr"} :
          input = [of |-> "render",
                   template |-> [channel |-> channel, params |-> declared,
                                 text |-> [l \in {"en"} |-> [body |-> body, subject |-> subject]]],
                   request |-> [locale |-> locale, params |-> [p \in given |-> "v"]]]
  /\ MessagesInit

Init ==
  /\ \/ InitVerify /\ DeliveryIdle /\ ReferenceIdle /\ MessagesIdle
     \/ VerifyIdle /\ InitDelivery /\ ReferenceIdle /\ MessagesIdle
     \/ VerifyIdle /\ DeliveryIdle /\ InitReference /\ MessagesIdle
     \/ VerifyIdle /\ DeliveryIdle /\ ReferenceIdle /\ InitMessages
  /\ world # "verify" => moves = 0

-----------------------------------------------------------------------------

MCEdit ==
  \E s \in Scopes : \/ \E x \in DOMAIN files[s] : Withdraw(s, x)
                    \/ \E x \in DOMAIN files[s] \union Additions(s) :
                         \E c \in Content(s, x) : Edit(s, x, c)
MCRebuild == \E b \in Bundles : Rebuild(b)
MCProduce == \E s \in Scopes : \E p \in DOMAIN parts[s] : Produce(s, p)
MCWritten == \E s \in Scopes : \E p \in DOMAIN parts[s] : Written(s, p)
MCProducerKilled == \E s \in Scopes : \E p \in DOMAIN parts[s] : ProducerKilled(s, p)
MCStart == \E k \in Runs, asked \in {registry[2], "all", Unknown}, keeps \in BOOLEAN :
             Start(k, asked, keeps)
Steps == \E k \in Runs : VerifyStep(k)
Kills == \E k \in Runs : Kill(k)

\* The bound: MaxMoves edits, rebuilds, producer runs and verify runs in all.
MCVerifyNext ==
  \/ moves < MaxMoves /\ moves' = moves + 1 /\ (MCEdit \/ MCRebuild \/ MCProduce \/ MCStart)
  \/ (MCWritten \/ MCProducerKilled \/ Steps \/ Kills) /\ UNCHANGED moves

Next ==
  \/ world = "verify" /\ MCVerifyNext /\ UNCHANGED <<world, dvars, rvars, mvars>>
  \/ world = "delivery" /\ DeliveryNext /\ UNCHANGED <<world, moves, vars, rvars, mvars>>
  \/ world = "reference" /\ Call /\ UNCHANGED <<world, moves, vars, dvars, mvars>>
  \/ world = "messages" /\ MessagesNext /\ UNCHANGED <<world, moves, vars, dvars, rvars>>

\* A verify process is one JavaScript thread that nothing blocks.
Fairness == \A k \in Runs : WF_<<world, moves, vars, dvars, rvars, mvars>>(
              VerifyStep(k) /\ UNCHANGED <<world, moves, dvars, rvars, mvars>>)

Spec == Init /\ [][Next]_<<world, moves, vars, dvars, rvars, mvars>> /\ Fairness

=============================================================================
