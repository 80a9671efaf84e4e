--------------------------- MODULE CatalogVerify ---------------------------
(***************************************************************************)
(* The verify processes over the harness catalog: what its covering scopes *)
(* promise of a fixture that nobody has run yet.                           *)
(***************************************************************************)
EXTENDS Verify, Harnesses

\* A fixture that was committed after the producer ran, under a name of its own,
\* fails every scope that covers its fixtures: nobody has to remember the re-run.
AddedFixtureFails ==
  \A k \in Runs :
    run[k].judged # NoPart /\ run[k].envelope.scope \in Covering
      => LET s == run[k].envelope.scope IN
         (\E p \in PartsOf(s) : /\ run[k].judged.known[p] # NoPart
                                /\ ~(DOMAIN run[k].judged.files
                                       \subseteq DOMAIN run[k].judged.known[p].files))
           => run[k].envelope.verdict = "fail"
=============================================================================
