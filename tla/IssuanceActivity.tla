-------------------------- MODULE IssuanceActivity --------------------------
(***************************************************************************)
(* issue-document steps of many Cases against one worker's Document        *)
(* registry (packages/flow/src/activities.ts): Temporal runs the           *)
(* issueDocument and acceptDocument activities at least once.  An attempt  *)
(* takes effect in the registry, and its completion may be lost; it is     *)
(* then retried with the same input, for ever.  The registry is a variable *)
(* of the worker's module, so a restarted worker begins with an empty one. *)
(* The template is synthesized from the snapshot's own fields, so rendering*)
(* does not fail here.                                                     *)
(***************************************************************************)
EXTENDS Issuance

CONSTANTS
  OfferKeys,    \* the steps with the offer acceptance facet
  PayloadOf,    \* what the step's snapshot says
  MaxLost,      \* bound: completions lost
  MaxRestarts   \* bound: worker restarts

ASSUME ActivityAssumption ==
  /\ OfferKeys \subseteq Keys
  /\ PayloadOf \in [Keys -> Payloads]
  /\ MaxLost \in Nat /\ MaxRestarts \in Nat

Phases == {"issuing", "issued", "offered", "accepting", "accepted", "declined"}

VARIABLES
  phase,     \* how far each Case's step is
  held,      \* the reference the workflow got from issueDocument
  history,   \* the document events of the Case
  lost, restarts

workflow == <<phase, held, history>>
activityVars == <<service, workflow, lost, restarts>>

ActivityTypeOK ==
  /\ TypeOK
  /\ phase \in [Keys -> Phases]
  /\ held \in [Keys -> References \cup {None}]
  /\ history \in [Keys -> Seq(AuditTypes \cup {"document.declined"})]
  /\ lost \in 0..MaxLost /\ restarts \in 0..MaxRestarts

-----------------------------------------------------------------------------

IssueReplayThrows(k) == FALSE    \* mutant: a repeated issue throws

\* issue() of an issued key.
IssueReplay(k) == Issued(k) /\ UNCHANGED service

\* The workflow gets the activity's result, or the completion is lost.
Complete(k, p, evs) ==
  /\ phase' = [phase EXCEPT ![k] = p]
  /\ history' = [history EXCEPT ![k] = @ \o evs]
  /\ UNCHANGED <<lost, restarts>>
Lose == lost < MaxLost /\ lost' = lost + 1 /\ UNCHANGED <<workflow, restarts>>

\* An attempt of issueDocument: the Case's events are what the audit trail grew by.
IssueAttempt(k) ==
  /\ phase[k] = "issuing"
  /\ Issue(k, PayloadOf[k], None) \/ IssueReplay(k)
  /\ \/ /\ Complete(k, IF k \in OfferKeys THEN "offered" ELSE "issued",
                    [i \in 1..(Len(audit') - Len(audit)) |->
                       audit'[Len(audit) + i].type])
        /\ held' = [held EXCEPT ![k] = memo'[k]]
     \/ Lose

\* The holder accepts, or declines, or the offer lapses.
Decide(k) ==
  /\ phase[k] = "offered"
  /\ \/ Complete(k, "accepting", <<>>)
     \/ Complete(k, "declined", <<"document.declined">>)
  /\ UNCHANGED <<service, held>>

AcceptDueEarly(k) == phase[k] \in {"offered", "accepting"}  \* mutant: ahead of the holder

AcceptDue(k) == phase[k] = "accepting"

\* An attempt of acceptDocument that does not throw.
AcceptAttempt(k) ==
  /\ AcceptDue(k)
  /\ Accept(held[k])
  /\ \/ Complete(k, "accepted", <<"document.accepted">>) /\ UNCHANGED held
     \/ Lose

WorkerRestart ==
  /\ restarts < MaxRestarts /\ restarts' = restarts + 1
  /\ next' = StartsAt
  /\ allocated' = [k \in Keys |-> None]
  /\ voids' = {}
  /\ byReference' = [r \in References |-> None]
  /\ memo' = [k \in Keys |-> None]
  /\ audit' = <<>> /\ claimed' = {}
  /\ UNCHANGED <<handed, workflow, lost>>

ActivityInit ==
  /\ Init
  /\ phase = [k \in Keys |-> "issuing"]
  /\ held = [k \in Keys |-> None]
  /\ history = [k \in Keys |-> <<>>]
  /\ lost = 0 /\ restarts = 0

Attempt(k) == IssueAttempt(k) \/ AcceptAttempt(k)

ActivityNext ==
  \/ \E k \in Keys : IssueAttempt(k) \/ Decide(k) \/ AcceptAttempt(k)
  \/ WorkerRestart

ActivitySpec == ActivityInit /\ [][ActivityNext]_activityVars

\* Temporal retries each activity until it completes.
FairActivitySpec ==
  ActivitySpec /\ \A k \in Keys : WF_activityVars(Attempt(k))

-----------------------------------------------------------------------------
(* Properties.                                                             *)

\* The audit trail has one issue event of step k.
IssuedOnce(k) ==
  \E i \in DOMAIN audit : \A j \in DOMAIN audit :
    audit[j].key = k /\ audit[j].type = "document.issued" <=> j = i

\* While the worker lives, and under any retries, each Case's step holds a reference
\* of its own, and the registry has under it the Document of that step, issued once
\* under one number (interpreter and registry memoize by (case, step):
\* docs/architecture/04-flow-and-case-layer.md:413).  A restart breaks this: the
\* memo goes with the worker, and a retry mints a second number.
ReferencesHeld ==
  restarts = 0 =>
    /\ \A k \in Keys :
         phase[k] # "issuing" =>
           /\ held[k] = memo[k]
           /\ byReference[held[k]] # None /\ byReference[held[k]].key = k
           /\ IssuedOnce(k)
    /\ \A c, d \in handed : c.key = d.key => c.hash.ref = d.hash.ref

\* "Issued, and accepted at T by whom" is answerable
\* (docs/architecture/08-audit-and-observability.md:184): while the worker lives, the
\* registry has a Document accepted only if the holder of this very Document has
\* accepted, and the Case never says so before the registry does.
AcceptancesAgree ==
  restarts = 0 =>
    /\ \A r \in References :
         byReference[r] # None /\ byReference[r].status = "accepted"
           => phase[byReference[r].key] \in {"accepting", "accepted"}
    /\ \A k \in Keys :
         phase[k] = "accepted" => byReference[held[k]].status = "accepted"

\* Neither lost completions of issueDocument nor restarts of the worker keep the
\* Case from going on.
IssueCompletes == \A k \in Keys : <>(phase[k] # "issuing")

\* "Every issue-document emits DecisionRecord events -- allocated / issued /
\* delivered" (docs/architecture/04-flow-and-case-layer.md:531): when the step goes
\* on, they are in the Case's history.
IssueRecorded ==
  \A k \in Keys :
    phase[k] # "issuing" =>
      \E i \in DOMAIN history[k] : history[k][i] = "document.issued"

\* The lifecycle mutation is memoized, "exactly-once-ish under at-least-once
\* execution" (docs/architecture/04-flow-and-case-layer.md:414): an acceptance whose
\* completion was lost completes when it is retried.
AcceptCompletes ==
  \A k \in Keys : phase[k] = "accepting" ~> phase[k] = "accepted"

\* A presenter's status check and an auditor's query "are guaranteed consistent"
\* (docs/architecture/08-audit-and-observability.md:190): a Document the Case says
\* was declined does not verify as still issued.
DeclineVerifies ==
  \A k \in Keys :
    phase[k] = "declined" => byReference[held[k]].status # "issued"
=============================================================================
