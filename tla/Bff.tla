-------------------------------- MODULE Bff --------------------------------
(***************************************************************************)
(* The entity store and its callers, who keep the snapshots they are given.*)
(* On the TypeScript store sits the generated BFF (packages/api/src/bff.ts)*)
(* whose handle() is synchronous: one action per route.  Routing and the   *)
(* validation of bodies against the emitted OpenAPI are the contract's; a  *)
(* body is valid or it is not.  The Kotlin repository is called directly.  *)
(***************************************************************************)
EXTENDS EntityStore

CONSTANT Clients

VARIABLES
  idCounter,  \* the next generated id
  status,     \* status of the last response; 500: handle() threw
  view        \* the last snapshot each caller was given

bff == <<store, idCounter, status, view>>

BffTypeOK ==
  /\ StoreTypeOK
  /\ idCounter \in Nat
  /\ status \in {200, 201, 204, 404, 422, 500}
  /\ view \in [Clients -> [id: Ids, row: StoredEntity] \cup {None}]

Respond(s) == status' = s

See(c, id) == view' = [view EXCEPT ![c] = [id |-> id, row |-> rows'[id]]]

-----------------------------------------------------------------------------

\* A create whose body names the record, or leaves it to be named.  The counter
\* counts on even if the id it gave is taken.
PostCreate(c, named) ==
  LET id == IF named = None THEN idCounter ELSE named
  IN /\ id \in Ids
     /\ idCounter' = IF named = None THEN idCounter + 1 ELSE idCounter
     /\ IF Free(id)
        THEN \E d \in Data : Create(id, None, d) /\ Respond(201) /\ See(c, id)
        ELSE Respond(500) /\ UNCHANGED <<store, view>>

GetRead(c, id) ==
  /\ UNCHANGED <<store, idCounter>>
  /\ IF Live(id) THEN Respond(200) /\ See(c, id) ELSE Respond(404) /\ UNCHANGED view

\* A client changes a record, whether or not it is still as it was read.
PatchUpdate(c, id) ==
  /\ IF Live(id)
     THEN \E d \in Data : Update(id, d) /\ Respond(200) /\ See(c, id)
     ELSE Respond(404) /\ UNCHANGED <<store, view>>
  /\ UNCHANGED idCounter

RemoveRecord(id) ==
  /\ IF Live(id) THEN Delete(id) /\ Respond(204)
     ELSE Respond(404) /\ UNCHANGED store
  /\ UNCHANGED <<idCounter, view>>

\* A body that the contract's schema refuses.
BoundaryRejection ==
  /\ Respond(422)
  /\ UNCHANGED <<store, idCounter, view>>

Relay ==
  /\ RelayOutbox
  /\ UNCHANGED <<idCounter, status, view>>

BffInit ==
  /\ StoreInit
  /\ idCounter = 0 /\ status = 200
  /\ view = [c \in Clients |-> None]

Route ==
  \/ \E c \in Clients :
       \/ \E named \in Ids \cup {None} : PostCreate(c, named)
       \/ \E id \in Ids : GetRead(c, id) \/ PatchUpdate(c, id)
  \/ \E id \in Ids : RemoveRecord(id)
  \/ BoundaryRejection

\* A caller of the repository itself, on behalf of a Case.
Call ==
  /\ UNCHANGED <<idCounter, status>>
  /\ \E c \in Clients, id \in Ids :
       \/ \E k \in Cases, d \in Data : Create(id, k, d) /\ See(c, id)
       \/ \E d \in Data : Update(id, d) /\ See(c, id)
       \/ Delete(id) /\ UNCHANGED view
       \/ Live(id) /\ UNCHANGED store /\ See(c, id)

BffNext ==
  \/ binding = "ts" /\ Route
  \/ binding = "kotlin" /\ Call
  \/ Relay

BffSpec == BffInit /\ [][BffNext]_bff

-----------------------------------------------------------------------------
(* Properties.                                                             *)

\* The "optimistic-concurrency version" (schemas/entity.tsp:82) detects every change:
\* if a record still has the version a client read, in the same life, it still says
\* what the client read.  (The TypeScript binding starts a new life at version one
\* again, so there the stamp of the creation belongs to the version.)
VersionDetectsChange ==
  \A c \in Clients :
    LET seen == view[c].row
        now  == rows[view[c].id]
    IN view[c] # None /\ now.version = seen.version
         /\ (binding = "ts" => now.createdSeq = seen.createdSeq)
       => now = seen

\* "Create a LoanApplication (boundary-validated); 201 with the persisted record, or
\* 422" (schemas/entity-api.tsp:134): handle() answers every request.
AlwaysAnswers == status # 500
=============================================================================
